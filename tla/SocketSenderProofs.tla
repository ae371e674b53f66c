------------------------- MODULE SocketSenderProofs -------------------------
(***************************************************************************)
(* Proofs about the connection to the control process, for any number of   *)
(* threads that push messages, any length of the queue and any number of   *)
(* messages, frames and failures.                                          *)
(***************************************************************************)
EXTENDS SocketSender, FiniteSetTheorems, SequenceTheorems, TLAPS

Links == [open : BOOLEAN, peerOpen : BOOLEAN, out : Seq(Seqs \X (1 .. 2)),
          in : Seq(Frames \X Nat)]

-----------------------------------------------------------------------------
(* Connections. *)

LEMMA LinkTyped ==
    ASSUME NEW a \in BOOLEAN, NEW b \in BOOLEAN, NEW out \in Seq(Seqs \X (1 .. 2)),
           NEW in \in Seq(Frames \X Nat)
    PROVE  Link(a, b, out, in) \in Links
BY DEF Link, Links

LEMMA ConnTyped ==
    ASSUME TypeOK
    PROVE  /\ conn \in Seq(Links) /\ fd \in 0 .. Len(conn) /\ Len(conn) \in Nat
           /\ DOMAIN conn = 1 .. Len(conn)
           /\ \A i \in DOMAIN conn :
                 /\ conn[i] \in Links
                 /\ conn[i].open \in BOOLEAN /\ conn[i].peerOpen \in BOOLEAN
                 /\ conn[i].out \in Seq(Seqs \X (1 .. 2)) /\ conn[i].in \in Seq(Frames \X Nat)
<1>1. conn \in Seq(Links) /\ fd \in 0 .. Len(conn)
  BY DEF TypeOK, Links
<1>2. \A i \in DOMAIN conn : conn[i] \in Links
  BY <1>1
<1>3. \A c \in Links : /\ c.open \in BOOLEAN /\ c.peerOpen \in BOOLEAN
                       /\ c.out \in Seq(Seqs \X (1 .. 2)) /\ c.in \in Seq(Frames \X Nat)
  BY DEF Links
<1> QED
  BY <1>1, <1>2, <1>3

LEMMA ConnUpdate ==
    ASSUME NEW c \in Seq(Links), NEW i \in DOMAIN c, NEW new \in Links
    PROVE  /\ [c EXCEPT ![i] = new] \in Seq(Links)
           /\ Len([c EXCEPT ![i] = new]) = Len(c)
           /\ DOMAIN [c EXCEPT ![i] = new] = DOMAIN c
           /\ [c EXCEPT ![i] = new][i] = new
           /\ \A j \in DOMAIN c : j # i => [c EXCEPT ![i] = new][j] = c[j]
OBVIOUS

(* disconnectSocket() closes the connection fd_ stands for and touches no other. *)
LEMMA DisconnectIs ==
    ASSUME TypeOK, DisconnectSocket
    PROVE  /\ conn' \in Seq(Links) /\ Len(conn') = Len(conn) /\ DOMAIN conn' = DOMAIN conn
           /\ fd' = 0
           /\ \A i \in DOMAIN conn :
                /\ conn'[i].out = conn[i].out /\ conn'[i].peerOpen = conn[i].peerOpen
                /\ i # fd => conn'[i] = conn[i]
                /\ i = fd => conn'[i].open = FALSE /\ conn'[i].in = <<>>
<1>1. CASE fd = 0
  BY <1>1, ConnTyped DEF DisconnectSocket
<1>2. CASE fd # 0
  <2>1. fd \in DOMAIN conn
    BY <1>2, ConnTyped
  <2> DEFINE new == Link(FALSE, conn[fd].peerOpen, conn[fd].out, <<>>)
  <2>2. conn' = [conn EXCEPT ![fd] = new] /\ fd' = 0
    BY <1>2, <2>1 DEF DisconnectSocket
  <2>3. /\ new.open = FALSE /\ new.in = <<>> /\ new.out = conn[fd].out
        /\ new.peerOpen = conn[fd].peerOpen
    BY DEF Link
  <2>4. new \in Links
    <3>1. /\ FALSE \in BOOLEAN /\ conn[fd].peerOpen \in BOOLEAN
          /\ conn[fd].out \in Seq(Seqs \X (1 .. 2)) /\ <<>> \in Seq(Frames \X Nat)
      BY <2>1, ConnTyped
    <3> QED
      BY <3>1, LinkTyped, Zenon
  <2> HIDE DEF new
  <2> QED
    BY <2>1, <2>2, <2>3, <2>4, ConnTyped, ConnUpdate
<1> QED
  BY <1>1, <1>2

LEMMA ConnectIs ==
    ASSUME TypeOK, ConnectSucceeds
    PROVE  /\ conn' \in Seq(Links) /\ Len(conn') = Len(conn) + 1
           /\ DOMAIN conn' = DOMAIN conn \cup {Len(conn) + 1}
           /\ \A i \in DOMAIN conn : conn'[i] = conn[i]
           /\ conn'[Len(conn) + 1].open = TRUE /\ conn'[Len(conn) + 1].peerOpen = TRUE
           /\ conn'[Len(conn) + 1].out = <<>> /\ conn'[Len(conn) + 1].in = <<>>
<1> DEFINE new == Link(TRUE, TRUE, <<>>, <<>>)
<1>1. conn' = Append(conn, new)
  BY DEF ConnectSucceeds
<1>2. new.open = TRUE /\ new.peerOpen = TRUE /\ new.out = <<>> /\ new.in = <<>>
  BY DEF Link
<1>3. new \in Links
  <2>1. TRUE \in BOOLEAN /\ <<>> \in Seq(Seqs \X (1 .. 2)) /\ <<>> \in Seq(Frames \X Nat)
    OBVIOUS
  <2> QED
    BY <2>1, LinkTyped, Zenon
<1> HIDE DEF new
<1> QED
  BY <1>1, <1>2, <1>3, ConnTyped

(* The connections send() and recv() can reach are open. *)
LEMMA ReachedIsOpen ==
    ASSUME TypeOK, NEW u \in DOMAIN conn, NEW i \in Reached(u), i # 0
    PROVE  i \in DOMAIN conn /\ conn[i].open
BY DEF Reached

-----------------------------------------------------------------------------
(* The two threads. *)

Senders == [pc : SenderPcs, item : Seqs \cup {NoSeq}, piece : 1 .. 2, used : 0 .. Len(conn)]
Receivers == [pc : ReceiverPcs, got : Seq(Frames \X Nat), used : 0 .. Len(conn),
              on : 0 .. Len(conn), ack : Seqs \cup {NoSeq}]

LEMMA ThreadsTyped ==
    ASSUME TypeOK
    PROVE  /\ sender \in Senders /\ receiver \in Receivers
           /\ sender.pc \in SenderPcs /\ sender.item \in Seqs \cup {NoSeq} /\ sender.piece \in 1 .. 2
           /\ sender.used \in 0 .. Len(conn)
           /\ receiver.got \in Seq(Frames \X Nat) /\ receiver.used \in 0 .. Len(conn)
           /\ receiver.on \in 0 .. Len(conn) /\ receiver.ack \in Seqs \cup {NoSeq}
<1>1. sender \in Senders /\ receiver \in Receivers
  BY DEF TypeOK, Senders, Receivers
<1>2. /\ sender.pc \in SenderPcs /\ sender.item \in Seqs \cup {NoSeq} /\ sender.piece \in 1 .. 2
      /\ sender.used \in 0 .. Len(conn)
  BY <1>1 DEF Senders
<1>3. /\ receiver.got \in Seq(Frames \X Nat) /\ receiver.used \in 0 .. Len(conn)
      /\ receiver.on \in 0 .. Len(conn) /\ receiver.ack \in Seqs \cup {NoSeq}
  BY <1>1 DEF Receivers
<1> QED
  BY <1>1, <1>2, <1>3

LEMMA SenderStateIs ==
    ASSUME NEW pc, NEW item, NEW piece, NEW used
    PROVE  LET s == SenderState(pc, item, piece, used) IN
           s.pc = pc /\ s.item = item /\ s.piece = piece /\ s.used = used
BY DEF SenderState

LEMMA ReceiverStateIs ==
    ASSUME NEW pc, NEW got, NEW used, NEW on, NEW ack
    PROVE  LET r == ReceiverState(pc, got, used, on, ack) IN
           r.pc = pc /\ r.got = got /\ r.used = used /\ r.on = on /\ r.ack = ack
BY DEF ReceiverState

LEMMA SenderGotoIs ==
    ASSUME TypeOK, NEW from, NEW to \in SenderPcs, SenderGoto(from, to)
    PROVE  /\ sender.pc = from /\ sender'.pc = to /\ sender' \in Senders
           /\ sender'.item = sender.item /\ sender'.piece = sender.piece /\ sender'.used = sender.used
BY ThreadsTyped DEF SenderGoto, Senders

LEMMA ReceiverGotoIs ==
    ASSUME TypeOK, NEW from, NEW to \in ReceiverPcs, ReceiverGoto(from, to)
    PROVE  /\ receiver.pc = from /\ receiver'.pc = to /\ receiver' \in Receivers
           /\ receiver'.got = receiver.got /\ receiver'.used = receiver.used
           /\ receiver'.on = receiver.on /\ receiver'.ack = receiver.ack
BY ThreadsTyped DEF ReceiverGoto, Receivers

-----------------------------------------------------------------------------
(* What a step does to the connections and to the send thread. *)

LEMMA CountsTyped ==
    ASSUME TypeOK
    PROVE  /\ MaxSeq \in Nat /\ MaxFrames \in Nat /\ MaxMessages \in Nat
           /\ QueueSize \in Nat /\ QueueSize > 0
           /\ queue \in Seq(Seqs) /\ Len(queue) <= QueueSize /\ accepted \in Seq(Seqs)
           /\ nextSeq \in 0 .. MaxSeq /\ nextSeq \in Nat
           /\ sent \in Nat /\ failed \in Nat /\ dropped \in Nat
           /\ carrier \in Seq(1 .. Len(conn)) /\ Len(carrier) <= MaxFrames /\ delivered \in Seq(Frames)
<1>1. /\ MaxSeq \in Nat /\ MaxFrames \in Nat /\ MaxMessages \in Nat
      /\ QueueSize \in Nat /\ QueueSize > 0
  BY SenderAssumption DEF MaxSeq
<1>2. queue \in Seq(Seqs) /\ Len(queue) <= QueueSize /\ accepted \in Seq(Seqs)
  BY DEF TypeOK
<1>3. /\ nextSeq \in 0 .. MaxSeq
      /\ sent \in 0 .. MaxSeq /\ failed \in 0 .. MaxSeq /\ dropped \in 0 .. MaxSeq
  BY DEF TypeOK
<1>4. carrier \in Seq(1 .. Len(conn)) /\ Len(carrier) <= MaxFrames /\ delivered \in Seq(Frames)
  BY DEF TypeOK
<1> QED
  BY <1>1, <1>2, <1>3, <1>4

(* The numbers of messages are naturals. *)
LEMMA SeqsTyped ==
    ASSUME TypeOK
    PROVE  /\ MaxSeq \in Nat /\ nextSeq \in Nat /\ nextSeq <= MaxSeq
           /\ \A m \in Seqs : m \in Int
           /\ \A k \in DOMAIN accepted : accepted[k] \in Int
<1>1. MaxSeq \in Nat /\ nextSeq \in 0 .. MaxSeq
  BY CountsTyped
<1>2. \A m \in Seqs : m \in Int
  BY <1>1 DEF Seqs
<1>3. \A k \in DOMAIN accepted : accepted[k] \in Seqs
  BY CountsTyped, SMTT(30)
<1> QED
  BY <1>1, <1>2, <1>3

(* The number that a step gives out is one of them. *)
LEMMA NumberGiven ==
    ASSUME TypeOK, nextSeq' \in 0 .. MaxSeq, nextSeq' = nextSeq + 1 PROVE nextSeq \in Seqs
<1>1. MaxSeq \in Nat /\ nextSeq \in Nat
  BY SeqsTyped
<1>2. nextSeq + 1 <= MaxSeq
  BY <1>1
<1> QED
  BY <1>1, <1>2 DEF Seqs

LEMMA FaultTyped ==
    ASSUME TypeOK
    PROVE  faults \in 0 .. MaxFaults /\ (Fault => faults' \in 0 .. MaxFaults)
<1>1. faults \in 0 .. MaxFaults
  BY DEF TypeOK
<1> QED
  BY <1>1, SenderAssumption DEF Fault

SenderMoves == SendLoopTop \/ TestConnected \/ ConnectFails \/ PopNothing

LEMMA SenderMovesIs ==
    ASSUME TypeOK, SenderMoves
    PROVE  /\ UNCHANGED <<queue, qStopped, dropped, accepted, nextSeq, producer, delivered, swallowed, fd, conn,
                          receiver, sent, failed, stopper, listening, carrier>>
           /\ faults' \in 0 .. MaxFaults
           /\ sender.pc \in {"top", "test", "connect", "pop"}
           /\ sender'.pc \in {"top", "test", "connect", "pop", "exited"}
           /\ sender'.pc = "connect" => fd = 0
           /\ sender' \in Senders
           /\ sender'.item = sender.item /\ sender'.piece = sender.piece /\ sender'.used = sender.used
<1>1. UNCHANGED <<queue, qStopped, dropped, accepted, nextSeq, producer, delivered, swallowed, fd, conn,
                  receiver, sent, failed, stopper, listening, carrier>>
  BY DEF SenderMoves, SendLoopTop, TestConnected, ConnectFails, PopNothing,
         queueVars, appVars, socketVars, countVars, envVars, peerVars
<1>0. faults' \in 0 .. MaxFaults
  <2>1. UNCHANGED faults \/ Fault
    BY DEF SenderMoves, SendLoopTop, TestConnected, ConnectFails, PopNothing, envVars, peerVars
  <2> QED
    BY <2>1, FaultTyped
<1>2. PICK from \in {"top", "test", "connect", "pop"}, to \in {"top", "test", "connect", "pop", "exited"} :
         SenderGoto(from, to) /\ (to = "connect" => fd = 0)
  BY DEF SenderMoves, SendLoopTop, TestConnected, ConnectFails, PopNothing, Connected
<1>3. to \in SenderPcs
  BY DEF SenderPcs
<1> QED
  BY <1>0, <1>1, <1>2, <1>3, SenderGotoIs

(* The receive thread is in the middle of a frame, or about to read one. *)
Midway == receiver.pc \in {"fetch", "recv", "blocked"}

(* The number a thread is about to use is one it has read from fd_, and the pieces of a
   frame it has read so far are as many as its place in the loop says. *)
Shape ==
    /\ sender.pc = "send" => sender.used # 0
    /\ sender.pc \in {"fetch", "send"} => sender.item # NoSeq
    /\ sender.piece = 2 => sender.pc \in {"fetch", "send"}
    /\ receiver.pc \in {"top", "test", "ack", "fail", "drop", "exited"} => receiver.got = <<>>
    /\ Midway /\ Len(receiver.got) >= 2 => HeaderOk(receiver.got) /\ Len(receiver.got) < Size(receiver.got[2][1])
    /\ receiver.pc = "deliver" => HeaderOk(receiver.got) /\ Whole(receiver.got)
    /\ receiver.pc = "recv" => receiver.used # 0
    /\ receiver.pc = "blocked" => receiver.on # 0

LEMMA StoreFdIs ==
    ASSUME TypeOK, StoreFd
    PROVE  /\ UNCHANGED <<queue, qStopped, dropped, accepted, nextSeq, producer, delivered, swallowed, conn,
                          receiver, sent, failed, stopper, listening, carrier, faults>>
           /\ fd' = Len(conn)
           /\ sender.pc = "store" /\ sender'.pc = "pop" /\ sender' \in Senders
           /\ sender'.item = sender.item /\ sender'.piece = sender.piece /\ sender'.used = sender.used
<1>1. "pop" \in SenderPcs
  BY DEF SenderPcs
<1> QED
  BY <1>1, SenderGotoIs DEF StoreFd, queueVars, appVars, countVars, envVars, peerVars

LEMMA PopItemIs ==
    ASSUME TypeOK, PopItem
    PROVE  /\ UNCHANGED <<qStopped, dropped, accepted, nextSeq, producer, delivered, swallowed, fd, conn, receiver,
                          sent, failed, stopper, listening, carrier, faults>>
           /\ queue # <<>> /\ queue' = Tail(queue)
           /\ sender.pc = "pop" /\ sender'.pc = "fetch"
           /\ sender'.item = Head(queue) /\ sender'.piece = 1 /\ sender'.used = 0
           /\ sender' \in Senders
<1>1. /\ UNCHANGED <<qStopped, dropped, accepted, nextSeq, producer, delivered, swallowed, fd, conn, receiver,
                     sent, failed, stopper, listening, carrier, faults>>
      /\ queue # <<>> /\ queue' = Tail(queue) /\ sender.pc = "pop"
      /\ sender' = SenderState("fetch", Head(queue), 1, 0)
  BY DEF PopItem, appVars, socketVars, countVars, envVars, peerVars
<1>2. Head(queue) \in Seqs /\ "fetch" \in SenderPcs /\ Len(conn) \in Nat
  <2>1. queue \in Seq(Seqs) /\ Len(conn) \in Nat
    BY ConnTyped, CountsTyped
  <2>2. Head(queue) \in Seqs
    BY <1>1, <2>1
  <2> QED
    BY <2>1, <2>2 DEF SenderPcs
<1>3. SenderState("fetch", Head(queue), 1, 0) \in Senders
  BY <1>2 DEF SenderState, Senders
<1> QED
  BY <1>1, <1>3, SenderStateIs

LEMMA WriteFetchIs ==
    ASSUME TypeOK, WriteFetch
    PROVE  /\ UNCHANGED <<queue, qStopped, dropped, accepted, nextSeq, producer, delivered, swallowed, fd, conn,
                          receiver, sent, failed, stopper, listening, carrier, faults>>
           /\ sender.pc = "fetch" /\ sender'.pc = "send" /\ fd # 0
           /\ sender'.item = sender.item /\ sender'.piece = sender.piece /\ sender'.used = fd
           /\ sender' \in Senders
<1>1. /\ UNCHANGED <<queue, qStopped, dropped, accepted, nextSeq, producer, delivered, swallowed, fd, conn,
                     receiver, sent, failed, stopper, listening, carrier, faults>>
      /\ sender.pc = "fetch" /\ fd # 0
      /\ sender' = SenderState("send", sender.item, sender.piece, fd)
  BY DEF WriteFetch, Connected, queueVars, appVars, socketVars, countVars, envVars, peerVars
<1>2. "send" \in SenderPcs
  BY DEF SenderPcs
<1>3. SenderState("send", sender.item, sender.piece, fd) \in Senders
  BY <1>2, ThreadsTyped, ConnTyped DEF SenderState, Senders
<1> QED
  BY <1>1, <1>3, SenderStateIs

(* A piece is written at the end of an open connection. *)
LEMMA WriteIs ==
    ASSUME TypeOK, Shape, WriteSucceeds
    PROVE  /\ UNCHANGED <<queue, qStopped, dropped, accepted, nextSeq, producer, delivered, swallowed, fd, receiver,
                          failed, stopper, listening, carrier, faults>>
           /\ sender.pc = "send"
           /\ conn' \in Seq(Links) /\ Len(conn') = Len(conn) /\ DOMAIN conn' = DOMAIN conn
           /\ \E i \in DOMAIN conn :
                /\ conn[i].open
                /\ conn'[i].open = conn[i].open /\ conn'[i].peerOpen = conn[i].peerOpen
                /\ conn'[i].in = conn[i].in
                /\ conn'[i].out = Append(conn[i].out, <<sender.item, sender.piece>>)
                /\ \A j \in DOMAIN conn : j # i => conn'[j] = conn[j]
           /\ \/ /\ sender.piece = 2 /\ sent' = sent + 1
                 /\ sender'.pc = "top" /\ sender'.item = NoSeq /\ sender'.piece = 1 /\ sender'.used = 0
              \/ /\ sender.piece = 1 /\ sent' = sent
                 /\ sender'.pc = "fetch" /\ sender'.item = sender.item /\ sender'.piece = 2
                 /\ sender'.used = 0
           /\ sender' \in Senders
<1>1. /\ UNCHANGED <<queue, qStopped, dropped, accepted, nextSeq, producer, delivered, swallowed, fd, receiver,
                     failed, stopper, listening, carrier, faults>>
      /\ sender.pc = "send"
  BY DEF WriteSucceeds, queueVars, appVars, envVars, peerVars
<1>2. PICK i \in Reached(sender.used) \ {0} :
         conn' = [conn EXCEPT ![i] = Link(@.open, @.peerOpen,
                                          Append(@.out, <<sender.item, sender.piece>>), @.in)]
  BY DEF WriteSucceeds
<1>3. sender.used \in DOMAIN conn
  BY <1>1, ConnTyped, ThreadsTyped DEF Shape
<1>4. i \in DOMAIN conn /\ conn[i].open
  BY <1>3, ReachedIsOpen
<1>5. sender.item \in Seqs /\ sender.piece \in 1 .. 2
  BY <1>1, ThreadsTyped DEF Shape
<1> DEFINE new == Link(conn[i].open, conn[i].peerOpen,
                       Append(conn[i].out, <<sender.item, sender.piece>>), conn[i].in)
<1>6. conn' = [conn EXCEPT ![i] = new]
  BY <1>2
<1>7. /\ new.open = conn[i].open /\ new.peerOpen = conn[i].peerOpen /\ new.in = conn[i].in
      /\ new.out = Append(conn[i].out, <<sender.item, sender.piece>>)
  BY DEF Link
<1>8. new \in Links
  <2>1. /\ conn[i].open \in BOOLEAN /\ conn[i].peerOpen \in BOOLEAN
        /\ conn[i].in \in Seq(Frames \X Nat) /\ conn[i].out \in Seq(Seqs \X (1 .. 2))
    BY <1>4, ConnTyped
  <2>2. Append(conn[i].out, <<sender.item, sender.piece>>) \in Seq(Seqs \X (1 .. 2))
    BY <1>5, <2>1
  <2> QED
    BY <2>1, <2>2, LinkTyped
<1> HIDE DEF new
<1>9. /\ conn' \in Seq(Links) /\ Len(conn') = Len(conn) /\ DOMAIN conn' = DOMAIN conn
      /\ conn'[i] = new /\ \A j \in DOMAIN conn : j # i => conn'[j] = conn[j]
  BY <1>4, <1>6, <1>8, ConnTyped, ConnUpdate
<1>10. \/ sender.piece = 2 /\ sent' = sent + 1 /\ sender' = SenderState("top", NoSeq, 1, 0)
       \/ sender.piece = 1 /\ sent' = sent /\ sender' = SenderState("fetch", sender.item, 2, 0)
  BY <1>5 DEF WriteSucceeds, SenderTop, SenderAt
<1>11. sender' \in Senders
  <2>1. "top" \in SenderPcs /\ "fetch" \in SenderPcs /\ Len(conn) \in Nat
    BY ConnTyped DEF SenderPcs
  <2>2. SenderState("top", NoSeq, 1, 0) \in Senders /\ SenderState("fetch", sender.item, 2, 0) \in Senders
    BY <1>5, <2>1 DEF SenderState, Senders
  <2> QED
    BY <1>10, <2>2
<1>12. \/ /\ sender.piece = 2 /\ sent' = sent + 1
          /\ sender'.pc = "top" /\ sender'.item = NoSeq /\ sender'.piece = 1 /\ sender'.used = 0
       \/ /\ sender.piece = 1 /\ sent' = sent
          /\ sender'.pc = "fetch" /\ sender'.item = sender.item /\ sender'.piece = 2
          /\ sender'.used = 0
  BY <1>10, SenderStateIs
<1> QED
  BY <1>1, <1>4, <1>7, <1>9, <1>11, <1>12

LEMMA WriteFailsIs ==
    ASSUME TypeOK, WriteFails
    PROVE  /\ UNCHANGED <<queue, qStopped, dropped, accepted, nextSeq, producer, delivered, swallowed, fd, conn,
                          receiver, sent, stopper, listening, carrier>>
           /\ failed' = failed + 1 /\ faults' \in 0 .. MaxFaults
           /\ sender.pc \in {"fetch", "send"} /\ sender'.pc = "disconnect"
           /\ sender'.item = NoSeq /\ sender'.piece = 1 /\ sender'.used = 0 /\ sender' \in Senders
<1>1. /\ UNCHANGED <<queue, qStopped, dropped, accepted, nextSeq, producer, delivered, swallowed, fd, conn,
                     receiver, sent, stopper, listening, carrier>>
      /\ failed' = failed + 1 /\ sender.pc \in {"fetch", "send"}
      /\ sender' = SenderState("disconnect", NoSeq, 1, 0)
  BY DEF WriteFails, SenderAt, queueVars, appVars, socketVars
<1>2. UNCHANGED faults \/ Fault
  BY DEF WriteFails
<1>3. SenderState("disconnect", NoSeq, 1, 0) \in Senders
  BY ConnTyped DEF SenderState, Senders, SenderPcs
<1> QED
  BY <1>1, <1>2, <1>3, SenderStateIs, FaultTyped

LEMMA SenderDisconnectIs ==
    ASSUME TypeOK, SenderDisconnect
    PROVE  /\ UNCHANGED <<queue, qStopped, dropped, accepted, nextSeq, producer, delivered, swallowed, receiver,
                          sent, failed, stopper, listening, carrier, faults>>
           /\ DisconnectSocket /\ sender.pc = "disconnect"
           /\ sender'.pc = "top" /\ sender'.item = NoSeq /\ sender'.piece = 1 /\ sender'.used = 0
           /\ sender' \in Senders
<1>1. /\ UNCHANGED <<queue, qStopped, dropped, accepted, nextSeq, producer, delivered, swallowed, receiver,
                     sent, failed, stopper, listening, carrier, faults>>
      /\ DisconnectSocket /\ sender.pc = "disconnect"
      /\ sender' = SenderState("top", NoSeq, 1, 0)
  BY DEF SenderDisconnect, SenderTop, SenderAt, queueVars, appVars, countVars, envVars, peerVars
<1>2. SenderState("top", NoSeq, 1, 0) \in Senders
  BY ConnTyped DEF SenderState, Senders, SenderPcs
<1> QED
  BY <1>1, <1>2, SenderStateIs

-----------------------------------------------------------------------------
(* What a step does to the receive thread. *)

RestOfReceive == <<queue, qStopped, dropped, accepted, producer, sender, sent, failed, stopper,
                   listening, carrier, faults>>

LEMMA RecvMovesIs ==
    ASSUME TypeOK, RecvLoopTop \/ RecvTestConnected
    PROVE  /\ UNCHANGED <<RestOfReceive, nextSeq, delivered, swallowed, conn, fd>>
           /\ receiver.pc \in {"top", "test"} /\ receiver'.pc \in {"top", "test", "fetch", "exited"}
           /\ receiver.pc = "top" /\ StopFlag => receiver'.pc = "exited"
           /\ receiver.pc = "top" => receiver'.pc \in {"test", "exited"}
           /\ receiver'.got = receiver.got /\ receiver'.used = receiver.used
           /\ receiver'.on = receiver.on /\ receiver'.ack = receiver.ack /\ receiver' \in Receivers
<1>1. UNCHANGED <<RestOfReceive, nextSeq, delivered, swallowed, conn, fd>>
  BY DEF RecvLoopTop, RecvTestConnected, RestOfReceive, queueVars, appVars, socketVars, countVars,
         envVars, peerVars
<1>2. PICK from \in {"top", "test"}, to \in {"top", "test", "fetch", "exited"} :
         /\ ReceiverGoto(from, to)
         /\ from = "top" /\ StopFlag => to = "exited"
         /\ from = "top" => to \in {"test", "exited"}
  BY DEF RecvLoopTop, RecvTestConnected
<1>3. to \in ReceiverPcs
  BY DEF ReceiverPcs
<1> QED
  BY <1>1, <1>2, <1>3, ReceiverGotoIs

LEMMA ReceiverStateTyped ==
    ASSUME TypeOK, NEW pc \in ReceiverPcs, NEW got \in Seq(Frames \X Nat),
           NEW used \in 0 .. Len(conn), NEW on \in 0 .. Len(conn), NEW ack \in Seqs \cup {NoSeq}
    PROVE  ReceiverState(pc, got, used, on, ack) \in Receivers
BY DEF ReceiverState, Receivers

LEMMA FailedIs ==
    ASSUME TypeOK
    PROVE  /\ ReceiverFailed \in Receivers /\ ReceiverFailed.pc = "fail" /\ ReceiverFailed.got = <<>>
           /\ ReceiverTop \in Receivers /\ ReceiverTop.pc = "top" /\ ReceiverTop.got = <<>>
BY ConnTyped DEF ReceiverFailed, ReceiverTop, ReceiverHolds, ReceiverState, Receivers, ReceiverPcs

LEMMA ReadFetchIs ==
    ASSUME TypeOK, ReadFetch
    PROVE  /\ UNCHANGED <<RestOfReceive, nextSeq, delivered, swallowed, conn, fd>>
           /\ receiver.pc = "fetch" /\ receiver' \in Receivers
           /\ \/ fd # 0 /\ receiver'.pc = "recv" /\ receiver'.got = receiver.got /\ receiver'.used = fd
              \/ fd = 0 /\ receiver'.pc = "fail" /\ receiver'.got = <<>>
<1>1. UNCHANGED <<RestOfReceive, nextSeq, delivered, swallowed, conn, fd>> /\ receiver.pc = "fetch"
  BY DEF ReadFetch, RestOfReceive, queueVars, appVars, socketVars, countVars, envVars, peerVars
<1>2. \/ fd # 0 /\ receiver' = ReceiverState("recv", receiver.got, fd, 0, NoSeq)
      \/ fd = 0 /\ receiver' = ReceiverFailed
  BY DEF ReadFetch, Connected
<1>3. ReceiverState("recv", receiver.got, fd, 0, NoSeq) \in Receivers
  <2>1. /\ "recv" \in ReceiverPcs /\ receiver.got \in Seq(Frames \X Nat)
        /\ fd \in 0 .. Len(conn) /\ 0 \in 0 .. Len(conn) /\ NoSeq \in Seqs \cup {NoSeq}
    BY ThreadsTyped, ConnTyped DEF ReceiverPcs
  <2> QED
    BY <2>1, ReceiverStateTyped, Zenon
<1> QED
  BY <1>1, <1>2, <1>3, FailedIs, ReceiverStateIs

LEMMA RecvEnterIs ==
    ASSUME TypeOK, Shape, RecvEnter
    PROVE  /\ UNCHANGED <<RestOfReceive, nextSeq, delivered, swallowed, conn, fd>>
           /\ receiver.pc = "recv" /\ receiver' \in Receivers
           /\ \/ /\ receiver'.pc = "blocked" /\ receiver'.got = receiver.got
                 /\ receiver'.on \in DOMAIN conn /\ conn[receiver'.on].open
              \/ receiver'.pc = "fail" /\ receiver'.got = <<>>
<1>1. UNCHANGED <<RestOfReceive, nextSeq, delivered, swallowed, conn, fd>> /\ receiver.pc = "recv"
  BY DEF RecvEnter, RestOfReceive, queueVars, appVars, socketVars, countVars, envVars, peerVars
<1>2. receiver.used \in DOMAIN conn
  BY <1>1, ThreadsTyped, ConnTyped DEF Shape
<1>3. PICK i \in Reached(receiver.used) :
         \/ i # 0 /\ receiver' = ReceiverState("blocked", receiver.got, 0, i, NoSeq)
         \/ i = 0 /\ receiver' = ReceiverFailed
  BY DEF RecvEnter
<1>4. CASE i # 0 /\ receiver' = ReceiverState("blocked", receiver.got, 0, i, NoSeq)
  <2>1. i \in DOMAIN conn /\ conn[i].open
    BY <1>2, <1>4, ReachedIsOpen
  <2>2. ReceiverState("blocked", receiver.got, 0, i, NoSeq) \in Receivers
    <3>1. /\ "blocked" \in ReceiverPcs /\ receiver.got \in Seq(Frames \X Nat)
          /\ i \in 0 .. Len(conn) /\ 0 \in 0 .. Len(conn) /\ NoSeq \in Seqs \cup {NoSeq}
      <4>1. receiver.got \in Seq(Frames \X Nat) /\ Len(conn) \in Nat /\ DOMAIN conn = 1 .. Len(conn)
        BY ThreadsTyped, ConnTyped, SMTT(30)
      <4> QED
        BY <2>1, <4>1 DEF ReceiverPcs
    <3> QED
      BY <3>1, ReceiverStateTyped, Zenon
  <2> QED
    BY <1>1, <1>4, <2>1, <2>2, ReceiverStateIs
<1> QED
  BY <1>1, <1>3, <1>4, FailedIs

LEMMA SizeTyped == ASSUME NEW n \in Frames PROVE Size(n) \in Nat /\ Size(n) > 2
BY SenderAssumption DEF Size, Frames

(* recv() takes the first piece of an open connection; the pieces in hand are then a
   header, a frame or the beginning of one. *)
LEMMA RecvDataIs ==
    ASSUME TypeOK, Shape, RecvData
    PROVE  LET i == receiver.on
               got == Append(receiver.got, Head(conn[i].in))
           IN
           /\ UNCHANGED <<RestOfReceive, nextSeq, delivered, fd>>
           /\ swallowed' = IF Len(receiver.got) >= 2 /\ carrier[receiver.got[2][1]] # i
                           THEN swallowed \cup {Head(conn[i].in)[1]} ELSE swallowed
           /\ got \in Seq(Frames \X Nat) /\ Len(got) = Len(receiver.got) + 1
           /\ receiver.pc = "blocked" /\ receiver' \in Receivers
           /\ i \in DOMAIN conn /\ conn[i].open /\ conn[i].in # <<>>
           /\ conn' \in Seq(Links) /\ Len(conn') = Len(conn) /\ DOMAIN conn' = DOMAIN conn
           /\ conn'[i].open = conn[i].open /\ conn'[i].peerOpen = conn[i].peerOpen
           /\ conn'[i].out = conn[i].out /\ conn'[i].in = Tail(conn[i].in)
           /\ \A j \in DOMAIN conn : j # i => conn'[j] = conn[j]
           /\ \/ Len(got) = 2 /\ ~HeaderOk(got) /\ receiver'.pc = "fail" /\ receiver'.got = <<>>
              \/ HeaderOk(got) /\ Whole(got) /\ receiver'.pc = "deliver" /\ receiver'.got = got
              \/ /\ Len(got) >= 2 => HeaderOk(got) /\ Len(got) < Size(got[2][1])
                 /\ receiver'.pc = "fetch" /\ receiver'.got = got
<1> DEFINE i == receiver.on
           got == Append(receiver.got, Head(conn[i].in))
           new == Link(conn[i].open, conn[i].peerOpen, conn[i].out, Tail(conn[i].in))
<1>1. /\ UNCHANGED <<RestOfReceive, nextSeq, delivered, fd>>
      /\ swallowed' = IF Len(receiver.got) >= 2 /\ carrier[receiver.got[2][1]] # i
                      THEN swallowed \cup {Head(conn[i].in)[1]} ELSE swallowed
      /\ receiver.pc = "blocked" /\ conn[i].open /\ conn[i].in # <<>>
      /\ conn' = [conn EXCEPT ![i] = new]
      /\ receiver' = AfterPiece(got)
  BY DEF RecvData, RestOfReceive, queueVars, appVars, countVars, envVars, peerVars
<1>2. i \in DOMAIN conn
  BY <1>1, ThreadsTyped, ConnTyped DEF Shape
<1>3. /\ conn[i].open \in BOOLEAN /\ conn[i].peerOpen \in BOOLEAN
      /\ conn[i].out \in Seq(Seqs \X (1 .. 2)) /\ conn[i].in \in Seq(Frames \X Nat)
  BY <1>2, ConnTyped
<1>4. Tail(conn[i].in) \in Seq(Frames \X Nat) /\ Head(conn[i].in) \in Frames \X Nat
  BY <1>1, <1>3
<1>5. new \in Links
  BY <1>3, <1>4, LinkTyped
<1>6. /\ new.open = conn[i].open /\ new.peerOpen = conn[i].peerOpen
      /\ new.out = conn[i].out /\ new.in = Tail(conn[i].in)
  BY DEF Link
<1> HIDE DEF new
<1>7. /\ conn' \in Seq(Links) /\ Len(conn') = Len(conn) /\ DOMAIN conn' = DOMAIN conn
      /\ conn'[i] = new /\ \A j \in DOMAIN conn : j # i => conn'[j] = conn[j]
  BY <1>1, <1>2, <1>5, ConnTyped, ConnUpdate
<1>8. receiver.got \in Seq(Frames \X Nat)
  BY ThreadsTyped
<1>a. /\ got \in Seq(Frames \X Nat) /\ Len(got) = Len(receiver.got) + 1 /\ Len(receiver.got) \in Nat
      /\ \A k \in 1 .. Len(receiver.got) : got[k] = receiver.got[k]
  BY <1>4, <1>8
<1> HIDE DEF got
<1>b. Len(got) > 2 => HeaderOk(got) /\ Len(got) <= Size(got[2][1])
  <2> SUFFICES ASSUME Len(got) > 2 PROVE HeaderOk(got) /\ Len(got) <= Size(got[2][1])
    OBVIOUS
  <2>1. Len(receiver.got) >= 2 /\ Len(receiver.got) \in Nat
    BY <1>a
  <2>2. HeaderOk(receiver.got) /\ Len(receiver.got) < Size(receiver.got[2][1])
    BY <1>1, <2>1 DEF Shape, Midway
  <2>3. receiver.got[2][1] \in Frames
    BY <1>8, <2>1
  <2>4. got[1] = receiver.got[1] /\ got[2] = receiver.got[2]
    BY <1>a, <2>1
  <2> QED
    <3>1. HeaderOk(got)
      BY <2>2, <2>4 DEF HeaderOk
    <3>2. Size(receiver.got[2][1]) \in Nat
      BY <2>3, SizeTyped
    <3>3. Len(got) <= Size(receiver.got[2][1])
      BY <1>a, <2>2, <3>2
    <3> QED
      BY <2>4, <3>1, <3>3
<1>c. Len(got) >= 2 => Size(got[2][1]) \in Nat /\ Size(got[2][1]) > 2
  <2>1. got \in Seq(Frames \X Nat)
    BY <1>a
  <2>2. Len(got) >= 2 => got[2] \in Frames \X Nat
    BY <2>1
  <2> QED
    BY <2>2, SizeTyped
<1>9. /\ ReceiverHolds("deliver", got) \in Receivers /\ ReceiverHolds("fetch", got) \in Receivers
      /\ ReceiverHolds("deliver", got).pc = "deliver" /\ ReceiverHolds("deliver", got).got = got
      /\ ReceiverHolds("fetch", got).pc = "fetch" /\ ReceiverHolds("fetch", got).got = got
  BY <1>a, ConnTyped DEF ReceiverHolds, ReceiverState, Receivers, ReceiverPcs
<1>10. \/ Len(got) = 2 /\ ~HeaderOk(got) /\ receiver' = ReceiverFailed
       \/ (Len(got) = 2 => HeaderOk(got)) /\ Whole(got) /\ receiver' = ReceiverHolds("deliver", got)
       \/ (Len(got) = 2 => HeaderOk(got)) /\ ~Whole(got) /\ receiver' = ReceiverHolds("fetch", got)
  BY <1>1 DEF AfterPiece
<1>d. Whole(got) => HeaderOk(got)
  BY <1>b DEF Whole
<1>e. (Len(got) = 2 => HeaderOk(got)) /\ ~Whole(got) /\ Len(got) >= 2
          => HeaderOk(got) /\ Len(got) < Size(got[2][1])
  BY <1>a, <1>b, <1>c DEF Whole
<1>11. /\ receiver' \in Receivers
       /\ \/ Len(got) = 2 /\ ~HeaderOk(got) /\ receiver'.pc = "fail" /\ receiver'.got = <<>>
          \/ HeaderOk(got) /\ Whole(got) /\ receiver'.pc = "deliver" /\ receiver'.got = got
          \/ /\ Len(got) >= 2 => HeaderOk(got) /\ Len(got) < Size(got[2][1])
             /\ receiver'.pc = "fetch" /\ receiver'.got = got
  BY <1>9, <1>10, <1>d, <1>e, FailedIs
<1>12. /\ conn'[i].open = conn[i].open /\ conn'[i].peerOpen = conn[i].peerOpen
       /\ conn'[i].out = conn[i].out /\ conn'[i].in = Tail(conn[i].in)
  BY <1>6, <1>7
<1>13. got \in Seq(Frames \X Nat) /\ Len(got) = Len(receiver.got) + 1
  BY <1>a
<1> QED
  BY <1>1, <1>2, <1>7, <1>11, <1>12, <1>13, Zenon DEF got

LEMMA RecvEndIs ==
    ASSUME TypeOK, RecvEnd
    PROVE  /\ UNCHANGED <<RestOfReceive, nextSeq, delivered, swallowed, conn, fd>>
           /\ receiver.pc = "blocked" /\ receiver'.pc = "fail" /\ receiver'.got = <<>>
           /\ receiver' \in Receivers
BY FailedIs DEF RecvEnd, RestOfReceive, queueVars, appVars, socketVars, countVars, envVars, peerVars

LEMMA ReceiverFailsIs ==
    ASSUME TypeOK, ReceiverFails
    PROVE  /\ UNCHANGED <<RestOfReceive, nextSeq, delivered, swallowed, conn, fd>>
           /\ receiver.pc = "fail"
           /\ receiver'.pc = "drop" \/ (StopFlag /\ receiver'.pc = "top")
           /\ receiver'.got = receiver.got /\ receiver' \in Receivers
<1>1. UNCHANGED <<RestOfReceive, nextSeq, delivered, swallowed, conn, fd>>
  BY DEF ReceiverFails, RestOfReceive, queueVars, appVars, socketVars, countVars, envVars, peerVars
<1>2. ReceiverGoto("fail", "drop") \/ (StopFlag /\ ReceiverGoto("fail", "top"))
  BY DEF ReceiverFails
<1>3. "drop" \in ReceiverPcs /\ "top" \in ReceiverPcs
  BY DEF ReceiverPcs
<1> QED
  BY <1>1, <1>2, <1>3, ReceiverGotoIs

LEMMA ReceiverDisconnectIs ==
    ASSUME TypeOK, ReceiverDisconnect
    PROVE  /\ UNCHANGED <<RestOfReceive, nextSeq, delivered, swallowed>>
           /\ receiver.pc = "drop" /\ receiver'.pc = "top" /\ receiver'.got = receiver.got
           /\ receiver' \in Receivers /\ DisconnectSocket
<1>1. UNCHANGED <<RestOfReceive, nextSeq, delivered, swallowed>> /\ DisconnectSocket
  BY DEF ReceiverDisconnect, RestOfReceive, queueVars, appVars, countVars, envVars, peerVars
<1>2. ReceiverGoto("drop", "top") /\ "top" \in ReceiverPcs
  BY DEF ReceiverDisconnect, ReceiverPcs
<1> QED
  BY <1>1, <1>2, ReceiverGotoIs

LEMMA OnRecvIs ==
    ASSUME TypeOK, OnRecv
    PROVE  /\ UNCHANGED <<RestOfReceive, swallowed, conn, fd>>
           /\ receiver.pc = "deliver" /\ receiver'.got = <<>>
           /\ LET n == receiver.got[2][1] IN
              \/ /\ \E j \in 3 .. Len(receiver.got) : receiver.got[j] # <<n, j>>
                 /\ receiver'.pc = "top"
                 /\ UNCHANGED <<delivered, nextSeq>> /\ receiver' \in Receivers
              \/ /\ \A j \in 3 .. Len(receiver.got) : receiver.got[j] = <<n, j>>
                 /\ delivered' = Append(delivered, n)
                 /\ receiver'.pc = "ack" /\ receiver'.ack = nextSeq /\ nextSeq' = nextSeq + 1
                 /\ receiver' = ReceiverState("ack", <<>>, 0, 0, nextSeq)
<1>1. UNCHANGED <<RestOfReceive, swallowed, conn, fd>> /\ receiver.pc = "deliver"
  BY DEF OnRecv, RestOfReceive, queueVars, socketVars, countVars, envVars, peerVars
<1>2. \/ /\ \E j \in 3 .. Len(receiver.got) : receiver.got[j] # <<receiver.got[2][1], j>>
         /\ receiver' = ReceiverTop
         /\ UNCHANGED <<delivered, nextSeq>>
      \/ /\ \A j \in 3 .. Len(receiver.got) : receiver.got[j] = <<receiver.got[2][1], j>>
         /\ delivered' = Append(delivered, receiver.got[2][1])
         /\ receiver' = ReceiverState("ack", <<>>, 0, 0, nextSeq) /\ nextSeq' = nextSeq + 1
  BY DEF OnRecv
<1> QED
  BY <1>1, <1>2, FailedIs, ReceiverStateIs

LEMMA PushAckIs ==
    ASSUME TypeOK, PushAck
    PROVE  /\ UNCHANGED <<nextSeq, producer, delivered, swallowed, fd, conn, sender, sent, failed, stopper,
                          listening, carrier, faults>>
           /\ receiver.pc = "ack" /\ Push(receiver.ack)
           /\ receiver'.pc = "top" /\ receiver'.got = <<>> /\ receiver' \in Receivers
BY FailedIs DEF PushAck, appVars, socketVars, countVars, envVars, peerVars

-----------------------------------------------------------------------------
(* The other threads and the peer. *)

LEMMA PeerSendsIs ==
    ASSUME TypeOK, NEW i \in DOMAIN conn, PeerSends(i)
    PROVE  /\ UNCHANGED <<queue, qStopped, dropped, accepted, nextSeq, producer, delivered, swallowed, fd, sender,
                          receiver, sent, failed, stopper, listening, faults>>
           /\ conn[i].open /\ conn[i].peerOpen
           /\ carrier' = Append(carrier, i) /\ Len(carrier) < MaxFrames
           /\ conn' \in Seq(Links) /\ Len(conn') = Len(conn) /\ DOMAIN conn' = DOMAIN conn
           /\ conn'[i].open = conn[i].open /\ conn'[i].peerOpen = conn[i].peerOpen
           /\ conn'[i].out = conn[i].out
           /\ conn'[i].in = conn[i].in \o Pieces(Len(carrier) + 1)
           /\ \A j \in DOMAIN conn : j # i => conn'[j] = conn[j]
<1> DEFINE new == Link(TRUE, TRUE, conn[i].out, conn[i].in \o Pieces(Len(carrier) + 1))
<1>1. /\ UNCHANGED <<queue, qStopped, dropped, accepted, nextSeq, producer, delivered, swallowed, fd, sender,
                     receiver, sent, failed, stopper, listening, faults>>
      /\ conn[i].open /\ conn[i].peerOpen
      /\ carrier' = Append(carrier, i) /\ Len(carrier) < MaxFrames
      /\ conn' = [conn EXCEPT ![i] = new]
  BY DEF PeerSends, queueVars, appVars, countVars
<1>2. conn[i].out \in Seq(Seqs \X (1 .. 2)) /\ conn[i].in \in Seq(Frames \X Nat)
  BY ConnTyped
<1>3. conn[i].open = TRUE /\ conn[i].peerOpen = TRUE
  BY <1>1, ConnTyped
<1>4. Len(carrier) + 1 \in Frames
  <2>1. Len(carrier) \in Nat /\ MaxFrames \in Nat
    BY CountsTyped
  <2> QED
    BY <1>1, <2>1 DEF Frames
<1>5. Pieces(Len(carrier) + 1) \in Seq(Frames \X Nat)
  BY <1>4, SizeTyped DEF Pieces
<1>6. new \in Links
  <2>1. conn[i].in \o Pieces(Len(carrier) + 1) \in Seq(Frames \X Nat)
    BY <1>2, <1>5
  <2>2. TRUE \in BOOLEAN
    OBVIOUS
  <2> QED
    BY <1>2, <2>1, <2>2, LinkTyped, Zenon
<1>7. /\ new.open = TRUE /\ new.peerOpen = TRUE /\ new.out = conn[i].out
      /\ new.in = conn[i].in \o Pieces(Len(carrier) + 1)
  BY DEF Link
<1> HIDE DEF new
<1>8. /\ conn' \in Seq(Links) /\ Len(conn') = Len(conn) /\ DOMAIN conn' = DOMAIN conn
      /\ conn'[i] = new /\ \A j \in DOMAIN conn : j # i => conn'[j] = conn[j]
  BY <1>1, <1>6, ConnTyped, ConnUpdate
<1> QED
  BY <1>1, <1>3, <1>7, <1>8

LEMMA PeerClosesIs ==
    ASSUME TypeOK, NEW i \in DOMAIN conn, PeerCloses(i)
    PROVE  /\ UNCHANGED <<queue, qStopped, dropped, accepted, nextSeq, producer, delivered, swallowed, fd, sender,
                          receiver, sent, failed, stopper, listening, carrier>>
           /\ faults' \in 0 .. MaxFaults
           /\ conn' \in Seq(Links) /\ Len(conn') = Len(conn) /\ DOMAIN conn' = DOMAIN conn
           /\ conn'[i].open = conn[i].open /\ conn'[i].peerOpen = FALSE
           /\ conn'[i].out = conn[i].out
           /\ \E k \in 0 .. Len(conn[i].in) : conn'[i].in = SubSeq(conn[i].in, 1, k)
           /\ \A j \in DOMAIN conn : j # i => conn'[j] = conn[j]
<1>1. /\ UNCHANGED <<queue, qStopped, dropped, accepted, nextSeq, producer, delivered, swallowed, fd, sender,
                     receiver, sent, failed, stopper, listening, carrier>>
      /\ conn[i].open /\ Fault
  BY DEF PeerCloses, queueVars, appVars, countVars
<1>2. PICK k \in 0 .. Len(conn[i].in) :
         conn' = [conn EXCEPT ![i] = Link(TRUE, FALSE, @.out, SubSeq(@.in, 1, k))]
  BY DEF PeerCloses
<1> DEFINE new == Link(TRUE, FALSE, conn[i].out, SubSeq(conn[i].in, 1, k))
<1>3. conn[i].out \in Seq(Seqs \X (1 .. 2)) /\ conn[i].in \in Seq(Frames \X Nat)
  BY ConnTyped
<1>4. conn[i].open = TRUE
  BY <1>1, ConnTyped
<1>5. new \in Links
  <2>1. SubSeq(conn[i].in, 1, k) \in Seq(Frames \X Nat)
    BY <1>3
  <2>2. TRUE \in BOOLEAN /\ FALSE \in BOOLEAN
    OBVIOUS
  <2> QED
    BY <1>3, <2>1, <2>2, LinkTyped, Zenon
<1>6. /\ new.open = TRUE /\ new.peerOpen = FALSE /\ new.out = conn[i].out
      /\ new.in = SubSeq(conn[i].in, 1, k)
  BY DEF Link
<1>7. conn' = [conn EXCEPT ![i] = new]
  BY <1>2
<1> HIDE DEF new
<1>8. /\ conn' \in Seq(Links) /\ Len(conn') = Len(conn) /\ DOMAIN conn' = DOMAIN conn
      /\ conn'[i] = new /\ \A j \in DOMAIN conn : j # i => conn'[j] = conn[j]
  BY <1>5, <1>7, ConnTyped, ConnUpdate
<1> QED
  BY <1>1, <1>4, <1>6, <1>8, FaultTyped

(* Steps that concern neither the connections nor the threads that use them. *)
AppStep == (\E p \in Producers : Producer(p)) \/ SetStopFlag \/ StopQueue \/ JoinThreads \/ PeerListens

LEMMA AppStepIs ==
    ASSUME AppStep
    PROVE  /\ UNCHANGED <<fd, conn, sender, receiver, sent, failed, carrier, delivered, swallowed, faults>>
           /\ StopFlag => StopFlag'
BY DEF AppStep, Producer, TakeSeq, PushMessage, SetStopFlag, StopQueue, JoinThreads, PeerListens,
       StopperGoto, StopFlag, socketVars, countVars, envVars, peerVars, appVars

LEMMA StopDisconnectIs ==
    ASSUME StopDisconnect
    PROVE  /\ UNCHANGED <<queue, qStopped, dropped, accepted, nextSeq, producer, delivered, swallowed, sender,
                          receiver, sent, failed, listening, carrier, faults>>
           /\ DisconnectSocket /\ StopFlag' /\ stopper' \in StopperPcs
BY DEF StopDisconnect, StopperGoto, StopFlag, StopperPcs, queueVars, appVars, countVars, peerVars

(* Every step is one of those above. *)
LEMMA NextIs ==
    ASSUME Next
    PROVE  \/ AppStep \/ StopDisconnect
           \/ SenderMoves \/ ConnectSucceeds \/ StoreFd \/ PopItem \/ WriteFetch \/ WriteSucceeds
           \/ WriteFails \/ SenderDisconnect
           \/ (RecvLoopTop \/ RecvTestConnected) \/ ReadFetch \/ RecvEnter \/ RecvData \/ RecvEnd
           \/ ReceiverFails \/ ReceiverDisconnect \/ OnRecv \/ PushAck
           \/ \E i \in DOMAIN conn : PeerSends(i) \/ PeerCloses(i)
BY DEF Next, AppStep, SendThread, ReceiveThread, StopProgress, Peer, SenderMoves

-----------------------------------------------------------------------------
(* One connection at a time. *)

(* An open connection is the last one made, and fd_ stands for it, except between
   connect() and the assignment of fd_. *)
Sockets ==
    /\ \A i \in DOMAIN conn :
          conn[i].open => i = Len(conn) /\ (fd = i \/ (fd = 0 /\ sender.pc = "store"))
    /\ fd # 0 => conn[fd].open
    /\ sender.pc = "connect" => fd = 0
    /\ sender.pc = "store" => fd = 0 /\ Len(conn) > 0 /\ conn[Len(conn)].open

LEMMA ShapeStep == TypeOK /\ Shape /\ [Next]_vars => Shape'
<1> SUFFICES ASSUME TypeOK, Shape, [Next]_vars PROVE Shape'
  OBVIOUS
<1>1. CASE UNCHANGED <<sender, receiver>>
  BY <1>1 DEF Shape, Midway
<1>2. CASE SenderMoves
  BY <1>2, SenderMovesIs DEF Shape, Midway
<1>3. CASE ConnectSucceeds
  <2>1. SenderGoto("connect", "store") /\ UNCHANGED receiver /\ "store" \in SenderPcs
    BY <1>3 DEF ConnectSucceeds, SenderPcs
  <2> QED
    BY <2>1, SenderGotoIs DEF Shape, Midway
<1>4. CASE StoreFd
  BY <1>4, StoreFdIs DEF Shape, Midway
<1>5. CASE PopItem
  <2>1. Head(queue) # NoSeq
    <3>1. Head(queue) \in Seqs
      BY <1>5, PopItemIs, CountsTyped, SMTT(30)
    <3> QED
      BY <3>1, CountsTyped, SMTT(30) DEF Seqs, NoSeq
  <2> QED
    BY <1>5, <2>1, PopItemIs DEF Shape, Midway
<1>6. CASE WriteFetch
  BY <1>6, WriteFetchIs DEF Shape, Midway
<1>7. CASE WriteSucceeds
  BY <1>7, WriteIs DEF Shape, Midway
<1>8. CASE WriteFails
  BY <1>8, WriteFailsIs DEF Shape, Midway
<1>9. CASE SenderDisconnect
  BY <1>9, SenderDisconnectIs DEF Shape, Midway
<1>10. CASE RecvLoopTop \/ RecvTestConnected
  <2>1. UNCHANGED sender /\ receiver.got = <<>> /\ receiver'.got = <<>>
    BY <1>10, RecvMovesIs DEF Shape, Midway, RestOfReceive
  <2>2. receiver'.pc \in {"top", "test", "fetch", "exited"}
    BY <1>10, RecvMovesIs
  <2> QED
    BY <2>1, <2>2 DEF Shape, Midway
<1>11. CASE ReadFetch
  BY <1>11, ReadFetchIs DEF Shape, Midway, RestOfReceive
<1>12. CASE RecvEnter
  BY <1>12, RecvEnterIs, ConnTyped DEF Shape, Midway, RestOfReceive
<1>13. CASE RecvData
  <2>1. UNCHANGED sender
    BY <1>13, RecvDataIs DEF RestOfReceive
  <2>2. \/ receiver'.pc = "fail" /\ receiver'.got = <<>>
        \/ receiver'.pc = "deliver" /\ HeaderOk(receiver'.got) /\ Whole(receiver'.got)
        \/ /\ receiver'.pc = "fetch"
           /\ Len(receiver'.got) >= 2
                 => HeaderOk(receiver'.got) /\ Len(receiver'.got) < Size(receiver'.got[2][1])
    <3> DEFINE got == Append(receiver.got, Head(conn[receiver.on].in))
    <3>1. \/ receiver'.pc = "fail" /\ receiver'.got = <<>>
          \/ HeaderOk(got) /\ Whole(got) /\ receiver'.pc = "deliver" /\ receiver'.got = got
          \/ /\ Len(got) >= 2 => HeaderOk(got) /\ Len(got) < Size(got[2][1])
             /\ receiver'.pc = "fetch" /\ receiver'.got = got
      BY <1>13, RecvDataIs
    <3> HIDE DEF got
    <3> QED
      BY <3>1, Zenon
  <2> QED
    BY <2>1, <2>2 DEF Shape, Midway
<1>14. CASE RecvEnd
  BY <1>14, RecvEndIs DEF Shape, Midway, RestOfReceive
<1>15. CASE ReceiverFails
  BY <1>15, ReceiverFailsIs DEF Shape, Midway, RestOfReceive
<1>22. CASE ReceiverDisconnect
  BY <1>22, ReceiverDisconnectIs DEF Shape, Midway, RestOfReceive
<1>16. CASE OnRecv
  BY <1>16, OnRecvIs DEF Shape, Midway, RestOfReceive
<1>17. CASE PushAck
  BY <1>17, PushAckIs DEF Shape, Midway
<1>18. ASSUME NEW i \in DOMAIN conn, PeerSends(i) \/ PeerCloses(i) PROVE Shape'
  BY <1>1, <1>18, PeerSendsIs, PeerClosesIs
<1>19. CASE AppStep
  BY <1>1, <1>19, AppStepIs
<1>20. CASE StopDisconnect
  BY <1>1, <1>20, StopDisconnectIs
<1>21. CASE UNCHANGED vars
  BY <1>1, <1>21 DEF vars
<1> QED
  BY <1>2, <1>3, <1>4, <1>5, <1>6, <1>7, <1>8, <1>9, <1>10, <1>11, <1>12, <1>13, <1>14, <1>15, <1>16,
     <1>17, <1>18, <1>19, <1>20, <1>21, <1>22, NextIs

LEMMA SocketsStep == TypeOK /\ Shape /\ Sockets /\ [Next]_vars => Sockets'
<1> SUFFICES ASSUME TypeOK, Shape, Sockets, [Next]_vars PROVE Sockets'
  OBVIOUS
<1>0. DOMAIN conn = 1 .. Len(conn) /\ Len(conn) \in Nat /\ fd \in 0 .. Len(conn)
  BY ConnTyped
<1>1. ASSUME DOMAIN conn' = DOMAIN conn, Len(conn') = Len(conn), fd' = fd,
             \A i \in DOMAIN conn : conn'[i].open = conn[i].open,
             \/ sender'.pc = sender.pc
             \/ sender.pc # "store" /\ sender'.pc # "store" /\ (sender'.pc = "connect" => fd = 0)
      PROVE  Sockets'
  BY <1>0, <1>1 DEF Sockets
<1>2. ASSUME UNCHANGED <<conn, fd>>,
             \/ sender'.pc = sender.pc
             \/ sender.pc # "store" /\ sender'.pc # "store" /\ (sender'.pc = "connect" => fd = 0)
      PROVE  Sockets'
  BY <1>1, <1>2
<1>3. ASSUME DisconnectSocket, sender'.pc = sender.pc \/ (sender.pc = "disconnect" /\ sender'.pc = "top")
      PROVE  Sockets'
  <2>1. /\ DOMAIN conn' = DOMAIN conn /\ Len(conn') = Len(conn) /\ fd' = 0
        /\ \A i \in DOMAIN conn : /\ i # fd => conn'[i].open = conn[i].open
                                  /\ i = fd => conn'[i].open = FALSE
    BY <1>3, DisconnectIs
  <2>2. ASSUME NEW i \in DOMAIN conn, conn'[i].open
        PROVE  i = Len(conn) /\ fd = 0 /\ sender.pc = "store"
    BY <2>1, <2>2 DEF Sockets
  <2>3. sender.pc = "store" => conn'[Len(conn)].open
    BY <1>0, <2>1 DEF Sockets
  <2> QED
    BY <1>3, <2>1, <2>2, <2>3 DEF Sockets
<1>4. CASE SenderMoves
  BY <1>2, <1>4, SenderMovesIs
<1>5. CASE ConnectSucceeds
  <2>1. SenderGoto("connect", "store") /\ UNCHANGED fd /\ "store" \in SenderPcs
    BY <1>5 DEF ConnectSucceeds, SenderPcs
  <2>2. sender.pc = "connect" /\ sender'.pc = "store" /\ fd' = 0
    BY <2>1, SenderGotoIs DEF Sockets
  <2>3. \A i \in DOMAIN conn : ~conn[i].open
    BY <1>0, <2>2, <2>1 DEF Sockets
  <2>4. /\ Len(conn') = Len(conn) + 1 /\ DOMAIN conn' = DOMAIN conn \cup {Len(conn) + 1}
        /\ \A i \in DOMAIN conn : conn'[i] = conn[i]
        /\ conn'[Len(conn) + 1].open = TRUE
    BY <1>5, ConnectIs
  <2> QED
    BY <1>0, <2>2, <2>3, <2>4 DEF Sockets
<1>6. CASE StoreFd
  <2>1. UNCHANGED conn /\ fd' = Len(conn) /\ sender.pc = "store" /\ sender'.pc = "pop"
    BY <1>6, StoreFdIs
  <2> QED
    BY <1>0, <2>1 DEF Sockets
<1>7. CASE PopItem \/ WriteFetch \/ WriteFails
  BY <1>2, <1>7, PopItemIs, WriteFetchIs, WriteFailsIs
<1>8. CASE WriteSucceeds
  <2>1. /\ DOMAIN conn' = DOMAIN conn /\ Len(conn') = Len(conn) /\ fd' = fd
        /\ \A j \in DOMAIN conn : conn'[j].open = conn[j].open
        /\ sender.pc = "send" /\ sender'.pc \in {"top", "fetch"}
    BY <1>8, WriteIs
  <2> QED
    BY <1>1, <2>1
<1>9. CASE SenderDisconnect
  BY <1>3, <1>9, SenderDisconnectIs
<1>10. CASE RecvLoopTop \/ RecvTestConnected
  BY <1>2, <1>10, RecvMovesIs DEF RestOfReceive
<1>11. CASE ReadFetch \/ RecvEnter \/ RecvEnd
  BY <1>2, <1>11, ReadFetchIs, RecvEnterIs, RecvEndIs DEF RestOfReceive
<1>12. CASE RecvData
  <2>1. /\ DOMAIN conn' = DOMAIN conn /\ Len(conn') = Len(conn) /\ fd' = fd
        /\ \A j \in DOMAIN conn : conn'[j].open = conn[j].open
        /\ sender' = sender
    BY <1>12, RecvDataIs DEF RestOfReceive
  <2> QED
    BY <1>1, <2>1
<1>13. CASE ReceiverFails \/ ReceiverDisconnect
  BY <1>2, <1>3, <1>13, ReceiverFailsIs, ReceiverDisconnectIs DEF RestOfReceive
<1>14. CASE OnRecv \/ PushAck
  BY <1>2, <1>14, OnRecvIs, PushAckIs DEF RestOfReceive
<1>15. ASSUME NEW i \in DOMAIN conn, PeerSends(i) PROVE Sockets'
  <2>1. /\ DOMAIN conn' = DOMAIN conn /\ Len(conn') = Len(conn) /\ fd' = fd
        /\ \A j \in DOMAIN conn : conn'[j].open = conn[j].open
        /\ sender' = sender
    BY <1>15, PeerSendsIs
  <2> QED
    BY <1>1, <2>1
<1>16. ASSUME NEW i \in DOMAIN conn, PeerCloses(i) PROVE Sockets'
  <2>1. /\ DOMAIN conn' = DOMAIN conn /\ Len(conn') = Len(conn) /\ fd' = fd
        /\ \A j \in DOMAIN conn : conn'[j].open = conn[j].open
        /\ sender' = sender
    BY <1>16, PeerClosesIs
  <2> QED
    BY <1>1, <2>1
<1>17. CASE AppStep
  BY <1>2, <1>17, AppStepIs
<1>18. CASE StopDisconnect
  BY <1>3, <1>18, StopDisconnectIs
<1>19. CASE UNCHANGED vars
  BY <1>2, <1>19 DEF vars, socketVars
<1> QED
  BY <1>4, <1>5, <1>6, <1>7, <1>8, <1>9, <1>10, <1>11, <1>12, <1>13, <1>14, <1>15, <1>16, <1>17, <1>18,
     <1>19, NextIs

-----------------------------------------------------------------------------
(* The queue. *)

(* The effect of push(). *)
LEMMA PushIs ==
    ASSUME TypeOK, NEW m \in Seqs, Push(m)
    PROVE  /\ UNCHANGED qStopped
           /\ \/ UNCHANGED <<queue, dropped, accepted>>
              \/ /\ accepted' = Append(accepted, m)
                 /\ \/ queue' = Append(queue, m) /\ dropped' = dropped /\ Len(queue) < QueueSize
                    \/ /\ queue' = Append(Tail(queue), m) /\ dropped' = dropped + 1
                       /\ queue # <<>> /\ Len(queue) = QueueSize
<1>1. queue \in Seq(Seqs) /\ Len(queue) <= QueueSize /\ QueueSize \in Nat /\ QueueSize > 0
  BY CountsTyped
<1>2. UNCHANGED qStopped
  BY DEF Push
<1>3. \/ UNCHANGED <<queue, dropped, accepted>>
      \/ /\ accepted' = Append(accepted, m)
         /\ \/ queue' = Append(queue, m) /\ dropped' = dropped /\ ~(Len(queue) >= QueueSize)
            \/ queue' = Append(Tail(queue), m) /\ dropped' = dropped + 1 /\ Len(queue) >= QueueSize
  BY DEF Push
<1> QED
  BY <1>1, <1>2, <1>3

(* A sequence is the end of another. *)
LEMMA EndOf ==
    ASSUME NEW S, NEW q \in Seq(S), NEW a \in Seq(S), Len(q) <= Len(a)
    PROVE  q = SubSeq(a, Len(a) - Len(q) + 1, Len(a)) <=>
              \A k \in 1 .. Len(q) : q[k] = a[Len(a) - Len(q) + k]
<1> DEFINE m == Len(a) - Len(q) + 1
           t == SubSeq(a, m, Len(a))
<1>1. Len(q) \in Nat /\ Len(a) \in Nat /\ m \in Int /\ m \in 1 .. Len(a) + 1
  OBVIOUS
<1>2. \A k \in m .. Len(a) : a[k] \in S
  BY <1>1
<1>3. /\ t \in Seq(S) /\ Len(t) = IF m <= Len(a) THEN Len(a) - m + 1 ELSE 0
      /\ \A k \in 1 .. Len(a) - m + 1 : t[k] = a[m + k - 1]
  BY <1>1, <1>2, SubSeqProperties
<1>4. Len(t) = Len(q)
  BY <1>1, <1>3
<1>5. \A k \in 1 .. Len(q) : t[k] = a[Len(a) - Len(q) + k]
  BY <1>1, <1>3
<1> HIDE DEF t
<1>6. ASSUME \A k \in 1 .. Len(q) : q[k] = a[Len(a) - Len(q) + k] PROVE q = t
  BY <1>3, <1>4, <1>5, <1>6, SeqEqual
<1> QED
  BY <1>5, <1>6 DEF t

(* A sequence of different numbers is not longer than there are numbers. *)
LEMMA Distinct ==
    ASSUME NEW b \in Nat, NEW a \in Nat, NEW s \in Seq(a .. b), a <= b + 1,
           \A k, l \in DOMAIN s : s[k] = s[l] => k = l
    PROVE  Len(s) <= b - a + 1
<1>1. Len(s) \in Nat /\ DOMAIN s = 1 .. Len(s) /\ s \in [1 .. Len(s) -> a .. b]
  OBVIOUS
<1>2. IsFiniteSet(1 .. Len(s)) /\ Cardinality(1 .. Len(s)) = Len(s)
  <2>1. /\ IsFiniteSet(1 .. Len(s))
        /\ Cardinality(1 .. Len(s)) = IF 1 > Len(s) THEN 0 ELSE Len(s) - 1 + 1
    <3>1. 1 \in Int /\ Len(s) \in Int
      BY <1>1
    <3> QED
      BY <3>1, FS_Interval, Zenon
  <2> QED
    BY <1>1, <2>1
<1>3. IsFiniteSet(a .. b) /\ Cardinality(a .. b) = b - a + 1
  BY FS_Interval
<1>4. ASSUME Len(s) > b - a + 1 PROVE FALSE
  <2>1. \E k, l \in 1 .. Len(s) : k # l /\ s[k] = s[l]
    <3>1. Cardinality(a .. b) < Cardinality(1 .. Len(s))
      BY <1>1, <1>2, <1>3, <1>4
    <3> QED
      BY <1>1, <1>2, <1>3, <3>1, FS_PigeonHole, ZenonT(40)
  <2> QED
    BY <1>1, <2>1
<1> QED
  BY <1>1, <1>4

(* What waits is the end of what was accepted, and the counters add up. *)
Newest == \A k \in 1 .. Len(queue) : queue[k] = accepted[Len(accepted) - Len(queue) + k]
Counted == Len(accepted) = sent + failed + dropped + Len(queue) + InHand

(* A number that has been taken and not yet accepted. *)
Fresh(m) == m \in 0 .. nextSeq - 1 /\ \A k \in DOMAIN accepted : accepted[k] # m

(* No number is given out twice, and no more than the bound allows. *)
Numbered ==
    /\ \A k, l \in DOMAIN accepted : accepted[k] = accepted[l] => k = l
    /\ \A k \in DOMAIN accepted : accepted[k] < nextSeq
    /\ \A p \in Producers : producer[p] # NoSeq => Fresh(producer[p])
    /\ \A p, q \in Producers : producer[p] = producer[q] /\ producer[p] # NoSeq => p = q
    /\ receiver.pc = "ack" => Fresh(receiver.ack) /\ \A p \in Producers : producer[p] # receiver.ack
    /\ nextSeq <= MaxMessages + Len(delivered)

Queued == Newest /\ Counted /\ Numbered

LEMMA InHandTyped == InHand \in {0, 1}
BY DEF InHand

LEMMA Backlog == ASSUME TypeOK, Counted PROVE Len(queue) <= Len(accepted)
<1>1. sent \in Nat /\ failed \in Nat /\ dropped \in Nat /\ Len(queue) \in Nat /\ InHand \in Nat
  BY CountsTyped, InHandTyped, SMTT(30)
<1> QED
  BY <1>1 DEF Counted

LEMMA PushKeeps ==
    ASSUME TypeOK, Newest, Counted, NEW m \in Seqs, Push(m), UNCHANGED <<sent, failed, sender>>
    PROVE  Newest' /\ Counted'
<1>1. /\ queue \in Seq(Seqs) /\ accepted \in Seq(Seqs) /\ Len(queue) <= Len(accepted)
      /\ sent \in Nat /\ failed \in Nat /\ dropped \in Nat /\ InHand \in Nat
  BY CountsTyped, Backlog, InHandTyped
<1>2. InHand' = InHand
  BY DEF InHand
<1>3. CASE UNCHANGED <<queue, dropped, accepted>>
  BY <1>2, <1>3 DEF Newest, Counted
<1>4. CASE accepted' = Append(accepted, m) /\ queue' = Append(queue, m) /\ dropped' = dropped
  <2>1. Len(accepted') = Len(accepted) + 1 /\ Len(queue') = Len(queue) + 1
    BY <1>1, <1>4
  <2>2. Newest'
    <3> SUFFICES ASSUME NEW k \in 1 .. Len(queue')
                 PROVE  queue'[k] = accepted'[Len(accepted') - Len(queue') + k]
      BY DEF Newest
    <3>a. k \in 1 .. Len(queue) + 1 /\ Len(accepted') - Len(queue') + k = Len(accepted) - Len(queue) + k
      BY <1>1, <2>1
    <3> SUFFICES Append(queue, m)[k] = Append(accepted, m)[Len(accepted) - Len(queue) + k]
      BY <1>4, <3>a
    <3>1. CASE k = Len(queue) + 1
      BY <1>1, <3>1
    <3>2. CASE k \in 1 .. Len(queue)
      <4>1. Len(accepted) - Len(queue) + k \in 1 .. Len(accepted)
        BY <1>1, <3>2
      <4>2. queue[k] = accepted[Len(accepted) - Len(queue) + k]
        BY <3>2 DEF Newest
      <4> QED
        BY <1>1, <3>2, <4>1, <4>2
    <3> QED
      BY <1>1, <3>a, <3>1, <3>2, SMTT(30)
  <2>3. Counted'
    BY <1>1, <1>2, <1>4, <2>1 DEF Counted
  <2> QED
    BY <2>2, <2>3
<1>5. CASE /\ accepted' = Append(accepted, m) /\ queue' = Append(Tail(queue), m) /\ dropped' = dropped + 1
           /\ queue # <<>>
  <2>1. Len(accepted') = Len(accepted) + 1 /\ Len(queue') = Len(queue) /\ Len(queue) > 0
    BY <1>1, <1>5
  <2>2. Newest'
    <3> SUFFICES ASSUME NEW k \in 1 .. Len(queue')
                 PROVE  queue'[k] = accepted'[Len(accepted') - Len(queue') + k]
      BY DEF Newest
    <3>a. k \in 1 .. Len(queue) /\ Len(accepted') - Len(queue') + k = Len(accepted) + 1 - Len(queue) + k
      BY <1>1, <2>1
    <3> SUFFICES Append(Tail(queue), m)[k] = Append(accepted, m)[Len(accepted) + 1 - Len(queue) + k]
      BY <1>5, <3>a
    <3>0. Tail(queue) \in Seq(Seqs) /\ Len(Tail(queue)) = Len(queue) - 1
      BY <1>1, <1>5
    <3>1. CASE k = Len(queue)
      BY <1>1, <3>0, <3>1
    <3>2. CASE k \in 1 .. Len(queue) - 1
      <4>1. Len(accepted) + 1 - Len(queue) + k \in 1 .. Len(accepted)
        BY <1>1, <3>2
      <4>2. queue[k + 1] = accepted[Len(accepted) - Len(queue) + (k + 1)]
        BY <1>1, <3>2 DEF Newest
      <4>3. Tail(queue)[k] = queue[k + 1]
        BY <1>1, <1>5, <3>2
      <4>4. Append(Tail(queue), m)[k] = Tail(queue)[k]
        BY <3>0, <3>2
      <4> QED
        BY <1>1, <3>2, <4>1, <4>2, <4>3, <4>4
    <3> QED
      BY <1>1, <3>a, <3>1, <3>2
  <2>3. Counted'
    BY <1>1, <1>2, <1>5, <2>1 DEF Counted
  <2> QED
    BY <2>2, <2>3
<1> QED
  BY <1>3, <1>4, <1>5, PushIs

(* A number that is accepted is no longer fresh, every other one stays so. *)
LEMMA NumbersAfterPush ==
    ASSUME TypeOK, Numbered, NEW m \in Seqs, Fresh(m), Push(m), UNCHANGED nextSeq
    PROVE  /\ \A k, l \in DOMAIN accepted' : accepted'[k] = accepted'[l] => k = l
           /\ \A k \in DOMAIN accepted' : accepted'[k] < nextSeq'
           /\ \A x : Fresh(x) /\ x # m => Fresh(x)'
<1>1. CASE UNCHANGED accepted
  BY <1>1 DEF Numbered, Fresh
<1>2. CASE accepted' = Append(accepted, m)
  <2>1. accepted \in Seq(Seqs) /\ nextSeq \in Nat
    BY CountsTyped
  <2>2. /\ DOMAIN accepted' = DOMAIN accepted \cup {Len(accepted) + 1}
        /\ \A k \in DOMAIN accepted : accepted'[k] = accepted[k]
        /\ accepted'[Len(accepted) + 1] = m
    BY <1>2, <2>1
  <2>3. m < nextSeq /\ \A k \in DOMAIN accepted : accepted[k] # m
    BY <2>1 DEF Fresh
  <2> QED
    BY <2>2, <2>3 DEF Numbered, Fresh
<1> QED
  BY <1>1, <1>2, PushIs

LEMMA FreshIsSeq == ASSUME TypeOK, NEW m, Fresh(m) PROVE m \in Seqs /\ m # NoSeq
<1>1. MaxSeq \in Nat /\ nextSeq \in Nat /\ nextSeq <= MaxSeq
  BY SeqsTyped
<1>2. m \in 0 .. nextSeq - 1
  BY DEF Fresh
<1> QED
  BY <1>1, <1>2 DEF Seqs, NoSeq

LEMMA QueuedTake == ASSUME TypeOK, Queued, NEW p \in Producers, TakeSeq(p) PROVE Queued'
<1>1. /\ UNCHANGED <<queue, dropped, accepted, sender, receiver, sent, failed, delivered>>
      /\ nextSeq - Len(delivered) < MaxMessages
      /\ producer' = [producer EXCEPT ![p] = nextSeq] /\ nextSeq' = nextSeq + 1
  BY DEF TakeSeq, queueVars, countVars
<1>2. nextSeq \in Nat /\ Len(delivered) \in Nat /\ MaxMessages \in Nat /\ accepted \in Seq(Seqs)
  BY CountsTyped
<1>3. producer \in [Producers -> Seqs \cup {NoSeq}]
  BY DEF TypeOK
<1>4. producer'[p] = nextSeq /\ \A q \in Producers : q # p => producer'[q] = producer[q]
  BY <1>1, <1>3
<1>5. \A x : Fresh(x) => Fresh(x)' /\ x # nextSeq
  BY <1>1, <1>2 DEF Fresh
<1>6. ASSUME NEW x, x = nextSeq PROVE Fresh(x)'
  <2>1. \A k \in DOMAIN accepted : accepted[k] < nextSeq /\ accepted[k] \in Int
    BY SeqsTyped DEF Queued, Numbered
  <2>2. \A k \in DOMAIN accepted : accepted[k] # nextSeq
    BY <1>2, <2>1
  <2> QED
    BY <1>1, <1>2, <1>6, <2>2 DEF Fresh
<1>7. Numbered'
  <2>1. /\ \A k, l \in DOMAIN accepted' : accepted'[k] = accepted'[l] => k = l
        /\ \A k \in DOMAIN accepted' : accepted'[k] < nextSeq'
    <3>1. \A k \in DOMAIN accepted : accepted[k] < nextSeq /\ accepted[k] \in Int
      BY SeqsTyped DEF Queued, Numbered
    <3> QED
      BY <1>1, <1>2, <3>1 DEF Queued, Numbered
  <2>2. \A q \in Producers : producer'[q] # NoSeq => Fresh(producer[q])'
    <3> SUFFICES ASSUME NEW q \in Producers, NEW x, x = producer'[q], x # NoSeq PROVE Fresh(x)'
      BY DEF Fresh
    <3> QED
      BY <1>4, <1>5, <1>6 DEF Queued, Numbered
  <2>3. \A q, r \in Producers : producer'[q] = producer'[r] /\ producer'[q] # NoSeq => q = r
    BY <1>4, <1>5 DEF Queued, Numbered
  <2>4. receiver'.pc = "ack" => Fresh(receiver.ack)' /\ \A q \in Producers : producer'[q] # receiver'.ack
    <3> SUFFICES ASSUME receiver'.pc = "ack", NEW x, x = receiver'.ack
                 PROVE  Fresh(x)' /\ \A q \in Producers : producer'[q] # x
      BY DEF Fresh
    <3>1. receiver.pc = "ack" /\ x = receiver.ack
      BY <1>1
    <3>2. Fresh(x) /\ \A q \in Producers : producer[q] # x
      BY <3>1 DEF Queued, Numbered
    <3> QED
      BY <1>4, <1>5, <3>2
  <2>5. nextSeq' <= MaxMessages + Len(delivered')
    BY <1>1, <1>2
  <2> QED
    BY <2>1, <2>2, <2>3, <2>4, <2>5 DEF Numbered, Fresh
<1>8. Newest' /\ Counted'
  BY <1>1 DEF Queued, Newest, Counted, InHand
<1> QED
  BY <1>7, <1>8 DEF Queued

LEMMA QueuedPushMessage == ASSUME TypeOK, Queued, NEW p \in Producers, PushMessage(p) PROVE Queued'
<1> DEFINE m == producer[p]
<1>1. /\ UNCHANGED <<nextSeq, sender, receiver, sent, failed, delivered>>
      /\ m # NoSeq /\ Push(m) /\ producer' = [producer EXCEPT ![p] = NoSeq]
  BY DEF PushMessage, countVars
<1>2. producer \in [Producers -> Seqs \cup {NoSeq}]
  BY DEF TypeOK
<1>3. producer'[p] = NoSeq /\ \A q \in Producers : q # p => producer'[q] = producer[q]
  BY <1>1, <1>2
<1>4. Fresh(m) /\ m \in Seqs
  BY <1>1, FreshIsSeq DEF Queued, Numbered
<1>5. Newest' /\ Counted'
  BY <1>1, <1>4, PushKeeps DEF Queued
<1>6. /\ \A k, l \in DOMAIN accepted' : accepted'[k] = accepted'[l] => k = l
      /\ \A k \in DOMAIN accepted' : accepted'[k] < nextSeq'
      /\ \A x : Fresh(x) /\ x # m => Fresh(x)'
  BY <1>1, <1>4, NumbersAfterPush DEF Queued
<1>7. \A q \in Producers : producer'[q] # NoSeq => Fresh(producer[q])'
  <2> SUFFICES ASSUME NEW q \in Producers, NEW x, x = producer'[q], x # NoSeq PROVE Fresh(x)'
    BY DEF Fresh
  <2>1. q # p /\ producer[q] = x
    BY <1>3
  <2>2. x # m
    BY <1>1, <2>1 DEF Queued, Numbered
  <2> QED
    BY <1>6, <2>1, <2>2 DEF Queued, Numbered
<1>8. \A q, r \in Producers : producer'[q] = producer'[r] /\ producer'[q] # NoSeq => q = r
  BY <1>3 DEF Queued, Numbered
<1>9. receiver'.pc = "ack" => Fresh(receiver.ack)' /\ \A q \in Producers : producer'[q] # receiver'.ack
  <2> SUFFICES ASSUME receiver'.pc = "ack", NEW x, x = receiver'.ack
               PROVE  Fresh(x)' /\ \A q \in Producers : producer'[q] # x
    BY DEF Fresh
  <2>1. Fresh(x) /\ \A q \in Producers : producer[q] # x
    BY <1>1 DEF Queued, Numbered
  <2>2. x # NoSeq
    BY <2>1, FreshIsSeq
  <2> QED
    BY <1>3, <1>6, <2>1, <2>2
<1>10. nextSeq' <= MaxMessages + Len(delivered')
  BY <1>1 DEF Queued, Numbered
<1> QED
  BY <1>5, <1>6, <1>7, <1>8, <1>9, <1>10 DEF Queued, Numbered, Fresh

LEMMA QueuedPushAck == ASSUME TypeOK, Queued, PushAck PROVE Queued'
<1> DEFINE m == receiver.ack
<1>1. /\ UNCHANGED <<nextSeq, producer, sender, sent, failed, delivered>>
      /\ receiver.pc = "ack" /\ Push(m) /\ receiver'.pc = "top"
  BY PushAckIs
<1>2. Fresh(m) /\ m \in Seqs /\ \A q \in Producers : producer[q] # m
  BY <1>1, FreshIsSeq DEF Queued, Numbered
<1>3. Newest' /\ Counted'
  BY <1>1, <1>2, PushKeeps DEF Queued
<1>4. /\ \A k, l \in DOMAIN accepted' : accepted'[k] = accepted'[l] => k = l
      /\ \A k \in DOMAIN accepted' : accepted'[k] < nextSeq'
      /\ \A x : Fresh(x) /\ x # m => Fresh(x)'
  BY <1>1, <1>2, NumbersAfterPush DEF Queued
<1>5. \A q \in Producers : producer'[q] # NoSeq => Fresh(producer[q])'
  <2> SUFFICES ASSUME NEW q \in Producers, NEW x, x = producer'[q], x # NoSeq PROVE Fresh(x)'
    BY DEF Fresh
  <2> QED
    BY <1>1, <1>2, <1>4 DEF Queued, Numbered
<1>6. /\ \A q, r \in Producers : producer'[q] = producer'[r] /\ producer'[q] # NoSeq => q = r
      /\ nextSeq' <= MaxMessages + Len(delivered')
  BY <1>1 DEF Queued, Numbered
<1> QED
  BY <1>1, <1>3, <1>4, <1>5, <1>6 DEF Queued, Numbered, Fresh

LEMMA QueuedOnRecv == ASSUME TypeOK, Queued, OnRecv PROVE Queued'
<1>1. /\ UNCHANGED <<queue, qStopped, dropped, accepted, producer, sender, sent, failed>>
      /\ receiver.pc = "deliver"
  BY OnRecvIs DEF RestOfReceive
<1>2. Newest' /\ Counted'
  BY <1>1 DEF Queued, Newest, Counted, InHand
<1>3. CASE UNCHANGED <<delivered, nextSeq>> /\ receiver'.pc = "top"
  BY <1>1, <1>2, <1>3 DEF Queued, Numbered, Fresh
<1>4. CASE /\ receiver'.pc = "ack" /\ receiver'.ack = nextSeq /\ nextSeq' = nextSeq + 1
           /\ Len(delivered') = Len(delivered) + 1
  <2>1. nextSeq \in Nat /\ Len(delivered) \in Nat /\ MaxMessages \in Nat /\ accepted \in Seq(Seqs)
    BY CountsTyped
  <2>2. \A k \in DOMAIN accepted : accepted[k] < nextSeq /\ accepted[k] \in Int
    BY SeqsTyped DEF Queued, Numbered
  <2>3. \A x : Fresh(x) => Fresh(x)' /\ x # nextSeq
    BY <1>1, <1>4, <2>1 DEF Fresh
  <2>4. ASSUME NEW x, x = nextSeq PROVE Fresh(x)'
    BY <1>1, <1>4, <2>1, <2>2, <2>4 DEF Fresh
  <2>5. /\ \A k, l \in DOMAIN accepted' : accepted'[k] = accepted'[l] => k = l
        /\ \A k \in DOMAIN accepted' : accepted'[k] < nextSeq'
    BY <1>1, <1>4, <2>1, <2>2 DEF Queued, Numbered
  <2>6. \A q \in Producers : producer'[q] # NoSeq => Fresh(producer[q])'
    <3> SUFFICES ASSUME NEW q \in Producers, NEW x, x = producer'[q], x # NoSeq PROVE Fresh(x)'
      BY DEF Fresh
    <3> QED
      BY <1>1, <2>3 DEF Queued, Numbered
  <2>7. \A q, r \in Producers : producer'[q] = producer'[r] /\ producer'[q] # NoSeq => q = r
    BY <1>1 DEF Queued, Numbered
  <2>8. receiver'.pc = "ack" => Fresh(receiver.ack)' /\ \A q \in Producers : producer'[q] # receiver'.ack
    <3> SUFFICES ASSUME NEW x, x = receiver'.ack
                 PROVE  Fresh(x)' /\ \A q \in Producers : producer'[q] # x
      BY DEF Fresh
    <3>1. x = nextSeq /\ x # NoSeq
      BY <1>4, <2>1 DEF NoSeq
    <3>2. \A q \in Producers : producer[q] # x
      BY <2>3, <3>1 DEF Queued, Numbered
    <3> QED
      BY <1>1, <2>4, <3>1, <3>2
  <2>9. nextSeq' <= MaxMessages + Len(delivered')
    BY <1>4, <2>1 DEF Queued, Numbered
  <2> QED
    BY <1>2, <2>5, <2>6, <2>7, <2>8, <2>9 DEF Queued, Numbered, Fresh
<1>5. delivered \in Seq(Frames) /\ \A n : Len(Append(delivered, n)) = Len(delivered) + 1
  BY CountsTyped
<1> QED
  BY <1>3, <1>4, <1>5, OnRecvIs

LEMMA QueuedStep == TypeOK /\ Shape /\ Queued /\ [Next]_vars => Queued'
<1> SUFFICES ASSUME TypeOK, Shape, Queued, [Next]_vars PROVE Queued'
  OBVIOUS
<1>1. ASSUME UNCHANGED <<accepted, nextSeq, producer, delivered>>,
             receiver'.pc = "ack" => receiver' = receiver
      PROVE  Numbered'
  BY <1>1 DEF Queued, Numbered, Fresh
<1>2. ASSUME UNCHANGED <<queue, dropped, accepted, nextSeq, producer, delivered, sent, failed>>,
             receiver'.pc = "ack" => receiver' = receiver, InHand' = InHand
      PROVE  Queued'
  BY <1>1, <1>2 DEF Queued, Newest, Counted
<1>3. ASSUME UNCHANGED <<queue, dropped, accepted, nextSeq, producer, delivered, sent, failed>>,
             receiver'.pc = "ack" => receiver' = receiver,
             \/ sender'.pc = sender.pc
             \/ sender.pc \notin {"fetch", "send"} /\ sender'.pc \notin {"fetch", "send"}
      PROVE  Queued'
  BY <1>2, <1>3 DEF InHand
<1>4. CASE SenderMoves
  BY <1>3, <1>4, SenderMovesIs
<1>5. CASE ConnectSucceeds
  <2>1. SenderGoto("connect", "store") /\ "store" \in SenderPcs
    BY <1>5 DEF ConnectSucceeds, SenderPcs
  <2>2. UNCHANGED <<queue, dropped, accepted, nextSeq, producer, delivered, sent, failed, receiver>>
    BY <1>5 DEF ConnectSucceeds, queueVars, appVars, countVars
  <2> QED
    BY <1>3, <2>1, <2>2, SenderGotoIs
<1>6. CASE StoreFd
  BY <1>3, <1>6, StoreFdIs
<1>7. CASE PopItem
  <2>1. /\ UNCHANGED <<dropped, accepted, nextSeq, producer, delivered, receiver, sent, failed>>
        /\ queue # <<>> /\ queue' = Tail(queue) /\ sender.pc = "pop" /\ sender'.pc = "fetch"
    BY <1>7, PopItemIs
  <2>2. /\ queue \in Seq(Seqs) /\ accepted \in Seq(Seqs) /\ Len(queue) <= Len(accepted)
        /\ sent \in Nat /\ failed \in Nat /\ dropped \in Nat
    BY CountsTyped, Backlog DEF Queued
  <2>3. Len(queue') = Len(queue) - 1 /\ Len(queue) > 0 /\ \A k \in 1 .. Len(queue') : queue'[k] = queue[k + 1]
    BY <2>1, <2>2
  <2>4. Newest'
    <3> SUFFICES ASSUME NEW k \in 1 .. Len(queue')
                 PROVE  queue'[k] = accepted'[Len(accepted') - Len(queue') + k]
      BY DEF Newest
    <3>1. queue[k + 1] = accepted[Len(accepted) - Len(queue) + (k + 1)]
      BY <2>2, <2>3 DEF Queued, Newest
    <3>2. Len(accepted) - Len(queue) + (k + 1) = Len(accepted) - Len(queue') + k
      BY <2>2, <2>3
    <3> QED
      BY <2>1, <2>3, <3>1, <3>2
  <2>5. InHand = 0 /\ InHand' = 1
    BY <2>1 DEF InHand
  <2>6. Counted'
    BY <2>1, <2>2, <2>3, <2>5 DEF Queued, Counted
  <2> QED
    BY <1>1, <2>1, <2>4, <2>6 DEF Queued
<1>8. CASE WriteFetch
  <2>1. InHand' = InHand
    BY <1>8, WriteFetchIs DEF InHand
  <2> QED
    BY <1>2, <1>8, <2>1, WriteFetchIs
<1>9. CASE WriteSucceeds
  <2>1. /\ UNCHANGED <<queue, dropped, accepted, nextSeq, producer, delivered, receiver, failed>>
        /\ sender.pc = "send"
        /\ \/ sent' = sent + 1 /\ sender'.pc = "top"
           \/ sent' = sent /\ sender'.pc = "fetch"
    BY <1>9, WriteIs
  <2>2. \/ sent' = sent + 1 /\ InHand' = 0 /\ InHand = 1
        \/ sent' = sent /\ InHand' = 1 /\ InHand = 1
    BY <2>1 DEF InHand
  <2>3. sent \in Nat /\ failed \in Nat /\ dropped \in Nat /\ Len(queue) \in Nat
    BY CountsTyped
  <2>4. Newest'
    BY <2>1 DEF Queued, Newest
  <2>5. Counted'
    <3>1. Len(accepted) = sent + failed + dropped + Len(queue) + 1
      BY <2>2 DEF Queued, Counted
    <3>2. UNCHANGED <<accepted, queue, dropped>>
      BY <2>1
    <3> QED
      BY <2>1, <2>2, <2>3, <3>1, <3>2 DEF Counted
  <2> QED
    BY <1>1, <2>1, <2>4, <2>5 DEF Queued
<1>10. CASE WriteFails
  <2>1. /\ UNCHANGED <<queue, dropped, accepted, nextSeq, producer, delivered, receiver, sent>>
        /\ failed' = failed + 1 /\ sender.pc \in {"fetch", "send"} /\ sender'.pc = "disconnect"
    BY <1>10, WriteFailsIs
  <2>2. InHand = 1 /\ InHand' = 0
    BY <2>1 DEF InHand
  <2>3. sent \in Nat /\ failed \in Nat /\ dropped \in Nat /\ Len(queue) \in Nat
    BY CountsTyped
  <2>4. Newest'
    BY <2>1 DEF Queued, Newest
  <2>5. Counted'
    <3>1. Len(accepted) = sent + failed + dropped + Len(queue) + 1
      BY <2>2 DEF Queued, Counted
    <3>2. UNCHANGED <<accepted, queue, dropped>>
      BY <2>1
    <3> QED
      BY <2>1, <2>2, <2>3, <3>1, <3>2 DEF Counted
  <2> QED
    BY <1>1, <2>1, <2>4, <2>5 DEF Queued
<1>11. CASE SenderDisconnect
  BY <1>3, <1>11, SenderDisconnectIs
<1>12. CASE (RecvLoopTop \/ RecvTestConnected) \/ ReadFetch \/ RecvEnter \/ RecvEnd \/ ReceiverFails
           \/ ReceiverDisconnect
  <2>1. /\ UNCHANGED <<queue, dropped, accepted, nextSeq, producer, delivered, sent, failed, sender>>
        /\ receiver'.pc # "ack"
    BY <1>12, RecvMovesIs, ReadFetchIs, RecvEnterIs, RecvEndIs, ReceiverFailsIs, ReceiverDisconnectIs DEF RestOfReceive
  <2> QED
    BY <1>3, <2>1
<1>13. CASE RecvData
  <2>1. /\ UNCHANGED <<queue, dropped, accepted, nextSeq, producer, delivered, sent, failed, sender>>
        /\ receiver'.pc # "ack"
    BY <1>13, RecvDataIs DEF RestOfReceive
  <2> QED
    BY <1>3, <2>1
<1>14. ASSUME NEW i \in DOMAIN conn, PeerSends(i) \/ PeerCloses(i) PROVE Queued'
  BY <1>3, <1>14, PeerSendsIs, PeerClosesIs
<1>15. CASE AppStep
  <2>1. CASE \E p \in Producers : Producer(p)
    BY <2>1, QueuedTake, QueuedPushMessage DEF Producer
  <2>2. CASE SetStopFlag \/ StopQueue \/ JoinThreads \/ PeerListens
    <3>1. UNCHANGED <<queue, dropped, accepted, nextSeq, producer, delivered, sent, failed, sender, receiver>>
      BY <2>2 DEF SetStopFlag, StopQueue, JoinThreads, PeerListens, queueVars, appVars, countVars
    <3> QED
      BY <1>3, <3>1
  <2> QED
    BY <1>15, <2>1, <2>2 DEF AppStep
<1>16. CASE StopDisconnect
  BY <1>3, <1>16, StopDisconnectIs
<1>17. CASE UNCHANGED vars
  BY <1>3, <1>17 DEF vars, queueVars, appVars, countVars
<1> QED
  BY <1>4, <1>5, <1>6, <1>7, <1>8, <1>9, <1>10, <1>11, <1>12, <1>13, <1>14, <1>15, <1>16, <1>17,
     QueuedOnRecv, QueuedPushAck, NextIs

-----------------------------------------------------------------------------
(* What is written. *)

(* Messages that have left the queue, and the order in which push() took them. *)
Taken(m) == \E p \in 1 .. Len(accepted) - Len(queue) : accepted[p] = m
Precedes(m, n) == \E p, q \in DOMAIN accepted : p < q /\ accepted[p] = m /\ accepted[q] = n

(* The queue only takes messages at its end and gives them out at its head. *)
Grows ==
    /\ Len(accepted') \in Nat /\ Len(queue') \in Nat /\ Len(accepted') >= Len(accepted)
    /\ DOMAIN accepted' = 1 .. Len(accepted')
    /\ \A k \in 1 .. Len(accepted) : accepted'[k] = accepted[k]
    /\ Len(accepted') - Len(queue') >= Len(accepted) - Len(queue)

LEMMA AcceptedGrows == ASSUME TypeOK, Shape, Queued, [Next]_vars PROVE Grows
<1>0. queue \in Seq(Seqs) /\ accepted \in Seq(Seqs) /\ Len(queue) <= Len(accepted)
  BY CountsTyped, Backlog DEF Queued
<1>1. CASE UNCHANGED <<queue, accepted>>
  BY <1>0, <1>1 DEF Grows
<1>2. CASE PopItem
  <2>1. accepted' = accepted /\ queue # <<>> /\ queue' = Tail(queue)
    BY <1>2, PopItemIs
  <2>2. Len(queue') = Len(queue) - 1 /\ Len(queue) > 0
    BY <1>0, <2>1
  <2> QED
    BY <1>0, <2>1, <2>2 DEF Grows
<1>3. ASSUME NEW m \in Seqs, Push(m) PROVE Grows
  <2>1. CASE UNCHANGED <<queue, accepted>>
    BY <1>1, <2>1
  <2>2. CASE accepted' = Append(accepted, m) /\ queue' = Append(queue, m)
    BY <1>0, <2>2 DEF Grows
  <2>3. CASE accepted' = Append(accepted, m) /\ queue' = Append(Tail(queue), m) /\ queue # <<>>
    <3>1. Len(queue') = Len(queue)
      BY <1>0, <2>3
    <3> QED
      BY <1>0, <2>3, <3>1 DEF Grows
  <2> QED
    BY <1>3, <2>1, <2>2, <2>3, PushIs
<1>4. ASSUME NEW p \in Producers, Producer(p)
      PROVE  UNCHANGED <<queue, accepted>> \/ \E m \in Seqs : Push(m)
  <2>1. CASE TakeSeq(p)
    BY <2>1 DEF TakeSeq, queueVars
  <2>2. CASE PushMessage(p)
    <3>1. producer[p] # NoSeq /\ Push(producer[p])
      BY <2>2 DEF PushMessage
    <3>2. producer[p] \in Seqs
      BY <3>1, FreshIsSeq DEF Queued, Numbered
    <3> QED
      BY <3>1, <3>2
  <2> QED
    BY <1>4, <2>1, <2>2 DEF Producer
<1>5. CASE PushAck
  <2>1. receiver.pc = "ack" /\ Push(receiver.ack)
    BY <1>5, PushAckIs
  <2>2. receiver.ack \in Seqs
    BY <2>1, FreshIsSeq DEF Queued, Numbered
  <2> QED
    BY <1>3, <2>1, <2>2
<1>6. \/ UNCHANGED <<queue, accepted>> \/ PopItem \/ PushAck \/ \E p \in Producers : Producer(p)
  <2>1. CASE SenderMoves \/ StoreFd \/ WriteFetch \/ WriteSucceeds \/ WriteFails \/ SenderDisconnect
    BY <2>1, SenderMovesIs, StoreFdIs, WriteFetchIs, WriteIs, WriteFailsIs, SenderDisconnectIs
  <2>2. CASE ConnectSucceeds
    BY <2>2 DEF ConnectSucceeds, queueVars
  <2>3. CASE \/ (RecvLoopTop \/ RecvTestConnected) \/ ReadFetch \/ RecvEnter \/ RecvData \/ RecvEnd
             \/ ReceiverFails \/ ReceiverDisconnect \/ OnRecv
    <3>1. UNCHANGED <<queue, accepted>>
      BY <2>3, RecvMovesIs, ReadFetchIs, RecvEnterIs, RecvDataIs, RecvEndIs, ReceiverFailsIs, ReceiverDisconnectIs, OnRecvIs
      DEF RestOfReceive
    <3> QED
      BY <3>1
  <2>4. CASE AppStep \/ StopDisconnect
    BY <2>4 DEF AppStep, SetStopFlag, StopQueue, JoinThreads, PeerListens, StopDisconnect, queueVars
  <2>5. ASSUME NEW i \in DOMAIN conn, PeerSends(i) \/ PeerCloses(i) PROVE UNCHANGED <<queue, accepted>>
    BY <2>5, PeerSendsIs, PeerClosesIs
  <2>6. CASE UNCHANGED vars
    BY <2>6 DEF vars, queueVars
  <2> QED
    BY <2>1, <2>2, <2>3, <2>4, <2>5, <2>6, NextIs
<1>7. CASE \E p \in Producers : Producer(p)
  <2>1. CASE \E m \in Seqs : Push(m)
    BY <1>3, <2>1
  <2>2. PICK p \in Producers : Producer(p)
    BY <1>7
  <2>3. UNCHANGED <<queue, accepted>> \/ \E m \in Seqs : Push(m)
    BY <1>4, <2>2
  <2> QED
    BY <1>1, <2>1, <2>3
<1> QED
  BY <1>1, <1>2, <1>5, <1>6, <1>7

LEMMA OrderIsKept ==
    ASSUME TypeOK, Shape, Queued, [Next]_vars
    PROVE  /\ \A m : Taken(m) => Taken(m)'
           /\ \A m, n : Precedes(m, n) => Precedes(m, n)'
<1>1. /\ Len(accepted') \in Nat /\ Len(queue') \in Nat /\ Len(accepted') >= Len(accepted)
      /\ DOMAIN accepted' = 1 .. Len(accepted')
      /\ \A k \in 1 .. Len(accepted) : accepted'[k] = accepted[k]
      /\ Len(accepted') - Len(queue') >= Len(accepted) - Len(queue)
  BY AcceptedGrows DEF Grows
<1>a. queue \in Seq(Seqs) /\ accepted \in Seq(Seqs) /\ Len(queue) <= Len(accepted)
  BY CountsTyped, Backlog DEF Queued
<1>2. /\ Len(queue) \in Nat /\ Len(accepted) \in Nat /\ Len(queue) <= Len(accepted)
      /\ DOMAIN accepted = 1 .. Len(accepted)
  BY <1>a
<1>3. ASSUME NEW m, Taken(m) PROVE Taken(m)'
  <2>1. PICK p \in 1 .. Len(accepted) - Len(queue) : accepted[p] = m
    BY <1>3 DEF Taken
  <2>2. p \in 1 .. Len(accepted') - Len(queue') /\ accepted'[p] = m
    BY <1>1, <1>2, <2>1
  <2> QED
    BY <2>2 DEF Taken
<1>4. ASSUME NEW m, NEW n, Precedes(m, n) PROVE Precedes(m, n)'
  <2>1. PICK p, q \in DOMAIN accepted : p < q /\ accepted[p] = m /\ accepted[q] = n
    BY <1>4 DEF Precedes
  <2>2. p \in DOMAIN accepted' /\ q \in DOMAIN accepted' /\ accepted'[p] = m /\ accepted'[q] = n
    BY <1>1, <1>2, <2>1
  <2> QED
    BY <2>1, <2>2 DEF Precedes
<1> QED
  BY <1>3, <1>4

(* On a connection, whole messages in two pieces follow each other. *)
Framed(out) ==
    \A k \in DOMAIN out : /\ out[k][2] = ((k - 1) % 2) + 1
                          /\ out[k][2] > 1 => out[k][1] = out[k - 1][1]

AllFramed == \A i \in DOMAIN conn : Framed(conn[i].out)

(* Nothing is written that still waits. *)
AllTaken == \A i \in DOMAIN conn : \A k \in DOMAIN conn[i].out : Taken(conn[i].out[k][1])

(* Over all connections messages are begun in the order of the queue. *)
InSequence ==
    \A i, j \in DOMAIN conn : \A k \in DOMAIN conn[i].out, l \in DOMAIN conn[j].out :
        conn[i].out[k][2] = 1 /\ conn[j].out[l][2] = 1 /\ (i < j \/ (i = j /\ k < l))
            => Precedes(conn[i].out[k][1], conn[j].out[l][1])

(* What is written is older than the message in hand, but for its own first piece. *)
Holding ==
    /\ sender.piece = 2 => InHand = 1
    /\ InHand = 1 =>
         /\ Taken(sender.item)
         /\ \A i \in DOMAIN conn : \A k \in DOMAIN conn[i].out :
               \/ Precedes(conn[i].out[k][1], sender.item)
               \/ sender.piece = 2 /\ conn[i].out[k] = <<sender.item, 1>>

(* The open connection ends with what the send thread has written of its message; a
   message that was given up half-way is only there until it is closed. *)
EndsWell(out) ==
    IF sender.piece = 2 THEN Len(out) > 0 /\ out[Len(out)] = <<sender.item, 1>>
    ELSE Len(out) = 0 \/ out[Len(out)][2] = 2 \/ sender.pc = "disconnect"

OpenEndsWell == \A i \in DOMAIN conn : conn[i].open => EndsWell(conn[i].out)

Written == AllFramed /\ AllTaken /\ InSequence /\ Holding /\ OpenEndsWell

(* Steps that write nothing. *)
LEMMA NothingWritten ==
    ASSUME TypeOK, Written, DOMAIN conn' = DOMAIN conn,
           \A i \in DOMAIN conn : conn'[i].out = conn[i].out,
           \A m : Taken(m) => Taken(m)', \A m, n : Precedes(m, n) => Precedes(m, n)'
    PROVE  /\ AllFramed' /\ AllTaken' /\ InSequence'
           /\ InHand' = InHand /\ sender'.item = sender.item /\ sender'.piece = sender.piece => Holding'
           /\ InHand' = 0 /\ sender'.piece = 1 => Holding'
           /\ /\ \A i \in DOMAIN conn : conn'[i].open => conn[i].open
              /\ sender'.item = sender.item /\ sender'.piece = sender.piece
              /\ sender.pc = "disconnect" => sender'.pc = "disconnect"
              => OpenEndsWell'
<1>1. AllFramed'
  BY DEF Written, AllFramed, Framed
<1>2. AllTaken'
  <2> SUFFICES ASSUME NEW i \in DOMAIN conn', NEW k \in DOMAIN conn'[i].out, NEW x, x = conn'[i].out[k][1]
               PROVE  Taken(x)'
    BY DEF AllTaken, Taken
  <2> QED
    BY DEF Written, AllTaken
<1>3. InSequence'
  <2> SUFFICES ASSUME NEW i \in DOMAIN conn', NEW j \in DOMAIN conn',
                      NEW k \in DOMAIN conn'[i].out, NEW l \in DOMAIN conn'[j].out,
                      conn'[i].out[k][2] = 1, conn'[j].out[l][2] = 1, i < j \/ (i = j /\ k < l),
                      NEW x, x = conn'[i].out[k][1], NEW y, y = conn'[j].out[l][1]
               PROVE  Precedes(x, y)'
    BY DEF InSequence, Precedes
  <2>1. conn'[i].out = conn[i].out /\ conn'[j].out = conn[j].out
    OBVIOUS
  <2>2. Precedes(x, y)
    BY <2>1 DEF Written, InSequence
  <2> QED
    BY <2>2
<1>4. ASSUME InHand' = InHand, sender'.item = sender.item, sender'.piece = sender.piece PROVE Holding'
  <2>1. sender'.piece = 2 => InHand' = 1
    BY <1>4 DEF Written, Holding
  <2>2. ASSUME InHand' = 1, NEW x, x = sender'.item PROVE Taken(x)'
    BY <1>4, <2>2 DEF Written, Holding
  <2>3. ASSUME InHand' = 1, NEW x, x = sender'.item,
               NEW i \in DOMAIN conn', NEW k \in DOMAIN conn'[i].out, NEW y, y = conn'[i].out[k][1]
        PROVE  Precedes(y, x)' \/ (sender'.piece = 2 /\ conn'[i].out[k] = <<x, 1>>)
    BY <1>4, <2>3 DEF Written, Holding
  <2> QED
    BY <2>1, <2>2, <2>3 DEF Holding, Taken, Precedes
<1>5. ASSUME InHand' = 0, sender'.piece = 1 PROVE Holding'
  BY <1>5 DEF Holding
<1>6. ASSUME \A i \in DOMAIN conn : conn'[i].open => conn[i].open,
             sender'.item = sender.item, sender'.piece = sender.piece,
             sender.pc = "disconnect" => sender'.pc = "disconnect"
      PROVE  OpenEndsWell'
  BY <1>6 DEF Written, OpenEndsWell, EndsWell
<1> QED
  BY <1>1, <1>2, <1>3, <1>4, <1>5, <1>6

(* A connection that has just been made is empty. *)
LEMMA WrittenConnect ==
    ASSUME TypeOK, Shape, Sockets, Queued, Written, ConnectSucceeds,
           \A m : Taken(m) => Taken(m)', \A m, n : Precedes(m, n) => Precedes(m, n)'
    PROVE  Written'
<1> DEFINE c == Len(conn) + 1
<1>1. /\ DOMAIN conn' = DOMAIN conn \cup {c}
      /\ \A i \in DOMAIN conn : conn'[i] = conn[i]
      /\ conn'[c].out = <<>>
  BY ConnectIs
<1>2. sender.pc = "connect" /\ sender'.pc = "store" /\ sender'.item = sender.item
      /\ sender'.piece = sender.piece
  <2>1. SenderGoto("connect", "store") /\ "store" \in SenderPcs
    BY DEF ConnectSucceeds, SenderPcs
  <2> QED
    BY <2>1, SenderGotoIs
<1>3. InHand = 0 /\ InHand' = 0 /\ sender.piece = 1 /\ sender'.piece = 1
  <2>1. InHand = 0 /\ InHand' = 0
    BY <1>2 DEF InHand
  <2> QED
    BY <1>2, <2>1, ThreadsTyped DEF Written, Holding
<1> HIDE DEF c
<1>4. \A i \in DOMAIN conn' : (i \in DOMAIN conn /\ conn'[i] = conn[i]) \/ conn'[i].out = <<>>
  BY <1>1
<1>5. AllFramed'
  BY <1>1 DEF Written, AllFramed, Framed
<1>6. AllTaken'
  <2> SUFFICES ASSUME NEW i \in DOMAIN conn', NEW k \in DOMAIN conn'[i].out, NEW x, x = conn'[i].out[k][1]
               PROVE  Taken(x)'
    BY DEF AllTaken, Taken
  <2>1. i \in DOMAIN conn /\ conn'[i] = conn[i]
    BY <1>4
  <2> QED
    BY <2>1 DEF Written, AllTaken
<1>7. InSequence'
  <2> SUFFICES ASSUME NEW i \in DOMAIN conn', NEW j \in DOMAIN conn',
                      NEW k \in DOMAIN conn'[i].out, NEW l \in DOMAIN conn'[j].out,
                      conn'[i].out[k][2] = 1, conn'[j].out[l][2] = 1, i < j \/ (i = j /\ k < l),
                      NEW x, x = conn'[i].out[k][1], NEW y, y = conn'[j].out[l][1]
               PROVE  Precedes(x, y)'
    BY DEF InSequence, Precedes
  <2>1. i \in DOMAIN conn /\ conn'[i] = conn[i]
    BY <1>4
  <2>2. j \in DOMAIN conn /\ conn'[j] = conn[j]
    BY <1>4
  <2>3. Precedes(x, y)
    BY <2>1, <2>2 DEF Written, InSequence
  <2> QED
    BY <2>3
<1>8. Holding'
  BY <1>3 DEF Holding
<1>9. OpenEndsWell'
  <2> SUFFICES ASSUME NEW i \in DOMAIN conn', conn'[i].open
               PROVE  Len(conn'[i].out) = 0 \/ conn'[i].out[Len(conn'[i].out)][2] = 2
    BY <1>3 DEF OpenEndsWell, EndsWell
  <2>1. CASE i \in DOMAIN conn /\ conn'[i] = conn[i]
    BY <1>2, <1>3, <2>1 DEF Written, OpenEndsWell, EndsWell
  <2>2. CASE conn'[i].out = <<>>
    BY <2>2
  <2> QED
    BY <1>4, <2>1, <2>2
<1> QED
  BY <1>5, <1>6, <1>7, <1>8, <1>9 DEF Written

(* The message at the head of the queue is newer than all that has left it. *)
LEMMA WrittenPop ==
    ASSUME TypeOK, Shape, Sockets, Queued, Written, PopItem,
           \A m : Taken(m) => Taken(m)', \A m, n : Precedes(m, n) => Precedes(m, n)'
    PROVE  Written'
<1>1. /\ UNCHANGED <<accepted, conn>> /\ queue # <<>> /\ queue' = Tail(queue)
      /\ sender.pc = "pop" /\ sender'.pc = "fetch" /\ sender'.item = Head(queue) /\ sender'.piece = 1
  BY PopItemIs
<1>2. AllFramed' /\ AllTaken' /\ InSequence'
  BY <1>1, NothingWritten
<1>3. /\ queue \in Seq(Seqs) /\ accepted \in Seq(Seqs) /\ Len(queue) <= Len(accepted)
      /\ DOMAIN accepted = 1 .. Len(accepted)
  BY CountsTyped, Backlog DEF Queued
<1> DEFINE h == Len(accepted) - Len(queue) + 1
<1>4. Len(queue) > 0 /\ Len(queue') = Len(queue) - 1 /\ Head(queue) = queue[1]
  BY <1>1, <1>3
<1>5. accepted[h] = Head(queue)
  <2>1. 1 \in 1 .. Len(queue)
    BY <1>3, <1>4
  <2> QED
    BY <1>4, <2>1 DEF Queued, Newest
<1>6. h \in DOMAIN accepted /\ h = Len(accepted') - Len(queue')
  BY <1>1, <1>3, <1>4
<1>7. ASSUME NEW x, x = sender'.item PROVE Taken(x)'
  BY <1>1, <1>3, <1>4, <1>5, <1>6, <1>7 DEF Taken
<1>8. ASSUME NEW x, x = sender'.item, NEW i \in DOMAIN conn', NEW k \in DOMAIN conn'[i].out,
             NEW y, y = conn'[i].out[k][1]
      PROVE  Precedes(y, x)'
  <2>1. Taken(y)
    BY <1>1, <1>8 DEF Written, AllTaken
  <2>2. PICK p \in 1 .. Len(accepted) - Len(queue) : accepted[p] = y
    BY <2>1 DEF Taken
  <2>3. p \in DOMAIN accepted /\ p < h
    BY <1>3, <1>4, <2>2
  <2> QED
    BY <1>1, <1>5, <1>6, <1>8, <2>2, <2>3 DEF Precedes
<1>9. Holding'
  <2>1. sender'.piece # 2
    BY <1>1
  <2> QED
    BY <1>7, <1>8, <2>1 DEF Holding, Taken, Precedes
<1>10. OpenEndsWell'
  <2>1. sender.piece = 1
    <3>1. InHand = 0
      BY <1>1 DEF InHand
    <3> QED
      BY <3>1, ThreadsTyped DEF Written, Holding
  <2> QED
    BY <1>1, <2>1 DEF Written, OpenEndsWell, EndsWell
<1> QED
  BY <1>2, <1>9, <1>10 DEF Written

(* The next piece goes to the end of the only open connection. *)
LEMMA PieceIs ==
    ASSUME TypeOK, Shape, Sockets, Written, WriteSucceeds
    PROVE  \E i \in DOMAIN conn :
             /\ DOMAIN conn' = DOMAIN conn /\ \A j \in DOMAIN conn : j # i => conn'[j] = conn[j]
             /\ \A j \in DOMAIN conn : j <= i
             /\ conn[i].open /\ EndsWell(conn[i].out) /\ InHand = 1 /\ sender.pc = "send"
             /\ conn[i].out \in Seq(Seqs \X (1 .. 2)) /\ Len(conn[i].out) \in Nat
             /\ DOMAIN conn[i].out = 1 .. Len(conn[i].out)
             /\ DOMAIN conn'[i].out = DOMAIN conn[i].out \cup {Len(conn[i].out) + 1}
             /\ Len(conn'[i].out) = Len(conn[i].out) + 1
             /\ \A k \in DOMAIN conn[i].out : conn'[i].out[k] = conn[i].out[k]
             /\ conn'[i].out[Len(conn[i].out) + 1] = <<sender.item, sender.piece>>
<1>1. PICK i \in DOMAIN conn :
         /\ conn[i].open /\ conn'[i].out = Append(conn[i].out, <<sender.item, sender.piece>>)
         /\ \A j \in DOMAIN conn : j # i => conn'[j] = conn[j]
  BY WriteIs
<1>2. DOMAIN conn' = DOMAIN conn /\ sender.pc = "send"
  BY WriteIs
<1>3. \A j \in DOMAIN conn : j <= i
  BY <1>1, ConnTyped DEF Sockets
<1>4. EndsWell(conn[i].out) /\ InHand = 1
  BY <1>1, <1>2 DEF Written, OpenEndsWell, InHand
<1>5. conn[i].out \in Seq(Seqs \X (1 .. 2))
  BY ConnTyped
<1>6. /\ Len(conn[i].out) \in Nat /\ DOMAIN conn[i].out = 1 .. Len(conn[i].out)
      /\ DOMAIN conn'[i].out = DOMAIN conn[i].out \cup {Len(conn[i].out) + 1}
      /\ Len(conn'[i].out) = Len(conn[i].out) + 1
      /\ \A k \in DOMAIN conn[i].out : conn'[i].out[k] = conn[i].out[k]
      /\ conn'[i].out[Len(conn[i].out) + 1] = <<sender.item, sender.piece>>
  BY <1>1, <1>5
<1> QED
  BY <1>1, <1>2, <1>3, <1>4, <1>5, <1>6

LEMMA Parity ==
    /\ \A n \in Nat : n > 1 /\ ((n - 2) % 2) + 1 = 1 => ((n - 1) % 2) + 1 = 2
    /\ \A n \in Nat : n > 1 /\ ((n - 2) % 2) + 1 = 2 => ((n - 1) % 2) + 1 = 1
    /\ ((1 - 1) % 2) + 1 = 1
OBVIOUS

LEMMA WrittenWrite ==
    ASSUME TypeOK, Shape, Sockets, Queued, Written, WriteSucceeds,
           \A m : Taken(m) => Taken(m)', \A m, n : Precedes(m, n) => Precedes(m, n)'
    PROVE  Written'
<1>1. PICK i \in DOMAIN conn :
             /\ DOMAIN conn' = DOMAIN conn /\ \A j \in DOMAIN conn : j # i => conn'[j] = conn[j]
             /\ \A j \in DOMAIN conn : j <= i
             /\ conn[i].open /\ EndsWell(conn[i].out) /\ InHand = 1 /\ sender.pc = "send"
             /\ conn[i].out \in Seq(Seqs \X (1 .. 2)) /\ Len(conn[i].out) \in Nat
             /\ DOMAIN conn[i].out = 1 .. Len(conn[i].out)
             /\ DOMAIN conn'[i].out = DOMAIN conn[i].out \cup {Len(conn[i].out) + 1}
             /\ Len(conn'[i].out) = Len(conn[i].out) + 1
             /\ \A k \in DOMAIN conn[i].out : conn'[i].out[k] = conn[i].out[k]
             /\ conn'[i].out[Len(conn[i].out) + 1] = <<sender.item, sender.piece>>
  BY PieceIs
<1> DEFINE n == Len(conn[i].out) + 1
<1>2. \/ /\ sender.piece = 2 /\ sender'.pc = "top" /\ sender'.piece = 1
      \/ /\ sender.piece = 1 /\ sender'.pc = "fetch" /\ sender'.item = sender.item /\ sender'.piece = 2
  BY WriteIs
<1>3. ASSUME NEW j \in DOMAIN conn', NEW k \in DOMAIN conn'[j].out
      PROVE  \/ k \in DOMAIN conn[j].out /\ conn'[j].out[k] = conn[j].out[k]
             \/ j = i /\ k = n /\ conn'[j].out[k] = <<sender.item, sender.piece>>
  BY <1>1, <1>3
<1>4. Framed(conn[i].out) /\ n \in Nat /\ n > 0 /\ DOMAIN conn[i].out = 1 .. n - 1
  BY <1>1 DEF Written, AllFramed
<1>a. /\ Len(conn'[i].out) = n /\ conn'[i].out[n] = <<sender.item, sender.piece>>
      /\ Len(conn[i].out) = n - 1 /\ DOMAIN conn'[i].out = 1 .. n
  BY <1>1
<1> HIDE DEF n
<1>b. /\ sender.piece = 2 => n > 1 /\ conn[i].out[n - 1] = <<sender.item, 1>>
      /\ sender.piece = 1 => n = 1 \/ (n > 1 /\ conn[i].out[n - 1][2] = 2)
  BY <1>1, <1>2, <1>4, <1>a DEF EndsWell
<1>c. n > 1 => conn[i].out[n - 1][2] = ((n - 2) % 2) + 1
  <2>1. n > 1 => n - 1 \in DOMAIN conn[i].out /\ (n - 1) - 1 = n - 2
    BY <1>4
  <2> QED
    BY <1>4, <2>1 DEF Framed
<1>5. /\ sender.piece = ((n - 1) % 2) + 1
      /\ sender.piece > 1 => n > 1 /\ conn[i].out[n - 1][1] = sender.item
  <2>1. CASE sender.piece = 2
    <3>1. n > 1 /\ conn[i].out[n - 1][1] = sender.item /\ conn[i].out[n - 1][2] = 1
      BY <1>b, <2>1
    <3>2. ((n - 2) % 2) + 1 = 1
      BY <1>c, <3>1
    <3> QED
      BY <1>4, <2>1, <3>1, <3>2, Parity
  <2>2. CASE sender.piece = 1
    <3>1. CASE n = 1
      BY <2>2, <3>1, Parity
    <3>2. CASE n > 1 /\ conn[i].out[n - 1][2] = 2
      <4>1. ((n - 2) % 2) + 1 = 2
        BY <1>c, <3>2
      <4> QED
        BY <1>4, <2>2, <3>2, <4>1, Parity
    <3> QED
      BY <1>b, <2>2, <3>1, <3>2
  <2> QED
    BY <1>2, <2>1, <2>2
<1>6. AllFramed'
  <2> SUFFICES ASSUME NEW j \in DOMAIN conn', NEW k \in DOMAIN conn'[j].out
               PROVE  /\ conn'[j].out[k][2] = ((k - 1) % 2) + 1
                      /\ conn'[j].out[k][2] > 1 => conn'[j].out[k][1] = conn'[j].out[k - 1][1]
    BY DEF AllFramed, Framed
  <2>1. CASE j # i
    BY <1>1, <2>1 DEF Written, AllFramed, Framed
  <2>2. CASE j = i /\ k \in DOMAIN conn[i].out
    <3>1. /\ conn[i].out[k][2] = ((k - 1) % 2) + 1
          /\ conn[i].out[k][2] > 1 => conn[i].out[k][1] = conn[i].out[k - 1][1]
      BY <1>4, <2>2 DEF Framed
    <3>2. k \in Nat /\ k > 0 /\ k <= n - 1
      BY <1>4, <2>2
    <3>3. k = 1 \/ k - 1 \in DOMAIN conn[i].out
      BY <1>4, <3>2
    <3>4. k = 1 => ((k - 1) % 2) + 1 = 1
      BY Parity
    <3>5. conn'[i].out[k] = conn[i].out[k] /\ (k - 1 \in DOMAIN conn[i].out => conn'[i].out[k - 1] = conn[i].out[k - 1])
      BY <1>1, <2>2
    <3> QED
      BY <2>2, <3>1, <3>3, <3>4, <3>5
  <2>3. CASE j = i /\ k = n
    <3>1. conn'[j].out[k] = <<sender.item, sender.piece>>
      BY <1>a, <2>3
    <3>2. sender.piece > 1 => n - 1 \in DOMAIN conn[i].out
      BY <1>4, <1>5
    <3>3. n - 1 \in DOMAIN conn[i].out => conn'[i].out[n - 1] = conn[i].out[n - 1]
      BY <1>1
    <3> QED
      BY <1>5, <2>3, <3>1, <3>2, <3>3
  <2> QED
    BY <1>3, <2>1, <2>2, <2>3
<1>7. AllTaken'
  <2> SUFFICES ASSUME NEW j \in DOMAIN conn', NEW k \in DOMAIN conn'[j].out, NEW x, x = conn'[j].out[k][1]
               PROVE  Taken(x)'
    BY DEF AllTaken, Taken
  <2>1. Taken(sender.item)
    BY <1>1 DEF Written, Holding
  <2>2. Taken(x)
    BY <1>1, <1>3, <2>1 DEF Written, AllTaken
  <2> QED
    BY <2>2
<1>8. InSequence'
  <2> SUFFICES ASSUME NEW j \in DOMAIN conn', NEW l \in DOMAIN conn',
                      NEW k \in DOMAIN conn'[j].out, NEW m \in DOMAIN conn'[l].out,
                      conn'[j].out[k][2] = 1, conn'[l].out[m][2] = 1, j < l \/ (j = l /\ k < m),
                      NEW x, x = conn'[j].out[k][1], NEW y, y = conn'[l].out[m][1]
               PROVE  Precedes(x, y)'
    BY DEF InSequence, Precedes
  <2>1. k \in DOMAIN conn[j].out /\ conn'[j].out[k] = conn[j].out[k]
    <3>1. ASSUME j = i, k = n PROVE FALSE
      <4>1. l \in DOMAIN conn /\ l <= i /\ j \in DOMAIN conn
        BY <1>1
      <4>2. i \in Nat /\ l \in Nat
        BY <4>1, ConnTyped
      <4>3. l = i
        BY <3>1, <4>1, <4>2
      <4>4. m \in 1 .. n
        BY <1>a, <4>3
      <4> QED
        BY <1>4, <3>1, <4>2, <4>3, <4>4
    <3> QED
      BY <1>3, <3>1
  <2>2. CASE m \in DOMAIN conn[l].out /\ conn'[l].out[m] = conn[l].out[m]
    <3>1. Precedes(x, y)
      BY <1>1, <2>1, <2>2 DEF Written, InSequence
    <3> QED
      BY <3>1
  <2>3. CASE conn'[l].out[m] = <<sender.item, sender.piece>>
    <3>1. sender.piece = 1 /\ y = sender.item
      BY <2>3
    <3>2. Precedes(x, sender.item)
      BY <1>1, <2>1, <3>1 DEF Written, Holding
    <3> QED
      BY <3>1, <3>2
  <2> QED
    BY <1>3, <2>2, <2>3
<1>9. Holding'
  <2>1. CASE sender.piece = 2
    <3>1. InHand' = 0 /\ sender'.piece = 1
      BY <1>2, <2>1 DEF InHand
    <3> QED
      BY <3>1 DEF Holding
  <2>2. CASE sender.piece = 1
    <3>1. InHand' = 1 /\ sender'.piece = 2 /\ sender'.item = sender.item
      BY <1>2, <2>2 DEF InHand
    <3>2. ASSUME NEW x, x = sender'.item PROVE Taken(x)'
      BY <1>1, <3>1, <3>2 DEF Written, Holding
    <3>3. ASSUME NEW x, x = sender'.item, NEW j \in DOMAIN conn', NEW k \in DOMAIN conn'[j].out,
                 NEW y, y = conn'[j].out[k][1]
          PROVE  Precedes(y, x)' \/ conn'[j].out[k] = <<x, 1>>
      <4>1. CASE k \in DOMAIN conn[j].out /\ conn'[j].out[k] = conn[j].out[k]
        <5>1. Precedes(y, x)
          BY <1>1, <2>2, <3>1, <3>3, <4>1 DEF Written, Holding
        <5> QED
          BY <5>1
      <4>2. CASE conn'[j].out[k] = <<sender.item, sender.piece>>
        BY <2>2, <3>1, <3>3, <4>2
      <4> QED
        BY <1>3, <3>3, <4>1, <4>2
    <3> QED
      BY <3>1, <3>2, <3>3 DEF Holding, Taken, Precedes
  <2> QED
    BY <1>2, <2>1, <2>2
<1>10. OpenEndsWell'
  <2>1. Len(conn'[i].out) = n /\ n > 0 /\ conn'[i].out[n] = <<sender.item, sender.piece>>
    BY <1>4, <1>a
  <2>2. \A j \in DOMAIN conn : j # i => ~conn[j].open
    BY <1>1, ConnTyped DEF Sockets
  <2>3. \A j \in DOMAIN conn' : conn'[j].open => j = i
    BY <1>1, <2>2
  <2> SUFFICES EndsWell(conn[i].out)'
    BY <2>3 DEF OpenEndsWell, EndsWell
  <2>4. CASE sender.piece = 2
    BY <1>2, <2>1, <2>4 DEF EndsWell
  <2>5. CASE sender.piece = 1
    BY <1>2, <2>1, <2>5 DEF EndsWell
  <2> QED
    BY <1>2, <2>4, <2>5
<1> QED
  BY <1>6, <1>7, <1>8, <1>9, <1>10 DEF Written

LEMMA WrittenDisconnect ==
    ASSUME TypeOK, Sockets, Written, SenderDisconnect,
           \A m : Taken(m) => Taken(m)', \A m, n : Precedes(m, n) => Precedes(m, n)'
    PROVE  Written'
<1>1. /\ DisconnectSocket /\ sender.pc = "disconnect" /\ sender'.pc = "top" /\ sender'.piece = 1
  BY SenderDisconnectIs
<1>2. /\ DOMAIN conn' = DOMAIN conn
      /\ \A i \in DOMAIN conn : conn'[i].out = conn[i].out
      /\ \A i \in DOMAIN conn : i # fd => conn'[i] = conn[i]
      /\ \A i \in DOMAIN conn : i = fd => conn'[i].open = FALSE
  BY <1>1, DisconnectIs
<1>3. \A i \in DOMAIN conn' : ~conn'[i].open
  BY <1>1, <1>2 DEF Sockets
<1>4. InHand' = 0
  BY <1>1 DEF InHand
<1>5. AllFramed' /\ AllTaken' /\ InSequence' /\ Holding'
  BY <1>1, <1>2, <1>4, NothingWritten
<1>6. OpenEndsWell'
  BY <1>3 DEF OpenEndsWell
<1> QED
  BY <1>5, <1>6 DEF Written

LEMMA WrittenStep == TypeOK /\ Shape /\ Sockets /\ Queued /\ Written /\ [Next]_vars => Written'
<1> SUFFICES ASSUME TypeOK, Shape, Sockets, Queued, Written, [Next]_vars PROVE Written'
  OBVIOUS
<1>1. /\ \A m : Taken(m) => Taken(m)'
      /\ \A m, n : Precedes(m, n) => Precedes(m, n)'
  BY OrderIsKept
<1>2. ASSUME DOMAIN conn' = DOMAIN conn,
             \A i \in DOMAIN conn : conn'[i].out = conn[i].out /\ (conn'[i].open => conn[i].open),
             sender'.item = sender.item, sender'.piece = sender.piece,
             \/ sender'.pc = sender.pc
             \/ sender.pc = "fetch" /\ sender'.pc = "send"
             \/ /\ sender.pc \notin {"fetch", "send", "disconnect"}
                /\ sender'.pc \notin {"fetch", "send"}
      PROVE  Written'
  <2>1. InHand' = InHand /\ (sender.pc = "disconnect" => sender'.pc = "disconnect")
    BY <1>2 DEF InHand
  <2>2. AllFramed' /\ AllTaken' /\ InSequence' /\ Holding' /\ OpenEndsWell'
    BY <1>1, <1>2, <2>1, NothingWritten
  <2> QED
    BY <2>2 DEF Written
<1>3. ASSUME DisconnectSocket, UNCHANGED sender PROVE Written'
  <2>1. /\ DOMAIN conn' = DOMAIN conn
        /\ \A i \in DOMAIN conn : conn'[i].out = conn[i].out
        /\ \A i \in DOMAIN conn : i # fd => conn'[i] = conn[i]
        /\ \A i \in DOMAIN conn : i = fd => conn'[i].open = FALSE
    BY <1>3, DisconnectIs
  <2>2. \A i \in DOMAIN conn : conn'[i].out = conn[i].out /\ (conn'[i].open => conn[i].open)
    BY <2>1
  <2> QED
    BY <1>2, <1>3, <2>1, <2>2
<1>4. CASE SenderMoves
  BY <1>2, <1>4, SenderMovesIs
<1>5. CASE StoreFd
  BY <1>2, <1>5, StoreFdIs
<1>6. CASE WriteFetch
  BY <1>2, <1>6, WriteFetchIs
<1>7. CASE WriteFails
  <2>1. UNCHANGED conn /\ sender'.pc = "disconnect" /\ sender'.piece = 1
    BY <1>7, WriteFailsIs
  <2>2. InHand' = 0
    BY <2>1 DEF InHand
  <2>3. AllFramed' /\ AllTaken' /\ InSequence' /\ Holding'
    BY <1>1, <2>1, <2>2, NothingWritten
  <2>4. OpenEndsWell'
    BY <2>1 DEF OpenEndsWell, EndsWell
  <2> QED
    BY <2>3, <2>4 DEF Written
<1>8. CASE (RecvLoopTop \/ RecvTestConnected) \/ ReadFetch \/ RecvEnter \/ RecvEnd \/ OnRecv \/ PushAck
  <2>1. UNCHANGED <<conn, sender>>
    BY <1>8, RecvMovesIs, ReadFetchIs, RecvEnterIs, RecvEndIs, OnRecvIs, PushAckIs DEF RestOfReceive
  <2> QED
    BY <1>2, <2>1
<1>9. CASE RecvData
  <2>1. /\ DOMAIN conn' = DOMAIN conn /\ sender' = sender
        /\ \A i \in DOMAIN conn : conn'[i].out = conn[i].out /\ (conn'[i].open => conn[i].open)
    BY <1>9, RecvDataIs DEF RestOfReceive
  <2> QED
    BY <1>2, <2>1
<1>10. CASE ReceiverFails \/ ReceiverDisconnect
  BY <1>2, <1>3, <1>10, ReceiverFailsIs, ReceiverDisconnectIs DEF RestOfReceive
<1>11. ASSUME NEW i \in DOMAIN conn, PeerSends(i) \/ PeerCloses(i) PROVE Written'
  <2>1. /\ DOMAIN conn' = DOMAIN conn /\ sender' = sender
        /\ \A j \in DOMAIN conn : conn'[j].out = conn[j].out /\ (conn'[j].open => conn[j].open)
    BY <1>11, PeerSendsIs, PeerClosesIs
  <2> QED
    BY <1>2, <2>1
<1>12. CASE AppStep
  BY <1>2, <1>12, AppStepIs
<1>13. CASE StopDisconnect
  BY <1>3, <1>13, StopDisconnectIs
<1>14. CASE UNCHANGED vars
  BY <1>2, <1>14 DEF vars, socketVars
<1>15. CASE ConnectSucceeds \/ PopItem \/ WriteSucceeds \/ SenderDisconnect
  BY <1>1, <1>15, WrittenConnect, WrittenPop, WrittenWrite, WrittenDisconnect
<1> QED
  BY <1>4, <1>5, <1>6, <1>7, <1>8, <1>9, <1>10, <1>11, <1>12, <1>13, <1>14, <1>15, NextIs

(* The place of a message is where it was accepted. *)
LEMMA PositionIs ==
    ASSUME Numbered, NEW p \in DOMAIN accepted
    PROVE  Position(accepted[p]) = p
BY DEF Position, Numbered

LEMMA WrittenIsFramed == TypeOK /\ Queued /\ Written => OutgoingFramed
<1> SUFFICES ASSUME TypeOK, Queued, Written PROVE OutgoingFramed
  OBVIOUS
<1>1. \A m, n : Precedes(m, n) => Position(m) < Position(n)
  BY PositionIs DEF Precedes, Queued
<1> QED
  BY <1>1 DEF Written, AllFramed, Framed, InSequence, OutgoingFramed

LEMMA QueuedIsAccounted == TypeOK /\ Queued => Accounted
<1> SUFFICES ASSUME TypeOK, Queued PROVE Accounted
  OBVIOUS
<1>1. queue \in Seq(Seqs) /\ accepted \in Seq(Seqs) /\ Len(queue) <= Len(accepted)
  BY CountsTyped, Backlog DEF Queued
<1>2. queue = SubSeq(accepted, Len(accepted) - Len(queue) + 1, Len(accepted))
  BY <1>1, EndOf DEF Queued, Newest
<1> QED
  BY <1>2 DEF Accounted, Queued, Counted

-----------------------------------------------------------------------------
(* What is read. *)

Less(a, b) == a[1] < b[1] \/ (a[1] = b[1] /\ a[2] < b[2])

(* Everything that waits on the connection of piece a comes after a. *)
Passed(a) ==
    /\ a[1] \in DOMAIN carrier
    /\ \A k \in DOMAIN conn[carrier[a[1]]].in : Less(a, conn[carrier[a[1]]].in[k])

Carried ==
    \A i \in DOMAIN conn : \A k \in DOMAIN conn[i].in :
        conn[i].in[k][1] \in DOMAIN carrier /\ carrier[conn[i].in[k][1]] = i

Rising ==
    \A i \in DOMAIN conn : \A k, l \in DOMAIN conn[i].in : k < l => Less(conn[i].in[k], conn[i].in[l])

GotPassed == \A k \in DOMAIN receiver.got : Passed(receiver.got[k])

(* A configuration has been read to its end, and it is not in hand any more. *)
DeliveredPassed ==
    \A k \in DOMAIN delivered :
        /\ Passed(<<delivered[k], 3>>)
        /\ \A g \in DOMAIN receiver.got : receiver.got[g] # <<delivered[k], 3>>

DeliveredOnce == \A k, l \in DOMAIN delivered : delivered[k] = delivered[l] => k = l

Ordered == Carried /\ Rising /\ GotPassed /\ DeliveredPassed /\ DeliveredOnce

(* s is a part of t: all of it, without its head, or cut short. *)
Part(s, t) == \E d \in 0 .. 1 : \A k \in DOMAIN s : k + d \in DOMAIN t /\ s[k] = t[k + d]

LEMMA TailIsPart == ASSUME NEW S, NEW t \in Seq(S), t # <<>> PROVE Part(Tail(t), t)
<1>1. \A k \in DOMAIN Tail(t) : k + 1 \in DOMAIN t /\ Tail(t)[k] = t[k + 1]
  OBVIOUS
<1> QED
  BY <1>1 DEF Part

LEMMA StartIsPart ==
    ASSUME NEW S, NEW t \in Seq(S), NEW n \in 0 .. Len(t) PROVE Part(SubSeq(t, 1, n), t)
<1>1. \A k \in DOMAIN SubSeq(t, 1, n) : k + 0 \in DOMAIN t /\ SubSeq(t, 1, n)[k] = t[k + 0]
  OBVIOUS
<1> QED
  BY <1>1 DEF Part

LEMMA WholeIsPart == ASSUME NEW S, NEW t \in Seq(S) PROVE Part(t, t) /\ Part(<<>>, t)
<1>1. \A k \in DOMAIN t : k + 0 \in DOMAIN t /\ t[k] = t[k + 0]
  OBVIOUS
<1>2. DOMAIN <<>> = {}
  OBVIOUS
<1> QED
  BY <1>1, <1>2 DEF Part

(* Reading, cutting short and closing keep the order. *)
LEMMA PartsKeepOrder ==
    ASSUME TypeOK, Carried, Rising, UNCHANGED carrier,
           DOMAIN conn \subseteq DOMAIN conn',
           \A i \in DOMAIN conn : Part(conn'[i].in, conn[i].in) /\ DOMAIN conn'[i].in \subseteq Nat,
           \A i \in DOMAIN conn' : i \in DOMAIN conn \/ conn'[i].in = <<>>
    PROVE  Carried' /\ Rising' /\ \A a : Passed(a) => Passed(a)'
<1>0. \A n \in DOMAIN carrier : carrier[n] \in DOMAIN conn
  <2>1. carrier \in Seq(1 .. Len(conn)) /\ DOMAIN conn = 1 .. Len(conn)
    BY CountsTyped, ConnTyped
  <2> QED
    BY <2>1
<1>1. Carried'
  <2> SUFFICES ASSUME NEW i \in DOMAIN conn', NEW k \in DOMAIN conn'[i].in
               PROVE  conn'[i].in[k][1] \in DOMAIN carrier' /\ carrier'[conn'[i].in[k][1]] = i
    BY DEF Carried
  <2>1. i \in DOMAIN conn
    OBVIOUS
  <2>2. PICK d \in 0 .. 1 : k + d \in DOMAIN conn[i].in /\ conn'[i].in[k] = conn[i].in[k + d]
    BY <2>1 DEF Part
  <2> QED
    BY <2>1, <2>2 DEF Carried
<1>2. Rising'
  <2> SUFFICES ASSUME NEW i \in DOMAIN conn', NEW k \in DOMAIN conn'[i].in, NEW l \in DOMAIN conn'[i].in,
                      k < l
               PROVE  Less(conn'[i].in[k], conn'[i].in[l])
    BY DEF Rising, Less
  <2>1. i \in DOMAIN conn
    OBVIOUS
  <2>2. PICK d \in 0 .. 1 : \A n \in DOMAIN conn'[i].in :
                               n + d \in DOMAIN conn[i].in /\ conn'[i].in[n] = conn[i].in[n + d]
    BY <2>1 DEF Part
  <2>3. k + d < l + d
    BY <2>1
  <2>4. Less(conn[i].in[k + d], conn[i].in[l + d])
    BY <2>1, <2>2, <2>3 DEF Rising
  <2> QED
    BY <2>2, <2>4
<1>3. ASSUME NEW a, Passed(a) PROVE Passed(a)'
  <2> DEFINE i == carrier[a[1]]
  <2>1. a[1] \in DOMAIN carrier /\ i \in DOMAIN conn /\ \A k \in DOMAIN conn[i].in : Less(a, conn[i].in[k])
    BY <1>0, <1>3 DEF Passed
  <2>2. \A k \in DOMAIN conn'[i].in : Less(a, conn'[i].in[k])
    BY <2>1 DEF Part
  <2> QED
    BY <2>1, <2>2 DEF Passed, Less
<1> QED
  BY <1>1, <1>2, <1>3

(* Nothing new is in hand and nothing is delivered. *)
LEMMA NothingRead ==
    ASSUME Ordered, Carried', Rising', \A a : Passed(a) => Passed(a)', UNCHANGED delivered,
           receiver'.got = receiver.got \/ receiver'.got = <<>>
    PROVE  Ordered'
<1>1. GotPassed'
  <2> SUFFICES ASSUME NEW k \in DOMAIN receiver'.got, NEW a, a = receiver'.got[k] PROVE Passed(a)'
    BY DEF GotPassed, Passed
  <2>1. receiver'.got = receiver.got
    OBVIOUS
  <2> QED
    BY <2>1 DEF Ordered, GotPassed
<1>2. DeliveredPassed'
  <2>1. ASSUME NEW k \in DOMAIN delivered', NEW a, a = <<delivered'[k], 3>> PROVE Passed(a)'
    BY <2>1 DEF Ordered, DeliveredPassed
  <2>2. ASSUME NEW k \in DOMAIN delivered', NEW g \in DOMAIN receiver'.got
        PROVE  receiver'.got[g] # <<delivered'[k], 3>>
    <3>1. receiver'.got = receiver.got
      BY <2>2
    <3> QED
      BY <2>2, <3>1 DEF Ordered, DeliveredPassed
  <2> QED
    BY <2>1, <2>2 DEF DeliveredPassed, Passed
<1>3. DeliveredOnce'
  BY DEF Ordered, DeliveredOnce
<1> QED
  BY <1>1, <1>2, <1>3 DEF Ordered

LEMMA OrderedRecvData == ASSUME TypeOK, Shape, Ordered, RecvData PROVE Ordered'
<1> DEFINE i == receiver.on
           h == Head(conn[i].in)
<1>1. /\ UNCHANGED <<carrier, delivered>> /\ i \in DOMAIN conn /\ conn[i].in # <<>>
      /\ DOMAIN conn' = DOMAIN conn /\ conn'[i].in = Tail(conn[i].in)
      /\ \A j \in DOMAIN conn : j # i => conn'[j] = conn[j]
      /\ receiver'.got = <<>> \/ receiver'.got = Append(receiver.got, h)
  BY RecvDataIs DEF RestOfReceive
<1>2. \A j \in DOMAIN conn : conn[j].in \in Seq(Frames \X Nat)
  BY ConnTyped
<1>3. \A j \in DOMAIN conn : Part(conn'[j].in, conn[j].in) /\ DOMAIN conn'[j].in \subseteq Nat
  <2>1. Part(conn'[i].in, conn[i].in)
    BY <1>1, <1>2, TailIsPart
  <2>2. \A j \in DOMAIN conn : j # i => Part(conn'[j].in, conn[j].in)
    BY <1>1, <1>2, WholeIsPart
  <2>3. \A j \in DOMAIN conn : conn'[j].in \in Seq(Frames \X Nat)
    <3>1. Tail(conn[i].in) \in Seq(Frames \X Nat)
      BY <1>1, <1>2
    <3> QED
      BY <1>1, <1>2, <3>1
  <2> QED
    BY <2>1, <2>2, <2>3
<1>4. Carried' /\ Rising' /\ \A a : Passed(a) => Passed(a)'
  BY <1>1, <1>3, PartsKeepOrder DEF Ordered
<1>5. CASE receiver'.got = <<>>
  BY <1>1, <1>4, <1>5, NothingRead
<1>6. CASE receiver'.got = Append(receiver.got, h)
  <2>1. /\ 1 \in DOMAIN conn[i].in /\ h = conn[i].in[1]
        /\ \A k \in DOMAIN conn'[i].in : k + 1 \in DOMAIN conn[i].in /\ conn'[i].in[k] = conn[i].in[k + 1]
                                         /\ 1 < k + 1
    BY <1>1, <1>2
  <2>2. h[1] \in DOMAIN carrier /\ carrier[h[1]] = i
    BY <1>1, <2>1 DEF Ordered, Carried
  <2>3. receiver.got \in Seq(Frames \X Nat)
    BY ThreadsTyped
  <2> HIDE DEF h
  <2>4. \A k \in DOMAIN receiver'.got : \/ k \in DOMAIN receiver.got /\ receiver'.got[k] = receiver.got[k]
                                        \/ receiver'.got[k] = h
    BY <1>6, <2>3
  <2>5. ASSUME NEW a, a = h PROVE Passed(a)'
    <3>1. \A k \in DOMAIN conn'[i].in : Less(h, conn'[i].in[k])
      BY <1>1, <2>1 DEF Ordered, Rising
    <3> QED
      BY <1>1, <2>2, <2>5, <3>1 DEF Passed, Less
  <2>6. GotPassed'
    <3> SUFFICES ASSUME NEW k \in DOMAIN receiver'.got, NEW a, a = receiver'.got[k] PROVE Passed(a)'
      BY DEF GotPassed, Passed
    <3> QED
      BY <1>4, <2>4, <2>5 DEF Ordered, GotPassed
  <2>7. DeliveredPassed'
    <3>1. ASSUME NEW k \in DOMAIN delivered', NEW a, a = <<delivered'[k], 3>> PROVE Passed(a)'
      BY <1>1, <1>4, <3>1 DEF Ordered, DeliveredPassed
    <3>2. ASSUME NEW k \in DOMAIN delivered PROVE h # <<delivered[k], 3>>
      <4>1. SUFFICES ASSUME h = <<delivered[k], 3>> PROVE FALSE
        OBVIOUS
      <4>2. Passed(h)
        BY <3>2, <4>1 DEF Ordered, DeliveredPassed
      <4>3. Less(h, h)
        BY <2>1, <2>2, <4>2 DEF Passed
      <4>4. h[1] \in Int /\ h[2] \in Int
        BY <1>1, <1>2, <2>1 DEF Frames
      <4> QED
        BY <4>3, <4>4 DEF Less
    <3>3. ASSUME NEW k \in DOMAIN delivered', NEW g \in DOMAIN receiver'.got
          PROVE  receiver'.got[g] # <<delivered'[k], 3>>
      BY <1>1, <2>4, <3>2, <3>3 DEF Ordered, DeliveredPassed
    <3> QED
      BY <3>1, <3>3 DEF DeliveredPassed, Passed
  <2>8. DeliveredOnce'
    BY <1>1 DEF Ordered, DeliveredOnce
  <2> QED
    BY <1>4, <2>6, <2>7, <2>8 DEF Ordered
<1> QED
  BY <1>1, <1>5, <1>6

LEMMA OrderedOnRecv == ASSUME TypeOK, Shape, Ordered, OnRecv PROVE Ordered'
<1> DEFINE n == receiver.got[2][1]
<1>1. UNCHANGED <<carrier, conn>> /\ receiver.pc = "deliver" /\ receiver'.got = <<>>
  BY OnRecvIs DEF RestOfReceive
<1>2. Carried' /\ Rising' /\ \A a : Passed(a) => Passed(a)'
  BY <1>1 DEF Ordered, Carried, Rising, Passed
<1>3. CASE UNCHANGED delivered
  BY <1>1, <1>2, <1>3, NothingRead
<1>4. CASE /\ \A j \in 3 .. Len(receiver.got) : receiver.got[j] = <<n, j>>
           /\ delivered' = Append(delivered, n)
  <2>1. 3 \in DOMAIN receiver.got /\ receiver.got[3] = <<n, 3>> /\ delivered \in Seq(Frames)
    <3>1. Len(receiver.got) > 2 /\ receiver.got \in Seq(Frames \X Nat)
      BY <1>1, ThreadsTyped DEF Shape, Whole
    <3>2. 3 \in DOMAIN receiver.got /\ 3 \in 3 .. Len(receiver.got)
      BY <3>1
    <3> QED
      BY <1>4, <3>2, CountsTyped
  <2> HIDE DEF n
  <2>2. Passed(<<n, 3>>) /\ \A k \in DOMAIN delivered : delivered[k] # n
    BY <2>1 DEF Ordered, GotPassed, DeliveredPassed
  <2>3. /\ DOMAIN delivered' = DOMAIN delivered \cup {Len(delivered) + 1}
        /\ \A k \in DOMAIN delivered : delivered'[k] = delivered[k]
        /\ delivered'[Len(delivered) + 1] = n
    BY <1>4, <2>1
  <2>4. GotPassed'
    BY <1>1 DEF GotPassed
  <2>5. DeliveredPassed'
    <3>1. ASSUME NEW k \in DOMAIN delivered', NEW a, a = <<delivered'[k], 3>> PROVE Passed(a)'
      BY <1>2, <2>2, <2>3, <3>1 DEF Ordered, DeliveredPassed
    <3>2. DOMAIN receiver'.got = {}
      BY <1>1
    <3> QED
      BY <3>1, <3>2 DEF DeliveredPassed, Passed
  <2>6. DeliveredOnce'
    BY <2>2, <2>3 DEF Ordered, DeliveredOnce
  <2> QED
    BY <1>2, <2>4, <2>5, <2>6 DEF Ordered
<1> QED
  BY <1>3, <1>4, OnRecvIs

LEMMA PiecesAdded ==
    ASSUME NEW s \in Seq(Frames \X Nat), NEW n \in Frames
    PROVE  /\ s \o Pieces(n) \in Seq(Frames \X Nat) /\ Len(s) \in Nat /\ DOMAIN s = 1 .. Len(s)
           /\ Len(s \o Pieces(n)) = Len(s) + Size(n)
           /\ DOMAIN (s \o Pieces(n)) = 1 .. Len(s) + Size(n)
           /\ \A k \in 1 .. Len(s) : (s \o Pieces(n))[k] = s[k]
           /\ \A p \in 1 .. Size(n) : (s \o Pieces(n))[Len(s) + p] = <<n, p>>
<1>0. Size(n) \in Nat
  BY SizeTyped
<1>1. /\ Pieces(n) \in Seq(Frames \X Nat) /\ Len(Pieces(n)) = Size(n)
      /\ \A p \in 1 .. Size(n) : Pieces(n)[p] = <<n, p>>
  <2>1. Pieces(n) \in [1 .. Size(n) -> Frames \X Nat]
    BY <1>0 DEF Pieces
  <2> QED
    BY <1>0, <2>1 DEF Pieces
<1> DEFINE t == Pieces(n)
<1> HIDE DEF t
<1>2. t \in Seq(Frames \X Nat) /\ Len(t) = Size(n) /\ \A p \in 1 .. Size(n) : t[p] = <<n, p>>
  BY <1>1 DEF t
<1> DEFINE u == s \o t
<1>3. u \in Seq(Frames \X Nat) /\ Len(u) = Len(s) + Len(t)
      /\ \A i \in 1 .. Len(s) + Len(t) : u[i] = IF i <= Len(s) THEN s[i] ELSE t[i - Len(s)]
  BY <1>2, ConcatProperties
<1> HIDE DEF u
<1>4. /\ Len(s) \in Nat /\ DOMAIN s = 1 .. Len(s) /\ Len(u) = Len(s) + Size(n) /\ DOMAIN u = 1 .. Len(s) + Size(n)
      /\ \A k \in 1 .. Len(s) : u[k] = s[k]
  BY <1>0, <1>2, <1>3
<1>5. ASSUME NEW p \in 1 .. Size(n) PROVE u[Len(s) + p] = <<n, p>>
  <2>1. /\ Len(s) + p \in 1 .. Len(s) + Len(t) /\ ~(Len(s) + p <= Len(s))
        /\ (Len(s) + p) - Len(s) = p
    BY <1>0, <1>2, <1>4
  <2>2. u[Len(s) + p] = t[p]
    BY <1>3, <2>1
  <2> QED
    BY <1>2, <2>2
<1> QED
  BY <1>3, <1>4, <1>5 DEF t, u

(* What the peer adds comes after everything it has sent before. *)
LEMMA OrderedSends ==
    ASSUME TypeOK, Ordered, NEW i \in DOMAIN conn, PeerSends(i) PROVE Ordered'
<1> DEFINE n == Len(carrier) + 1
           m == Len(conn[i].in)
<1>1. /\ UNCHANGED <<delivered, receiver>> /\ carrier' = Append(carrier, i) /\ Len(carrier) < MaxFrames
      /\ DOMAIN conn' = DOMAIN conn /\ conn'[i].in = conn[i].in \o Pieces(n)
      /\ \A j \in DOMAIN conn : j # i => conn'[j] = conn[j]
  BY PeerSendsIs
<1>2. carrier \in Seq(1 .. Len(conn)) /\ DOMAIN conn = 1 .. Len(conn) /\ MaxFrames \in Nat
  BY CountsTyped, ConnTyped
<1>3. /\ n \in Nat /\ DOMAIN carrier = 1 .. n - 1 /\ DOMAIN carrier' = DOMAIN carrier \cup {n}
      /\ \A k \in DOMAIN carrier : carrier'[k] = carrier[k] /\ k \in Int /\ k < n /\ carrier[k] \in DOMAIN conn
      /\ carrier'[n] = i /\ n \in Frames
  <2>1. Len(carrier) \in Nat /\ DOMAIN carrier = 1 .. Len(carrier)
    BY <1>2
  <2>2. /\ DOMAIN carrier' = DOMAIN carrier \cup {n} /\ carrier'[n] = i
        /\ \A k \in DOMAIN carrier : carrier'[k] = carrier[k]
    <3>1. carrier' = Append(carrier, i) /\ i \in 1 .. Len(conn)
      BY <1>1, <1>2
    <3> QED
      BY <1>2, <3>1
  <2>3. n \in Nat /\ DOMAIN carrier = 1 .. n - 1 /\ \A k \in DOMAIN carrier : k \in Int /\ k < n
    BY <2>1
  <2>4. \A k \in DOMAIN carrier : carrier[k] \in DOMAIN conn
    BY <1>2
  <2>5. n \in Frames
    BY <1>1, <1>2, <2>1 DEF Frames
  <2> QED
    BY <2>2, <2>3, <2>4, <2>5
<1>4. \A j \in DOMAIN conn : conn[j].in \in Seq(Frames \X Nat)
  BY ConnTyped
<1>a. Size(n) \in Nat
  BY <1>3, SizeTyped
<1>5. /\ m \in Nat /\ DOMAIN conn[i].in = 1 .. m
      /\ DOMAIN conn'[i].in = 1 .. m + Size(n)
      /\ \A k \in 1 .. m : conn'[i].in[k] = conn[i].in[k]
      /\ \A p \in 1 .. Size(n) : conn'[i].in[m + p] = <<n, p>>
  <2> DEFINE s == conn[i].in
             t == s \o Pieces(n)
  <2>1. s \in Seq(Frames \X Nat) /\ n \in Frames
    BY <1>3, <1>4
  <2>2. conn'[i].in = t
    BY <1>1
  <2> HIDE DEF n, s
  <2>3. /\ Len(s) \in Nat /\ DOMAIN s = 1 .. Len(s) /\ DOMAIN t = 1 .. Len(s) + Size(n)
        /\ \A k \in 1 .. Len(s) : t[k] = s[k]
        /\ \A p \in 1 .. Size(n) : t[Len(s) + p] = <<n, p>>
    BY <2>1, PiecesAdded
  <2> HIDE DEF t
  <2> QED
    BY <2>2, <2>3 DEF s
<1> HIDE DEF n, m
<1>6. ASSUME NEW j \in DOMAIN conn', NEW k \in DOMAIN conn'[j].in
      PROVE  \/ k \in DOMAIN conn[j].in /\ conn'[j].in[k] = conn[j].in[k]
             \/ j = i /\ \E p \in 1 .. Size(n) : k = m + p /\ conn'[j].in[k] = <<n, p>>
  <2>1. CASE j # i
    BY <1>1, <1>6, <2>1
  <2>2. CASE j = i /\ k \in 1 .. m
    BY <1>5, <2>2
  <2>3. CASE j = i /\ k \in m + 1 .. m + Size(n)
    <3>1. PICK p \in 1 .. Size(n) : k = m + p
      <4>1. k - m \in 1 .. Size(n) /\ k = m + (k - m)
        BY <1>5, <1>a, <2>3
      <4> QED
        BY <4>1
    <3> QED
      BY <1>5, <2>3, <3>1
  <2> QED
    BY <1>5, <1>6, <1>a, <2>1, <2>2, <2>3
<1>7. \A j \in DOMAIN conn : \A k \in DOMAIN conn[j].in :
         conn[j].in[k][1] \in DOMAIN carrier /\ carrier[conn[j].in[k][1]] = j
  BY DEF Ordered, Carried
<1>8. Carried'
  <2> SUFFICES ASSUME NEW j \in DOMAIN conn', NEW k \in DOMAIN conn'[j].in
               PROVE  conn'[j].in[k][1] \in DOMAIN carrier' /\ carrier'[conn'[j].in[k][1]] = j
    BY DEF Carried
  <2>1. CASE k \in DOMAIN conn[j].in /\ conn'[j].in[k] = conn[j].in[k]
    BY <1>1, <1>3, <1>7, <2>1
  <2>2. CASE j = i /\ \E p \in 1 .. Size(n) : conn'[j].in[k] = <<n, p>>
    BY <1>3, <2>2
  <2> QED
    BY <1>6, <2>1, <2>2
<1>9. Rising'
  <2> SUFFICES ASSUME NEW j \in DOMAIN conn', NEW k \in DOMAIN conn'[j].in, NEW l \in DOMAIN conn'[j].in,
                      k < l
               PROVE  Less(conn'[j].in[k], conn'[j].in[l])
    BY DEF Rising, Less
  <2>1. CASE l \in DOMAIN conn[j].in /\ conn'[j].in[l] = conn[j].in[l]
    <3>1. k \in DOMAIN conn[j].in /\ conn'[j].in[k] = conn[j].in[k]
      <4>1. CASE j # i
        BY <1>1, <4>1
      <4>2. CASE j = i
        <5>1. k \in 1 .. m + Size(n) /\ l \in 1 .. m
          BY <1>5, <2>1, <4>2
        <5>2. k \in 1 .. m
          BY <1>5, <1>a, <5>1
        <5> QED
          BY <1>5, <4>2, <5>2
      <4> QED
        BY <4>1, <4>2
    <3> QED
      BY <1>1, <2>1, <3>1 DEF Ordered, Rising
  <2>2. ASSUME NEW q \in 1 .. Size(n), l = m + q, conn'[j].in[l] = <<n, q>>
        PROVE  Less(conn'[j].in[k], conn'[j].in[l])
    <3>1. CASE k \in DOMAIN conn[j].in /\ conn'[j].in[k] = conn[j].in[k]
      <4>1. conn[j].in[k][1] < n
        BY <1>1, <1>3, <1>7, <3>1
      <4> QED
        BY <2>2, <3>1, <4>1 DEF Less
    <3>2. ASSUME NEW p \in 1 .. Size(n), k = m + p, conn'[j].in[k] = <<n, p>>
          PROVE  Less(conn'[j].in[k], conn'[j].in[l])
      <4>1. p < q
        BY <1>5, <1>a, <2>2, <3>2
      <4> QED
        BY <2>2, <3>2, <4>1 DEF Less
    <3> QED
      BY <1>6, <3>1, <3>2
  <2> QED
    BY <1>6, <2>1, <2>2
<1>10. ASSUME NEW a, Passed(a) PROVE Passed(a)'
  <2> DEFINE j == carrier[a[1]]
  <2>1. /\ a[1] \in DOMAIN carrier /\ j \in DOMAIN conn /\ a[1] < n /\ carrier'[a[1]] = j
        /\ a[1] \in DOMAIN carrier' /\ \A k \in DOMAIN conn[j].in : Less(a, conn[j].in[k])
    BY <1>3, <1>10 DEF Passed
  <2> HIDE DEF j
  <2>2. ASSUME NEW k \in DOMAIN conn'[j].in PROVE Less(a, conn'[j].in[k])
    <3>1. CASE k \in DOMAIN conn[j].in /\ conn'[j].in[k] = conn[j].in[k]
      BY <2>1, <3>1
    <3>2. CASE \E p \in 1 .. Size(n) : conn'[j].in[k] = <<n, p>>
      BY <2>1, <3>2 DEF Less
    <3> QED
      BY <1>1, <1>6, <2>1, <3>1, <3>2
  <2> QED
    BY <2>1, <2>2 DEF Passed, Less
<1> QED
  BY <1>1, <1>8, <1>9, <1>10, NothingRead

LEMMA OrderedStep == TypeOK /\ Shape /\ Ordered /\ [Next]_vars => Ordered'
<1> SUFFICES ASSUME TypeOK, Shape, Ordered, [Next]_vars PROVE Ordered'
  OBVIOUS
<1>0. \A j \in DOMAIN conn : conn[j].in \in Seq(Frames \X Nat) /\ DOMAIN conn[j].in \subseteq Nat
  <2>1. \A j \in DOMAIN conn : conn[j].in \in Seq(Frames \X Nat)
    BY ConnTyped
  <2> QED
    BY <2>1
<1>1. ASSUME UNCHANGED <<carrier, delivered>>, DOMAIN conn \subseteq DOMAIN conn',
             \A j \in DOMAIN conn : conn'[j].in = conn[j].in,
             \A j \in DOMAIN conn' : j \in DOMAIN conn \/ conn'[j].in = <<>>,
             receiver'.got = receiver.got \/ receiver'.got = <<>>
      PROVE  Ordered'
  <2>1. \A j \in DOMAIN conn : Part(conn'[j].in, conn[j].in) /\ DOMAIN conn'[j].in \subseteq Nat
    BY <1>0, <1>1, WholeIsPart
  <2>2. Carried' /\ Rising' /\ \A a : Passed(a) => Passed(a)'
    BY <1>1, <2>1, PartsKeepOrder DEF Ordered
  <2> QED
    BY <1>1, <2>2, NothingRead
<1>2. ASSUME DisconnectSocket, UNCHANGED <<carrier, delivered>>,
             receiver'.got = receiver.got \/ receiver'.got = <<>>
      PROVE  Ordered'
  <2>1. /\ DOMAIN conn' = DOMAIN conn
        /\ \A j \in DOMAIN conn : j # fd => conn'[j] = conn[j]
        /\ \A j \in DOMAIN conn : j = fd => conn'[j].in = <<>>
    BY <1>2, DisconnectIs
  <2>2. \A j \in DOMAIN conn : j # fd => Part(conn'[j].in, conn[j].in) /\ DOMAIN conn'[j].in \subseteq Nat
    BY <1>0, <2>1, WholeIsPart
  <2>3. \A j \in DOMAIN conn : j = fd => Part(conn'[j].in, conn[j].in) /\ DOMAIN conn'[j].in \subseteq Nat
    BY <1>0, <2>1, WholeIsPart
  <2>4. Carried' /\ Rising' /\ \A a : Passed(a) => Passed(a)'
    <3>1. \A j \in DOMAIN conn : Part(conn'[j].in, conn[j].in) /\ DOMAIN conn'[j].in \subseteq Nat
      BY <2>2, <2>3
    <3> QED
      BY <1>2, <2>1, <3>1, PartsKeepOrder DEF Ordered
  <2> QED
    BY <1>2, <2>4, NothingRead
<1>3. CASE SenderMoves \/ StoreFd \/ PopItem \/ WriteFetch \/ WriteFails
  <2>1. UNCHANGED <<carrier, delivered, conn, receiver>>
    BY <1>3, SenderMovesIs, StoreFdIs, PopItemIs, WriteFetchIs, WriteFailsIs
  <2> QED
    BY <1>1, <2>1
<1>4. CASE ConnectSucceeds
  <2>1. UNCHANGED <<carrier, delivered, receiver>>
    BY <1>4 DEF ConnectSucceeds, appVars, envVars, peerVars
  <2>2. /\ DOMAIN conn' = DOMAIN conn \cup {Len(conn) + 1}
        /\ \A i \in DOMAIN conn : conn'[i] = conn[i]
        /\ conn'[Len(conn) + 1].in = <<>>
    BY <1>4, ConnectIs
  <2> QED
    BY <1>1, <2>1, <2>2
<1>5. CASE WriteSucceeds
  <2>1. /\ UNCHANGED <<carrier, delivered, receiver>> /\ DOMAIN conn' = DOMAIN conn
        /\ \A j \in DOMAIN conn : conn'[j].in = conn[j].in
    BY <1>5, WriteIs
  <2> QED
    BY <1>1, <2>1
<1>6. CASE SenderDisconnect
  BY <1>2, <1>6, SenderDisconnectIs
<1>7. CASE (RecvLoopTop \/ RecvTestConnected) \/ ReadFetch \/ RecvEnter \/ RecvEnd \/ PushAck
  <2>1. UNCHANGED <<carrier, delivered, conn>> /\ (receiver'.got = receiver.got \/ receiver'.got = <<>>)
    BY <1>7, RecvMovesIs, ReadFetchIs, RecvEnterIs, RecvEndIs, PushAckIs DEF RestOfReceive
  <2> QED
    BY <1>1, <2>1
<1>8. CASE ReceiverFails \/ ReceiverDisconnect
  BY <1>1, <1>2, <1>8, ReceiverFailsIs, ReceiverDisconnectIs DEF RestOfReceive
<1>9. ASSUME NEW i \in DOMAIN conn, PeerCloses(i) PROVE Ordered'
  <2>1. PICK k \in 0 .. Len(conn[i].in) :
           /\ UNCHANGED <<carrier, delivered, receiver>> /\ DOMAIN conn' = DOMAIN conn
           /\ conn'[i].in = SubSeq(conn[i].in, 1, k)
           /\ \A j \in DOMAIN conn : j # i => conn'[j] = conn[j]
    BY <1>9, PeerClosesIs
  <2>2. Part(conn'[i].in, conn[i].in) /\ DOMAIN conn'[i].in \subseteq Nat
    <3>1. conn[i].in \in Seq(Frames \X Nat)
      BY <1>0
    <3>2. SubSeq(conn[i].in, 1, k) \in Seq(Frames \X Nat)
      BY <3>1
    <3> QED
      BY <2>1, <3>1, <3>2, StartIsPart
  <2>3. \A j \in DOMAIN conn : Part(conn'[j].in, conn[j].in) /\ DOMAIN conn'[j].in \subseteq Nat
    BY <1>0, <2>1, <2>2, WholeIsPart
  <2>4. Carried' /\ Rising' /\ \A a : Passed(a) => Passed(a)'
    BY <2>1, <2>3, PartsKeepOrder DEF Ordered
  <2> QED
    BY <2>1, <2>4, NothingRead
<1>10. CASE AppStep
  BY <1>1, <1>10, AppStepIs
<1>11. CASE StopDisconnect
  BY <1>2, <1>11, StopDisconnectIs
<1>12. CASE UNCHANGED vars
  BY <1>1, <1>12 DEF vars, socketVars, appVars, envVars, peerVars
<1> QED
  BY <1>3, <1>4, <1>5, <1>6, <1>7, <1>8, <1>9, <1>10, <1>11, <1>12, OrderedRecvData, OrderedOnRecv,
     OrderedSends, NextIs

-----------------------------------------------------------------------------
(* Types. *)

LEMMA QueueTypes ==
    ASSUME TypeOK, Shape, Queued, [Next]_vars
    PROVE  /\ queue' \in Seq(Seqs) /\ Len(queue') <= QueueSize /\ accepted' \in Seq(Seqs)
           /\ qStopped' \in BOOLEAN /\ dropped' \in Nat /\ sent' \in Nat /\ failed' \in Nat
<1> DEFINE Fits == /\ queue' \in Seq(Seqs) /\ Len(queue') <= QueueSize /\ accepted' \in Seq(Seqs)
                   /\ qStopped' \in BOOLEAN /\ dropped' \in Nat
<1>0. /\ queue \in Seq(Seqs) /\ Len(queue) <= QueueSize /\ accepted \in Seq(Seqs)
      /\ dropped \in Nat /\ sent \in Nat /\ failed \in Nat /\ QueueSize \in Nat
  BY CountsTyped
<1>a. qStopped \in BOOLEAN
  BY DEF TypeOK
<1>1. ASSUME UNCHANGED <<queue, accepted, qStopped, dropped>> PROVE Fits
  BY <1>0, <1>a, <1>1
<1>2. ASSUME NEW m \in Seqs, Push(m) PROVE Fits
  <2>1. qStopped' \in BOOLEAN
    BY <1>2, <1>a, PushIs
  <2>2. CASE UNCHANGED <<queue, dropped, accepted>>
    BY <1>0, <2>1, <2>2
  <2>3. CASE /\ accepted' = Append(accepted, m) /\ queue' = Append(queue, m) /\ dropped' = dropped
             /\ Len(queue) < QueueSize
    BY <1>0, <2>1, <2>3
  <2>4. CASE /\ accepted' = Append(accepted, m) /\ queue' = Append(Tail(queue), m)
             /\ dropped' = dropped + 1 /\ queue # <<>>
    <3>1. Tail(queue) \in Seq(Seqs) /\ Len(Tail(queue)) = Len(queue) - 1
      BY <1>0, <2>4
    <3>2. queue' \in Seq(Seqs) /\ Len(queue') = Len(queue)
      BY <1>0, <2>4, <3>1
    <3> QED
      BY <1>0, <2>1, <2>4, <3>2
  <2> QED
    BY <1>2, <2>2, <2>3, <2>4, PushIs
<1> HIDE DEF Fits
<1>3. CASE SenderMoves \/ StoreFd \/ WriteFetch \/ SenderDisconnect
  <2>1. UNCHANGED <<queue, accepted, qStopped, dropped, sent, failed>>
    BY <1>3, SenderMovesIs, StoreFdIs, WriteFetchIs, SenderDisconnectIs
  <2> QED
    BY <1>0, <1>1, <2>1 DEF Fits
<1>4. CASE ConnectSucceeds
  <2>1. UNCHANGED <<queue, accepted, qStopped, dropped, sent, failed>>
    BY <1>4 DEF ConnectSucceeds, queueVars, countVars
  <2> QED
    BY <1>0, <1>1, <2>1 DEF Fits
<1>5. CASE PopItem
  <2>1. /\ UNCHANGED <<accepted, qStopped, dropped, sent, failed>>
        /\ queue # <<>> /\ queue' = Tail(queue)
    BY <1>5, PopItemIs
  <2>2. queue' \in Seq(Seqs) /\ Len(queue') <= QueueSize
    BY <1>0, <2>1
  <2> QED
    BY <1>0, <1>a, <2>1, <2>2
<1>6. CASE WriteSucceeds
  <2>1. /\ UNCHANGED <<queue, accepted, qStopped, dropped, failed>>
        /\ sent' = sent \/ sent' = sent + 1
    BY <1>6, WriteIs
  <2> QED
    BY <1>0, <1>1, <2>1 DEF Fits
<1>7. CASE WriteFails
  <2>1. /\ UNCHANGED <<queue, accepted, qStopped, dropped, sent>> /\ failed' = failed + 1
    BY <1>7, WriteFailsIs
  <2> QED
    BY <1>0, <1>1, <2>1 DEF Fits
<1>8. CASE \/ (RecvLoopTop \/ RecvTestConnected) \/ ReadFetch \/ RecvEnter \/ RecvData \/ RecvEnd
           \/ ReceiverFails \/ ReceiverDisconnect \/ OnRecv
  <2>1. UNCHANGED <<queue, accepted, qStopped, dropped, sent, failed>>
    BY <1>8, RecvMovesIs, ReadFetchIs, RecvEnterIs, RecvDataIs, RecvEndIs, ReceiverFailsIs, ReceiverDisconnectIs, OnRecvIs
    DEF RestOfReceive
  <2> QED
    BY <1>0, <1>1, <2>1 DEF Fits
<1>9. CASE PushAck
  <2>1. receiver.pc = "ack" /\ Push(receiver.ack) /\ UNCHANGED <<sent, failed>>
    BY <1>9, PushAckIs
  <2>2. receiver.ack \in Seqs
    BY <2>1, FreshIsSeq DEF Queued, Numbered
  <2>3. Fits
    BY <1>2, <2>1, <2>2
  <2> QED
    BY <1>0, <2>1, <2>3 DEF Fits
<1>10. ASSUME NEW i \in DOMAIN conn, PeerSends(i) \/ PeerCloses(i)
       PROVE  Fits /\ sent' \in Nat /\ failed' \in Nat
  <2>1. UNCHANGED <<queue, accepted, qStopped, dropped, sent, failed>>
    BY <1>10, PeerSendsIs, PeerClosesIs
  <2> QED
    BY <1>0, <1>1, <2>1
<1>11. CASE StopDisconnect
  <2>1. UNCHANGED <<queue, accepted, qStopped, dropped, sent, failed>>
    BY <1>11, StopDisconnectIs
  <2> QED
    BY <1>0, <1>1, <2>1 DEF Fits
<1>12. CASE AppStep
  <2>1. UNCHANGED <<sent, failed>>
    BY <1>12, AppStepIs
  <2>2. Fits
    <3>1. ASSUME NEW p \in Producers, TakeSeq(p) PROVE Fits
      BY <1>1, <3>1 DEF TakeSeq, queueVars
    <3>2. ASSUME NEW p \in Producers, PushMessage(p) PROVE Fits
      <4>1. producer[p] # NoSeq /\ Push(producer[p])
        BY <3>2 DEF PushMessage
      <4>2. producer[p] \in Seqs
        BY <4>1, FreshIsSeq DEF Queued, Numbered
      <4> QED
        BY <1>2, <4>1, <4>2
    <3>3. CASE SetStopFlag \/ JoinThreads \/ PeerListens
      BY <1>1, <3>3 DEF SetStopFlag, JoinThreads, PeerListens, queueVars
    <3>4. CASE StopQueue
      BY <1>0, <3>4 DEF StopQueue, Fits
    <3> QED
      BY <1>12, <3>1, <3>2, <3>3, <3>4 DEF AppStep, Producer
  <2> QED
    BY <1>0, <2>1, <2>2 DEF Fits
<1>13. CASE UNCHANGED vars
  <2>1. UNCHANGED <<queue, accepted, qStopped, dropped, sent, failed>>
    BY <1>13 DEF vars, queueVars, countVars
  <2> QED
    BY <1>0, <1>1, <2>1 DEF Fits
<1>14. (\E i \in DOMAIN conn : PeerSends(i) \/ PeerCloses(i)) => Fits /\ sent' \in Nat /\ failed' \in Nat
  BY <1>10
<1> QED
  BY <1>3, <1>4, <1>5, <1>6, <1>7, <1>8, <1>9, <1>11, <1>12, <1>13, <1>14, NextIs DEF Fits

(* Numbers and configurations stay within the bounds: a configuration is delivered
   once, so there are no more numbers than messages and frames. *)
LEMMA DeliveredTypes ==
    ASSUME TypeOK, Shape, Queued', Ordered', [Next]_vars
    PROVE  delivered' \in Seq(Frames) /\ nextSeq' \in 0 .. MaxSeq
<1>0. /\ delivered \in Seq(Frames) /\ nextSeq \in Nat /\ MaxFrames \in Nat /\ MaxMessages \in Nat
      /\ MaxSeq = MaxMessages + MaxFrames
  BY CountsTyped DEF MaxSeq
<1>1. delivered' \in Seq(Frames) /\ nextSeq' \in Nat
  <2>1. CASE UNCHANGED <<delivered, nextSeq>>
    BY <1>0, <2>1
  <2>2. CASE OnRecv
    <3>1. Len(receiver.got) > 2 /\ receiver.got \in Seq(Frames \X Nat)
      BY <2>2, OnRecvIs, ThreadsTyped DEF Shape, Whole
    <3>2. receiver.got[2][1] \in Frames
      BY <3>1
    <3>3. \/ UNCHANGED <<delivered, nextSeq>>
          \/ delivered' = Append(delivered, receiver.got[2][1]) /\ nextSeq' = nextSeq + 1
      BY <2>2, OnRecvIs
    <3>4. Append(delivered, receiver.got[2][1]) \in Seq(Frames)
      BY <1>0, <3>2
    <3>5. CASE UNCHANGED <<delivered, nextSeq>>
      BY <1>0, <3>5
    <3>6. CASE delivered' = Append(delivered, receiver.got[2][1]) /\ nextSeq' = nextSeq + 1
      BY <1>0, <3>4, <3>6
    <3> QED
      BY <3>3, <3>5, <3>6
  <2>3. ASSUME NEW p \in Producers, Producer(p) PROVE delivered' \in Seq(Frames) /\ nextSeq' \in Nat
    <3>1. UNCHANGED delivered /\ (nextSeq' = nextSeq \/ nextSeq' = nextSeq + 1)
      BY <2>3, Zenon DEF Producer, TakeSeq, PushMessage
    <3> QED
      BY <1>0, <3>1
  <2>4. UNCHANGED <<delivered, nextSeq>> \/ OnRecv \/ \E p \in Producers : Producer(p)
    <3>1. CASE SenderMoves \/ StoreFd \/ PopItem \/ WriteFetch \/ WriteSucceeds \/ WriteFails
               \/ SenderDisconnect
      <4>1. UNCHANGED <<delivered, nextSeq>>
        BY <3>1, SenderMovesIs, StoreFdIs, PopItemIs, WriteFetchIs, WriteIs, WriteFailsIs,
           SenderDisconnectIs
      <4> QED
        BY <4>1
    <3>2. CASE ConnectSucceeds
      BY <3>2 DEF ConnectSucceeds, appVars
    <3>3. CASE \/ (RecvLoopTop \/ RecvTestConnected) \/ ReadFetch \/ RecvEnter \/ RecvData \/ RecvEnd
               \/ ReceiverFails \/ ReceiverDisconnect \/ PushAck
      <4>1. UNCHANGED <<delivered, nextSeq>>
        BY <3>3, RecvMovesIs, ReadFetchIs, RecvEnterIs, RecvDataIs, RecvEndIs, ReceiverFailsIs, ReceiverDisconnectIs, PushAckIs
      <4> QED
        BY <4>1
    <3>4. CASE AppStep \/ StopDisconnect
      BY <3>4 DEF AppStep, SetStopFlag, StopQueue, JoinThreads, PeerListens, StopDisconnect, appVars
    <3>5. ASSUME NEW i \in DOMAIN conn, PeerSends(i) \/ PeerCloses(i) PROVE UNCHANGED <<delivered, nextSeq>>
      BY <3>5, PeerSendsIs, PeerClosesIs
    <3>6. CASE UNCHANGED vars
      BY <3>6 DEF vars, appVars
    <3> QED
      BY <3>1, <3>2, <3>3, <3>4, <3>5, <3>6, NextIs
  <2> QED
    BY <2>1, <2>2, <2>3, <2>4
<1>2. Len(delivered') <= MaxFrames
  <2>1. \A k, l \in DOMAIN delivered' : delivered'[k] = delivered'[l] => k = l
    BY DEF Ordered, DeliveredOnce
  <2>2. delivered' \in Seq(1 .. MaxFrames) /\ 1 \in Nat /\ 1 <= MaxFrames + 1
    BY <1>0, <1>1 DEF Frames
  <2>3. Len(delivered') <= MaxFrames - 1 + 1
    BY <1>0, <2>1, <2>2, Distinct
  <2> QED
    BY <1>0, <2>3
<1>3. nextSeq' <= MaxMessages + Len(delivered')
  BY DEF Queued, Numbered
<1>4. Len(delivered') \in Nat
  BY <1>1
<1> QED
  BY <1>0, <1>1, <1>2, <1>3, <1>4

LEMMA SenderWidens ==
    ASSUME NEW m \in Nat, NEW n \in Nat, m <= n,
           NEW s \in [pc : SenderPcs, item : Seqs \cup {NoSeq}, piece : 1 .. 2, used : 0 .. m]
    PROVE  s \in [pc : SenderPcs, item : Seqs \cup {NoSeq}, piece : 1 .. 2, used : 0 .. n]
OBVIOUS

LEMMA ReceiverWidens ==
    ASSUME NEW m \in Nat, NEW n \in Nat, m <= n,
           NEW r \in [pc : ReceiverPcs, got : Seq(Frames \X Nat), used : 0 .. m, on : 0 .. m,
                      ack : Seqs \cup {NoSeq}]
    PROVE  r \in [pc : ReceiverPcs, got : Seq(Frames \X Nat), used : 0 .. n, on : 0 .. n,
                  ack : Seqs \cup {NoSeq}]
OBVIOUS

LEMMA SocketTypes ==
    ASSUME TypeOK, Shape, nextSeq' \in 0 .. MaxSeq, [Next]_vars
    PROVE  /\ conn' \in Seq(Links) /\ fd' \in 0 .. Len(conn')
           /\ sender' \in Senders' /\ receiver' \in Receivers'
           /\ carrier' \in Seq(1 .. Len(conn')) /\ Len(carrier') <= MaxFrames
<1> DEFINE Fits == /\ conn' \in Seq(Links) /\ fd' \in 0 .. Len(conn')
                   /\ sender' \in Senders' /\ receiver' \in Receivers'
                   /\ carrier' \in Seq(1 .. Len(conn')) /\ Len(carrier') <= MaxFrames
<1>0. /\ conn \in Seq(Links) /\ fd \in 0 .. Len(conn) /\ Len(conn) \in Nat
      /\ sender \in Senders /\ receiver \in Receivers
      /\ carrier \in Seq(1 .. Len(conn)) /\ Len(carrier) <= MaxFrames
  BY ConnTyped, ThreadsTyped, CountsTyped
<1>1. ASSUME Len(conn') = Len(conn) PROVE Senders' = Senders /\ Receivers' = Receivers
  BY <1>1 DEF Senders, Receivers
<1>2. ASSUME conn' \in Seq(Links), Len(conn') = Len(conn), fd' = fd \/ fd' = 0,
             UNCHANGED carrier, sender' \in Senders, receiver' \in Receivers
      PROVE  Fits
  BY <1>0, <1>1, <1>2
<1> SUFFICES Fits
  OBVIOUS
<1> HIDE DEF Fits
<1>3. CASE SenderMoves
  BY <1>0, <1>2, <1>3, SenderMovesIs
<1>4. CASE ConnectSucceeds
  <2>1. UNCHANGED <<carrier, receiver, fd>> /\ SenderGoto("connect", "store") /\ "store" \in SenderPcs
    BY <1>4 DEF ConnectSucceeds, envVars, peerVars, SenderPcs
  <2>2. conn' \in Seq(Links) /\ Len(conn') = Len(conn) + 1 /\ sender' \in Senders
    BY <1>4, <2>1, ConnectIs, SenderGotoIs
  <2>3. Len(conn') \in Nat /\ Len(conn) <= Len(conn')
    BY <1>0, <2>2
  <2>4. sender' \in Senders'
    BY <1>0, <2>2, <2>3, SenderWidens DEF Senders
  <2>5. receiver' \in Receivers'
    BY <1>0, <2>1, <2>3, ReceiverWidens DEF Receivers
  <2>6. carrier' \in Seq(1 .. Len(conn')) /\ fd' \in 0 .. Len(conn')
    BY <1>0, <2>1, <2>3
  <2> QED
    BY <1>0, <2>1, <2>2, <2>4, <2>5, <2>6 DEF Fits
<1>5. CASE StoreFd
  <2>1. UNCHANGED <<carrier, receiver, conn>> /\ fd' = Len(conn) /\ sender' \in Senders
    BY <1>5, StoreFdIs
  <2> QED
    BY <1>0, <1>1, <2>1 DEF Fits
<1>6. CASE PopItem \/ WriteFetch \/ WriteFails
  <2>1. UNCHANGED <<carrier, receiver, conn, fd>> /\ sender' \in Senders
    BY <1>6, PopItemIs, WriteFetchIs, WriteFailsIs
  <2> QED
    BY <1>0, <1>2, <2>1
<1>7. CASE WriteSucceeds
  BY <1>0, <1>2, <1>7, WriteIs
<1>8. CASE SenderDisconnect
  <2>1. UNCHANGED <<carrier, receiver>> /\ DisconnectSocket /\ sender' \in Senders
    BY <1>8, SenderDisconnectIs
  <2> QED
    BY <1>0, <1>2, <2>1, DisconnectIs
<1>9. CASE (RecvLoopTop \/ RecvTestConnected) \/ ReadFetch \/ RecvEnter \/ RecvEnd
  <2>1. UNCHANGED <<carrier, sender, conn, fd>> /\ receiver' \in Receivers
    BY <1>9, RecvMovesIs, ReadFetchIs, RecvEnterIs, RecvEndIs DEF RestOfReceive
  <2> QED
    BY <1>0, <1>2, <2>1
<1>10. CASE RecvData
  <2>1. /\ UNCHANGED <<carrier, sender, fd>> /\ receiver' \in Receivers
        /\ conn' \in Seq(Links) /\ Len(conn') = Len(conn)
    BY <1>10, RecvDataIs DEF RestOfReceive
  <2> QED
    BY <1>0, <1>2, <2>1
<1>11. CASE ReceiverFails \/ ReceiverDisconnect
  <2>1. /\ UNCHANGED <<carrier, sender>> /\ receiver' \in Receivers
        /\ UNCHANGED <<conn, fd>> \/ DisconnectSocket
    BY <1>11, ReceiverFailsIs, ReceiverDisconnectIs DEF RestOfReceive
  <2> QED
    BY <1>0, <1>2, <2>1, DisconnectIs
<1>12. CASE OnRecv
  <2>1. UNCHANGED <<carrier, sender, conn, fd>>
    BY <1>12, OnRecvIs DEF RestOfReceive
  <2>2. CASE nextSeq' = nextSeq + 1 /\ receiver' = ReceiverState("ack", <<>>, 0, 0, nextSeq)
    <3>1. nextSeq \in Seqs \cup {NoSeq}
      BY <2>2, NumberGiven
    <3>2. "ack" \in ReceiverPcs /\ <<>> \in Seq(Frames \X Nat) /\ 0 \in 0 .. Len(conn)
      BY <1>0 DEF ReceiverPcs
    <3>3. receiver' \in Receivers
      BY <2>2, <3>1, <3>2, ReceiverStateTyped
    <3> QED
      BY <1>0, <1>2, <2>1, <3>3
  <2>3. CASE receiver' \in Receivers
    BY <1>0, <1>2, <2>1, <2>3
  <2> QED
    BY <1>12, <2>2, <2>3, OnRecvIs
<1>13. CASE PushAck
  BY <1>0, <1>2, <1>13, PushAckIs
<1>14. ASSUME NEW i \in DOMAIN conn, PeerSends(i) PROVE Fits
  <2>1. /\ UNCHANGED <<sender, receiver, fd>> /\ conn' \in Seq(Links) /\ Len(conn') = Len(conn)
        /\ carrier' = Append(carrier, i) /\ Len(carrier) < MaxFrames
    BY <1>14, PeerSendsIs
  <2>2. i \in 1 .. Len(conn) /\ MaxFrames \in Nat
    BY ConnTyped, CountsTyped
  <2>3. carrier' \in Seq(1 .. Len(conn)) /\ Len(carrier') <= MaxFrames
    BY <1>0, <2>1, <2>2
  <2> QED
    BY <1>0, <1>1, <2>1, <2>3 DEF Fits
<1>15. ASSUME NEW i \in DOMAIN conn, PeerCloses(i) PROVE Fits
  <2>1. UNCHANGED <<carrier, sender, receiver, fd>> /\ conn' \in Seq(Links) /\ Len(conn') = Len(conn)
    BY <1>15, PeerClosesIs
  <2> QED
    BY <1>0, <1>2, <2>1
<1>16. CASE AppStep
  BY <1>0, <1>2, <1>16, AppStepIs
<1>17. CASE StopDisconnect
  BY <1>0, <1>2, <1>17, StopDisconnectIs, DisconnectIs
<1>18. CASE UNCHANGED vars
  <2>1. UNCHANGED <<carrier, sender, receiver, conn, fd>>
    BY <1>18 DEF vars, socketVars, envVars, peerVars
  <2> QED
    BY <1>0, <1>2, <2>1
<1> QED
  BY <1>3, <1>4, <1>5, <1>6, <1>7, <1>8, <1>9, <1>10, <1>11, <1>12, <1>13, <1>14, <1>15, <1>16, <1>17,
     <1>18, NextIs

LEMMA CountsBounded ==
    ASSUME MaxSeq \in Nat, NEW a \in Seq(Seqs), \A k, l \in DOMAIN a : a[k] = a[l] => k = l
    PROVE  Len(a) <= MaxSeq
<1>1. CASE Len(a) = 0
  BY <1>1
<1>2. CASE Len(a) # 0
  <2>1. Len(a) \in Nat /\ a[1] \in 0 .. MaxSeq - 1
    BY <1>2 DEF Seqs
  <2>2. MaxSeq - 1 \in Nat /\ 0 \in Nat /\ 0 <= MaxSeq - 1 + 1
    BY <2>1
  <2>3. a \in Seq(0 .. MaxSeq - 1)
    BY DEF Seqs
  <2>4. Len(a) <= MaxSeq - 1 - 0 + 1
    BY <2>2, <2>3, Distinct
  <2> QED
    BY <2>1, <2>4
<1> QED
  BY <1>1, <1>2

LEMMA SumBounds ==
    ASSUME NEW n \in Nat, NEW a \in Nat, NEW b \in Nat, NEW c \in Nat, NEW d \in Nat, NEW e \in {0, 1},
           a + b + c + d + e <= n
    PROVE  a \in 0 .. n /\ b \in 0 .. n /\ c \in 0 .. n
OBVIOUS

(* No frame is taken off the swallowed ones, and only recv() adds one. *)
LEMMA SwallowedIs ==
    ASSUME TypeOK, Shape, [Next]_vars
    PROVE  UNCHANGED swallowed \/ RecvData
<1>1. CASE SenderMoves \/ StoreFd \/ PopItem \/ WriteFetch \/ WriteSucceeds \/ WriteFails
           \/ SenderDisconnect
  BY <1>1, SenderMovesIs, StoreFdIs, PopItemIs, WriteFetchIs, WriteIs, WriteFailsIs, SenderDisconnectIs
<1>2. CASE ConnectSucceeds
  BY <1>2 DEF ConnectSucceeds, appVars
<1>3. CASE \/ (RecvLoopTop \/ RecvTestConnected) \/ ReadFetch \/ RecvEnter \/ RecvEnd
           \/ ReceiverFails \/ ReceiverDisconnect \/ OnRecv \/ PushAck
  BY <1>3, RecvMovesIs, ReadFetchIs, RecvEnterIs, RecvEndIs, ReceiverFailsIs, ReceiverDisconnectIs,
     OnRecvIs, PushAckIs
<1>4. CASE AppStep \/ StopDisconnect
  BY <1>4, AppStepIs, StopDisconnectIs
<1>5. ASSUME NEW i \in DOMAIN conn, PeerSends(i) \/ PeerCloses(i) PROVE UNCHANGED swallowed
  BY <1>5, PeerSendsIs, PeerClosesIs
<1>6. CASE UNCHANGED vars
  BY <1>6 DEF vars, appVars
<1> QED
  BY <1>1, <1>2, <1>3, <1>4, <1>5, <1>6, NextIs

LEMMA TypeStep == TypeOK /\ Shape /\ Queued /\ Queued' /\ Ordered' /\ [Next]_vars => TypeOK'
<1> SUFFICES ASSUME TypeOK, Shape, Queued, Queued', Ordered', [Next]_vars PROVE TypeOK'
  OBVIOUS
<1>1. /\ queue' \in Seq(Seqs) /\ Len(queue') <= QueueSize /\ accepted' \in Seq(Seqs)
      /\ qStopped' \in BOOLEAN /\ dropped' \in Nat /\ sent' \in Nat /\ failed' \in Nat
  BY QueueTypes
<1>2. delivered' \in Seq(Frames) /\ nextSeq' \in 0 .. MaxSeq
  BY DeliveredTypes
<1>3. /\ conn' \in Seq(Links) /\ fd' \in 0 .. Len(conn')
      /\ sender' \in Senders' /\ receiver' \in Receivers'
      /\ carrier' \in Seq(1 .. Len(conn')) /\ Len(carrier') <= MaxFrames
  BY <1>2, SocketTypes
<1>4. dropped' \in 0 .. MaxSeq /\ sent' \in 0 .. MaxSeq /\ failed' \in 0 .. MaxSeq
  <2>1. MaxSeq \in Nat
    BY CountsTyped
  <2>2. Len(accepted') <= MaxSeq
    <3>1. \A k, l \in DOMAIN accepted' : accepted'[k] = accepted'[l] => k = l
      BY DEF Queued, Numbered
    <3> QED
      BY <1>1, <2>1, <3>1, CountsBounded
  <2>3. Len(accepted') = sent' + failed' + dropped' + Len(queue') + InHand'
    BY DEF Queued, Counted
  <2>4. InHand' = 0 \/ InHand' = 1
    BY DEF InHand
  <2>5. Len(queue') \in Nat /\ dropped' \in Nat /\ sent' \in Nat /\ failed' \in Nat
    BY <1>1
  <2>6. CASE InHand' = 0
    <3>1. sent' + failed' + dropped' + Len(queue') + 0 <= MaxSeq
      BY <2>2, <2>3, <2>6
    <3> QED
      BY <2>1, <2>5, <3>1, SumBounds
  <2>7. CASE InHand' = 1
    <3>1. sent' + failed' + dropped' + Len(queue') + 1 <= MaxSeq
      BY <2>2, <2>3, <2>7
    <3> QED
      BY <2>1, <2>5, <3>1, SumBounds
  <2> QED
    BY <2>4, <2>6, <2>7
<1>5. producer' \in [Producers -> Seqs \cup {NoSeq}]
  <2>0. producer \in [Producers -> Seqs \cup {NoSeq}]
    BY DEF TypeOK
  <2>1. CASE UNCHANGED producer
    BY <2>0, <2>1
  <2>2. ASSUME NEW p \in Producers, Producer(p) PROVE producer' \in [Producers -> Seqs \cup {NoSeq}]
    <3>1. \/ producer' = [producer EXCEPT ![p] = nextSeq] /\ nextSeq' = nextSeq + 1
          \/ producer' = [producer EXCEPT ![p] = NoSeq]
      BY <2>2, Zenon DEF Producer, TakeSeq, PushMessage
    <3>2. nextSeq' = nextSeq + 1 => nextSeq \in Seqs
      BY <1>2, NumberGiven
    <3>3. PICK new \in Seqs \cup {NoSeq} : producer' = [producer EXCEPT ![p] = new]
      BY <3>1, <3>2
    <3> QED
      BY <2>0, <3>3
  <2>3. UNCHANGED producer \/ \E p \in Producers : Producer(p)
    <3>1. CASE SenderMoves \/ StoreFd \/ PopItem \/ WriteFetch \/ WriteSucceeds \/ WriteFails
               \/ SenderDisconnect
      BY <3>1, SenderMovesIs, StoreFdIs, PopItemIs, WriteFetchIs, WriteIs, WriteFailsIs, SenderDisconnectIs
    <3>2. CASE ConnectSucceeds
      BY <3>2 DEF ConnectSucceeds, appVars
    <3>3. CASE \/ (RecvLoopTop \/ RecvTestConnected) \/ ReadFetch \/ RecvEnter \/ RecvData \/ RecvEnd
               \/ ReceiverFails \/ ReceiverDisconnect \/ OnRecv \/ PushAck
      <4>1. UNCHANGED producer
        BY <3>3, RecvMovesIs, ReadFetchIs, RecvEnterIs, RecvDataIs, RecvEndIs, ReceiverFailsIs, ReceiverDisconnectIs,
           OnRecvIs,
           PushAckIs DEF RestOfReceive
      <4> QED
        BY <4>1
    <3>4. CASE AppStep \/ StopDisconnect
      BY <3>4 DEF AppStep, SetStopFlag, StopQueue, JoinThreads, PeerListens, StopDisconnect, appVars
    <3>5. ASSUME NEW i \in DOMAIN conn, PeerSends(i) \/ PeerCloses(i) PROVE UNCHANGED producer
      BY <3>5, PeerSendsIs, PeerClosesIs
    <3>6. CASE UNCHANGED vars
      BY <3>6 DEF vars, appVars
    <3> QED
      BY <3>1, <3>2, <3>3, <3>4, <3>5, <3>6, NextIs
  <2> QED
    BY <2>1, <2>2, <2>3
<1>6. stopper' \in StopperPcs /\ listening' \in BOOLEAN /\ faults' \in 0 .. MaxFaults
  <2>0. stopper \in StopperPcs /\ listening \in BOOLEAN /\ faults \in 0 .. MaxFaults
    BY DEF TypeOK
  <2>1. CASE UNCHANGED <<stopper, listening>> /\ faults' \in 0 .. MaxFaults
    BY <2>0, <2>1
  <2>2. CASE UNCHANGED <<stopper, listening, faults>>
    BY <2>0, <2>2
  <2>3. CASE SenderMoves \/ WriteFails
    BY <2>1, <2>3, SenderMovesIs, WriteFailsIs
  <2>4. CASE ConnectSucceeds
    BY <2>2, <2>4 DEF ConnectSucceeds, envVars, peerVars
  <2>5. CASE StoreFd \/ PopItem \/ WriteFetch \/ WriteSucceeds \/ SenderDisconnect
    BY <2>2, <2>5, StoreFdIs, PopItemIs, WriteFetchIs, WriteIs, SenderDisconnectIs
  <2>6. CASE \/ (RecvLoopTop \/ RecvTestConnected) \/ ReadFetch \/ RecvEnter \/ RecvData \/ RecvEnd
             \/ ReceiverFails \/ ReceiverDisconnect \/ OnRecv \/ PushAck
    <3>1. UNCHANGED <<stopper, listening, faults>>
      BY <2>6, RecvMovesIs, ReadFetchIs, RecvEnterIs, RecvDataIs, RecvEndIs, ReceiverFailsIs, ReceiverDisconnectIs,
           OnRecvIs,
         PushAckIs DEF RestOfReceive
    <3> QED
      BY <2>2, <3>1
  <2>7. ASSUME NEW i \in DOMAIN conn, PeerSends(i) \/ PeerCloses(i)
        PROVE  UNCHANGED <<stopper, listening>> /\ faults' \in 0 .. MaxFaults
    BY <2>0, <2>7, PeerSendsIs, PeerClosesIs
  <2>8. CASE AppStep
    <3>1. CASE \E p \in Producers : Producer(p)
      BY <2>2, <3>1 DEF Producer, TakeSeq, PushMessage, envVars, peerVars
    <3>2. CASE SetStopFlag \/ StopQueue \/ JoinThreads
      <4>1. UNCHANGED <<listening, faults>> /\ stopper' \in {"queue", "disconnect", "stopped"}
        BY <3>2 DEF SetStopFlag, StopQueue, JoinThreads, StopperGoto, peerVars
      <4> QED
        BY <2>0, <4>1 DEF StopperPcs
    <3>3. CASE PeerListens
      BY <2>0, <3>3 DEF PeerListens
    <3> QED
      BY <2>8, <3>1, <3>2, <3>3 DEF AppStep
  <2>9. CASE StopDisconnect
    BY <2>0, <2>9, StopDisconnectIs
  <2>10. CASE UNCHANGED vars
    BY <2>2, <2>10 DEF vars, envVars, peerVars
  <2>11. (\E i \in DOMAIN conn : PeerSends(i) \/ PeerCloses(i))
             => UNCHANGED <<stopper, listening>> /\ faults' \in 0 .. MaxFaults
    BY <2>7
  <2> QED
    BY <2>1, <2>3, <2>4, <2>5, <2>6, <2>8, <2>9, <2>10, <2>11, NextIs
<1>7. swallowed' \subseteq Frames
  <2>0. swallowed \subseteq Frames
    BY DEF TypeOK
  <2>1. CASE UNCHANGED swallowed
    BY <2>0, <2>1
  <2>2. CASE RecvData
    <3>1. /\ receiver.on \in DOMAIN conn /\ conn[receiver.on].in # <<>>
          /\ swallowed' \subseteq swallowed \cup {Head(conn[receiver.on].in)[1]}
      BY <2>2, RecvDataIs
    <3>2. conn[receiver.on].in \in Seq(Frames \X Nat)
      BY <3>1, ConnTyped
    <3>3. Head(conn[receiver.on].in)[1] \in Frames
      BY <3>1, <3>2
    <3> QED
      BY <2>0, <3>1, <3>3
  <2> QED
    BY <2>1, <2>2, SwallowedIs
<1> QED
  BY <1>1, <1>2, <1>3, <1>4, <1>5, <1>6, <1>7 DEF TypeOK, Links, Senders, Receivers

-----------------------------------------------------------------------------
(* On a connection that lives no configuration is lost but the swallowed ones. *)

(* The connection of frame n lives, piece p of it waits to be read, it was delivered. *)
Alive(n) == conn[carrier[n]].open /\ conn[carrier[n]].peerOpen
Waiting(n, p) == \E k \in DOMAIN conn[carrier[n]].in : conn[carrier[n]].in[k] = <<n, p>>
Delivered(n) == \E k \in DOMAIN delivered : delivered[k] = n

(* On a connection that lives, nothing that follows a waiting piece has been read. *)
NoGaps ==
    \A n, m \in DOMAIN carrier : \A p \in Nat : \A q \in 1 .. Size(m) :
        Alive(n) /\ carrier[m] = carrier[n] /\ Waiting(n, p) /\ Less(<<n, p>>, <<m, q>>) => Waiting(m, q)

(* While a payload is read from the connection its header came from, the thread holds
   all that has been read of the frame. *)
InStep ==
    \A m \in DOMAIN carrier : \A l \in Nat :
        Midway /\ Len(receiver.got) = l /\ l >= 2 /\ receiver.got[2][1] = m /\ Alive(m) =>
            Waiting(m, l + 1) /\ \A p \in 1 .. l : ~Waiting(m, p)

(* The receive thread will close the connection, or stop. *)
Leaving == receiver.pc \in {"fail", "drop"} \/ (StopFlag /\ receiver.pc \in {"top", "exited"})

(* What the receive thread holds when the first piece of frame n has been read: that
   piece, or nothing, because it was read while fd_ was not set yet. *)
First(n) ==
    /\ \/ Len(receiver.got) = 0
       \/ Midway /\ Len(receiver.got) = 1 /\ receiver.got[1] = <<n, 1>>
    /\ receiver.pc \in {"recv", "blocked"} => fd = carrier[n]

(* When k pieces have been read: all of them, or the second alone, which is not a
   header. *)
Begun(n, k) ==
    \/ Len(receiver.got) = k /\ \A j \in 1 .. k : receiver.got[j] = <<n, j>>
    \/ k = 2 /\ Len(receiver.got) = 1 /\ receiver.got[1] = <<n, 2>>

Middle(n, k) == fd = carrier[n] /\ ((Midway /\ Begun(n, k)) \/ Leaving)

(* When all have been read: the whole frame. *)
Entire(n) ==
    /\ fd = carrier[n]
    /\ \/ /\ receiver.pc = "deliver" /\ Len(receiver.got) = Size(n)
          /\ \A j \in 1 .. Size(n) : receiver.got[j] = <<n, j>>
       \/ Leaving

Reading ==
    \A n \in DOMAIN carrier :
        Alive(n) /\ ~Waiting(n, 1) /\ ~Delivered(n) /\ n \notin swallowed =>
            /\ Waiting(n, 2) => First(n)
            /\ \A k \in 2 .. Size(n) - 1 : ~Waiting(n, k) /\ Waiting(n, k + 1) => Middle(n, k)
            /\ ~Waiting(n, Size(n)) => Entire(n)

(* A connection that lives is the only open one, and fd_ can stand for no other. *)
LEMMA AliveIs ==
    ASSUME TypeOK, Sockets, NEW n \in DOMAIN carrier, Alive(n)
    PROVE  /\ carrier[n] \in DOMAIN conn /\ conn[carrier[n]].open
           /\ \A i \in DOMAIN conn : conn[i].open => i = carrier[n]
           /\ fd # 0 => fd = carrier[n]
           /\ carrier[n] # 0
<1>1. carrier \in Seq(1 .. Len(conn)) /\ DOMAIN conn = 1 .. Len(conn) /\ fd \in 0 .. Len(conn)
  BY CountsTyped, ConnTyped
<1>2. carrier[n] \in DOMAIN conn /\ conn[carrier[n]].open
  BY <1>1 DEF Alive
<1>3. \A i \in DOMAIN conn : conn[i].open => i = carrier[n]
  BY <1>2 DEF Sockets
<1>4. fd # 0 => fd \in DOMAIN conn /\ conn[fd].open
  BY <1>1, ConnTyped DEF Sockets
<1>5. fd # 0 => fd = carrier[n]
  BY <1>3, <1>4
<1>6. carrier[n] # 0
  <2>1. carrier[n] \in 1 .. Len(conn) /\ Len(conn) \in Nat
    BY <1>1, <1>2, ConnTyped
  <2> QED
    BY <2>1
<1> QED
  BY <1>2, <1>3, <1>5, <1>6

LEMMA CarriersTyped ==
    ASSUME TypeOK
    PROVE  \A n \in DOMAIN carrier :
              n \in Nat /\ n \in Frames /\ carrier[n] \in DOMAIN conn /\ Size(n) \in Nat /\ Size(n) > 2
<1>1. carrier \in Seq(1 .. Len(conn)) /\ DOMAIN conn = 1 .. Len(conn) /\ Len(carrier) <= MaxFrames
      /\ MaxFrames \in Nat
  BY CountsTyped, ConnTyped
<1>2. \A n \in DOMAIN carrier : n \in Nat /\ n \in Frames /\ carrier[n] \in DOMAIN conn
  BY <1>1 DEF Frames
<1> QED
  BY <1>2, SizeTyped

(* Steps that read nothing and send nothing. *)
LEMMA ReadingKept ==
    ASSUME NoGaps, Reading, UNCHANGED <<carrier, swallowed>>,
           \A n \in DOMAIN carrier :
              Alive(n)' => Alive(n) /\ conn'[carrier[n]].in = conn[carrier[n]].in,
           \A n \in DOMAIN carrier :
              Alive(n)' /\ ~Delivered(n)' =>
                  /\ ~Delivered(n)
                  /\ First(n) => First(n)'
                  /\ \A k : Middle(n, k) => Middle(n, k)'
                  /\ Entire(n) => Entire(n)'
    PROVE  NoGaps' /\ Reading'
<1>1. \A n \in DOMAIN carrier : Alive(n)' => \A p : Waiting(n, p)' <=> Waiting(n, p)
  BY DEF Waiting
<1>2. \A n, m \in DOMAIN carrier : carrier[m] = carrier[n] => (Alive(m)' <=> Alive(n)')
  BY DEF Alive
<1>3. NoGaps'
  <2> SUFFICES ASSUME NEW n \in DOMAIN carrier, NEW m \in DOMAIN carrier, NEW p \in Nat,
                      NEW q \in 1 .. Size(m),
                      Alive(n)', carrier[m] = carrier[n], Waiting(n, p)', Less(<<n, p>>, <<m, q>>)
               PROVE  Waiting(m, q)'
    BY DEF NoGaps
  <2>1. Alive(m)' /\ Alive(n) /\ Waiting(n, p)
    BY <1>1, <1>2
  <2>2. Waiting(m, q)
    BY <2>1 DEF NoGaps
  <2> QED
    BY <1>1, <2>1, <2>2
<1>4. Reading'
  <2> SUFFICES ASSUME NEW n \in DOMAIN carrier, Alive(n)', ~Waiting(n, 1)', ~Delivered(n)', n \notin swallowed
               PROVE  /\ Waiting(n, 2)' => First(n)'
                      /\ \A k \in 2 .. Size(n) - 1 : ~Waiting(n, k)' /\ Waiting(n, k + 1)' => Middle(n, k)'
                      /\ ~Waiting(n, Size(n))' => Entire(n)'
    BY DEF Reading
  <2>1. \A p : Waiting(n, p)' <=> Waiting(n, p)
    BY <1>1
  <2>2. Alive(n) /\ ~Waiting(n, 1) /\ ~Delivered(n)
    BY <2>1
  <2>3. /\ Waiting(n, 2) => First(n)
        /\ \A k \in 2 .. Size(n) - 1 : ~Waiting(n, k) /\ Waiting(n, k + 1) => Middle(n, k)
        /\ ~Waiting(n, Size(n)) => Entire(n)
    BY <2>2 DEF Reading
  <2>4. /\ First(n) => First(n)'
        /\ \A k : Middle(n, k) => Middle(n, k)'
        /\ Entire(n) => Entire(n)'
    OBVIOUS
  <2> QED
    BY <2>1, <2>3, <2>4, Zenon
<1> QED
  BY <1>3, <1>4

(* The same for a payload that is read from its own connection. *)
LEMMA InStepKept ==
    ASSUME TypeOK, Ordered, InStep, UNCHANGED carrier,
           \A n \in DOMAIN carrier :
              Alive(n)' => Alive(n) /\ \A p : Waiting(n, p)' <=> Waiting(n, p),
           \/ (Midway' => Midway) /\ receiver'.got = receiver.got
           \/ receiver'.got = <<>>
    PROVE  InStep'
<1> SUFFICES ASSUME NEW m \in DOMAIN carrier', NEW n \in Nat, Midway', Len(receiver'.got) = n, n >= 2,
                    receiver'.got[2][1] = m, Alive(m)'
             PROVE  Waiting(m, n + 1)' /\ \A p \in 1 .. n : ~Waiting(m, p)'
  BY DEF InStep
<1>1. Midway /\ receiver'.got = receiver.got
  <2>1. Len(<<>>) = 0 /\ ~(0 >= 2)
    OBVIOUS
  <2> QED
    BY <2>1
<1>2. receiver.got \in Seq(Frames \X Nat)
  BY ThreadsTyped
<1>3. 2 \in DOMAIN receiver.got
  BY <1>1, <1>2
<1>4. m \in DOMAIN carrier
  BY <1>1, <1>3 DEF Ordered, GotPassed, Passed
<1>5. Alive(m) /\ \A p : Waiting(m, p)' <=> Waiting(m, p)
  BY <1>4
<1>6. Waiting(m, n + 1) /\ \A p \in 1 .. n : ~Waiting(m, p)
  BY <1>1, <1>4, <1>5 DEF InStep
<1> QED
  BY <1>1, <1>5, <1>6

(* recv() returns the next piece: whichever it is, what is held afterwards fits it. *)
LEMMA HeadIs ==
    ASSUME TypeOK, Shape, Sockets, Ordered, RecvData, NEW n \in DOMAIN carrier, Alive(n)
    PROVE  /\ receiver.on = carrier[n] /\ conn[carrier[n]].in # <<>>
           /\ \E m \in DOMAIN carrier, p \in Nat :
                /\ Head(conn[carrier[n]].in) = <<m, p>> /\ carrier[m] = carrier[n] /\ Waiting(m, p)
                /\ \A l, q : Waiting(l, q)' /\ carrier[l] = carrier[n] => Waiting(l, q) /\ Less(<<m, p>>, <<l, q>>)
                /\ \A l, q : Waiting(l, q) /\ carrier[l] = carrier[n] =>
                                 <<l, q>> = <<m, p>> \/ Waiting(l, q)'
<1> DEFINE i == carrier[n]
           s == conn[i].in
<1>1. /\ receiver.on \in DOMAIN conn /\ conn[receiver.on].open /\ conn[receiver.on].in # <<>>
      /\ UNCHANGED carrier /\ conn'[receiver.on].in = Tail(conn[receiver.on].in)
  BY RecvDataIs DEF RestOfReceive
<1>2. receiver.on = i /\ i \in DOMAIN conn
  BY <1>1, AliveIs
<1>3. /\ s \in Seq(Frames \X Nat) /\ s # <<>> /\ conn'[i].in = Tail(s)
  BY <1>1, <1>2, ConnTyped
<1>4. /\ 1 \in DOMAIN s /\ Head(s) = s[1] /\ s[1] \in Frames \X Nat
      /\ \A k \in DOMAIN Tail(s) : k + 1 \in DOMAIN s /\ Tail(s)[k] = s[k + 1] /\ 1 < k + 1
      /\ \A k \in DOMAIN s : k = 1 \/ (k - 1 \in DOMAIN Tail(s) /\ Tail(s)[k - 1] = s[k])
  <2> HIDE DEF s
  <2>1. Len(s) \in Nat /\ Len(s) > 0 /\ DOMAIN s = 1 .. Len(s) /\ DOMAIN Tail(s) = 1 .. Len(s) - 1
    BY <1>3
  <2>2. \A k \in 1 .. Len(s) - 1 : Tail(s)[k] = s[k + 1]
    BY <1>3
  <2>3. ASSUME NEW k \in DOMAIN s, k # 1 PROVE k - 1 \in DOMAIN Tail(s) /\ Tail(s)[k - 1] = s[k]
    <3>1. k - 1 \in 1 .. Len(s) - 1 /\ (k - 1) + 1 = k
      BY <2>1, <2>3
    <3> QED
      BY <2>1, <2>2, <3>1
  <2>4. 1 \in DOMAIN s /\ Head(s) = s[1] /\ s[1] \in Frames \X Nat
    BY <1>3, <2>1
  <2>5. ASSUME NEW k \in DOMAIN Tail(s) PROVE k + 1 \in DOMAIN s /\ Tail(s)[k] = s[k + 1] /\ 1 < k + 1
    BY <2>1, <2>2
  <2> QED
    BY <2>3, <2>4, <2>5
<1>5. PICK m \in Frames, p \in Nat : s[1] = <<m, p>>
  BY <1>4
<1>6. m \in DOMAIN carrier /\ carrier[m] = i
  <2>1. conn[i].in[1] = <<m, p>> /\ 1 \in DOMAIN conn[i].in
    BY <1>4, <1>5
  <2> QED
    BY <1>2, <2>1 DEF Ordered, Carried
<1>7. Waiting(m, p)
  BY <1>4, <1>5, <1>6 DEF Waiting
<1>8. ASSUME NEW l, NEW q, Waiting(l, q)', carrier[l] = i PROVE Waiting(l, q) /\ Less(<<m, p>>, <<l, q>>)
  <2>1. PICK k \in DOMAIN conn'[i].in : conn'[i].in[k] = <<l, q>>
    BY <1>1, <1>8 DEF Waiting
  <2>2. k + 1 \in DOMAIN s /\ s[k + 1] = <<l, q>> /\ 1 < k + 1
    BY <1>3, <1>4, <2>1
  <2>3. Less(s[1], s[k + 1])
    BY <1>2, <1>4, <2>2 DEF Ordered, Rising
  <2> QED
    BY <1>5, <1>8, <2>2, <2>3 DEF Waiting
<1>9. ASSUME NEW l, NEW q, Waiting(l, q), carrier[l] = i PROVE <<l, q>> = <<m, p>> \/ Waiting(l, q)'
  <2>1. PICK k \in DOMAIN s : s[k] = <<l, q>>
    BY <1>9 DEF Waiting
  <2>2. CASE k = 1
    BY <1>5, <2>1, <2>2
  <2>3. CASE k - 1 \in DOMAIN Tail(s) /\ Tail(s)[k - 1] = s[k]
    BY <1>1, <1>3, <1>9, <2>1, <2>3 DEF Waiting
  <2> QED
    BY <1>4, <2>2, <2>3
<1>10. Head(s) = <<m, p>> /\ s # <<>>
  BY <1>3, <1>4, <1>5
<1>11. /\ \A l, q : Waiting(l, q)' /\ carrier[l] = i => Waiting(l, q) /\ Less(<<m, p>>, <<l, q>>)
       /\ \A l, q : Waiting(l, q) /\ carrier[l] = i => <<l, q>> = <<m, p>> \/ Waiting(l, q)'
  BY <1>8, <1>9, Zenon
<1> QED
  BY <1>2, <1>6, <1>7, <1>10, <1>11, Zenon

LEMMA FewPieces ==
    ASSUME NEW c \in Nat
    PROVE  (c + 1 = 2 => c = 1) /\ (c + 1 >= 2 => c = 1 \/ c >= 2) /\ (c < 2 => c = 0 \/ c = 1)
OBVIOUS

(* What the thread holds after the next piece. *)
LEMMA HeldAfter ==
    ASSUME TypeOK, Shape, RecvData, NEW h, h = Head(conn[receiver.on].in),
           NEW g, g = receiver.got, NEW y, y = receiver'.got
    PROVE  /\ Len(g) \in Nat
           /\ \/ /\ Len(g) = 1 /\ ~(g[1][2] = 1 /\ h[2] = 2)
                 /\ receiver'.pc = "fail" /\ Len(y) = 0
              \/ /\ Len(y) = Len(g) + 1 /\ y[Len(g) + 1] = h /\ \A j \in 1 .. Len(g) : y[j] = g[j]
                 /\ Len(g) = 1 => g[1][2] = 1 /\ h[2] = 2
                 /\ \/ receiver'.pc = "fetch" /\ (Len(g) >= 2 => Len(g) + 1 < Size(g[2][1]))
                    \/ receiver'.pc = "deliver" /\ Len(g) >= 2 /\ Len(g) + 1 = Size(g[2][1])
<1>1. /\ conn[receiver.on].in # <<>> /\ receiver.on \in DOMAIN conn
      /\ \/ /\ Len(Append(g, h)) = 2 /\ ~HeaderOk(Append(g, h))
            /\ receiver'.pc = "fail" /\ y = <<>>
         \/ /\ HeaderOk(Append(g, h)) /\ Whole(Append(g, h))
            /\ receiver'.pc = "deliver" /\ y = Append(g, h)
         \/ /\ Len(Append(g, h)) >= 2 => /\ HeaderOk(Append(g, h))
                                         /\ Len(Append(g, h)) < Size(Append(g, h)[2][1])
            /\ receiver'.pc = "fetch" /\ y = Append(g, h)
  BY RecvDataIs
<1>2. g \in Seq(Frames \X Nat) /\ Len(g) \in Nat
  BY ThreadsTyped
<1>3. h \in Frames \X Nat
  BY <1>1, ConnTyped
<1>4. PICK z : z = Append(g, h)
  OBVIOUS
<1>5. Len(z) = Len(g) + 1 /\ z[Len(g) + 1] = h /\ \A j \in 1 .. Len(g) : z[j] = g[j]
  BY <1>2, <1>3, <1>4
<1>6. Len(g) = 1 => z[1] = g[1] /\ z[2] = h
  BY <1>2, <1>5
<1>7. Len(g) >= 2 => z[2] = g[2]
  BY <1>2, <1>5
<1>8. CASE Len(z) = 2 /\ ~HeaderOk(z) /\ receiver'.pc = "fail" /\ y = <<>>
  <2>1. Len(g) = 1 /\ Len(y) = 0
    <3>1. Len(<<>>) = 0
      OBVIOUS
    <3>2. Len(y) = 0
      BY <1>8, <3>1
    <3>3. Len(g) = 1
      BY <1>2, <1>5, <1>8, FewPieces, Zenon
    <3> QED
      BY <3>2, <3>3
  <2> QED
    BY <1>2, <1>6, <1>8, <2>1 DEF HeaderOk
<1>9. CASE HeaderOk(z) /\ Whole(z) /\ receiver'.pc = "deliver" /\ y = z
  <2>1. Len(g) >= 2 /\ Len(g) # 1
    BY <1>2, <1>5, <1>9 DEF Whole
  <2>2. Len(g) + 1 = Size(g[2][1])
    BY <1>5, <1>7, <1>9, <2>1 DEF Whole
  <2> QED
    BY <1>2, <1>5, <1>9, <2>1, <2>2
<1>10. CASE /\ Len(z) >= 2 => HeaderOk(z) /\ Len(z) < Size(z[2][1])
            /\ receiver'.pc = "fetch" /\ y = z
  <2>1. Len(g) >= 2 => Len(g) + 1 < Size(g[2][1])
    BY <1>2, <1>5, <1>7, <1>10
  <2>2. Len(g) = 1 => g[1][2] = 1 /\ h[2] = 2
    BY <1>2, <1>5, <1>6, <1>10 DEF HeaderOk
  <2> QED
    BY <1>2, <1>5, <1>10, <2>1, <2>2
<1> QED
  BY <1>1, <1>4, <1>8, <1>9, <1>10

(* The payload of a frame whose connection lives goes on with its own next piece. *)
LEMMA NextPiece ==
    ASSUME TypeOK, Shape, Sockets, Ordered, InStep, RecvData, Len(receiver.got) >= 2,
           NEW f, f = receiver.got[2][1], Alive(f)
    PROVE  /\ f \in DOMAIN carrier /\ receiver.on = carrier[f]
           /\ Head(conn[receiver.on].in) = <<f, Len(receiver.got) + 1>>
<1>1. receiver.got \in Seq(Frames \X Nat) /\ Len(receiver.got) \in Nat /\ receiver.pc = "blocked"
  BY ThreadsTyped, RecvDataIs
<1>2. 2 \in DOMAIN receiver.got /\ HeaderOk(receiver.got)
  BY <1>1 DEF Shape, Midway
<1>3. receiver.got[2][1] = f /\ receiver.got[2][2] = 2
  BY <1>2 DEF HeaderOk
<1>4. Passed(receiver.got[2])
  BY <1>2 DEF Ordered, GotPassed
<1>5. f \in DOMAIN carrier /\ \A k \in DOMAIN conn[carrier[f]].in : Less(<<f, 2>>, conn[carrier[f]].in[k])
  BY <1>3, <1>4 DEF Passed, Less
<1>6. Waiting(f, Len(receiver.got) + 1) /\ \A p \in 1 .. Len(receiver.got) : ~Waiting(f, p)
  BY <1>1, <1>5 DEF InStep, Midway
<1>7. receiver.on = carrier[f]
  BY <1>5, HeadIs
<1>8. PICK m \in DOMAIN carrier, p \in Nat :
         /\ Head(conn[carrier[f]].in) = <<m, p>> /\ carrier[m] = carrier[f] /\ Waiting(m, p)
         /\ \A l, q : Waiting(l, q)' /\ carrier[l] = carrier[f] => Waiting(l, q) /\ Less(<<m, p>>, <<l, q>>)
         /\ \A l, q : Waiting(l, q) /\ carrier[l] = carrier[f] => <<l, q>> = <<m, p>> \/ Waiting(l, q)'
  BY <1>5, HeadIs
<1>9. f \in Nat /\ m \in Nat
  BY <1>5, CarriersTyped
<1>10. Less(<<f, 2>>, <<m, p>>)
  BY <1>5, <1>8 DEF Waiting
<1>11. <<f, Len(receiver.got) + 1>> = <<m, p>> \/ Less(<<m, p>>, <<f, Len(receiver.got) + 1>>)
  BY <1>6, <1>8
<1>12. ASSUME Less(<<m, p>>, <<f, Len(receiver.got) + 1>>) PROVE FALSE
  <2>1. m = f /\ p \in 1 .. Len(receiver.got)
    BY <1>1, <1>9, <1>10, <1>12 DEF Less
  <2> QED
    BY <1>6, <1>8, <2>1
<1> QED
  BY <1>5, <1>7, <1>8, <1>11, <1>12

LEMMA InStepRecvData ==
    ASSUME TypeOK, Shape, Sockets, Ordered, NoGaps, InStep, RecvData
    PROVE  InStep'
<1> SUFFICES ASSUME NEW h, h = Head(conn[receiver.on].in),
                    NEW g, g = receiver.got, NEW y, y = receiver'.got,
                    NEW m \in DOMAIN carrier', Midway', Len(y) \in Nat, Len(y) >= 2, y[2][1] = m, Alive(m)'
             PROVE  Waiting(m, Len(y) + 1)' /\ \A p \in 1 .. Len(y) : ~Waiting(m, p)'
  <2> SUFFICES ASSUME NEW m \in DOMAIN carrier', NEW n \in Nat, Midway', Len(receiver'.got) = n, n >= 2,
                      receiver'.got[2][1] = m, Alive(m)'
               PROVE  Waiting(m, n + 1)' /\ \A p \in 1 .. n : ~Waiting(m, p)'
    BY DEF InStep
  <2> QED
    OBVIOUS
<1>1. /\ UNCHANGED carrier /\ receiver.pc = "blocked"
      /\ receiver.on \in DOMAIN conn /\ conn[receiver.on].in # <<>>
      /\ \A j \in DOMAIN conn : conn'[j].open = conn[j].open /\ conn'[j].peerOpen = conn[j].peerOpen
  BY RecvDataIs DEF RestOfReceive
<1>2. /\ Len(g) \in Nat
      /\ Len(y) = Len(g) + 1 /\ y[Len(g) + 1] = h /\ \A j \in 1 .. Len(g) : y[j] = g[j]
      /\ Len(g) = 1 => h[2] = 2
      /\ Len(g) >= 2 => Len(g) + 1 < Size(g[2][1])
  <2>1. Len(y) # 0 /\ receiver'.pc # "deliver"
    BY DEF Midway
  <2> QED
    BY <2>1, HeldAfter
<1>3. Len(g) = 1 \/ Len(g) >= 2
  <2>1. Len(g) + 1 >= 2 /\ Len(g) \in Nat
    BY <1>2
  <2> QED
    BY <2>1, FewPieces, Zenon
<1>4. /\ m \in DOMAIN carrier /\ Alive(m) /\ h = <<m, Len(y)>> /\ Len(y) \in Nat
      /\ Len(y) + 1 \in 1 .. Size(m)
  <2>0. ASSUME NEW l \in DOMAIN carrier, Alive(l)' PROVE Alive(l)
    BY <1>1, <2>0, CarriersTyped DEF Alive
  <2>1. CASE Len(g) = 1
    <3>1. y[2] = h /\ h[2] = 2 /\ Len(y) = 2
      BY <1>2, <2>1
    <3>2. h \in Frames \X Nat /\ h = conn[receiver.on].in[1] /\ 1 \in DOMAIN conn[receiver.on].in
      BY <1>1, ConnTyped
    <3>3. h = <<m, 2>>
      BY <3>1, <3>2
    <3>4. m \in DOMAIN carrier
      BY <1>1, <3>2, <3>3 DEF Ordered, Carried
    <3>5. Size(m) \in Nat /\ Size(m) > 2
      BY <3>4, CarriersTyped
    <3> QED
      BY <2>0, <3>1, <3>3, <3>4, <3>5
  <2>2. CASE Len(g) >= 2
    <3>1. y[2] = g[2] /\ 2 \in DOMAIN g /\ Len(g) + 1 < Size(m)
      BY <1>2, <2>2, ThreadsTyped
    <3>2. m \in DOMAIN carrier
      BY <3>1 DEF Ordered, GotPassed, Passed
    <3>3. Alive(m)
      BY <2>0, <3>2
    <3>4. h = <<m, Len(g) + 1>>
      BY <2>2, <3>1, <3>3, NextPiece
    <3>5. Size(m) \in Nat
      BY <3>2, CarriersTyped
    <3> QED
      BY <1>2, <3>1, <3>2, <3>3, <3>4, <3>5
  <2> QED
    BY <1>3, <2>1, <2>2
<1>5. PICK l \in DOMAIN carrier, p \in Nat :
         /\ Head(conn[carrier[m]].in) = <<l, p>> /\ carrier[l] = carrier[m] /\ Waiting(l, p)
         /\ \A a, q : Waiting(a, q)' /\ carrier[a] = carrier[m] => Waiting(a, q) /\ Less(<<l, p>>, <<a, q>>)
         /\ \A a, q : Waiting(a, q) /\ carrier[a] = carrier[m] => <<a, q>> = <<l, p>> \/ Waiting(a, q)'
  BY <1>4, HeadIs
<1>6. l = m /\ p = Len(y)
  <2>1. receiver.on = carrier[m]
    BY <1>4, HeadIs
  <2> QED
    BY <1>4, <1>5, <2>1
<1>7. m \in Nat
  BY <1>4, CarriersTyped
<1>8. Waiting(m, Len(y) + 1)'
  <2>1. Less(<<m, Len(y)>>, <<m, Len(y) + 1>>)
    BY <1>4 DEF Less
  <2>2. Waiting(m, Len(y) + 1)
    BY <1>4, <1>5, <1>6, <2>1 DEF NoGaps
  <2>3. <<m, Len(y) + 1>> # <<m, Len(y)>>
    BY <1>4
  <2> QED
    BY <1>5, <1>6, <2>2, <2>3
<1>9. ASSUME NEW q \in 1 .. Len(y), Waiting(m, q)' PROVE FALSE
  <2>1. Less(<<m, Len(y)>>, <<m, q>>)
    BY <1>5, <1>6, <1>9
  <2> QED
    BY <1>4, <1>7, <2>1 DEF Less
<1> QED
  BY <1>8, <1>9

LEMMA ReadingRecvData ==
    ASSUME TypeOK, Shape, Sockets, Ordered, NoGaps, InStep, Reading, RecvData
    PROVE  NoGaps' /\ Reading'
<1>1. /\ UNCHANGED <<carrier, delivered, fd>> /\ receiver.pc = "blocked"
      /\ \A j \in DOMAIN conn : conn'[j].open = conn[j].open /\ conn'[j].peerOpen = conn[j].peerOpen
  BY RecvDataIs DEF RestOfReceive
<1>2. \A n \in DOMAIN carrier : n \in Nat /\ Size(n) \in Nat /\ Size(n) > 2 /\ (Alive(n)' => Alive(n))
  BY <1>1, CarriersTyped DEF Alive
<1>3. NoGaps'
  <2> SUFFICES ASSUME NEW n \in DOMAIN carrier, NEW m \in DOMAIN carrier, NEW p \in Nat, NEW q \in 1 .. Size(m),
                      Alive(n)', carrier[m] = carrier[n], Waiting(n, p)', Less(<<n, p>>, <<m, q>>)
               PROVE  Waiting(m, q)'
    BY <1>1 DEF NoGaps
  <2>a. Alive(n)
    BY <1>2
  <2>1. PICK a \in DOMAIN carrier, b \in Nat :
          /\ Head(conn[carrier[n]].in) = <<a, b>> /\ carrier[a] = carrier[n] /\ Waiting(a, b)
          /\ \A l, r : Waiting(l, r)' /\ carrier[l] = carrier[n] => Waiting(l, r) /\ Less(<<a, b>>, <<l, r>>)
          /\ \A l, r : Waiting(l, r) /\ carrier[l] = carrier[n] => <<l, r>> = <<a, b>> \/ Waiting(l, r)'
    BY <2>a, HeadIs
  <2>2. Waiting(n, p) /\ Less(<<a, b>>, <<n, p>>)
    BY <2>1
  <2>3. Waiting(m, q)
    BY <2>a, <2>2 DEF NoGaps
  <2>4. <<m, q>> # <<a, b>>
    <3>1. a \in Nat /\ n \in Nat /\ m \in Nat
      BY <1>2
    <3> QED
      BY <2>2, <3>1 DEF Less
  <2> QED
    BY <2>1, <2>3, <2>4
<1>4. Reading'
  <2> SUFFICES ASSUME NEW n \in DOMAIN carrier, Alive(n)', ~Waiting(n, 1)', ~Delivered(n)', n \notin swallowed'
               PROVE  /\ Waiting(n, 2)' => First(n)'
                      /\ \A k \in 2 .. Size(n) - 1 : ~Waiting(n, k)' /\ Waiting(n, k + 1)' => Middle(n, k)'
                      /\ ~Waiting(n, Size(n))' => Entire(n)'
    BY <1>1 DEF Reading
  <2> SUFFICES ASSUME NEW h, h = Head(conn[receiver.on].in), NEW g, g = receiver.got, NEW y, y = receiver'.got
               PROVE  /\ Waiting(n, 2)' => First(n)'
                      /\ \A k \in 2 .. Size(n) - 1 : ~Waiting(n, k)' /\ Waiting(n, k + 1)' => Middle(n, k)'
                      /\ ~Waiting(n, Size(n))' => Entire(n)'
    OBVIOUS
  <2>1. /\ Alive(n) /\ ~Delivered(n) /\ carrier' = carrier /\ fd' = fd
        /\ n \in Nat /\ Size(n) \in Nat /\ Size(n) > 2
    BY <1>1, <1>2 DEF Delivered
  <2>2. receiver.on = carrier[n]
    BY <2>1, HeadIs
  <2>3. PICK a \in DOMAIN carrier, b \in Nat :
          /\ h = <<a, b>> /\ carrier[a] = carrier[n] /\ Waiting(a, b)
          /\ \A l, r : Waiting(l, r)' /\ carrier[l] = carrier[n] => Waiting(l, r) /\ Less(<<a, b>>, <<l, r>>)
          /\ \A l, r : Waiting(l, r) /\ carrier[l] = carrier[n] => <<l, r>> = <<a, b>> \/ Waiting(l, r)'
    BY <2>1, <2>2, HeadIs
  <2>4. a \in Nat /\ Alive(a)
    BY <1>2, <2>1, <2>3 DEF Alive
  <2>5. /\ Len(g) \in Nat
        /\ \/ /\ Len(g) = 1 /\ ~(g[1][2] = 1 /\ h[2] = 2)
              /\ receiver'.pc = "fail" /\ Len(y) = 0
           \/ /\ Len(y) = Len(g) + 1 /\ y[Len(g) + 1] = h /\ \A j \in 1 .. Len(g) : y[j] = g[j]
              /\ Len(g) = 1 => g[1][2] = 1 /\ h[2] = 2
              /\ \/ receiver'.pc = "fetch" /\ (Len(g) >= 2 => Len(g) + 1 < Size(g[2][1]))
                 \/ receiver'.pc = "deliver" /\ Len(g) >= 2 /\ Len(g) + 1 = Size(g[2][1])
    BY HeldAfter
  <2>6. ASSUME NEW q \in 1 .. Size(n), Less(h, <<n, q>>) PROVE Waiting(n, q)'
    <3>1. Waiting(n, q)
      BY <2>3, <2>4, <2>6 DEF NoGaps
    <3>2. <<n, q>> # <<a, b>>
      BY <2>1, <2>3, <2>4, <2>6 DEF Less
    <3> QED
      BY <2>3, <3>1, <3>2
  (* The first piece of n is read. *)
  <2>7. CASE Waiting(n, 1)
    <3>1. h = <<n, 1>>
      BY <2>3, <2>7
    <3>2. \A q \in 2 .. Size(n) : Waiting(n, q)'
      <4> SUFFICES ASSUME NEW q \in 2 .. Size(n) PROVE Waiting(n, q)'
        OBVIOUS
      <4>1. Less(h, <<n, q>>) /\ q \in 1 .. Size(n)
        BY <2>1, <3>1 DEF Less
      <4> QED
        BY <2>6, <4>1
    <3>3. Len(g) < 2
      <4> SUFFICES ASSUME Len(g) >= 2 PROVE FALSE
        BY <2>5
      <4>1. carrier[g[2][1]] = receiver.on
        <5>1. swallowed' = IF Len(g) >= 2 /\ carrier[g[2][1]] # receiver.on
                           THEN swallowed \cup {h[1]} ELSE swallowed
          BY RecvDataIs
        <5> QED
          BY <3>1, <5>1
      <4>2. Alive(g[2][1])
        BY <2>1, <2>2, <4>1 DEF Alive
      <4>3. h = <<g[2][1], Len(g) + 1>>
        BY <4>2, NextPiece
      <4> QED
        BY <2>5, <3>1, <4>3
    <3>4. First(n)'
      <4>1. receiver'.pc \in {"fail", "fetch"}
        BY <2>5, <3>3
      <4>2. Len(y) = 0 \/ (receiver'.pc = "fetch" /\ Len(y) = 1 /\ y[1] = <<n, 1>>)
        <5>1. Len(g) # 1 \/ Len(y) = 0
          BY <2>5, <3>1
        <5>2. CASE Len(g) = 0
          BY <2>5, <3>1, <5>2
        <5>3. Len(g) = 0 \/ Len(g) = 1
          BY <2>5, <3>3, FewPieces, Zenon
        <5> QED
          BY <5>1, <5>2, <5>3
      <4> QED
        BY <4>1, <4>2 DEF First, Midway
    <3>5. Size(n) \in 2 .. Size(n) /\ \A k \in 2 .. Size(n) - 1 : k \in 2 .. Size(n)
      BY <2>1
    <3> QED
      BY <3>2, <3>4, <3>5
  (* A later one is read, which continues what the thread holds. *)
  <2>8. CASE ~Waiting(n, 1)
    <3>1. /\ Waiting(n, 2) => First(n)
          /\ \A k \in 2 .. Size(n) - 1 : ~Waiting(n, k) /\ Waiting(n, k + 1) => Middle(n, k)
          /\ ~Waiting(n, Size(n)) => Entire(n)
      <4>1. n \notin swallowed
        BY RecvDataIs
      <4> QED
        BY <2>1, <2>8, <4>1 DEF Reading
    <3>2. ~Leaving /\ ~Entire(n)
      BY <1>1 DEF Leaving, Entire
    <3>3. Waiting(n, Size(n))
      BY <3>1, <3>2
    <3>4. ~Less(h, <<n, 1>>)
      <4> SUFFICES ASSUME Less(h, <<n, 1>>) PROVE FALSE
        OBVIOUS
      <4>1. 1 \in 1 .. Size(n)
        BY <2>1
      <4> QED
        BY <2>6, <4>1
    <3>5. a = n /\ b \in 2 .. Size(n) /\ h = <<n, b>>
      <4>1. <<n, Size(n)>> = <<a, b>> \/ Less(<<a, b>>, <<n, Size(n)>>)
        BY <2>3, <3>3
      <4>2. a = n /\ b <= Size(n)
        BY <2>1, <2>3, <2>4, <3>4, <4>1 DEF Less
      <4>3. b # 0
        BY <2>3, <3>4, <4>2 DEF Less
      <4>4. b # 1
        BY <2>3, <2>8, <4>2
      <4> QED
        BY <2>1, <2>3, <4>2, <4>3, <4>4
    <3>6. ~Waiting(n, 2)'
      <4> SUFFICES ASSUME Waiting(n, 2)' PROVE FALSE
        OBVIOUS
      <4>1. Less(<<n, b>>, <<n, 2>>)
        BY <2>3, <3>5
      <4> QED
        BY <2>1, <3>5, <4>1 DEF Less
    <3>7. ASSUME NEW k \in 2 .. Size(n) - 1, ~Waiting(n, k)', Waiting(n, k + 1)' PROVE k = b
      <4>1. Less(<<n, b>>, <<n, k + 1>>)
        BY <2>3, <3>5, <3>7
      <4>2. ~Less(h, <<n, k>>)
        <5>1. k \in 1 .. Size(n)
          BY <2>1
        <5> QED
          BY <2>6, <3>7, <5>1
      <4> QED
        BY <2>1, <3>5, <4>1, <4>2 DEF Less
    <3>8. ASSUME ~Waiting(n, Size(n))' PROVE b = Size(n)
      <4>1. ~Less(h, <<n, Size(n)>>)
        <5>1. Size(n) \in 1 .. Size(n)
          BY <2>1
        <5> QED
          BY <2>6, <3>8, <5>1
      <4> QED
        BY <2>1, <3>5, <4>1 DEF Less
    <3>9. CASE b = 2
      <4>1. First(n)
        BY <2>3, <3>1, <3>5, <3>9
      <4>2. /\ fd = carrier[n]
            /\ Len(g) = 0 \/ (Len(g) = 1 /\ g[1] = <<n, 1>>)
        BY <1>1, <4>1 DEF First
      <4>3. ASSUME Len(g) = 0 PROVE Middle(n, 2)'
        <5>1. receiver'.pc = "fetch" /\ Len(y) = 1 /\ y[1] = <<n, 2>>
          BY <2>5, <3>5, <3>9, <4>3
        <5>2. Begun(n, 2)' /\ Midway'
          BY <5>1 DEF Begun, Midway
        <5> QED
          BY <2>1, <4>2, <5>2 DEF Middle
      <4>4. ASSUME Len(g) = 1, g[1] = <<n, 1>> PROVE Middle(n, 2)'
        <5>1. g[1][2] = 1 /\ h[2] = 2
          BY <3>5, <3>9, <4>4
        <5>2. receiver'.pc = "fetch" /\ Len(y) = 2 /\ y[1] = <<n, 1>> /\ y[2] = <<n, 2>>
          BY <2>5, <3>5, <3>9, <4>4, <5>1
        <5>3. \A j \in 1 .. 2 : y[j] = <<n, j>>
          BY <5>2
        <5>4. Begun(n, 2)' /\ Midway'
          BY <5>2, <5>3 DEF Begun, Midway
        <5> QED
          BY <2>1, <4>2, <5>4 DEF Middle
      <4>5. Middle(n, 2)'
        BY <4>2, <4>3, <4>4
      <4> QED
        BY <2>1, <3>6, <3>7, <3>8, <3>9, <4>5
    <3>10. CASE b > 2
      <4>1. b - 1 \in 2 .. Size(n) - 1 /\ (b - 1) + 1 = b /\ b \in Nat
        BY <2>1, <3>5, <3>10
      <4>2. ~Waiting(n, b - 1)
        <5> SUFFICES ASSUME Waiting(n, b - 1) PROVE FALSE
          OBVIOUS
        <5>1. <<n, b - 1>> = <<n, b>> \/ Less(<<n, b>>, <<n, b - 1>>)
          BY <2>3, <3>5
        <5> QED
          BY <2>1, <4>1, <5>1 DEF Less
      <4>3. Middle(n, b - 1)
        BY <2>3, <3>1, <3>5, <4>1, <4>2
      <4>4. fd = carrier[n] /\ Begun(n, b - 1)
        BY <3>2, <4>3 DEF Middle
      <4>5. CASE Len(g) = b - 1 /\ \A j \in 1 .. b - 1 : g[j] = <<n, j>>
        <5>1. Len(g) >= 2 /\ Len(g) # 1 /\ Len(g) + 1 = b /\ g[2] = <<n, 2>>
          BY <4>1, <4>5
        <5>2. /\ Len(y) = b /\ y[b] = <<n, b>> /\ \A j \in 1 .. b - 1 : y[j] = <<n, j>>
              /\ \/ receiver'.pc = "fetch" /\ b < Size(n)
                 \/ receiver'.pc = "deliver" /\ b = Size(n)
          BY <2>5, <3>5, <4>5, <5>1
        <5>3. \A j \in 1 .. b : y[j] = <<n, j>>
          BY <4>1, <5>2
        <5>4. ASSUME b < Size(n) PROVE Middle(n, b)'
          <6>1. receiver'.pc = "fetch"
            BY <2>1, <4>1, <5>2, <5>4
          <6>2. Begun(n, b)' /\ Midway'
            BY <5>2, <5>3, <6>1 DEF Begun, Midway
          <6> QED
            BY <2>1, <4>4, <6>2 DEF Middle
        <5>5. ASSUME b = Size(n) PROVE Entire(n)'
          <6>1. receiver'.pc = "deliver"
            BY <2>1, <4>1, <5>2, <5>5
          <6> QED
            BY <2>1, <4>4, <5>2, <5>3, <5>5, <6>1 DEF Entire
        <5>6. \A k \in 2 .. Size(n) - 1 : k = b => b < Size(n)
          BY <2>1
        <5> QED
          BY <3>6, <3>7, <3>8, <5>4, <5>5, <5>6
      <4>6. CASE Len(g) = 1 /\ g[1] = <<n, 2>>
        <5>1. receiver'.pc = "fail"
          BY <2>5, <4>6
        <5>2. Leaving'
          BY <5>1 DEF Leaving
        <5> QED
          BY <2>1, <3>6, <4>4, <5>2 DEF Middle, Entire
      <4> QED
        BY <4>4, <4>5, <4>6 DEF Begun
    <3> QED
      BY <3>5, <3>9, <3>10
  <2> QED
    BY <2>7, <2>8
<1> QED
  BY <1>3, <1>4

(* Steps that leave the receive thread, fd_ and what can be read alone. *)
LEMMA ReadingQuiet ==
    ASSUME TypeOK, NoGaps, Reading, UNCHANGED <<carrier, swallowed, delivered, fd, receiver>>, StopFlag => StopFlag',
           \A j \in DOMAIN conn :
              conn'[j].open = conn[j].open /\ conn'[j].peerOpen = conn[j].peerOpen /\ conn'[j].in = conn[j].in
    PROVE  NoGaps' /\ Reading'
<1>1. \A n \in DOMAIN carrier : Alive(n)' => Alive(n) /\ conn'[carrier[n]].in = conn[carrier[n]].in
  BY CarriersTyped DEF Alive
<1>2. ASSUME NEW n \in DOMAIN carrier, ~Delivered(n)'
      PROVE  /\ ~Delivered(n)
             /\ First(n) => First(n)'
             /\ \A k : Middle(n, k) => Middle(n, k)'
             /\ Entire(n) => Entire(n)'
  BY <1>2 DEF Delivered, First, Middle, Begun, Entire, Midway, Leaving
<1> QED
  BY <1>1, <1>2, ReadingKept

(* The receive thread moves, and the connections stay as they are. *)
LEMMA ReadingMoves ==
    ASSUME TypeOK, NoGaps, Reading, UNCHANGED <<carrier, swallowed, conn>>,
           \A n \in DOMAIN carrier :
              Alive(n) /\ ~Delivered(n)' =>
                  /\ ~Delivered(n)
                  /\ First(n) => First(n)'
                  /\ \A k : Middle(n, k) => Middle(n, k)'
                  /\ Entire(n) => Entire(n)'
    PROVE  NoGaps' /\ Reading'
<1>1. \A n \in DOMAIN carrier : Alive(n)' => Alive(n) /\ conn'[carrier[n]].in = conn[carrier[n]].in
  BY DEF Alive
<1> QED
  BY <1>1, ReadingKept

LEMMA ReadingStoreFd == ASSUME TypeOK, Sockets, NoGaps, Reading, StoreFd PROVE NoGaps' /\ Reading'
<1>1. /\ UNCHANGED <<carrier, swallowed, conn, delivered, receiver, stopper>> /\ fd = 0
  BY StoreFdIs DEF Sockets
<1>2. ASSUME NEW n \in DOMAIN carrier, Alive(n), ~Delivered(n)'
      PROVE  /\ ~Delivered(n)
             /\ First(n) => First(n)'
             /\ \A k : Middle(n, k) => Middle(n, k)'
             /\ Entire(n) => Entire(n)'
  <2>1. carrier[n] # fd
    BY <1>1, <1>2, AliveIs
  <2> QED
    BY <1>1, <1>2, <2>1 DEF Delivered, First, Middle, Begun, Entire, Midway
<1> QED
  BY <1>1, <1>2, ReadingMoves

(* disconnectSocket() ends the only connection that can be alive once fd_ is set. *)
LEMMA ReadingDisconnect ==
    ASSUME TypeOK, Shape, Sockets, NoGaps, Reading, DisconnectSocket, UNCHANGED <<carrier, swallowed, delivered>>,
           \/ UNCHANGED receiver
           \/ receiver'.pc = "top" /\ receiver'.got = <<>>
    PROVE  NoGaps' /\ Reading'
<1>1. ASSUME NEW n \in DOMAIN carrier, Alive(n)'
      PROVE  Alive(n) /\ fd = 0 /\ conn'[carrier[n]].in = conn[carrier[n]].in /\ fd' = 0
  <2>1. carrier[n] \in DOMAIN conn
    BY CarriersTyped
  <2>2. carrier[n] # fd
    BY <1>1, <2>1, DisconnectIs DEF Alive
  <2>3. conn'[carrier[n]] = conn[carrier[n]] /\ fd' = 0
    BY <2>1, <2>2, DisconnectIs
  <2>4. Alive(n)
    BY <1>1, <2>3 DEF Alive
  <2> QED
    BY <2>2, <2>3, <2>4, AliveIs
<1>2. ASSUME NEW n \in DOMAIN carrier, Alive(n)', ~Delivered(n)'
      PROVE  /\ ~Delivered(n)
             /\ First(n) => First(n)'
             /\ \A k : Middle(n, k) => Middle(n, k)'
             /\ Entire(n) => Entire(n)'
  <2>1. Alive(n) /\ fd = 0 /\ fd' = 0 /\ carrier[n] # 0
    BY <1>1, <1>2, AliveIs
  <2>2. (\A k : ~Middle(n, k)) /\ ~Entire(n) /\ ~Delivered(n)
    BY <1>2, <2>1 DEF Middle, Begun, Entire, Delivered
  <2>3. CASE UNCHANGED receiver
    <3>1. First(n) => First(n)'
      BY <2>1, <2>3 DEF First, Midway
    <3> QED
      BY <2>2, <3>1
  <2>4. CASE receiver'.pc = "top" /\ receiver'.got = <<>>
    <3>1. Len(receiver'.got) = 0
      BY <2>4
    <3>2. First(n)'
      BY <2>4, <3>1 DEF First
    <3> QED
      BY <2>2, <3>2
  <2> QED
    BY <2>3, <2>4
<1> QED
  BY <1>1, <1>2, ReadingKept

LEMMA ReadingFails == ASSUME TypeOK, Shape, NoGaps, Reading, ReceiverFails PROVE NoGaps' /\ Reading'
<1>1. /\ UNCHANGED <<carrier, swallowed, delivered, stopper, fd, conn>> /\ receiver'.got = receiver.got
      /\ receiver.pc = "fail" /\ (receiver'.pc = "drop" \/ (StopFlag /\ receiver'.pc = "top"))
  BY ReceiverFailsIs DEF RestOfReceive
<1>2. receiver.got = <<>> /\ Len(receiver'.got) = 0
  BY <1>1 DEF Shape
<1>3. ASSUME NEW n \in DOMAIN carrier, Alive(n), ~Delivered(n)'
      PROVE  /\ ~Delivered(n)
             /\ First(n) => First(n)'
             /\ \A k : Middle(n, k) => Middle(n, k)'
             /\ Entire(n) => Entire(n)'
  <2>1. ~Delivered(n)
    BY <1>1, <1>3 DEF Delivered
  <2>2. First(n)'
    BY <1>1, <1>2 DEF First
  <2>3. Leaving'
    BY <1>1 DEF Leaving, StopFlag
  <2>4. (\A k : Middle(n, k) => Middle(n, k)') /\ (Entire(n) => Entire(n)')
    BY <1>1, <2>3 DEF Middle, Entire
  <2> QED
    BY <2>1, <2>2, <2>4
<1> QED
  BY <1>1, <1>3, ReadingMoves

LEMMA ReadingRecvMoves ==
    ASSUME TypeOK, Shape, NoGaps, Reading, RecvLoopTop \/ RecvTestConnected
    PROVE  NoGaps' /\ Reading'
<1>1. /\ UNCHANGED <<carrier, swallowed, delivered, stopper, fd, conn>> /\ receiver'.got = receiver.got
      /\ receiver.pc \in {"top", "test"} /\ receiver'.pc \in {"top", "test", "fetch", "exited"}
      /\ receiver.pc = "top" /\ StopFlag => receiver'.pc = "exited"
  BY RecvMovesIs DEF RestOfReceive
<1>2. receiver.got = <<>> /\ Len(receiver'.got) = 0
  BY <1>1 DEF Shape
<1>3. ASSUME NEW n \in DOMAIN carrier, Alive(n), ~Delivered(n)'
      PROVE  /\ ~Delivered(n)
             /\ First(n) => First(n)'
             /\ \A k : Middle(n, k) => Middle(n, k)'
             /\ Entire(n) => Entire(n)'
  <2>1. ~Delivered(n)
    BY <1>1, <1>3 DEF Delivered
  <2>2. First(n)'
    BY <1>1, <1>2 DEF First
  <2>3. Leaving => Leaving'
    BY <1>1 DEF Leaving, StopFlag
  <2>4. (\A k : Middle(n, k) => Middle(n, k)') /\ (Entire(n) => Entire(n)')
    BY <1>1, <2>3 DEF Middle, Begun, Entire, Midway
  <2> QED
    BY <2>1, <2>2, <2>4
<1> QED
  BY <1>1, <1>3, ReadingMoves

LEMMA ReadingFetch == ASSUME TypeOK, Shape, Sockets, NoGaps, Reading, ReadFetch PROVE NoGaps' /\ Reading'
<1>1. /\ UNCHANGED <<carrier, swallowed, delivered, stopper, fd, conn>> /\ receiver.pc = "fetch"
      /\ \/ fd # 0 /\ receiver'.pc = "recv" /\ receiver'.got = receiver.got
         \/ fd = 0 /\ receiver'.pc = "fail" /\ receiver'.got = <<>>
  BY ReadFetchIs DEF RestOfReceive
<1>2. ASSUME NEW n \in DOMAIN carrier, Alive(n), ~Delivered(n)'
      PROVE  /\ ~Delivered(n)
             /\ First(n) => First(n)'
             /\ \A k : Middle(n, k) => Middle(n, k)'
             /\ Entire(n) => Entire(n)'
  <2>1. ~Delivered(n)
    BY <1>1, <1>2 DEF Delivered
  <2>2. (fd # 0 => fd = carrier[n]) /\ carrier[n] # 0
    BY <1>2, AliveIs
  <2>3. CASE fd # 0 /\ receiver'.pc = "recv" /\ receiver'.got = receiver.got
    <3>1. First(n) => First(n)'
      BY <1>1, <2>2, <2>3 DEF First, Midway
    <3>2. (\A k : Middle(n, k) => Middle(n, k)') /\ (Entire(n) => Entire(n)')
      BY <1>1, <2>2, <2>3 DEF Middle, Begun, Entire, Midway, Leaving
    <3> QED
      BY <2>1, <3>1, <3>2
  <2>4. CASE fd = 0 /\ receiver'.pc = "fail" /\ receiver'.got = <<>>
    <3>1. Len(receiver'.got) = 0
      BY <2>4
    <3>2. First(n)'
      BY <2>4, <3>1 DEF First
    <3>3. (\A k : ~Middle(n, k)) /\ ~Entire(n)
      BY <2>2, <2>4 DEF Middle, Begun, Entire
    <3> QED
      BY <2>1, <3>2, <3>3
  <2> QED
    BY <1>1, <2>3, <2>4
<1> QED
  BY <1>1, <1>2, ReadingMoves

(* recv() is entered, or it fails: a thread that fails has not lost fd_. *)
LEMMA ReadingEnters ==
    ASSUME TypeOK, NoGaps, Reading, UNCHANGED <<carrier, swallowed, delivered, stopper, fd, conn>>,
           receiver.pc \in {"recv", "blocked"},
           \/ receiver'.pc = "blocked" /\ receiver'.got = receiver.got
           \/ receiver'.pc = "fail" /\ receiver'.got = <<>>
    PROVE  NoGaps' /\ Reading'
<1>1. ASSUME NEW n \in DOMAIN carrier, Alive(n), ~Delivered(n)'
      PROVE  /\ ~Delivered(n)
             /\ First(n) => First(n)'
             /\ \A k : Middle(n, k) => Middle(n, k)'
             /\ Entire(n) => Entire(n)'
  <2>1. ~Delivered(n)
    BY <1>1 DEF Delivered
  <2>2. CASE receiver'.pc = "blocked" /\ receiver'.got = receiver.got
    <3>1. First(n) => First(n)'
      BY <2>2 DEF First, Midway
    <3>2. (\A k : Middle(n, k) => Middle(n, k)') /\ (Entire(n) => Entire(n)')
      BY <2>2 DEF Middle, Begun, Entire, Midway, Leaving
    <3> QED
      BY <2>1, <3>1, <3>2
  <2>3. CASE receiver'.pc = "fail" /\ receiver'.got = <<>>
    <3>1. Len(receiver'.got) = 0
      BY <2>3
    <3>2. First(n)'
      BY <2>3, <3>1 DEF First
    <3>3. (\A k : Middle(n, k) => Middle(n, k)') /\ (Entire(n) => Entire(n)')
      BY <2>3 DEF Middle, Begun, Entire, Leaving
    <3> QED
      BY <2>1, <3>2, <3>3
  <2> QED
    BY <2>2, <2>3
<1> QED
  BY <1>1, ReadingMoves

(* onRecv(): a frame that was read as a whole is delivered. *)
LEMMA ReadingOnRecv == ASSUME TypeOK, NoGaps, Reading, OnRecv PROVE NoGaps' /\ Reading'
<1>1. /\ UNCHANGED <<carrier, swallowed, stopper, fd, conn>> /\ receiver.pc = "deliver"
      /\ receiver'.got = <<>> /\ receiver'.pc \in {"top", "ack"}
      /\ \/ /\ \E j \in 3 .. Len(receiver.got) : receiver.got[j] # <<receiver.got[2][1], j>>
            /\ UNCHANGED delivered
         \/ /\ \A j \in 3 .. Len(receiver.got) : receiver.got[j] = <<receiver.got[2][1], j>>
            /\ delivered' = Append(delivered, receiver.got[2][1])
  BY OnRecvIs DEF RestOfReceive
<1>2. ASSUME NEW n \in DOMAIN carrier, Alive(n), ~Delivered(n)'
      PROVE  /\ ~Delivered(n)
             /\ First(n) => First(n)'
             /\ \A k : Middle(n, k) => Middle(n, k)'
             /\ Entire(n) => Entire(n)'
  <2>1. delivered \in Seq(Frames)
    BY CountsTyped
  <2>2. /\ delivered' = delivered \/ delivered' = Append(delivered, receiver.got[2][1])
    BY <1>1
  <2>3. ASSUME NEW x, delivered' = Append(delivered, x)
        PROVE  /\ \A k \in DOMAIN delivered : k \in DOMAIN delivered' /\ delivered'[k] = delivered[k]
               /\ Len(delivered) + 1 \in DOMAIN delivered' /\ delivered'[Len(delivered) + 1] = x
    BY <2>1, <2>3
  <2>4. ~Delivered(n)
    BY <1>2, <2>2, <2>3 DEF Delivered
  <2>5. First(n)'
    <3>1. Len(receiver'.got) = 0
      BY <1>1
    <3> QED
      BY <1>1, <3>1 DEF First
  <2>6. \A k : ~Middle(n, k)
    BY <1>1 DEF Middle, Begun, Midway, Leaving
  <2>7. ~Entire(n)
    <3> SUFFICES ASSUME Entire(n) PROVE FALSE
      OBVIOUS
    <3>1. receiver.got[2][1] = n /\ \A j \in 3 .. Len(receiver.got) : receiver.got[j] = <<n, j>>
      <4>1. Len(receiver.got) = Size(n) /\ \A j \in 1 .. Size(n) : receiver.got[j] = <<n, j>>
        BY <1>1 DEF Entire, Leaving
      <4>2. Size(n) \in Nat /\ Size(n) > 2
        BY CarriersTyped
      <4>3. 2 \in 1 .. Size(n) /\ \A j \in 3 .. Size(n) : j \in 1 .. Size(n)
        BY <4>2
      <4> QED
        BY <4>1, <4>3
    <3>2. delivered' = Append(delivered, n)
      BY <1>1, <3>1
    <3> QED
      BY <1>2, <2>3, <3>2 DEF Delivered
  <2> QED
    BY <2>4, <2>5, <2>6, <2>7
<1> QED
  BY <1>1, <1>2, ReadingMoves

LEMMA ReadingPushAck == ASSUME TypeOK, NoGaps, Reading, PushAck PROVE NoGaps' /\ Reading'
<1>1. /\ UNCHANGED <<carrier, swallowed, delivered, stopper, fd, conn>> /\ receiver.pc = "ack"
      /\ receiver'.got = <<>> /\ receiver'.pc = "top"
  BY PushAckIs
<1>2. ASSUME NEW n \in DOMAIN carrier, Alive(n), ~Delivered(n)'
      PROVE  /\ ~Delivered(n)
             /\ First(n) => First(n)'
             /\ \A k : Middle(n, k) => Middle(n, k)'
             /\ Entire(n) => Entire(n)'
  <2>1. ~Delivered(n)
    BY <1>1, <1>2 DEF Delivered
  <2>2. First(n)'
    <3>1. Len(receiver'.got) = 0
      BY <1>1
    <3> QED
      BY <1>1, <3>1 DEF First
  <2>3. (\A k : ~Middle(n, k)) /\ ~Entire(n)
    BY <1>1 DEF Middle, Begun, Entire, Midway, Leaving
  <2> QED
    BY <2>1, <2>2, <2>3
<1> QED
  BY <1>1, <1>2, ReadingMoves

LEMMA ReadingCloses ==
    ASSUME TypeOK, NoGaps, Reading, NEW i \in DOMAIN conn, PeerCloses(i)
    PROVE  NoGaps' /\ Reading'
<1>1. /\ UNCHANGED <<carrier, swallowed, delivered, stopper, fd, receiver>>
      /\ conn'[i].peerOpen = FALSE
      /\ \A j \in DOMAIN conn : j # i => conn'[j] = conn[j]
  BY PeerClosesIs
<1>2. ASSUME NEW n \in DOMAIN carrier, Alive(n)'
      PROVE  Alive(n) /\ conn'[carrier[n]].in = conn[carrier[n]].in
  BY <1>1, <1>2, CarriersTyped DEF Alive
<1>3. ASSUME NEW n \in DOMAIN carrier, ~Delivered(n)'
      PROVE  /\ ~Delivered(n)
             /\ First(n) => First(n)'
             /\ \A k : Middle(n, k) => Middle(n, k)'
             /\ Entire(n) => Entire(n)'
  BY <1>1, <1>3 DEF Delivered, First, Middle, Begun, Entire, Midway, Leaving, StopFlag
<1> QED
  BY <1>1, <1>2, <1>3, ReadingKept

(* A new frame waits as a whole, behind all others of its connection. *)
LEMMA ReadingSends ==
    ASSUME TypeOK, Ordered, NoGaps, InStep, Reading, NEW i \in DOMAIN conn, PeerSends(i)
    PROVE  NoGaps' /\ Reading' /\ InStep'
<1> SUFFICES ASSUME NEW N, N = Len(carrier) + 1 PROVE NoGaps' /\ Reading' /\ InStep'
  OBVIOUS
<1>1. /\ UNCHANGED <<swallowed, delivered, stopper, fd, receiver>>
      /\ carrier' = Append(carrier, i) /\ Len(carrier) < MaxFrames
      /\ conn'[i].open = conn[i].open /\ conn'[i].peerOpen = conn[i].peerOpen
      /\ conn'[i].in = conn[i].in \o Pieces(N)
      /\ \A j \in DOMAIN conn : j # i => conn'[j] = conn[j]
  BY PeerSendsIs
<1>2. /\ N \in Frames /\ N \in Nat /\ carrier \in Seq(1 .. Len(conn)) /\ Len(carrier) \in Nat
      /\ DOMAIN carrier = 1 .. Len(carrier)
  <2>1. Len(carrier) < MaxFrames /\ carrier \in Seq(1 .. Len(conn)) /\ MaxFrames \in Nat
    BY <1>1, CountsTyped
  <2>2. Len(carrier) \in Nat /\ DOMAIN carrier = 1 .. Len(carrier)
    BY <2>1
  <2> QED
    BY <2>1, <2>2 DEF Frames
<1>0. Size(N) \in Nat /\ Size(N) > 2
  BY <1>2, SizeTyped
<1>3. /\ DOMAIN carrier' = 1 .. N /\ carrier'[N] = i
      /\ \A n \in DOMAIN carrier : carrier'[n] = carrier[n]
  BY <1>1, <1>2
<1>4. \A n \in DOMAIN carrier' : n \in Nat /\ (n \in DOMAIN carrier \/ n = N)
  BY <1>2, <1>3
<1>5. \A n \in DOMAIN carrier : n < N /\ n # N
  BY <1>2
<1>a. conn[i].in \in Seq(Frames \X Nat)
  BY ConnTyped
<1>b. \E s, t \in Seq(Frames \X Nat) :
        /\ conn[i].in = s /\ conn'[i].in = t
        /\ Len(s) \in Nat /\ DOMAIN s = 1 .. Len(s) /\ DOMAIN t = 1 .. Len(s) + Size(N)
        /\ \A k \in 1 .. Len(s) : t[k] = s[k]
        /\ \A p \in 1 .. Size(N) : t[Len(s) + p] = <<N, p>>
  BY <1>1, <1>2, <1>a, PiecesAdded
<1>c. PICK s, t \in Seq(Frames \X Nat) :
        /\ conn[i].in = s /\ conn'[i].in = t
        /\ Len(s) \in Nat /\ DOMAIN s = 1 .. Len(s) /\ DOMAIN t = 1 .. Len(s) + Size(N)
        /\ \A k \in 1 .. Len(s) : t[k] = s[k]
        /\ \A p \in 1 .. Size(N) : t[Len(s) + p] = <<N, p>>
  BY <1>b, Zenon
<1>6. \A k \in DOMAIN t : k \in DOMAIN s \/ \E p \in 1 .. Size(N) : k = Len(s) + p
  <2>1. ASSUME NEW k \in DOMAIN t, k \notin DOMAIN s PROVE \E p \in 1 .. Size(N) : k = Len(s) + p
    <3>1. k - Len(s) \in 1 .. Size(N) /\ k = Len(s) + (k - Len(s))
      BY <1>0, <1>c, <2>1
    <3> QED
      BY <3>1
  <2> QED
    BY <2>1
<1>7. ASSUME NEW p \in 1 .. Size(N) PROVE Waiting(N, p)'
  <2>1. Len(s) + p \in DOMAIN t
    BY <1>0, <1>c
  <2>2. conn'[carrier'[N]].in = t /\ t[Len(s) + p] = <<N, p>>
    BY <1>3, <1>c
  <2> QED
    BY <2>1, <2>2 DEF Waiting
<1>8. ASSUME NEW n \in DOMAIN carrier, NEW p PROVE Waiting(n, p)' <=> Waiting(n, p)
  <2>0. carrier[n] \in DOMAIN conn /\ carrier'[n] = carrier[n]
    BY <1>3, CarriersTyped
  <2>1. CASE carrier[n] # i
    BY <1>1, <2>0, <2>1 DEF Waiting
  <2>2. CASE carrier[n] = i
    <3>1. ASSUME Waiting(n, p) PROVE Waiting(n, p)'
      <4>1. PICK k \in DOMAIN s : s[k] = <<n, p>>
        BY <1>c, <2>2, <3>1 DEF Waiting
      <4>2. k \in DOMAIN t /\ t[k] = <<n, p>>
        <5>1. k \in 1 .. Len(s) /\ 1 .. Len(s) \subseteq 1 .. Len(s) + Size(N)
          BY <1>0, <1>c, <4>1
        <5> QED
          BY <1>c, <4>1, <5>1
      <4> QED
        BY <1>c, <2>0, <2>2, <4>2 DEF Waiting
    <3>2. ASSUME Waiting(n, p)' PROVE Waiting(n, p)
      <4>1. PICK k \in DOMAIN t : t[k] = <<n, p>>
        BY <1>c, <2>0, <2>2, <3>2 DEF Waiting
      <4>2. k \in DOMAIN s
        <5> SUFFICES ASSUME k \notin DOMAIN s PROVE FALSE
          OBVIOUS
        <5>1. PICK q \in 1 .. Size(N) : k = Len(s) + q
          BY <1>6
        <5>2. t[k] = <<N, q>>
          BY <1>c, <5>1
        <5> QED
          BY <1>5, <4>1, <5>2
      <4>3. s[k] = <<n, p>>
        BY <1>c, <4>1, <4>2
      <4> QED
        BY <1>c, <2>2, <4>2, <4>3 DEF Waiting
    <3> QED
      BY <3>1, <3>2
  <2> QED
    BY <2>1, <2>2
<1>9. ASSUME NEW n \in DOMAIN carrier PROVE Alive(n)' <=> Alive(n)
  <2>0. carrier[n] \in DOMAIN conn /\ carrier'[n] = carrier[n]
    BY <1>3, CarriersTyped
  <2> QED
    BY <1>1, <2>0 DEF Alive
<1>10. NoGaps'
  <2> SUFFICES ASSUME NEW n \in DOMAIN carrier', NEW m \in DOMAIN carrier', NEW p \in Nat, NEW q \in 1 .. Size(m),
                      Alive(n)', carrier'[m] = carrier'[n], Waiting(n, p)', Less(<<n, p>>, <<m, q>>)
               PROVE  Waiting(m, q)'
    BY DEF NoGaps
  <2>1. CASE m = N
    BY <1>7, <2>1
  <2>2. CASE m # N
    <3>1. m \in DOMAIN carrier /\ m < N
      BY <1>4, <1>5, <2>2
    <3>2. n <= m
      <4>1. n \in Nat /\ m \in Nat /\ (n < m \/ n = m)
        BY <1>4 DEF Less
      <4> QED
        BY <4>1
    <3>3. n \in DOMAIN carrier
      BY <1>2, <1>4, <3>1, <3>2
    <3>4. Alive(n) /\ Waiting(n, p) /\ carrier[m] = carrier[n]
      BY <1>3, <1>8, <1>9, <3>1, <3>3
    <3>5. Waiting(m, q)
      BY <3>1, <3>3, <3>4 DEF NoGaps
    <3> QED
      BY <1>8, <3>1, <3>5
  <2> QED
    BY <2>1, <2>2
<1>11. Reading'
  <2> SUFFICES ASSUME NEW n \in DOMAIN carrier', Alive(n)', ~Waiting(n, 1)', ~Delivered(n)', n \notin swallowed
               PROVE  /\ Waiting(n, 2)' => First(n)'
                      /\ \A k \in 2 .. Size(n) - 1 : ~Waiting(n, k)' /\ Waiting(n, k + 1)' => Middle(n, k)'
                      /\ ~Waiting(n, Size(n))' => Entire(n)'
    BY <1>1 DEF Reading
  <2>1. n \in DOMAIN carrier
    <3>1. 1 \in 1 .. Size(N)
      BY <1>0
    <3> QED
      BY <1>4, <1>7, <3>1
  <2>2. Alive(n) /\ (\A p : Waiting(n, p)' <=> Waiting(n, p)) /\ carrier'[n] = carrier[n]
    BY <1>3, <1>8, <1>9, <2>1
  <2>3. /\ ~Delivered(n)
        /\ First(n) => First(n)'
        /\ \A k : Middle(n, k) => Middle(n, k)'
        /\ Entire(n) => Entire(n)'
    BY <1>1, <2>2 DEF Delivered, First, Middle, Begun, Entire, Midway, Leaving, StopFlag
  <2>4. /\ Waiting(n, 2) => First(n)
        /\ \A k \in 2 .. Size(n) - 1 : ~Waiting(n, k) /\ Waiting(n, k + 1) => Middle(n, k)
        /\ ~Waiting(n, Size(n)) => Entire(n)
    BY <2>1, <2>2, <2>3 DEF Reading
  <2> QED
    BY <2>2, <2>3, <2>4, Zenon
<1>12. InStep'
  <2> SUFFICES ASSUME NEW n \in DOMAIN carrier', NEW l \in Nat, Midway', Len(receiver'.got) = l, l >= 2,
                      receiver'.got[2][1] = n, Alive(n)'
               PROVE  Waiting(n, l + 1)' /\ \A p \in 1 .. l : ~Waiting(n, p)'
    BY DEF InStep
  <2>1. Midway /\ Len(receiver.got) = l /\ receiver.got[2][1] = n
    BY <1>1 DEF Midway
  <2>2. receiver.got \in Seq(Frames \X Nat)
    BY ThreadsTyped
  <2>3. 2 \in DOMAIN receiver.got
    BY <2>1, <2>2
  <2>4. n \in DOMAIN carrier
    BY <2>1, <2>3 DEF Ordered, GotPassed, Passed
  <2>5. Alive(n) /\ \A p : Waiting(n, p)' <=> Waiting(n, p)
    BY <1>8, <1>9, <2>4
  <2>6. Waiting(n, l + 1) /\ \A p \in 1 .. l : ~Waiting(n, p)
    BY <2>1, <2>4, <2>5 DEF InStep
  <2> QED
    BY <2>5, <2>6
<1> QED
  BY <1>10, <1>11, <1>12

LEMMA InStepQuiet ==
    ASSUME TypeOK, Ordered, InStep, UNCHANGED carrier,
           \A j \in DOMAIN conn :
              conn'[j].open /\ conn'[j].peerOpen =>
                  conn[j].open /\ conn[j].peerOpen /\ conn'[j].in = conn[j].in,
           \/ (Midway' => Midway) /\ receiver'.got = receiver.got
           \/ receiver'.got = <<>>
    PROVE  InStep'
<1>1. ASSUME NEW n \in DOMAIN carrier, Alive(n)' PROVE Alive(n) /\ \A p : Waiting(n, p)' <=> Waiting(n, p)
  <2>1. carrier[n] \in DOMAIN conn
    BY CarriersTyped
  <2>2. Alive(n) /\ conn'[carrier[n]].in = conn[carrier[n]].in
    BY <1>1, <2>1 DEF Alive
  <2> QED
    BY <2>2 DEF Waiting
<1> QED
  BY <1>1, InStepKept

LEMMA InStepStep ==
    TypeOK /\ Shape /\ Sockets /\ Ordered /\ NoGaps /\ InStep /\ Reading /\ [Next]_vars => InStep'
<1> SUFFICES ASSUME TypeOK, Shape, Sockets, Ordered, NoGaps, InStep, Reading, [Next]_vars
             PROVE  InStep'
  OBVIOUS
<1>1. CASE UNCHANGED vars
  <2>1. UNCHANGED <<carrier, receiver, conn>>
    BY <1>1 DEF vars, peerVars, socketVars, envVars
  <2> QED
    BY <2>1, InStepQuiet DEF Midway
<1>2. CASE AppStep
  BY <1>2, AppStepIs, InStepQuiet DEF Midway
<1>3. CASE SenderMoves \/ PopItem \/ WriteFetch \/ WriteFails \/ StoreFd
  <2>1. UNCHANGED <<carrier, receiver, conn>>
    BY <1>3, SenderMovesIs, PopItemIs, WriteFetchIs, WriteFailsIs, StoreFdIs
  <2> QED
    BY <2>1, InStepQuiet DEF Midway
<1>4. CASE WriteSucceeds
  <2>1. UNCHANGED <<carrier, receiver>>
    BY <1>4, WriteIs
  <2>2. \A j \in DOMAIN conn :
           conn'[j].open = conn[j].open /\ conn'[j].peerOpen = conn[j].peerOpen /\ conn'[j].in = conn[j].in
    BY <1>4, WriteIs
  <2> QED
    BY <2>1, <2>2, InStepQuiet DEF Midway
<1>5. CASE ConnectSucceeds
  <2>1. UNCHANGED <<carrier, receiver>>
    BY <1>5 DEF ConnectSucceeds, envVars, peerVars
  <2>2. \A j \in DOMAIN conn : conn'[j] = conn[j]
    BY <1>5, ConnectIs
  <2> QED
    BY <2>1, <2>2, InStepQuiet DEF Midway
<1>6. CASE SenderDisconnect \/ StopDisconnect \/ ReceiverDisconnect
  <2>1. /\ UNCHANGED carrier /\ DisconnectSocket
        /\ receiver' = receiver \/ (receiver'.got = receiver.got /\ receiver'.pc = "top")
    BY <1>6, SenderDisconnectIs, StopDisconnectIs, ReceiverDisconnectIs DEF RestOfReceive
  <2>2. \A j \in DOMAIN conn : conn'[j].open => conn'[j] = conn[j]
    BY <2>1, DisconnectIs
  <2>3. (Midway' => Midway) /\ receiver'.got = receiver.got
    BY <2>1 DEF Midway
  <2> QED
    BY <2>1, <2>2, <2>3, InStepQuiet
<1>7. CASE RecvLoopTop \/ RecvTestConnected \/ ReceiverFails
  <2>1. UNCHANGED <<carrier, conn>> /\ receiver'.got = receiver.got /\ receiver.pc \in {"top", "test", "fail"}
    BY <1>7, RecvMovesIs, ReceiverFailsIs DEF RestOfReceive
  <2>2. receiver'.got = <<>>
    BY <2>1 DEF Shape
  <2> QED
    BY <2>1, <2>2, InStepQuiet
<1>8. CASE ReadFetch \/ RecvEnter \/ RecvEnd
  <2>1. /\ UNCHANGED <<carrier, conn>> /\ receiver.pc \in {"fetch", "recv", "blocked"}
        /\ receiver'.got = receiver.got \/ receiver'.got = <<>>
    BY <1>8, ReadFetchIs, RecvEnterIs, RecvEndIs DEF RestOfReceive
  <2> QED
    BY <2>1, InStepQuiet DEF Midway
<1>9. CASE OnRecv \/ PushAck
  <2>1. UNCHANGED <<carrier, conn>> /\ receiver'.got = <<>>
    BY <1>9, OnRecvIs, PushAckIs DEF RestOfReceive
  <2> QED
    BY <2>1, InStepQuiet
<1>10. CASE RecvData
  BY <1>10, InStepRecvData
<1>11. ASSUME NEW i \in DOMAIN conn, PeerSends(i) PROVE InStep'
  BY <1>11, ReadingSends
<1>12. ASSUME NEW i \in DOMAIN conn, PeerCloses(i) PROVE InStep'
  <2>1. /\ UNCHANGED <<carrier, receiver>> /\ conn'[i].peerOpen = FALSE
        /\ \A j \in DOMAIN conn : j # i => conn'[j] = conn[j]
    BY <1>12, PeerClosesIs
  <2> QED
    BY <2>1, InStepQuiet DEF Midway
<1> QED
  BY <1>1, <1>2, <1>3, <1>4, <1>5, <1>6, <1>7, <1>8, <1>9, <1>10, <1>11, <1>12, NextIs

LEMMA ReadingStep ==
    TypeOK /\ Shape /\ Sockets /\ Ordered /\ NoGaps /\ InStep /\ Reading /\ [Next]_vars => NoGaps' /\ Reading'
<1> SUFFICES ASSUME TypeOK, Shape, Sockets, Ordered, NoGaps, InStep, Reading, [Next]_vars
             PROVE  NoGaps' /\ Reading'
  OBVIOUS
<1>1. CASE UNCHANGED vars
  <2>1. UNCHANGED <<carrier, swallowed, delivered, fd, receiver, conn, stopper>>
    BY <1>1 DEF vars, peerVars, appVars, socketVars, envVars
  <2>2. StopFlag => StopFlag'
    BY <2>1 DEF StopFlag
  <2> QED
    BY <2>1, <2>2, ReadingQuiet
<1>2. CASE AppStep
  BY <1>2, AppStepIs, ReadingQuiet
<1>3. CASE SenderMoves \/ PopItem \/ WriteFetch \/ WriteFails
  <2>1. UNCHANGED <<carrier, swallowed, delivered, fd, receiver, conn, stopper>>
    BY <1>3, SenderMovesIs, PopItemIs, WriteFetchIs, WriteFailsIs
  <2>2. StopFlag => StopFlag'
    BY <2>1 DEF StopFlag
  <2> QED
    BY <2>1, <2>2, ReadingQuiet
<1>4. CASE WriteSucceeds
  <2>1. UNCHANGED <<carrier, swallowed, delivered, fd, receiver, stopper>>
    BY <1>4, WriteIs
  <2>2. \A j \in DOMAIN conn :
           conn'[j].open = conn[j].open /\ conn'[j].peerOpen = conn[j].peerOpen /\ conn'[j].in = conn[j].in
    BY <1>4, WriteIs
  <2>3. StopFlag => StopFlag'
    BY <2>1 DEF StopFlag
  <2> QED
    BY <2>1, <2>2, <2>3, ReadingQuiet
<1>5. CASE ConnectSucceeds
  <2>1. UNCHANGED <<carrier, swallowed, delivered, fd, receiver, stopper>>
    BY <1>5 DEF ConnectSucceeds, appVars, envVars, peerVars
  <2>2. \A j \in DOMAIN conn : conn'[j] = conn[j]
    BY <1>5, ConnectIs
  <2>3. StopFlag => StopFlag'
    BY <2>1 DEF StopFlag
  <2> QED
    BY <2>1, <2>2, <2>3, ReadingQuiet
<1>6. CASE StoreFd
  BY <1>6, ReadingStoreFd
<1>7. CASE SenderDisconnect \/ StopDisconnect
  <2>1. UNCHANGED <<carrier, swallowed, delivered, receiver>> /\ DisconnectSocket
    BY <1>7, SenderDisconnectIs, StopDisconnectIs
  <2> QED
    BY <2>1, ReadingDisconnect
<1>8. CASE RecvLoopTop \/ RecvTestConnected
  BY <1>8, ReadingRecvMoves
<1>9. CASE ReadFetch
  BY <1>9, ReadingFetch
<1>10. CASE RecvEnter \/ RecvEnd
  <2>1. /\ UNCHANGED <<carrier, swallowed, delivered, stopper, fd, conn>>
        /\ receiver.pc \in {"recv", "blocked"}
        /\ \/ receiver'.pc = "blocked" /\ receiver'.got = receiver.got
           \/ receiver'.pc = "fail" /\ receiver'.got = <<>>
    BY <1>10, RecvEnterIs, RecvEndIs DEF RestOfReceive
  <2> QED
    BY <2>1, ReadingEnters
<1>11. CASE RecvData
  BY <1>11, ReadingRecvData
<1>12. CASE ReceiverFails
  BY <1>12, ReadingFails
<1>16. CASE ReceiverDisconnect
  <2>1. /\ UNCHANGED <<carrier, swallowed, delivered>> /\ DisconnectSocket
        /\ receiver.pc = "drop" /\ receiver'.pc = "top" /\ receiver'.got = receiver.got
    BY <1>16, ReceiverDisconnectIs DEF RestOfReceive
  <2>2. receiver'.got = <<>>
    BY <2>1 DEF Shape
  <2> QED
    BY <2>1, <2>2, ReadingDisconnect
<1>13. CASE OnRecv
  BY <1>13, ReadingOnRecv
<1>14. CASE PushAck
  BY <1>14, ReadingPushAck
<1>15. ASSUME NEW i \in DOMAIN conn, PeerSends(i) \/ PeerCloses(i) PROVE NoGaps' /\ Reading'
  BY <1>15, ReadingSends, ReadingCloses
<1> QED
  BY <1>1, <1>2, <1>3, <1>4, <1>5, <1>6, <1>7, <1>8, <1>9, <1>10, <1>11, <1>12, <1>13, <1>14, <1>15,
     <1>16, NextIs

(* With nothing left to read, a frame that is neither delivered nor swallowed would
   still be in hand. *)
LEMMA NothingLost == Reading => IncomingNotLost
<1> SUFFICES ASSUME Reading, NEW n \in DOMAIN carrier, Drained(carrier[n]), n \notin swallowed PROVE Delivered(n)
  BY DEF IncomingNotLost, Delivered
<1>1. /\ receiver.pc = "blocked" /\ Alive(n) /\ conn[carrier[n]].in = <<>>
  BY DEF Drained, Alive
<1>2. \A p : ~Waiting(n, p)
  BY <1>1 DEF Waiting
<1>3. ~Entire(n)
  BY <1>1 DEF Entire, Leaving
<1> QED
  BY <1>1, <1>2, <1>3 DEF Reading

-----------------------------------------------------------------------------
(* The inductive invariant. *)

Linked ==
    TypeOK /\ Shape /\ Sockets /\ Queued /\ Written /\ Ordered /\ NoGaps /\ InStep /\ Reading

LEMMA InitIs ==
    ASSUME Init
    PROVE  /\ queue = <<>> /\ qStopped = FALSE /\ dropped = 0 /\ accepted = <<>> /\ nextSeq = 0
           /\ producer = [p \in Producers |-> NoSeq] /\ fd = 0 /\ conn = <<>>
           /\ sender.pc = "top" /\ sender.item = NoSeq /\ sender.piece = 1 /\ sender.used = 0
           /\ receiver.pc = "top" /\ receiver.got = <<>> /\ receiver.used = 0 /\ receiver.on = 0
           /\ receiver.ack = NoSeq
           /\ sent = 0 /\ failed = 0 /\ stopper = "up" /\ listening \in BOOLEAN /\ carrier = <<>>
           /\ faults = 0 /\ delivered = <<>> /\ swallowed = {}
BY SenderStateIs, ReceiverStateIs
   DEF Init, SenderTop, SenderAt, ReceiverTop, ReceiverHolds, SenderState, ReceiverState

LEMMA LinkedInit == Init => Linked
<1> SUFFICES ASSUME Init PROVE Linked
  OBVIOUS
<1>0. MaxSeq \in Nat /\ MaxFaults \in Nat /\ MaxFrames \in Nat /\ QueueSize \in Nat
  BY SenderAssumption DEF MaxSeq
<1>1. TypeOK
  <2>1. sender \in Senders /\ receiver \in Receivers
    <3>1. Len(conn) = 0 /\ 0 \in 0 .. Len(conn)
      BY InitIs
    <3> QED
      BY <3>1 DEF Init, SenderTop, SenderAt, ReceiverTop, ReceiverHolds, SenderState, ReceiverState,
                  Senders, Receivers, SenderPcs, ReceiverPcs
  <2>2. /\ queue \in Seq(Seqs) /\ Len(queue) <= QueueSize /\ accepted \in Seq(Seqs)
        /\ carrier \in Seq(1 .. Len(conn)) /\ Len(carrier) <= MaxFrames /\ delivered \in Seq(Frames)
    BY <1>0, InitIs
  <2>3. conn \in Seq(Links) /\ fd \in 0 .. Len(conn)
    BY InitIs
  <2>4. /\ dropped \in 0 .. MaxSeq /\ nextSeq \in 0 .. MaxSeq /\ sent \in 0 .. MaxSeq
        /\ failed \in 0 .. MaxSeq /\ faults \in 0 .. MaxFaults
    BY <1>0, InitIs
  <2>5. qStopped \in BOOLEAN /\ listening \in BOOLEAN /\ stopper \in StopperPcs
        /\ producer \in [Producers -> Seqs \cup {NoSeq}] /\ swallowed \subseteq Frames
    BY InitIs DEF StopperPcs
  <2> QED
    BY <2>1, <2>2, <2>3, <2>4, <2>5 DEF TypeOK, Links, Senders, Receivers
<1>2. Shape
  BY InitIs DEF Shape, Midway
<1>3. Sockets
  BY InitIs DEF Sockets
<1>4. Queued
  <2>1. Newest
    BY InitIs DEF Newest
  <2>2. InHand = 0
    BY InitIs DEF InHand
  <2>3. Counted
    BY <2>2, InitIs DEF Counted
  <2>4. Numbered
    <3>1. DOMAIN accepted = {} /\ nextSeq = 0 /\ Len(delivered) = 0 /\ MaxMessages \in Nat
      BY InitIs, SenderAssumption
    <3>2. (\A p \in Producers : producer[p] = NoSeq) /\ receiver.pc # "ack"
      BY InitIs
    <3>3. nextSeq <= MaxMessages + Len(delivered)
      BY <3>1
    <3> QED
      BY <3>1, <3>2, <3>3 DEF Numbered
  <2> QED
    BY <2>1, <2>3, <2>4 DEF Queued
<1>5. Written
  <2>1. DOMAIN conn = {} /\ sender.pc = "top" /\ sender.piece = 1
    BY InitIs
  <2>2. Holding
    <3>1. InHand = 0
      BY <2>1 DEF InHand
    <3> QED
      BY <2>1, <3>1 DEF Holding
  <2> QED
    BY <2>1, <2>2 DEF Written, AllFramed, AllTaken, InSequence, OpenEndsWell
<1>6. Ordered
  BY InitIs DEF Ordered, Carried, Rising, GotPassed, DeliveredPassed, DeliveredOnce
<1>7. NoGaps /\ InStep /\ Reading
  BY InitIs DEF NoGaps, InStep, Midway, Reading
<1> QED
  BY <1>1, <1>2, <1>3, <1>4, <1>5, <1>6, <1>7 DEF Linked

LEMMA LinkedStep == Linked /\ [Next]_vars => Linked'
<1> SUFFICES ASSUME Linked, [Next]_vars PROVE Linked'
  OBVIOUS
<1>1. TypeOK /\ Shape /\ Sockets /\ Queued /\ Written /\ Ordered /\ NoGaps /\ InStep /\ Reading
  BY DEF Linked
<1>2. Shape'
  BY <1>1, ShapeStep
<1>3. Sockets'
  BY <1>1, SocketsStep
<1>4. Queued'
  BY <1>1, QueuedStep
<1>5. Written'
  BY <1>1, WrittenStep
<1>6. Ordered'
  BY <1>1, OrderedStep
<1>7. NoGaps' /\ InStep' /\ Reading'
  BY <1>1, ReadingStep, InStepStep
<1>8. TypeOK'
  BY <1>1, <1>4, <1>6, TypeStep
<1> QED
  BY <1>2, <1>3, <1>4, <1>5, <1>6, <1>7, <1>8 DEF Linked

LEMMA LinkedAlways == Spec => []Linked
BY LinkedInit, LinkedStep, PTL DEF Spec

(* The queue, the counters and the threads keep their types: the queue is never longer
   than send_queue_size, and no counter exceeds the number of messages numbered. *)
THEOREM SenderTypes == Spec => []TypeOK
<1>1. Linked => TypeOK
  BY DEF Linked
<1> QED
  BY <1>1, LinkedAlways, PTL

(* sent_count_, failed_count_ and drop_count_ account for every message push() has
   taken, and what waits is the newest of them: an overflow of ThreadSafeQueue costs the
   oldest messages only. *)
THEOREM MessagesAccounted == Spec => []Accounted
<1>1. Linked => Accounted
  BY QueuedIsAccounted DEF Linked
<1> QED
  BY <1>1, LinkedAlways, PTL

(* What sendRaw() writes is framed on every connection and appears once, in the order
   of the queue, although either thread may close the connection between two calls of
   send(). *)
THEOREM WritesAreFramed == Spec => []OutgoingFramed
<1>1. Linked => OutgoingFramed
  BY WrittenIsFramed DEF Linked
<1> QED
  BY <1>1, LinkedAlways, PTL

(* When recvLoop() waits for more on a connection that lives, every configuration sent on
   it has been handed to the pipeline, but the ones of which readAll() took a piece for a
   payload begun on an earlier connection.  The frames may be of any length: a bad
   header, a payload cut short and a descriptor that was given out again cost nothing on
   a connection that lives on. *)
THEOREM ConfigurationsNotLost == Spec => []IncomingNotLost
<1>1. Linked => IncomingNotLost
  BY NothingLost DEF Linked
<1> QED
  BY <1>1, LinkedAlways, PTL

=============================================================================
