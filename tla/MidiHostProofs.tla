--------------------------- MODULE MidiHostProofs ---------------------------
(***************************************************************************)
(* What MidiHost guarantees for every number of producers, plugs, packets  *)
(* and faults, and every queue and batch size.                             *)
(*                                                                         *)
(* The client task closes the device in three steps: the gate (no new      *)
(* packet is accepted and nobody is inside send_packet), the close step    *)
(* (the queue is emptied, what no transfer uses is freed) and, once all    *)
(* has drained, the release of the handle.  The invariant says what each   *)
(* step leaves behind: from the close step on no producer holds a packet   *)
(* it may still send, and a closed host has an empty queue.  So the        *)
(* connection number changes only when no packet of the old one is left.   *)
(***************************************************************************)
EXTENDS MidiHost, TLAPS

Pcs == {"events", "gate", "close", "report", "open", "pump", "pumpOut"}

BusType ==
  /\ plugged \in BOOLEAN /\ plug \in 0 .. MaxPlugs
  /\ events \in Seq(Nat) /\ \A i \in 1 .. Len(events) : events[i] \in 0 .. plug
HostType ==
  /\ opened \in BOOLEAN /\ claimed \in BOOLEAN /\ closing \in BOOLEAN
  /\ pending \in 0 .. plug
XferType ==
  /\ inXfer \in BOOLEAN /\ outXfer \in BOOLEAN
  /\ inActive \in BOOLEAN /\ outActive \in BOOLEAN
  /\ inFlight \in BOOLEAN /\ outFlight \in BOOLEAN
  /\ audio \in {"off", "on", "stopping"}
ConnType == epoch \in Nat /\ p4Conn \in {-1, 0, 1}
OutType ==
  /\ accepting \in BOOLEAN /\ accepted \in Nat /\ delivered \in Nat
  /\ prod \in [Producers -> [at : {"idle", "check", "send"}, tag : Nat]]

\* Every packet that waits, is in flight or is about to be queued was made
\* for the connection that is open.
Fresh ==
  /\ queue \in Seq({epoch}) /\ payload \in Seq({epoch})
  /\ Len(queue) <= OutCap /\ Len(payload) <= BatchMax
  /\ \A p \in Producers : prod[p].at = "send" => prod[p].tag = epoch

Silent == ~accepting /\ \A p \in Producers : prod[p].at # "send"

\* What the close has reached: the gate keeps producers out, and a closed
\* host has nothing left to send.
Closing ==
  /\ pc = "close" => Silent
  /\ ~opened => Silent /\ queue = <<>>

IInv ==
  /\ BusType /\ HostType /\ XferType /\ ConnType /\ OutType /\ pc \in Pcs
  /\ Fresh /\ Closing /\ HandleOutlivesTransfers /\ LedsConserved

-----------------------------------------------------------------------------
\* midi_out_submit_next moves packets from the queue to the transfer and
\* loses none.
LEMMA SubmitOutMoves ==
  ASSUME Fresh, NEW held \in Seq({epoch}), Len(held) <= BatchMax, NEW f,
         SubmitOut(held, f), UNCHANGED <<epoch, prod>>
  PROVE  /\ Fresh' /\ outActive' \in BOOLEAN /\ outFlight' = outActive'
         /\ Len(queue') + Len(payload') = Len(queue) + Len(held)
         /\ queue = <<>> => queue' = <<>>
<1>1. CASE held = <<>> /\ queue = <<>>
  <2>1. payload' = <<>> /\ UNCHANGED queue /\ outActive' = FALSE /\ outFlight' = FALSE
    BY <1>1 DEF SubmitOut
  <2> QED
    BY <1>1, <2>1, MidiHostAssumption DEF Fresh
<1>2. CASE held # <<>>
  <2>1. payload' = held /\ queue' = queue
    BY <1>2 DEF SubmitOut
  <2>2. outActive' \in BOOLEAN /\ outFlight' = outActive'
    BY <1>2 DEF SubmitOut
  <2> QED
    BY <1>2, <2>1, <2>2 DEF Fresh
<1>3. CASE held = <<>> /\ queue # <<>>
  <2>1. payload' = SubSeq(queue, 1, Batch) /\ queue' = SubSeq(queue, Batch + 1, Len(queue))
    BY <1>3 DEF SubmitOut
  <2>2. outActive' \in BOOLEAN /\ outFlight' = outActive'
    BY <1>3 DEF SubmitOut
  <2>3. queue \in Seq({epoch}) /\ Len(queue) \in Nat /\ Len(queue) <= OutCap
    BY DEF Fresh
  <2>4. Batch \in 0 .. Len(queue) /\ Batch <= BatchMax
    BY <2>3, MidiHostAssumption DEF Batch
  <2>5. payload' \in Seq({epoch}) /\ Len(payload') = Batch
    BY <2>1, <2>3, <2>4
  <2>6. queue' \in Seq({epoch}) /\ Len(queue') = Len(queue) - Batch
    BY <2>1, <2>3, <2>4
  <2> QED
    BY <1>3, <2>2, <2>3, <2>4, <2>5, <2>6, MidiHostAssumption DEF Fresh
<1> QED
  BY <1>1, <1>2, <1>3

\* The host starts with nothing open and nothing to send.
LEMMA InitInv == Init => IInv
<1> SUFFICES ASSUME Init PROVE IInv
  OBVIOUS
<1> USE DEF Init
<1>1. BusType /\ HostType /\ XferType /\ ConnType /\ pc \in Pcs
  <2>1. BusType
    <3>1. plugged \in BOOLEAN
      OBVIOUS
    <3>2. plug \in 0 .. MaxPlugs
      BY MidiHostAssumption
    <3>3. events \in Seq(Nat) /\ Len(events) = 0
      OBVIOUS
    <3> QED
      BY <3>1, <3>2, <3>3 DEF BusType
  <2>2. HostType /\ XferType
    <3>1. pending \in 0 .. plug
      OBVIOUS
    <3>2. /\ opened \in BOOLEAN /\ claimed \in BOOLEAN /\ closing \in BOOLEAN
          /\ XferType
      BY Zenon DEF XferType
    <3> QED
      BY <3>1, <3>2 DEF HostType
  <2>3. ConnType /\ pc \in Pcs
    BY DEF ConnType, Pcs
  <2> QED
    BY <2>1, <2>2, <2>3
<1>2. OutType /\ \A p \in Producers : prod[p].at = "idle"
  BY DEF OutType, Idle
<1>3. Fresh /\ Closing
  BY <1>2, MidiHostAssumption DEF Fresh, Closing, Silent
<1>4. HandleOutlivesTransfers /\ LedsConserved
  BY DEF HandleOutlivesTransfers, LedsConserved
<1> QED
  BY <1>1, <1>2, <1>3, <1>4 DEF IInv

-----------------------------------------------------------------------------
(* Frames.                                                                  *)

\* A step that touches no packet, opens nothing to producers and closes no
\* device keeps what is said of the packets.
LEMMA PacketFrame ==
  ASSUME IInv, UNCHANGED <<epoch, queue, payload, prod, accepted, delivered, outXfer>>,
         accepting' \in BOOLEAN, accepting' => accepting, opened => opened',
         pc' = "close" => Silent'
  PROVE  OutType' /\ Fresh' /\ Closing' /\ LedsConserved'
<1>1. OutType' /\ Fresh'
  BY DEF IInv, OutType, Fresh
<1>2. Closing'
  BY DEF IInv, Closing, Silent
<1>3. LedsConserved'
  BY DEF IInv, LedsConserved
<1> QED
  BY <1>1, <1>2, <1>3

\* A step of the port or a producer leaves the host's side alone.
LEMMA HostFrame ==
  ASSUME IInv, UNCHANGED <<opened, claimed, closing, inXfer, outXfer, inActive, outActive,
                           inFlight, outFlight, audio, epoch, p4Conn>>
  PROVE  XferType' /\ ConnType' /\ HandleOutlivesTransfers'
  BY DEF IInv, XferType, ConnType, HandleOutlivesTransfers

-----------------------------------------------------------------------------
(* The port.                                                                *)

\* A device is put into the port.
LEMMA PlugKeeps ==
  ASSUME IInv, Plug
  PROVE  IInv'
<1>1. /\ plugged' = TRUE /\ plug < MaxPlugs /\ plug' = plug + 1
      /\ events' = Append(events, plug + 1)
      /\ UNCHANGED <<host, xfers, audio, conn, out, pc, failed, nFaults>>
  BY DEF Plug
<1>2. BusType'
  <2>1. plug \in Nat /\ MaxPlugs \in Nat /\ events \in Seq(Nat)
    BY MidiHostAssumption DEF IInv, BusType
  <2>2. /\ events' \in Seq(Nat) /\ Len(events') = Len(events) + 1
        /\ \A i \in 1 .. Len(events) + 1 :
             events'[i] = IF i = Len(events) + 1 THEN plug + 1 ELSE events[i]
    BY <1>1, <2>1
  <2>3. \A i \in 1 .. Len(events') : events'[i] \in 0 .. plug + 1
    BY <2>1, <2>2 DEF IInv, BusType
  <2> QED
    BY <1>1, <2>1, <2>2, <2>3 DEF BusType
<1>3. HostType'
  BY <1>1 DEF IInv, HostType, BusType, host
<1>4. XferType' /\ ConnType' /\ HandleOutlivesTransfers'
  BY <1>1, HostFrame DEF host, xfers, conn
<1>5. OutType' /\ Fresh' /\ Closing' /\ LedsConserved'
  BY <1>1, PacketFrame DEF host, xfers, conn, out, IInv, OutType, Closing, Silent
<1>6. pc' \in Pcs
  BY <1>1 DEF IInv
<1> QED
  BY <1>2, <1>3, <1>4, <1>5, <1>6 DEF IInv

\* The device goes; a client that has it open is told.
LEMMA UnplugKeeps ==
  ASSUME IInv, Unplug
  PROVE  IInv'
<1>1. /\ plugged' = FALSE
      /\ events' = Append(events, 0) \/ events' = events
      /\ UNCHANGED <<plug, host, xfers, audio, conn, out, pc, failed, nFaults>>
  BY DEF Unplug
<1>2. BusType'
  <2>1. plug \in Nat /\ events \in Seq(Nat)
    BY DEF IInv, BusType
  <2>2. CASE events' = Append(events, 0)
    <3>1. /\ events' \in Seq(Nat) /\ Len(events') = Len(events) + 1
          /\ \A i \in 1 .. Len(events) + 1 :
               events'[i] = IF i = Len(events) + 1 THEN 0 ELSE events[i]
      BY <2>1, <2>2
    <3>2. \A i \in 1 .. Len(events) : events[i] \in 0 .. plug
      BY DEF IInv, BusType
    <3>3. Len(events) \in Nat /\ 0 \in 0 .. plug
      BY <2>1
    <3>4. ASSUME NEW i \in 1 .. Len(events') PROVE events'[i] \in 0 .. plug
      <4>1. i \in 1 .. Len(events) + 1 /\ (i # Len(events) + 1 => i \in 1 .. Len(events))
        BY <3>1, <3>3
      <4> QED
        BY <3>1, <3>2, <3>3, <4>1
    <3> QED
      BY <1>1, <3>1, <3>4 DEF IInv, BusType
  <2>3. CASE events' = events
    BY <1>1, <2>3 DEF IInv, BusType
  <2> QED
    BY <1>1, <2>2, <2>3
<1>3. HostType'
  BY <1>1 DEF IInv, HostType, host
<1>4. XferType' /\ ConnType' /\ HandleOutlivesTransfers'
  BY <1>1, HostFrame DEF host, xfers, conn
<1>5. OutType' /\ Fresh' /\ Closing' /\ LedsConserved'
  BY <1>1, PacketFrame DEF host, xfers, conn, out, IInv, OutType, Closing, Silent
<1>6. pc' \in Pcs
  BY <1>1 DEF IInv
<1> QED
  BY <1>2, <1>3, <1>4, <1>5, <1>6 DEF IInv

-----------------------------------------------------------------------------
(* The callbacks.                                                           *)

\* A new device is noted, or the one in use goes and the gate closes.
LEMMA ClientEventKeeps ==
  ASSUME IInv, ClientEvent
  PROVE  IInv'
<1>1. /\ pc = "events" /\ events # <<>> /\ events' = Tail(events)
      /\ \/ pending' = Head(events) /\ UNCHANGED <<closing, accepting>>
         \/ closing' = TRUE /\ accepting' = FALSE /\ UNCHANGED pending
      /\ UNCHANGED <<plugged, plug, opened, claimed, xfers, audio, conn, queue, prod,
                     accepted, delivered, nPackets, pc, failed, nFaults>>
  BY DEF ClientEvent
<1>2. BusType' /\ Head(events) \in 0 .. plug
  <2>1. events \in Seq(Nat) /\ Len(events) \in Nat \ {0}
    BY <1>1 DEF IInv, BusType
  <2>2. /\ Head(events) = events[1] /\ events' \in Seq(Nat)
        /\ Len(events') = Len(events) - 1
        /\ \A i \in 1 .. Len(events) - 1 : events'[i] = events[i + 1]
    BY <1>1, <2>1
  <2> QED
    BY <1>1, <2>1, <2>2 DEF IInv, BusType
<1>3. HostType'
  BY <1>1, <1>2 DEF IInv, HostType
<1>4. XferType' /\ ConnType' /\ HandleOutlivesTransfers'
  BY <1>1 DEF xfers, conn, IInv, XferType, ConnType, HandleOutlivesTransfers
<1>5. OutType' /\ Fresh' /\ Closing' /\ LedsConserved'
  <2>1. accepting' \in BOOLEAN /\ (accepting' => accepting)
    <3>1. CASE UNCHANGED accepting
      BY <3>1 DEF IInv, OutType
    <3>2. CASE accepting' = FALSE
      BY <3>2
    <3> QED
      BY <1>1, <3>1, <3>2
  <2> QED
    BY <1>1, <2>1, PacketFrame DEF xfers, conn
<1>6. pc' \in Pcs
  BY <1>1 DEF IInv
<1> QED
  BY <1>2, <1>3, <1>4, <1>5, <1>6 DEF IInv

\* MIDI IN: the transfer is freed, resubmitted, or left for the pump.
LEMMA InCallbackKeeps ==
  ASSUME IInv, InCallback
  PROVE  IInv'
<1>1. /\ pc = "events" /\ inFlight
      /\ \/ inXfer' = FALSE /\ inActive' = FALSE /\ inFlight' = FALSE
         \/ /\ inActive' = (opened /\ claimed) /\ inFlight' = (opened /\ claimed)
            /\ UNCHANGED inXfer
         \/ inActive' = FALSE /\ inFlight' = FALSE /\ UNCHANGED inXfer
      /\ UNCHANGED <<bus, host, outXfer, outActive, outFlight, payload, audio, conn, out,
                     pc, failed>>
  BY DEF InCallback
<1>2. BusType' /\ HostType' /\ ConnType'
  BY <1>1 DEF bus, host, conn, IInv, BusType, HostType, ConnType
<1>3. XferType' /\ HandleOutlivesTransfers'
  <2>1. /\ inXfer' \in BOOLEAN /\ inActive' \in BOOLEAN
        /\ inFlight' = inActive' /\ (inFlight' => inXfer') /\ (inXfer' => opened)
    <3>1. inXfer /\ opened /\ inXfer \in BOOLEAN
      BY <1>1 DEF IInv, XferType, HandleOutlivesTransfers
    <3>2. CASE inXfer' = FALSE /\ inActive' = FALSE /\ inFlight' = FALSE
      BY <3>2
    <3>3. CASE /\ inActive' = (opened /\ claimed) /\ inFlight' = (opened /\ claimed)
               /\ UNCHANGED inXfer
      BY <3>1, <3>3
    <3>4. CASE inActive' = FALSE /\ inFlight' = FALSE /\ UNCHANGED inXfer
      BY <3>1, <3>4
    <3> QED
      BY <1>1, <3>2, <3>3, <3>4
  <2> QED
    BY <1>1, <2>1 DEF host, IInv, XferType, HandleOutlivesTransfers
<1>4. OutType' /\ Fresh' /\ Closing' /\ LedsConserved'
  BY <1>1, PacketFrame DEF host, conn, out, IInv, OutType
<1>5. pc' \in Pcs
  BY <1>1 DEF IInv
<1> QED
  BY <1>2, <1>3, <1>4, <1>5 DEF IInv

\* Whatever was to be submitted, no packet is lost on the way.
LEMMA SubmitKeeps ==
  ASSUME IInv, NEW held \in Seq({epoch}), Len(held) <= BatchMax, NEW f, SubmitOut(held, f),
         opened, outXfer, pc' \in Pcs, pc' # "close",
         UNCHANGED <<bus, host, inXfer, inActive, inFlight, outXfer, audio, conn, accepting,
                     prod, accepted>>,
         delivered' \in Nat, delivered' + Len(held) = delivered + Len(payload)
  PROVE  IInv'
<1>1. BusType' /\ HostType' /\ ConnType'
  BY DEF bus, host, conn, IInv, BusType, HostType, ConnType
<1>2. /\ Fresh' /\ outActive' \in BOOLEAN /\ outFlight' = outActive'
      /\ Len(queue') + Len(payload') = Len(queue) + Len(held)
  BY SubmitOutMoves DEF IInv, conn
<1>3. XferType' /\ HandleOutlivesTransfers'
  BY <1>2 DEF host, IInv, XferType, HandleOutlivesTransfers
<1>4. OutType' /\ Closing'
  BY DEF host, IInv, OutType, Closing
<1>5. LedsConserved'
  <2>1. SUFFICES ASSUME accepting' /\ outXfer'
                 PROVE  accepted' = delivered' + Len(queue') + Len(payload')
    BY DEF LedsConserved
  <2>2. accepted' = delivered + Len(queue) + Len(payload)
    BY <2>1 DEF IInv, LedsConserved
  <2>3. /\ Len(queue) \in Nat /\ Len(payload) \in Nat /\ delivered \in Nat
        /\ Len(queue') \in Nat /\ Len(payload') \in Nat /\ Len(held) \in Nat
    BY <1>2 DEF IInv, Fresh, OutType
  <2>4. PICK d \in Nat, dd \in Nat, q \in Nat, qq \in Nat, p \in Nat, pp \in Nat, h \in Nat :
          /\ d = delivered /\ dd = delivered' /\ q = Len(queue) /\ qq = Len(queue')
          /\ p = Len(payload) /\ pp = Len(payload') /\ h = Len(held)
    BY <2>3
  <2>5. dd + h = d + p /\ qq + pp = q + h
    BY <1>2, <2>4
  <2>6. d + q + p = dd + qq + pp
    BY <2>5
  <2> QED
    BY <2>2, <2>4, <2>6
<1> QED
  BY <1>1, <1>2, <1>3, <1>4, <1>5 DEF IInv

\* MIDI OUT: the transfer is freed with what it carries, or goes on with the
\* next packets, or with the same ones after an error.
LEMMA OutCallbackKeeps ==
  ASSUME IInv, OutCallback
  PROVE  IInv'
<1>1. /\ pc = "events" /\ outFlight
      /\ UNCHANGED <<bus, host, inXfer, inActive, inFlight, audio, conn, accepting, prod,
                     accepted, nPackets, pc, failed>>
  BY DEF OutCallback
<1>2. BusType' /\ HostType' /\ ConnType' /\ pc' \in Pcs
  BY <1>1 DEF bus, host, conn, IInv, BusType, HostType, ConnType
<1>3. /\ queue \in Seq({epoch}) /\ payload \in Seq({epoch}) /\ Len(payload) <= BatchMax
      /\ Len(payload) \in Nat /\ delivered \in Nat /\ UNCHANGED <<epoch, prod>>
  BY <1>1 DEF IInv, Fresh, OutType, conn
<1>4. CASE /\ outXfer' = FALSE /\ outActive' = FALSE /\ outFlight' = FALSE
           /\ payload' = <<>> /\ UNCHANGED queue
           /\ delivered' = IF plugged THEN delivered + Len(payload) ELSE delivered
  <2>1. XferType' /\ HandleOutlivesTransfers'
    BY <1>1, <1>4 DEF host, IInv, XferType, HandleOutlivesTransfers
  <2>2. OutType'
    BY <1>1, <1>3, <1>4 DEF IInv, OutType
  <2>3. Fresh' /\ Closing' /\ LedsConserved'
    BY <1>1, <1>3, <1>4, MidiHostAssumption DEF host, IInv, Fresh, Closing, Silent, LedsConserved
  <2> QED
    BY <1>2, <2>1, <2>2, <2>3 DEF IInv
<1>5. CASE /\ CanSubmitOut(FALSE) /\ delivered' = delivered + Len(payload)
           /\ SubmitOut(<<>>, nFaults) /\ UNCHANGED outXfer
  <2>0. <<>> \in Seq({epoch})
    OBVIOUS
  <2>1. PICK held : held \in Seq({epoch}) /\ held = <<>>
    BY <2>0
  <2>2. Len(held) = 0 /\ Len(held) <= BatchMax
    BY <2>1, MidiHostAssumption
  <2>3. delivered' \in Nat /\ delivered' + Len(held) = delivered + Len(payload)
    BY <1>3, <1>5, <2>2
  <2> QED
    BY <1>1, <1>2, <1>5, <2>1, <2>2, <2>3, SubmitKeeps DEF CanSubmitOut
<1>6. CASE /\ CanSubmitOut(FALSE) /\ SubmitOut(AfterError, nFaults + 1)
           /\ UNCHANGED <<outXfer, delivered>>
  BY <1>1, <1>2, <1>3, <1>6, SubmitKeeps DEF CanSubmitOut, AfterError
<1> QED
  BY <1>4, <1>5, <1>6 DEF OutCallback

\* The audio stream has stopped.
LEMMA AudioDrainsKeeps ==
  ASSUME IInv, AudioDrains
  PROVE  IInv'
<1>1. audio' = "off" /\ UNCHANGED <<bus, host, xfers, conn, out, pc, failed, nFaults>>
  BY DEF AudioDrains
<1>2. BusType' /\ HostType' /\ ConnType' /\ pc' \in Pcs
  BY <1>1 DEF bus, host, conn, IInv, BusType, HostType, ConnType
<1>3. XferType' /\ HandleOutlivesTransfers'
  BY <1>1 DEF host, xfers, IInv, XferType, HandleOutlivesTransfers
<1>4. OutType' /\ Fresh' /\ Closing' /\ LedsConserved'
  BY <1>1, PacketFrame DEF host, conn, out, xfers, IInv, OutType, Closing, Silent
<1> QED
  BY <1>2, <1>3, <1>4 DEF IInv

\* A step of the client loop that only goes on.
LEMMA LoopKeeps ==
  ASSUME IInv, pc' \in Pcs, pc' # "close",
         UNCHANGED <<bus, opened, claimed, closing, xfers, audio, epoch, out>>,
         pending' \in 0 .. plug, p4Conn' \in {-1, 0, 1}
  PROVE  IInv'
<1>1. BusType' /\ HostType' /\ ConnType'
  BY DEF bus, IInv, BusType, HostType, ConnType
<1>2. XferType' /\ HandleOutlivesTransfers'
  BY DEF xfers, IInv, XferType, HandleOutlivesTransfers
<1>3. OutType' /\ Fresh' /\ Closing' /\ LedsConserved'
  BY PacketFrame DEF out, xfers, IInv, OutType
<1> QED
  BY <1>1, <1>2, <1>3 DEF IInv

\* The client task goes on to its loop.
LEMMA EventsDoneKeeps ==
  ASSUME IInv, EventsDone
  PROVE  IInv'
<1>1. pc' \in Pcs /\ pc' # "close"
  BY DEF EventsDone, Pcs
<1>2. pending' \in 0 .. plug /\ p4Conn' \in {-1, 0, 1}
  BY DEF EventsDone, IInv, HostType, ConnType, host, conn
<1> QED
  BY <1>1, <1>2, LoopKeeps DEF EventsDone, host, conn

\* The connection state is replayed, or the UART refuses it.
LEMMA RefreshKeeps ==
  ASSUME IInv, Refresh
  PROVE  IInv'
<1>1. pc' = "open" /\ UNCHANGED <<bus, host, xfers, audio, epoch, out>>
  BY DEF Refresh
<1>2. pending' \in 0 .. plug
  BY <1>1 DEF IInv, HostType, host
<1>3. p4Conn' \in {-1, 0, 1}
  BY DEF Refresh, Report, IInv, ConnType
<1> QED
  BY <1>1, <1>2, <1>3, LoopKeeps DEF host, Pcs

\* No device is waiting to be opened.
LEMMA OpenNothingKeeps ==
  ASSUME IInv, OpenNothing
  PROVE  IInv'
<1>1. pc' \in {"pump", "events"} /\ pending' = 0
      /\ UNCHANGED <<bus, opened, claimed, closing, xfers, audio, conn, out>>
  BY DEF OpenNothing
<1>2. pending' \in 0 .. plug /\ p4Conn' \in {-1, 0, 1}
  BY <1>1 DEF IInv, BusType, ConnType, conn
<1> QED
  BY <1>1, <1>2, LoopKeeps DEF conn, Pcs

-----------------------------------------------------------------------------
(* Teardown and opening.                                                    *)

\* The gate closes; only when nobody is inside send_packet does the close go
\* on.
LEMMA CloseGateKeeps ==
  ASSUME IInv, CloseGate
  PROVE  IInv'
<1>1. /\ closing' = TRUE /\ accepting' = FALSE
      /\ pc' = IF StillInside = {} THEN "close" ELSE "events"
      /\ UNCHANGED <<bus, opened, claimed, pending, xfers, audio, conn, queue, prod,
                     accepted, delivered, nPackets, failed, nFaults>>
  BY DEF CloseGate
<1>2. pc' = "close" => Silent'
  BY <1>1 DEF StillInside, InCalls, Silent
<1>3. BusType' /\ HostType' /\ ConnType' /\ pc' \in Pcs
  BY <1>1 DEF bus, conn, IInv, BusType, HostType, ConnType, Pcs
<1>4. XferType' /\ HandleOutlivesTransfers'
  BY <1>1 DEF xfers, IInv, XferType, HandleOutlivesTransfers
<1>5. OutType' /\ Fresh' /\ Closing' /\ LedsConserved'
  <2>1. accepting' \in BOOLEAN /\ ~accepting'
    BY <1>1
  <2> QED
    BY <1>1, <1>2, <2>1, PacketFrame DEF xfers, conn
<1> QED
  BY <1>3, <1>4, <1>5 DEF IInv

\* What no transfer uses is freed, and the handle is closed last.
LEMMA CloseStepKeeps ==
  ASSUME IInv, CloseStep
  PROVE  IInv'
<1>1. /\ pc = "close" /\ pc' = "events" /\ queue' = <<>>
      /\ inXfer' = (inXfer /\ inActive) /\ outXfer' = (outXfer /\ outActive)
      /\ payload' = IF outXfer' THEN payload ELSE <<>>
      /\ UNCHANGED <<bus, pending, inActive, outActive, inFlight, outFlight, accepting,
                     prod, accepted, delivered, nPackets, failed>>
  BY DEF CloseStep, MayFree
<1>2. /\ inXfer' \in BOOLEAN /\ outXfer' \in BOOLEAN
      /\ (inXfer' <=> inXfer /\ inActive) /\ (outXfer' <=> outXfer /\ outActive)
  BY <1>1
<1>3. /\ epoch' = epoch /\ p4Conn' \in {-1, 0, 1}
      /\ opened' \in BOOLEAN /\ claimed' \in BOOLEAN /\ closing' \in BOOLEAN
      /\ audio' \in {"off", "on", "stopping"}
      /\ \/ opened' = opened /\ (claimed' => claimed) /\ (audio' # "off" => audio # "off")
         \/ ~inXfer' /\ ~outXfer' /\ ~claimed' /\ audio' = "off" /\ opened' = FALSE
  <2>0. /\ opened \in BOOLEAN /\ claimed \in BOOLEAN /\ closing \in BOOLEAN
        /\ audio \in {"off", "on", "stopping"} /\ p4Conn \in {-1, 0, 1}
    BY DEF IInv, HostType, XferType, ConnType
  <2>1. CASE /\ audio' = IF audio = "on" THEN "stopping" ELSE audio
             /\ audio # "off" \/ audio = "off"
             /\ UNCHANGED <<opened, claimed, closing, conn, nFaults>>
    BY <2>0, <2>1 DEF conn
  <2>2. CASE claimed' \in {claimed, FALSE} /\ UNCHANGED <<opened, closing, audio, conn>>
    <3>1. claimed' \in BOOLEAN /\ (claimed' => claimed)
      <4>1. CASE claimed' = claimed
        BY <2>0, <4>1
      <4>2. CASE claimed' = FALSE
        BY <4>2
      <4> QED
        BY <2>2, <4>1, <4>2
    <3> QED
      BY <2>0, <2>2, <3>1 DEF conn
  <2>3. CASE /\ ~(inXfer' \/ outXfer' \/ inActive \/ outActive \/ audio # "off")
             /\ claimed' = FALSE /\ opened' = FALSE /\ closing' = FALSE
             /\ IF stateConn \/ ~stateValid \/ stateDirty
                THEN Report(FALSE)
                ELSE UNCHANGED <<stateDirty, p4Conn, nFaults>>
             /\ UNCHANGED <<audio, epoch>>
    <3>1. p4Conn' \in {-1, 0, 1}
      BY <2>0, <2>3 DEF Report
    <3> QED
      BY <2>0, <2>3, <3>1
  <2> QED
    BY <2>1, <2>2, <2>3 DEF CloseStep
<1>4. BusType' /\ HostType' /\ ConnType' /\ pc' \in Pcs
  BY <1>1, <1>3 DEF bus, IInv, BusType, HostType, ConnType, Pcs
<1>5. XferType'
  BY <1>1, <1>2, <1>3 DEF IInv, XferType
<1>6. HandleOutlivesTransfers'
  BY <1>1, <1>2, <1>3 DEF IInv, HandleOutlivesTransfers
<1>7. Silent /\ Silent'
  BY <1>1 DEF IInv, Closing, Silent
<1>8. OutType' /\ Closing' /\ LedsConserved'
  BY <1>1, <1>7 DEF IInv, OutType, Closing, LedsConserved, Silent
<1>9. Fresh'
  <2>1. queue' \in Seq({epoch}) /\ Len(queue') = 0
    BY <1>1
  <2>2. payload' \in Seq({epoch}) /\ Len(payload') <= BatchMax
    <3>1. CASE payload' = <<>>
      BY <3>1, MidiHostAssumption
    <3>2. CASE payload' = payload
      BY <3>2 DEF IInv, Fresh
    <3> QED
      BY <1>1, <3>1, <3>2
  <2> QED
    BY <1>1, <1>3, <2>1, <2>2, MidiHostAssumption DEF IInv, Fresh
<1> QED
  BY <1>4, <1>5, <1>6, <1>8, <1>9 DEF IInv

\* A device is opened: a new connection, with nothing left of the old one.
LEMMA OpenDeviceKeeps ==
  ASSUME IInv, OpenDevice
  PROVE  IInv'
<1>1. /\ ~opened /\ opened' = TRUE /\ claimed' = TRUE /\ closing' = FALSE /\ pending' = 0
      /\ inXfer' = TRUE /\ inActive' = TRUE /\ inFlight' = TRUE
      /\ outXfer' = TRUE /\ outActive' = FALSE /\ outFlight' = FALSE /\ payload' = <<>>
      /\ audio' \in {"off", "on"} /\ epoch' = epoch + 1
      /\ accepting' = TRUE /\ accepted' = 0 /\ delivered' = 0
      /\ Report(TRUE) /\ pc' = "pump" /\ UNCHANGED <<bus, queue, prod>>
  BY DEF OpenDevice
<1>2. queue = <<>> /\ \A p \in Producers : prod[p].at # "send"
  BY <1>1 DEF IInv, Closing, Silent
<1>3. BusType' /\ HostType' /\ pc' \in Pcs
  <2>1. BusType' /\ 0 \in 0 .. plug
    BY <1>1 DEF bus, IInv, BusType
  <2>2. opened' \in BOOLEAN /\ claimed' \in BOOLEAN /\ closing' \in BOOLEAN
    BY <1>1
  <2> QED
    BY <1>1, <2>1, <2>2 DEF HostType, bus, Pcs
<1>4. ConnType'
  BY <1>1 DEF IInv, ConnType, Report
<1>5. XferType' /\ HandleOutlivesTransfers'
  BY <1>1 DEF XferType, HandleOutlivesTransfers
<1>6. OutType'
  <2>1. accepting' \in BOOLEAN
    BY <1>1
  <2> QED
    BY <1>1, <2>1 DEF IInv, OutType
<1>7. Fresh'
  BY <1>1, <1>2, MidiHostAssumption DEF Fresh
<1>8. Closing'
  BY <1>1 DEF Closing
<1>9. LedsConserved'
  BY <1>1, <1>2 DEF LedsConserved
<1> QED
  BY <1>3, <1>4, <1>5, <1>6, <1>7, <1>8, <1>9 DEF IInv

\* An open that fails leaves what it had to the teardown.
LEMMA OpenFailsKeeps ==
  ASSUME IInv, OpenFails
  PROVE  IInv'
<1>1. /\ ~opened /\ pending' = 0 /\ accepting' = FALSE /\ closing' = TRUE
      /\ outActive' = FALSE /\ pc' = "gate"
      /\ UNCHANGED <<bus, conn, queue, prod, accepted, delivered, nPackets>>
      /\ UNCHANGED <<inActive, inFlight, outFlight, payload>>
  BY DEF OpenFails
<1>2. PICK got \in {"nothing", "handle", "interface", "out", "in"} :
       /\ opened' = (got # "nothing")
       /\ claimed' = (got \in {"interface", "out", "in"})
       /\ outXfer' = (got \in {"out", "in"})
       /\ inXfer' = (got = "in")
       /\ audio' \in (IF got = "nothing" THEN {"off"} ELSE {"off", "on"})
  BY DEF OpenFails
<1>3. /\ opened' \in BOOLEAN /\ claimed' \in BOOLEAN /\ outXfer' \in BOOLEAN /\ inXfer' \in BOOLEAN
      /\ inXfer' \/ outXfer' \/ claimed' \/ audio' # "off" => opened'
      /\ audio' \in {"off", "on", "stopping"}
  <2>1. /\ opened' \in BOOLEAN /\ claimed' \in BOOLEAN /\ outXfer' \in BOOLEAN
        /\ inXfer' \in BOOLEAN
    BY <1>2
  <2>2. /\ opened' <=> got # "nothing"
        /\ claimed' <=> got \in {"interface", "out", "in"}
        /\ outXfer' <=> got \in {"out", "in"}
        /\ inXfer' <=> got = "in"
    BY <1>2
  <2>3. audio' \in {"off", "on"} /\ (got = "nothing" => audio' = "off")
    BY <1>2
  <2> QED
    BY <2>1, <2>2, <2>3
<1>4. inFlight = FALSE /\ outFlight = FALSE /\ inActive = FALSE
  BY <1>1 DEF IInv, XferType, HandleOutlivesTransfers
<1>5. Silent' /\ queue = <<>>
  BY <1>1 DEF IInv, Closing, Silent
<1>6. BusType' /\ HostType' /\ pc' \in Pcs
  <2>1. BusType' /\ 0 \in 0 .. plug /\ closing' \in BOOLEAN
    BY <1>1 DEF bus, IInv, BusType
  <2> QED
    BY <1>1, <1>3, <2>1 DEF HostType, bus, Pcs
<1>7. ConnType' /\ XferType' /\ HandleOutlivesTransfers'
  BY <1>1, <1>3, <1>4 DEF IInv, ConnType, XferType, HandleOutlivesTransfers, conn
<1>8. OutType' /\ Fresh'
  BY <1>1 DEF IInv, OutType, Fresh, conn
<1>9. Closing' /\ LedsConserved'
  BY <1>1, <1>5 DEF Closing, LedsConserved
<1> QED
  BY <1>6, <1>7, <1>8, <1>9 DEF IInv

-----------------------------------------------------------------------------
(* The pumps and the producers.                                             *)

\* MIDI IN is armed again.
LEMMA PumpInKeeps ==
  ASSUME IInv, PumpIn
  PROVE  IInv'
<1>1. /\ pc' = "pumpOut"
      /\ \/ inXfer /\ opened /\ inActive' = TRUE /\ inFlight' = TRUE
         \/ UNCHANGED <<inActive, inFlight>>
      /\ UNCHANGED <<bus, host, inXfer, outXfer, outActive, outFlight, payload, audio, conn,
                     out, failed>>
  BY DEF PumpIn, Rearms
<1>2. BusType' /\ HostType' /\ ConnType' /\ pc' \in Pcs
  BY <1>1 DEF bus, host, conn, IInv, BusType, HostType, ConnType, Pcs
<1>3. inActive' \in BOOLEAN /\ inFlight' = inActive' /\ (inFlight' => inXfer)
  <2>1. CASE inXfer /\ opened /\ inActive' = TRUE /\ inFlight' = TRUE
    BY <2>1
  <2>2. CASE UNCHANGED <<inActive, inFlight>>
    BY <2>2 DEF IInv, XferType, HandleOutlivesTransfers
  <2> QED
    BY <1>1, <2>1, <2>2
<1>4. XferType' /\ HandleOutlivesTransfers'
  BY <1>1, <1>3 DEF host, IInv, XferType, HandleOutlivesTransfers
<1>5. OutType' /\ Fresh' /\ Closing' /\ LedsConserved'
  BY <1>1, PacketFrame DEF host, conn, out, IInv, OutType
<1> QED
  BY <1>2, <1>4, <1>5 DEF IInv

\* MIDI OUT is submitted, or submitted again.
LEMMA PumpOutKeeps ==
  ASSUME IInv, PumpOut
  PROVE  IInv'
<1>1. /\ pc' = "events" /\ pc' \in Pcs
      /\ UNCHANGED <<bus, host, inXfer, inActive, inFlight, outXfer, audio, conn, accepting,
                     prod, accepted, delivered, nPackets, failed>>
  BY DEF PumpOut, Pcs
<1>2. CASE CanSubmitOut(outActive) /\ SubmitOut(payload, nFaults)
  <2>1. /\ payload \in Seq({epoch}) /\ Len(payload) <= BatchMax /\ delivered \in Nat
    BY DEF IInv, Fresh, OutType
  <2>2. opened /\ outXfer
    BY <1>2 DEF CanSubmitOut
  <2> QED
    BY <1>1, <1>2, <2>1, <2>2, SubmitKeeps
<1>3. CASE UNCHANGED <<payload, queue, outActive, outFlight, nFaults>>
  <2>1. /\ pending' \in 0 .. plug /\ p4Conn' \in {-1, 0, 1}
    BY <1>1 DEF IInv, HostType, ConnType, host, conn
  <2> QED
    BY <1>1, <1>3, <2>1, LoopKeeps DEF host, conn, out, xfers
<1> QED
  BY <1>2, <1>3 DEF PumpOut

\* A producer enters, sees whether packets are accepted, queues its packet.
LEMMA ProducerKeeps ==
  ASSUME IInv, NEW p \in Producers, ProducerEnter(p) \/ ProducerCheck(p) \/ ProducerSend(p)
  PROVE  IInv'
<1>1. UNCHANGED <<bus, host, xfers, audio, conn, accepting, delivered, pc, failed, nFaults>>
  BY DEF ProducerEnter, ProducerCheck, ProducerSend
<1>2. BusType' /\ HostType' /\ ConnType' /\ pc' \in Pcs /\ XferType' /\ HandleOutlivesTransfers'
  BY <1>1, HostFrame DEF bus, host, conn, xfers, IInv, BusType, HostType, ConnType
<1>3. /\ prod \in [Producers -> [at : {"idle", "check", "send"}, tag : Nat]]
      /\ epoch \in Nat /\ accepted \in Nat
  BY DEF IInv, OutType, ConnType
<1>4. /\ prod' \in [Producers -> [at : {"idle", "check", "send"}, tag : Nat]]
      /\ \A q \in Producers : prod'[q].at = "send" =>
           \/ prod[q].at = "send" /\ prod'[q] = prod[q]
           \/ accepting /\ prod'[q].tag = epoch
  <2>1. CASE ProducerEnter(p)
    BY <1>3, <2>1 DEF ProducerEnter
  <2>2. CASE ProducerCheck(p)
    BY <1>3, <2>2 DEF ProducerCheck, Idle
  <2>3. CASE ProducerSend(p)
    BY <1>3, <2>3 DEF ProducerSend, Idle
  <2> QED
    BY <2>1, <2>2, <2>3
<1>5. \/ UNCHANGED <<queue, accepted>>
      \/ /\ prod[p].at = "send" /\ Len(queue) < OutCap
         /\ queue' = Append(queue, prod[p].tag) /\ accepted' = accepted + 1
  BY DEF ProducerEnter, ProducerCheck, ProducerSend
<1>6. Silent => Silent'
  BY <1>1, <1>4 DEF Silent
<1>7. CASE UNCHANGED <<queue, accepted>>
  <2>1. OutType' /\ Fresh'
    BY <1>1, <1>4, <1>7 DEF IInv, OutType, Fresh, conn, xfers
  <2>2. Closing' /\ LedsConserved'
    BY <1>1, <1>6, <1>7 DEF IInv, Closing, LedsConserved, host, xfers
  <2> QED
    BY <1>2, <2>1, <2>2 DEF IInv
<1>8. CASE /\ prod[p].at = "send" /\ Len(queue) < OutCap
           /\ queue' = Append(queue, prod[p].tag) /\ accepted' = accepted + 1
  <2>1. queue \in Seq({epoch}) /\ prod[p].tag = epoch
    BY <1>8 DEF IInv, Fresh
  <2>2. queue' \in Seq({epoch}) /\ Len(queue') = Len(queue) + 1
    BY <1>8, <2>1
  <2>3. Len(queue') <= OutCap
    BY <1>8, <2>1, <2>2, MidiHostAssumption
  <2>4. OutType' /\ Fresh'
    BY <1>1, <1>3, <1>4, <1>8, <2>2, <2>3 DEF IInv, OutType, Fresh, conn, xfers
  <2>5. opened /\ pc # "close"
    BY <1>8 DEF IInv, Closing, Silent
  <2>6. Closing'
    BY <1>1, <2>5 DEF Closing, host
  <2>7. LedsConserved'
    <3>1. SUFFICES ASSUME accepting' /\ outXfer'
                   PROVE  accepted' = delivered' + Len(queue') + Len(payload')
      BY DEF LedsConserved
    <3>2. accepted = delivered + Len(queue) + Len(payload)
      BY <1>1, <3>1 DEF IInv, LedsConserved, xfers
    <3>3. PICK a \in Nat, d \in Nat, q \in Nat, l \in Nat :
            a = accepted /\ d = delivered /\ q = Len(queue) /\ l = Len(payload)
      <4>1. accepted \in Nat /\ delivered \in Nat
        BY DEF IInv, OutType
      <4>2. Len(queue) \in Nat /\ Len(payload) \in Nat
        BY DEF IInv, Fresh
      <4> QED
        BY <4>1, <4>2
    <3>4. a + 1 = d + (q + 1) + l
      BY <3>2, <3>3
    <3> QED
      BY <1>1, <1>8, <2>2, <3>3, <3>4 DEF xfers
  <2> QED
    BY <1>2, <2>4, <2>6, <2>7 DEF IInv
<1> QED
  BY <1>5, <1>7, <1>8

-----------------------------------------------------------------------------
(* The theorems.                                                            *)

\* Every step of the port, the client task and the producers keeps it.
LEMMA StepInv == IInv /\ [Next]_vars => IInv'
<1> SUFFICES ASSUME IInv, [Next]_vars PROVE IInv'
  OBVIOUS
<1>1. CASE Plug \/ Unplug
  BY <1>1, PlugKeeps, UnplugKeeps
<1>2. CASE ClientEvent \/ InCallback \/ OutCallback \/ AudioDrains
  BY <1>2, ClientEventKeeps, InCallbackKeeps, OutCallbackKeeps, AudioDrainsKeeps
<1>3. CASE EventsDone \/ CloseGate \/ CloseStep \/ Refresh
  BY <1>3, EventsDoneKeeps, CloseGateKeeps, CloseStepKeeps, RefreshKeeps
<1>4. CASE OpenNothing \/ OpenDevice \/ OpenFails \/ PumpIn \/ PumpOut
  BY <1>4, OpenNothingKeeps, OpenDeviceKeeps, OpenFailsKeeps, PumpInKeeps, PumpOutKeeps
<1>5. CASE \E p \in Producers : ProducerEnter(p) \/ ProducerCheck(p) \/ ProducerSend(p)
  BY <1>5, ProducerKeeps
<1>6. CASE UNCHANGED vars
  <2>1. UNCHANGED <<bus, host, xfers, audio, conn, out, pc>>
    BY <1>6 DEF vars
  <2>2. BusType' /\ HostType' /\ ConnType' /\ XferType' /\ HandleOutlivesTransfers' /\ pc' \in Pcs
    BY <2>1, HostFrame DEF bus, host, conn, xfers, IInv, BusType, HostType, ConnType
  <2>3. OutType' /\ Fresh' /\ Closing' /\ LedsConserved'
    BY <2>1, PacketFrame DEF host, conn, out, xfers, IInv, OutType, Closing, Silent
  <2> QED
    BY <2>2, <2>3 DEF IInv
<1> QED
  BY <1>1, <1>2, <1>3, <1>4, <1>5, <1>6 DEF Next, ClientStep

\* The invariant holds throughout, for every number of producers, devices,
\* packets and faults.
THEOREM Invariance == Spec => []IInv
<1>1. Init => IInv
  BY InitInv
<1>2. IInv /\ [Next]_vars => IInv'
  BY StepInv
<1> QED
  BY <1>1, <1>2, PTL DEF Spec

\* The variables keep their types, the MIDI OUT queue its bound, and a
\* payload fits its transfer.
THEOREM TypeCorrect == Spec => []TypeOK
<1>1. IInv => TypeOK
  BY DEF IInv, BusType, HostType, XferType, ConnType, Fresh, Pcs, TypeOK
<1> QED
  BY <1>1, Invariance, PTL

\* No transfer is freed while the library has it, and the handle stays open
\* for as long as anything needs it, whatever fails on the way.
THEOREM HandleSafe == Spec => []HandleOutlivesTransfers
<1>1. IInv => HandleOutlivesTransfers
  BY DEF IInv
<1> QED
  BY <1>1, Invariance, PTL

\* No LED packet of one connection is sent in the next one.
THEOREM NoStaleLeds == Spec => []LedsFresh
<1>1. IInv => LedsFresh
  BY DEF IInv, Fresh, LedsFresh
<1> QED
  BY <1>1, Invariance, PTL

\* While a connection lasts, every LED packet that was queued is delivered,
\* waiting or in the transfer that is retried.
THEOREM NoLedLost == Spec => []LedsConserved
<1>1. IInv => LedsConserved
  BY DEF IInv
<1> QED
  BY <1>1, Invariance, PTL
=============================================================================
