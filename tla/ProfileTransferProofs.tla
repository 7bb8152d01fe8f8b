----------------------- MODULE ProfileTransferProofs -----------------------
(***************************************************************************)
(* What the profile transfer guarantees for every number of controllers,   *)
(* chunks, attempts, queue slots, plugs, faults and installations: the     *)
(* bounds of its queues and counters, and that the S3 never maps a         *)
(* controller through a profile that was sent to an earlier one.           *)
(*                                                                         *)
(* The S3 numbers its connections, and one number is used once between two *)
(* restarts: whatever carries the number of the connection now open (the   *)
(* transfer being received, an activation past its check, the profile in   *)
(* use) stems from it.  That holds although the S3 looks at the connection *)
(* before it installs and the controller may go in between.                *)
(***************************************************************************)
EXTENDS ProfileTransfer, TLAPS

Dev == Devices \cup {NoDevice}
Refs == {"none", "begin", "chunk", "end", "activate", "clear"}
UpFrame == [t : {"desc", "disc", "reply"}, dev : Dev, ep : Nat, ack : BOOLEAN, ref : Refs]
DownFrames == [t : {"begin", "chunk", "end", "activate", "clear"}, dev : Dev, ver : Versions, off : Nat]
SndPcs == {"idle", "read", "begin", "await begin", "chunk", "end", "await end", "activate",
           "await activate", "done", "failed"}
RegSts == {"idle", "matched", "unsupported", "transferring", "active", "failed"}

\* Every opening of a controller is of a session of its own.
CableInv ==
  /\ attached \in Dev /\ session \in 0 .. MaxPlugs
  /\ ctx \in [conn : BOOLEAN, dev : Dev, ep : Nat, from : Nat] /\ ctx.ep <= session
  /\ attached # NoDevice /\ ~ctx.conn => ctx.ep < session

S3Type ==
  /\ usbPc \in {"idle", "announce", "retire"}
  /\ rcv \in [st : {"idle", "receiving", "stored", "error"}, dev : Dev, ver : Versions,
              got : 0 .. NChunks, good : BOOLEAN, stored : BOOLEAN, ep : Nat, from : Nat]
  /\ act \in [on : BOOLEAN, dev : Dev, ep : Nat, ver : Versions, from : Nat]
  /\ rt \in [on : BOOLEAN, dev : Dev, ep : Nat, ver : Versions, from : Nat]

\* A record of the connection with the number of the one open now stems from it.
OwnRecord(ep, from) == ep <= ctx.ep /\ (ep # 0 /\ ep = ctx.ep => from = ctx.from)
Own == OwnRecord(rcv.ep, rcv.from) /\ OwnRecord(act.ep, act.from) /\ OwnRecord(rt.ep, rt.from)

UpType == up \in Seq(UpFrame)
DownType ==
  /\ down \in Seq(DownFrames)
  /\ \A i \in 1 .. Len(down) : down[i].t = "chunk" => down[i].off < NChunks

RegType == reg \in [present : BOOLEAN, dev : Dev, ep : Nat, st : RegSts] /\ known \subseteq Devices
DescType ==
  /\ descQ \in Seq([dev : Dev, ep : Nat, stale : BOOLEAN]) /\ Len(descQ) <= DescCap
  /\ descHand \in [pc : {"idle", "wait", "go"}, dev : Dev, ep : Nat]

SndType ==
  /\ sendQ \in Seq(Devices) /\ Len(sendQ) <= SendCap
  /\ snd \in [pc : SndPcs, dev : Dev, ep : Nat, ver : Versions, try : 0 .. Attempts,
              off : 0 .. NChunks]
  /\ snd.pc = "chunk" => snd.off < NChunks
  /\ snd.pc = "await begin" => snd.off = 0
  /\ snd.pc = "read" => snd.dev \in Devices

\* A profile on the card has at most one version for each installation.
InstInv ==
  /\ inst \in [pc : {"idle", "write", "apply", "release", "again"}, dev : Dev, ep : Nat]
  /\ nInstalls \in 0 .. MaxInstalls
  /\ card \in [Devices -> Nat] /\ \A d \in Devices : card[d] <= nInstalls + 1
  /\ inst.pc = "write" => \A d \in Devices : card[d] <= nInstalls

IInv == CableInv /\ S3Type /\ Own /\ UpType /\ DownType /\ RegType /\ DescType /\ SndType /\ InstInv

-----------------------------------------------------------------------------
(* Sequences, and the parts of the invariant that a step leaves alone.      *)

\* Appending one entry keeps the others.
LEMMA AppendEntries ==
  ASSUME NEW S, NEW w \in Seq(S), NEW f \in S
  PROVE  /\ Append(w, f) \in Seq(S) /\ Len(w) \in Nat
         /\ Len(Append(w, f)) = Len(w) + 1 /\ Append(w, f)[Len(w) + 1] = f
         /\ \A i \in 1 .. Len(w) : Append(w, f)[i] = w[i]
OBVIOUS

\* The entries of a sequence without its first.
LEMMA TailEntries ==
  ASSUME NEW S, NEW w \in Seq(S), w # <<>>
  PROVE  /\ Tail(w) \in Seq(S) /\ Len(w) \in Nat \ {0} /\ Len(Tail(w)) = Len(w) - 1
         /\ Head(w) = w[1] /\ w[1] \in S
         /\ \A i \in 1 .. Len(Tail(w)) : i + 1 \in 1 .. Len(w) /\ Tail(w)[i] = w[i + 1]
OBVIOUS

\* Sequences are functions from an initial segment of the numbers.
LEMMA SeqFunction ==
  ASSUME NEW S
  PROVE  /\ \A q \in Seq(S) : q \in [1 .. Len(q) -> S] /\ Len(q) \in Nat /\ DOMAIN q = 1 .. Len(q)
         /\ \A n \in Nat : \A q \in [1 .. n -> S] : q \in Seq(S) /\ Len(q) = n
OBVIOUS

\* The empty sequence is one of every type.
LEMMA EmptySeq ==
  ASSUME NEW S
  PROVE  <<>> \in Seq(S) /\ Len(<<>>) = 0
OBVIOUS

\* The S3's part is a matter of the S3's variables and the cable alone.
LEMMA S3Kept ==
  ASSUME CableInv, S3Type, Own, UNCHANGED <<s3Vars, cableVars>>
  PROVE  CableInv' /\ S3Type' /\ Own'
<1>1. CableInv'
  BY DEF CableInv, s3Vars, cableVars
<1>2. S3Type'
  BY DEF S3Type, s3Vars
<1>3. Own'
  BY DEF Own, OwnRecord, s3Vars
<1> QED
  BY <1>1, <1>2, <1>3

\* The P4's part is a matter of the P4's variables and the card alone.
LEMMA P4Kept ==
  ASSUME RegType, DescType, SndType, InstInv, UNCHANGED <<p4Vars, card, nInstalls>>
  PROVE  RegType' /\ DescType' /\ SndType' /\ InstInv'
<1> USE DEF p4Vars, regVars, descVars, sendVars
<1>1. RegType'
  BY DEF RegType
<1>2. DescType'
  BY DEF DescType
<1>3. SndType'
  BY DEF SndType
<1>4. InstInv'
  BY DEF InstInv
<1> QED
  BY <1>1, <1>2, <1>3, <1>4

\* Of the P4's part, what an action of one task leaves alone.
LEMMA TaskKept ==
  /\ RegType /\ UNCHANGED <<reg, known>> => RegType'
  /\ DescType /\ UNCHANGED <<descQ, descHand>> => DescType'
  /\ SndType /\ UNCHANGED <<sendQ, snd>> => SndType'
  /\ InstInv /\ UNCHANGED <<inst, card, nInstalls>> => InstInv'
  /\ UpType /\ UNCHANGED up => UpType'
  /\ DownType /\ UNCHANGED down => DownType'
<1>1. RegType /\ UNCHANGED <<reg, known>> => RegType'
  BY DEF RegType
<1>2. DescType /\ UNCHANGED <<descQ, descHand>> => DescType'
  BY DEF DescType
<1>3. SndType /\ UNCHANGED <<sendQ, snd>> => SndType'
  BY DEF SndType
<1>4. InstInv /\ UNCHANGED <<inst, card, nInstalls>> => InstInv'
  BY DEF InstInv
<1>5. UpType /\ UNCHANGED up => UpType'
  BY DEF UpType
<1>6. DownType /\ UNCHANGED down => DownType'
  BY DEF DownType
<1> QED
  BY <1>1, <1>2, <1>3, <1>4, <1>5, <1>6

\* A frame more, or one fewer, on the way to the P4.
LEMMA UpMoves ==
  ASSUME UpType
  PROVE  /\ \A f \in UpFrame : up' = Append(up, f) => UpType'
         /\ up # <<>> /\ up' = Tail(up) => UpType' /\ Head(up) \in UpFrame
<1>1. ASSUME NEW f \in UpFrame, up' = Append(up, f) PROVE UpType'
  BY <1>1 DEF UpType
<1>2. ASSUME up # <<>>, up' = Tail(up) PROVE UpType' /\ Head(up) \in UpFrame
  BY <1>2, TailEntries DEF UpType
<1> QED
  BY <1>1, <1>2

\* The same on the way to the S3; a chunk is in its place.
LEMMA DownMoves ==
  ASSUME DownType
  PROVE  /\ \A f \in DownFrames :
              (f.t = "chunk" => f.off < NChunks) /\ down' = Append(down, f) => DownType'
         /\ down # <<>> /\ down' = Tail(down) =>
              /\ DownType' /\ Head(down) \in DownFrames
              /\ Head(down).t = "chunk" => Head(down).off < NChunks
<1>1. ASSUME NEW f \in DownFrames, f.t = "chunk" => f.off < NChunks, down' = Append(down, f)
      PROVE  DownType'
  <2> DEFINE a == Append(down, f)
  <2>1. /\ a \in Seq(DownFrames) /\ Len(down) \in Nat /\ Len(a) = Len(down) + 1
        /\ a[Len(down) + 1] = f /\ \A i \in 1 .. Len(down) : a[i] = down[i]
    BY AppendEntries DEF DownType
  <2> HIDE DEF a
  <2>2. ASSUME NEW i \in 1 .. Len(a), a[i].t = "chunk" PROVE a[i].off < NChunks
    <3>1. CASE i = Len(down) + 1
      BY <1>1, <2>1, <2>2, <3>1
    <3>2. CASE i \in 1 .. Len(down)
      BY <2>1, <2>2, <3>2 DEF DownType
    <3> QED
      BY <2>1, <3>1, <3>2
  <2>3. down' = a
    BY <1>1 DEF a
  <2> QED
    BY <2>1, <2>2, <2>3 DEF DownType
<1>2. ASSUME down # <<>>, down' = Tail(down)
      PROVE  /\ DownType' /\ Head(down) \in DownFrames
             /\ Head(down).t = "chunk" => Head(down).off < NChunks
  <2> DEFINE a == Tail(down)
  <2>1. /\ a \in Seq(DownFrames) /\ Len(down) \in Nat \ {0} /\ Head(down) = down[1]
        /\ down[1] \in DownFrames
        /\ \A i \in 1 .. Len(a) : i + 1 \in 1 .. Len(down) /\ a[i] = down[i + 1]
    BY <1>2, TailEntries DEF DownType
  <2> HIDE DEF a
  <2>2. ASSUME NEW i \in 1 .. Len(a), a[i].t = "chunk" PROVE a[i].off < NChunks
    BY <2>1, <2>2 DEF DownType
  <2>3. down' = a
    BY <1>2 DEF a
  <2>4. DownType'
    BY <2>1, <2>2, <2>3 DEF DownType
  <2> QED
    BY <2>1, <2>4 DEF DownType
<1> QED
  BY <1>1, <1>2

-----------------------------------------------------------------------------
(* The initial state and the S3.                                            *)

\* Nothing is plugged in, and every queue is empty.
LEMMA InitInv == Init => IInv
<1> SUFFICES ASSUME Init PROVE IInv
  OBVIOUS
<1> USE ProfileAssumption DEF Init, Dev
<1>1. CableInv
  BY DEF CableInv, NoCtx
<1>2. S3Type
  BY DEF S3Type, NoRcv, NoRt, Versions
<1>3. Own
  BY DEF Own, OwnRecord, NoRcv, NoRt, NoCtx
<1>4. UpType
  BY EmptySeq DEF UpType
<1>5. DownType
  BY EmptySeq DEF DownType
<1>6. RegType
  BY DEF RegType, NoReg, RegSts, OnCard
<1>7. DescType
  BY EmptySeq DEF DescType, NoDesc
<1>8. SndType
  BY EmptySeq DEF SndType, NoSnd, SndPcs, Versions
<1>9. InstInv
  BY DEF InstInv, NoInst
<1> QED
  BY <1>1, <1>2, <1>3, <1>4, <1>5, <1>6, <1>7, <1>8, <1>9 DEF IInv

\* A new controller begins a session of its own.
LEMMA PlugKeeps ==
  ASSUME IInv, NEW d \in Devices, Plug(d)
  PROVE  IInv'
<1> USE DEF IInv
<1>1. CableInv'
  BY ProfileAssumption DEF Plug, CableInv, Dev, s3Vars
<1>2. S3Type' /\ Own'
  BY DEF Plug, S3Type, Own, OwnRecord, s3Vars
<1>3. UpType' /\ DownType'
  BY TaskKept DEF Plug
<1>4. RegType' /\ DescType' /\ SndType' /\ InstInv'
  BY P4Kept DEF Plug
<1> QED
  BY <1>1, <1>2, <1>3, <1>4

\* A controller goes.
LEMMA UnplugKeeps ==
  ASSUME IInv, Unplug
  PROVE  IInv'
<1> USE DEF IInv
<1>1. CableInv'
  BY ProfileAssumption DEF Unplug, CableInv, Dev, s3Vars
<1>2. S3Type' /\ Own'
  BY DEF Unplug, S3Type, Own, OwnRecord, s3Vars
<1>3. UpType' /\ DownType'
  BY TaskKept DEF Unplug
<1>4. RegType' /\ DescType' /\ SndType' /\ InstInv'
  BY P4Kept DEF Unplug
<1> QED
  BY <1>1, <1>2, <1>3, <1>4

\* The number of the connection that opens is one that nothing carries.
LEMMA UsbOpenKeeps ==
  ASSUME IInv, UsbOpen
  PROVE  IInv'
<1> USE DEF IInv
<1>1. CableInv'
  BY ProfileAssumption DEF UsbOpen, CableInv, Dev, envVars, cableVars
<1>2. S3Type'
  BY DEF UsbOpen, S3Type
<1>3. Own'
  BY DEF UsbOpen, Own, OwnRecord, CableInv, S3Type
<1>4. UpType' /\ DownType'
  BY TaskKept DEF UsbOpen
<1>5. RegType' /\ DescType' /\ SndType' /\ InstInv'
  BY P4Kept DEF UsbOpen, envVars
<1> QED
  BY <1>1, <1>2, <1>3, <1>4, <1>5

\* The number stays when the connection closes.
LEMMA UsbCloseKeeps ==
  ASSUME IInv, UsbClose
  PROVE  IInv'
<1> USE DEF IInv
<1>1. CableInv'
  BY ProfileAssumption DEF UsbClose, CableInv, Dev, envVars, cableVars
<1>2. S3Type'
  BY DEF UsbClose, S3Type
<1>3. Own'
  BY DEF UsbClose, Own, OwnRecord, CableInv
<1>4. UpType' /\ DownType'
  BY TaskKept DEF UsbClose
<1>5. RegType' /\ DescType' /\ SndType' /\ InstInv'
  BY P4Kept DEF UsbClose, envVars
<1> QED
  BY <1>1, <1>2, <1>3, <1>4, <1>5

\* An announcement is a frame for the P4.
LEMMA AnnouncementType ==
  ASSUME CableInv
  PROVE  Announcement \in UpFrame
BY DEF CableInv, Announcement, UpFrame, Refs

\* The connection is announced; one that has closed takes its profile along.
LEMMA UsbPublishKeeps ==
  ASSUME IInv, UsbPublish
  PROVE  IInv'
<1> USE DEF IInv
<1>1. CableInv'
  BY DEF UsbPublish, CableInv, envVars, cableVars
<1>2. rt' = NoRt \/ rt' = rt
  BY DEF UsbPublish
<1>3. S3Type'
  BY <1>2, ProfileAssumption DEF UsbPublish, S3Type, NoRt, Dev, Versions
<1>4. Own'
  BY <1>2 DEF UsbPublish, Own, OwnRecord, NoRt, CableInv
<1>5. UpType' /\ DownType'
  BY AnnouncementType, UpMoves, TaskKept DEF UsbPublish
<1>6. RegType' /\ DescType' /\ SndType' /\ InstInv'
  BY P4Kept DEF UsbPublish, envVars
<1> QED
  BY <1>1, <1>3, <1>4, <1>5, <1>6

\* The announcement is repeated.
LEMMA RepeatKeeps ==
  ASSUME IInv, Repeat
  PROVE  IInv'
<1> USE DEF IInv
<1>1. CableInv' /\ S3Type' /\ Own'
  BY S3Kept DEF Repeat
<1>2. UpType' /\ DownType'
  BY AnnouncementType, UpMoves, TaskKept DEF Repeat
<1>3. RegType' /\ DescType' /\ SndType' /\ InstInv'
  BY P4Kept DEF Repeat
<1> QED
  BY <1>1, <1>2, <1>3

\* After a restart the S3 counts from zero, and has forgotten everything that
\* carries one of the old numbers.
LEMMA S3RestartKeeps ==
  ASSUME IInv, S3Restart
  PROVE  IInv'
<1> USE DEF IInv
<1>1. CableInv'
  BY ProfileAssumption DEF S3Restart, CableInv, NoCtx, Dev
<1>2. S3Type'
  BY ProfileAssumption DEF S3Restart, S3Type, NoRcv, NoRt, Dev, Versions
<1>3. Own'
  BY DEF S3Restart, Own, OwnRecord, NoCtx, NoRcv, NoRt
<1>4. UpType'
  BY TaskKept DEF S3Restart
<1>5. DownType'
  BY EmptySeq DEF S3Restart, DownType
<1>6. RegType' /\ DescType' /\ SndType' /\ InstInv'
  BY P4Kept DEF S3Restart
<1> QED
  BY <1>1, <1>2, <1>3, <1>4, <1>5, <1>6

-----------------------------------------------------------------------------
(* What the S3 receives.                                                    *)

\* A reply is a frame for the P4.
LEMMA ReplyKeeps ==
  ASSUME UpType, NEW ok \in BOOLEAN, NEW ref \in Refs, Reply(ok, ref)
  PROVE  UpType'
<1> DEFINE f == [t |-> "reply", dev |-> NoDevice, ep |-> 0, ack |-> ok, ref |-> ref]
<1>1. f \in UpFrame
  BY DEF UpFrame, Dev
<1>2. up' = Append(up, f)
  BY DEF Reply
<1> QED
  BY <1>1, <1>2, UpMoves

\* A frame is taken from the wire; the P4 and the connection stay as they are.
LEMMA S3TakesKeeps ==
  ASSUME IInv, NEW t, S3Takes(t)
  PROVE  /\ CableInv' /\ DownType' /\ RegType' /\ DescType' /\ SndType' /\ InstInv'
         /\ ctx' = ctx /\ usbPc' = usbPc
         /\ Head(down) \in DownFrames /\ Head(down).t = t
         /\ t = "chunk" => Head(down).off < NChunks
<1> USE DEF IInv
<1>1. CableInv'
  BY DEF S3Takes, CableInv, envVars, cableVars
<1>2. DownType' /\ Head(down) \in DownFrames /\ Head(down).t = t
      /\ (t = "chunk" => Head(down).off < NChunks)
  BY DownMoves DEF S3Takes
<1>3. RegType' /\ DescType' /\ SndType' /\ InstInv'
  BY P4Kept DEF S3Takes, envVars
<1> QED
  BY <1>1, <1>2, <1>3 DEF S3Takes

\* A transfer is accepted for the connection that is open.
LEMMA S3BeginKeeps ==
  ASSUME IInv, S3Begin
  PROVE  IInv'
<1> USE DEF IInv
<1>1. /\ CableInv' /\ DownType' /\ RegType' /\ DescType' /\ SndType' /\ InstInv'
      /\ ctx' = ctx /\ usbPc' = usbPc /\ Head(down) \in DownFrames
  BY S3TakesKeeps DEF S3Begin
<1> DEFINE f == Head(down)
           ok == ctx.conn /\ ctx.dev = f.dev
           new == [st |-> "receiving", dev |-> f.dev, ver |-> f.ver, got |-> 0, good |-> TRUE,
                   stored |-> FALSE, ep |-> ctx.ep, from |-> ctx.from]
<1>2. rcv' = rcv \/ rcv' = new
  BY DEF S3Begin
<1>3. new.ep = ctx.ep /\ new.from = ctx.from
  OBVIOUS
<1>4. new \in [st : {"idle", "receiving", "stored", "error"}, dev : Dev, ver : Versions,
               got : 0 .. NChunks, good : BOOLEAN, stored : BOOLEAN, ep : Nat, from : Nat]
  BY <1>1, ProfileAssumption DEF DownFrames, CableInv
<1> HIDE DEF new
<1>5. S3Type'
  BY <1>1, <1>2, <1>4 DEF S3Begin, S3Type
<1>6. Own'
  BY <1>1, <1>2, <1>3 DEF S3Begin, Own, OwnRecord, CableInv
<1>7. PICK b \in BOOLEAN : b = ok
  BY DEF CableInv
<1>8. Reply(b, "begin")
  BY <1>7 DEF S3Begin
<1>9. UpType'
  BY <1>8, ReplyKeeps DEF Refs
<1> QED
  BY <1>1, <1>5, <1>6, <1>9

\* A transfer in error carries no number, and is of the receiver's type.
LEMMA SpoiltType ==
  /\ Spoilt \in [st : {"idle", "receiving", "stored", "error"}, dev : Dev, ver : Versions,
                 got : 0 .. NChunks, good : BOOLEAN, stored : BOOLEAN, ep : Nat, from : Nat]
  /\ Spoilt.ep = 0
<1> DEFINE R == [st : {"idle", "receiving", "stored", "error"}, dev : Dev, ver : Versions,
                 got : 0 .. NChunks, good : BOOLEAN, stored : BOOLEAN, ep : Nat, from : Nat]
<1>1. NoRcv \in R /\ NoRcv.ep = 0
  BY ProfileAssumption DEF NoRcv, Dev, Versions
<1>2. PICK s \in {"error"} : s = "error"
  OBVIOUS
<1>3. Spoilt = [NoRcv EXCEPT !.st = s]
  BY <1>2 DEF Spoilt
<1> QED
  BY <1>1, <1>3

\* A chunk in its place advances the count, which stays within the profile.
LEMMA S3ChunkKeeps ==
  ASSUME IInv, S3Chunk
  PROVE  IInv'
<1> USE DEF IInv
<1>1. /\ CableInv' /\ DownType' /\ RegType' /\ DescType' /\ SndType' /\ InstInv'
      /\ ctx' = ctx /\ usbPc' = usbPc /\ Head(down) \in DownFrames
      /\ Head(down).off < NChunks
  BY S3TakesKeeps DEF S3Chunk
<1>2. act' = act /\ rt' = rt
  BY DEF S3Chunk
<1>3. rcv.got \in 0 .. NChunks /\ rcv.good \in BOOLEAN
  BY DEF S3Type
<1>4. CASE UNCHANGED rcv /\ Reply(FALSE, "chunk")
  <2>1. S3Type' /\ Own'
    BY <1>1, <1>2, <1>4 DEF S3Type, Own, OwnRecord
  <2>2. UpType'
    BY <1>4, ReplyKeeps DEF Refs
  <2> QED
    BY <1>1, <2>1, <2>2
<1>5. CASE rcv' = Spoilt /\ Reply(FALSE, "chunk")
  <2>1. S3Type'
    BY <1>1, <1>2, <1>5, SpoiltType DEF S3Type
  <2>2. Own'
    BY <1>1, <1>2, <1>5, SpoiltType DEF Own, OwnRecord, CableInv
  <2>3. UpType'
    BY <1>5, ReplyKeeps DEF Refs
  <2> QED
    BY <1>1, <2>1, <2>2, <2>3
<1>6. CASE /\ Head(down).off = rcv.got /\ UNCHANGED up
           /\ rcv' = [rcv EXCEPT !.got = @ + 1,
                                 !.good = @ /\ Head(down).dev = rcv.dev /\ Head(down).ver = rcv.ver]
  <2>1. PICK n \in 0 .. NChunks : n = rcv.got + 1
    BY <1>1, <1>3, <1>6, ProfileAssumption DEF DownFrames
  <2>2. PICK b \in BOOLEAN :
          b = (rcv.good /\ Head(down).dev = rcv.dev /\ Head(down).ver = rcv.ver)
    BY <1>3
  <2>3. rcv' = [rcv EXCEPT !.got = n, !.good = b]
    BY <1>6, <2>1, <2>2
  <2>4. S3Type'
    BY <1>1, <1>2, <2>3 DEF S3Type
  <2>5. rcv'.ep = rcv.ep /\ rcv'.from = rcv.from
    BY <2>3 DEF S3Type
  <2>6. Own'
    BY <1>1, <1>2, <2>5 DEF Own, OwnRecord
  <2>7. UpType'
    BY <1>6, TaskKept
  <2> QED
    BY <1>1, <2>4, <2>6, <2>7
<1> QED
  BY <1>4, <1>5, <1>6 DEF S3Chunk

\* The end of a transfer stores the profile or drops it.
LEMMA S3EndKeeps ==
  ASSUME IInv, S3End
  PROVE  IInv'
<1> USE DEF IInv
<1>1. /\ CableInv' /\ DownType' /\ RegType' /\ DescType' /\ SndType' /\ InstInv'
      /\ ctx' = ctx /\ usbPc' = usbPc
  BY S3TakesKeeps DEF S3End
<1>2. act' = act /\ rt' = rt
  BY DEF S3End
<1>3. UpType'
  BY ReplyKeeps DEF Refs, S3End
<1>4. CASE UNCHANGED rcv
  BY <1>1, <1>2, <1>3, <1>4 DEF S3Type, Own, OwnRecord
<1>5. CASE rcv' = Spoilt
  <2>1. S3Type'
    BY <1>1, <1>2, <1>5, SpoiltType DEF S3Type
  <2>2. Own'
    BY <1>1, <1>2, <1>5, SpoiltType DEF Own, OwnRecord, CableInv
  <2> QED
    BY <1>1, <1>3, <2>1, <2>2
<1>6. CASE rcv' = [rcv EXCEPT !.st = "stored", !.stored = TRUE]
  <2>1. PICK s \in {"stored"}, b \in BOOLEAN : s = "stored" /\ b = TRUE
    OBVIOUS
  <2>2. rcv' = [rcv EXCEPT !.st = s, !.stored = b]
    BY <1>6, <2>1
  <2>3. S3Type'
    BY <1>1, <1>2, <2>2 DEF S3Type
  <2>4. rcv'.ep = rcv.ep /\ rcv'.from = rcv.from
    BY <2>2 DEF S3Type
  <2>5. Own'
    BY <1>1, <1>2, <2>4 DEF Own, OwnRecord
  <2> QED
    BY <1>1, <1>3, <2>3, <2>5
<1> QED
  BY <1>4, <1>5, <1>6 DEF S3End

\* An activation that passes the check carries the number of the open
\* connection, and stems from it.
LEMMA S3ActivateKeeps ==
  ASSUME IInv, S3Activate
  PROVE  IInv'
<1> USE DEF IInv
<1>1. /\ CableInv' /\ DownType' /\ RegType' /\ DescType' /\ SndType' /\ InstInv'
      /\ ctx' = ctx /\ usbPc' = usbPc
  BY S3TakesKeeps DEF S3Activate
<1>2. rcv' = rcv /\ rt' = rt
  BY DEF S3Activate
<1>3. UpType'
  BY ReplyKeeps, TaskKept DEF Refs, S3Activate
<1>4. CASE UNCHANGED act
  BY <1>1, <1>2, <1>3, <1>4 DEF S3Type, Own, OwnRecord
<1>5. CASE act' = [on |-> TRUE, dev |-> rcv.dev, ep |-> rcv.ep, ver |-> rcv.ver,
                   from |-> rcv.from]
  <2>1. S3Type'
    BY <1>1, <1>2, <1>5 DEF S3Type
  <2>2. Own'
    BY <1>1, <1>2, <1>5 DEF Own, OwnRecord
  <2> QED
    BY <1>1, <1>3, <2>1, <2>2
<1> QED
  BY <1>4, <1>5 DEF S3Activate

\* The profile is installed although the controller may have gone since the
\* check: then no connection has its number.
LEMMA S3InstallKeeps ==
  ASSUME IInv, S3Install
  PROVE  IInv'
<1> USE DEF IInv
<1>1. CableInv'
  BY DEF S3Install, CableInv, envVars, cableVars
<1>2. S3Type'
  BY ProfileAssumption DEF S3Install, S3Type, NoRt, Dev, Versions
<1>3. Own'
  BY DEF S3Install, Own, OwnRecord, NoRt, CableInv
<1>4. UpType' /\ DownType'
  BY ReplyKeeps, TaskKept DEF S3Install, Refs
<1>5. RegType' /\ DescType' /\ SndType' /\ InstInv'
  BY P4Kept DEF S3Install, envVars
<1> QED
  BY <1>1, <1>2, <1>3, <1>4, <1>5

\* The P4 has the S3 forget its profile.
LEMMA S3ClearKeeps ==
  ASSUME IInv, S3Clear
  PROVE  IInv'
<1> USE DEF IInv
<1>1. /\ CableInv' /\ DownType' /\ RegType' /\ DescType' /\ SndType' /\ InstInv'
      /\ ctx' = ctx /\ usbPc' = usbPc
  BY S3TakesKeeps DEF S3Clear
<1>2. S3Type'
  BY <1>1, ProfileAssumption DEF S3Clear, S3Type, NoRcv, NoRt, Dev, Versions
<1>3. Own'
  BY <1>1 DEF S3Clear, Own, OwnRecord, NoRcv, NoRt, CableInv
<1>4. UpType'
  BY ReplyKeeps DEF Refs, S3Clear
<1> QED
  BY <1>1, <1>2, <1>3, <1>4

-----------------------------------------------------------------------------
(* The P4's UART and descriptor tasks.                                      *)

\* A frame is taken from the wire; the S3 and the sender stay as they are.
LEMMA RxTakesKeeps ==
  ASSUME IInv, NEW t, RxTakes(t)
  PROVE  /\ CableInv' /\ S3Type' /\ Own' /\ UpType' /\ SndType' /\ InstInv'
         /\ Head(up) \in UpFrame /\ known' = known
<1> USE DEF IInv
<1>1. CableInv' /\ S3Type' /\ Own'
  BY S3Kept DEF RxTakes, envVars
<1>2. UpType' /\ Head(up) \in UpFrame
  BY UpMoves DEF RxTakes
<1>3. SndType' /\ InstInv'
  BY TaskKept DEF RxTakes, envVars
<1> QED
  BY <1>1, <1>2, <1>3 DEF RxTakes

\* A reply replaces the one before it.
LEMMA RxReplyKeeps ==
  ASSUME IInv, RxReply
  PROVE  IInv'
<1> USE DEF IInv
<1>1. CableInv' /\ S3Type' /\ Own' /\ UpType' /\ SndType' /\ InstInv' /\ known' = known
  BY RxTakesKeeps DEF RxReply
<1>2. RegType' /\ DescType' /\ DownType'
  BY <1>1, TaskKept DEF RxReply, descVars
<1> QED
  BY <1>1, <1>2

\* Dropping the oldest announcement makes room for one.
LEMMA RoomMade ==
  ASSUME NEW S, NEW q \in Seq(S), Len(q) <= DescCap
  PROVE  MakeRoom(q) \in Seq(S) /\ Len(MakeRoom(q)) < DescCap
<1>1. CASE Len(q) = DescCap
  <2>1. q # <<>>
    BY <1>1, EmptySeq, ProfileAssumption
  <2> QED
    BY <1>1, <2>1, TailEntries, ProfileAssumption DEF MakeRoom
<1>2. CASE Len(q) # DescCap
  <2>1. Len(q) \in Nat
    OBVIOUS
  <2> QED
    BY <1>2, <2>1, ProfileAssumption DEF MakeRoom
<1> QED
  BY <1>1, <1>2

\* An announcement is queued.
LEMMA RxDescriptorKeeps ==
  ASSUME IInv, RxDescriptor
  PROVE  IInv'
<1> USE DEF IInv
<1>1. /\ CableInv' /\ S3Type' /\ Own' /\ UpType' /\ SndType' /\ InstInv' /\ known' = known
      /\ Head(up) \in UpFrame
  BY RxTakesKeeps DEF RxDescriptor
<1>2. RegType' /\ DownType'
  BY <1>1, TaskKept DEF RxDescriptor
<1> DEFINE S == [dev : Dev, ep : Nat, stale : BOOLEAN]
           m == MakeRoom(descQ)
           x == Report(Head(up).dev, Head(up).ep)
<1>3. x \in S
  BY <1>1 DEF Report, UpFrame
<1>4. m \in Seq(S) /\ Len(m) < DescCap
  BY RoomMade DEF DescType
<1>5. descQ' = Append(m, x) /\ descHand' = descHand
  BY DEF RxDescriptor
<1> HIDE DEF S, m, x
<1>6. Append(m, x) \in Seq(S) /\ Len(Append(m, x)) = Len(m) + 1 /\ Len(m) \in Nat
  BY <1>3, <1>4, AppendEntries
<1>7. descQ' \in Seq(S) /\ Len(descQ') <= DescCap
  BY <1>4, <1>5, <1>6, ProfileAssumption
<1>8. DescType'
  BY <1>5, <1>7 DEF DescType, S
<1> QED
  BY <1>1, <1>2, <1>8

\* The controller is gone: the announcements under way are marked.
LEMMA RxDisconnectKeeps ==
  ASSUME IInv, RxDisconnect
  PROVE  IInv'
<1> USE DEF IInv
<1>1. CableInv' /\ S3Type' /\ Own' /\ UpType' /\ SndType' /\ InstInv' /\ known' = known
  BY RxTakesKeeps DEF RxDisconnect
<1>2. RegType'
  BY <1>1 DEF RxDisconnect, RegType, NoReg, RegSts, Dev
<1>3. DownType'
  <2> DEFINE f == DownFrame("clear", NoDevice, 0, 0)
  <2>1. f \in DownFrames /\ f.t # "chunk"
    BY ProfileAssumption DEF DownFrame, DownFrames, Dev, Versions
  <2>2. down' = Append(down, f)
    BY DEF RxDisconnect
  <2> QED
    BY <2>1, <2>2, DownMoves
<1>4. DescType'
  <2> DEFINE S == [dev : Dev, ep : Nat, stale : BOOLEAN]
  <2>1. PICK b \in BOOLEAN : b = TRUE
    OBVIOUS
  <2>2. PICK n \in Nat : n = Len(descQ) /\ DOMAIN descQ = 1 .. n /\ descQ \in [1 .. n -> S]
    BY SeqFunction DEF DescType
  <2>3. ASSUME NEW i \in 1 .. n PROVE [descQ[i] EXCEPT !.stale = b] \in S
    <3>1. descQ[i] \in S
      BY <2>2
    <3> QED
      BY <3>1
  <2>4. descQ' = [i \in 1 .. n |-> [descQ[i] EXCEPT !.stale = b]]
    BY <2>1, <2>2 DEF RxDisconnect, Retired
  <2>5. descQ' \in [1 .. n -> S]
    BY <2>3, <2>4
  <2>6. descQ' \in Seq(S) /\ Len(descQ') = n
    BY <2>5, SeqFunction
  <2> QED
    BY <2>2, <2>6 DEF DescType, RxDisconnect
<1> QED
  BY <1>1, <1>2, <1>3, <1>4

\* The descriptor task takes an announcement.
LEMMA DescTakeKeeps ==
  ASSUME IInv, DescTake
  PROVE  IInv'
<1> USE DEF IInv
<1>1. CableInv' /\ S3Type' /\ Own'
  BY S3Kept DEF DescTake, envVars
<1>2. UpType' /\ DownType' /\ RegType' /\ SndType' /\ InstInv'
  BY TaskKept DEF DescTake, envVars, regVars, sendVars
<1>3. /\ Tail(descQ) \in Seq([dev : Dev, ep : Nat, stale : BOOLEAN])
      /\ Len(descQ) \in Nat /\ Len(Tail(descQ)) = Len(descQ) - 1
      /\ Head(descQ) \in [dev : Dev, ep : Nat, stale : BOOLEAN]
  <2> DEFINE S == [dev : Dev, ep : Nat, stale : BOOLEAN]
  <2>1. descQ \in Seq(S) /\ descQ # <<>>
    BY DEF DescTake, DescType
  <2> HIDE DEF S
  <2>2. /\ Tail(descQ) \in Seq(S) /\ Len(descQ) \in Nat /\ Len(Tail(descQ)) = Len(descQ) - 1
        /\ Head(descQ) \in S
    BY <2>1, TailEntries
  <2> QED
    BY <2>2 DEF S
<1>4. Len(descQ') <= DescCap
  BY <1>3, ProfileAssumption DEF DescTake, DescType
<1>5. descHand' \in [pc : {"idle", "wait", "go"}, dev : Dev, ep : Nat]
  BY <1>3 DEF DescTake, DescType
<1>6. DescType'
  BY <1>3, <1>4, <1>5 DEF DescType, DescTake
<1> QED
  BY <1>1, <1>2, <1>6

\* No installation is under way: the announcement is let through.
LEMMA DescAdmitKeeps ==
  ASSUME IInv, DescAdmit
  PROVE  IInv'
<1> USE DEF IInv
<1>1. CableInv' /\ S3Type' /\ Own'
  BY S3Kept DEF DescAdmit, envVars
<1>2. UpType' /\ DownType' /\ RegType' /\ SndType' /\ InstInv'
  BY TaskKept DEF DescAdmit, envVars, regVars, sendVars
<1>3. PICK p \in {"go"} : p = "go"
  OBVIOUS
<1>4. descHand' = [descHand EXCEPT !.pc = p] /\ descQ' = descQ
  BY <1>3 DEF DescAdmit
<1>5. DescType'
  BY <1>4 DEF DescType
<1> QED
  BY <1>1, <1>2, <1>5

\* The announcement is matched, and at most one transfer is queued.
LEMMA DescProcessKeeps ==
  ASSUME IInv, DescProcess
  PROVE  IInv'
<1> USE DEF IInv
<1>1. CableInv' /\ S3Type' /\ Own'
  BY S3Kept DEF DescProcess, envVars
<1>2. UpType' /\ DownType' /\ InstInv'
  BY TaskKept DEF DescProcess, envVars
<1>3. DescType'
  BY DEF DescType, DescProcess, NoDesc, Dev
<1> DEFINE d == descHand.dev
           e == descHand.ep
<1>4. d \in Dev /\ e \in Nat
  BY DEF DescType
<1>5. reg' = reg \/ \E st \in RegSts : Match(d, e, st)
  BY DEF DescProcess, RegSts
<1>6. RegType'
  <2>1. known' = known
    BY DEF DescProcess
  <2>2. CASE reg' = reg
    BY <2>1, <2>2, TaskKept
  <2>3. ASSUME NEW st \in RegSts, Match(d, e, st) PROVE RegType'
    <3>1. reg' = [present |-> TRUE, dev |-> d, ep |-> e, st |-> st]
      BY <2>3 DEF Match
    <3> QED
      BY <1>4, <2>1, <3>1 DEF RegType
  <2> QED
    BY <1>5, <2>2, <2>3
<1>7. sendQ' = sendQ \/ (Len(sendQ) < SendCap /\ d \in known /\ sendQ' = Append(sendQ, d))
  BY DEF DescProcess
<1>8. snd' = snd
  BY DEF DescProcess, sendVars
<1>9. SndType'
  <2>1. CASE sendQ' = sendQ
    BY <1>8, <2>1, TaskKept
  <2>2. CASE Len(sendQ) < SendCap /\ d \in known /\ sendQ' = Append(sendQ, d)
    <3>1. PICK x \in Devices : x = d
      BY <2>2 DEF RegType
    <3>2. sendQ' = Append(sendQ, x) /\ sendQ \in Seq(Devices)
      BY <2>2, <3>1 DEF SndType
    <3>3. sendQ' \in Seq(Devices) /\ Len(sendQ) \in Nat /\ Len(sendQ') = Len(sendQ) + 1
      BY <3>2, AppendEntries
    <3>4. Len(sendQ') <= SendCap
      BY <2>2, <3>3, ProfileAssumption
    <3> QED
      BY <1>8, <3>3, <3>4 DEF SndType
  <2> QED
    BY <1>7, <2>1, <2>2
<1> QED
  BY <1>1, <1>2, <1>3, <1>6, <1>9

-----------------------------------------------------------------------------
(* The sender.                                                              *)

\* An action of the sender that leaves the wire to the P4 and the other tasks
\* alone.
LEMMA SenderFrame ==
  ASSUME IInv, UNCHANGED <<s3Vars, cableVars, up, descVars, inst, card, nInstalls>>
  PROVE  CableInv' /\ S3Type' /\ Own' /\ UpType' /\ DescType' /\ InstInv'
BY S3Kept, TaskKept DEF IInv, descVars

\* A sender that has sent nothing yet.
LEMMA FreshSender ==
  ASSUME NEW p \in SndPcs, NEW d \in Dev, NEW e \in Nat
  PROVE  [pc |-> p, dev |-> d, ep |-> e, ver |-> 0, try |-> 0, off |-> 0] \in
           [pc : SndPcs, dev : Dev, ep : Nat, ver : Versions, try : 0 .. Attempts,
            off : 0 .. NChunks]
<1>1. 0 \in Versions /\ 0 \in 0 .. Attempts /\ 0 \in 0 .. NChunks
  BY ProfileAssumption DEF Versions
<1> QED
  BY <1>1

\* The next attempt, if there is one.
LEMMA NextAttemptKeeps ==
  ASSUME SndType, snd.pc # "chunk" \/ snd.off < NChunks, NextAttempt, UNCHANGED sendQ
  PROVE  SndType'
<1>1. snd.try \in 0 .. Attempts
  BY DEF SndType
<1>2. CASE snd.try = Attempts
  <2>1. PICK p \in SndPcs : p = "failed"
    BY DEF SndPcs
  <2>2. snd' = [snd EXCEPT !.pc = p]
    BY <1>2, <2>1 DEF NextAttempt
  <2> QED
    BY <2>1, <2>2 DEF SndType
<1>3. CASE snd.try # Attempts
  <2>1. PICK p \in SndPcs : p = "begin"
    BY DEF SndPcs
  <2>2. PICK n \in 0 .. Attempts : n = snd.try + 1
    BY <1>1, <1>3, ProfileAssumption
  <2>3. snd' = [snd EXCEPT !.pc = p, !.try = n]
    BY <1>3, <2>1, <2>2 DEF NextAttempt
  <2> QED
    BY <2>1, <2>3 DEF SndType
<1> QED
  BY <1>2, <1>3

\* The sender takes a transfer that the registry still asks for.
LEMMA SenderTakeKeeps ==
  ASSUME IInv, SenderTake
  PROVE  IInv'
<1> USE DEF IInv
<1>1. CableInv' /\ S3Type' /\ Own' /\ UpType' /\ DescType' /\ InstInv'
  BY SenderFrame DEF SenderTake, envVars
<1>2. RegType' /\ DownType'
  BY TaskKept DEF SenderTake, regVars
<1>3. sendQ \in Seq(Devices) /\ sendQ # <<>> /\ Len(sendQ) <= SendCap
  BY DEF SenderTake, SndType
<1>4. /\ Tail(sendQ) \in Seq(Devices) /\ Len(sendQ) \in Nat
      /\ Len(Tail(sendQ)) = Len(sendQ) - 1 /\ Head(sendQ) \in Devices
  BY <1>3, TailEntries
<1>5. sendQ' \in Seq(Devices) /\ Len(sendQ') <= SendCap
  BY <1>3, <1>4, ProfileAssumption DEF SenderTake
<1>6. CASE snd' = snd
  BY <1>1, <1>2, <1>5, <1>6 DEF SndType
<1>7. CASE snd' = [NoSnd EXCEPT !.pc = "read", !.dev = Head(sendQ), !.ep = reg.ep]
  <2>1. PICK d \in Devices : d = Head(sendQ)
    BY <1>4
  <2>2. PICK e \in Nat : e = reg.ep
    BY DEF RegType
  <2>3. snd' = [pc |-> "read", dev |-> d, ep |-> e, ver |-> 0, try |-> 0, off |-> 0]
    BY <1>7, <2>1, <2>2 DEF NoSnd
  <2>4. snd' \in [pc : SndPcs, dev : Dev, ep : Nat, ver : Versions, try : 0 .. Attempts,
                  off : 0 .. NChunks]
    BY <2>3, FreshSender DEF SndPcs, Dev
  <2>5. snd'.pc = "read" /\ snd'.dev \in Devices
    BY <2>3
  <2>6. SndType'
    BY <1>5, <2>4, <2>5 DEF SndType
  <2> QED
    BY <1>1, <1>2, <2>6
<1> QED
  BY <1>6, <1>7 DEF SenderTake

\* The profile read is one of the versions there have been.
LEMMA SenderReadKeeps ==
  ASSUME IInv, SenderRead
  PROVE  IInv'
<1> USE DEF IInv
<1>1. CableInv' /\ S3Type' /\ Own' /\ UpType' /\ DescType' /\ InstInv'
  BY SenderFrame DEF SenderRead
<1>2. RegType' /\ DownType'
  BY TaskKept DEF SenderRead, regVars
<1>3. sendQ' = sendQ
  BY DEF SenderRead
<1>4. CASE snd' = [snd EXCEPT !.pc = "failed"]
  <2>1. PICK p \in SndPcs : p = "failed"
    BY DEF SndPcs
  <2>2. snd' = [snd EXCEPT !.pc = p]
    BY <1>4, <2>1
  <2>3. SndType'
    BY <1>3, <2>1, <2>2 DEF SndType
  <2> QED
    BY <1>1, <1>2, <2>3
<1>5. CASE snd' = [snd EXCEPT !.pc = "begin", !.ver = card[snd.dev], !.try = 1]
  <2>1. PICK p \in SndPcs : p = "begin"
    BY DEF SndPcs
  <2>2. card[snd.dev] \in Versions
    BY ProfileAssumption DEF SndType, SenderRead, InstInv, Versions
  <2>3. PICK v \in Versions, n \in 0 .. Attempts : v = card[snd.dev] /\ n = 1
    BY <2>2, ProfileAssumption
  <2>4. snd' = [snd EXCEPT !.pc = p, !.ver = v, !.try = n]
    BY <1>5, <2>1, <2>3
  <2>5. SndType'
    BY <1>3, <2>1, <2>4 DEF SndType
  <2> QED
    BY <1>1, <1>2, <2>5
<1> QED
  BY <1>4, <1>5 DEF SenderRead

\* A frame goes out, and the sender does not count past the last chunk.
LEMMA SenderSendKeeps ==
  ASSUME IInv, SenderSend
  PROVE  IInv'
<1> USE DEF IInv
<1>1. CableInv' /\ S3Type' /\ Own' /\ UpType' /\ DescType' /\ InstInv'
  BY SenderFrame DEF SenderSend
<1>2. RegType'
  BY TaskKept DEF SenderSend, regVars
<1>3. sendQ' = sendQ
  BY DEF SenderSend
<1>4. CASE NextAttempt /\ UNCHANGED down
  BY <1>1, <1>2, <1>3, <1>4, NextAttemptKeeps, TaskKept DEF SndType
<1>5. CASE /\ down' = Append(down, DownFrame(snd.pc, snd.dev, snd.ver, snd.off))
           /\ snd' = AfterSend
  <2> DEFINE f == DownFrame(snd.pc, snd.dev, snd.ver, snd.off)
  <2>1. f \in DownFrames /\ (f.t = "chunk" => f.off < NChunks)
    <3>1. /\ snd.pc \in {"begin", "chunk", "end", "activate"} /\ snd.dev \in Dev
          /\ snd.ver \in Versions /\ snd.off \in Nat
          /\ snd.pc = "chunk" => snd.off < NChunks
      <4>1. snd.pc \in {"begin", "chunk", "end", "activate"}
        BY DEF SenderSend
      <4>2. snd.dev \in Dev /\ snd.ver \in Versions /\ snd.off \in 0 .. NChunks
        BY DEF SndType
      <4>3. snd.pc = "chunk" => snd.off < NChunks
        BY DEF SndType
      <4> QED
        BY <4>1, <4>2, <4>3, ProfileAssumption
    <3> QED
      BY <3>1 DEF DownFrame, DownFrames
  <2>2. DownType'
    BY <1>5, <2>1, DownMoves
  <2>3. PICK p \in SndPcs, o \in 0 .. NChunks :
          /\ AfterSend = [snd EXCEPT !.pc = p, !.off = o]
          /\ p \in {"await begin", "chunk", "end", "await end", "await activate"}
          /\ p = "chunk" => o < NChunks
          /\ p = "await begin" => o = 0
    <3>1. CASE snd.pc = "chunk"
      <4>1. PICK o \in 0 .. NChunks : o = snd.off + 1
        BY <3>1, ProfileAssumption DEF SndType
      <4>2. PICK p \in SndPcs :
              p = IF o = NChunks THEN "end" ELSE "chunk"
        BY DEF SndPcs
      <4>3. AfterSend = [snd EXCEPT !.pc = p, !.off = o]
        BY <3>1, <4>1, <4>2 DEF AfterSend
      <4>4. p = "chunk" => o < NChunks
        BY <4>1, <4>2, ProfileAssumption
      <4>5. p \in {"end", "chunk"}
        BY <4>2
      <4> QED
        BY <4>3, <4>4, <4>5
    <3>2. CASE snd.pc \in {"begin", "end", "activate"}
      <4>1. PICK o \in 0 .. NChunks : o = 0
        BY ProfileAssumption
      <4>2. PICK p \in SndPcs :
              /\ snd.pc = "begin" => p = "await begin"
              /\ snd.pc = "end" => p = "await end"
              /\ snd.pc = "activate" => p = "await activate"
        BY <3>2 DEF SndPcs
      <4>3. AfterSend = [snd EXCEPT !.pc = p, !.off = o]
        BY <3>2, <4>1, <4>2 DEF AfterSend
      <4>4. p \in {"await begin", "await end", "await activate"}
        BY <3>2, <4>2
      <4> QED
        BY <4>1, <4>3, <4>4
    <3> QED
      BY <3>1, <3>2 DEF SenderSend
  <2>4. SndType'
    BY <1>3, <1>5, <2>3 DEF SndType
  <2> QED
    BY <1>1, <1>2, <2>2, <2>4
<1> QED
  BY <1>4, <1>5 DEF SenderSend

\* While a reply is awaited the sender is at no chunk.
LEMMA AwaitsNoChunk ==
  ASSUME Expected # "none"
  PROVE  snd.pc \in {"await begin", "await end", "await activate"}
BY DEF Expected

\* The reply is the one awaited, or the next attempt begins.
LEMMA SenderReplyKeeps ==
  ASSUME IInv, SenderReply
  PROVE  IInv'
<1> USE DEF IInv
<1>1. CableInv' /\ S3Type' /\ Own' /\ UpType' /\ DescType' /\ InstInv'
  BY SenderFrame DEF SenderReply, envVars
<1>2. RegType' /\ DownType'
  BY TaskKept DEF SenderReply, regVars
<1>3. sendQ' = sendQ /\ snd.pc \in {"await begin", "await end", "await activate"}
  BY AwaitsNoChunk DEF SenderReply
<1>4. CASE NextAttempt
  BY <1>1, <1>2, <1>3, <1>4, NextAttemptKeeps
<1>5. CASE snd' = [snd EXCEPT !.pc = CASE Expected = "begin" -> "chunk"
                                       [] Expected = "end" -> "activate"
                                       [] Expected = "activate" -> "done"]
  <2>1. PICK p \in SndPcs :
          /\ snd.pc = "await begin" => p = "chunk"
          /\ snd.pc = "await end" => p = "activate"
          /\ snd.pc = "await activate" => p = "done"
    BY <1>3 DEF SndPcs
  <2>2. snd' = [snd EXCEPT !.pc = p]
    BY <1>3, <1>5, <2>1 DEF Expected
  <2>3. p # "read" /\ p # "await begin" /\ (p = "chunk" => snd.off < NChunks)
    <3>1. snd.pc = "await begin" => snd.off = 0
      BY DEF SndType
    <3>2. 0 < NChunks
      BY ProfileAssumption
    <3>3. CASE snd.pc = "await begin"
      BY <2>1, <3>1, <3>2, <3>3
    <3>4. CASE snd.pc = "await end"
      BY <2>1, <3>4
    <3>5. CASE snd.pc = "await activate"
      BY <2>1, <3>5
    <3> QED
      BY <1>3, <3>3, <3>4, <3>5
  <2>4. SndType'
    BY <1>3, <2>2, <2>3 DEF SndType
  <2> QED
    BY <1>1, <1>2, <2>4
<1> QED
  BY <1>4, <1>5 DEF SenderReply

\* No reply: the next attempt begins.
LEMMA SenderTimeoutKeeps ==
  ASSUME IInv, SenderTimeout
  PROVE  IInv'
<1> USE DEF IInv
<1>1. CableInv' /\ S3Type' /\ Own' /\ UpType' /\ DescType' /\ InstInv'
  BY SenderFrame DEF SenderTimeout
<1>2. RegType' /\ DownType'
  BY TaskKept DEF SenderTimeout, regVars
<1>3. sendQ' = sendQ /\ snd.pc \in {"await begin", "await end", "await activate"}
  BY AwaitsNoChunk DEF SenderTimeout
<1>4. SndType'
  BY <1>3, NextAttemptKeeps DEF SenderTimeout
<1> QED
  BY <1>1, <1>2, <1>4

\* The result is entered in the registry.
LEMMA SenderFinishKeeps ==
  ASSUME IInv, SenderFinish
  PROVE  IInv'
<1> USE DEF IInv
<1>1. CableInv' /\ S3Type' /\ Own' /\ UpType' /\ DescType' /\ InstInv'
  BY SenderFrame DEF SenderFinish, envVars
<1>2. DownType'
  BY TaskKept DEF SenderFinish
<1>3. SndType'
  <2>1. NoSnd \in [pc : SndPcs, dev : Dev, ep : Nat, ver : Versions, try : 0 .. Attempts,
                   off : 0 .. NChunks]
    BY FreshSender DEF NoSnd, SndPcs, Dev
  <2>2. NoSnd.pc = "idle"
    BY DEF NoSnd
  <2>3. snd' = NoSnd /\ sendQ' = sendQ
    BY DEF SenderFinish
  <2> QED
    BY <2>1, <2>2, <2>3 DEF SndType
<1>4. RegType'
  <2>1. PICK st \in RegSts : st = IF snd.pc = "done" THEN "active" ELSE "failed"
    BY DEF RegSts
  <2>2. known' = known /\ (reg' = reg \/ reg' = [reg EXCEPT !.st = st])
    BY <2>1 DEF SenderFinish
  <2> QED
    BY <2>2 DEF RegType
<1> QED
  BY <1>1, <1>2, <1>3, <1>4

-----------------------------------------------------------------------------
(* The web request, and events.                                             *)

\* An action of the web request leaves the S3, the wires and the sender alone.
LEMMA WebFrame ==
  ASSUME IInv, UNCHANGED <<s3Vars, cableVars, up, down, sendQ, sendVars>>
  PROVE  CableInv' /\ S3Type' /\ Own' /\ UpType' /\ DownType' /\ SndType'
BY S3Kept, TaskKept DEF IInv, sendVars

\* The installation moves on, with the card as it was.
LEMMA InstMoves ==
  ASSUME InstInv, NEW p \in {"apply", "release", "again"}, InstGoto(p),
         UNCHANGED <<card, nInstalls>>
  PROVE  InstInv'
<1>1. inst' = [inst EXCEPT !.pc = p]
  BY DEF InstGoto
<1> QED
  BY <1>1 DEF InstInv

\* An installation begins: there may be one version more.
LEMMA InstBeginKeeps ==
  ASSUME IInv, InstBegin
  PROVE  IInv'
<1> USE DEF IInv
<1>1. CableInv' /\ S3Type' /\ Own' /\ UpType' /\ DownType' /\ SndType'
  BY WebFrame DEF InstBegin
<1>2. RegType' /\ DescType'
  BY TaskKept DEF InstBegin, regVars, descVars
<1>3. PICK p \in {"write"} : p = "write"
  OBVIOUS
<1>4. inst' = [inst EXCEPT !.pc = p] /\ card' = card
  BY <1>3 DEF InstBegin, InstGoto
<1>5. inst' \in [pc : {"idle", "write", "apply", "release", "again"}, dev : Dev, ep : Nat]
  BY <1>4 DEF InstInv
<1>6. nInstalls' \in 0 .. MaxInstalls /\ nInstalls' = nInstalls + 1 /\ nInstalls \in Nat
  BY ProfileAssumption DEF InstBegin, InstInv
<1>7. \A d \in Devices : card'[d] <= nInstalls' /\ card'[d] <= nInstalls' + 1
  BY <1>4, <1>6 DEF InstInv
<1>8. InstInv'
  BY <1>4, <1>5, <1>6, <1>7 DEF InstInv
<1> QED
  BY <1>1, <1>2, <1>8

\* The file is swapped, or not.
LEMMA InstWriteKeeps ==
  ASSUME IInv, InstWrite
  PROVE  IInv'
<1> USE DEF IInv
<1>1. CableInv' /\ S3Type' /\ Own' /\ UpType' /\ DownType' /\ SndType'
  BY WebFrame DEF InstWrite
<1>2. RegType' /\ DescType'
  BY TaskKept DEF InstWrite, regVars, descVars
<1>3. nInstalls' = nInstalls /\ nInstalls \in Nat
  BY DEF InstWrite, InstInv
<1>4. CASE InstGoto("release") /\ UNCHANGED card
  BY <1>1, <1>2, <1>3, <1>4, InstMoves
<1>5. ASSUME NEW d \in Devices, card' = [card EXCEPT ![d] = @ + 1], InstGoto("apply")
      PROVE  InstInv'
  <2>1. PICK p \in {"apply"} : p = "apply"
    OBVIOUS
  <2>2. inst' = [inst EXCEPT !.pc = p]
    BY <1>5, <2>1 DEF InstGoto
  <2>3. inst' \in [pc : {"idle", "write", "apply", "release", "again"}, dev : Dev, ep : Nat]
        /\ inst'.pc = "apply"
    BY <2>1, <2>2 DEF InstInv
  <2>4. \A x \in Devices : card[x] \in Nat /\ card[x] <= nInstalls
    BY DEF InstInv, InstWrite
  <2>5. card \in [Devices -> Nat]
    BY DEF InstInv
  <2>6. card' \in [Devices -> Nat] /\ \A x \in Devices : card'[x] <= nInstalls + 1
    BY <1>3, <1>5, <2>4, <2>5
  <2> QED
    BY <1>3, <2>3, <2>6 DEF InstInv
<1> QED
  BY <1>1, <1>2, <1>4, <1>5 DEF InstWrite

\* The registry takes over the new scan.
LEMMA InstApplyKeeps ==
  ASSUME IInv, InstApply
  PROVE  IInv'
<1> USE DEF IInv
<1>1. CableInv' /\ S3Type' /\ Own' /\ UpType' /\ DownType' /\ SndType'
  BY WebFrame DEF InstApply, envVars
<1>2. DescType'
  BY TaskKept DEF InstApply, descVars
<1>3. RegType'
  <2>1. PICK st \in RegSts : st = IF reg.dev \in known' THEN "matched" ELSE "unsupported"
    BY DEF RegSts
  <2>2. reg' = NoReg \/ reg' = [reg EXCEPT !.st = st]
    BY <2>1 DEF InstApply
  <2>3. known' \subseteq Devices
    BY DEF InstApply, Rescanned, OnCard
  <2> QED
    <3>1. CASE reg' = NoReg
      BY <2>3, <3>1 DEF RegType, NoReg, RegSts, Dev
    <3>2. CASE reg' = [reg EXCEPT !.st = st]
      BY <2>3, <3>2 DEF RegType
    <3> QED
      BY <2>2, <3>1, <3>2
<1>4. inst' = [pc |-> "release", dev |-> reg.dev, ep |-> reg.ep] /\ reg.dev \in Dev /\ reg.ep \in Nat
  BY DEF InstApply, RegType
<1>5. InstInv'
  BY <1>4 DEF InstInv, InstApply, envVars
<1> QED
  BY <1>1, <1>2, <1>3, <1>5

\* No request is one that waits for nothing.
LEMMA NoInstKeeps ==
  ASSUME InstInv, inst' = NoInst, UNCHANGED <<card, nInstalls>>
  PROVE  InstInv'
BY DEF InstInv, NoInst, Dev

\* Announcements are processed again.
LEMMA InstReleaseKeeps ==
  ASSUME IInv, InstRelease
  PROVE  IInv'
<1> USE DEF IInv
<1>1. CableInv' /\ S3Type' /\ Own' /\ UpType' /\ DownType' /\ SndType'
  BY WebFrame DEF InstRelease, envVars
<1>2. RegType' /\ DescType'
  BY TaskKept DEF InstRelease, regVars, descVars
<1>3. InstInv'
  BY InstMoves, NoInstKeeps DEF InstRelease, envVars
<1> QED
  BY <1>1, <1>2, <1>3

\* The connected controller is announced again, if there is room.
LEMMA InstAgainKeeps ==
  ASSUME IInv, InstAgain
  PROVE  IInv'
<1> USE DEF IInv
<1>1. CableInv' /\ S3Type' /\ Own' /\ UpType' /\ DownType' /\ SndType'
  BY WebFrame DEF InstAgain, envVars
<1>2. RegType'
  BY TaskKept DEF InstAgain, regVars
<1>3. InstInv'
  BY NoInstKeeps DEF InstAgain, envVars
<1> DEFINE S == [dev : Dev, ep : Nat, stale : BOOLEAN]
           x == Report(inst.dev, inst.ep)
<1>4. x \in S /\ descQ \in Seq(S) /\ Len(descQ) <= DescCap /\ DescCap \in Nat
  BY ProfileAssumption DEF Report, InstInv, DescType
<1>5. descQ' = descQ \/ (Len(descQ) < DescCap /\ descQ' = Append(descQ, x))
  BY DEF InstAgain
<1>6. descHand' = descHand
  BY DEF InstAgain
<1> HIDE DEF S, x
<1>7. Append(descQ, x) \in Seq(S) /\ Len(Append(descQ, x)) = Len(descQ) + 1 /\ Len(descQ) \in Nat
  BY <1>4, AppendEntries
<1>8. descQ' \in Seq(S) /\ Len(descQ') <= DescCap
  <2>1. CASE descQ' = descQ
    BY <1>4, <2>1
  <2>2. CASE Len(descQ) < DescCap /\ descQ' = Append(descQ, x)
    BY <1>4, <1>7, <2>2
  <2> QED
    BY <1>5, <2>1, <2>2
<1>9. DescType'
  BY <1>6, <1>8 DEF DescType, S
<1> QED
  BY <1>1, <1>2, <1>3, <1>9

\* A frame is lost.
LEMMA LossKeeps ==
  ASSUME IInv, LoseUp \/ LoseDown
  PROVE  IInv'
<1> USE DEF IInv
<1>1. CableInv' /\ S3Type' /\ Own'
  BY S3Kept DEF LoseUp, LoseDown
<1>2. RegType' /\ DescType' /\ SndType' /\ InstInv'
  BY P4Kept DEF LoseUp, LoseDown
<1>3. UpType' /\ DownType'
  BY UpMoves, DownMoves, TaskKept DEF LoseUp, LoseDown
<1> QED
  BY <1>1, <1>2, <1>3

\* The P4 starts over.
LEMMA P4RestartKeeps ==
  ASSUME IInv, P4Restart
  PROVE  IInv'
<1> USE DEF IInv
<1>1. CableInv' /\ S3Type' /\ Own'
  BY S3Kept DEF P4Restart
<1>2. UpType'
  BY EmptySeq DEF UpType, P4Restart
<1>3. DownType'
  BY TaskKept DEF P4Restart
<1>4. RegType'
  BY DEF RegType, P4Restart, P4Boots, NoReg, RegSts, Dev, OnCard
<1>5. DescType'
  BY EmptySeq, ProfileAssumption DEF DescType, P4Restart, P4Boots, NoDesc, Dev
<1>6. SndType'
  <2>1. NoSnd \in [pc : SndPcs, dev : Dev, ep : Nat, ver : Versions, try : 0 .. Attempts,
                   off : 0 .. NChunks]
    BY FreshSender DEF NoSnd, SndPcs, Dev
  <2>2. NoSnd.pc = "idle"
    BY DEF NoSnd
  <2>3. snd' = NoSnd /\ sendQ' = <<>>
    BY DEF P4Restart, P4Boots
  <2> QED
    <3>1. sendQ' \in Seq(Devices) /\ Len(sendQ') <= SendCap
      BY <2>3, EmptySeq, ProfileAssumption
    <3> QED
      BY <2>1, <2>2, <2>3, <3>1 DEF SndType
<1>7. InstInv'
  BY NoInstKeeps DEF P4Restart, P4Boots
<1> QED
  BY <1>1, <1>2, <1>3, <1>4, <1>5, <1>6, <1>7

\* Without a buffer the BEGIN is refused; nothing else changes.
LEMMA S3NoBufferKeeps ==
  ASSUME IInv, S3NoBuffer
  PROVE  IInv'
<1> USE DEF IInv
<1>1. CableInv' /\ S3Type' /\ Own'
  BY S3Kept DEF S3NoBuffer
<1>2. RegType' /\ DescType' /\ SndType' /\ InstInv'
  BY P4Kept DEF S3NoBuffer
<1>3. DownType'
  BY DownMoves DEF S3NoBuffer
<1>4. UpType'
  BY ReplyKeeps DEF Refs, S3NoBuffer
<1> QED
  BY <1>1, <1>2, <1>3, <1>4

-----------------------------------------------------------------------------
(* The theorems.                                                            *)

\* Every step keeps the invariant.
LEMMA NextInv ==
  ASSUME IInv, [Next]_vars
  PROVE  IInv'
<1>1. CASE UNCHANGED vars
  BY <1>1, S3Kept, P4Kept, TaskKept DEF IInv, vars, envVars
<1>2. ASSUME NEW d \in Devices, Plug(d) PROVE IInv'
  BY <1>2, PlugKeeps
<1>3. CASE Unplug \/ Usb \/ Repeat \/ S3Restart
  BY <1>3, UnplugKeeps, UsbOpenKeeps, UsbCloseKeeps, UsbPublishKeeps, RepeatKeeps,
     S3RestartKeeps DEF Usb
<1>4. CASE S3Rx
  BY <1>4, S3BeginKeeps, S3ChunkKeeps, S3EndKeeps, S3ActivateKeeps, S3InstallKeeps, S3ClearKeeps
     DEF S3Rx
<1>5. CASE P4Rx \/ Desc
  BY <1>5, RxReplyKeeps, RxDescriptorKeeps, RxDisconnectKeeps, DescTakeKeeps, DescAdmitKeeps,
     DescProcessKeeps DEF P4Rx, Desc
<1>6. CASE Sender
  BY <1>6, SenderTakeKeeps, SenderReadKeeps, SenderSendKeeps, SenderReplyKeeps,
     SenderTimeoutKeeps, SenderFinishKeeps DEF Sender
<1>7. CASE InstBegin \/ Web
  BY <1>7, InstBeginKeeps, InstWriteKeeps, InstApplyKeeps, InstReleaseKeeps, InstAgainKeeps
     DEF Web
<1>8. CASE S3NoBuffer \/ LoseUp \/ LoseDown \/ P4Restart
  BY <1>8, S3NoBufferKeeps, LossKeeps, P4RestartKeeps
<1> QED
  BY <1>1, <1>2, <1>3, <1>4, <1>5, <1>6, <1>7, <1>8 DEF Next

\* The invariant holds in every state of the profile transfer.
THEOREM Invariance == Spec => []IInv
<1>1. IInv /\ [Next]_vars => IInv'
  BY NextInv
<1> QED
  BY <1>1, InitInv, PTL DEF Spec

\* Both queues of the P4 stay within their capacity, neither side counts past
\* the last chunk, and the epochs and versions within their bounds.
THEOREM TypeCorrect == Spec => []TypeOK
<1>1. IInv => TypeOK
  <2> SUFFICES ASSUME IInv PROVE TypeOK
    OBVIOUS
  <2> USE ProfileAssumption DEF IInv
  <2>1. ctx.ep \in Epochs /\ ctx.conn \in BOOLEAN
    BY DEF CableInv, Epochs
  <2>2. /\ usbPc \in {"idle", "announce", "retire"}
        /\ rcv.st \in {"idle", "receiving", "stored", "error"} /\ rcv.got \in 0 .. NChunks
        /\ rt.ver \in Versions
    BY DEF S3Type
  <2>3. rt.ep \in Epochs
    BY DEF S3Type, Own, OwnRecord, CableInv, Epochs
  <2>4. reg.st \in {"idle", "matched", "unsupported", "transferring", "active", "failed"}
    BY DEF RegType, RegSts
  <2>5. Len(descQ) <= DescCap /\ Len(sendQ) <= SendCap
    BY DEF DescType, SndType
  <2>6. snd.off \in 0 .. NChunks /\ snd.try \in 0 .. Attempts
    BY DEF SndType
  <2>7. inst.pc \in {"idle", "write", "apply", "release", "again"}
    BY DEF InstInv
  <2> QED
    BY <2>1, <2>2, <2>3, <2>4, <2>5, <2>6, <2>7 DEF TypeOK
<1> QED
  BY <1>1, Invariance, PTL

\* A controller is never mapped through a profile that was sent to an earlier
\* one, however the end of its connection meets the transfer, the activation
\* and the installation (flx4_profile_activate_cb checks before the runtime
\* installs; controller_profile_runtime_bound_to compares the number again).
THEOREM OwnProfile == Spec => []MapsOwnSession
<1>1. IInv => MapsOwnSession
  <2> SUFFICES ASSUME IInv, Bound PROVE rt.from = ctx.from /\ rt.dev = ctx.dev
    BY DEF MapsOwnSession
  <2> QED
    BY DEF IInv, Own, OwnRecord, Bound, BoundTo
<1> QED
  BY <1>1, Invariance, PTL
=============================================================================
