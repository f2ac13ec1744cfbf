---------------------------- MODULE Adapter_proofs ----------------------------
(***************************************************************************)
(* The adapter's two byte paths.                                           *)
(*                                                                         *)
(* The bulk pair (Usb) delivers exactly, for every packet and queue size   *)
(* and any number of packets, lost acknowledgements, bus resets and        *)
(* reconfigurations.                                                       *)
(*                                                                         *)
(* Neither half of PipeExact is inductive.  For OUT the strengthening says *)
(* where the last packet taken is (behind the endpoint's flag, in dev.rx,  *)
(* or served) and ties it to the two toggles: they agree when that packet  *)
(* is the one before host.next, and differ only after a lost               *)
(* acknowledgement, when it is host.next itself.  For IN the records made  *)
(* are split by the queue, the armed packet and what the host has read,    *)
(* and the toggles say on which side of the wire the armed packet is.      *)
(* Both hold only while the two sides agree that the endpoint is           *)
(* configured (Live), so a third part says what the device has reset when  *)
(* the host completes SET_CONFIGURATION (FreshInv).                        *)
(*                                                                         *)
(* The walker (HostFramer) reads the bus truly, for every power-of-two     *)
(* ring, every set of frames and every garble.  WalkerSound lacks only how *)
(* the frames lie in the session (Laid); the work is the ring: how far the *)
(* wrapped indices are apart, and that the two slices of a view are the    *)
(* bytes of the stream in their order (SpanIs, ViewIs, CrcIs).             *)
(***************************************************************************)
EXTENDS Usb, HostFramer, SequenceTheorems, WellFoundedInduction, TLAPS

Bit == {0, 1}
Res == {"NAK", "ACK", "STALL"}
Requests == {"desc", "bad", "address", "config", "unconfig", "iface", "clearOut", "clearIn"}

Devs == [ep0 : [st : {"Idle", "DataIn", "StatusOut", "StatusIn"}, pos : Nat, len : Nat],
         tog : Bit, addr : {-1, 1}, configured : BOOLEAN, txBusy : BOOLEAN,
         txTog : Bit, rxTog : Bit, rx : 0 .. MaxOut]
Xfers == [ep : {-1, 0, 1}, token : {"none", "IN", "OUT"}, ok : BOOLEAN]
Hws == [addr : {0, 1}, en : BOOLEAN, rst : BOOLEAN, setup : Requests \cup {"none"},
        xfer : Xfers, t0 : [res : Res, tog : Bit, data : Bit], r0 : Res,
        t1 : [res : Res, tog : Bit, data : Seq(Nat)],
        r1 : [res : Res, tog : Bit, data : 0 .. MaxOut]]
Hosts == [addr : {0, 1}, stage : {"idle", "data", "status", "done"},
          req : Requests \cup {"none"}, got : Nat, tog : Bit, up : BOOLEAN,
          outTog : Bit, next : Nat \ {0}, first : Nat \ {0}, inTog : Bit,
          in : Seq(Nat), cleared : BOOLEAN, tried : BOOLEAN]

TypeInv == /\ dev \in Devs /\ hw \in Hws /\ host \in Hosts
           /\ dev.ep0.pos <= dev.ep0.len
           /\ txq \in Seq(Nat) /\ Len(txq) <= TxqCap /\ made \in Nat /\ due \in Nat
           /\ served \in Seq(Nat \ {0})

(* A packet the controller has acknowledged and the loop has not seen yet. *)
OutWaits == hw.xfer = [ep |-> 1, token |-> "OUT", ok |-> TRUE]
InWaits == hw.xfer.ep = 1 /\ hw.xfer.token # "OUT"

(* SET_CONFIGURATION is under way; the device has carried it out.          *)
Configuring == host.stage = "status" /\ host.req = "config"
Fresh == Configuring /\ hw.setup = "none"
Live == host.up /\ ~Fresh

(* A reset takes the host out of every transfer, and a request that waits  *)
(* for service is the host's.                                              *)
ControlInv ==
    /\ hw.rst => host.stage = "idle" /\ ~host.up
    /\ hw.setup # "none" => host.req = hw.setup /\ ~hw.rst /\ hw.xfer = NoXfer
    /\ hw.setup = "config" => host.stage = "status"
    /\ ~host.cleared => host.req \notin Resyncs

(* The packet between the wire and the server, and the last one served.    *)
InHand == IF OutWaits THEN hw.r1.data ELSE dev.rx
Last == IF served = <<>> THEN 0 ELSE served[Len(served)]
Top == IF InHand # 0 THEN InHand ELSE Last
Expected == IF OutWaits THEN 1 - hw.r1.tog ELSE hw.r1.tog

ServedInv == /\ \A i \in 1 .. Len(served) - 1 : served[i] < served[i + 1]
             /\ \A k \in host.first .. Last : \E i \in DOMAIN served : served[i] = k

HandInv == /\ dev.rx # 0 => hw.r1.res # "ACK" /\ ~OutWaits
           /\ InHand # 0 => InHand > Last
           /\ InHand >= host.first => InHand = host.first \/ Last = InHand - 1
           /\ Top <= (IF host.tried THEN host.next ELSE host.next - 1)
           /\ host.first <= host.next

OutInv == Live =>
    /\ hw.r1.tog = dev.rxTog
    /\ host.outTog = Expected => Top = host.next - 1 \/ (Top < host.first /\ host.next = host.first)
    /\ host.outTog # Expected => host.tried /\ Top = host.next

(* What the loop has handed to the endpoint so far.                        *)
Popped == made - Len(txq)

QueueInv == \A i \in 1 .. Len(txq) : txq[i] = Popped + i

ArmedInv == /\ dev.txBusy <=> hw.t1.res = "ACK"
            /\ dev.txBusy =>
                 /\ hw.t1.tog = dev.txTog
                 /\ \A i \in 1 .. Len(hw.t1.data) :
                       hw.t1.data[i] = Popped - Len(hw.t1.data) + i

(* The last record the host should have.                                   *)
Reached == IF dev.txBusy /\ host.inTog = dev.txTog THEN Popped - Len(hw.t1.data) ELSE Popped

InInv == Live =>
    /\ \A i \in 1 .. Len(host.in) : host.in[i] = Reached - Len(host.in) + i
    /\ InWaits => dev.txBusy
    /\ InWaits \/ ~dev.txBusy => (InWaits <=> host.inTog # dev.txTog)

FreshInv == Fresh => /\ dev.rx = 0 /\ dev.rxTog = 0 /\ hw.r1.tog = 0 /\ dev.txTog = 0
                     /\ hw.xfer.ep # 1 /\ hw.t0.res # "STALL"


Synced == ServedInv /\ HandInv /\ OutInv /\ FreshInv

OutIInv == TypeInv /\ ControlInv /\ (~host.cleared => Synced)

Exact == QueueInv /\ ArmedInv /\ InInv /\ InExact

-----------------------------------------------------------------------------
(* What the device's handlers do, field by field.                          *)

KeepsBulk == /\ dev'.rx = dev.rx /\ dev'.rxTog = dev.rxTog
             /\ dev'.txTog = dev.txTog /\ dev'.txBusy = dev.txBusy
             /\ hw'.t1 = hw.t1 /\ hw'.r1 = hw.r1

Typed == dev' \in Devs /\ hw' \in Hws /\ dev'.ep0.pos <= dev'.ep0.len

Wiped == /\ dev'.rx = 0 /\ dev'.txBusy = FALSE
         /\ hw'.t1 = Armed("NAK", 0, <<>>)

ResetIs == /\ Typed /\ Wiped /\ hw'.rst = FALSE /\ hw'.setup = hw.setup /\ hw'.xfer = hw.xfer
           /\ dev'.rxTog = dev.rxTog /\ dev'.txTog = dev.txTog
           /\ hw'.r1 = Armed("NAK", 0, 0)

SetupIs == /\ Typed /\ hw'.rst = hw.rst /\ hw'.setup = "none" /\ hw'.xfer = NoXfer
           /\ hw.setup = "config" =>
                 /\ Wiped /\ dev'.rxTog = 0 /\ dev'.txTog = 0
                 /\ hw'.r1 = Armed("ACK", 0, 0) /\ hw'.t0.res = "ACK"
           /\ hw.setup \in {"desc", "bad", "address", "unconfig"} => KeepsBulk

Ep0Is == /\ Typed /\ KeepsBulk /\ hw'.rst = hw.rst /\ hw'.setup = hw.setup /\ hw'.xfer = NoXfer
         /\ hw.t0.res # "STALL" => hw'.t0.res # "STALL"

LEMMA OnBusResetIs == ASSUME UsbAssumption, TypeInv, OnBusReset PROVE ResetIs
<1> USE DEF Ep0Idle, Armed, Bit, Res, TypeInv
<1>0. <<>> \in Seq(Nat) /\ 0 \in 0 .. MaxOut
  BY DEF UsbAssumption
<1>1. dev' \in Devs
  BY <1>0 DEF OnBusReset, Devs
<1>2. hw' \in Hws
  BY <1>0 DEF OnBusReset, Hws
<1>3. /\ dev'.ep0 = Ep0Idle /\ dev'.rx = 0 /\ dev'.txBusy = FALSE
      /\ dev'.rxTog = dev.rxTog /\ dev'.txTog = dev.txTog
  BY DEF OnBusReset, Devs
<1>4. /\ hw'.rst = FALSE /\ hw'.setup = hw.setup /\ hw'.xfer = hw.xfer
      /\ hw'.t1 = Armed("NAK", 0, <<>>) /\ hw'.r1 = Armed("NAK", 0, 0)
  BY DEF OnBusReset, Hws
<1> QED BY <1>1, <1>2, <1>3, <1>4 DEF ResetIs, Typed, Wiped

(* SendChunk moves one packet on.                                          *)
LEMMA ChunkIs ==
    ASSUME NEW d \in Devs, d.ep0.pos < d.ep0.len
    PROVE  LET e == [d EXCEPT !.ep0.pos = @ + 1, !.tog = 1 - @]
           IN  /\ e \in Devs /\ e.ep0.pos <= e.ep0.len
               /\ e.rx = d.rx /\ e.rxTog = d.rxTog /\ e.txTog = d.txTog /\ e.txBusy = d.txBusy
<1> DEFINE p == d.ep0.pos + 1
           t == 1 - d.tog
           e == [d EXCEPT !.ep0.pos = @ + 1, !.tog = 1 - @]
<1>1. p \in Nat /\ p <= d.ep0.len /\ t \in Bit
  BY DEF Devs, Bit
<1> DEFINE q == [d.ep0 EXCEPT !.pos = p]
<1>2. e = [d EXCEPT !.ep0 = q, !.tog = t]
  BY DEF Devs
<1> HIDE DEF p, t, e
<1>3. /\ q \in [st : {"Idle", "DataIn", "StatusOut", "StatusIn"}, pos : Nat, len : Nat]
      /\ q.pos <= q.len
  BY <1>1 DEF Devs
<1> HIDE DEF q
<1>4. e \in Devs
  BY <1>1, <1>2, <1>3 DEF Devs
<1>5. e.ep0 = q /\ e.rx = d.rx /\ e.rxTog = d.rxTog /\ e.txTog = d.txTog /\ e.txBusy = d.txBusy
  BY <1>2 DEF Devs
<1> QED BY <1>3, <1>4, <1>5 DEF e

LEMMA OnEp0TransferIs ==
    ASSUME UsbAssumption, TypeInv, NEW token, OnEp0Transfer(token) PROVE Ep0Is
<1> USE DEF Ep0Idle, Armed, Bit, Res, NoXfer
<1> DEFINE h == [hw EXCEPT !.xfer = NoXfer]
<1>1. /\ h \in Hws /\ h.rst = hw.rst /\ h.setup = hw.setup /\ h.xfer = NoXfer
      /\ h.t1 = hw.t1 /\ h.r1 = hw.r1 /\ h.t0 = hw.t0
  BY DEF TypeInv, Hws, Xfers
<1>2. dev \in Devs /\ dev.ep0.pos <= dev.ep0.len
  BY DEF TypeInv
<1> HIDE DEF h
<1>3. CASE /\ dev.ep0.pos < dev.ep0.len
           /\ dev' = SendChunk(dev, h).dev /\ hw' = SendChunk(dev, h).hw
  <2>1. dev' = [dev EXCEPT !.ep0.pos = @ + 1, !.tog = 1 - @]
    BY <1>3 DEF SendChunk
  <2>2. hw' = [h EXCEPT !.t0 = Armed("ACK", dev.tog, 1)]
    BY <1>3 DEF SendChunk
  <2>3. /\ dev' \in Devs /\ dev'.ep0.pos <= dev'.ep0.len /\ dev'.rx = dev.rx
        /\ dev'.rxTog = dev.rxTog /\ dev'.txTog = dev.txTog /\ dev'.txBusy = dev.txBusy
    BY <1>2, <1>3, <2>1, ChunkIs
  <2>4. hw' \in Hws
    BY <1>1, <1>2, <2>2 DEF Hws, Devs
  <2> QED BY <1>1, <2>2, <2>3, <2>4 DEF Ep0Is, Typed, KeepsBulk, Hws
<1>4. CASE dev' = [dev EXCEPT !.ep0.st = "StatusOut"] /\ hw' = [h EXCEPT !.t0.res = "NAK", !.r0 = "ACK"]
  BY <1>1, <1>2, <1>4 DEF Ep0Is, Typed, KeepsBulk, Devs, Hws
<1>5. CASE /\ dev' = [dev EXCEPT !.ep0 = Ep0Idle, !.addr = -1]
           /\ hw' = [h EXCEPT !.t0.res = "NAK", !.addr = IF dev.addr = -1 THEN @ ELSE dev.addr]
  <2>1. dev' \in Devs
    BY <1>2, <1>5 DEF Devs
  <2>2. dev'.ep0 = Ep0Idle
    BY <1>2, <1>5 DEF Devs
  <2>3. dev'.ep0.pos <= dev'.ep0.len
    BY <2>2
  <2>4. hw' \in Hws
    BY <1>1, <1>2, <1>5 DEF Hws, Devs
  <2> QED BY <1>1, <1>2, <1>5, <2>1, <2>3, <2>4 DEF Ep0Is, Typed, KeepsBulk, Devs, Hws
<1>6. CASE dev' = [dev EXCEPT !.ep0 = Ep0Idle] /\ hw' = [h EXCEPT !.r0 = "NAK"]
  <2>1. dev' \in Devs
    BY <1>2, <1>6 DEF Devs
  <2>2. dev'.ep0 = Ep0Idle
    BY <1>2, <1>6 DEF Devs
  <2>3. dev'.ep0.pos <= dev'.ep0.len
    BY <2>2
  <2>4. hw' \in Hws
    BY <1>1, <1>6 DEF Hws
  <2> QED BY <1>1, <1>2, <1>6, <2>1, <2>3, <2>4 DEF Ep0Is, Typed, KeepsBulk, Devs, Hws
<1>7. CASE dev' = dev /\ hw' = h
  BY <1>1, <1>2, <1>7 DEF Ep0Is, Typed, KeepsBulk
<1> QED BY <1>3, <1>4, <1>5, <1>6, <1>7 DEF OnEp0Transfer, h

(* The state a request finds, and what it leaves before the answer.        *)
LEMMA RequestedIs ==
    ASSUME UsbAssumption, NEW d \in Devs, NEW h \in Hws, NEW req \in Requests
    PROVE  LET s == Requested(req, d, h)
           IN  /\ s.dev \in Devs /\ s.hw \in Hws /\ s.dev.ep0 = d.ep0
               /\ s.hw.rst = h.rst /\ s.hw.setup = h.setup /\ s.hw.xfer = h.xfer
               /\ req = "config" =>
                    /\ s.dev.rx = 0 /\ s.dev.txBusy = FALSE
                    /\ s.dev.rxTog = 0 /\ s.dev.txTog = 0
                    /\ s.hw.t1 = Armed("NAK", 0, <<>>) /\ s.hw.r1 = Armed("ACK", 0, 0)
               /\ req \in {"desc", "bad", "address", "unconfig"} =>
                    /\ s.dev.rx = d.rx /\ s.dev.rxTog = d.rxTog
                    /\ s.dev.txTog = d.txTog /\ s.dev.txBusy = d.txBusy
                    /\ s.hw.t1 = h.t1 /\ s.hw.r1 = h.r1
<1> USE DEF Armed, Bit, Res
<1>0. <<>> \in Seq(Nat) /\ 0 \in 0 .. MaxOut
  BY DEF UsbAssumption
<1>1. CASE req = "config"
  <2>1. /\ Requested(req, d, h).dev = [d EXCEPT !.txBusy = FALSE, !.txTog = 0, !.rxTog = 0,
                                                 !.rx = 0, !.configured = TRUE]
        /\ Requested(req, d, h).hw = [h EXCEPT !.en = TRUE, !.r1 = Armed("ACK", 0, 0),
                                                !.t1 = Armed("NAK", 0, <<>>)]
    BY <1>1 DEF Requested, ConfigureEp1
  <2>2. Requested(req, d, h).dev \in Devs
    BY <1>0, <2>1 DEF Devs
  <2>3. Requested(req, d, h).hw \in Hws
    <3>1. Armed("ACK", 0, 0) \in [res : Res, tog : Bit, data : 0 .. MaxOut]
      BY <1>0
    <3>2. Armed("NAK", 0, <<>>) \in [res : Res, tog : Bit, data : Seq(Nat)]
      BY <1>0
    <3> QED BY <2>1, <3>1, <3>2 DEF Hws
  <2> QED BY <1>1, <2>1, <2>2, <2>3, ZenonT(40) DEF Devs, Hws
<1>2. CASE req = "address"
  <2>1. Requested(req, d, h).dev = [d EXCEPT !.addr = 1] /\ Requested(req, d, h).hw = h
    BY <1>2 DEF Requested
  <2> QED BY <1>2, <2>1 DEF Devs
<1>3. CASE req = "unconfig"
  <2>1. Requested(req, d, h).dev = [d EXCEPT !.configured = FALSE] /\ Requested(req, d, h).hw = h
    BY <1>3 DEF Requested
  <2> QED BY <1>3, <2>1 DEF Devs
<1>4. CASE req = "clearOut"
  <2>1. Requested(req, d, h).dev = [d EXCEPT !.rxTog = 0] /\ Requested(req, d, h).hw = h
    BY <1>4 DEF Requested
  <2> QED BY <1>4, <2>1 DEF Devs
<1>5. CASE req = "clearIn"
  <2>1. Requested(req, d, h).dev = [d EXCEPT !.txTog = 0] /\ Requested(req, d, h).hw = h
    BY <1>5 DEF Requested
  <2> QED BY <1>5, <2>1 DEF Devs
<1>6. CASE req \in {"iface", "desc", "bad"}
  <2>1. Requested(req, d, h).dev = d /\ Requested(req, d, h).hw = h
    BY <1>6 DEF Requested
  <2> QED BY <1>6, <2>1
<1> QED BY <1>1, <1>2, <1>3, <1>4, <1>5, <1>6 DEF Requests

LEMMA OnSetupIs ==
    ASSUME UsbAssumption, TypeInv, hw.setup # "none", OnSetup PROVE SetupIs
<1> USE DEF Armed, Bit, Res, Ep0Idle, NoXfer
<1> DEFINE req == hw.setup
           d0 == [dev EXCEPT !.ep0 = Ep0Idle]
           h0 == [hw EXCEPT !.setup = "none", !.xfer = NoXfer, !.r0 = "NAK", !.t0.res = "NAK"]
           s == Requested(req, d0, h0)
           n == Replied(req)
           d1 == [s.dev EXCEPT !.ep0 = [st |-> "DataIn", pos |-> 0, len |-> n], !.tog = 1]
           data == SendChunk(d1, s.hw)
<1>1. /\ d0 \in Devs /\ d0.ep0 = Ep0Idle /\ d0.rx = dev.rx /\ d0.rxTog = dev.rxTog
      /\ d0.txTog = dev.txTog /\ d0.txBusy = dev.txBusy
  BY DEF TypeInv, Devs
<1>2. /\ h0 \in Hws /\ h0.rst = hw.rst /\ h0.setup = "none" /\ h0.xfer = NoXfer
      /\ h0.t1 = hw.t1 /\ h0.r1 = hw.r1
  BY DEF TypeInv, Hws, Xfers
<1>3. req \in Requests
  BY DEF TypeInv, Hws
<1> HIDE DEF d0, h0
<1>4. /\ s.dev \in Devs /\ s.hw \in Hws /\ s.dev.ep0 = Ep0Idle
      /\ s.hw.rst = hw.rst /\ s.hw.setup = "none" /\ s.hw.xfer = NoXfer
      /\ req = "config" =>
           /\ s.dev.rx = 0 /\ s.dev.txBusy = FALSE
           /\ s.dev.rxTog = 0 /\ s.dev.txTog = 0
           /\ s.hw.t1 = Armed("NAK", 0, <<>>) /\ s.hw.r1 = Armed("ACK", 0, 0)
      /\ req \in {"desc", "bad", "address", "unconfig"} =>
           /\ s.dev.rx = dev.rx /\ s.dev.rxTog = dev.rxTog
           /\ s.dev.txTog = dev.txTog /\ s.dev.txBusy = dev.txBusy
           /\ s.hw.t1 = hw.t1 /\ s.hw.r1 = hw.r1
  BY <1>1, <1>2, <1>3, RequestedIs
<1>5. n \in {-1, 0} \/ (n \in Nat /\ n > 0)
  BY <1>3 DEF Replied, Requests, UsbAssumption
<1>6. CASE n = -1
  <2>0. req # "config"
    BY <1>6 DEF Replied
  <2>1. dev' = s.dev /\ hw' = [s.hw EXCEPT !.t0.res = "STALL", !.r0 = "STALL"]
    BY <1>6 DEF OnSetup, d0, h0
  <2> HIDE DEF s
  <2>2. hw' \in Hws
    BY <1>4, <2>1 DEF Hws
  <2>4. dev'.ep0.pos <= dev'.ep0.len
    BY <1>4, <2>1
  <2>3. hw'.rst = s.hw.rst /\ hw'.setup = s.hw.setup /\ hw'.xfer = s.hw.xfer /\ hw'.t1 = s.hw.t1 /\ hw'.r1 = s.hw.r1
    BY <1>4, <2>1 DEF Hws
  <2> QED BY <1>4, <2>0, <2>1, <2>2, <2>3, <2>4 DEF SetupIs, KeepsBulk, Wiped, Typed
<1>7. CASE n = 0
  <2>1. dev' = [s.dev EXCEPT !.ep0.st = "StatusIn"] /\ hw' = [s.hw EXCEPT !.t0 = Armed("ACK", 1, 0)]
    BY <1>7 DEF OnSetup, d0, h0
  <2> HIDE DEF s
  <2>2. dev' \in Devs /\ dev'.ep0.pos <= dev'.ep0.len
    BY <1>4, <2>1 DEF Devs
  <2>3. hw' \in Hws
    BY <1>4, <2>1 DEF Hws
  <2>4. /\ hw'.rst = s.hw.rst /\ hw'.setup = s.hw.setup /\ hw'.xfer = s.hw.xfer
        /\ hw'.t1 = s.hw.t1 /\ hw'.r1 = s.hw.r1
        /\ hw'.t0.res = "ACK"
    BY <1>4, <2>1 DEF Hws
  <2>5. dev'.rx = s.dev.rx /\ dev'.rxTog = s.dev.rxTog /\ dev'.txTog = s.dev.txTog /\ dev'.txBusy = s.dev.txBusy
    BY <1>4, <2>1 DEF Devs
  <2> QED BY <1>4, <2>2, <2>3, <2>4, <2>5 DEF SetupIs, KeepsBulk, Wiped, Typed
<1>8. CASE n \in Nat /\ n > 0
  <2>1. dev' = data.dev /\ hw' = data.hw
    BY <1>8 DEF OnSetup, d0, h0
  <2> HIDE DEF s, n
  <2>2. /\ d1 \in Devs /\ d1.ep0.pos = 0 /\ d1.ep0.len = n /\ d1.rx = s.dev.rx /\ d1.rxTog = s.dev.rxTog
        /\ d1.txTog = s.dev.txTog /\ d1.txBusy = s.dev.txBusy
    BY <1>4, <1>8 DEF Devs
  <2> HIDE DEF d1
  <2>3. dev' = [d1 EXCEPT !.ep0.pos = @ + 1, !.tog = 1 - @] /\ hw' = [s.hw EXCEPT !.t0 = Armed("ACK", d1.tog, 1)]
    BY <2>1 DEF SendChunk
  <2>4. /\ dev' \in Devs /\ dev'.ep0.pos <= dev'.ep0.len /\ dev'.rx = d1.rx
        /\ dev'.rxTog = d1.rxTog /\ dev'.txTog = d1.txTog /\ dev'.txBusy = d1.txBusy
    BY <1>8, <2>2, <2>3, ChunkIs
  <2>5. hw' \in Hws
    BY <1>4, <2>2, <2>3, SMTT(20) DEF Hws, Devs
  <2>6. /\ hw'.rst = s.hw.rst /\ hw'.setup = s.hw.setup /\ hw'.xfer = s.hw.xfer
        /\ hw'.t1 = s.hw.t1 /\ hw'.r1 = s.hw.r1 /\ hw'.t0.res = "ACK"
    BY <1>4, <2>3 DEF Hws
  <2>7. dev'.rx = s.dev.rx /\ dev'.rxTog = s.dev.rxTog /\ dev'.txTog = s.dev.txTog /\ dev'.txBusy = s.dev.txBusy
    BY <2>2, <2>4
  <2> QED BY <1>4, <2>4, <2>5, <2>6, <2>7 DEF SetupIs, KeepsBulk, Wiped, Typed
<1> QED BY <1>5, <1>6, <1>7, <1>8

TakenIs == /\ Typed /\ hw'.rst = hw.rst /\ hw'.setup = hw.setup /\ hw'.xfer = NoXfer
           /\ hw'.t0 = hw.t0 /\ hw'.t1 = hw.t1
           /\ dev'.txTog = dev.txTog /\ dev'.txBusy = dev.txBusy
           /\ dev'.rx = hw.r1.data /\ dev'.rxTog = 1 - dev.rxTog
           /\ hw'.r1.res = "NAK" /\ hw'.r1.tog = 1 - dev.rxTog

SentIs == /\ Typed /\ hw'.rst = hw.rst /\ hw'.setup = hw.setup /\ hw'.xfer = NoXfer
          /\ hw'.t0 = hw.t0 /\ hw'.r1 = hw.r1
          /\ dev'.rx = dev.rx /\ dev'.rxTog = dev.rxTog
          /\ dev'.txTog = 1 - dev.txTog /\ dev'.txBusy = FALSE
          /\ hw'.t1.res = "NAK"

LEMMA Flip == ASSUME NEW b \in Bit PROVE 1 - b \in Bit /\ 1 - b # b /\ 1 - (1 - b) = b
BY DEF Bit

LEMMA TypeParts ==
    ASSUME TypeInv
    PROVE  /\ dev.rxTog \in Bit /\ dev.txTog \in Bit /\ dev.rx \in 0 .. MaxOut /\ dev.rx \in Nat
           /\ dev.txBusy \in BOOLEAN
           /\ hw.r1.tog \in Bit /\ hw.r1.data \in 0 .. MaxOut /\ hw.r1.data \in Nat
           /\ hw.t1.tog \in Bit /\ hw.t1.data \in Seq(Nat)
           /\ hw.xfer \in Xfers /\ hw.setup \in Requests \cup {"none"} /\ hw.rst \in BOOLEAN
           /\ host.outTog \in Bit /\ host.inTog \in Bit /\ host.next \in Nat \ {0}
           /\ host.first \in Nat \ {0} /\ host.up \in BOOLEAN /\ host.tried \in BOOLEAN
           /\ host.cleared \in BOOLEAN /\ host.in \in Seq(Nat)
<1>1. /\ dev.rxTog \in Bit /\ dev.txTog \in Bit /\ dev.rx \in 0 .. MaxOut
      /\ dev.txBusy \in BOOLEAN
  BY DEF TypeInv, Devs
<1>2. /\ hw.r1.tog \in Bit /\ hw.r1.data \in 0 .. MaxOut
      /\ hw.t1.tog \in Bit /\ hw.t1.data \in Seq(Nat)
      /\ hw.xfer \in Xfers /\ hw.setup \in Requests \cup {"none"} /\ hw.rst \in BOOLEAN
  BY DEF TypeInv, Hws
<1>3. /\ host.outTog \in Bit /\ host.inTog \in Bit /\ host.next \in Nat \ {0}
      /\ host.first \in Nat \ {0} /\ host.up \in BOOLEAN /\ host.tried \in BOOLEAN
      /\ host.cleared \in BOOLEAN /\ host.in \in Seq(Nat)
  BY DEF TypeInv, Hosts
<1> QED BY <1>1, <1>2, <1>3

LEMMA OnEp1OutIs ==
    ASSUME TypeInv, OnEp1Out(TRUE) PROVE TakenIs
<1> DEFINE t == 1 - dev.rxTog
<1>1. t \in Bit /\ hw.r1.data \in 0 .. MaxOut
  BY Flip, TypeParts
<1>2. dev' = [dev EXCEPT !.rxTog = t, !.rx = hw.r1.data]
  BY DEF OnEp1Out, TypeInv, Devs
<1>3. hw' = [hw EXCEPT !.xfer = NoXfer, !.r1.tog = t, !.r1.res = "NAK"]
  BY DEF OnEp1Out
<1> HIDE DEF t
<1>4. dev' \in Devs
  BY <1>1, <1>2 DEF TypeInv, Devs
<1>5. /\ dev'.ep0 = dev.ep0 /\ dev'.txTog = dev.txTog /\ dev'.txBusy = dev.txBusy
      /\ dev'.rx = hw.r1.data /\ dev'.rxTog = t
  BY <1>2 DEF TypeInv, Devs
<1>6. hw' \in Hws
  BY <1>1, <1>3 DEF TypeInv, Hws, NoXfer, Xfers, Res
<1>7. /\ hw'.rst = hw.rst /\ hw'.setup = hw.setup /\ hw'.xfer = NoXfer
      /\ hw'.t0 = hw.t0 /\ hw'.t1 = hw.t1 /\ hw'.r1.res = "NAK" /\ hw'.r1.tog = t
  BY <1>3 DEF TypeInv, Hws
<1> QED BY <1>4, <1>5, <1>6, <1>7 DEF TakenIs, Typed, TypeInv, t

LEMMA OnEp1InIs == ASSUME TypeInv, OnEp1In PROVE SentIs
<1> DEFINE t == 1 - dev.txTog
<1>1. t \in Bit
  BY Flip, TypeParts
<1>2. dev' = [dev EXCEPT !.txTog = t, !.txBusy = FALSE]
  BY DEF OnEp1In, TypeInv, Devs
<1>3. hw' = [hw EXCEPT !.xfer = NoXfer, !.t1.res = "NAK"]
  BY DEF OnEp1In
<1> HIDE DEF t
<1>4. dev' \in Devs
  BY <1>1, <1>2 DEF TypeInv, Devs
<1>5. /\ dev'.ep0 = dev.ep0 /\ dev'.rx = dev.rx /\ dev'.rxTog = dev.rxTog
      /\ dev'.txTog = t /\ dev'.txBusy = FALSE
  BY <1>2 DEF TypeInv, Devs
<1>6. hw' \in Hws
  BY <1>3 DEF TypeInv, Hws, NoXfer, Xfers, Res
<1>7. /\ hw'.rst = hw.rst /\ hw'.setup = hw.setup /\ hw'.xfer = NoXfer
      /\ hw'.t0 = hw.t0 /\ hw'.r1 = hw.r1 /\ hw'.t1.res = "NAK"
  BY <1>3 DEF TypeInv, Hws
<1> QED BY <1>4, <1>5, <1>6, <1>7 DEF SentIs, Typed, TypeInv, t

(* A poll serves one flag, or none.                                        *)
PollIs == \/ hw.rst /\ ResetIs
          \/ ~hw.rst /\ hw.setup # "none" /\ SetupIs
          \/ ~hw.rst /\ hw.setup = "none" /\ ~OutWaits /\ ~InWaits /\ Ep0Is
          \/ ~hw.rst /\ hw.setup = "none" /\ OutWaits /\ TakenIs
          \/ ~hw.rst /\ hw.setup = "none" /\ ~OutWaits /\ InWaits /\ SentIs
          \/ UNCHANGED <<dev, hw>>

LEMMA UsbPollIs == ASSUME UsbAssumption, TypeInv, UsbPoll PROVE PollIs
<1>1. CASE hw.rst
  BY <1>1, OnBusResetIs, TypeParts DEF UsbPoll, PollIs
<1>2. CASE ~hw.rst /\ hw.setup # "none"
  BY <1>2, OnSetupIs DEF UsbPoll, PollIs
<1>3. CASE ~hw.rst /\ hw.setup = "none" /\ hw.xfer.ep = 0
  <2>1. OnEp0Transfer(hw.xfer.token)
    BY <1>3 DEF UsbPoll
  <2>2. Ep0Is
    BY <2>1, OnEp0TransferIs
  <2> QED BY <1>3, <2>2 DEF PollIs, OutWaits, InWaits
<1>4. CASE ~hw.rst /\ hw.setup = "none" /\ hw.xfer.ep = 1
  <2>1. IF hw.xfer.token = "OUT" THEN OnEp1Out(hw.xfer.ok) ELSE OnEp1In
    BY <1>4 DEF UsbPoll
  <2>2. hw.xfer \in Xfers
    BY TypeParts
  <2>3. CASE hw.xfer.token = "OUT" /\ hw.xfer.ok
    <3>1. OutWaits
      BY <1>4, <2>2, <2>3 DEF OutWaits, Xfers
    <3>2. hw.xfer.ok = TRUE
      BY <2>2, <2>3 DEF Xfers
    <3>3. TakenIs
      BY <2>1, <2>3, <3>2, OnEp1OutIs
    <3> QED BY <1>4, <3>1, <3>3 DEF PollIs
  <2>4. CASE hw.xfer.token = "OUT" /\ ~hw.xfer.ok
    <3>1. ~OutWaits /\ ~InWaits
      BY <2>4 DEF OutWaits, InWaits
    <3>2. dev' = dev /\ hw' = [hw EXCEPT !.xfer = NoXfer]
      BY <2>1, <2>4 DEF OnEp1Out
    <3>3. hw' \in Hws
      BY <3>2 DEF TypeInv, Hws, NoXfer, Xfers
    <3>4. Ep0Is
      BY <3>2, <3>3 DEF Ep0Is, Typed, KeepsBulk, TypeInv, Hws
    <3> QED BY <1>4, <3>1, <3>4 DEF PollIs
  <2>5. CASE hw.xfer.token # "OUT"
    <3>1. ~OutWaits /\ InWaits
      BY <1>4, <2>5 DEF OutWaits, InWaits
    <3>2. SentIs
      BY <2>1, <2>5, OnEp1InIs
    <3> QED BY <1>4, <3>1, <3>2 DEF PollIs
  <2> QED BY <2>3, <2>4, <2>5
<1>5. CASE ~hw.rst /\ hw.setup = "none" /\ hw.xfer.ep # 0 /\ hw.xfer.ep # 1
  BY <1>5 DEF UsbPoll, PollIs
<1> QED BY <1>1, <1>2, <1>3, <1>4, <1>5

-----------------------------------------------------------------------------
(* The rest of the loop and the host, field by field.                      *)

Loaded == /\ dev' \in Devs /\ hw' \in Hws /\ dev'.ep0 = dev.ep0
          /\ hw'.rst = hw.rst /\ hw'.setup = hw.setup /\ hw'.xfer = hw.xfer
          /\ hw'.t0 = hw.t0 /\ hw'.r1 = hw.r1
          /\ dev'.rx = dev.rx /\ dev'.rxTog = dev.rxTog /\ dev'.txTog = dev.txTog
          /\ dev'.txBusy = TRUE
          /\ hw'.t1 = Armed("ACK", dev.txTog, First(txq, Mps))

(* First is a prefix, and Tx leaves the rest.                              *)
LEMMA FirstIs ==
    ASSUME UsbAssumption, NEW s \in Seq(Nat)
    PROVE  /\ First(s, Mps) \in Seq(Nat) /\ Len(First(s, Mps)) <= Len(s)
           /\ Len(First(s, Mps)) \in Nat
           /\ \A i \in 1 .. Len(First(s, Mps)) : First(s, Mps)[i] = s[i]
<1> DEFINE m == IF Len(s) < Mps THEN Len(s) ELSE Mps
<1>1. m \in 0 .. Len(s) /\ Len(s) \in Nat
  BY DEF UsbAssumption
<1>2. First(s, Mps) = SubSeq(s, 1, m)
  BY DEF First
<1> HIDE DEF m
<1> QED BY <1>1, <1>2, SubSeqProperties

RestOf(s) == SubSeq(s, Len(First(s, Mps)) + 1, Len(s))

LEMMA RestIs ==
    ASSUME UsbAssumption, NEW s \in Seq(Nat)
    PROVE  /\ RestOf(s) \in Seq(Nat) /\ Len(RestOf(s)) = Len(s) - Len(First(s, Mps))
           /\ \A i \in 1 .. Len(RestOf(s)) : RestOf(s)[i] = s[Len(First(s, Mps)) + i]
<1> DEFINE m == Len(First(s, Mps))
<1>1. m \in Nat /\ m <= Len(s) /\ Len(s) \in Nat
  BY FirstIs
<1>2. RestOf(s) = SubSeq(s, m + 1, Len(s))
  BY DEF RestOf
<1> HIDE DEF m
<1>3. /\ RestOf(s) \in Seq(Nat) /\ Len(RestOf(s)) = Len(s) - m
      /\ \A i \in 1 .. Len(s) - m : RestOf(s)[i] = s[m + i]
  BY <1>1, <1>2
<1> QED BY <1>3 DEF m

LEMMA TxIs == ASSUME UsbAssumption, TypeInv, Tx PROVE Loaded /\ txq' = RestOf(txq)
<1>1. First(txq, Mps) \in Seq(Nat)
  BY FirstIs DEF TypeInv
<1>2. dev.txTog \in Bit
  BY TypeParts
<1>3. dev' \in Devs
  BY DEF Tx, TypeInv, Devs
<1> DEFINE a == Armed("ACK", dev.txTog, First(txq, Mps))
<1>4. a \in [res : Res, tog : Bit, data : Seq(Nat)]
  BY <1>1, <1>2 DEF Armed, Res
<1>5. hw' = [hw EXCEPT !.t1 = a]
  BY DEF Tx
<1> HIDE DEF a
<1>6. hw' \in Hws
  BY <1>4, <1>5 DEF TypeInv, Hws
<1>7. /\ hw'.rst = hw.rst /\ hw'.setup = hw.setup /\ hw'.xfer = hw.xfer
      /\ hw'.t0 = hw.t0 /\ hw'.r1 = hw.r1 /\ hw'.t1 = a
  BY <1>5 DEF TypeInv, Hws
<1>8. /\ dev'.rx = dev.rx /\ dev'.rxTog = dev.rxTog /\ dev'.txTog = dev.txTog
      /\ dev'.txBusy = TRUE /\ dev'.ep0 = dev.ep0
  BY DEF Tx, TypeInv, Devs
<1>9. txq' = RestOf(txq)
  BY DEF Tx, RestOf
<1> QED BY <1>3, <1>6, <1>7, <1>8, <1>9 DEF Loaded, a

Served == /\ dev.rx # 0 /\ served' = Append(served, dev.rx)
          /\ dev' \in Devs /\ hw' \in Hws /\ dev'.ep0 = dev.ep0 /\ dev'.rx = 0
          /\ dev'.rxTog = dev.rxTog /\ dev'.txTog = dev.txTog /\ dev'.txBusy = dev.txBusy
          /\ hw'.rst = hw.rst /\ hw'.setup = hw.setup /\ hw'.xfer = hw.xfer
          /\ hw'.t0 = hw.t0 /\ hw'.t1 = hw.t1 /\ hw'.r1.tog = hw.r1.tog
          /\ Free >= Headroom /\ Queue(1) /\ due' = due + 1

LEMMA RxIs ==
    ASSUME UsbAssumption, TypeInv, Rx
    PROVE  Served \/ UNCHANGED <<served, boot, txq, made, due, dev, hw>>
<1>1. CASE dev.rx # 0 /\ Free >= Headroom
  <2>1. /\ served' = Append(served, dev.rx) /\ Queue(1) /\ due' = due + 1
        /\ dev' = [dev EXCEPT !.rx = 0] /\ hw' = [hw EXCEPT !.r1.res = "ACK"]
    BY <1>1 DEF Rx
  <2>2. 0 \in 0 .. MaxOut
    BY DEF UsbAssumption
  <2>3. /\ dev' \in Devs /\ dev'.ep0 = dev.ep0 /\ dev'.rx = 0
        /\ dev'.rxTog = dev.rxTog /\ dev'.txTog = dev.txTog /\ dev'.txBusy = dev.txBusy
    BY <2>1, <2>2 DEF TypeInv, Devs
  <2>4. hw' \in Hws
    BY <2>1 DEF TypeInv, Hws, Res
  <2>5. /\ hw'.rst = hw.rst /\ hw'.setup = hw.setup /\ hw'.xfer = hw.xfer
        /\ hw'.t0 = hw.t0 /\ hw'.t1 = hw.t1 /\ hw'.r1.tog = hw.r1.tog
    BY <2>1 DEF TypeInv, Hws
  <2> QED BY <1>1, <2>1, <2>3, <2>4, <2>5 DEF Served
<1>2. CASE ~(dev.rx # 0 /\ Free >= Headroom)
  BY <1>2 DEF Rx
<1> QED BY <1>1, <1>2

(* What a record adds to the queue, or drops.                              *)
LEMMA QueueIs ==
    ASSUME UsbAssumption, TypeInv, NEW n \in Nat, Queue(n)
    PROVE  /\ txq' \in Seq(Nat) /\ Len(txq') <= TxqCap /\ made' \in Nat
           /\ n <= Free => /\ Len(txq') = Len(txq) + n /\ made' = made + n
                           /\ \A i \in 1 .. Len(txq) : txq'[i] = txq[i]
                           /\ \A i \in 1 .. n : txq'[Len(txq) + i] = made + i
<1> DEFINE m == IF n <= Free THEN n ELSE Free
           more == [i \in 1 .. m |-> made + i]
<1>1. /\ txq \in Seq(Nat) /\ Len(txq) \in Nat /\ TxqCap \in Nat /\ made \in Nat
      /\ Len(txq) <= TxqCap
  BY DEF TypeInv, UsbAssumption
<1>2. m \in Nat /\ Len(txq) + m <= TxqCap /\ (n <= Free => m = n)
  BY <1>1 DEF Free
<1>3. txq' = txq \o more /\ made' = made + n
  BY DEF Queue, Free
<1> HIDE DEF m
<1>4. more \in Seq(Nat) /\ Len(more) = m /\ \A i \in 1 .. m : more[i] = made + i
  BY <1>1, <1>2
<1> HIDE DEF more
<1>5. /\ txq' \in Seq(Nat) /\ Len(txq') = Len(txq) + m
      /\ \A i \in 1 .. Len(txq) : txq'[i] = txq[i]
      /\ \A i \in 1 .. m : txq'[Len(txq) + i] = more[i]
  <2>1. /\ txq' \in Seq(Nat) /\ Len(txq') = Len(txq) + m
        /\ \A i \in 1 .. Len(txq) + m :
              txq'[i] = IF i <= Len(txq) THEN txq[i] ELSE more[i - Len(txq)]
    BY <1>1, <1>3, <1>4, ConcatProperties
  <2>2. ASSUME NEW i \in 1 .. m PROVE txq'[Len(txq) + i] = more[i]
    <3>1. /\ Len(txq) + i \in 1 .. Len(txq) + m /\ ~(Len(txq) + i <= Len(txq))
          /\ Len(txq) + i - Len(txq) = i
      BY <1>1, <1>2
    <3> QED BY <2>1, <3>1
  <2>3. ASSUME NEW i \in 1 .. Len(txq) PROVE txq'[i] = txq[i]
    <3>1. i \in 1 .. Len(txq) + m /\ i <= Len(txq)
      BY <1>1, <1>2
    <3> QED BY <2>1, <3>1
  <2> QED BY <2>1, <2>2, <2>3
<1>6. made' \in Nat /\ Len(txq') <= TxqCap
  BY <1>1, <1>2, <1>3, <1>5
<1>7. ASSUME n <= Free, NEW i \in 1 .. n PROVE txq'[Len(txq) + i] = made + i
  BY <1>2, <1>4, <1>5, <1>7
<1>8. n <= Free => Len(txq') = Len(txq) + n
  BY <1>2, <1>5
<1> QED BY <1>3, <1>5, <1>6, <1>7, <1>8

KeepsData == /\ host'.outTog = host.outTog /\ host'.next = host.next /\ host'.first = host.first
             /\ host'.inTog = host.inTog /\ host'.in = host.in /\ host'.tried = host.tried

KeepsPipes == hw'.t1 = hw.t1 /\ hw'.r1 = hw.r1

AskedIs(req) ==
    /\ hw' \in Hws /\ host' \in Hosts /\ KeepsPipes /\ KeepsData
    /\ hw'.rst = hw.rst /\ hw'.xfer = hw.xfer /\ hw'.setup = req
    /\ host'.up = host.up /\ host'.req = req
    /\ host'.stage = (IF req = "desc" THEN "data" ELSE "status")
    /\ host'.cleared = (host.cleared \/ req \in Resyncs)

LEMMA HostSetupIs ==
    ASSUME TypeInv, HostSetup PROVE \E req \in Requests : AskedIs(req)
<1>1. PICK req \in Requests :
          /\ hw' = [hw EXCEPT !.setup = req]
          /\ host' = [host EXCEPT !.req = req, !.got = 0, !.tog = 1,
                         !.cleared = @ \/ req \in Resyncs,
                         !.stage = IF req = "desc" THEN "data" ELSE "status"]
  BY DEF HostSetup, Requests, Resyncs
<1>2. hw' \in Hws
  BY <1>1 DEF TypeInv, Hws
<1>3. hw'.rst = hw.rst /\ hw'.xfer = hw.xfer /\ hw'.setup = req /\ KeepsPipes
  BY <1>1 DEF TypeInv, Hws, KeepsPipes
<1> DEFINE c == host.cleared \/ req \in Resyncs
           g == IF req = "desc" THEN "data" ELSE "status"
<1>4. c \in BOOLEAN /\ g \in {"data", "status"}
  OBVIOUS
<1>5. host' = [host EXCEPT !.req = req, !.got = 0, !.tog = 1, !.cleared = c, !.stage = g]
  BY <1>1 DEF TypeInv, Hosts
<1> HIDE DEF c, g
<1>6. host' \in Hosts
  BY <1>4, <1>5 DEF TypeInv, Hosts, Bit
<1>7. /\ KeepsData /\ host'.up = host.up /\ host'.req = req /\ host'.stage = g
      /\ host'.cleared = c
  BY <1>5 DEF TypeInv, Hosts, KeepsData
<1>8. AskedIs(req)
  BY <1>2, <1>3, <1>6, <1>7 DEF AskedIs, c, g
<1> QED BY <1>8

LEMMA AbandonIs ==
    ASSUME TypeInv
    PROVE  /\ Abandon \in Nat \ {0}
           /\ Abandon - 1 = (IF host.tried THEN host.next ELSE host.next - 1)
           /\ Abandon >= host.next
<1>1. host.next \in Nat \ {0} /\ host.tried \in BOOLEAN
  BY TypeParts
<1>2. CASE host.tried
  <2>1. Abandon = host.next + 1
    BY <1>2 DEF Abandon
  <2> QED BY <1>1, <1>2, <2>1
<1>3. CASE ~host.tried
  <2>1. Abandon = host.next
    BY <1>3 DEF Abandon
  <2> QED BY <1>1, <1>3, <2>1
<1> QED BY <1>2, <1>3

(* A token raises the controller's flag.                                   *)
LEMMA FlagIs ==
    ASSUME TypeInv, NEW x \in Xfers, hw' = [hw EXCEPT !.xfer = x]
    PROVE  /\ hw' \in Hws /\ hw'.rst = hw.rst /\ hw'.setup = hw.setup /\ hw'.xfer = x
           /\ KeepsPipes
<1>1. hw' \in Hws
  BY DEF TypeInv, Hws
<1>2. hw'.rst = hw.rst /\ hw'.setup = hw.setup /\ hw'.xfer = x /\ KeepsPipes
  BY DEF TypeInv, Hws, KeepsPipes
<1> QED BY <1>1, <1>2

(* The host takes the status of a request: a configuration starts afresh   *)
(* on both pipes.                                                          *)
Configured == /\ host'.up = TRUE /\ host'.outTog = 0 /\ host'.inTog = 0
              /\ host'.next = Abandon /\ host'.first = Abandon /\ host'.tried = FALSE
              /\ host'.in = <<>>

AnsweredIs ==
    /\ hw' \in Hws /\ host' \in Hosts /\ KeepsPipes
    /\ hw'.rst = hw.rst /\ hw'.setup = hw.setup /\ hw'.xfer.ep # 1
    /\ host'.req = host.req /\ host'.cleared = host.cleared /\ host'.stage # "status"
    /\ \/ KeepsData /\ host'.up = host.up /\ (Configuring => hw.t0.res = "STALL")
       \/ KeepsData /\ host'.up = FALSE
       \/ Configuring /\ Configured
       \/ host.req \in Resyncs

LEMMA CompletedIs ==
    ASSUME TypeInv, host.stage = "status", host' = Completed(host.req)
    PROVE  /\ host' \in Hosts /\ host'.req = host.req /\ host'.cleared = host.cleared
           /\ host'.stage = "idle"
           /\ \/ KeepsData /\ host'.up = host.up /\ ~Configuring
              \/ KeepsData /\ host'.up = FALSE
              \/ Configuring /\ Configured
              \/ host.req \in Resyncs
<1> USE DEF TypeInv, Bit
<1>0. <<>> \in Seq(Nat) /\ Abandon \in Nat \ {0}
  BY AbandonIs
<1>1. CASE host.req = "address"
  <2>1. host' = [host EXCEPT !.addr = 1, !.stage = "idle"]
    BY <1>1 DEF Completed
  <2> QED BY <1>1, <2>1 DEF Hosts, KeepsData, Configuring
<1>2. CASE host.req = "config"
  <2>1. host' = [host EXCEPT !.stage = "idle", !.up = TRUE, !.outTog = 0,
                             !.inTog = 0, !.next = Abandon, !.first = Abandon,
                             !.tried = FALSE, !.in = <<>>]
    BY <1>2 DEF Completed
  <2>2. host' \in Hosts
    BY <1>0, <2>1 DEF Hosts
  <2>3. Configured /\ host'.req = host.req /\ host'.cleared = host.cleared /\ host'.stage = "idle"
    BY <2>1 DEF Hosts, Configured
  <2> QED BY <1>2, <2>2, <2>3 DEF Configuring
<1>3. CASE host.req = "unconfig"
  <2>1. host' = [host EXCEPT !.stage = "idle", !.up = FALSE]
    BY <1>3 DEF Completed
  <2> QED BY <2>1 DEF Hosts, KeepsData
<1>4. CASE host.req = "clearOut"
  <2>1. host' = [host EXCEPT !.stage = "idle", !.outTog = 0, !.next = Abandon, !.tried = FALSE]
    BY <1>4 DEF Completed
  <2> QED BY <1>0, <1>4, <2>1 DEF Hosts, Resyncs
<1>5. CASE host.req = "clearIn"
  <2>1. host' = [host EXCEPT !.stage = "idle", !.inTog = 0]
    BY <1>5 DEF Completed
  <2> QED BY <1>5, <2>1 DEF Hosts, Resyncs
<1>6. CASE host.req = "iface"
  <2>1. host' = [host EXCEPT !.stage = "idle", !.outTog = 0, !.inTog = 0,
                             !.next = Abandon, !.tried = FALSE]
    BY <1>6 DEF Completed
  <2> QED BY <1>0, <1>6, <2>1 DEF Hosts, Resyncs
<1>7. CASE host.req \notin {"address", "config", "unconfig", "iface", "clearOut", "clearIn"}
  <2>1. host' = [host EXCEPT !.stage = "idle"]
    BY <1>7 DEF Completed
  <2> QED BY <1>7, <2>1 DEF Hosts, KeepsData, Configuring
<1> QED BY <1>1, <1>2, <1>3, <1>4, <1>5, <1>6, <1>7

LEMMA ControlInIs == ASSUME TypeInv, ControlIn PROVE AnsweredIs
<1>1. hw.xfer = NoXfer /\ host.stage \in {"data", "status"} /\ hw.t0.res \in {"ACK", "STALL"}
  BY DEF ControlIn, Addressed, Quiet, TypeInv, Hws, Res
<1>2. CASE hw.t0.res = "STALL"
  <2>1. host' = [host EXCEPT !.stage = "idle"] /\ hw' = hw
    BY <1>2 DEF ControlIn
  <2>2. /\ host' \in Hosts /\ KeepsData /\ host'.up = host.up /\ host'.req = host.req
        /\ host'.cleared = host.cleared /\ host'.stage = "idle"
    BY <2>1 DEF TypeInv, Hosts, KeepsData
  <2> QED BY <1>1, <1>2, <2>1, <2>2 DEF AnsweredIs, KeepsPipes, NoXfer, TypeInv
<1>3. CASE hw.t0.res = "ACK"
  <2> DEFINE x == [ep |-> 0, token |-> "IN", ok |-> TRUE]
  <2>1. hw' = [hw EXCEPT !.xfer = x]
    BY <1>3 DEF ControlIn
  <2>2. x \in Xfers /\ x.ep = 0
    BY DEF Xfers
  <2> HIDE DEF x
  <2>3. /\ hw' \in Hws /\ hw'.rst = hw.rst /\ hw'.setup = hw.setup /\ hw'.xfer.ep # 1
        /\ KeepsPipes
    BY <2>1, <2>2, FlagIs
  <2>4. CASE host.stage = "status"
    <3>1. host' = Completed(host.req)
      BY <1>3, <2>4 DEF ControlIn
    <3> QED BY <2>3, <2>4, <3>1, CompletedIs DEF AnsweredIs
  <2>5. CASE host.stage = "data" /\ hw.t0.tog # host.tog
    <3>1. host' = host
      BY <1>3, <2>5 DEF ControlIn
    <3> QED BY <2>3, <2>5, <3>1 DEF AnsweredIs, KeepsData, Configuring, TypeInv
  <2>6. CASE host.stage = "data" /\ hw.t0.tog = host.tog
    <3> DEFINE g == host.got + hw.t0.data
               t == 1 - host.tog
               q == IF host.got + 1 = DescChunks THEN "done" ELSE "data"
    <3>1. g \in Nat /\ t \in Bit /\ q \in {"done", "data"}
      BY Flip DEF TypeInv, Hosts, Hws, Bit
    <3>2. host' = [host EXCEPT !.got = g, !.tog = t, !.stage = q]
      BY <1>3, <2>6 DEF ControlIn, TypeInv, Hosts
    <3> HIDE DEF g, t, q
    <3>3. /\ host' \in Hosts /\ KeepsData /\ host'.up = host.up /\ host'.req = host.req
          /\ host'.cleared = host.cleared /\ host'.stage = q
      BY <3>1, <3>2 DEF TypeInv, Hosts, KeepsData
    <3> QED BY <2>3, <2>6, <3>1, <3>3 DEF AnsweredIs, Configuring
  <2> QED BY <1>1, <2>4, <2>5, <2>6
<1> QED BY <1>1, <1>2, <1>3

LEMMA ControlOutIs == ASSUME TypeInv, ControlOut PROVE AnsweredIs
<1> DEFINE x == [ep |-> 0, token |-> "OUT", ok |-> TRUE]
<1>1. hw' = [hw EXCEPT !.xfer = x] /\ host' = [host EXCEPT !.stage = "idle"] /\ host.stage = "done"
  BY DEF ControlOut
<1>2. x \in Xfers /\ x.ep = 0
  BY DEF Xfers
<1> HIDE DEF x
<1>3. /\ hw' \in Hws /\ hw'.rst = hw.rst /\ hw'.setup = hw.setup /\ hw'.xfer.ep # 1
      /\ KeepsPipes
  BY <1>1, <1>2, FlagIs
<1>4. /\ host' \in Hosts /\ KeepsData /\ host'.up = host.up /\ host'.req = host.req
      /\ host'.cleared = host.cleared /\ host'.stage = "idle"
  BY <1>1 DEF TypeInv, Hosts, KeepsData
<1> QED BY <1>1, <1>3, <1>4 DEF AnsweredIs, Configuring

BulkOutIs ==
    /\ hw' \in Hws /\ host' \in Hosts /\ hw'.t1 = hw.t1 /\ hw'.r1.tog = hw.r1.tog
    /\ hw.r1.res = "ACK" /\ hw'.r1.data = host.next /\ host.next <= MaxOut
    /\ hw'.rst = hw.rst /\ hw'.setup = hw.setup
    /\ hw'.xfer = [ep |-> 1, token |-> "OUT", ok |-> hw.r1.tog = host.outTog]
    /\ host'.req = host.req /\ host'.stage = host.stage /\ host'.cleared = host.cleared
    /\ host'.up = host.up /\ host'.first = host.first
    /\ host'.inTog = host.inTog /\ host'.in = host.in
    /\ \/ /\ host'.outTog = 1 - host.outTog /\ host'.next = host.next + 1
          /\ host'.tried = FALSE
       \/ host'.outTog = host.outTog /\ host'.next = host.next /\ host'.tried = TRUE

LEMMA BulkOutDoes == ASSUME TypeInv, BulkOut PROVE BulkOutIs
<1> DEFINE x == [ep |-> 1, token |-> "OUT", ok |-> hw.r1.tog = host.outTog]
<1>1. hw' = [hw EXCEPT !.xfer = x, !.r1.data = host.next] /\ hw.r1.res = "ACK" /\ host.next <= MaxOut
  BY DEF BulkOut
<1>2. x \in Xfers
  BY DEF Xfers
<1>3. host.next \in 0 .. MaxOut
  BY <1>1, TypeParts DEF TypeInv, Devs
<1> HIDE DEF x
<1>4. hw' \in Hws
  BY <1>1, <1>2, <1>3 DEF TypeInv, Hws
<1>5. /\ hw'.t1 = hw.t1 /\ hw'.r1.tog = hw.r1.tog /\ hw'.r1.data = host.next
      /\ hw'.rst = hw.rst /\ hw'.setup = hw.setup /\ hw'.xfer = x
  BY <1>1 DEF TypeInv, Hws
<1>6. CASE host' = [host EXCEPT !.outTog = 1 - @, !.next = @ + 1, !.tried = FALSE]
  <2> DEFINE t == 1 - host.outTog
             k == host.next + 1
  <2>1. t \in Bit /\ k \in Nat \ {0}
    BY Flip, TypeParts
  <2>2. host' = [host EXCEPT !.outTog = t, !.next = k, !.tried = FALSE]
    BY <1>6 DEF TypeInv, Hosts
  <2> HIDE DEF t, k
  <2>3. host' \in Hosts
    BY <2>1, <2>2 DEF TypeInv, Hosts
  <2>4. /\ host'.req = host.req /\ host'.stage = host.stage /\ host'.cleared = host.cleared
        /\ host'.up = host.up /\ host'.first = host.first
        /\ host'.inTog = host.inTog /\ host'.in = host.in
        /\ host'.outTog = t /\ host'.next = k /\ host'.tried = FALSE
    BY <2>2 DEF TypeInv, Hosts
  <2> QED BY <1>1, <1>4, <1>5, <2>3, <2>4 DEF BulkOutIs, x, t, k
<1>7. CASE host' = [host EXCEPT !.tried = TRUE]
  <2>1. host' \in Hosts
    BY <1>7 DEF TypeInv, Hosts
  <2>2. /\ host'.req = host.req /\ host'.stage = host.stage /\ host'.cleared = host.cleared
        /\ host'.up = host.up /\ host'.first = host.first
        /\ host'.inTog = host.inTog /\ host'.in = host.in
        /\ host'.outTog = host.outTog /\ host'.next = host.next /\ host'.tried = TRUE
    BY <1>7 DEF TypeInv, Hosts
  <2> QED BY <1>1, <1>4, <1>5, <2>1, <2>2 DEF BulkOutIs, x
<1> QED BY <1>6, <1>7 DEF BulkOut

BulkInIs ==
    /\ hw' \in Hws /\ host' \in Hosts /\ KeepsPipes /\ hw.t1.res = "ACK"
    /\ hw'.rst = hw.rst /\ hw'.setup = hw.setup
    /\ hw'.xfer = [ep |-> 1, token |-> "IN", ok |-> TRUE] \/ hw'.xfer = hw.xfer
    /\ host'.req = host.req /\ host'.stage = host.stage /\ host'.cleared = host.cleared
    /\ host'.up = host.up /\ host'.outTog = host.outTog /\ host'.next = host.next
    /\ host'.first = host.first /\ host'.tried = host.tried
    /\ \/ /\ hw.t1.tog = host.inTog /\ host'.inTog = 1 - host.inTog
          /\ host'.in = host.in \o hw.t1.data
       \/ hw.t1.tog # host.inTog /\ host'.inTog = host.inTog /\ host'.in = host.in

LEMMA BulkInDoes == ASSUME TypeInv, BulkIn PROVE BulkInIs
<1> DEFINE x == [ep |-> 1, token |-> "IN", ok |-> TRUE]
<1>1. /\ hw' = [hw EXCEPT !.xfer = x] \/ hw' = hw
      /\ hw.t1.res = "ACK"
  BY DEF BulkIn
<1>2. x \in Xfers
  BY DEF Xfers
<1>3. /\ hw' \in Hws /\ KeepsPipes /\ hw'.rst = hw.rst /\ hw'.setup = hw.setup
      /\ hw'.xfer = x \/ hw'.xfer = hw.xfer
  <2>1. CASE hw' = [hw EXCEPT !.xfer = x]
    BY <1>2, <2>1, FlagIs
  <2>2. CASE hw' = hw
    BY <2>2 DEF TypeInv, KeepsPipes
  <2> QED BY <1>1, <2>1, <2>2
<1>4. CASE hw.t1.tog = host.inTog
  <2> DEFINE t == 1 - host.inTog
             c == host.in \o hw.t1.data
  <2>1. t \in Bit /\ c \in Seq(Nat)
    BY Flip, TypeParts, ConcatProperties
  <2>2. host' = [host EXCEPT !.inTog = t, !.in = c]
    BY <1>4 DEF BulkIn, TypeInv, Hosts
  <2> HIDE DEF t, c
  <2>3. host' \in Hosts
    BY <2>1, <2>2 DEF TypeInv, Hosts
  <2>4. /\ host'.req = host.req /\ host'.stage = host.stage /\ host'.cleared = host.cleared
        /\ host'.up = host.up /\ host'.outTog = host.outTog /\ host'.next = host.next
        /\ host'.first = host.first /\ host'.tried = host.tried
        /\ host'.inTog = t /\ host'.in = c
    BY <2>2 DEF TypeInv, Hosts
  <2> QED BY <1>1, <1>3, <1>4, <2>3, <2>4 DEF BulkInIs, x, t, c
<1>5. CASE hw.t1.tog # host.inTog
  <2>1. host' = host
    BY <1>5 DEF BulkIn
  <2> QED BY <1>1, <1>3, <1>5, <2>1 DEF BulkInIs, x, TypeInv
<1> QED BY <1>4, <1>5

BusResetIs ==
    /\ hw' \in Hws /\ host' \in Hosts /\ KeepsPipes
    /\ hw'.rst = TRUE /\ hw'.setup = "none" /\ hw'.xfer \in {hw.xfer, NoXfer}
    /\ host'.req = host.req /\ host'.stage = "idle" /\ host'.cleared = host.cleared
    /\ host'.up = FALSE /\ host'.next = Abandon /\ host'.first = Abandon
    /\ host'.tried = FALSE /\ host'.in = <<>>

LEMMA BusResetDoes == ASSUME TypeInv, BusReset PROVE BusResetIs
<1>1. PICK x \in {hw.xfer, NoXfer} :
          hw' = [hw EXCEPT !.rst = TRUE, !.xfer = x, !.setup = "none"]
  BY DEF BusReset
<1>2. x \in Xfers
  <2>1. NoXfer \in Xfers
    BY DEF NoXfer, Xfers
  <2> QED BY <1>1, <2>1, TypeParts
<1>3. hw' \in Hws
  BY <1>1, <1>2 DEF TypeInv, Hws
<1>4. KeepsPipes /\ hw'.rst = TRUE /\ hw'.setup = "none" /\ hw'.xfer = x
  BY <1>1 DEF TypeInv, Hws, KeepsPipes
<1>5. host' = [host EXCEPT !.addr = 0, !.stage = "idle", !.up = FALSE, !.next = Abandon,
                           !.first = Abandon, !.tried = FALSE, !.in = <<>>]
  BY DEF BusReset
<1>6. Abandon \in Nat \ {0} /\ <<>> \in Seq(Nat)
  BY AbandonIs
<1>7. host' \in Hosts
  BY <1>5, <1>6 DEF TypeInv, Hosts
<1>8. /\ host'.req = host.req /\ host'.stage = "idle" /\ host'.cleared = host.cleared
      /\ host'.up = FALSE /\ host'.next = Abandon /\ host'.first = Abandon
      /\ host'.tried = FALSE /\ host'.in = <<>>
  BY <1>5 DEF TypeInv, Hosts
<1> QED BY <1>1, <1>3, <1>4, <1>7, <1>8 DEF BusResetIs

KeepsQueue == UNCHANGED <<txq, made, due, served>>

(* Every step is one of these.                                             *)
NoFlag == ~hw.rst /\ hw.setup = "none" /\ hw.xfer = NoXfer
BulkFree == NoFlag /\ host.up /\ (host.stage = "idle" \/ host.req = "desc")

Polls  == PollIs /\ KeepsQueue /\ UNCHANGED host
Loads  == ~dev.txBusy /\ Loaded /\ txq' = RestOf(txq) /\ UNCHANGED <<host, made, due, served>>
Serves == Served /\ UNCHANGED host
Asks   == /\ NoFlag /\ host.stage = "idle" /\ KeepsQueue /\ UNCHANGED dev
          /\ \E req \in Requests : AskedIs(req)
Answered == NoFlag /\ AnsweredIs /\ KeepsQueue /\ UNCHANGED dev
Sends  == BulkFree /\ BulkOutIs /\ KeepsQueue /\ UNCHANGED dev
Reads  == BulkFree /\ BulkInIs /\ KeepsQueue /\ UNCHANGED dev
Resets == BusResetIs /\ KeepsQueue /\ UNCHANGED dev
Rests  == KeepsQueue /\ UNCHANGED <<dev, hw, host>>

Step == \/ Polls \/ Loads \/ Serves \/ Pump
        \/ Asks \/ Answered \/ Sends \/ Reads \/ Resets \/ Rests

LEMMA Steps == ASSUME UsbAssumption, TypeInv, [UsbNext]_usbVars PROVE Step
<1>1. CASE Poll
  BY <1>1, UsbPollIs DEF Poll, Polls, KeepsQueue, Step
<1>2. CASE Rx
  <2>1. CASE Served
    BY <1>2, <2>1 DEF Rx, Serves, Step
  <2>2. CASE UNCHANGED <<served, boot, txq, made, due, dev, hw>>
    BY <1>2, <2>2 DEF Rx, Rests, KeepsQueue, Step
  <2> QED BY <1>2, <2>1, <2>2, RxIs
<1>3. CASE Request
  BY <1>3 DEF Request, Rests, KeepsQueue, Step
<1>4. CASE Pump
  BY <1>4 DEF Step
<1>5. CASE Transmit
  <2>1. CASE TxReady /\ txq # <<>>
    <3>1. Tx /\ UNCHANGED <<host, made, due, served>> /\ ~dev.txBusy
      BY <1>5, <2>1 DEF Transmit, TxReady
    <3> QED BY <3>1, TxIs DEF Loads, Step
  <2>2. CASE ~(TxReady /\ txq # <<>>)
    BY <1>5, <2>2 DEF Transmit, Rests, KeepsQueue, Step
  <2> QED BY <2>1, <2>2
<1>6. CASE Flush
  <2>1. CASE UsbPoll
    BY <1>6, <2>1, UsbPollIs DEF Flush, Polls, KeepsQueue, Step
  <2>2. CASE UNCHANGED <<dev, hw>>
    BY <1>6, <2>2 DEF Flush, Rests, KeepsQueue, Step
  <2> QED BY <1>6, <2>1, <2>2 DEF Flush
<1>7. CASE FlushTx
  <2>1. CASE Tx /\ TxReady
    <3>1. UNCHANGED <<host, made, due, served>> /\ ~dev.txBusy
      BY <1>7, <2>1 DEF FlushTx, TxReady
    <3> QED BY <2>1, <3>1, TxIs DEF Loads, Step
  <2>2. CASE UNCHANGED <<txq, dev, hw>>
    BY <1>7, <2>2 DEF FlushTx, Rests, KeepsQueue, Step
  <2> QED BY <1>7, <2>1, <2>2 DEF FlushTx
<1>8. CASE HostSetup
  BY <1>8, HostSetupIs DEF HostSetup, Addressed, Quiet, NoFlag, Asks, KeepsQueue, Step
<1>9. CASE ControlIn
  BY <1>9, ControlInIs DEF ControlIn, Addressed, Quiet, NoFlag, Answered, KeepsQueue, Step
<1>10. CASE ControlOut
  BY <1>10, ControlOutIs DEF ControlOut, Addressed, Quiet, NoFlag, Answered, KeepsQueue, Step
<1>11. CASE BulkOut
  BY <1>11, BulkOutDoes
     DEF BulkOut, BulkRuns, Addressed, Quiet, NoFlag, BulkFree, Sends, KeepsQueue, Step
<1>12. CASE BulkIn
  BY <1>12, BulkInDoes
     DEF BulkIn, BulkRuns, Addressed, Quiet, NoFlag, BulkFree, Reads, KeepsQueue, Step
<1>13. CASE BusReset
  BY <1>13, BusResetDoes DEF BusReset, Resets, KeepsQueue, Step
<1>14. CASE UNCHANGED usbVars
  BY <1>14 DEF usbVars, Rests, KeepsQueue, Step
<1> QED BY <1>1, <1>2, <1>3, <1>4, <1>5, <1>6, <1>7, <1>8, <1>9, <1>10, <1>11, <1>12,
           <1>13, <1>14 DEF UsbNext, Loop, Bus

-----------------------------------------------------------------------------
(* Types.                                                                  *)

LEMMA InitType == ASSUME UsbAssumption, UsbInit PROVE TypeInv
<1> USE DEF UsbInit, Ep0Idle, NoXfer, Armed, Bit, Res
<1>0. 0 \in 0 .. MaxOut /\ <<>> \in Seq(Nat)
  BY DEF UsbAssumption
<1>1. dev \in Devs
  BY <1>0 DEF Devs
<1>2. hw \in Hws
  BY <1>0 DEF Hws, Xfers
<1>3. host \in Hosts
  BY <1>0 DEF Hosts
<1>4. dev.ep0.pos <= dev.ep0.len
  OBVIOUS
<1>5. /\ txq \in Seq(Nat) /\ Len(txq) <= TxqCap /\ made \in Nat /\ due \in Nat
      /\ served \in Seq(Nat \ {0})
  BY DEF UsbAssumption
<1> QED BY <1>1, <1>2, <1>3, <1>4, <1>5 DEF TypeInv

LEMMA PollTyped == ASSUME TypeInv, Polls PROVE TypeInv'
BY DEF TypeInv, Polls, PollIs, ResetIs, SetupIs, Ep0Is, TakenIs, SentIs, Typed, KeepsQueue

LEMMA LoadTyped ==
    ASSUME UsbAssumption, TypeInv, Loads PROVE TypeInv'
<1>1. txq' \in Seq(Nat) /\ Len(txq') <= TxqCap
  <2>1. txq \in Seq(Nat) /\ Len(txq) <= TxqCap /\ TxqCap \in Nat
    BY DEF TypeInv, UsbAssumption
  <2>2. Len(txq') = Len(txq) - Len(First(txq, Mps)) /\ txq' \in Seq(Nat)
    BY <2>1, RestIs DEF Loads
  <2>3. Len(First(txq, Mps)) \in Nat
    BY <2>1, FirstIs
  <2> QED BY <2>1, <2>2, <2>3
<1> QED BY <1>1 DEF TypeInv, Loads, Loaded

LEMMA ServeTyped ==
    ASSUME UsbAssumption, TypeInv, Serves PROVE TypeInv'
<1>1. txq' \in Seq(Nat) /\ Len(txq') <= TxqCap /\ made' \in Nat
  BY QueueIs DEF Serves, Served
<1>2. served' \in Seq(Nat \ {0})
  <2>1. dev.rx \in Nat \ {0} /\ served \in Seq(Nat \ {0})
    BY TypeParts DEF Serves, Served, TypeInv
  <2> QED BY <2>1, AppendProperties DEF Serves, Served
<1>3. due' \in Nat
  BY DEF Serves, Served, TypeInv
<1> QED BY <1>1, <1>2, <1>3 DEF TypeInv, Serves, Served

LEMMA PumpTyped == ASSUME UsbAssumption, TypeInv, Pump PROVE TypeInv'
<1>1. CASE Free >= Headroom
  <2>1. PICK n \in 0 .. due : Queue(n) /\ due' = due - n
    BY <1>1 DEF Pump
  <2>2. n \in Nat /\ due' \in Nat
    BY <2>1 DEF TypeInv
  <2>3. txq' \in Seq(Nat) /\ Len(txq') <= TxqCap /\ made' \in Nat
    BY <2>1, <2>2, QueueIs
  <2> QED BY <2>2, <2>3 DEF Pump, TypeInv
<1>2. CASE ~(Free >= Headroom)
  BY <1>2 DEF Pump, TypeInv
<1> QED BY <1>1, <1>2

LEMMA TypeStep == ASSUME UsbAssumption, TypeInv, Step PROVE TypeInv'
<1>1. CASE Asks \/ Answered \/ Sends \/ Reads \/ Resets
  BY <1>1 DEF TypeInv, KeepsQueue, Asks, AskedIs, Answered, AnsweredIs, Sends, BulkOutIs,
              Reads, BulkInIs, Resets, BusResetIs
<1>2. CASE Rests
  BY <1>2 DEF Rests, KeepsQueue, TypeInv
<1> QED BY <1>1, <1>2, PollTyped, LoadTyped, ServeTyped, PumpTyped DEF Step

(* A request under service is the host's, whatever the loop does.          *)
LEMMA ControlStep == ASSUME TypeInv, ControlInv, Step PROVE ControlInv'
<1>1. CASE Polls
  BY <1>1 DEF Polls, PollIs, ResetIs, SetupIs, Ep0Is, TakenIs, SentIs, ControlInv
<1>2. CASE Loads \/ Serves \/ Pump \/ Rests
  BY <1>2 DEF Loads, Loaded, Serves, Served, Pump, Rests, ControlInv
<1>3. CASE Asks
  <2>1. PICK req \in Requests : AskedIs(req)
    BY <1>3 DEF Asks
  <2>2. host.cleared \in BOOLEAN /\ req # "none"
    BY TypeParts DEF Requests
  <2> QED BY <1>3, <2>1, <2>2 DEF Asks, AskedIs, NoFlag, ControlInv
<1>4. CASE Answered
  BY <1>4 DEF Answered, AnsweredIs, NoFlag, ControlInv
<1>5. CASE Sends \/ Reads
  BY <1>5 DEF Sends, Reads, BulkFree, NoFlag, BulkOutIs, BulkInIs, ControlInv
<1>6. CASE Resets
  BY <1>6 DEF Resets, BusResetIs, ControlInv
<1> QED BY <1>1, <1>2, <1>3, <1>4, <1>5, <1>6 DEF Step

-----------------------------------------------------------------------------
(* OUT: where the last packet taken is.                                    *)

LEMMA HandTypes ==
    ASSUME TypeInv
    PROVE  InHand \in Nat /\ Last \in Nat /\ Top \in Nat /\ Expected \in Bit
<1>1. InHand \in Nat /\ Expected \in Bit
  BY TypeParts, Flip DEF InHand, Expected
<1>2. Last \in Nat
  <2>1. served \in Seq(Nat \ {0})
    BY DEF TypeInv
  <2>2. CASE served # <<>>
    <3>1. Len(served) \in 1 .. Len(served)
      BY <2>1, <2>2
    <3> QED BY <2>1, <2>2, <3>1 DEF Last
  <2> QED BY <2>2 DEF Last
<1> QED BY <1>1, <1>2 DEF Top

OutView == /\ dev'.rx = dev.rx /\ dev'.rxTog = dev.rxTog /\ hw'.r1 = hw.r1
           /\ OutWaits' <=> OutWaits
           /\ served' = served
HostOut == /\ host'.outTog = host.outTog /\ host'.next = host.next
           /\ host'.first = host.first /\ host'.tried = host.tried

OutPart == ServedInv /\ HandInv /\ OutInv

(* What neither side of the OUT pipe sees.                                 *)
LEMMA OutSame ==
    ASSUME OutPart, OutView, HostOut, Live' => Live PROVE OutPart'
<1>1. InHand' = InHand /\ Last' = Last /\ Expected' = Expected
  BY DEF OutView, InHand, Last, Expected
<1>2. Top' = Top
  BY <1>1 DEF Top
<1>3. ServedInv'
  BY <1>1 DEF OutPart, ServedInv, OutView, HostOut
<1>4. HandInv'
  BY <1>1, <1>2 DEF OutPart, HandInv, OutView, HostOut
<1>5. OutInv'
  BY <1>1, <1>2 DEF OutPart, OutInv, OutView, HostOut
<1> QED BY <1>3, <1>4, <1>5 DEF OutPart

(* Nothing in hand any more, and no session.                               *)
LEMMA OutEmptied ==
    ASSUME TypeInv, TypeInv', OutPart, InHand' = 0, dev'.rx = 0, served' = served, HostOut, ~Live'
    PROVE  OutPart'
<1>1. Last' = Last /\ Top' = Last
  BY DEF Last, Top
<1>2. InHand \in Nat /\ Last \in Nat /\ Top \in Nat
  BY HandTypes
<1>3. Last <= Top
  BY <1>2 DEF OutPart, HandInv, Top
<1>4. ServedInv'
  BY <1>1 DEF OutPart, ServedInv, HostOut
<1>5. HandInv'
  <2>1. host.next \in Nat /\ host.first \in Nat \ {0}
    BY TypeParts
  <2>2. Last <= (IF host.tried THEN host.next ELSE host.next - 1)
    BY <1>2, <1>3, <2>1 DEF OutPart, HandInv
  <2> QED BY <1>1, <2>1, <2>2 DEF OutPart, HandInv, HostOut
<1>6. OutInv'
  BY DEF OutInv
<1> QED BY <1>4, <1>5, <1>6 DEF OutPart

LEMMA NoXferWaits == ASSUME hw.xfer.ep # 1 PROVE ~OutWaits
BY DEF OutWaits

LEMMA NotWaiting == NoXfer.ep # 1
BY DEF NoXfer

LEMMA PollOut ==
    ASSUME UsbAssumption, TypeInv, TypeInv', ControlInv, Synced, ~host.cleared, Polls
    PROVE  Synced'
<1>0. UNCHANGED host /\ served' = served /\ HostOut /\ OutPart
  BY DEF Polls, KeepsQueue, HostOut, Synced, OutPart
<1>1. CASE hw.rst /\ ResetIs
  <2>1. ~Live' /\ ~Fresh'
    BY <1>0, <1>1 DEF ControlInv, Live, Fresh, Configuring
  <2>2. dev'.rx = 0 /\ hw'.r1.data = 0
    BY <1>1 DEF ResetIs, Wiped, Armed
  <2>3. InHand' = 0
    BY <2>2 DEF InHand
  <2> QED BY <1>0, <2>1, <2>2, <2>3, OutEmptied DEF Synced, OutPart, FreshInv
<1>2. CASE ~hw.rst /\ hw.setup # "none" /\ SetupIs
  <2>1. ~OutWaits' /\ ~OutWaits /\ hw.setup = host.req /\ hw'.setup = "none"
    BY <1>2, NotWaiting DEF SetupIs, ControlInv, OutWaits
  <2>2. CASE hw.setup = "config"
    <3>1. Fresh' /\ ~Live'
      BY <1>0, <2>1, <2>2 DEF ControlInv, Live, Fresh, Configuring
    <3>2. dev'.rx = 0 /\ InHand' = 0
      BY <1>2, <2>1, <2>2 DEF SetupIs, Wiped, InHand
    <3>3. FreshInv'
      BY <1>2, <2>2, NotWaiting DEF SetupIs, Wiped, Armed, FreshInv
    <3> QED BY <1>0, <3>1, <3>2, <3>3, OutEmptied DEF Synced, OutPart
  <2>3. CASE hw.setup # "config"
    <3>1. hw.setup \in {"desc", "bad", "address", "unconfig"}
      BY <1>2, <2>1, <2>3, TypeParts DEF ControlInv, Requests, Resyncs
    <3>2. KeepsBulk
      BY <1>2, <3>1 DEF SetupIs
    <3>3. ~Fresh' /\ ~Fresh
      BY <1>0, <2>1, <2>3 DEF Fresh, Configuring
    <3>4. OutView /\ (Live' => Live)
      BY <1>0, <2>1, <3>2, <3>3 DEF KeepsBulk, OutView, Live
    <3> QED BY <1>0, <3>3, <3>4, OutSame DEF Synced, OutPart, FreshInv
  <2> QED BY <2>2, <2>3
<1>3. CASE ~hw.rst /\ hw.setup = "none" /\ ~OutWaits /\ ~InWaits /\ Ep0Is
  <2>1. ~OutWaits'
    BY <1>3, NotWaiting DEF Ep0Is, OutWaits
  <2>2. OutView /\ (Live' => Live)
    BY <1>0, <1>3, <2>1 DEF Ep0Is, KeepsBulk, OutView, Live, Fresh, Configuring
  <2>3. FreshInv'
    BY <1>0, <1>3, NotWaiting DEF Ep0Is, KeepsBulk, FreshInv, Fresh, Configuring, Synced
  <2> QED BY <1>0, <2>2, <2>3, OutSame DEF Synced, OutPart
<1>4. CASE ~hw.rst /\ hw.setup = "none" /\ OutWaits /\ TakenIs
  <2>1. ~OutWaits' /\ ~Fresh /\ ~Fresh'
    BY <1>0, <1>4, NotWaiting
       DEF TakenIs, OutWaits, Synced, FreshInv, Fresh, Configuring
  <2>2. InHand' = InHand /\ Last' = Last /\ Top' = Top
    BY <1>0, <1>4, <2>1 DEF TakenIs, InHand, Last, Top
  <2>3. ServedInv'
    BY <1>0, <2>2 DEF OutPart, ServedInv, HostOut
  <2>4. HandInv'
    BY <1>0, <1>4, <2>1, <2>2 DEF OutPart, HandInv, HostOut, TakenIs
  <2>5. OutInv'
    <3>1. ASSUME Live PROVE Expected' = Expected /\ hw'.r1.tog = dev'.rxTog
      BY <1>0, <1>4, <2>1, <3>1 DEF TakenIs, Expected, OutPart, OutInv
    <3>2. Live' <=> Live
      BY <1>0, <1>4, <2>1 DEF Live
    <3> QED BY <1>0, <2>2, <3>1, <3>2 DEF OutPart, OutInv, HostOut
  <2> QED BY <2>1, <2>3, <2>4, <2>5 DEF Synced, FreshInv
<1>5. CASE ~hw.rst /\ hw.setup = "none" /\ ~OutWaits /\ InWaits /\ SentIs
  <2>1. ~OutWaits' /\ ~Fresh /\ ~Fresh'
    BY <1>0, <1>5, NotWaiting
       DEF SentIs, OutWaits, InWaits, Synced, FreshInv, Fresh, Configuring
  <2>2. OutView /\ (Live' => Live)
    BY <1>0, <1>5, <2>1 DEF SentIs, OutView, Live
  <2> QED BY <1>0, <2>1, <2>2, OutSame DEF Synced, OutPart, FreshInv
<1>6. CASE UNCHANGED <<dev, hw>>
  <2>1. OutView /\ (Live' => Live)
    BY <1>0, <1>6 DEF OutView, OutWaits, Live, Fresh, Configuring
  <2>2. FreshInv'
    BY <1>0, <1>6 DEF Synced, FreshInv, Fresh, Configuring
  <2> QED BY <1>0, <2>1, <2>2, OutSame DEF Synced, OutPart
<1> QED BY <1>1, <1>2, <1>3, <1>4, <1>5, <1>6 DEF Polls, PollIs

(* The packet in hand goes to the server.                                  *)
LEMMA ServeOut ==
    ASSUME UsbAssumption, TypeInv, TypeInv', Synced, Serves PROVE Synced'
<1>0. UNCHANGED host /\ HostOut /\ OutPart /\ Served
  BY DEF Serves, HostOut, Synced, OutPart
<1>1. dev.rx # 0 /\ ~OutWaits /\ InHand = dev.rx /\ Top = dev.rx
  BY <1>0 DEF Served, OutPart, HandInv, InHand, Top
<1>2. ~OutWaits' /\ InHand' = 0
  BY <1>0, <1>1 DEF Served, OutWaits, InHand
<1>3. ~Fresh /\ ~Fresh' /\ (Live' <=> Live)
  BY <1>0, <1>1 DEF Served, Synced, FreshInv, Fresh, Configuring, Live
<1>4. served \in Seq(Nat \ {0}) /\ dev.rx \in Nat \ {0} /\ Len(served) \in Nat
  BY <1>1, TypeParts DEF TypeInv
<1> DEFINE n == Len(served)
<1>5. /\ Len(served') = n + 1 /\ served' # <<>> /\ DOMAIN served' = 1 .. n + 1
      /\ \A i \in 1 .. n : served'[i] = served[i]
      /\ served'[n + 1] = dev.rx
  BY <1>0, <1>4, AppendProperties DEF Served
<1>6. Last' = dev.rx /\ Top' = dev.rx
  BY <1>2, <1>5 DEF Last, Top
<1>7. served # <<>> => n >= 1 /\ Last = served[n]
  BY <1>4 DEF Last
<1>8. Last < dev.rx /\ Last \in Nat
  BY <1>0, <1>1, HandTypes DEF OutPart, HandInv
<1>9. ServedInv'
  <2>1. ASSUME NEW i \in 1 .. Len(served') - 1 PROVE served'[i] < served'[i + 1]
    <3>1. i \in 1 .. n
      BY <1>4, <1>5
    <3>2. CASE i = n
      <4>1. served # <<>>
        BY <3>1, <3>2
      <4> QED BY <1>5, <1>7, <1>8, <3>1, <3>2, <4>1
    <3>3. CASE i # n
      <4>1. i \in 1 .. Len(served) - 1 /\ i + 1 \in 1 .. n
        BY <1>4, <3>1, <3>3
      <4> QED BY <1>0, <1>5, <3>1, <4>1 DEF OutPart, ServedInv
    <3> QED BY <3>2, <3>3
  <2>2. ASSUME NEW k \in host'.first .. Last' PROVE \E i \in DOMAIN served' : served'[i] = k
    <3>1. host.first \in Nat /\ k \in host.first .. dev.rx
      BY <1>0, <1>6, TypeParts
    <3>2. CASE k = dev.rx
      <4>1. n + 1 \in DOMAIN served'
        BY <1>4, <1>5
      <4> QED BY <1>5, <3>2, <4>1
    <3>3. CASE k # dev.rx
      <4>1. k < dev.rx /\ host.first <= k /\ k \in Nat
        BY <1>4, <3>1, <3>3
      <4>2. dev.rx >= host.first /\ dev.rx # host.first
        BY <1>4, <3>1, <4>1
      <4>3. Last = dev.rx - 1
        BY <1>0, <1>1, <4>2 DEF OutPart, HandInv
      <4>4. k \in host.first .. Last
        BY <1>4, <3>1, <4>1, <4>3
      <4>5. PICK i \in DOMAIN served : served[i] = k
        BY <1>0, <4>4 DEF OutPart, ServedInv
      <4>6. i \in 1 .. n /\ i \in 1 .. n + 1
        BY <1>4, <4>5
      <4> QED BY <1>5, <4>5, <4>6
    <3> QED BY <3>2, <3>3
  <2> QED BY <2>1, <2>2 DEF ServedInv
<1> HIDE DEF n
<1>10. HandInv'
  <2>1. dev'.rx = 0 /\ host'.first \in Nat \ {0}
    BY <1>0, TypeParts DEF Served
  <2> QED BY <1>0, <1>1, <1>2, <1>6, <2>1 DEF OutPart, HandInv, HostOut
<1>11. OutInv'
  <2>1. Expected' = Expected /\ hw'.r1.tog = hw.r1.tog /\ dev'.rxTog = dev.rxTog
    BY <1>0, <1>1, <1>2 DEF Served, Expected
  <2> QED BY <1>0, <1>1, <1>3, <1>6, <2>1 DEF OutPart, OutInv, HostOut
<1> QED BY <1>3, <1>9, <1>10, <1>11 DEF Synced, FreshInv

LEMMA LoadOut == ASSUME Synced, Loads \/ Pump \/ Rests PROVE Synced'
<1>1. /\ dev'.rx = dev.rx /\ dev'.rxTog = dev.rxTog /\ dev'.txTog = dev.txTog
      /\ hw'.r1 = hw.r1 /\ hw'.xfer = hw.xfer /\ hw'.setup = hw.setup /\ hw'.t0 = hw.t0
      /\ served' = served /\ UNCHANGED host
  BY DEF Loads, Loaded, Pump, Rests, KeepsQueue
<1>2. OutView /\ HostOut /\ (Live' => Live) /\ OutPart
  BY <1>1 DEF OutView, HostOut, OutWaits, Live, Fresh, Configuring, Synced, OutPart
<1>3. FreshInv'
  BY <1>1 DEF Synced, FreshInv, Fresh, Configuring
<1> QED BY <1>2, <1>3, OutSame DEF Synced, OutPart

LEMMA AskOut == ASSUME Synced, Asks PROVE Synced'
<1>1. PICK req \in Requests : AskedIs(req)
  BY DEF Asks
<1>2. ~Fresh /\ ~Fresh'
  BY <1>1 DEF Asks, AskedIs, Fresh, Configuring, Requests
<1>3. OutView /\ HostOut /\ (Live' => Live) /\ OutPart
  BY <1>1, <1>2 DEF Asks, AskedIs, KeepsPipes, KeepsData, KeepsQueue, OutView, HostOut, OutWaits,
                    Live, Synced, OutPart
<1> QED BY <1>2, <1>3, OutSame DEF Synced, OutPart, FreshInv

(* A reset and a configuration start the numbers above all that was taken. *)
LEMMA NumbersAfresh ==
    ASSUME TypeInv, TypeInv', Synced, InHand' \in {0, InHand}, dev'.rx = dev.rx,
           hw'.r1 = hw.r1, OutWaits' => OutWaits, served' = served,
           host'.first = Abandon, host'.next = Abandon, host'.tried = FALSE
    PROVE  /\ ServedInv' /\ HandInv' /\ Top' < host'.first
           /\ host'.next = host'.first
<1>1. InHand \in Nat /\ Last \in Nat /\ Top \in Nat
  BY HandTypes
<1>2. Last' = Last /\ host.next \in Nat
  BY TypeParts DEF Last
<1>3. Last <= Top /\ InHand <= Top
  BY <1>1 DEF Synced, HandInv, Top
<1>4. Abandon \in Nat /\ Top <= Abandon - 1
  BY <1>1, AbandonIs DEF Synced, HandInv
<1>5. Last < Abandon /\ InHand < Abandon /\ Top' \in {Last, InHand} /\ Top' < Abandon
  BY <1>1, <1>2, <1>3, <1>4 DEF Top
<1>6. ServedInv'
  BY <1>1, <1>2, <1>4, <1>5 DEF Synced, ServedInv
<1>7. HandInv'
  <2>1. InHand' # 0 => InHand' > Last'
    BY <1>2 DEF Synced, HandInv
  <2>2. ~(InHand' >= host'.first)
    BY <1>1, <1>4, <1>5
  <2>3. Top' <= host'.next - 1
    BY <1>1, <1>4, <1>5
  <2> QED BY <1>4, <2>1, <2>2, <2>3 DEF Synced, HandInv
<1> QED BY <1>5, <1>6, <1>7

LEMMA AnswerOut ==
    ASSUME TypeInv, TypeInv', ControlInv, Synced, ~host.cleared, Answered PROVE Synced'
<1>0. /\ UNCHANGED dev /\ served' = served /\ hw'.r1 = hw.r1 /\ hw.setup = "none" /\ hw'.setup = "none"
      /\ host'.stage # "status" /\ AnsweredIs
  BY DEF Answered, AnsweredIs, KeepsPipes, KeepsQueue, NoFlag
<1>1. ~OutWaits /\ ~OutWaits'
  BY NotWaiting DEF Answered, AnsweredIs, NoFlag, OutWaits
<1>2. ~Fresh' /\ (Fresh <=> Configuring)
  BY <1>0 DEF Fresh, Configuring
<1>3. OutView
  BY <1>0, <1>1 DEF OutView
<1>4. CASE KeepsData /\ host'.up = host.up /\ (Configuring => hw.t0.res = "STALL")
  <2>1. ~Fresh
    BY <1>2, <1>4 DEF Synced, FreshInv
  <2> QED BY <1>2, <1>3, <1>4, <2>1, OutSame
          DEF KeepsData, HostOut, Live, Synced, OutPart, FreshInv
<1>5. CASE KeepsData /\ host'.up = FALSE
  BY <1>2, <1>3, <1>5, OutSame DEF KeepsData, HostOut, Live, Synced, OutPart, FreshInv
<1>6. CASE Configuring /\ Configured
  <2>1. Fresh
    BY <1>2, <1>6
  <2>2. InHand' = InHand /\ dev'.rx = dev.rx
    BY <1>0, <1>1 DEF InHand
  <2>3. /\ ServedInv' /\ HandInv' /\ Top' < host'.first /\ host'.next = host'.first
    BY <1>0, <1>1, <1>6, <2>2, NumbersAfresh DEF Configured
  <2>4. Expected' = 0 /\ hw'.r1.tog = 0 /\ dev'.rxTog = 0 /\ host'.outTog = 0
    BY <1>0, <1>1, <1>6, <2>1 DEF Synced, FreshInv, Expected, Configured
  <2>5. OutInv'
    BY <2>3, <2>4 DEF OutInv
  <2> QED BY <1>2, <2>3, <2>5 DEF Synced, FreshInv
<1>7. host.req \notin Resyncs
  BY DEF ControlInv
<1> QED BY <1>0, <1>4, <1>5, <1>6, <1>7 DEF AnsweredIs

LEMMA ResetOut ==
    ASSUME TypeInv, TypeInv', Synced, Resets PROVE Synced'
<1>0. /\ UNCHANGED dev /\ served' = served /\ hw'.r1 = hw.r1 /\ hw'.xfer \in {hw.xfer, NoXfer}
      /\ host'.stage = "idle" /\ host'.up = FALSE
  BY DEF Resets, BusResetIs, KeepsPipes, KeepsQueue
<1>1. ~Live' /\ ~Fresh'
  BY <1>0 DEF Live, Fresh, Configuring
<1>2. OutWaits' => OutWaits
  BY <1>0, NotWaiting DEF OutWaits
<1>3. InHand' \in {0, InHand}
  BY <1>0, <1>2 DEF InHand, Synced, HandInv
<1>4. ServedInv' /\ HandInv'
  BY <1>0, <1>2, <1>3, NumbersAfresh DEF Resets, BusResetIs
<1> QED BY <1>1, <1>4 DEF Synced, OutInv, FreshInv

LEMMA ReadOut == ASSUME Synced, Reads PROVE Synced'
<1>1. ~OutWaits /\ ~OutWaits'
  BY NotWaiting DEF Reads, BulkInIs, BulkFree, NoFlag, OutWaits
<1>2. ~Fresh /\ ~Fresh' /\ (Live' <=> Live)
  BY DEF Reads, BulkInIs, BulkFree, Fresh, Configuring, Live
<1>3. OutView /\ HostOut
  BY <1>1 DEF Reads, BulkInIs, KeepsPipes, KeepsQueue, OutView, HostOut
<1> QED BY <1>2, <1>3, OutSame DEF Synced, OutPart, FreshInv

(* The toggles tell a new packet from a repeated one.                      *)
LEMMA SendOut == ASSUME TypeInv, TypeInv', Synced, Sends PROVE Synced'
<1>0. /\ BulkOutIs /\ UNCHANGED dev /\ served' = served /\ hw.xfer = NoXfer /\ hw.r1.res = "ACK"
      /\ hw'.r1.tog = hw.r1.tog /\ hw'.r1.data = host.next /\ host'.first = host.first
  BY DEF Sends, BulkOutIs, BulkFree, NoFlag, KeepsQueue
<1>1. ~Fresh /\ ~Fresh' /\ Live /\ Live'
  BY DEF Sends, BulkOutIs, BulkFree, Fresh, Configuring, Live
<1>2. ~OutWaits
  BY <1>0, NotWaiting DEF OutWaits
<1>3. dev.rx = 0 /\ InHand = 0 /\ Top = Last /\ Expected = hw.r1.tog /\ Last' = Last
  BY <1>0, <1>2 DEF Synced, HandInv, InHand, Top, Expected, Last
<1>4. /\ host.next \in Nat \ {0} /\ host.first \in Nat \ {0} /\ host.first <= host.next
      /\ host.outTog \in Bit /\ hw.r1.tog \in Bit /\ Last \in Nat
  BY TypeParts, HandTypes DEF Synced, HandInv
<1>5. /\ hw.r1.tog = dev.rxTog
      /\ host.outTog = hw.r1.tog => Last = host.next - 1 \/ (Last < host.first /\ host.next = host.first)
      /\ host.outTog # hw.r1.tog => host.tried /\ Last = host.next
  BY <1>1, <1>3 DEF Synced, OutInv
<1>6. ServedInv'
  BY <1>0, <1>3 DEF Synced, ServedInv
<1>7. \/ /\ host'.outTog = 1 - host.outTog /\ host'.next = host.next + 1
         /\ host'.tried = FALSE
      \/ host'.outTog = host.outTog /\ host'.next = host.next /\ host'.tried = TRUE
  BY <1>0 DEF BulkOutIs
<1>8. CASE host.outTog = hw.r1.tog
  <2>1. OutWaits' /\ InHand' = host.next /\ Top' = host.next /\ Expected' = 1 - hw.r1.tog
    BY <1>0, <1>4, <1>8 DEF BulkOutIs, OutWaits, InHand, Top, Expected
  <2>2. /\ host.next > Last
        /\ host.next >= host.first => host.next = host.first \/ Last = host.next - 1
    BY <1>4, <1>5, <1>8
  <2>3. Top' <= (IF host'.tried THEN host'.next ELSE host'.next - 1)
    BY <1>4, <1>7, <2>1
  <2>4. host'.first <= host'.next
    BY <1>0, <1>4, <1>7
  <2>5. HandInv'
    BY <1>0, <1>3, <2>1, <2>2, <2>3, <2>4 DEF HandInv
  <2>6. /\ host'.outTog = Expected' => Top' = host'.next - 1
        /\ host'.outTog # Expected' => host'.tried /\ Top' = host'.next
    BY <1>4, <1>7, <1>8, <2>1, Flip
  <2>7. OutInv'
    BY <1>0, <1>5, <2>6 DEF OutInv
  <2> QED BY <1>1, <1>6, <2>5, <2>7 DEF Synced, FreshInv
<1>9. CASE host.outTog # hw.r1.tog
  <2>1. ~OutWaits' /\ InHand' = 0 /\ Top' = host.next /\ Expected' = hw.r1.tog
    <3>1. hw'.xfer.ok = (hw.r1.tog = host.outTog)
      BY <1>0 DEF BulkOutIs
    <3>2. OutWaits' => hw'.xfer.ok
      BY DEF OutWaits
    <3>3. ~OutWaits'
      BY <1>9, <3>1, <3>2
    <3> QED BY <1>0, <1>3, <1>5, <1>9, <3>3 DEF InHand, Top, Expected
  <2>2. Top' <= (IF host'.tried THEN host'.next ELSE host'.next - 1)
    BY <1>4, <1>7, <2>1
  <2>3. host'.first <= host'.next /\ host'.first \in Nat \ {0}
    BY <1>0, <1>4, <1>7
  <2>4. HandInv'
    BY <1>0, <1>3, <2>1, <2>2, <2>3 DEF HandInv
  <2>5. 1 - host.outTog = hw.r1.tog
    BY <1>4, <1>9 DEF Bit
  <2>6. /\ host'.outTog = Expected' => Top' = host'.next - 1
        /\ host'.outTog # Expected' => host'.tried /\ Top' = host'.next
    BY <1>4, <1>7, <1>9, <2>1, <2>5
  <2>7. OutInv'
    BY <1>0, <1>5, <2>6 DEF OutInv
  <2> QED BY <1>1, <1>6, <2>4, <2>7 DEF Synced, FreshInv
<1> QED BY <1>8, <1>9

(* Once a toggle is cleared nothing is claimed, and it stays so.           *)
LEMMA StaysCleared == ASSUME TypeInv, Step PROVE ~host'.cleared => ~host.cleared
BY TypeParts DEF Step, Polls, Loads, Serves, Pump, Asks, AskedIs, Answered, AnsweredIs, Sends,
       BulkOutIs, Reads, BulkInIs, Resets, BusResetIs, Rests

LEMMA OutStep ==
    ASSUME UsbAssumption, OutIInv, [UsbNext]_usbVars PROVE OutIInv'
<1>1. TypeInv /\ ControlInv /\ Step
  BY Steps DEF OutIInv
<1>2. TypeInv' /\ ControlInv'
  BY <1>1, TypeStep, ControlStep
<1>3. ASSUME ~host'.cleared PROVE Synced'
  <2>1. ~host.cleared /\ Synced
    BY <1>1, <1>3, StaysCleared DEF OutIInv
  <2> QED BY <1>1, <1>2, <2>1, PollOut, ServeOut, LoadOut, AskOut, AnswerOut, ResetOut,
             ReadOut, SendOut DEF Step
<1> QED BY <1>2, <1>3 DEF OutIInv

LEMMA OutInit == ASSUME UsbAssumption, UsbInit PROVE OutIInv
<1>1. TypeInv
  BY InitType
<1>2. ControlInv
  BY DEF UsbInit, ControlInv, Resyncs
<1>3. /\ served = <<>> /\ dev.rx = 0 /\ hw.xfer = NoXfer /\ host.stage = "idle" /\ ~host.up
      /\ host.first = 1 /\ host.next = 1 /\ host.tried = FALSE
  BY DEF UsbInit
<1>4. ~OutWaits /\ InHand = 0 /\ Last = 0 /\ Top = 0
  BY <1>3, NotWaiting DEF OutWaits, InHand, Last, Top
<1>5. ServedInv
  BY <1>3, <1>4 DEF ServedInv
<1>6. HandInv
  BY <1>3, <1>4 DEF HandInv
<1>7. OutInv /\ FreshInv
  BY <1>3 DEF OutInv, FreshInv, Live, Fresh, Configuring
<1> QED BY <1>1, <1>2, <1>5, <1>6, <1>7 DEF OutIInv, Synced

LEMMA OutSafe == ASSUME OutIInv, ~host.cleared PROVE OutExact
<1>1. served \in Seq(Nat \ {0}) /\ ServedInv /\ host.first \in Nat /\ host.next \in Nat
  BY TypeParts DEF OutIInv, Synced, TypeInv
<1>2. ASSUME NEW k \in host.first .. host.next - 1, served # <<>>, k <= served[Len(served)]
      PROVE  \E i \in DOMAIN served : served[i] = k
  <2>1. Last = served[Len(served)] /\ Last \in Nat
    BY <1>2, HandTypes DEF Last, OutIInv
  <2>2. k \in host.first .. Last
    BY <1>1, <1>2, <2>1
  <2> QED BY <1>1, <2>2 DEF ServedInv
<1> QED BY <1>1, <1>2 DEF OutExact, ServedInv

LEMMA InvType == ASSUME UsbAssumption, TypeInv PROVE UsbTypeOK
<1>1. /\ dev.ep0.st \in {"Idle", "DataIn", "StatusOut", "StatusIn"}
      /\ dev.tog \in Bit
  BY DEF TypeInv, Devs
<1> QED BY <1>1, TypeParts DEF TypeInv, UsbTypeOK, Bit

(* For every queue and packet size, and any number of packets, lost        *)
(* acknowledgements, bus resets and reconfigurations: the server gets      *)
(* every OUT packet of a configuration once and in order (usb.rs           *)
(* on_ep1_transfer, rx_consume; run.rs), unless a toggle was cleared.      *)
THEOREM OutOnce ==
    ASSUME UsbAssumption
    PROVE  UsbSpec => [](UsbTypeOK /\ (~host.cleared => OutExact))
<1>1. UsbInit => OutIInv
  BY OutInit
<1>2. OutIInv /\ [UsbNext]_usbVars => OutIInv'
  BY OutStep
<1>3. OutIInv => UsbTypeOK /\ (~host.cleared => OutExact)
  BY OutSafe, InvType DEF OutIInv
<1> QED BY <1>1, <1>2, <1>3, PTL DEF UsbSpec

-----------------------------------------------------------------------------
(* IN: the records made, split by the queue, the armed packet and the host. *)

IInv == OutIInv /\ (~host.cleared => Exact)

(* A record waits in the queue, is armed, or has been read.                *)
InView == /\ dev'.txTog = dev.txTog /\ dev'.txBusy = dev.txBusy /\ hw'.t1 = hw.t1
          /\ InWaits' <=> InWaits
HostIn == host'.inTog = host.inTog /\ host'.in = host.in

LEMMA InSame ==
    ASSUME Exact, InView, HostIn, Popped' = Popped, QueueInv', Live' => Live PROVE Exact'
<1>1. ArmedInv'
  BY DEF Exact, ArmedInv, InView
<1>2. Reached' = Reached
  BY DEF Reached, InView, HostIn
<1>3. InInv'
  BY <1>2 DEF Exact, InInv, InView, HostIn
<1>4. InExact'
  BY DEF Exact, InExact, HostIn
<1> QED BY <1>1, <1>3, <1>4 DEF Exact

LEMMA QueueSame ==
    ASSUME QueueInv, UNCHANGED <<txq, made>> PROVE QueueInv' /\ Popped' = Popped
BY DEF QueueInv, Popped

(* A disarmed endpoint, and no session.                                    *)
LEMMA InDisarmed ==
    ASSUME Exact, UNCHANGED <<txq, made>>, dev'.txBusy = FALSE, hw'.t1.res = "NAK",
           host'.in \in {host.in, <<>>}, ~Live'
    PROVE  Exact'
<1>1. QueueInv'
  BY QueueSame DEF Exact
<1>2. InExact'
  BY DEF Exact, InExact
<1> QED BY <1>1, <1>2 DEF Exact, ArmedInv, InInv

LEMMA NoXferIn == ~(NoXfer.ep = 1 /\ NoXfer.token # "OUT")
BY DEF NoXfer

LEMMA PollIn ==
    ASSUME UsbAssumption, TypeInv, ControlInv, Exact, ~host.cleared, Polls PROVE Exact'
<1>0. UNCHANGED host /\ UNCHANGED <<txq, made>> /\ HostIn /\ QueueInv' /\ Popped' = Popped
  BY QueueSame DEF Polls, KeepsQueue, HostIn, Exact
<1>1. CASE hw.rst /\ ResetIs
  <2>1. ~Live'
    BY <1>0, <1>1 DEF ControlInv, Live
  <2>2. dev'.txBusy = FALSE /\ hw'.t1.res = "NAK"
    BY <1>1 DEF ResetIs, Wiped, Armed
  <2> QED BY <1>0, <2>1, <2>2, InDisarmed
<1>2. CASE ~hw.rst /\ hw.setup # "none" /\ SetupIs
  <2>1. hw.setup = host.req /\ hw'.setup = "none" /\ ~InWaits /\ ~InWaits'
    BY <1>2, NoXferIn DEF SetupIs, ControlInv, InWaits
  <2>2. CASE hw.setup = "config"
    <3>1. ~Live'
      BY <1>0, <2>1, <2>2 DEF ControlInv, Live, Fresh, Configuring
    <3>2. dev'.txBusy = FALSE /\ hw'.t1.res = "NAK"
      BY <1>2, <2>2 DEF SetupIs, Wiped, Armed
    <3> QED BY <1>0, <3>1, <3>2, InDisarmed
  <2>3. CASE hw.setup # "config"
    <3>1. hw.setup \in {"desc", "bad", "address", "unconfig"}
      BY <1>2, <2>1, <2>3, TypeParts DEF ControlInv, Requests, Resyncs
    <3>2. ~Fresh' /\ ~Fresh
      BY <1>0, <2>1, <2>3 DEF Fresh, Configuring
    <3>3. InView /\ (Live' => Live)
      BY <1>0, <1>2, <2>1, <3>1, <3>2 DEF SetupIs, KeepsBulk, InView, Live
    <3> QED BY <1>0, <3>3, InSame
  <2> QED BY <2>2, <2>3
<1>3. CASE ~hw.rst /\ hw.setup = "none" /\ ~OutWaits /\ ~InWaits /\ Ep0Is
  <2>1. InView /\ (Live' => Live)
    BY <1>0, <1>3, NoXferIn DEF Ep0Is, KeepsBulk, InView, InWaits, Live, Fresh, Configuring
  <2> QED BY <1>0, <2>1, InSame
<1>4. CASE ~hw.rst /\ hw.setup = "none" /\ OutWaits /\ TakenIs
  <2>1. ~InWaits
    BY <1>4 DEF OutWaits, InWaits
  <2>2. InView /\ (Live' => Live)
    BY <1>0, <1>4, <2>1, NoXferIn DEF TakenIs, InView, InWaits, Live, Fresh, Configuring
  <2> QED BY <1>0, <2>2, InSame
<1>5. CASE ~hw.rst /\ hw.setup = "none" /\ ~OutWaits /\ InWaits /\ SentIs
  <2>1. /\ dev'.txBusy = FALSE /\ hw'.t1.res = "NAK" /\ dev'.txTog = 1 - dev.txTog
        /\ ~InWaits' /\ (Live' <=> Live)
    BY <1>0, <1>5, NoXferIn DEF SentIs, InWaits, Live, Fresh, Configuring
  <2>2. ArmedInv'
    BY <2>1 DEF ArmedInv
  <2>3. ASSUME Live PROVE InInv'
    <3>1. dev.txBusy /\ host.inTog # dev.txTog
      BY <1>5, <2>3 DEF Exact, InInv
    <3>2. Reached = Popped /\ Reached' = Popped
      BY <1>0, <2>1, <3>1 DEF Reached
    <3>3. host.inTog = 1 - dev.txTog
      BY <3>1, TypeParts DEF Bit
    <3> QED BY <1>0, <2>1, <2>3, <3>2, <3>3 DEF Exact, InInv
  <2>4. InInv' /\ InExact'
    BY <1>0, <2>1, <2>3 DEF InInv, Exact, InExact
  <2> QED BY <1>0, <2>2, <2>4 DEF Exact
<1>6. CASE UNCHANGED <<dev, hw>>
  <2>1. InView /\ (Live' => Live)
    BY <1>0, <1>6 DEF InView, InWaits, Live, Fresh, Configuring
  <2> QED BY <1>0, <2>1, InSame
<1> QED BY <1>1, <1>2, <1>3, <1>4, <1>5, <1>6 DEF Polls, PollIs

(* Arming moves the head of the queue to the endpoint.                     *)
LEMMA LoadIn == ASSUME UsbAssumption, TypeInv, Exact, Loads PROVE Exact'
<1> DEFINE m == Len(First(txq, Mps))
<1>1. /\ txq \in Seq(Nat) /\ Len(txq) \in Nat /\ made \in Nat
  BY DEF TypeInv
<1>2. m \in Nat /\ m <= Len(txq) /\ \A i \in 1 .. m : First(txq, Mps)[i] = txq[i]
  BY <1>1, FirstIs
<1>3. Len(txq') = Len(txq) - m /\ \A i \in 1 .. Len(txq') : txq'[i] = txq[m + i]
  BY <1>1, RestIs DEF Loads
<1>4. /\ UNCHANGED <<host, made>> /\ ~dev.txBusy /\ dev'.txBusy = TRUE /\ dev'.txTog = dev.txTog
      /\ hw'.t1.res = "ACK" /\ hw'.t1.tog = dev.txTog /\ hw'.t1.data = First(txq, Mps)
      /\ hw'.setup = hw.setup /\ hw'.xfer = hw.xfer
  BY DEF Loads, Loaded, Armed
<1>5. Len(hw'.t1.data) = m
  BY <1>4
<1> HIDE DEF m
<1>6. Popped' = Popped + m /\ Popped \in Int
  BY <1>1, <1>2, <1>3, <1>4 DEF Popped
<1>7. QueueInv'
  <2>1. ASSUME NEW i \in 1 .. Len(txq') PROVE txq'[i] = Popped' + i
    <3>1. m + i \in 1 .. Len(txq) /\ i \in Int
      BY <1>1, <1>2, <1>3
    <3>2. txq[m + i] = Popped + (m + i)
      BY <3>1 DEF Exact, QueueInv
    <3> QED BY <1>2, <1>3, <1>6, <3>1, <3>2
  <2> QED BY <2>1 DEF QueueInv
<1>8. ArmedInv'
  <2>1. ASSUME NEW i \in 1 .. m PROVE hw'.t1.data[i] = Popped' - m + i
    <3>1. i \in 1 .. Len(txq) /\ i \in Int
      BY <1>1, <1>2
    <3>2. txq[i] = Popped + i
      BY <3>1 DEF Exact, QueueInv
    <3> QED BY <1>2, <1>4, <1>6, <3>1, <3>2
  <2> QED BY <1>4, <1>5, <2>1 DEF ArmedInv
<1>9. InInv'
  <2>1. Live' <=> Live
    BY <1>4 DEF Live, Fresh, Configuring
  <2>2. ASSUME Live PROVE InInv'
    <3>1. ~InWaits /\ host.inTog = dev.txTog
      BY <1>4, <2>2 DEF Exact, InInv
    <3>2. ~InWaits'
      BY <1>4, <3>1 DEF InWaits
    <3>3. Reached = Popped
      BY <1>4 DEF Reached
    <3>4. Reached' = Popped' - m
      BY <1>4, <1>5, <3>1 DEF Reached
    <3>5. Reached' = Reached
      BY <1>2, <1>6, <3>3, <3>4
    <3> QED BY <1>4, <2>2, <3>2, <3>5 DEF Exact, InInv
  <2> QED BY <2>1, <2>2 DEF InInv
<1>10. InExact'
  BY <1>4 DEF Exact, InExact
<1> QED BY <1>7, <1>8, <1>9, <1>10 DEF Exact

(* New records go behind the queue, and none is dropped within the         *)
(* headroom.                                                               *)
LEMMA QueueGrows ==
    ASSUME UsbAssumption, TypeInv, QueueInv, NEW n \in Nat, Queue(n), n <= Free
    PROVE  QueueInv' /\ Popped' = Popped
<1>1. txq \in Seq(Nat) /\ Len(txq) \in Nat /\ made \in Nat
  BY DEF TypeInv
<1>2. /\ Len(txq') = Len(txq) + n /\ made' = made + n
      /\ \A i \in 1 .. Len(txq) : txq'[i] = txq[i]
      /\ \A i \in 1 .. n : txq'[Len(txq) + i] = made + i
  BY QueueIs
<1>3. Popped' = Popped
  BY <1>1, <1>2 DEF Popped
<1>4. ASSUME NEW i \in 1 .. Len(txq') PROVE txq'[i] = Popped + i
  <2>1. CASE i \in 1 .. Len(txq)
    BY <1>2, <2>1 DEF QueueInv
  <2>2. CASE i \notin 1 .. Len(txq)
    <3>1. i - Len(txq) \in 1 .. n /\ Len(txq) + (i - Len(txq)) = i
      BY <1>1, <1>2, <2>2
    <3>2. txq'[i] = made + (i - Len(txq))
      BY <1>2, <3>1
    <3> QED BY <1>1, <1>2, <3>2 DEF Popped
  <2> QED BY <2>1, <2>2
<1> QED BY <1>3, <1>4 DEF QueueInv

LEMMA MakeIn ==
    ASSUME UsbAssumption, TypeInv, Exact, WithinHeadroom, Serves \/ Pump PROVE Exact'
<1>1. CASE Serves
  <2>1. Queue(1) /\ 1 <= Free
    BY <1>1 DEF Serves, Served, UsbAssumption, Free, TypeInv
  <2>2. QueueInv' /\ Popped' = Popped
    BY <2>1, QueueGrows DEF Exact
  <2>3. InView /\ HostIn /\ (Live' => Live)
    BY <1>1 DEF Serves, Served, InView, InWaits, HostIn, Live, Fresh, Configuring
  <2> QED BY <2>2, <2>3, InSame
<1>2. CASE Pump
  <2>1. QueueInv' /\ Popped' = Popped
    <3>1. CASE Free >= Headroom
      <4>1. PICK n \in 0 .. due : Queue(n)
        BY <1>2, <3>1 DEF Pump
      <4>2. n \in Nat /\ n <= Free
        BY <3>1, <4>1 DEF WithinHeadroom, TypeInv, UsbAssumption, Free
      <4> QED BY <4>1, <4>2, QueueGrows DEF Exact
    <3>2. CASE ~(Free >= Headroom)
      BY <1>2, <3>2, QueueSame DEF Pump, Exact
    <3> QED BY <3>1, <3>2
  <2>2. InView /\ HostIn /\ (Live' => Live)
    BY <1>2 DEF Pump, InView, InWaits, HostIn, Live, Fresh, Configuring
  <2> QED BY <2>1, <2>2, InSame
<1> QED BY <1>1, <1>2

LEMMA AskIn == ASSUME Exact, Asks \/ Rests PROVE Exact'
<1>0. QueueInv' /\ Popped' = Popped
  BY QueueSame DEF Asks, Rests, KeepsQueue, Exact
<1>1. CASE Asks
  <2>1. PICK req \in Requests : AskedIs(req)
    BY <1>1 DEF Asks
  <2>2. InView /\ HostIn /\ (Live' => Live)
    BY <1>1, <2>1 DEF Asks, AskedIs, KeepsPipes, KeepsData, InView, InWaits, HostIn, Live, Fresh,
                      Configuring
  <2> QED BY <1>0, <2>2, InSame
<1>2. CASE Rests
  BY <1>0, <1>2, InSame DEF Rests, InView, InWaits, HostIn, Live, Fresh, Configuring
<1> QED BY <1>1, <1>2

LEMMA AnswerIn ==
    ASSUME ControlInv, Synced, Exact, ~host.cleared, Answered PROVE Exact'
<1>0. /\ UNCHANGED dev /\ hw'.t1 = hw.t1 /\ hw.setup = "none" /\ hw'.setup = "none"
      /\ host'.stage # "status" /\ AnsweredIs
  BY DEF Answered, AnsweredIs, KeepsPipes, NoFlag
<1>1. QueueInv' /\ Popped' = Popped
  BY QueueSame DEF Answered, KeepsQueue, Exact
<1>2. ~InWaits /\ ~InWaits'
  BY NoXferIn DEF Answered, AnsweredIs, NoFlag, InWaits
<1>3. ~Fresh' /\ (Fresh <=> Configuring) /\ InView
  BY <1>0, <1>2 DEF Fresh, Configuring, InView
<1>4. CASE KeepsData /\ host'.up = host.up /\ (Configuring => hw.t0.res = "STALL")
  <2>1. ~Fresh
    BY <1>3, <1>4 DEF Synced, FreshInv
  <2> QED BY <1>1, <1>3, <1>4, <2>1, InSame DEF KeepsData, HostIn, Live
<1>5. CASE KeepsData /\ host'.up = FALSE
  BY <1>1, <1>3, <1>5, InSame DEF KeepsData, HostIn, Live
<1>6. CASE Configuring /\ Configured
  <2>1. dev'.txTog = 0 /\ host'.inTog = 0 /\ host'.in = <<>>
    BY <1>0, <1>3, <1>6 DEF Synced, FreshInv, Configured
  <2>2. InInv' /\ InExact'
    BY <1>2, <2>1 DEF InInv, InExact
  <2>3. ArmedInv'
    BY <1>0, <1>1 DEF Exact, ArmedInv
  <2> QED BY <1>1, <2>2, <2>3 DEF Exact
<1>7. host.req \notin Resyncs
  BY DEF ControlInv
<1> QED BY <1>0, <1>4, <1>5, <1>6, <1>7 DEF AnsweredIs

LEMMA SendIn == ASSUME Exact, Sends PROVE Exact'
<1>1. QueueInv' /\ Popped' = Popped
  BY QueueSame DEF Sends, KeepsQueue, Exact
<1>2. ~InWaits /\ ~InWaits'
  BY NoXferIn DEF Sends, BulkFree, NoFlag, BulkOutIs, InWaits
<1>3. InView /\ HostIn /\ (Live' => Live)
  BY <1>2 DEF Sends, BulkOutIs, InView, HostIn, Live, Fresh, Configuring
<1> QED BY <1>1, <1>3, InSame

LEMMA ResetIn == ASSUME Exact, Resets PROVE Exact'
<1>1. QueueInv' /\ Popped' = Popped
  BY QueueSame DEF Resets, KeepsQueue, Exact
<1>2. ~Live' /\ host'.in = <<>>
  BY DEF Resets, BusResetIs, Live
<1>3. ArmedInv'
  BY <1>1 DEF Resets, BusResetIs, KeepsPipes, Exact, ArmedInv
<1> QED BY <1>1, <1>2, <1>3 DEF Exact, InInv, InExact

(* Where the elements of a joined sequence come from.                     *)
LEMMA Joined ==
    ASSUME NEW a \in Seq(Nat), NEW b \in Seq(Nat)
    PROVE  /\ Len(a \o b) = Len(a) + Len(b)
           /\ \A i \in 1 .. Len(a) + Len(b) :
                 (a \o b)[i] = IF i <= Len(a) THEN a[i] ELSE b[i - Len(a)]
BY SMT

(* The host takes the armed packet once: behind what it has, or not at all. *)
LEMMA ReadIn == ASSUME TypeInv, Exact, Reads PROVE Exact'
<1>0. /\ UNCHANGED dev /\ hw'.t1 = hw.t1 /\ hw.t1.res = "ACK" /\ BulkInIs
      /\ hw'.xfer = [ep |-> 1, token |-> "IN", ok |-> TRUE] \/ hw'.xfer = hw.xfer
  BY DEF Reads, BulkInIs, KeepsPipes
<1>1. QueueInv' /\ Popped' = Popped
  BY QueueSame DEF Reads, KeepsQueue, Exact
<1>2. Live /\ Live' /\ ~InWaits
  BY NoXferIn DEF Reads, BulkInIs, BulkFree, NoFlag, Live, Fresh, Configuring, InWaits
<1>3. /\ dev.txBusy /\ hw.t1.tog = dev.txTog
      /\ \A i \in 1 .. Len(hw.t1.data) : hw.t1.data[i] = Popped - Len(hw.t1.data) + i
  BY <1>0 DEF Exact, ArmedInv
<1>4. ArmedInv'
  BY <1>0, <1>1 DEF Exact, ArmedInv
<1>5. CASE hw.t1.tog = host.inTog /\ host'.inTog = 1 - host.inTog /\ host'.in = host.in \o hw.t1.data
  <2> DEFINE a == host.in
             b == hw.t1.data
  <2>1. a \in Seq(Nat) /\ b \in Seq(Nat) /\ Len(a) \in Nat /\ Len(b) \in Nat
    BY TypeParts
  <2>2. /\ Len(host'.in) = Len(a) + Len(b)
        /\ \A i \in 1 .. Len(a) + Len(b) : host'.in[i] = IF i <= Len(a) THEN a[i] ELSE b[i - Len(a)]
    <3>1. host'.in = a \o b
      BY <1>5
    <3> HIDE DEF a, b
    <3>2. /\ Len(a \o b) = Len(a) + Len(b)
          /\ \A i \in 1 .. Len(a) + Len(b) :
                (a \o b)[i] = IF i <= Len(a) THEN a[i] ELSE b[i - Len(a)]
      BY <2>1, Joined
    <3> QED BY <3>1, <3>2
  <2>3. host'.inTog # dev'.txTog
    BY <1>0, <1>3, <1>5, TypeParts, Flip
  <2>4. Reached = Popped - Len(b) /\ Reached' = Popped
    BY <1>0, <1>1, <1>3, <1>5, <2>3 DEF Reached
  <2>5. \A i \in 1 .. Len(a) : a[i] = Reached - Len(a) + i
    BY <1>2 DEF Exact, InInv
  <2>6. Popped \in Int
    BY DEF Popped, TypeInv
  <2>7. \A i \in 1 .. Len(b) : b[i] = Popped - Len(b) + i
    BY <1>3
  <2> HIDE DEF a, b
  <2>8. ASSUME NEW i \in 1 .. Len(host'.in) PROVE host'.in[i] = Popped - Len(host'.in) + i
    <3>1. i \in 1 .. Len(a) + Len(b) /\ i \in Int
      BY <2>1, <2>2
    <3>2. CASE i <= Len(a)
      <4>1. i \in 1 .. Len(a)
        BY <2>1, <3>1, <3>2
      <4>2. host'.in[i] = Popped - Len(b) - Len(a) + i
        BY <2>2, <2>4, <2>5, <3>1, <3>2, <4>1
      <4> QED BY <2>1, <2>2, <2>6, <3>1, <4>2
    <3>3. CASE ~(i <= Len(a))
      <4>1. i - Len(a) \in 1 .. Len(b)
        BY <2>1, <3>1, <3>3
      <4>2. host'.in[i] = Popped - Len(b) + (i - Len(a))
        BY <2>2, <2>7, <3>1, <3>3, <4>1
      <4> QED BY <2>1, <2>2, <2>6, <3>1, <4>2
    <3> QED BY <3>2, <3>3
  <2>9. InInv'
    BY <1>0, <1>3, <2>3, <2>4, <2>8 DEF InInv
  <2>10. InExact'
    <3>1. ASSUME NEW i \in 1 .. Len(host'.in) - 1 PROVE host'.in[i + 1] = host'.in[i] + 1
      <4>1. /\ i \in 1 .. Len(host'.in) /\ i + 1 \in 1 .. Len(host'.in) /\ i \in Int
            /\ Len(host'.in) \in Nat
        BY <2>1, <2>2
      <4>2. host'.in[i] = Popped - Len(host'.in) + i /\ host'.in[i + 1] = Popped - Len(host'.in) + (i + 1)
        BY <2>8, <4>1
      <4> QED BY <2>6, <4>1, <4>2
    <3> QED BY <3>1 DEF InExact
  <2> QED BY <1>1, <1>4, <2>9, <2>10 DEF Exact
<1>6. CASE hw.t1.tog # host.inTog /\ host'.inTog = host.inTog /\ host'.in = host.in
  <2>1. Reached = Popped /\ Reached' = Popped
    BY <1>0, <1>1, <1>3, <1>6 DEF Reached
  <2>2. InInv'
    BY <1>0, <1>2, <1>3, <1>6, <2>1 DEF Exact, InInv
  <2>3. InExact'
    BY <1>6 DEF Exact, InExact
  <2> QED BY <1>1, <1>4, <2>2, <2>3 DEF Exact
<1> QED BY <1>0, <1>5, <1>6 DEF BulkInIs

LEMMA InitInv == ASSUME UsbAssumption, UsbInit PROVE IInv
<1>1. OutIInv
  BY OutInit
<1>2. /\ txq = <<>> /\ dev.txBusy = FALSE /\ hw.t1.res = "NAK" /\ host.up = FALSE /\ host.in = <<>>
  BY DEF UsbInit, Armed
<1> QED BY <1>1, <1>2 DEF IInv, Exact, QueueInv, ArmedInv, InInv, InExact, Live

LEMMA Inductive ==
    ASSUME UsbAssumption, IInv, WithinHeadroom, [UsbNext]_usbVars PROVE IInv'
<1>1. TypeInv /\ ControlInv /\ Step /\ OutIInv'
  BY Steps, OutStep DEF IInv, OutIInv
<1>2. ASSUME ~host'.cleared PROVE Exact'
  <2>1. ~host.cleared /\ Synced /\ Exact
    BY <1>1, <1>2, StaysCleared DEF IInv, OutIInv
  <2> QED BY <1>1, <2>1, PollIn, LoadIn, MakeIn, AskIn, AnswerIn, SendIn, ReadIn, ResetIn DEF Step
<1> QED BY <1>1, <1>2 DEF IInv

(* As long as no more results wait than the queue's headroom covers, the   *)
(* host reads every record of a configuration once and in order too, for   *)
(* every packet and queue size and whatever the bus loses (usb.rs tx,      *)
(* on_ep1_transfer; run.rs: "a reliable pipe must not drop").              *)
THEOREM PipeDelivers ==
    ASSUME UsbAssumption
    PROVE  UsbSpec /\ []WithinHeadroom => []PipeExact
<1>1. UsbInit => IInv
  BY InitInv
<1>2. IInv /\ WithinHeadroom /\ [UsbNext]_usbVars => IInv'
  BY Inductive
<1>3. IInv => PipeExact
  BY OutSafe, InvType DEF IInv, OutIInv, Exact, PipeExact
<1> QED BY <1>1, <1>2, <1>3, PTL DEF UsbSpec

-----------------------------------------------------------------------------
(* The walker                                                              *)

WalkAssumptions == WalkAssumption /\ SessionAssumption

(* Each frame of the session lies in it whole, and the beginning of another *)
(* is not inside it; nothing else reads as a frame.                        *)
Laid ==
    /\ stream \in Seq(0 .. 255) /\ starts \subseteq 0 .. Len(stream) - 1
    /\ \A p \in 0 .. Len(stream) - 1, f \in GoodFrames : Occurs(f, stream, p) => p \in starts
    /\ \A s \in starts : \E f \in GoodFrames :
          Occurs(f, stream, s) /\ \A t \in starts : t <= s \/ t >= s + Len(f)

WalkInv == WalkTypeOK /\ Laid /\ RingTruth /\ NoPhantoms /\ NothingSkipped

LEMMA MaskIs ==
    ASSUME WalkAssumption, NEW x \in 0 .. RingLen + RingLen - 1
    PROVE  mask(x) = IF x < RingLen THEN x ELSE x - RingLen
<1>1. \A n \in Nat \ {0} : \A m \in 0 .. n - 1 : m % n = m /\ (m + n) % n = m
  OBVIOUS
<1>2. RingLen \in Nat \ {0}
  BY DEF WalkAssumption
<1>3. CASE x < RingLen
  BY <1>1, <1>2, <1>3 DEF mask
<1>4. CASE x >= RingLen
  <2>1. x - RingLen \in 0 .. RingLen - 1 /\ x = (x - RingLen) + RingLen
    BY <1>2, <1>4
  <2> QED BY <1>1, <1>2, <1>4, <2>1 DEF mask
<1> QED BY <1>2, <1>3, <1>4

LEMMA AvailIs ==
    ASSUME WalkAssumption, NEW c \in 0 .. RingLen - 1, NEW a \in 0 .. RingLen - 1
    PROVE  /\ mask((c + RingLen) - a) = IF a <= c THEN c - a ELSE c + RingLen - a
           /\ mask((c + RingLen) - a) \in 0 .. RingLen - 1
<1>1. RingLen \in Nat /\ (c + RingLen) - a \in 0 .. RingLen + RingLen - 1
  BY DEF WalkAssumption
<1> QED BY <1>1, MaskIs

LEMMA IndexIs ==
    ASSUME WalkAssumption, NEW a \in 0 .. RingLen - 1, NEW i \in 0 .. RingLen - 1
    PROVE  /\ mask(a + i) \in 0 .. RingLen - 1
           /\ mask(a + i) = IF a + i < RingLen THEN a + i ELSE a + i - RingLen
<1>1. RingLen \in Nat /\ a + i \in 0 .. RingLen + RingLen - 1
  BY DEF WalkAssumption
<1> QED BY <1>1, MaskIs

-----------------------------------------------------------------------------
(* The ring                                                                *)

LEMMA WalkTypes ==
    ASSUME WalkAssumption, WalkTypeOK, RingTruth
    PROVE  /\ RingLen \in Nat /\ RingLen > 4
           /\ cursor \in 0 .. RingLen - 1 /\ anchor \in 0 .. RingLen - 1
           /\ pos \in Nat /\ arrived \in Nat /\ pos <= arrived /\ avail = arrived - pos
           /\ avail \in 0 .. RingLen - 1
           /\ avail = IF anchor <= cursor THEN cursor - anchor ELSE cursor + RingLen - anchor
<1>1. /\ RingLen \in Nat /\ RingLen > 4
      /\ cursor \in 0 .. RingLen - 1 /\ anchor \in 0 .. RingLen - 1
      /\ pos \in 0 .. arrived /\ arrived \in 0 .. Len(stream) /\ avail = arrived - pos
  BY DEF WalkAssumption, WalkTypeOK, RingTruth
<1>2. /\ avail \in 0 .. RingLen - 1
      /\ avail = IF anchor <= cursor THEN cursor - anchor ELSE cursor + RingLen - anchor
  BY <1>1, AvailIs DEF avail
<1> QED BY <1>1, <1>2

(* The cursor moves over n bytes that have arrived.                        *)
LEMMA AdvanceKeeps ==
    ASSUME WalkAssumption, WalkTypeOK, RingTruth, NEW n \in 1 .. avail, Advance(n),
           UNCHANGED wire
    PROVE  /\ RingTruth' /\ anchor' \in 0 .. RingLen - 1 /\ pos' \in 0 .. arrived
           /\ pos' = pos + n
<1>1. /\ RingLen \in Nat /\ cursor \in 0 .. RingLen - 1 /\ anchor \in 0 .. RingLen - 1
      /\ pos \in Nat /\ arrived \in Nat /\ avail = arrived - pos
      /\ avail \in 0 .. RingLen - 1
      /\ avail = IF anchor <= cursor THEN cursor - anchor ELSE cursor + RingLen - anchor
  BY WalkTypes
<1>3. /\ anchor' \in 0 .. RingLen - 1
      /\ anchor' = IF anchor + n < RingLen THEN anchor + n ELSE anchor + n - RingLen
  <2>1. n \in 0 .. RingLen - 1
    BY <1>1
  <2> QED BY <2>1, <1>1, IndexIs DEF Advance
<1>4. pos' = pos + n /\ pos' \in 0 .. arrived
  BY <1>1 DEF Advance
<1>5. avail' = avail - n
  <2>1. avail' = IF anchor' <= cursor THEN cursor - anchor' ELSE cursor + RingLen - anchor'
    <3>1. avail' = mask((cursor + RingLen) - anchor')
      BY DEF avail, mask, wire
    <3> QED BY <1>1, <1>3, <3>1, AvailIs
  <2> QED BY <2>1, <1>1, <1>3
<1>6. avail' = arrived' - pos'
  BY <1>1, <1>4, <1>5 DEF wire
<1>7. ASSUME NEW i \in 1 .. avail' PROVE At(i - 1)' = stream'[pos' + i]
  <2>1. n + i \in 1 .. avail /\ i - 1 \in 0 .. RingLen - 1 /\ n + i - 1 \in 0 .. RingLen - 1
    BY <1>1, <1>5, <1>7
  <2>2. mask(anchor' + (i - 1)) = mask(anchor + (n + i - 1))
    <3>1. mask(anchor' + (i - 1)) = IF anchor' + (i - 1) < RingLen THEN anchor' + (i - 1)
                                    ELSE anchor' + (i - 1) - RingLen
      BY <1>3, <2>1, IndexIs
    <3>2. mask(anchor + (n + i - 1)) = IF anchor + (n + i - 1) < RingLen
             THEN anchor + (n + i - 1) ELSE anchor + (n + i - 1) - RingLen
      BY <1>1, <2>1, IndexIs
    <3> QED BY <1>1, <1>3, <2>1, <3>1, <3>2
  <2>3. At(n + i - 1) = stream[pos + (n + i)]
    BY <2>1 DEF RingTruth
  <2>4. At(i - 1)' = dma[mask(anchor' + (i - 1))]
    BY DEF At, mask, wire
  <2>5. At(i - 1)' = At(n + i - 1)
    BY <2>2, <2>4 DEF At
  <2>6. pos + (n + i) = pos' + i
    BY <1>1, <1>4
  <2> QED BY <2>3, <2>5, <2>6 DEF wire
<1> QED BY <1>3, <1>4, <1>6, <1>7 DEF RingTruth

LEMMA LandKeeps ==
    ASSUME WalkAssumption, WalkTypeOK, RingTruth, stream \in Seq(0 .. 255), Land
    PROVE  WalkTypeOK' /\ RingTruth'
<1>1. /\ RingLen \in Nat /\ cursor \in 0 .. RingLen - 1 /\ anchor \in 0 .. RingLen - 1
      /\ RingLen > 1
      /\ pos \in Nat /\ arrived \in Nat /\ avail = arrived - pos /\ pos <= arrived
      /\ avail \in 0 .. RingLen - 1
      /\ avail = IF anchor <= cursor THEN cursor - anchor ELSE cursor + RingLen - anchor
  BY WalkTypes
<1>2. /\ arrived < Len(stream) /\ arrived - pos < RingLen - 1
      /\ dma \in [0 .. RingLen - 1 -> 0 .. 255] /\ UNCHANGED <<stream, starts, anchor, pos, lost>>
      /\ arrived' = arrived + 1 /\ dma' = [dma EXCEPT ![cursor] = stream[arrived + 1]]
  BY DEF WalkTypeOK, Land
<1>3. /\ cursor' \in 0 .. RingLen - 1
      /\ cursor' = IF cursor + 1 < RingLen THEN cursor + 1 ELSE cursor + 1 - RingLen
  <2>1. 1 \in 0 .. RingLen - 1
    BY <1>1
  <2> QED BY <1>1, <2>1, IndexIs DEF Land
<1>4. avail' = avail + 1
  <2>1. avail' = IF anchor <= cursor' THEN cursor' - anchor ELSE cursor' + RingLen - anchor
    <3>1. avail' = mask((cursor' + RingLen) - anchor)
      BY <1>2 DEF avail, mask
    <3> QED BY <1>1, <1>3, <3>1, AvailIs
  <2> QED BY <1>1, <1>2, <1>3, <2>1
<1>5. Len(stream) \in Nat /\ arrived + 1 \in 1 .. Len(stream)
      /\ stream[arrived + 1] \in 0 .. 255
  <2>1. Len(stream) \in Nat
    BY LenProperties
  <2>2. arrived + 1 \in 1 .. Len(stream)
    BY <1>1, <1>2, <2>1
  <2> QED BY <2>1, <2>2, ElementOfSeq
<1>6. WalkTypeOK'
  <2>1. dma' \in [0 .. RingLen - 1 -> 0 .. 255]
    BY <1>1, <1>2, <1>5
  <2>2. pos' \in 0 .. arrived' /\ arrived' \in 0 .. Len(stream')
    BY <1>1, <1>2, <1>5
  <2> QED BY <1>1, <1>2, <1>3, <2>1, <2>2 DEF WalkTypeOK
<1>7. avail' = arrived' - pos'
  BY <1>1, <1>2, <1>4
<1>8. ASSUME NEW i \in 1 .. avail' PROVE At(i - 1)' = stream'[pos' + i]
  <2>1. i - 1 \in 0 .. RingLen - 1 /\ i \in Nat
    BY <1>1, <1>2, <1>4, <1>8
  <2>2. /\ mask(anchor + (i - 1)) \in 0 .. RingLen - 1
        /\ mask(anchor + (i - 1)) = IF anchor + (i - 1) < RingLen THEN anchor + (i - 1)
                                    ELSE anchor + (i - 1) - RingLen
    BY <1>1, <2>1, IndexIs
  <2>3. At(i - 1)' = dma'[mask(anchor + (i - 1))]
    BY <1>2 DEF At, mask
  <2>4. CASE i = avail + 1
    <3>1. mask(anchor + (i - 1)) = cursor
      BY <1>1, <1>2, <2>2, <2>4
    <3>2. dma'[cursor] = stream[arrived + 1]
      BY <1>1, <1>2
    <3>3. arrived + 1 = pos + i
      BY <1>1, <2>4
    <3> QED BY <1>2, <2>3, <3>1, <3>2, <3>3
  <2>5. CASE i \in 1 .. avail
    <3>1. mask(anchor + (i - 1)) # cursor
      BY <1>1, <1>2, <2>2, <2>5
    <3>2. dma'[mask(anchor + (i - 1))] = At(i - 1)
      BY <1>1, <1>2, <2>2, <3>1 DEF At
    <3> QED BY <1>2, <2>3, <2>5, <3>2 DEF RingTruth
  <2> QED BY <1>1, <1>4, <2>4, <2>5
<1> QED BY <1>6, <1>7, <1>8 DEF RingTruth

(* The two slices are the bytes from start on, around the end of the ring. *)
LEMMA SpanIs ==
    ASSUME WalkAssumption, dma \in [0 .. RingLen - 1 -> 0 .. 255],
           NEW a \in 0 .. RingLen - 1, NEW n \in 0 .. RingLen
    PROVE  /\ Span(a, n) \in Seq(0 .. 255) /\ Len(Span(a, n)) = n
           /\ \A i \in 1 .. n : Span(a, n)[i] = dma[mask(a + (i - 1))]
<1> DEFINE head == IF n <= RingLen - a THEN n ELSE RingLen - a
           up == [i \in 1 .. head |-> dma[a + i - 1]]
           on == [i \in 1 .. n - head |-> dma[i - 1]]
<1>1. Span(a, n) = up \o on
  BY DEF Span
<1>2. RingLen \in Nat /\ head \in 0 .. RingLen /\ head <= n /\ n - head \in 0 .. RingLen
      /\ a + head <= RingLen /\ n - head <= a
      /\ (head < n => head = RingLen - a)
  BY DEF WalkAssumption
<1> HIDE DEF head
<1>3. up \in Seq(0 .. 255) /\ Len(up) = head
  <2>1. \A i \in 1 .. head : a + i - 1 \in 0 .. RingLen - 1
    BY <1>2
  <2>2. \A i \in 1 .. head : dma[a + i - 1] \in 0 .. 255
    BY <2>1
  <2> QED BY <1>2, <2>2
<1>4. on \in Seq(0 .. 255) /\ Len(on) = n - head
  <2>1. \A i \in 1 .. n - head : i - 1 \in 0 .. RingLen - 1
    BY <1>2
  <2>2. \A i \in 1 .. n - head : dma[i - 1] \in 0 .. 255
    BY <2>1
  <2> QED BY <1>2, <2>2
<1>5. /\ \A i \in 1 .. head : up[i] = dma[a + i - 1]
      /\ \A i \in 1 .. n - head : on[i] = dma[i - 1]
  OBVIOUS
<1> HIDE DEF up, on
<1>6. /\ Span(a, n) \in Seq(0 .. 255) /\ Len(Span(a, n)) = Len(up) + Len(on)
      /\ \A i \in 1 .. Len(up) + Len(on) :
           Span(a, n)[i] = IF i <= Len(up) THEN up[i] ELSE on[i - Len(up)]
  <2>1. /\ up \o on \in Seq(0 .. 255) /\ Len(up \o on) = Len(up) + Len(on)
        /\ \A i \in 1 .. Len(up) + Len(on) :
             (up \o on)[i] = IF i <= Len(up) THEN up[i] ELSE on[i - Len(up)]
    BY <1>3, <1>4, ConcatProperties, ZenonT(40)
  <2> QED BY <1>1, <2>1
<1>7. Len(up) + Len(on) = n
  BY <1>2, <1>3, <1>4
<1>8. ASSUME NEW i \in 1 .. n PROVE Span(a, n)[i] = dma[mask(a + (i - 1))]
  <2>1. i - 1 \in 0 .. RingLen - 1
    BY <1>2, <1>8
  <2>2. mask(a + (i - 1)) = IF a + (i - 1) < RingLen THEN a + (i - 1) ELSE a + (i - 1) - RingLen
    BY <2>1, IndexIs
  <2>3. CASE i <= head
    <3>1. i \in 1 .. head /\ a + i - 1 = a + (i - 1) /\ a + (i - 1) < RingLen
      BY <1>2, <1>8, <2>3
    <3>2. Span(a, n)[i] = up[i]
      BY <1>3, <1>6, <1>7, <1>8, <2>3
    <3> QED BY <1>5, <2>2, <3>1, <3>2
  <2>4. CASE ~(i <= head)
    <3>1. i - head \in 1 .. n - head /\ a + (i - 1) - RingLen = (i - head) - 1
          /\ ~(a + (i - 1) < RingLen)
      BY <1>2, <1>8, <2>4
    <3>2. Span(a, n)[i] = on[i - head]
      BY <1>3, <1>6, <1>7, <1>8, <2>4
    <3>3. on[i - head] = dma[(i - head) - 1]
      BY <1>5, <3>1
    <3> QED BY <2>2, <3>1, <3>2, <3>3
  <2> QED BY <2>3, <2>4
<1> QED BY <1>6, <1>7, <1>8


-----------------------------------------------------------------------------
(* What the cursor stands on                                               *)

LEMMA ByteIs ==
    ASSUME WalkInv, NEW i \in 1 .. avail
    PROVE  /\ At(i - 1) = stream[pos + i] /\ At(i - 1) \in 0 .. 255
           /\ pos + i \in 1 .. Len(stream) /\ pos + avail <= Len(stream)
           /\ pos \in 0 .. Len(stream) - 1 /\ Len(stream) \in Nat
<1>1. /\ avail = arrived - pos /\ At(i - 1) = stream[pos + i]
      /\ pos \in Nat /\ pos <= arrived /\ arrived \in Nat /\ arrived <= Len(stream)
      /\ stream \in Seq(0 .. 255)
  BY DEF WalkInv, RingTruth, WalkTypeOK, Laid
<1>2. Len(stream) \in Nat
  BY <1>1, LenProperties
<1>3. pos + i \in 1 .. Len(stream)
  BY <1>1, <1>2
<1>4. stream[pos + i] \in 0 .. 255
  BY <1>1, <1>3, ElementOfSeq
<1>5. pos + avail <= Len(stream) /\ pos \in 0 .. Len(stream) - 1
  <2>1. pos + avail = arrived /\ pos + 1 <= pos + i /\ pos + i <= Len(stream)
    BY <1>1, <1>3
  <2> QED BY <1>1, <1>2, <2>1
<1> QED BY <1>1, <1>2, <1>3, <1>4, <1>5

LEMMA HeaderIs ==
    ASSUME WalkAssumption, WalkInv, avail >= 4
    PROVE  /\ At(0) = stream[pos + 1] /\ At(1) = stream[pos + 2]
           /\ At(2) = stream[pos + 3] /\ At(3) = stream[pos + 4]
           /\ At(2) \in 0 .. 255 /\ footprint = covered_len + 2
           /\ footprint \in Nat \ {0} /\ covered_len \in Nat \ {0}
<1>1. avail \in Nat
  BY WalkTypes DEF WalkInv
<1>2. /\ 1 \in 1 .. avail /\ 2 \in 1 .. avail /\ 3 \in 1 .. avail /\ 4 \in 1 .. avail
      /\ 1 - 1 = 0 /\ 2 - 1 = 1 /\ 3 - 1 = 2 /\ 4 - 1 = 3
  BY <1>1
<1>3. At(0) = stream[pos + 1]
  BY <1>2, ByteIs
<1>4. At(1) = stream[pos + 2]
  BY <1>2, ByteIs
<1>5. At(2) = stream[pos + 3] /\ At(2) \in 0 .. 255
  BY <1>2, ByteIs
<1>6. At(3) = stream[pos + 4]
  BY <1>2, ByteIs
<1>7. /\ footprint = covered_len + 2
      /\ footprint \in Nat \ {0} /\ covered_len \in Nat \ {0}
  BY <1>5 DEF footprint, covered_len
<1> QED BY <1>3, <1>4, <1>5, <1>6, <1>7

(* A view of n bytes, k behind the cursor, is the stream's.                *)
LEMMA ViewIs ==
    ASSUME WalkAssumption, WalkInv, NEW k \in 0 .. RingLen - 1, NEW n \in 0 .. RingLen,
           k + n <= avail
    PROVE  /\ Span(mask(anchor + k), n) \in Seq(0 .. 255)
           /\ Len(Span(mask(anchor + k), n)) = n
           /\ \A i \in 1 .. n : Span(mask(anchor + k), n)[i] = stream[pos + k + i]
<1>1. /\ RingLen \in Nat /\ anchor \in 0 .. RingLen - 1 /\ avail \in 0 .. RingLen - 1
      /\ pos \in Nat /\ dma \in [0 .. RingLen - 1 -> 0 .. 255]
  BY WalkTypes DEF WalkInv, WalkTypeOK
<1>2. PICK a \in 0 .. RingLen - 1 :
          /\ a = mask(anchor + k)
          /\ a = IF anchor + k < RingLen THEN anchor + k ELSE anchor + k - RingLen
  BY <1>1, IndexIs
<1>3. /\ Span(a, n) \in Seq(0 .. 255) /\ Len(Span(a, n)) = n
      /\ \A i \in 1 .. n : Span(a, n)[i] = dma[mask(a + (i - 1))]
  BY <1>1, SpanIs
<1>4. ASSUME NEW i \in 1 .. n PROVE dma[mask(a + (i - 1))] = stream[pos + k + i]
  <2>1. k + i \in 1 .. avail /\ i - 1 \in 0 .. RingLen - 1 /\ k + i - 1 \in 0 .. RingLen - 1
    BY <1>1, <1>4
  <2>2. mask(a + (i - 1)) = mask(anchor + (k + i - 1))
    <3>1. mask(a + (i - 1)) = IF a + (i - 1) < RingLen THEN a + (i - 1)
                              ELSE a + (i - 1) - RingLen
      BY <2>1, IndexIs
    <3>2. mask(anchor + (k + i - 1)) = IF anchor + (k + i - 1) < RingLen
             THEN anchor + (k + i - 1) ELSE anchor + (k + i - 1) - RingLen
      BY <1>1, <2>1, IndexIs
    <3> QED BY <1>1, <1>2, <2>1, <3>1, <3>2
  <2>3. At((k + i) - 1) = stream[pos + (k + i)]
    BY <2>1, ByteIs
  <2>4. (k + i) - 1 = k + i - 1 /\ pos + (k + i) = pos + k + i
    BY <1>1, <1>4
  <2> QED BY <2>2, <2>3, <2>4 DEF At
<1> QED BY <1>2, <1>3, <1>4

(* The span the CRC is taken over is the stream's.                         *)
LEMMA CrcIs ==
    ASSUME WalkAssumption, WalkInv, avail >= 4, avail >= footprint
    PROVE  LET c == Span(anchor, covered_len) \o <<At(covered_len), At(covered_len + 1)>>
           IN  /\ c \in Seq(0 .. 255) /\ Len(c) = footprint
               /\ \A i \in 1 .. footprint : c[i] = stream[pos + i]
<1>1. /\ RingLen \in Nat /\ anchor \in 0 .. RingLen - 1 /\ avail \in 0 .. RingLen - 1
      /\ pos \in Nat
  BY WalkTypes DEF WalkInv
<1>2. footprint = covered_len + 2 /\ covered_len \in Nat \ {0}
  BY HeaderIs
<1>3. PICK n \in 0 .. RingLen : n = covered_len /\ n + 2 <= avail /\ footprint = n + 2
  BY <1>1, <1>2
<1> DEFINE cover == Span(anchor, n)
           tail == <<At(n), At(n + 1)>>
<1>4. /\ cover \in Seq(0 .. 255) /\ Len(cover) = n
      /\ \A i \in 1 .. n : cover[i] = stream[pos + i]
  <2>1. 0 \in 0 .. RingLen - 1 /\ 0 + n <= avail /\ anchor + 0 = anchor
    BY <1>1, <1>3
  <2>2. mask(anchor + 0) = anchor
    BY <1>1, <2>1, IndexIs
  <2>3. /\ Span(anchor, n) \in Seq(0 .. 255) /\ Len(Span(anchor, n)) = n
        /\ \A i \in 1 .. n : Span(anchor, n)[i] = stream[pos + 0 + i]
    BY <2>1, <2>2, ViewIs
  <2> QED BY <1>1, <2>3
<1>5. /\ At(n) = stream[pos + (n + 1)] /\ At(n + 1) = stream[pos + (n + 2)]
      /\ At(n) \in 0 .. 255 /\ At(n + 1) \in 0 .. 255
  <2>1. /\ n + 1 \in 1 .. avail /\ n + 2 \in 1 .. avail
        /\ (n + 1) - 1 = n /\ (n + 2) - 1 = n + 1
    BY <1>1, <1>3
  <2>2. At(n) = stream[pos + (n + 1)] /\ At(n) \in 0 .. 255
    BY <2>1, ByteIs
  <2>3. At(n + 1) = stream[pos + (n + 2)] /\ At(n + 1) \in 0 .. 255
    BY <2>1, ByteIs
  <2> QED BY <2>2, <2>3
<1>6. tail \in Seq(0 .. 255) /\ Len(tail) = 2 /\ tail[1] = At(n) /\ tail[2] = At(n + 1)
  BY <1>5
<1> HIDE DEF cover, tail
<1>7. /\ cover \o tail \in Seq(0 .. 255) /\ Len(cover \o tail) = n + 2
      /\ \A i \in 1 .. n + 2 : (cover \o tail)[i] = IF i <= n THEN cover[i] ELSE tail[i - n]
  <2>1. /\ cover \o tail \in Seq(0 .. 255) /\ Len(cover \o tail) = Len(cover) + Len(tail)
        /\ \A i \in 1 .. Len(cover) + Len(tail) :
             (cover \o tail)[i] = IF i <= Len(cover) THEN cover[i] ELSE tail[i - Len(cover)]
    BY <1>4, <1>6, ConcatProperties, ZenonT(40)
  <2>2. Len(cover) = n /\ Len(cover) + Len(tail) = n + 2
    BY <1>4, <1>6
  <2> QED BY <2>1, <2>2
<1>8. ASSUME NEW i \in 1 .. n + 2 PROVE (cover \o tail)[i] = stream[pos + i]
  <2>1. CASE i <= n
    BY <1>4, <1>7, <1>8, <2>1
  <2>2. CASE i = n + 1
    <3>1. i - n = 1 /\ ~(i <= n)
      BY <2>2
    <3> QED BY <1>5, <1>6, <1>7, <1>8, <2>2, <3>1
  <2>3. CASE i = n + 2
    <3>1. i - n = 2 /\ ~(i <= n)
      BY <2>3
    <3> QED BY <1>5, <1>6, <1>7, <1>8, <2>3, <3>1
  <2>4. i <= n \/ i = n + 1 \/ i = n + 2
    BY <1>1, <1>8
  <2> QED BY <2>1, <2>2, <2>3, <2>4
<1>9. cover \o tail = Span(anchor, covered_len) \o <<At(covered_len), At(covered_len + 1)>>
  BY <1>3 DEF cover, tail
<1> QED BY <1>3, <1>7, <1>8, <1>9

(* At the beginning of a frame the candidate is that frame.                *)
LEMMA AtFrame ==
    ASSUME WalkAssumptions, WalkInv, pos \in starts, avail > 0
    PROVE  /\ ~Dead
           /\ Whole => \A t \in starts : t <= pos \/ t >= pos + footprint
<1>1. PICK f \in GoodFrames : Occurs(f, stream, pos)
                              /\ \A t \in starts : t <= pos \/ t >= pos + Len(f)
  BY DEF WalkInv, Laid
<1>2. /\ f \in Seq(0 .. 255) /\ f[1] = 0 /\ f[3] >= 3 /\ ValidId(f[2]) /\ KnownInst(f[4])
      /\ Len(f) = f[3] + 3 /\ Len(f) >= 4 /\ Len(f) <= RingLen
  BY DEF WalkAssumptions, SessionAssumption
<1>3. /\ avail \in Nat /\ pos \in Nat /\ WalkAssumption
  BY WalkTypes DEF WalkInv, WalkAssumptions
<1>4. Len(f) \in Nat
  BY <1>2, LenProperties
<1>5. ASSUME NEW i \in 1 .. avail, i <= Len(f) PROVE At(i - 1) = f[i]
  <2>1. At(i - 1) = stream[pos + i]
    BY ByteIs
  <2>2. i \in 1 .. Len(f)
    BY <1>4, <1>5
  <2> QED BY <1>1, <2>1, <2>2 DEF Occurs
<1>6. At(0) = 0
  <2>1. 1 \in 1 .. avail /\ 1 <= Len(f) /\ 1 - 1 = 0
    BY <1>2, <1>3, <1>4
  <2> QED BY <1>2, <1>5, <2>1
<1>7. ASSUME avail >= 4
      PROVE  At(1) = f[2] /\ At(2) = f[3] /\ At(3) = f[4] /\ footprint = Len(f)
  <2>1. /\ 2 \in 1 .. avail /\ 2 <= Len(f) /\ 2 - 1 = 1
        /\ 3 \in 1 .. avail /\ 3 <= Len(f) /\ 3 - 1 = 2
        /\ 4 \in 1 .. avail /\ 4 <= Len(f) /\ 4 - 1 = 3
    BY <1>2, <1>3, <1>4, <1>7
  <2>2. At(1) = f[2] /\ At(2) = f[3] /\ At(3) = f[4]
    BY <1>5, <2>1
  <2> QED BY <1>2, <2>2 DEF footprint
<1>8. HeaderIn => valid_shape
  BY <1>2, <1>7 DEF HeaderIn, valid_shape
<1>9. ASSUME Whole
      PROVE  CrcPasses /\ \A t \in starts : t <= pos \/ t >= pos + footprint
  <2>1. avail >= 4 /\ avail >= footprint
    BY <1>9 DEF Whole, HeaderIn
  <2>2. footprint = Len(f)
    BY <1>7, <2>1
  <2> DEFINE c == Span(anchor, covered_len) \o <<At(covered_len), At(covered_len + 1)>>
  <2>3. /\ c \in Seq(0 .. 255) /\ Len(c) = footprint
        /\ \A i \in 1 .. footprint : c[i] = stream[pos + i]
    BY <1>3, <2>1, CrcIs
  <2> HIDE DEF c
  <2>4. \A i \in 1 .. Len(c) : c[i] = f[i]
    BY <1>1, <2>2, <2>3 DEF Occurs
  <2>5. c = f
    BY <1>2, <2>2, <2>3, <2>4, SeqEqual
  <2>6. CrcPasses
    BY <2>5 DEF CrcPasses, c
  <2> QED BY <1>1, <2>2, <2>6
<1> QED BY <1>6, <1>8, <1>9 DEF Dead

(* The cursor moves on: what it passes is junk or has been yielded.        *)
LEMMA MoveInv ==
    ASSUME WalkAssumptions, WalkInv, NEW n \in 1 .. avail, Advance(n), UNCHANGED <<wire, lost>>,
           NoPhantoms', frames \subseteq frames',
           pos \in starts => \E f \in frames' : f.at = pos,
           \A s \in starts : s <= pos \/ s >= pos + n
    PROVE  WalkInv'
<1>1. /\ RingTruth' /\ anchor' \in 0 .. RingLen - 1 /\ pos' \in 0 .. arrived /\ pos' = pos + n
  BY AdvanceKeeps DEF WalkInv, WalkAssumptions
<1>2. /\ UNCHANGED <<stream, starts, dma, cursor, arrived, lost>> /\ stream \in Seq(0 .. 255)
      /\ starts \subseteq 0 .. Len(stream) - 1
  BY DEF wire, WalkInv, Laid
<1>3. pos \in Nat /\ avail \in Nat /\ Len(stream) \in Nat
  BY <1>2, LenProperties, WalkTypes DEF WalkInv, WalkAssumptions
<1>4. Laid'
  BY <1>2 DEF WalkInv, Laid, Occurs
<1>5. WalkTypeOK'
  BY <1>1, <1>2 DEF WalkInv, WalkTypeOK
<1>6. NothingSkipped'
  <2>1. ASSUME NEW s \in starts, s < pos + n PROVE s \in lost \/ \E f \in frames' : f.at = s
    <3>1. s \in Nat
      BY <1>2, <1>3
    <3>2. s < pos \/ s = pos
      BY <1>3, <2>1, <3>1
    <3>3. CASE s < pos
      BY <3>3 DEF WalkInv, NothingSkipped
    <3> QED BY <3>2, <3>3
  <2> QED BY <1>1, <1>2, <2>1 DEF NothingSkipped
<1> QED BY <1>1, <1>4, <1>5, <1>6 DEF WalkInv

-----------------------------------------------------------------------------
(* The steps                                                               *)

LEMMA LeastOf ==
    ASSUME NEW n \in Nat, NEW S, S \subseteq 1 .. n, S # {}
    PROVE  \E i \in S : \A j \in S : i <= j
<1>1. S \subseteq Nat
  OBVIOUS
<1>2. PICK x \in S : \A y \in S : ~(<<y, x>> \in OpToRel(<, Nat))
  BY <1>1, NatLessThanWellFounded, WFMin
<1>3. \A y \in S : y \in Nat /\ x \in Nat /\ <<y, x>> \in Nat \X Nat
  BY <1>1
<1>4. \A y \in S : ~(y < x)
  BY <1>2, <1>3 DEF OpToRel
<1> QED BY <1>3, <1>4

(* The hunt stops no later than at the first 0x00.                         *)
LEMMA StrideIs ==
    ASSUME WalkAssumption, WalkInv, avail > 0
    PROVE  /\ Stride \in 1 .. avail
           /\ \A m \in 1 .. avail : At(m) = 0 => Stride <= m
<1>1. avail \in Nat /\ avail \in 1 .. avail
  BY WalkTypes DEF WalkInv
<1>2. Stops \subseteq 1 .. avail /\ Stops # {}
  BY <1>1 DEF Stops
<1>3. \E n \in Stops : \A m \in Stops : n <= m
  BY <1>1, <1>2, LeastOf
<1>4. Stride \in Stops /\ \A m \in Stops : Stride <= m
  BY <1>3 DEF Stride
<1> QED BY <1>2, <1>4 DEF Stops

LEMMA DeadHas == ASSUME WalkAssumption, WalkInv, Dead PROVE avail > 0
BY DEF Dead, Whole, HeaderIn, Anchored

LEMMA Hunted == ASSUME WalkAssumptions, WalkInv, Hunt PROVE WalkInv'
<1>1. Dead /\ Advance(Stride) /\ UNCHANGED <<wire, frames, lost>> /\ WalkAssumption
  BY DEF Hunt, WalkAssumptions
<1>2. avail > 0
  BY <1>1, DeadHas
<1>3. Stride \in 1 .. avail /\ \A m \in 1 .. avail : At(m) = 0 => Stride <= m
  BY <1>1, <1>2, StrideIs
<1>4. pos \notin starts
  BY <1>1, <1>2, AtFrame
<1>5. NoPhantoms' /\ frames \subseteq frames'
  BY <1>1 DEF WalkInv, NoPhantoms, wire
<1>6. avail \in Nat /\ pos \in Nat
  BY <1>1, WalkTypes DEF WalkInv
<1>7. ASSUME NEW s \in starts, ~(s <= pos), ~(s >= pos + Stride) PROVE FALSE
  <2>1. PICK f \in GoodFrames : Occurs(f, stream, s)
    BY DEF WalkInv, Laid
  <2>2. f[1] = 0 /\ Len(f) >= 4 /\ f \in Seq(0 .. 255)
    BY DEF WalkAssumptions, SessionAssumption
  <2>3. Len(f) \in Nat /\ 1 \in 1 .. Len(f)
    BY <2>2, LenProperties
  <2>4. stream[s + 1] = 0
    BY <2>1, <2>2, <2>3 DEF Occurs
  <2>5. s \in Nat
    <3>1. stream \in Seq(0 .. 255) /\ starts \subseteq 0 .. Len(stream) - 1
      BY DEF WalkInv, Laid
    <3>2. Len(stream) \in Nat
      BY <3>1, LenProperties
    <3> QED BY <3>1, <3>2
  <2>6. PICK m \in 1 .. avail : s = pos + m /\ m < Stride /\ m + 1 \in 1 .. avail
    <3>1. s - pos \in 1 .. avail /\ s = pos + (s - pos) /\ s - pos < Stride
          /\ (s - pos) + 1 \in 1 .. avail
      BY <1>3, <1>6, <1>7, <2>5
    <3> QED BY <3>1
  <2>7. At((m + 1) - 1) = stream[pos + (m + 1)]
    BY <2>6, ByteIs
  <2>8. (m + 1) - 1 = m /\ pos + (m + 1) = s + 1
    BY <1>6, <2>6
  <2>9. At(m) = 0
    BY <2>4, <2>7, <2>8
  <2>10. Stride <= m
    BY <1>3, <2>9
  <2> QED BY <1>3, <1>6, <2>6, <2>10
<1> QED BY <1>1, <1>3, <1>4, <1>5, <1>7, MoveInv

LEMMA Yielded == ASSUME WalkAssumptions, WalkInv, Yield PROVE WalkInv'
<1> DEFINE new == [at |-> pos, id |-> At(1), inst |-> At(3),
                   payload |-> Span(mask(anchor + 4), At(2) - 3)]
<1>1. /\ Whole /\ CrcPasses /\ Advance(footprint) /\ UNCHANGED <<wire, lost>>
      /\ frames' = frames \cup {new} /\ WalkAssumption
  BY DEF Yield, WalkAssumptions
<1>2. /\ avail >= 4 /\ avail >= footprint /\ At(2) >= 3
      /\ RingLen \in Nat /\ RingLen > 4 /\ avail \in 0 .. RingLen - 1 /\ pos \in Nat
  BY <1>1, WalkTypes DEF Whole, HeaderIn, valid_shape, WalkInv
<1>3. /\ At(1) = stream[pos + 2] /\ At(2) = stream[pos + 3] /\ At(3) = stream[pos + 4]
      /\ At(2) \in 0 .. 255 /\ footprint \in Nat \ {0}
  BY <1>1, <1>2, HeaderIs
<1>4. footprint \in 1 .. avail
  BY <1>2, <1>3
<1>5. pos \in 0 .. Len(stream) - 1 /\ pos + footprint <= Len(stream)
  <2>1. /\ pos \in 0 .. Len(stream) - 1 /\ pos + avail <= Len(stream)
        /\ Len(stream) \in Nat
    BY <1>4, ByteIs
  <2> QED BY <1>2, <1>3, <2>1
<1>6. pos \in starts
  <2> DEFINE c == Span(anchor, covered_len) \o <<At(covered_len), At(covered_len + 1)>>
  <2>1. /\ c \in Seq(0 .. 255) /\ Len(c) = footprint
        /\ \A i \in 1 .. footprint : c[i] = stream[pos + i]
    BY <1>1, <1>2, CrcIs
  <2>2. c \in GoodFrames
    BY <1>1 DEF CrcPasses
  <2> HIDE DEF c
  <2>3. Occurs(c, stream, pos)
    BY <1>5, <2>1 DEF Occurs
  <2> QED BY <1>5, <2>2, <2>3 DEF WalkInv, Laid
<1>7. /\ Len(new.payload) = stream[pos + 3] - 3
      /\ \A i \in 1 .. Len(new.payload) : new.payload[i] = stream[pos + 4 + i]
  <2>1. PICK n \in 0 .. RingLen : n = At(2) - 3 /\ 4 + n <= avail
    <3>1. footprint = At(2) + 3
      BY DEF footprint
    <3>2. At(2) - 3 \in 0 .. RingLen /\ 4 + (At(2) - 3) <= avail
      BY <1>2, <1>3, <3>1
    <3> QED BY <3>2
  <2>2. 4 \in 0 .. RingLen - 1
    BY <1>2
  <2>3. /\ Len(Span(mask(anchor + 4), n)) = n
        /\ \A i \in 1 .. n : Span(mask(anchor + 4), n)[i] = stream[pos + 4 + i]
    BY <1>1, <2>1, <2>2, ViewIs
  <2>4. new.payload = Span(mask(anchor + 4), n) /\ n = stream[pos + 3] - 3
    BY <1>3, <2>1
  <2> QED BY <2>3, <2>4
<1>8. /\ new.at = pos /\ new.id = stream[pos + 2] /\ new.inst = stream[pos + 4]
  BY <1>3
<1> HIDE DEF new
<1>9. NoPhantoms'
  <2>1. UNCHANGED <<stream, starts>>
    BY <1>1 DEF wire
  <2>2. ASSUME NEW f \in frames'
        PROVE  /\ f.at \in starts
               /\ stream[f.at + 2] = f.id /\ stream[f.at + 4] = f.inst
               /\ Len(f.payload) = stream[f.at + 3] - 3
               /\ \A i \in 1 .. Len(f.payload) : f.payload[i] = stream[f.at + 4 + i]
    <3>1. CASE f = new
      BY <1>6, <1>7, <1>8, <3>1
    <3>2. CASE f \in frames
      BY <3>2 DEF WalkInv, NoPhantoms
    <3> QED BY <1>1, <3>1, <3>2
  <2> QED BY <2>1, <2>2 DEF NoPhantoms
<1>10. frames \subseteq frames' /\ \E f \in frames' : f.at = pos
  BY <1>1, <1>8
<1>11. \A t \in starts : t <= pos \/ t >= pos + footprint
  BY <1>1, <1>2, <1>6, AtFrame
<1> QED BY <1>1, <1>4, <1>9, <1>10, <1>11, MoveInv

LEMMA Resynced == ASSUME WalkAssumptions, WalkInv, Resync PROVE WalkInv'
<1>1. /\ anchor' = cursor /\ pos' = arrived
      /\ UNCHANGED <<stream, starts, dma, cursor, arrived, frames>>
      /\ lost' = lost \cup {s \in starts : pos <= s /\ s < arrived}
      /\ WalkAssumption
  BY DEF Resync, wire, WalkAssumptions
<1>2. /\ RingLen \in Nat /\ cursor \in 0 .. RingLen - 1 /\ pos \in Nat /\ arrived \in Nat
  BY <1>1, WalkTypes DEF WalkInv
<1>3. avail' = 0
  <2>1. avail' = mask((cursor + RingLen) - cursor)
    BY <1>1 DEF avail, mask
  <2> QED BY <1>1, <1>2, <2>1, AvailIs
<1>4. RingTruth'
  <2>1. avail' = arrived' - pos' /\ 1 .. avail' = {}
    BY <1>1, <1>2, <1>3
  <2> QED BY <2>1 DEF RingTruth
<1>5. WalkTypeOK'
  <2>1. pos' \in 0 .. arrived'
    BY <1>1, <1>2
  <2> QED BY <1>1, <1>2, <2>1 DEF WalkInv, WalkTypeOK
<1>6. Laid' /\ NoPhantoms'
  BY <1>1 DEF WalkInv, Laid, Occurs, NoPhantoms
<1>7. NothingSkipped'
  <2>1. starts \subseteq Nat
    <3>1. stream \in Seq(0 .. 255) /\ starts \subseteq 0 .. Len(stream) - 1
      BY DEF WalkInv, Laid
    <3>2. Len(stream) \in Nat
      BY <3>1, LenProperties
    <3> QED BY <3>1, <3>2
  <2>2. ASSUME NEW s \in starts, s < arrived PROVE s \in lost' \/ \E f \in frames : f.at = s
    <3>1. s < pos \/ pos <= s
      BY <1>2, <2>1
    <3> QED BY <1>1, <2>2, <3>1 DEF WalkInv, NothingSkipped
  <2> QED BY <1>1, <2>2 DEF NothingSkipped
<1> QED BY <1>4, <1>5, <1>6, <1>7 DEF WalkInv

-----------------------------------------------------------------------------
(* The session, and the theorem                                            *)

LEMMA SessionIs ==
    ASSUME NEW g \in Seq(0 .. 255), NEW f1 \in Seq(0 .. 255), NEW f2 \in Seq(0 .. 255)
    PROVE  /\ Session(g, f1, f2) \in Seq(0 .. 255)
           /\ Len(Session(g, f1, f2)) = Len(g) + Len(f1) + Len(f2)
           /\ Occurs(f1, Session(g, f1, f2), Len(g))
           /\ Occurs(f2, Session(g, f1, f2), Len(g) + Len(f1))
<1> DEFINE h == g \o f1
           str == h \o f2
<1>1. /\ h \in Seq(0 .. 255) /\ Len(h) = Len(g) + Len(f1)
      /\ \A i \in 1 .. Len(h) : h[i] = IF i <= Len(g) THEN g[i] ELSE f1[i - Len(g)]
  BY ConcatProperties
<1>2. /\ str \in Seq(0 .. 255) /\ Len(str) = Len(h) + Len(f2)
      /\ \A i \in 1 .. Len(h) + Len(f2) : str[i] = IF i <= Len(h) THEN h[i] ELSE f2[i - Len(h)]
  BY <1>1, ConcatProperties
<1>3. Len(g) \in Nat /\ Len(f1) \in Nat /\ Len(f2) \in Nat
  BY LenProperties
<1>4. str = Session(g, f1, f2)
  BY DEF Session
<1> HIDE DEF h, str
<1>5. ASSUME NEW i \in 1 .. Len(f1) PROVE str[Len(g) + i] = f1[i]
  <2>1. /\ Len(g) + i \in 1 .. Len(h) + Len(f2) /\ Len(g) + i <= Len(h)
        /\ Len(g) + i \in 1 .. Len(h) /\ ~(Len(g) + i <= Len(g)) /\ Len(g) + i - Len(g) = i
    BY <1>1, <1>3
  <2> QED BY <1>1, <1>2, <2>1
<1>6. ASSUME NEW i \in 1 .. Len(f2) PROVE str[Len(h) + i] = f2[i]
  <2>1. /\ Len(h) + i \in 1 .. Len(h) + Len(f2) /\ ~(Len(h) + i <= Len(h))
        /\ Len(h) + i - Len(h) = i
    BY <1>1, <1>3
  <2> QED BY <1>2, <2>1
<1>7. Occurs(f1, str, Len(g))
  BY <1>1, <1>2, <1>3, <1>5 DEF Occurs
<1>8. Occurs(f2, str, Len(h))
  BY <1>1, <1>2, <1>3, <1>6 DEF Occurs
<1> QED BY <1>1, <1>2, <1>4, <1>7, <1>8

LEMMA WalkStarts == ASSUME WalkAssumptions, WalkInit PROVE WalkInv
<1>1. PICK g \in Garble, f1 \in GoodFrames, f2 \in GoodFrames :
          stream = Session(g, f1, f2) /\ starts = Begins(g, f1)
  BY DEF WalkInit
<1>2. /\ f1 \in Seq(0 .. 255) /\ f2 \in Seq(0 .. 255) /\ g \in Seq(0 .. 255)
      /\ Len(f1) >= 4 /\ Len(f2) >= 4
      /\ \A p \in 0 .. Len(stream) - 1, f \in GoodFrames : Occurs(f, stream, p) => p \in starts
  BY <1>1 DEF WalkAssumptions, SessionAssumption
<1>3. /\ stream \in Seq(0 .. 255) /\ Len(stream) = Len(g) + Len(f1) + Len(f2)
      /\ Occurs(f1, stream, Len(g)) /\ Occurs(f2, stream, Len(g) + Len(f1))
  BY <1>1, <1>2, SessionIs
<1>4. Len(g) \in Nat /\ Len(f1) \in Nat /\ Len(f2) \in Nat /\ Len(stream) \in Nat
  BY <1>2, <1>3, LenProperties
<1>5. starts = {Len(g), Len(g) + Len(f1)}
  BY <1>1 DEF Begins
<1>6. Laid
  <2>1. starts \subseteq 0 .. Len(stream) - 1
    BY <1>2, <1>3, <1>4, <1>5
  <2>2. \A t \in starts : t <= Len(g) \/ t >= Len(g) + Len(f1)
    BY <1>4, <1>5
  <2>3. \A t \in starts : t <= Len(g) + Len(f1) \/ t >= Len(g) + Len(f1) + Len(f2)
    BY <1>4, <1>5
  <2>4. \A s \in starts : \E f \in GoodFrames :
          Occurs(f, stream, s) /\ \A t \in starts : t <= s \/ t >= s + Len(f)
    BY <1>3, <1>5, <2>2, <2>3
  <2> QED BY <1>2, <1>3, <2>1, <2>4 DEF Laid
<1>7. /\ RingLen \in Nat /\ RingLen > 4 /\ cursor \in 0 .. RingLen - 1 /\ anchor = cursor
      /\ arrived = 0 /\ pos = 0 /\ frames = {} /\ lost = {} /\ WalkAssumption
      /\ dma \in [0 .. RingLen - 1 -> 0 .. 255]
  <2>1. RingLen \in Nat /\ RingLen > 4 /\ WalkAssumption
    BY DEF WalkAssumptions, WalkAssumption
  <2>2. /\ cursor \in {0, RingLen - 3} /\ dma = [i \in 0 .. RingLen - 1 |-> 1]
        /\ anchor = cursor /\ arrived = 0 /\ pos = 0 /\ frames = {} /\ lost = {}
    BY DEF WalkInit
  <2>3. cursor \in 0 .. RingLen - 1
    BY <2>1, <2>2
  <2> QED BY <2>1, <2>2, <2>3
<1>8. avail = 0
  <2>1. avail = mask((cursor + RingLen) - cursor)
    BY <1>7 DEF avail
  <2>2. mask((cursor + RingLen) - cursor)
           = IF cursor <= cursor THEN cursor - cursor ELSE cursor + RingLen - cursor
    BY <1>7, AvailIs
  <2>3. cursor <= cursor /\ cursor - cursor = 0
    BY <1>7
  <2> QED BY <2>1, <2>2, <2>3
<1>9. WalkTypeOK
  <2>1. pos \in 0 .. arrived /\ arrived \in 0 .. Len(stream) /\ lost \subseteq starts
    BY <1>4, <1>7
  <2> QED BY <1>7, <2>1 DEF WalkTypeOK
<1>10. RingTruth
  <2>1. avail = arrived - pos /\ 1 .. avail = {}
    BY <1>7, <1>8
  <2> QED BY <2>1 DEF RingTruth
<1>11. NoPhantoms /\ NothingSkipped
  <2>1. ASSUME NEW s \in starts PROVE ~(s < 0)
    BY <1>4, <1>5
  <2> QED BY <1>7, <2>1 DEF NoPhantoms, NothingSkipped
<1> QED BY <1>6, <1>9, <1>10, <1>11 DEF WalkInv

LEMMA WalkStep == ASSUME WalkAssumptions, WalkInv, [WalkNext]_walkVars PROVE WalkInv'
<1>1. CASE Land
  <2>1. WalkTypeOK' /\ RingTruth' /\ UNCHANGED <<stream, starts, pos, frames, lost>>
    BY <1>1, LandKeeps DEF WalkInv, WalkAssumptions, Laid, Land
  <2>2. Laid' /\ NoPhantoms' /\ NothingSkipped'
    BY <2>1 DEF WalkInv, Laid, NoPhantoms, NothingSkipped, Occurs
  <2> QED BY <2>1, <2>2 DEF WalkInv
<1>2. CASE UNCHANGED walkVars
  <2>1. UNCHANGED <<stream, starts, dma, cursor, anchor, arrived, pos, frames, lost>>
    BY <1>2 DEF walkVars
  <2>2. WalkTypeOK' /\ NoPhantoms' /\ NothingSkipped'
    BY <2>1 DEF WalkInv, WalkTypeOK, NoPhantoms, NothingSkipped
  <2>3. Laid'
    BY <2>1 DEF WalkInv, Laid, Occurs
  <2>4. RingTruth'
    BY <2>1 DEF WalkInv, RingTruth, avail, At, mask
  <2> QED BY <2>2, <2>3, <2>4 DEF WalkInv
<1> QED BY <1>1, <1>2, Hunted, Yielded, Resynced DEF WalkNext

(* The host's walker is true to the stream, for every power-of-two ring,   *)
(* every set of well-formed frames that fit it and every garble: wrapping  *)
(* indices never alias, the hunt leaves dead candidates only and passes no *)
(* good frame unless an exchange resyncs, and a frame is yielded in its    *)
(* own bytes although its payload wrapped around the ring.                 *)
THEOREM WalkerTrue == ASSUME WalkAssumptions PROVE WalkSpec => []WalkerSound
<1>1. WalkInit => WalkInv
  BY WalkStarts
<1>2. WalkInv /\ [WalkNext]_walkVars => WalkInv'
  BY WalkStep
<1>3. WalkInv => WalkerSound
  BY DEF WalkInv, WalkerSound
<1> QED BY <1>1, <1>2, <1>3, PTL DEF WalkSpec
=============================================================================
