--------------------------------- MODULE Usb ---------------------------------
(***************************************************************************)
(* The adapter's USB device and main loop (host-ch32 runtime/usb.rs,       *)
(* runtime/run.rs): the EP0 control machine, the bulk pair with its data   *)
(* toggles, and the record queue between the link server and the IN        *)
(* endpoint.                                                               *)
(*                                                                         *)
(* External: the USB controller (hw), which answers nothing while a flag   *)
(* waits for service, the host, which follows USB's rules for toggles and  *)
(* retries, and a bus that may lose the acknowledgement of a bulk packet.  *)
(* The server is reduced to its output: one record for a packet at once,   *)
(* one more when the engine is done.                                       *)
(***************************************************************************)
EXTENDS Integers, Sequences, FiniteSets

CONSTANTS
    Mps,          \* records in one IN packet
    TxqCap,       \* TXQ_CAP, in records
    Headroom,     \* PUMP_HEADROOM, in records
    DescChunks,   \* IN packets of the longest descriptor
    MaxOut,       \* OUT packets the host sends (bound)
    MaxFaults,    \* lost acknowledgements (bound)
    MaxResets,    \* bus resets and reconfigurations (bound)
    MaxReads,     \* descriptor reads (bound)
    Clears        \* the host may CLEAR_FEATURE a bulk endpoint or SET_INTERFACE

(* A packet holds something and every size and bound is a number.          *)
UsbAssumption ==
    /\ {Mps, TxqCap, Headroom, DescChunks} \subseteq Nat \ {0}
    /\ {MaxOut, MaxFaults, MaxResets, MaxReads} \subseteq Nat
    /\ Clears \in BOOLEAN

VARIABLES
    dev,      \* UsbDevice
    hw,       \* the controller: address, endpoint registers, flags
    host,     \* the host's side of the control pipe and of the bulk pair
    txq,      \* TxQueue: record numbers
    made,     \* records the server has produced
    due,      \* engine results not yet pumped
    pc,       \* place in the main loop; "flush", "boot" at the end
    served,   \* OUT packets handed to the server
    boot,     \* ENTER_BOOTLOADER was requested
    faults, resets, reads

usbVars == <<dev, hw, host, txq, made, due, pc, served, boot, faults, resets, reads>>

Ep0Idle == [st |-> "Idle", pos |-> 0, len |-> 0]
NoXfer == [ep |-> -1, token |-> "none", ok |-> FALSE]
Armed(res, tog, data) == [res |-> res, tog |-> tog, data |-> data]

UsbInit ==
    /\ dev = [ep0 |-> Ep0Idle, tog |-> 1, addr |-> -1, configured |-> FALSE,
              txBusy |-> FALSE, txTog |-> 0, rxTog |-> 0, rx |-> 0]
    /\ hw = [addr |-> 0, en |-> FALSE, rst |-> FALSE, setup |-> "none", xfer |-> NoXfer,
             t0 |-> Armed("NAK", 0, 0), r0 |-> "NAK",
             t1 |-> Armed("NAK", 0, <<>>), r1 |-> Armed("NAK", 0, 0)]
    /\ host = [addr |-> 0, stage |-> "idle", req |-> "none", got |-> 0, tog |-> 1,
               up |-> FALSE, outTog |-> 0, next |-> 1, first |-> 1, inTog |-> 0,
               in |-> <<>>, cleared |-> FALSE,
               tried |-> FALSE]
    /\ txq = <<>> /\ made = 0 /\ due = 0 /\ pc = "poll" /\ served = <<>>
    /\ boot = FALSE /\ faults = 0 /\ resets = 0 /\ reads = 0

-----------------------------------------------------------------------------
(* UsbDevice::poll and its handlers.                                         *)

OnBusReset ==
    /\ dev' = [dev EXCEPT !.ep0 = Ep0Idle, !.addr = -1, !.configured = FALSE,
                          !.txBusy = FALSE, !.rx = 0]
    /\ hw' = [hw EXCEPT !.rst = FALSE, !.addr = 0, !.en = FALSE, !.r0 = "NAK",
                        !.t0.res = "NAK", !.t1 = Armed("NAK", 0, <<>>),
                        !.r1 = Armed("NAK", 0, 0)]

\* ep0_send_chunk, on the state a request or a completed IN leaves.
SendChunk(d, h) ==
    [dev |-> [d EXCEPT !.ep0.pos = @ + 1, !.tog = 1 - @],
     hw  |-> [h EXCEPT !.t0 = Armed("ACK", d.tog, 1)]]

ConfigureEp1(d, h) ==
    [dev |-> [d EXCEPT !.txBusy = FALSE, !.txTog = 0, !.rxTog = 0, !.rx = 0,
                       !.configured = TRUE],
     hw  |-> [h EXCEPT !.en = TRUE, !.r1 = Armed("ACK", 0, 0),
                       !.t1 = Armed("NAK", 0, <<>>)]]

\* The data a request answers with, in packets; -1 is a stall.
Replied(req) ==
    CASE req = "desc" -> DescChunks
      [] req \in {"address", "config", "unconfig", "iface", "clearOut", "clearIn"} -> 0
      [] req = "bad" -> -1

\* What a request changes at once; SET_INTERFACE leaves the toggles alone.
Requested(req, d, h) ==
    CASE req = "address" -> [dev |-> [d EXCEPT !.addr = 1], hw |-> h]
      [] req = "config" -> ConfigureEp1(d, h)
      [] req = "unconfig" -> [dev |-> [d EXCEPT !.configured = FALSE], hw |-> h]
      [] req = "clearOut" -> [dev |-> [d EXCEPT !.rxTog = 0], hw |-> h]
      [] req = "clearIn" -> [dev |-> [d EXCEPT !.txTog = 0], hw |-> h]
      [] req \in {"iface", "desc", "bad"} -> [dev |-> d, hw |-> h]

OnSetup ==
    LET req == hw.setup
        h0 == [hw EXCEPT !.setup = "none", !.xfer = NoXfer, !.r0 = "NAK", !.t0.res = "NAK"]
        s == Requested(req, [dev EXCEPT !.ep0 = Ep0Idle], h0)
        n == Replied(req)
        data == SendChunk([s.dev EXCEPT !.ep0 = [st |-> "DataIn", pos |-> 0, len |-> n],
                                        !.tog = 1], s.hw)
    IN  CASE n = -1 -> /\ dev' = s.dev
                       /\ hw' = [s.hw EXCEPT !.t0.res = "STALL", !.r0 = "STALL"]
          [] n = 0 -> /\ dev' = [s.dev EXCEPT !.ep0.st = "StatusIn"]
                      /\ hw' = [s.hw EXCEPT !.t0 = Armed("ACK", 1, 0)]
          [] n > 0 -> dev' = data.dev /\ hw' = data.hw

OnEp0Transfer(token) ==
    LET h == [hw EXCEPT !.xfer = NoXfer]
    IN  CASE token = "IN" /\ dev.ep0.st = "DataIn" /\ dev.ep0.pos < dev.ep0.len ->
                dev' = SendChunk(dev, h).dev /\ hw' = SendChunk(dev, h).hw
          [] token = "IN" /\ dev.ep0.st = "DataIn" /\ dev.ep0.pos >= dev.ep0.len ->
                /\ dev' = [dev EXCEPT !.ep0.st = "StatusOut"]
                /\ hw' = [h EXCEPT !.t0.res = "NAK", !.r0 = "ACK"]
          [] token = "IN" /\ dev.ep0.st = "StatusIn" ->
                /\ dev' = [dev EXCEPT !.ep0 = Ep0Idle, !.addr = -1]
                /\ hw' = [h EXCEPT !.t0.res = "NAK",
                                   !.addr = IF dev.addr = -1 THEN @ ELSE dev.addr]
          [] token = "OUT" /\ dev.ep0.st = "StatusOut" ->
                dev' = [dev EXCEPT !.ep0 = Ep0Idle] /\ hw' = [h EXCEPT !.r0 = "NAK"]
          [] OTHER -> dev' = dev /\ hw' = h

(* Variant of OnEp1Out that takes a duplicate for a new packet. *)
OnEp1OutAny(ok) ==
    /\ dev' = [dev EXCEPT !.rxTog = 1 - @, !.rx = hw.r1.data]
    /\ hw' = [hw EXCEPT !.xfer = NoXfer, !.r1.tog = 1 - dev.rxTog, !.r1.res = "NAK"]

\* A duplicate (lost ACK) is ignored; a packet parks the endpoint on NAK.
OnEp1Out(ok) ==
    IF ~ok THEN dev' = dev /\ hw' = [hw EXCEPT !.xfer = NoXfer]
    ELSE /\ dev' = [dev EXCEPT !.rxTog = 1 - @, !.rx = hw.r1.data]
         /\ hw' = [hw EXCEPT !.xfer = NoXfer, !.r1.tog = 1 - dev.rxTog, !.r1.res = "NAK"]

OnEp1In ==
    /\ dev' = [dev EXCEPT !.txTog = 1 - @, !.txBusy = FALSE]
    /\ hw' = [hw EXCEPT !.xfer = NoXfer, !.t1.res = "NAK"]

\* At most one flag per call: reset, setup, transfer.
UsbPoll ==
    CASE hw.rst -> OnBusReset
      [] ~hw.rst /\ hw.setup # "none" -> OnSetup
      [] ~hw.rst /\ hw.setup = "none" /\ hw.xfer.ep = 0 -> OnEp0Transfer(hw.xfer.token)
      [] ~hw.rst /\ hw.setup = "none" /\ hw.xfer.ep = 1 ->
            IF hw.xfer.token = "OUT" THEN OnEp1Out(hw.xfer.ok) ELSE OnEp1In
      [] OTHER -> UNCHANGED <<dev, hw>>

TxReady == dev.configured /\ ~dev.txBusy

First(s, n) == SubSeq(s, 1, IF Len(s) < n THEN Len(s) ELSE n)

\* pop_into and UsbDevice::tx: one packet of queued records is armed.
Tx ==
    /\ txq' = SubSeq(txq, Len(First(txq, Mps)) + 1, Len(txq))
    /\ dev' = [dev EXCEPT !.txBusy = TRUE]
    /\ hw' = [hw EXCEPT !.t1 = Armed("ACK", dev.txTog, First(txq, Mps))]

-----------------------------------------------------------------------------
(* run(): the loop's parts in order.                                         *)

Free == TxqCap - Len(txq)

\* TxQueue::record, n times: each record that does not fit is dropped.
Queue(n) ==
    /\ made' = made + n
    /\ txq' = txq \o [i \in 1 .. (IF n <= Free THEN n ELSE Free) |-> made + i]

Poll ==
    /\ pc = "poll"
    /\ UsbPoll
    /\ pc' = "rx"
    /\ UNCHANGED <<host, txq, made, due, served, boot, faults, resets, reads>>

\* on_pipe and rx_consume, behind the headroom gate.  The last packet may
\* ask for the bootloader.
Rx ==
    /\ pc = "rx"
    /\ IF dev.rx # 0 /\ Free >= Headroom
       THEN /\ served' = Append(served, dev.rx)
            /\ \E b \in {FALSE, dev.rx = MaxOut} : boot' = (boot \/ b)
            /\ Queue(1) /\ due' = due + 1
            /\ dev' = [dev EXCEPT !.rx = 0]
            /\ hw' = [hw EXCEPT !.r1.res = "ACK"]
       ELSE UNCHANGED <<served, boot, txq, made, due, dev, hw>>
    /\ pc' = "request"
    /\ UNCHANGED <<host, faults, resets, reads>>

Request ==
    /\ pc = "request"
    /\ pc' = IF boot THEN "flush" ELSE "pump"
    /\ UNCHANGED <<dev, hw, host, txq, made, due, served, boot, faults, resets, reads>>

\* Engine results become records when they are there; the gate again.
Pump ==
    /\ pc = "pump"
    /\ IF Free >= Headroom THEN \E n \in 0 .. due : Queue(n) /\ due' = due - n
       ELSE UNCHANGED <<txq, made, due>>
    /\ pc' = "tx"
    /\ UNCHANGED <<dev, hw, host, served, boot, faults, resets, reads>>

Transmit ==
    /\ pc = "tx"
    /\ IF TxReady /\ txq # <<>> THEN Tx ELSE UNCHANGED <<txq, dev, hw>>
    /\ pc' = "poll"
    /\ UNCHANGED <<host, made, due, served, boot, faults, resets, reads>>

\* flush_pipe: poll and send until the queue is empty or time is up.
Flush ==
    /\ pc = "flush"
    /\ \/ UsbPoll /\ pc' = "flushTx"
       \/ pc' = "boot" /\ UNCHANGED <<dev, hw>>
    /\ UNCHANGED <<host, txq, made, due, served, boot, faults, resets, reads>>

FlushTx ==
    /\ pc = "flushTx"
    /\ IF TxReady /\ txq = <<>> THEN pc' = "boot" /\ UNCHANGED <<txq, dev, hw>>
       ELSE /\ pc' = "flush"
            /\ IF TxReady THEN Tx ELSE UNCHANGED <<txq, dev, hw>>
    /\ UNCHANGED <<host, made, due, served, boot, faults, resets, reads>>

Loop == Poll \/ Rx \/ Request \/ Pump \/ Transmit \/ Flush \/ FlushTx

-----------------------------------------------------------------------------
(* The host and the controller (external).                                   *)

Quiet == ~hw.rst /\ hw.setup = "none" /\ hw.xfer = NoXfer /\ pc # "boot"
Addressed == Quiet /\ hw.addr = host.addr

LoseAck == faults < MaxFaults /\ faults' = faults + 1

\* The requests after which the host counts from DATA0 again, beside a
\* configuration: CLEAR_FEATURE of one endpoint, SET_INTERFACE for both.
Resyncs == {"iface", "clearOut", "clearIn"}

\* A request the host may make: enumeration in order, then what it likes.
Wants(req) ==
    CASE req = "address" -> host.addr = 0
      [] req = "config" -> host.addr = 1 /\ (~host.up \/ resets < MaxResets)
      [] req = "unconfig" -> host.up /\ resets < MaxResets
      [] req \in Resyncs -> Clears /\ host.up /\ ~host.cleared
      [] req \in {"desc", "bad"} -> reads < MaxReads

HostSetup ==
    /\ Addressed /\ host.stage = "idle"
    /\ \E req \in {"desc", "bad", "address", "config", "unconfig"} \cup Resyncs :
          /\ Wants(req)
          /\ hw' = [hw EXCEPT !.setup = req]
          /\ host' = [host EXCEPT !.req = req, !.got = 0, !.tog = 1,
                         !.cleared = @ \/ req \in Resyncs,
                         !.stage = IF req = "desc" THEN "data" ELSE "status"]
          /\ reads' = IF req \in {"desc", "bad"} THEN reads + 1 ELSE reads
          /\ resets' = IF req = "unconfig" \/ (req = "config" /\ host.up)
                       THEN resets + 1 ELSE resets
    /\ UNCHANGED <<dev, txq, made, due, pc, served, boot, faults>>

\* A transfer that a reset, a reconfiguration or a clear cut off is not sent
\* again.
Abandon == IF host.tried THEN host.next + 1 ELSE host.next

\* What the host takes a completed request to have done.
Completed(req) ==
    CASE req = "address" -> [host EXCEPT !.addr = 1, !.stage = "idle"]
      [] req = "config" -> [host EXCEPT !.stage = "idle", !.up = TRUE, !.outTog = 0,
                               !.inTog = 0, !.next = Abandon, !.first = Abandon,
                               !.tried = FALSE, !.in = <<>>]
      [] req = "unconfig" -> [host EXCEPT !.stage = "idle", !.up = FALSE]
      [] req = "clearOut" -> [host EXCEPT !.stage = "idle", !.outTog = 0, !.next = Abandon,
                                 !.tried = FALSE]
      [] req = "clearIn" -> [host EXCEPT !.stage = "idle", !.inTog = 0]
      [] req = "iface" -> [host EXCEPT !.stage = "idle", !.outTog = 0, !.inTog = 0,
                              !.next = Abandon, !.tried = FALSE]
      [] OTHER -> [host EXCEPT !.stage = "idle"]

ControlIn ==
    /\ Addressed /\ host.stage \in {"data", "status"} /\ hw.t0.res # "NAK"
    /\ CASE hw.t0.res = "STALL" -> host' = [host EXCEPT !.stage = "idle"] /\ hw' = hw
         [] hw.t0.res = "ACK" ->
              /\ hw' = [hw EXCEPT !.xfer = [ep |-> 0, token |-> "IN", ok |-> TRUE]]
              /\ host' = CASE host.stage = "status" -> Completed(host.req)
                           [] host.stage = "data" /\ hw.t0.tog # host.tog -> host
                           [] host.stage = "data" /\ hw.t0.tog = host.tog ->
                                [host EXCEPT !.got = @ + hw.t0.data, !.tog = 1 - @,
                                   !.stage = IF host.got + 1 = DescChunks THEN "done" ELSE @]
    /\ UNCHANGED <<dev, txq, made, due, pc, served, boot, faults, resets, reads>>

ControlOut ==
    /\ Addressed /\ host.stage = "done" /\ hw.r0 = "ACK"
    /\ hw' = [hw EXCEPT !.xfer = [ep |-> 0, token |-> "OUT", ok |-> TRUE]]
    /\ host' = [host EXCEPT !.stage = "idle"]
    /\ UNCHANGED <<dev, txq, made, due, pc, served, boot, faults, resets, reads>>

\* Bulk traffic runs beside descriptor reads; the host stops it to reconfigure.
BulkRuns == Addressed /\ hw.en /\ host.up /\ (host.stage = "idle" \/ host.req = "desc")

BulkOut ==
    /\ BulkRuns
    /\ host.next <= MaxOut /\ hw.r1.res = "ACK"
    /\ hw' = [hw EXCEPT !.xfer = [ep |-> 1, token |-> "OUT", ok |-> hw.r1.tog = host.outTog],
                        !.r1.data = host.next]
    /\ \/ host' = [host EXCEPT !.outTog = 1 - @, !.next = @ + 1, !.tried = FALSE]
          /\ faults' = faults
       \/ LoseAck /\ host' = [host EXCEPT !.tried = TRUE]
    /\ UNCHANGED <<dev, txq, made, due, pc, served, boot, resets, reads>>

BulkIn ==
    /\ BulkRuns /\ hw.t1.res = "ACK"
    /\ host' = IF hw.t1.tog = host.inTog
               THEN [host EXCEPT !.inTog = 1 - @, !.in = @ \o hw.t1.data] ELSE host
    /\ \/ /\ hw' = [hw EXCEPT !.xfer = [ep |-> 1, token |-> "IN", ok |-> TRUE]]
          /\ faults' = faults
       \/ LoseAck /\ hw' = hw
    /\ UNCHANGED <<dev, txq, made, due, pc, served, boot, resets, reads>>

\* A bus reset at any moment; a flag that was waiting may survive it.
BusReset ==
    /\ ~hw.rst /\ resets < MaxResets /\ resets' = resets + 1 /\ pc # "boot"
    /\ \E kept \in {hw.xfer, NoXfer} :
          hw' = [hw EXCEPT !.rst = TRUE, !.xfer = kept, !.setup = "none"]
    /\ host' = [host EXCEPT !.addr = 0, !.stage = "idle", !.up = FALSE, !.next = Abandon,
                            !.first = Abandon, !.tried = FALSE, !.in = <<>>]
    /\ UNCHANGED <<dev, txq, made, due, pc, served, boot, faults, reads>>

Bus == HostSetup \/ ControlIn \/ ControlOut \/ BulkOut \/ BulkIn \/ BusReset

UsbNext == Loop \/ Bus

UsbSpec == UsbInit /\ [][UsbNext]_usbVars

-----------------------------------------------------------------------------

(* The device's and the controller's state have their types. *)
UsbTypeOK ==
    /\ dev.ep0.st \in {"Idle", "DataIn", "StatusOut", "StatusIn"}
    /\ dev.ep0.pos <= dev.ep0.len /\ dev.rx \in 0 .. MaxOut
    /\ {dev.tog, dev.txTog, dev.rxTog, hw.t1.tog, hw.r1.tog} \subseteq {0, 1}
    /\ Len(txq) <= TxqCap /\ due \in Nat

(* What PUMP_HEADROOM is sized for: the results of one pump fit.           *)
WithinHeadroom == due <= Headroom

OutExact ==
    /\ \A i \in 1 .. Len(served) - 1 : served[i] < served[i + 1]
    /\ \A k \in host.first .. host.next - 1 :
          served # <<>> /\ k <= served[Len(served)] => \E i \in DOMAIN served : served[i] = k

InExact == \A i \in 1 .. Len(host.in) - 1 : host.in[i + 1] = host.in[i] + 1

(* The device keeps its types, and within one configuration the server gets  *)
(* every OUT packet once and in order and the host every record, through     *)
(* lost acknowledgements, resets and reconfigurations (usb.rs                *)
(* on_ep1_transfer, rx_consume, tx; "a reliable pipe must not drop",         *)
(* run.rs:15), as long as the host has not reset a toggle by other means     *)
(* than a configuration (CLEAR_FEATURE, SET_INTERFACE).                      *)
PipeExact == UsbTypeOK /\ (~host.cleared => OutExact /\ InExact)

=============================================================================
