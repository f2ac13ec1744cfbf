----------------------------- MODULE LinkServer -----------------------------
(* The link server over the host engine: pipe records in, engine commands   *)
(* down, engine events up, records out.  One on_pipe call handles all the   *)
(* records of its chunk in one critical section; a record split over two    *)
(* chunks counts where its last byte arrives.                               *)
EXTENDS HostEngine

CONSTANTS
    NumSeqs,     \* sequence numbers the client uses, in order
    MaxChunk,    \* records of one chunk
    Ops,         \* the seq-carrying records: a verb and its argument
    RailSets,    \* SET_RAILS records: state and mask, sets of rails
    Boots        \* "boot" when the client may ask for the bootloader

Seqs == 1 .. NumSeqs
SeqNone == 0
Rails == {"v3v3", "v5"}

ASSUME ServerAssumption ==
    /\ NumSeqs \in Nat /\ MaxChunk \in Nat
    /\ \A o \in Ops :
          /\ o.verb \in {"exchange", "deadline", "hostbaud", "rescue", "send", "burst",
                         "train", "baud", "pulse", "malformed"}
          /\ o.verb = "exchange" => o.arg \in Plans
          /\ o.verb = "deadline" => o.arg \in Deadlines
          /\ o.verb = "hostbaud" => o.arg \in Rates
          /\ o.verb = "burst" => o.arg \in Bursts
          /\ o.verb = "train" => o.arg \in Trains
          /\ o.verb = "baud" => o.arg \in WireRates
          /\ o.verb = "pulse" => o.arg \in Pulses
    /\ \A r \in RailSets : r.state \subseteq Rails /\ r.mask \subseteq Rails

VARIABLES
    chunk, serving,       \* records of the pipe, and: on_pipe is running
    active, wire_active,  \* the seqs that own the engine's operation
    rails, req,           \* AdapterState: mirror, the one queued request
    pins, booted,         \* what the chip drives; the bootloader was entered
    used, closed, streaming   \* seqs sent, answered, and with statuses out

pipe == <<chunk, serving, used>>
owners == <<active, wire_active>>
adapter == <<rails, req, pins, booted>>
answers == <<closed, streaming>>
server == <<pipe, owners, adapter, answers>>

ServerIdle ==
    /\ chunk = <<>> /\ serving = FALSE /\ used = 0
    /\ active = SeqNone /\ wire_active = SeqNone
    /\ rails = Rails /\ pins = Rails /\ req = "none"
    /\ closed = {} /\ streaming = {}

ServerInit == Init /\ ServerIdle /\ booted = FALSE

(* A closing record goes out under seq s. *)
Answer(s) == closed' = closed \cup {s} /\ streaming' = streaming \ {s}

(* The client writes a record into the pipe. *)
ClientSends ==
    /\ ~serving /\ ~booted /\ Len(chunk) < MaxChunk
    /\ \/ /\ used < NumSeqs /\ used' = used + 1
          /\ \E o \in Ops : chunk' = Append(chunk, [type |-> "op", op |-> o, seq |-> used + 1])
       \/ /\ used' = used
          /\ \/ \E r \in RailSets : chunk' = Append(chunk, [type |-> "rails", set |-> r])
             \/ "boot" \in Boots /\ chunk' = Append(chunk, [type |-> "boot"])
    /\ UNCHANGED <<vars, serving, owners, adapter, answers>>

(* The main loop hands the chunk over, having drained the adapter request   *)
(* of the previous one.                                                     *)
on_pipe ==
    /\ chunk # <<>> /\ ~serving /\ req = "none" /\ ~booted
    /\ serving' = TRUE
    /\ UNCHANGED <<vars, chunk, used, owners, adapter, answers>>

Taken == chunk' = Tail(chunk) /\ serving' = (Len(chunk) > 1) /\ used' = used

(* SUBMIT and the wire records: run on a ready engine, or refused.  A       *)
(* malformed one is refused whatever the engine does.                       *)
(* Variant of WireVerbs that takes a pulse for a command.                    *)
WireVerbsSansPulse == {"send", "burst", "train", "baud"}

WireVerbs == {"send", "burst", "train", "baud", "pulse"}

Run(o) ==
    CASE o.verb = "exchange" -> SubmitExchange(o.arg)
      [] o.verb = "deadline" -> SubmitDeadline(o.arg)
      [] o.verb = "hostbaud" -> SubmitBaud(o.arg)
      [] o.verb = "rescue"   -> SubmitRescue
      [] o.verb = "send"     -> wire_send
      [] o.verb = "burst"    -> wire_burst(o.arg)
      [] o.verb = "train"    -> wire_train(o.arg)
      [] o.verb = "baud"     -> wire_baud(o.arg)
      [] o.verb = "pulse"    -> wire_pulse_low(o.arg)

(* Variant of HandleOp that drops a malformed record without an answer.     *)
HandleOpDrops ==
    /\ serving /\ Head(chunk).type = "op"
    /\ LET o == Head(chunk).op
           seq == Head(chunk).seq
       IN IF Ready /\ o.verb # "malformed"
            THEN /\ Run(o)
                 /\ IF o.verb \in WireVerbs
                      THEN wire_active' = seq /\ active' = active
                      ELSE active' = seq /\ wire_active' = wire_active
                 /\ UNCHANGED answers
            ELSE /\ IF o.verb = "malformed" THEN UNCHANGED answers ELSE Answer(seq)
                 /\ UNCHANGED <<vars, owners>>
    /\ Taken /\ UNCHANGED adapter

(* Variant of HandleOp that refuses under the seq that owns the engine.      *)
HandleOpMisnames ==
    /\ serving /\ Head(chunk).type = "op"
    /\ LET o == Head(chunk).op
           seq == Head(chunk).seq
       IN IF Ready /\ o.verb # "malformed"
            THEN /\ Run(o)
                 /\ IF o.verb \in WireVerbs
                      THEN wire_active' = seq /\ active' = active
                      ELSE active' = seq /\ wire_active' = wire_active
                 /\ UNCHANGED answers
            ELSE /\ Answer(IF active # SeqNone THEN active ELSE seq)
                 /\ UNCHANGED <<vars, owners>>
    /\ Taken /\ UNCHANGED adapter

HandleOp ==
    /\ serving /\ Head(chunk).type = "op"
    /\ LET o == Head(chunk).op
           seq == Head(chunk).seq
       IN IF Ready /\ o.verb # "malformed"
            THEN /\ Run(o)
                 /\ IF o.verb \in WireVerbs
                      THEN wire_active' = seq /\ active' = active
                      ELSE active' = seq /\ wire_active' = wire_active
                 /\ UNCHANGED answers
            ELSE Answer(seq) /\ UNCHANGED <<vars, owners>>
    /\ Taken /\ UNCHANGED adapter

(* Masked bits compose with the mirror; an empty mask is a readback. *)
HandleRails ==
    /\ serving /\ Head(chunk).type = "rails"
    /\ LET r == Head(chunk).set
       IN /\ rails' = (rails \ r.mask) \cup (r.state \cap r.mask)
          /\ req' = IF r.mask # {} THEN "rails" ELSE req
    /\ Taken /\ UNCHANGED <<vars, owners, pins, booted, answers>>

HandleBoot ==
    /\ serving /\ Head(chunk).type = "boot"
    /\ req' = "boot"
    /\ Taken /\ UNCHANGED <<vars, owners, rails, pins, booted, answers>>

(* The main loop acts on the queued request; the bootloader ends the run. *)
take_adapter_request ==
    /\ ~serving /\ req # "none" /\ ~booted
    /\ req' = "none"
    /\ IF req = "rails" THEN pins' = rails /\ UNCHANGED booted
                        ELSE booted' = TRUE /\ UNCHANGED pins
    /\ UNCHANGED <<vars, pipe, owners, rails, answers>>

(* The engine's terminal or wire completion closes the seq that owns it. *)
CloseActive == Answer(active) /\ active' = SeqNone /\ UNCHANGED wire_active

CloseWire == Answer(wire_active) /\ wire_active' = SeqNone /\ UNCHANGED active

pump ==
    /\ \/ (PollDone \/ PollRescue) /\ CloseActive
       \/ (PollWireDone \/ PollPulse) /\ CloseWire
       \/ /\ PollStatus
          /\ streaming' = streaming \cup {active} /\ closed' = closed
          /\ UNCHANGED owners
       \/ (PollPacing \/ PollProgress \/ PollTimeout) /\ UNCHANGED <<owners, answers>>
    /\ UNCHANGED <<pipe, adapter>>

Outside(A) == ~serving /\ ~booted /\ A
Engine(A) == Outside(A) /\ UNCHANGED server
Handle == HandleOp \/ HandleRails \/ HandleBoot
EngineStep == Engine(on_tx_complete) \/ Engine(on_deadline)

ServerNext ==
    \/ ClientSends \/ on_pipe \/ Handle \/ take_adapter_request
    \/ Outside(pump)
    \/ EngineStep \/ Engine(Servos) \/ Engine(Wire(Noise)) \/ Engine(Tick)

allVars == <<vars, server>>

(* The loop runs on_pipe, the adapter request and pump in turn, so a busy   *)
(* pipe starves none of them; a critical section only delays an interrupt,  *)
(* and time passes whatever the loop does.                                  *)
ServerSpec ==
    /\ ServerInit /\ [][ServerNext]_allVars
    /\ WF_allVars(Handle) /\ WF_allVars(on_pipe) /\ WF_allVars(take_adapter_request)
    /\ SF_allVars(Outside(pump)) /\ SF_allVars(Engine(on_tx_complete))
    /\ SF_allVars(Engine(on_deadline)) /\ SF_allVars(Engine(Servos))
    /\ SF_allVars(Engine(Tick))

-----------------------------------------------------------------------------
(* Properties *)

(* The server's variables have their types. *)
ServerTypeOK ==
    /\ chunk \in Seq([type : {"op"}, op : Ops, seq : Seqs]
                       \cup [type : {"rails"}, set : RailSets] \cup [type : {"boot"}])
    /\ active \in Seqs \cup {SeqNone} /\ wire_active \in Seqs \cup {SeqNone}
    /\ rails \subseteq Rails /\ pins \subseteq Rails /\ req \in {"none", "rails", "boot"}
    /\ used \in 0 .. NumSeqs /\ closed \subseteq Seqs /\ streaming \subseteq Seqs

(* The seqs the client still waits for. *)
Open == (1 .. used) \ closed

Contract == INSTANCE LinkContract WITH open <- Open

(* The adapter keeps the contract of link/record.rs: "exactly one           *)
(* REJECTED-or-TERMINAL answers it; STATUS records stream before their      *)
(* terminal", whatever is pipelined. That each seq is answered at last is   *)
(* checked where fairness is stated.                                        *)
KeepsContract == Contract!Init /\ [][Contract!Next]_<<Open, closed, streaming>>

(* A seq that owns the engine is the one whose operation runs: a wire op    *)
(* and a command never own it together, and an idle engine is unowned.      *)
OneOwner ==
    /\ active # SeqNone <=>
         \/ pending_done # NoDone
         \/ state \in {"Pacing", "Transmitting", "Training", "RescueHold", "Awaiting"}
    /\ wire_active # SeqNone <=>
         pending_wire_done \/ state \in {"WireTx", "WirePulse", "WireTrain"}
    /\ active = SeqNone \/ wire_active = SeqNone

(* With no request queued the rails are where the mirror says they are.     *)
RailsAgree == req = "none" /\ ~booted => pins = rails

(* The server's state has its types; until the bootloader takes over, the   *)
(* seq that owns the engine is the one whose operation runs and the rails   *)
(* are where the mirror says they are (link/server.rs, adapter state).      *)
AdapterSafe == ServerTypeOK /\ RailsAgree /\ (~booted => OneOwner)

=============================================================================
