------------------------- MODULE LinkServer_proofs --------------------------
(***************************************************************************)
(* Proofs about LinkServer, for every set of records, every chunking of    *)
(* them and every host engine the constants describe.                      *)
(*                                                                         *)
(* That a closing record carries the right number rests on who owns the    *)
(* engine: the seq in active while a command runs or its terminal waits,   *)
(* the one in wire_active while an instrument operation does, and neither  *)
(* while it is idle.  The numbers in the pipe are open, each of them once, *)
(* and no owner is among them.                                             *)
(*                                                                         *)
(* The second half is about the engine below it, alone and under the       *)
(* server.  Its deadlines are one wrapping counter, so that a terminal is  *)
(* never early rests on how far each of them can be from now: BusInv below *)
(* bounds the silence that is left, and with it what a slot still owes.    *)
(***************************************************************************)
EXTENDS LinkServer, SequenceTheorems, WellFoundedInduction, TLAPS

Commands == {"Pacing", "Transmitting", "Training", "RescueHold", "Awaiting"}
Instruments == {"WireTx", "WirePulse", "WireTrain"}

CommandRuns == pending_done # NoDone \/ state \in Commands
InstrumentRuns == pending_wire_done \/ state \in Instruments

(* A terminal waits on an idle engine, and never two of them.              *)
EngineInv ==
    /\ state \in {"Idle"} \cup Commands \cup Instruments
    /\ pending_wire_done \in BOOLEAN
    /\ pending_done # NoDone => state = "Idle" /\ ~pending_wire_done
    /\ pending_wire_done => state = "Idle"

Owned ==
    /\ active # SeqNone <=> CommandRuns
    /\ wire_active # SeqNone <=> InstrumentRuns

(* The numbers the client waits for: the owners and the ones in the pipe.  *)
Numbers ==
    /\ closed \subseteq 1 .. used /\ streaming \subseteq Open
    /\ active # SeqNone => active \in Open
    /\ wire_active # SeqNone => wire_active \in Open
    /\ \A i \in 1 .. Len(chunk) : chunk[i].type = "op" =>
          chunk[i].seq \in Open \ {active, wire_active}
    /\ \A i, j \in 1 .. Len(chunk) :
          i # j /\ chunk[i].type = "op" /\ chunk[j].type = "op" =>
              chunk[i].seq # chunk[j].seq

ServingInv == serving \in BOOLEAN /\ booted \in BOOLEAN /\ (serving => chunk # <<>>)

IInv == ServerTypeOK /\ EngineInv /\ Owned /\ Numbers /\ ServingInv /\ RailsAgree

-----------------------------------------------------------------------------
(* The engine: what its steps do to the operation that runs.               *)

LEMMA OneOrNone == ASSUME EngineInv PROVE ~(CommandRuns /\ InstrumentRuns)
BY DEF EngineInv, CommandRuns, InstrumentRuns, Commands, Instruments

LEMMA FinishIs ==
    ASSUME NEW outcome \in {"Complete", "Timeout", "Sent"}, NEW n, NEW garble,
           finish(outcome, n, garble)
    PROVE  pending_done' # NoDone /\ state' = "Idle"
<1>1. pending_done' = [outcome |-> outcome, got |-> n, junk |-> garble] /\ state' = "Idle"
  BY DEF finish
<1>2. pending_done'.outcome = outcome
  BY <1>1
<1>3. NoDone.outcome = "none"
  BY DEF NoDone
<1> QED BY <1>1, <1>2, <1>3

(* The interrupts and the main loop's poll carry an operation on.          *)
LEMMA EngineGoesOn ==
    ASSUME EngineInv,
           \/ on_tx_complete \/ on_deadline \/ Servos \/ Wire(Noise) \/ Tick
           \/ PollStatus \/ PollPacing \/ PollProgress \/ PollTimeout
    PROVE  /\ EngineInv'
           /\ CommandRuns' <=> CommandRuns
           /\ InstrumentRuns' <=> InstrumentRuns
<1> USE DEF EngineInv, CommandRuns, InstrumentRuns, Commands, Instruments
<1>1. CASE UNCHANGED <<state, pending_done, pending_wire_done>>
  BY <1>1
<1>2. CASE Servos \/ Wire(Noise) \/ Tick
  BY <1>1, <1>2 DEF Servos, Wire, Tick, terminals
<1>3. CASE on_tx_complete
  <2>1. CASE state = "WireTx" /\ wire_advance
    <3>1. /\ pending_done' = pending_done
          /\ \/ state' = "WireTrain" /\ pending_wire_done' = pending_wire_done
             \/ state' = state /\ pending_wire_done' = pending_wire_done
             \/ state' = "Idle" /\ pending_wire_done' = TRUE
      BY <2>1 DEF wire_advance, wire_finish
    <3>2. pending_done = NoDone /\ ~pending_wire_done
      BY <2>1
    <3>3. CASE state' = "WireTrain" /\ pending_wire_done' = pending_wire_done
      BY <2>1, <3>1, <3>2, <3>3
    <3>4. CASE state' = state /\ pending_wire_done' = pending_wire_done
      BY <2>1, <3>1, <3>2, <3>4
    <3>5. CASE state' = "Idle" /\ pending_wire_done' = TRUE
      BY <2>1, <3>1, <3>2, <3>5
    <3> QED BY <3>1, <3>3, <3>4, <3>5
  <2>2. CASE state = "Transmitting" /\ TxTrain
    BY <2>2 DEF TxTrain, terminals
  <2>3. CASE state = "Transmitting" /\ TxSilent
    <3>1. pending_done' # NoDone /\ state' = "Idle" /\ pending_wire_done' = pending_wire_done
      BY <2>3, FinishIs DEF TxSilent
    <3> QED BY <2>3, <3>1
  <2>4. CASE state = "Transmitting" /\ TxAwait
    BY <2>4 DEF TxAwait, terminals
  <2> QED BY <1>3, <2>1, <2>2, <2>3, <2>4 DEF on_tx_complete
<1>4. CASE on_deadline
  <2>1. CASE left > 1
    BY <1>1, <1>4, <2>1 DEF on_deadline, terminals
  <2>2. CASE ~(left > 1) /\ state = "Training"
    <3>1. pending_done' # NoDone /\ state' = "Idle" /\ pending_wire_done' = pending_wire_done
      BY <1>4, <2>2, FinishIs DEF on_deadline
    <3> QED BY <2>2, <3>1
  <2>3. CASE ~(left > 1) /\ state = "WireTrain"
    BY <1>4, <2>3 DEF on_deadline, wire_finish
  <2> QED BY <1>4, <2>1, <2>2, <2>3 DEF on_deadline
<1>5. CASE PollStatus
  <2>1. state = "Awaiting" /\ pending_done = NoDone /\ pending_wire_done' = pending_wire_done
    BY <1>5 DEF PollStatus, Polling
  <2>2. CASE Last
    <3>1. pending_done' # NoDone /\ state' = "Idle"
      BY <1>5, <2>2, FinishIs DEF PollStatus
    <3> QED BY <2>1, <3>1
  <2>3. CASE ~Last
    BY <1>1, <1>5, <2>1, <2>3 DEF PollStatus
  <2> QED BY <2>2, <2>3
<1>6. CASE PollPacing
  BY <1>6 DEF PollPacing, Polling, start_tx, terminals
<1>7. CASE PollProgress
  BY <1>1, <1>7 DEF PollProgress, terminals
<1>8. CASE PollTimeout
  <2>1. pending_done' # NoDone /\ state' = "Idle"
    BY <1>8, FinishIs DEF PollTimeout
  <2>2. /\ state = "Awaiting" /\ pending_done = NoDone
        /\ pending_wire_done' = pending_wire_done
    BY <1>8 DEF PollTimeout, Polling
  <2> QED BY <2>1, <2>2
<1> QED BY <1>2, <1>3, <1>4, <1>5, <1>6, <1>7, <1>8

(* A terminal or a completion ends it.                                     *)
LEMMA EngineEnds ==
    ASSUME EngineInv
    PROVE  /\ PollDone \/ PollRescue =>
                EngineInv' /\ CommandRuns /\ ~CommandRuns' /\ ~InstrumentRuns /\ ~InstrumentRuns'
           /\ PollWireDone \/ PollPulse =>
                EngineInv' /\ InstrumentRuns /\ ~InstrumentRuns' /\ ~CommandRuns /\ ~CommandRuns'
<1> USE DEF EngineInv, CommandRuns, InstrumentRuns, Commands, Instruments
<1>1. CASE PollDone
  BY <1>1 DEF PollDone, PollWireDone, PollPulse, Polling
<1>2. CASE PollRescue
  BY <1>2 DEF PollRescue, Polling, terminals, PollWireDone, PollPulse
<1>3. CASE PollWireDone
  BY <1>3 DEF PollWireDone, PollDone, PollRescue, Polling
<1>4. CASE PollPulse
  BY <1>4 DEF PollPulse, PollDone, PollRescue, Polling, terminals
<1> QED BY <1>1, <1>2, <1>3, <1>4

(* A record that is run starts one, of its own sort.                       *)
LEMMA EngineStarts ==
    ASSUME EngineInv, Ready, NEW o \in Ops, o.verb # "malformed", Run(o)
    PROVE  /\ EngineInv'
           /\ o.verb \in WireVerbs => InstrumentRuns' /\ ~CommandRuns'
           /\ o.verb \notin WireVerbs => CommandRuns' /\ ~InstrumentRuns'
<1> USE DEF EngineInv, CommandRuns, InstrumentRuns, Commands, Instruments
<1>0. state = "Idle" /\ pending_done = NoDone /\ ~pending_wire_done
  BY DEF Ready
<1>1. CASE o.verb = "exchange"
  <2>1. SubmitExchange(o.arg)
    BY <1>1 DEF Run
  <2>2. state' \in {"Pacing", "Transmitting"} /\ UNCHANGED terminals
    BY <2>1 DEF SubmitExchange, start_tx
  <2> QED BY <1>0, <1>1, <2>2 DEF terminals, WireVerbs
<1>2. CASE o.verb = "deadline"
  <2>1. SubmitDeadline(o.arg)
    BY <1>2 DEF Run
  <2>2. pending_done' # NoDone /\ state' = "Idle" /\ pending_wire_done' = pending_wire_done
    BY <2>1, FinishIs DEF SubmitDeadline
  <2> QED BY <1>0, <1>2, <2>2 DEF WireVerbs
<1>3. CASE o.verb = "hostbaud"
  <2>1. SubmitBaud(o.arg)
    BY <1>3 DEF Run
  <2>2. pending_done'.outcome = "Complete" /\ UNCHANGED <<state, pending_wire_done>>
    BY <2>1 DEF SubmitBaud, NoDone
  <2>3. NoDone.outcome = "none"
    BY DEF NoDone
  <2> QED BY <1>0, <1>3, <2>2, <2>3 DEF WireVerbs
<1>4. CASE o.verb = "rescue"
  <2>1. SubmitRescue
    BY <1>4 DEF Run
  <2> QED BY <1>0, <1>4, <2>1 DEF SubmitRescue, Hold, terminals, WireVerbs
<1>5. CASE o.verb \in {"send", "burst", "train"}
  <2>1. wire_send \/ wire_burst(o.arg) \/ wire_train(o.arg)
    BY <1>5 DEF Run
  <2>2. state' = "WireTx" /\ UNCHANGED terminals
    BY <2>1 DEF wire_send, wire_burst, wire_train, WireStart
  <2> QED BY <1>0, <1>5, <2>2 DEF terminals, WireVerbs
<1>6. CASE o.verb = "baud"
  <2>1. wire_baud(o.arg)
    BY <1>6 DEF Run
  <2> QED BY <1>0, <1>6, <2>1 DEF wire_baud, WireVerbs
<1>7. CASE o.verb = "pulse"
  <2>1. wire_pulse_low(o.arg)
    BY <1>7 DEF Run
  <2> QED BY <1>0, <1>7, <2>1 DEF wire_pulse_low, Hold, terminals, WireVerbs
<1> QED BY <1>1, <1>2, <1>3, <1>4, <1>5, <1>6, <1>7, ServerAssumption

-----------------------------------------------------------------------------
(* The pipe.                                                               *)

Records == [type : {"op"}, op : Ops, seq : Seqs]
             \cup [type : {"rails"}, set : RailSets] \cup [type : {"boot"}]

LEMMA RecordTypes ==
    ASSUME NEW x \in Records
    PROVE  /\ x.type = "op" => x.op \in Ops /\ x.seq \in Seqs
           /\ x.type = "rails" => x.set \in RailSets
BY DEF Records

LEMMA NumbersAreNat ==
    ASSUME ServerTypeOK
    PROVE  /\ used \in Nat /\ NumSeqs \in Nat /\ 1 .. used \subseteq Seqs
           /\ SeqNone \notin 1 .. used
BY ServerAssumption DEF ServerTypeOK, Seqs, SeqNone

(* A record is taken from the front.                                       *)
LEMMA TakenIs ==
    ASSUME ServerTypeOK, chunk # <<>>, Taken
    PROVE  /\ chunk' \in Seq(Records) /\ Head(chunk) = chunk[1]
           /\ 1 \in 1 .. Len(chunk) /\ Head(chunk) \in Records
           /\ \A i \in 1 .. Len(chunk') : chunk'[i] = chunk[i + 1]
                  /\ i + 1 \in 1 .. Len(chunk) /\ i + 1 # 1
           /\ serving' \in BOOLEAN /\ (serving' => chunk' # <<>>)
           /\ used' = used
<1>1. chunk \in Seq(Records)
  BY DEF ServerTypeOK, Records
<1>2. /\ Tail(chunk) \in Seq(Records) /\ Len(Tail(chunk)) = Len(chunk) - 1
      /\ \A i \in 1 .. Len(Tail(chunk)) : Tail(chunk)[i] = chunk[i + 1]
      /\ Head(chunk) = chunk[1] /\ Len(chunk) \in Nat /\ Len(chunk) >= 1
      /\ Head(chunk) \in Records
  BY <1>1
<1>3. chunk' = Tail(chunk) /\ serving' = (Len(chunk) > 1) /\ used' = used
  BY DEF Taken
<1>4. serving' => Len(chunk') > 0
  <2>1. Len(chunk') = Len(chunk) - 1
    BY <1>2, <1>3
  <2>2. serving' => Len(chunk) > 1
    BY <1>3
  <2> QED BY <1>2, <2>1, <2>2
<1>5. Len(<<>>) = 0
  OBVIOUS
<1>6. serving' => chunk' # <<>>
  BY <1>4, <1>5
<1> QED BY <1>2, <1>3, <1>6

LEMMA AppendIs ==
    ASSUME ServerTypeOK, NEW x \in Records, chunk' = Append(chunk, x)
    PROVE  /\ chunk' \in Seq(Records) /\ chunk' # <<>>
           /\ \A i \in 1 .. Len(chunk') :
                 \/ i \in 1 .. Len(chunk) /\ chunk'[i] = chunk[i]
                 \/ i = Len(chunk) + 1 /\ i \notin 1 .. Len(chunk) /\ chunk'[i] = x
<1>1. chunk \in Seq(Records) /\ Len(chunk) \in Nat
  BY DEF ServerTypeOK, Records
<1>2. /\ Append(chunk, x) \in Seq(Records) /\ Append(chunk, x) # <<>>
      /\ Len(Append(chunk, x)) = Len(chunk) + 1
      /\ \A i \in 1 .. Len(chunk) : Append(chunk, x)[i] = chunk[i]
      /\ Append(chunk, x)[Len(chunk) + 1] = x
  BY <1>1, AppendProperties
<1> QED BY <1>1, <1>2

(* A number that is answered leaves the open ones.                         *)
LEMMA AnswerIs ==
    ASSUME ServerTypeOK, NEW s \in Open, Answer(s), used' = used,
           closed \subseteq 1 .. used, streaming \subseteq Open
    PROVE  /\ Open' = Open \ {s} /\ closed' \subseteq 1 .. used
           /\ streaming' \subseteq Open' /\ closed' \subseteq Seqs /\ streaming' \subseteq Seqs
           /\ Contract!Close
<1>1. Open' = Open \ {s}
  BY DEF Open, Answer
<1>2. closed' \subseteq 1 .. used /\ streaming' \subseteq Open'
  BY <1>1 DEF Open, Answer
<1>3. closed' \subseteq Seqs /\ streaming' \subseteq Seqs
  BY <1>2, NumbersAreNat DEF Open
<1>4. Contract!Close
  BY <1>1 DEF Contract!Close, Answer
<1> QED BY <1>1, <1>2, <1>3, <1>4

StepsTo == [Contract!Next]_<<Open, closed, streaming>>

LEMMA NoAnswer ==
    ASSUME UNCHANGED <<used, closed, streaming>>
    PROVE  Open' = Open /\ StepsTo
BY DEF Open, StepsTo

-----------------------------------------------------------------------------
(* The steps of the server.                                                *)

LEMMA InitInv == ASSUME ServerInit PROVE IInv /\ Contract!Init
<1>1. /\ chunk = <<>> /\ serving = FALSE /\ used = 0 /\ active = SeqNone
      /\ wire_active = SeqNone /\ rails = Rails /\ pins = Rails /\ req = "none"
      /\ booted = FALSE /\ closed = {} /\ streaming = {}
      /\ state = "Idle" /\ pending_done = NoDone /\ pending_wire_done = FALSE
  BY DEF ServerInit, ServerIdle, Init
<1>2. chunk \in Seq(Records) /\ Len(chunk) = 0
  BY <1>1
<1>3. ServerTypeOK
  BY <1>1, <1>2, ServerAssumption DEF ServerTypeOK, Records, Seqs, SeqNone
<1>4. EngineInv /\ Owned
  BY <1>1 DEF EngineInv, Owned, CommandRuns, InstrumentRuns, Commands, Instruments, SeqNone
<1>5. Open = {}
  BY <1>1 DEF Open
<1>6. Numbers
  BY <1>1, <1>2, <1>5 DEF Numbers
<1>7. ServingInv /\ RailsAgree
  BY <1>1 DEF ServingInv, RailsAgree
<1>8. Contract!Init
  BY <1>1, <1>5 DEF Contract!Init
<1> QED BY <1>3, <1>4, <1>6, <1>7, <1>8 DEF IInv

LEMMA SendsInv == ASSUME IInv, ClientSends PROVE IInv' /\ StepsTo
<1>0. /\ ServerTypeOK /\ EngineInv /\ Owned /\ Numbers /\ ServingInv /\ RailsAgree
      /\ used \in Nat /\ NumSeqs \in Nat
  BY NumbersAreNat DEF IInv
<1>1. /\ UNCHANGED <<serving, active, wire_active, rails, req, pins, booted, closed, streaming>>
      /\ UNCHANGED <<state, pending_done, pending_wire_done>> /\ ~serving
  BY DEF ClientSends, vars, terminals, owners, adapter, answers
<1>2. EngineInv' /\ Owned' /\ RailsAgree'
  BY <1>0, <1>1 DEF EngineInv, Owned, CommandRuns, InstrumentRuns, RailsAgree
<1>3. ServingInv'
  BY <1>0, <1>1 DEF ServingInv
<1>4. CASE used < NumSeqs /\ used' = used + 1
           /\ \E o \in Ops : chunk' = Append(chunk, [type |-> "op", op |-> o, seq |-> used + 1])
  <2>1. PICK o \in Ops : chunk' = Append(chunk, [type |-> "op", op |-> o, seq |-> used + 1])
    BY <1>4
  <2> DEFINE x == [type |-> "op", op |-> o, seq |-> used + 1]
  <2>2. x \in Records /\ x.type = "op" /\ x.seq = used + 1 /\ used + 1 \in Seqs
    BY <1>0, <1>4 DEF Records, Seqs
  <2> HIDE DEF x
  <2>3. chunk' = Append(chunk, x)
    BY <2>1 DEF x
  <2>4. /\ chunk' \in Seq(Records)
        /\ \A i \in 1 .. Len(chunk') :
              \/ i \in 1 .. Len(chunk) /\ chunk'[i] = chunk[i]
              \/ i = Len(chunk) + 1 /\ i \notin 1 .. Len(chunk) /\ chunk'[i] = x
    BY <1>0, <2>2, <2>3, AppendIs
  <2>5. ServerTypeOK'
    BY <1>0, <1>1, <1>4, <2>4 DEF ServerTypeOK, Records
  <2>6. /\ used + 1 \notin 1 .. used /\ used + 1 \notin closed /\ used + 1 \notin Open
        /\ 1 .. used' = (1 .. used) \cup {used + 1} /\ used + 1 # SeqNone
    BY <1>0, <1>4 DEF Numbers, Open, SeqNone
  <2>7. Open' = Open \cup {used + 1}
    BY <1>1, <2>6 DEF Open
  <2>8. Numbers'
    <3>1. closed' \subseteq 1 .. used' /\ streaming' \subseteq Open'
      BY <1>0, <1>1, <2>6, <2>7 DEF Numbers
    <3>2. (active' # SeqNone => active' \in Open') /\ (wire_active' # SeqNone => wire_active' \in Open')
      BY <1>0, <1>1, <2>7 DEF Numbers
    <3>3. used + 1 # active /\ used + 1 # wire_active
      BY <1>0, <2>6 DEF Numbers
    <3>4. \A i \in 1 .. Len(chunk') : chunk'[i].type = "op" =>
              chunk'[i].seq \in Open' \ {active', wire_active'}
      BY <1>0, <1>1, <2>2, <2>4, <2>7, <3>3 DEF Numbers
    <3>5. \A i \in 1 .. Len(chunk) : chunk[i].type = "op" => chunk[i].seq # used + 1
      BY <1>0, <2>6 DEF Numbers
    <3>6. ASSUME NEW i \in 1 .. Len(chunk'), NEW j \in 1 .. Len(chunk'), i # j,
                 chunk'[i].type = "op", chunk'[j].type = "op"
          PROVE  chunk'[i].seq # chunk'[j].seq
      <4>1. CASE i \in 1 .. Len(chunk) /\ j \in 1 .. Len(chunk)
        BY <1>0, <2>4, <3>6, <4>1 DEF Numbers
      <4>2. CASE i \in 1 .. Len(chunk) /\ j \notin 1 .. Len(chunk)
        BY <2>2, <2>4, <3>5, <3>6, <4>2
      <4>3. CASE i \notin 1 .. Len(chunk) /\ j \in 1 .. Len(chunk)
        BY <2>2, <2>4, <3>5, <3>6, <4>3
      <4>4. i \in 1 .. Len(chunk) \/ j \in 1 .. Len(chunk)
        BY <2>4, <3>6
      <4> QED BY <4>1, <4>2, <4>3, <4>4
    <3> QED BY <3>1, <3>2, <3>4, <3>6 DEF Numbers
  <2>9. StepsTo
    <3>1. {used + 1} \in SUBSET (Seqs \ (Open \cup closed))
      BY <2>2, <2>6
    <3>2. Contract!Send
      BY <1>1, <2>7, <3>1 DEF Contract!Send
    <3> QED BY <3>2 DEF StepsTo, Contract!Next
  <2> QED BY <1>2, <1>3, <2>5, <2>8, <2>9 DEF IInv
<1>5. CASE /\ used' = used
           /\ \/ \E r \in RailSets : chunk' = Append(chunk, [type |-> "rails", set |-> r])
              \/ "boot" \in Boots /\ chunk' = Append(chunk, [type |-> "boot"])
  <2>1. PICK x \in Records : chunk' = Append(chunk, x) /\ x.type # "op"
    <3>1. ASSUME NEW r \in RailSets
          PROVE  [type |-> "rails", set |-> r] \in Records
      BY DEF Records
    <3>2. [type |-> "boot"] \in Records
      BY DEF Records
    <3> QED BY <1>5, <3>1, <3>2
  <2>2. /\ chunk' \in Seq(Records)
        /\ \A i \in 1 .. Len(chunk') :
              \/ i \in 1 .. Len(chunk) /\ chunk'[i] = chunk[i]
              \/ i = Len(chunk) + 1 /\ i \notin 1 .. Len(chunk) /\ chunk'[i] = x
    BY <1>0, <2>1, AppendIs
  <2>3. ServerTypeOK'
    BY <1>0, <1>1, <1>5, <2>2 DEF ServerTypeOK, Records
  <2>4. Open' = Open /\ StepsTo
    BY <1>1, <1>5, NoAnswer
  <2>5. \A i \in 1 .. Len(chunk') : chunk'[i].type = "op" =>
            i \in 1 .. Len(chunk) /\ chunk'[i] = chunk[i]
    BY <2>1, <2>2
  <2>6. Numbers'
    BY <1>0, <1>1, <1>5, <2>4, <2>5 DEF Numbers
  <2> QED BY <1>2, <1>3, <2>3, <2>4, <2>6 DEF IInv
<1> QED BY <1>4, <1>5 DEF ClientSends

(* SUBMIT and the wire records.                                            *)
LEMMA OpInv == ASSUME IInv, HandleOp PROVE IInv' /\ StepsTo
<1>0. /\ ServerTypeOK /\ EngineInv /\ Owned /\ Numbers /\ ServingInv /\ RailsAgree
  BY DEF IInv
<1> DEFINE o == Head(chunk).op
           seq == Head(chunk).seq
<1>1. /\ serving /\ Head(chunk).type = "op" /\ Taken /\ chunk # <<>>
      /\ UNCHANGED <<rails, req, pins, booted>>
  BY <1>0 DEF HandleOp, adapter, ServingInv
<1>2. /\ chunk' \in Seq(Records) /\ Head(chunk) = chunk[1]
      /\ 1 \in 1 .. Len(chunk) /\ Head(chunk) \in Records
      /\ \A i \in 1 .. Len(chunk') : chunk'[i] = chunk[i + 1]
             /\ i + 1 \in 1 .. Len(chunk) /\ i + 1 # 1
      /\ serving' \in BOOLEAN /\ (serving' => chunk' # <<>>)
      /\ used' = used
  BY <1>0, <1>1, TakenIs
<1>3. o \in Ops /\ seq \in Seqs /\ seq = chunk[1].seq /\ chunk[1].type = "op"
  BY <1>1, <1>2, RecordTypes
<1>4. seq \in Open /\ seq # active /\ seq # wire_active
  BY <1>0, <1>2, <1>3 DEF Numbers
<1>n. seq # SeqNone
  BY <1>0, <1>4, NumbersAreNat DEF Open
<1>5. \A i \in 1 .. Len(chunk') : chunk'[i].type = "op" =>
          chunk'[i].seq # seq /\ chunk'[i].seq \in Open \ {active, wire_active}
  BY <1>0, <1>2, <1>3 DEF Numbers
<1>6. \A i, j \in 1 .. Len(chunk') :
          i # j /\ chunk'[i].type = "op" /\ chunk'[j].type = "op" =>
              chunk'[i].seq # chunk'[j].seq
  <2>1. SUFFICES ASSUME NEW i \in 1 .. Len(chunk'), NEW j \in 1 .. Len(chunk'), i # j,
                        chunk'[i].type = "op", chunk'[j].type = "op"
                 PROVE  chunk'[i].seq # chunk'[j].seq
    OBVIOUS
  <2>2. i + 1 # j + 1
    BY <2>1
  <2> QED BY <1>0, <1>2, <2>1, <2>2 DEF Numbers
<1>7. ServingInv' /\ RailsAgree'
  BY <1>0, <1>1, <1>2 DEF ServingInv, RailsAgree
<1>8. CASE Ready /\ o.verb # "malformed"
  <2>1. /\ Run(o) /\ UNCHANGED <<closed, streaming>>
        /\ IF o.verb \in WireVerbs THEN wire_active' = seq /\ active' = active
                                   ELSE active' = seq /\ wire_active' = wire_active
    BY <1>8 DEF HandleOp, answers
  <2> HIDE DEF o, seq
  <2>2. /\ EngineInv'
        /\ o.verb \in WireVerbs => InstrumentRuns' /\ ~CommandRuns'
        /\ o.verb \notin WireVerbs => CommandRuns' /\ ~InstrumentRuns'
    BY <1>0, <1>3, <1>8, <2>1, EngineStarts
  <2>3. active = SeqNone /\ wire_active = SeqNone
    BY <1>0, <1>8 DEF Ready, Owned, CommandRuns, InstrumentRuns, Commands, Instruments
  <2>4. Owned'
    BY <1>n, <2>1, <2>2, <2>3 DEF Owned
  <2>5. Open' = Open /\ StepsTo
    BY <1>2, <2>1, NoAnswer
  <2>6. active' \in {SeqNone, seq} /\ wire_active' \in {SeqNone, seq}
    BY <2>1, <2>3
  <2>7. SeqNone \notin Open
    BY <1>0, NumbersAreNat DEF Open
  <2>8. Numbers'
    BY <1>0, <1>2, <1>4, <1>5, <1>6, <2>1, <2>5, <2>6, <2>7 DEF Numbers
  <2>9. ServerTypeOK'
    BY <1>0, <1>1, <1>2, <1>3, <2>1, <2>6 DEF ServerTypeOK, Records
  <2> QED BY <1>7, <2>2, <2>4, <2>5, <2>8, <2>9 DEF IInv
<1>9. CASE ~(Ready /\ o.verb # "malformed")
  <2>1. /\ Answer(seq) /\ UNCHANGED <<active, wire_active>>
        /\ UNCHANGED <<state, pending_done, pending_wire_done>>
    BY <1>9 DEF HandleOp, owners, vars, terminals
  <2> HIDE DEF o, seq
  <2>2. EngineInv' /\ Owned'
    BY <1>0, <2>1 DEF EngineInv, Owned, CommandRuns, InstrumentRuns
  <2>3. /\ Open' = Open \ {seq} /\ closed' \subseteq 1 .. used
        /\ streaming' \subseteq Open' /\ closed' \subseteq Seqs /\ streaming' \subseteq Seqs
        /\ Contract!Close
    BY <1>0, <1>2, <1>4, <2>1, AnswerIs DEF Numbers
  <2>4. Numbers'
    BY <1>0, <1>2, <1>4, <1>5, <1>6, <2>1, <2>3 DEF Numbers
  <2>5. ServerTypeOK'
    BY <1>0, <1>1, <1>2, <2>1, <2>3 DEF ServerTypeOK, Records
  <2>6. StepsTo
    BY <2>3 DEF StepsTo, Contract!Next
  <2> QED BY <1>7, <2>2, <2>4, <2>5, <2>6 DEF IInv
<1> QED BY <1>8, <1>9

(* SET_RAILS and the bootloader record: no number is involved.             *)
LEMMA AdapterRecordInv == ASSUME IInv, HandleRails \/ HandleBoot PROVE IInv' /\ StepsTo
<1>0. /\ ServerTypeOK /\ EngineInv /\ Owned /\ Numbers /\ ServingInv /\ RailsAgree
  BY DEF IInv
<1>1. /\ serving /\ Head(chunk).type \in {"rails", "boot"} /\ Taken /\ chunk # <<>>
      /\ UNCHANGED <<state, pending_done, pending_wire_done>>
      /\ UNCHANGED <<active, wire_active, pins, booted, closed, streaming>>
  BY <1>0 DEF HandleRails, HandleBoot, ServingInv, vars, terminals, owners, answers
<1>2. /\ chunk' \in Seq(Records) /\ Head(chunk) \in Records
      /\ \A i \in 1 .. Len(chunk') : chunk'[i] = chunk[i + 1]
             /\ i + 1 \in 1 .. Len(chunk) /\ i + 1 # 1
      /\ serving' \in BOOLEAN /\ (serving' => chunk' # <<>>)
      /\ used' = used
  BY <1>0, <1>1, TakenIs
<1>3. Open' = Open /\ StepsTo
  BY <1>1, <1>2, NoAnswer
<1>4. EngineInv' /\ Owned' /\ ServingInv'
  BY <1>0, <1>1, <1>2 DEF EngineInv, Owned, CommandRuns, InstrumentRuns, ServingInv
<1>5. Numbers'
  <2>1. \A i, j \in 1 .. Len(chunk') :
            i # j /\ chunk'[i].type = "op" /\ chunk'[j].type = "op" =>
                chunk'[i].seq # chunk'[j].seq
    <3>1. SUFFICES ASSUME NEW i \in 1 .. Len(chunk'), NEW j \in 1 .. Len(chunk'), i # j,
                          chunk'[i].type = "op", chunk'[j].type = "op"
                   PROVE  chunk'[i].seq # chunk'[j].seq
      OBVIOUS
    <3>2. i + 1 # j + 1
      BY <3>1
    <3> QED BY <1>0, <1>2, <3>1, <3>2 DEF Numbers
  <2>2. \A i \in 1 .. Len(chunk') : chunk'[i].type = "op" =>
            chunk'[i].seq \in Open \ {active, wire_active}
    BY <1>0, <1>2 DEF Numbers
  <2> QED BY <1>0, <1>1, <1>2, <1>3, <2>1, <2>2 DEF Numbers
<1>6. /\ rails' \subseteq Rails /\ req' \in {"none", "rails", "boot"} /\ RailsAgree'
  <2>1. CASE HandleBoot
    BY <1>0, <1>1, <2>1 DEF HandleBoot, RailsAgree, ServerTypeOK
  <2>2. CASE HandleRails
    <3> DEFINE r == Head(chunk).set
    <3>1. /\ Head(chunk).type = "rails"
          /\ rails' = (rails \ r.mask) \cup (r.state \cap r.mask)
          /\ req' = IF r.mask # {} THEN "rails" ELSE req
      BY <2>2 DEF HandleRails
    <3>2. r \in RailSets
      BY <1>2, <3>1, RecordTypes
    <3> HIDE DEF r
    <3>3. r.state \subseteq Rails /\ r.mask \subseteq Rails
      BY <3>2, ServerAssumption
    <3>4. r.mask = {} => rails' = rails
      BY <3>1
    <3>5. RailsAgree'
      BY <1>0, <1>1, <3>1, <3>4 DEF RailsAgree
    <3> QED BY <1>0, <3>1, <3>3, <3>5 DEF ServerTypeOK
  <2> QED BY <2>1, <2>2
<1>7. ServerTypeOK'
  BY <1>0, <1>1, <1>2, <1>6 DEF ServerTypeOK, Records
<1> QED BY <1>3, <1>4, <1>5, <1>6, <1>7 DEF IInv

(* Steps that leave the pipe alone: what they do to the owners and the     *)
(* answers decides.                                                        *)
LEMMA PipeStands ==
    ASSUME ServerTypeOK, Numbers, ServingInv, UNCHANGED <<chunk, used, serving, booted>>
    PROVE  /\ ServingInv'
           /\ \A i \in 1 .. Len(chunk) : chunk[i].type = "op" =>
                 chunk[i].seq \in Open /\ chunk[i].seq # active /\ chunk[i].seq # wire_active
BY DEF ServingInv, Numbers

(* Everything the main loop and the interrupts do that closes nothing.     *)
LEMMA EngineInvStep ==
    ASSUME IInv, UNCHANGED <<chunk, used, serving, booted, owners, rails, req, pins, closed>>,
           streaming' = streaming \/ (active # SeqNone /\ streaming' = streaming \cup {active}),
           EngineInv', CommandRuns' <=> CommandRuns, InstrumentRuns' <=> InstrumentRuns
    PROVE  IInv' /\ StepsTo
<1>0. /\ ServerTypeOK /\ EngineInv /\ Owned /\ Numbers /\ ServingInv /\ RailsAgree
      /\ active' = active /\ wire_active' = wire_active
  BY DEF IInv, owners
<1>1. Open' = Open
  BY DEF Open
<1>2. streaming' \subseteq Open
  BY <1>0 DEF Numbers
<1>3. Numbers'
  BY <1>0, <1>1, <1>2 DEF Numbers
<1>4. Owned' /\ ServingInv' /\ RailsAgree'
  BY <1>0 DEF Owned, ServingInv, RailsAgree
<1>5. ServerTypeOK'
  <2>1. streaming' \subseteq Seqs
    BY <1>0, <1>2, NumbersAreNat DEF Open
  <2> QED BY <1>0, <2>1 DEF ServerTypeOK
<1>6. StepsTo
  <2>1. CASE streaming' = streaming
    BY <2>1, NoAnswer
  <2>2. CASE active # SeqNone /\ streaming' = streaming \cup {active}
    <3>1. active \in Open
      BY <1>0, <2>2 DEF Numbers
    <3>2. Contract!Stream
      BY <1>1, <2>2, <3>1 DEF Contract!Stream
    <3> QED BY <3>2 DEF StepsTo, Contract!Next
  <2> QED BY <2>1, <2>2
<1> QED BY <1>3, <1>4, <1>5, <1>6 DEF IInv

(* A terminal closes the number that owns the operation.                   *)
LEMMA CloseInvStep ==
    ASSUME IInv, UNCHANGED <<chunk, used, serving, booted, rails, req, pins>>, EngineInv',
           \/ /\ CommandRuns /\ ~CommandRuns' /\ ~InstrumentRuns /\ ~InstrumentRuns'
              /\ CloseActive
           \/ /\ InstrumentRuns /\ ~InstrumentRuns' /\ ~CommandRuns /\ ~CommandRuns'
              /\ CloseWire
    PROVE  IInv' /\ StepsTo
<1>0. /\ ServerTypeOK /\ EngineInv /\ Owned /\ Numbers /\ ServingInv /\ RailsAgree
  BY DEF IInv
<1>1. PICK s : /\ s \in {active, wire_active} /\ s # SeqNone
               /\ Answer(s) /\ active' = SeqNone /\ wire_active' = SeqNone
  BY <1>0 DEF Owned, CloseActive, CloseWire
<1>2. s \in Open
  BY <1>0, <1>1 DEF Numbers
<1>3. /\ Open' = Open \ {s} /\ closed' \subseteq 1 .. used
      /\ streaming' \subseteq Open' /\ closed' \subseteq Seqs /\ streaming' \subseteq Seqs
      /\ Contract!Close
  BY <1>0, <1>1, <1>2, AnswerIs DEF Numbers
<1>4. SeqNone \notin Open
  BY <1>0, NumbersAreNat DEF Open
<1>5. \A i \in 1 .. Len(chunk) : chunk[i].type = "op" =>
          chunk[i].seq \in Open' \ {active', wire_active'}
  BY <1>0, <1>1, <1>3, <1>4 DEF Numbers
<1>6. Numbers'
  BY <1>0, <1>1, <1>3, <1>5 DEF Numbers
<1>7. Owned'
  BY <1>1 DEF Owned
<1>8. ServerTypeOK'
  BY <1>0, <1>1, <1>3 DEF ServerTypeOK
<1>9. ServingInv' /\ RailsAgree'
  BY <1>0 DEF ServingInv, RailsAgree
<1>10. StepsTo
  BY <1>3 DEF StepsTo, Contract!Next
<1> QED BY <1>6, <1>7, <1>8, <1>9, <1>10 DEF IInv

LEMMA PumpInv == ASSUME IInv, pump PROVE IInv' /\ StepsTo
<1>0. EngineInv /\ Owned /\ UNCHANGED <<chunk, serving, used, rails, req, pins, booted>>
  BY DEF IInv, pump, pipe, adapter
<1>1. CASE (PollDone \/ PollRescue) /\ CloseActive
  <2>1. EngineInv' /\ CommandRuns /\ ~CommandRuns' /\ ~InstrumentRuns /\ ~InstrumentRuns'
    BY <1>0, <1>1, EngineEnds
  <2> QED BY <1>0, <1>1, <2>1, CloseInvStep
<1>2. CASE (PollWireDone \/ PollPulse) /\ CloseWire
  <2>1. EngineInv' /\ InstrumentRuns /\ ~InstrumentRuns' /\ ~CommandRuns /\ ~CommandRuns'
    BY <1>0, <1>2, EngineEnds
  <2> QED BY <1>0, <1>2, <2>1, CloseInvStep
<1>3. CASE PollStatus /\ streaming' = streaming \cup {active} /\ closed' = closed
           /\ UNCHANGED owners
  <2>1. active # SeqNone
    BY <1>0, <1>3 DEF PollStatus, Polling, Owned, CommandRuns, Commands
  <2>2. EngineInv' /\ (CommandRuns' <=> CommandRuns) /\ (InstrumentRuns' <=> InstrumentRuns)
    BY <1>0, <1>3, EngineGoesOn
  <2> QED BY <1>0, <1>3, <2>1, <2>2, EngineInvStep
<1>4. CASE (PollPacing \/ PollProgress \/ PollTimeout) /\ UNCHANGED <<owners, answers>>
  <2>1. EngineInv' /\ (CommandRuns' <=> CommandRuns) /\ (InstrumentRuns' <=> InstrumentRuns)
    BY <1>0, <1>4, EngineGoesOn
  <2>2. closed' = closed /\ streaming' = streaming /\ UNCHANGED owners
    BY <1>4 DEF answers
  <2> QED BY <1>0, <2>1, <2>2, EngineInvStep
<1> QED BY <1>1, <1>2, <1>3, <1>4 DEF pump

LEMMA InterruptInv ==
    ASSUME IInv, on_tx_complete \/ on_deadline \/ Servos \/ Wire(Noise) \/ Tick,
           UNCHANGED server
    PROVE  IInv' /\ StepsTo
<1>1. /\ UNCHANGED <<chunk, used, serving, booted, rails, req, pins, closed>>
      /\ UNCHANGED owners /\ streaming' = streaming
  BY DEF server, pipe, owners, adapter, answers
<1>2. EngineInv
  BY DEF IInv
<1>3. EngineInv' /\ (CommandRuns' <=> CommandRuns) /\ (InstrumentRuns' <=> InstrumentRuns)
  BY <1>2, EngineGoesOn
<1> QED BY <1>1, <1>3, EngineInvStep

(* The main loop's other steps.                                            *)
LEMMA LoopInv ==
    ASSUME IInv, on_pipe \/ take_adapter_request \/ UNCHANGED allVars
    PROVE  IInv' /\ StepsTo
<1>0. /\ ServerTypeOK /\ EngineInv /\ Owned /\ Numbers /\ ServingInv /\ RailsAgree
  BY DEF IInv
<1>1. /\ UNCHANGED <<state, pending_done, pending_wire_done>>
      /\ UNCHANGED <<chunk, used, active, wire_active, closed, streaming, rails>>
  BY DEF on_pipe, take_adapter_request, allVars, server, vars, terminals, pipe, owners,
         adapter, answers
<1>2. Open' = Open /\ StepsTo
  BY <1>1, NoAnswer
<1>3. EngineInv' /\ Owned' /\ Numbers'
  BY <1>0, <1>1, <1>2 DEF EngineInv, Owned, CommandRuns, InstrumentRuns, Numbers
<1>4. ServerTypeOK' /\ ServingInv' /\ RailsAgree'
  <2>1. CASE on_pipe
    <3>1. serving' = TRUE /\ chunk # <<>> /\ UNCHANGED <<booted, req, pins>>
      BY <2>1 DEF on_pipe, adapter
    <3> QED BY <1>0, <1>1, <3>1 DEF ServerTypeOK, ServingInv, RailsAgree
  <2>2. CASE take_adapter_request
    <3>1. /\ serving' = serving /\ req' = "none"
          /\ \/ pins' = rails /\ booted' = booted
             \/ booted' = TRUE /\ pins' = pins
      BY <2>2 DEF take_adapter_request, pipe
    <3> QED BY <1>0, <1>1, <3>1 DEF ServerTypeOK, ServingInv, RailsAgree
  <2>3. CASE UNCHANGED allVars
    BY <1>0, <2>3 DEF ServerTypeOK, ServingInv, RailsAgree, allVars, server, pipe, owners,
                      adapter, answers
  <2> QED BY <2>1, <2>2, <2>3
<1> QED BY <1>2, <1>3, <1>4 DEF IInv

LEMMA Inductive == ASSUME IInv, [ServerNext]_allVars PROVE IInv' /\ StepsTo
<1>1. CASE ClientSends
  BY <1>1, SendsInv
<1>2. CASE Handle
  BY <1>2, OpInv, AdapterRecordInv DEF Handle
<1>3. CASE Outside(pump)
  BY <1>3, PumpInv DEF Outside
<1>4. CASE EngineStep \/ Engine(Servos) \/ Engine(Wire(Noise)) \/ Engine(Tick)
  BY <1>4, InterruptInv DEF EngineStep, Engine, Outside
<1>5. CASE on_pipe \/ take_adapter_request \/ UNCHANGED allVars
  BY <1>5, LoopInv
<1> QED BY <1>1, <1>2, <1>3, <1>4, <1>5 DEF ServerNext

-----------------------------------------------------------------------------
(* The theorems.                                                           *)

LEMMA Invariance == ServerSpec => []IInv
<1>1. ServerInit => IInv
  BY InitInv
<1>2. IInv /\ [ServerNext]_allVars => IInv'
  BY Inductive
<1> QED BY <1>1, <1>2, PTL DEF ServerSpec

(* The number that owns the engine is the one whose operation runs, a      *)
(* command and an instrument operation never own it together, an idle      *)
(* engine is unowned (link/server.rs, active and wire_active), and the     *)
(* rails are where the mirror says (adapter state).                        *)
THEOREM ServerSound == ServerSpec => [](AdapterSafe /\ OneOwner)
<1>1. ASSUME IInv PROVE AdapterSafe /\ OneOwner
  <2>1. ServerTypeOK /\ EngineInv /\ Owned /\ RailsAgree
    BY <1>1 DEF IInv
  <2>2. OneOwner
    BY <2>1, OneOrNone DEF OneOwner, Owned, CommandRuns, InstrumentRuns, Commands, Instruments
  <2> QED BY <2>1, <2>2 DEF AdapterSafe
<1> QED BY <1>1, Invariance, PTL

(* The link server implements the record contract of link/record.rs: every *)
(* number is closed by one record, and streams only while it is open.      *)
THEOREM ContractKept == ServerSpec => KeepsContract
<1>1. ServerInit => Contract!Init
  BY InitInv
<1>2. IInv /\ [ServerNext]_allVars => StepsTo
  BY Inductive
<1>3. StepsTo => [Contract!Next]_<<Open, closed, streaming>>
  BY DEF StepsTo
<1> QED BY <1>1, <1>2, <1>3, Invariance, PTL DEF ServerSpec, KeepsContract

-----------------------------------------------------------------------------
(* The engine *)


LEMMA Sized ==
    /\ TickMod \in Nat /\ TickMod > 2 /\ Reach \in 1 .. TickMod - 1
    /\ Latency \in Nat /\ PollLag \in Nat /\ FleetRD \in Nat /\ Lead \in Nat
    /\ Horizon \in Nat /\ EnumSlots \in Nat
    /\ Margin \in Nat \ {0} /\ SlowExtra \in Nat \ {0} /\ MaxDeadRun \in Nat \ {0}
    /\ Latency < TickMod - Reach /\ PollLag < TickMod - Reach
BY TimingAssumption, EngineAssumption DEF Reach

LEMMA ModLow ==
    ASSUME NEW n \in Nat \ {0}, NEW m \in 0 .. n - 1
    PROVE  m % n = m /\ (m + n) % n = m /\ (m - n) % n = m /\ (m - 2 * n) % n = m
OBVIOUS

(* What the half-range compare makes of a distance, ahead or behind.       *)
LEMMA Ahead ==
    ASSUME NEW d \in 1 .. Reach
    PROVE  /\ ~tick_reached(d) /\ ~tick_reached(d + TickMod)
           /\ Before(d) = d - 1 /\ Before(d + TickMod) = d - 1
<1>1. /\ d \in Int /\ TickMod \in Nat \ {0} /\ d <= TickMod
      /\ TickMod - d \in 0 .. TickMod - 1 /\ d - 1 \in 0 .. TickMod - 1
      /\ ~(TickMod - d < (TickMod - 1) \div 2)
  BY Sized DEF Reach
<1>2. /\ (TickMod - d - TickMod) % TickMod = TickMod - d
      /\ (TickMod - d - 2 * TickMod) % TickMod = TickMod - d
      /\ (d - 1) % TickMod = d - 1 /\ (d - 1 + TickMod) % TickMod = d - 1
  BY <1>1, ModLow
<1>3. /\ -d = TickMod - d - TickMod /\ -(d + TickMod) = TickMod - d - 2 * TickMod
      /\ d + TickMod - 1 = d - 1 + TickMod
  BY <1>1
<1> QED BY <1>1, <1>2, <1>3 DEF tick_reached, Before

LEMMA Behind ==
    ASSUME NEW d \in 0 .. TickMod - Reach - 1
    PROVE  /\ tick_reached(TickMod - d) /\ (-(TickMod - d)) % TickMod = d
           /\ Before(TickMod - d) = TickMod - d - 1
<1>1. /\ d \in Int /\ TickMod \in Nat \ {0} /\ d \in 0 .. TickMod - 1
      /\ TickMod - d - 1 \in 0 .. TickMod - 1 /\ d < (TickMod - 1) \div 2
  BY Sized DEF Reach
<1>2. (d - TickMod) % TickMod = d /\ (TickMod - d - 1) % TickMod = TickMod - d - 1
  BY <1>1, ModLow
<1>3. -(TickMod - d) = d - TickMod
  BY <1>1
<1> QED BY <1>1, <1>2, <1>3 DEF tick_reached, Before

LEMMA AtZero ==
    ASSUME NEW d \in Int, d = 0
    PROVE  tick_reached(d) /\ (-d) % TickMod = 0 /\ Before(d) = TickMod - 1
<1>1. /\ TickMod \in Nat \ {0} /\ 0 \in 0 .. TickMod - 1 /\ TickMod - 1 \in 0 .. TickMod - 1
      /\ 0 < (TickMod - 1) \div 2
  BY Sized DEF Reach
<1>2. (TickMod - 1 - TickMod) % TickMod = TickMod - 1 /\ 0 % TickMod = 0
  BY <1>1, ModLow
<1>3. d - 1 = TickMod - 1 - TickMod
  BY <1>1
<1>4. (-d) % TickMod = 0
  <2>1. d \in 0 .. 0
    OBVIOUS
  <2> QED BY <1>1, <2>1
<1> QED BY <1>1, <1>2, <1>3, <1>4 DEF tick_reached, Before

LEMMA InRange ==
    ASSUME NEW d \in Int
    PROVE  Before(d) \in 0 .. TickMod - 1
BY Sized DEF Before

Kinds == {"status", "junk", "part"}
Trained == {"Training", "WireTrain"}
Counted == plan.replies \in {"Single", "Chain"}
Total == IF plan.replies = "Single" THEN 1 ELSE plan.n

(* Who drives and who talks: a servo owes answers only in an open window.  *)
Control ==
    /\ TypeOK
    /\ claimed <=> state \in Driving
    /\ pending_done # NoDone => state = "Idle"
    /\ response_deadline \in Deadlines
    /\ state \in {"Pacing", "Transmitting", "Training", "Awaiting"} => plan \in Plans
    /\ state = "Awaiting" => plan.replies # "None"
    /\ talk # <<>> => state = "Awaiting"
    /\ sending => talk # <<>> /\ Head(talk).live

(* The deadline of a train is its ideal instant, whichever lap it is of.   *)
Grid ==
    /\ job.breaks # 0 => job.gap \in 1 .. Reach
    /\ state \in Trained =>
         /\ gap \in 1 .. Reach /\ ideal \in -Latency .. gap
         /\ deadline_at = ideal \/ deadline_at = ideal + TickMod

(* The silence that is left and the one that has passed make a horizon.    *)
Elapsed(d) ==
    \/ calm >= Horizon * byte_ticks
    \/ d \in 1 .. Horizon * byte_ticks /\ d + calm >= Horizon * byte_ticks

Paced ==
    /\ calm \in 0 .. MaxCalm
    /\ state = "Pacing" => pace_until = None /\ Elapsed(deadline_at)
    /\ pace_until # None => Elapsed(pace_until)
    /\ pace_until = None /\ state # "Pacing" => calm >= Horizon * byte_ticks

(* Of MaxDeadRun + 1 slots in a row one is live; k dead ones are skipped.  *)
RunsOk(t) ==
    \A i \in 1 .. Len(t) - MaxDeadRun : \E k \in i .. i + MaxDeadRun : t[k].live
HeadOk(t, k) ==
    \A i \in 1 .. Len(t) : (\A j \in 1 .. i : ~t[j].live) => k + i <= MaxDeadRun

(* The longest silence of the slot whose turn it is.                       *)
MaxQuiet ==
    IF sending THEN plan.bytes * byte_ticks
    ELSE IF Head(talk).live THEN LeadOf ELSE FleetRD

(* What is left of the window covers what is left of the dead slots.       *)
Covered ==
    IF sending THEN deadline_at + quiet >= window_for
    ELSE \E k \in 0 .. MaxDeadRun :
            HeadOk(talk, k) /\ deadline_at + quiet + k * FleetRD >= window_for

Waits ==
    /\ talk \in Seq([slot : Nat, live : BOOLEAN]) /\ RunsOk(talk) /\ quiet \in Nat
    /\ state = "Awaiting" =>
         deadline_at \in 0 .. window_for \cup TickMod - PollLag .. TickMod - 1
    /\ talk # <<>> =>
         /\ quiet <= MaxQuiet
         /\ ~fresh => deadline_at \in 1 .. window_for /\ Covered

(* The statuses of the ring are of slots in order, none delivered before,  *)
(* none of a slot that still owes its answer.                              *)
InOrder ==
    /\ got + Len(talk) <= Total
    /\ \A i \in 1 .. Len(talk) : talk[i].slot = Total - Len(talk) + i - 1
    /\ \A i \in 1 .. Len(ring) : ring[i].kind = "status" =>
          ring[i].slot >= got /\ ring[i].slot < Total - Len(talk)
    /\ \A i, j \in 1 .. Len(ring) :
          i < j /\ ring[i].kind = "status" /\ ring[j].kind = "status"
            => ring[i].slot < ring[j].slot

Slots ==
    /\ ring \in Seq([kind : Kinds, slot : Nat, own : BOOLEAN])
    /\ state \in {"Pacing", "Transmitting"} =>
         \A i \in 1 .. Len(ring) : ring[i].kind # "status"
    /\ sending => /\ ring # <<>> /\ ring[Len(ring)].kind = "part"
                  /\ ring[Len(ring)].slot = Head(talk).slot
    /\ state = "Awaiting" /\ Counted => InOrder

(* What was heard in a window is delivered, counted as junk or in the ring. *)
Heard ==
    /\ state = "Awaiting" /\ spoke => got > 0 \/ junk \/ ring # <<>>
    /\ state # "Awaiting" /\ pending_done = NoDone => ~spoke
    /\ SilenceIsTrue

BusInv == Control /\ Grid /\ Paced /\ Waits /\ Slots /\ Heard

-----------------------------------------------------------------------------

LEMMA NonZero == ASSUME NEW a \in Nat, NEW b \in Nat PROVE a * b \in Nat
OBVIOUS

LEMMA Bigger == ASSUME NEW a \in Nat, NEW b \in Nat, NEW c \in Nat, a <= b PROVE a * c <= b * c
OBVIOUS

(* The window of an exchange outlives the longest silence of its chain.    *)
LEMMA WindowIs ==
    ASSUME Control, state = "Awaiting" \/ (state = "Transmitting" /\ plan.replies # "None")
    PROVE  /\ window_for \in 1 .. Reach /\ LeadOf \in Nat /\ plan.bytes * byte_ticks \in Nat
           /\ plan.bytes * byte_ticks < window_for
           /\ MaxDeadRun * FleetRD + LeadOf < window_for
<1>1. plan \in Plans /\ plan.replies # "None" /\ response_deadline \in Deadlines /\ rate \in Rates
  BY DEF Control, TypeOK
<1>2. ByteTicks[rate] \in Nat \ {0}
  BY <1>1, EngineAssumption
<1>3. /\ plan.bytes \in Nat /\ plan.slow \in BOOLEAN
      /\ Window(plan, response_deadline, rate) <= Reach
      /\ MaxDeadRun * FleetRD + Lead
           < response_deadline + (plan.bytes + Margin) * ByteTicks[rate]
      /\ response_deadline \in Nat
  BY <1>1, TimingAssumption
<1> DEFINE a == (plan.bytes + Margin) * ByteTicks[rate]
           b == plan.bytes * ByteTicks[rate]
           e == EnumSlots * ByteTicks[rate]
<1>4. a \in Nat /\ b \in Nat /\ e \in Nat /\ a > b
  <2>1. b \in Nat /\ Margin * ByteTicks[rate] \in Nat /\ e \in Nat
    BY <1>2, <1>3, Sized, NonZero
  <2>2. 1 * ByteTicks[rate] <= Margin * ByteTicks[rate]
    BY <1>2, Sized, Bigger
  <2>3. a = b + Margin * ByteTicks[rate]
    BY <1>2, <1>3, Sized
  <2> QED BY <1>2, <2>1, <2>2, <2>3
<1>5. MaxDeadRun * FleetRD \in Nat
  BY Sized, NonZero
<1>6. Window(plan, response_deadline, rate) =
        response_deadline + a + (IF plan.replies = "Collect" THEN e ELSE 0)
          + (IF plan.slow THEN SlowExtra ELSE 0)
  BY DEF Window
<1> HIDE DEF a, b, e
<1>7. /\ MaxDeadRun * FleetRD + Lead < response_deadline + a
      /\ plan.bytes * byte_ticks = b /\ window_for = Window(plan, response_deadline, rate)
  BY <1>3 DEF a, b, byte_ticks, window_for
<1>8. LeadOf = Lead + (IF plan.slow THEN SlowExtra - 1 ELSE 0)
  BY DEF LeadOf
<1> QED BY <1>3, <1>4, <1>5, <1>6, <1>7, <1>8, Sized

LEMMA Finished ==
    ASSUME NEW outcome \in {"Complete", "Timeout", "Sent"}, NEW n, NEW garble,
           finish(outcome, n, garble)
    PROVE  /\ pending_done' # NoDone /\ pending_done'.outcome = outcome
           /\ pending_done'.got = n /\ pending_done'.junk = garble
           /\ state' = "Idle" /\ deadline_at' = 0 /\ plan' = NoPlan
           /\ got' = 0 /\ junk' = FALSE /\ fresh' = FALSE
           /\ garble => pace(rate)
           /\ ~garble => UNCHANGED paceVars
<1>1. pending_done' = [outcome |-> outcome, got |-> n, junk |-> garble]
  BY DEF finish
<1>2. pending_done'.outcome = outcome /\ pending_done'.got = n /\ pending_done'.junk = garble
  BY <1>1
<1>3. NoDone.outcome = "none"
  BY DEF NoDone
<1>4. pending_done' # NoDone
  BY <1>2, <1>3
<1>5. /\ state' = "Idle" /\ deadline_at' = 0 /\ plan' = NoPlan
      /\ got' = 0 /\ junk' = FALSE /\ fresh' = FALSE
      /\ garble => pace(rate)
      /\ ~garble => UNCHANGED paceVars
  BY DEF finish
<1> QED BY <1>2, <1>4, <1>5

(* No exchange is closed while a servo owes an answer.                     *)
LEMMA ClosesLate ==
    ASSUME BusInv, PollTimeout \/ (PollStatus /\ Last)
    PROVE  talk = <<>>
<1> USE DEF BusInv
<1>0. state = "Awaiting" /\ plan.replies # "None"
  BY DEF PollTimeout, PollStatus, Polling, Control
<1>1. CASE PollTimeout
  <2>1. SUFFICES ASSUME talk # <<>> PROVE FALSE
    OBVIOUS
  <2>2. deadline_at \in 1 .. window_for /\ tick_reached(deadline_at)
    BY <1>1, <2>1 DEF Waits, PollTimeout, Due
  <2>3. deadline_at \in 1 .. Reach
    BY <1>0, <2>2, WindowIs, Sized
  <2> QED BY <2>2, <2>3, Ahead
<1>2. CASE PollStatus /\ Last
  <2>1. Counted /\ InOrder
    BY <1>0, <1>2 DEF Slots, Last, Counted
  <2>2. PICK i \in 1 .. Len(ring) : ring[i].kind = "status"
    BY <1>2 DEF PollStatus, Statuses
  <2>3. got \in Nat /\ got + 1 = Total /\ Len(talk) \in Nat /\ ring[i].slot \in Nat
    <3>1. got \in Nat /\ talk \in Seq([slot : Nat, live : BOOLEAN])
      BY DEF Control, TypeOK, Waits
    <3>2. got + 1 = Total
      BY <1>2, <3>1 DEF Last, Total
    <3>3. ring[i] \in [kind : Kinds, slot : Nat, own : BOOLEAN]
      BY <2>2, ElementOfSeq DEF Slots
    <3> QED BY <3>1, <3>2, <3>3, LenProperties
  <2>4. ring[i].slot >= got /\ ring[i].slot < Total - Len(talk)
    BY <2>1, <2>2 DEF InOrder
  <2>5. Len(talk) = 0
    BY <2>3, <2>4
  <2> QED BY <2>5, EmptySeq DEF Waits
<1> QED BY <1>1, <1>2

LEMMA BusInit == ASSUME Init PROVE BusInv
<1> USE DEF Init
<1>1. rate \in Rates /\ Horizon * byte_ticks <= MaxCalm /\ MaxCalm \in Nat
  <2>1. rate \in Rates /\ RescueRate \in Rates
    BY EngineAssumption
  <2>2. /\ ByteTicks[rate] \in Nat /\ ByteTicks[RescueRate] \in Nat
        /\ ByteTicks[rate] <= ByteTicks[RescueRate]
    BY <2>1, EngineAssumption
  <2> QED BY <2>1, <2>2, Sized, Bigger, NonZero DEF byte_ticks, MaxCalm
<1>2. Control
  <2>1. TypeOK
    <3>1. 0 \in 0 .. 2 * TickMod /\ -1 \in -1 .. TickMod - 1 /\ 0 \in 0 .. MaxNoise
      BY Sized, TimingAssumption
    <3> QED BY <1>1, <3>1 DEF TypeOK, None
  <2> QED BY <2>1 DEF Control, Driving
<1>3. Grid
  BY DEF Grid, NoJob, Trained
<1>4. Paced
  BY <1>1 DEF Paced, None
<1>5. Waits
  BY Sized DEF Waits, RunsOk
<1>6. Slots
  BY DEF Slots
<1>7. Heard
  BY DEF Heard, SilenceIsTrue, NoDone
<1> QED BY <1>2, <1>3, <1>4, <1>5, <1>6, <1>7 DEF BusInv

LEMMA PaceIs ==
    ASSUME NEW r \in Rates, pace(r)
    PROVE  pace_until' = Horizon * ByteTicks[r] /\ pace_until' \in 1 .. Reach /\ calm' = 0
BY TimingAssumption DEF pace

(* finish on a released line.                                              *)
LEMMA FinishControl ==
    ASSUME Control, NEW outcome \in {"Complete", "Timeout", "Sent"}, NEW n,
           NEW garble \in BOOLEAN, finish(outcome, n, garble),
           claimed' = FALSE, talk = <<>>, talk' = talk, sending' = sending,
           response_deadline' \in Deadlines, rate' = rate,
           {txArmed', pending_wire_done', spoke'} \subseteq BOOLEAN, noise' = noise
    PROVE  Control'
<1>1. /\ state' = "Idle" /\ deadline_at' = 0 /\ plan' = NoPlan
      /\ got' = 0 /\ junk' = FALSE /\ fresh' = FALSE
  BY Finished
<1>2. pace_until' \in -1 .. TickMod - 1
  <2>1. CASE garble
    <3>1. pace(rate) /\ rate \in Rates
      BY <2>1, Finished DEF Control, TypeOK
    <3> QED BY <3>1, PaceIs, Sized
  <2>2. CASE ~garble
    BY <2>2, Finished, Sized DEF Control, TypeOK, paceVars
  <2> QED BY <2>1, <2>2
<1>3. sending' = FALSE
  BY DEF Control, TypeOK
<1>4. 0 \in 0 .. 2 * TickMod
  BY Sized
<1>5. TypeOK'
  BY <1>1, <1>2, <1>3, <1>4 DEF Control, TypeOK
<1> QED BY <1>1, <1>3, <1>5 DEF Control, Driving

LEMMA ControlSubmit == ASSUME BusInv, Submit PROVE Control'
<1> USE DEF BusInv, Control
<1>0. ASSUME Ready PROVE state = "Idle" /\ talk = <<>> /\ ~claimed /\ claimed \in BOOLEAN
  BY <1>0 DEF Ready, Driving, TypeOK
<1>1. ASSUME NEW p \in Plans, SubmitExchange(p) PROVE Control'
  <2>1. state = "Idle" /\ talk = <<>> /\ talk' = <<>>
    BY <1>0, <1>1 DEF SubmitExchange, servos
  <2>2. /\ pace_until' = None /\ -1 \in -1 .. TickMod - 1
        /\ deadline_at' \in 0 .. 2 * TickMod
    <3>1. CASE pace_until # None /\ ~tick_reached(pace_until)
      BY <1>1, <3>1, Sized DEF SubmitExchange, arm, TypeOK, None
    <3>2. CASE ~(pace_until # None /\ ~tick_reached(pace_until))
      BY <1>1, <3>2, Sized DEF SubmitExchange, start_tx, arm, None
    <3> QED BY <3>1, <3>2
  <2>3. \/ state' = "Pacing" /\ UNCHANGED <<claimed, txArmed>>
        \/ state' = "Transmitting" /\ claimed' = TRUE /\ txArmed' = TRUE
    BY <1>1 DEF SubmitExchange, start_tx, drive
  <2>4. /\ plan' = p /\ spoke' = FALSE
        /\ UNCHANGED <<rate, response_deadline, got, junk, fresh, pending_done,
                       pending_wire_done, talk, sending, noise>>
    BY <1>1 DEF SubmitExchange, settings, evidence, terminals, servos
  <2>5. pending_done = NoDone
    BY <1>1 DEF SubmitExchange, Ready
  <2>6. TypeOK'
    BY <2>2, <2>3, <2>4 DEF TypeOK, None
  <2> QED BY <1>0, <1>1, <2>1, <2>3, <2>4, <2>5, <2>6 DEF Driving, SubmitExchange
<1>2. ASSUME NEW us \in Deadlines, SubmitDeadline(us) PROVE Control'
  BY <1>0, <1>2, FinishControl DEF SubmitDeadline, drive, servos, TypeOK
<1>3. ASSUME NEW r \in Rates, SubmitBaud(r) \/ wire_baud(r) PROVE Control'
  <2>1. pace_until' \in -1 .. TickMod - 1
    BY <1>3, PaceIs, Sized DEF SubmitBaud, wire_baud
  <2>2. /\ rate' = r /\ pending_wire_done' \in BOOLEAN /\ state = "Idle"
        /\ UNCHANGED <<state, deadline_at, plan, response_deadline, got, junk, fresh,
                       claimed, txArmed, talk, sending, noise, spoke>>
    BY <1>0, <1>3 DEF SubmitBaud, wire_baud, evidence, drive, servos, TypeOK
  <2>3. TypeOK'
    BY <2>1, <2>2 DEF TypeOK
  <2> QED BY <2>2, <2>3 DEF Driving
<1>4. ASSUME NEW s \in {"RescueHold", "WirePulse"}, NEW us \in 0 .. TickMod, Hold(s, us)
      PROVE  Control'
  <2>1. /\ state' = s /\ claimed' = TRUE /\ deadline_at' = us /\ us \in 0 .. 2 * TickMod
        /\ talk = <<>> /\ pending_done' = NoDone
        /\ UNCHANGED <<plan, rate, response_deadline, pace_until, got, junk, fresh,
                       pending_wire_done, txArmed, talk, sending, noise, spoke>>
    BY <1>0, <1>4, Sized
       DEF Hold, Ready, arm, settings, paceVars, evidence, terminals, servos
  <2>2. TypeOK'
    BY <2>1 DEF TypeOK
  <2> QED BY <2>1, <2>2 DEF Driving
<1>5. ASSUME NEW j, WireStart(j) PROVE Control'
  <2>1. /\ state' = "WireTx" /\ claimed' = TRUE /\ txArmed' = TRUE
        /\ talk = <<>> /\ pending_done' = NoDone
        /\ UNCHANGED <<deadline_at, plan, rate, response_deadline, pace_until, got, junk,
                       fresh, pending_wire_done, talk, sending, noise, spoke>>
    BY <1>0, <1>5 DEF WireStart, Ready, settings, paceVars, evidence, terminals, servos
  <2>2. TypeOK'
    BY <2>1 DEF TypeOK
  <2> QED BY <2>1, <2>2 DEF Driving
<1>6. RescueHold \in 0 .. TickMod /\ Pulses \subseteq 0 .. TickMod /\ WireRates \subseteq Rates
  BY TimingAssumption
<1> QED BY <1>1, <1>2, <1>3, <1>4, <1>5, <1>6
        DEF Submit, SubmitRescue, wire_pulse_low, wire_send, wire_burst, wire_train

LEMMA ControlTx == ASSUME BusInv, on_tx_complete PROVE Control'
<1> USE DEF BusInv, Control
<1>1. UNCHANGED <<rate, response_deadline, ring, spoke>>
  BY DEF on_tx_complete, settings
<1>2. CASE state = "WireTx" /\ wire_advance
  <2>1. /\ talk = <<>> /\ pending_done = NoDone /\ claimed = TRUE
        /\ UNCHANGED <<plan, pace_until, got, junk, fresh, pending_done, talk, sending, noise>>
    BY <1>2 DEF wire_advance, paceVars, evidence, servos, Driving, TypeOK
  <2>2. /\ pending_wire_done' \in BOOLEAN /\ txArmed' \in BOOLEAN
        /\ \/ state' = "WireTrain" /\ claimed' = claimed
           \/ state' = "WireTx" /\ claimed' = claimed
           \/ state' = "Idle" /\ claimed' = FALSE
    BY <1>2 DEF wire_advance, wire_finish, drive, TypeOK
  <2>3. deadline_at' \in 0 .. 2 * TickMod
    <3>1. CASE job.breaks # 0
      BY <1>2, <3>1, Sized, SMTT(20) DEF wire_advance, arm, Grid
    <3>2. CASE job.breaks = 0
      BY <1>2, <3>2, Sized, SMTT(20) DEF wire_advance, wire_finish, TypeOK
    <3> QED BY <3>1, <3>2
  <2>4. TypeOK'
    BY <1>1, <2>1, <2>2, <2>3 DEF TypeOK
  <2> QED BY <1>1, <1>2, <2>1, <2>2, <2>4 DEF Driving
<1>3. CASE state = "Transmitting" /\ TxTrain
  <2>1. /\ state' = "Training" /\ deadline_at' = plan.gap /\ txArmed' = FALSE
        /\ talk = <<>> /\ plan \in Plans
        /\ UNCHANGED <<plan, pace_until, got, junk, fresh, pending_done,
                       pending_wire_done, claimed, talk, sending, noise>>
    BY <1>3 DEF TxTrain, arm, paceVars, evidence, terminals, servos
  <2>2. deadline_at' \in 0 .. 2 * TickMod
    <3>1. plan.train # 0 /\ plan.gap \in 1 .. Reach
      BY <1>3, <2>1, TimingAssumption DEF TxTrain
    <3> QED BY <2>1, <3>1, Sized
  <2>3. TypeOK'
    BY <1>1, <2>1, <2>2 DEF TypeOK
  <2> QED BY <1>1, <1>3, <2>1, <2>3 DEF Driving
<1>4. CASE state = "Transmitting" /\ TxSilent
  <2>1. /\ claimed' = FALSE /\ txArmed' = FALSE /\ finish("Sent", 0, FALSE)
        /\ talk = <<>>
        /\ UNCHANGED <<pending_wire_done, talk, sending, noise>>
    BY <1>4 DEF TxSilent, servos
  <2> QED BY <1>1, <2>1, FinishControl DEF TypeOK
<1>5. CASE state = "Transmitting" /\ TxAwait
  <2>1. /\ state' = "Awaiting" /\ claimed' = FALSE /\ txArmed' = FALSE
        /\ plan \in Plans /\ plan.replies # "None" /\ talk = <<>> /\ pending_done = NoDone
        /\ deadline_at' = window_for /\ got' = 0 /\ fresh' = FALSE
        /\ UNCHANGED <<plan, pace_until, junk, pending_done, pending_wire_done, sending, noise>>
    BY <1>5 DEF TxAwait, arm, paceVars, terminals
  <2>2. deadline_at' \in 0 .. 2 * TickMod
    BY <1>5, <2>1, WindowIs, Sized
  <2>3. sending' = FALSE
    BY <2>1 DEF TypeOK
  <2>4. TypeOK'
    BY <1>1, <2>1, <2>2, <2>3 DEF TypeOK
  <2> QED BY <1>1, <2>1, <2>3, <2>4 DEF Driving
<1> QED BY <1>2, <1>3, <1>4, <1>5 DEF on_tx_complete

(* The wire is the host's own when a train runs.                           *)
LEMMA ControlDeadline == ASSUME BusInv, on_deadline PROVE Control'
<1> USE DEF BusInv, Control
<1>1. /\ UNCHANGED <<rate, response_deadline, txArmed, talk, quiet, sending, noise, spoke>>
      /\ state \in Trained /\ talk = <<>> /\ pending_done = NoDone /\ claimed = TRUE
  BY DEF on_deadline, settings, servos, Trained, Driving, TypeOK
<1>2. CASE left > 1
  <2>1. UNCHANGED <<state, plan, pace_until, got, junk, fresh, pending_done,
                    pending_wire_done, claimed>> /\ deadline_at' = deadline_at + gap
    BY <1>2 DEF on_deadline, arm, NextSlot, paceVars, evidence, terminals
  <2>2. deadline_at' \in 0 .. 2 * TickMod
    <3>1. /\ gap \in 1 .. Reach /\ ideal \in -Latency .. gap /\ deadline_at >= 0
          /\ deadline_at = ideal \/ deadline_at = ideal + TickMod
      BY <1>1 DEF Grid, TypeOK
    <3>2. ~(ideal \in 1 .. Reach)
      <4>1. tick_reached(deadline_at)
        BY DEF on_deadline, Due
      <4> QED BY <3>1, <4>1, Ahead
    <3>3. ideal <= 0
      BY <3>1, <3>2, Sized
    <3> QED BY <2>1, <3>1, <3>3, Sized
  <2>3. TypeOK'
    BY <1>1, <2>1, <2>2 DEF TypeOK
  <2> QED BY <1>1, <2>1, <2>3 DEF Driving, Trained
<1>3. CASE ~(left > 1) /\ state = "Training"
  <2>1. claimed' = FALSE /\ finish("Sent", 0, junk) /\ UNCHANGED pending_wire_done
    BY <1>3 DEF on_deadline
  <2> QED BY <1>1, <2>1, FinishControl DEF TypeOK
<1>4. CASE ~(left > 1) /\ state = "WireTrain"
  <2>1. /\ claimed' = FALSE /\ state' = "Idle" /\ deadline_at' = 0 /\ pending_wire_done' = TRUE
        /\ UNCHANGED <<plan, pace_until, got, junk, fresh, pending_done>>
    BY <1>4 DEF on_deadline, wire_finish, paceVars, evidence
  <2>2. 0 \in 0 .. 2 * TickMod
    BY Sized
  <2>3. TypeOK'
    BY <1>1, <2>1, <2>2 DEF TypeOK
  <2> QED BY <1>1, <2>1, <2>3 DEF Driving
<1> QED BY <1>1, <1>2, <1>3, <1>4 DEF Trained

LEMMA ControlPoll == ASSUME BusInv, poll PROVE Control'
<1> USE DEF BusInv, Control
<1>0. 0 \in 0 .. 2 * TickMod
  BY Sized
<1>1. CASE PollDone \/ PollWireDone
  <2>1. /\ pending_done' = NoDone /\ pending_wire_done' \in BOOLEAN /\ spoke' \in BOOLEAN
        /\ UNCHANGED <<state, deadline_at, plan, rate, response_deadline, pace_until, got,
                       junk, fresh, claimed, txArmed, talk, sending, noise>>
    BY <1>1 DEF PollDone, PollWireDone, settings, paceVars, evidence, drive, servos, TypeOK
  <2>2. TypeOK'
    BY <2>1 DEF TypeOK
  <2> QED BY <2>1, <2>2
<1>2. CASE PollPacing
  <2>1. /\ state = "Pacing" /\ state' = "Transmitting" /\ claimed' = TRUE /\ txArmed' = TRUE
        /\ deadline_at' = 0 /\ pending_done = NoDone /\ talk = <<>>
        /\ UNCHANGED <<plan, rate, response_deadline, pace_until, got, junk, fresh,
                       pending_done, pending_wire_done, talk, sending, noise, spoke>>
    BY <1>2 DEF PollPacing, Polling, start_tx, arm, settings, paceVars, evidence, terminals,
                servos
  <2>2. TypeOK'
    BY <1>0, <2>1 DEF TypeOK
  <2> QED BY <2>1, <2>2 DEF Driving
<1>3. CASE PollRescue \/ PollPulse
  <2>1. /\ state' = "Idle" /\ claimed' = FALSE /\ deadline_at' = 0
        /\ pending_done = NoDone /\ talk = <<>>
        /\ UNCHANGED <<plan, response_deadline, got, junk, fresh, pending_done,
                       pending_wire_done, txArmed, talk, sending, noise, spoke>>
    BY <1>3 DEF PollRescue, PollPulse, Polling, arm, settings, evidence, terminals, servos
  <2>2. rate' \in Rates /\ pace_until' \in -1 .. TickMod - 1
    <3>1. CASE PollPulse
      BY <3>1 DEF PollPulse, settings, paceVars, TypeOK
    <3>2. CASE PollRescue
      <4>1. rate' = RescueRate /\ RescueRate \in Rates /\ pace(RescueRate)
        BY <3>2, EngineAssumption DEF PollRescue
      <4> QED BY <4>1, PaceIs, Sized
    <3> QED BY <1>3, <3>1, <3>2
  <2>3. TypeOK'
    BY <1>0, <2>1, <2>2 DEF TypeOK
  <2> QED BY <2>1, <2>3 DEF Driving
<1>4. ASSUME PollStatus \/ PollProgress \/ PollTimeout
      PROVE  /\ state = "Awaiting" /\ pending_done = NoDone /\ claimed = FALSE
             /\ plan \in Plans /\ plan.replies # "None"
             /\ UNCHANGED <<rate, response_deadline, pending_wire_done, claimed, txArmed,
                            talk, sending, noise, spoke>>
  BY <1>4 DEF PollStatus, PollProgress, PollTimeout, Polling, settings, terminals, drive,
              servos, Driving, TypeOK
<1>5. ASSUME PollStatus \/ PollProgress \/ PollTimeout, state' = state, plan' = plan,
             pace_until' = pace_until, pending_done' = pending_done,
             deadline_at' = window_for, got' \in Nat, {junk', fresh'} \subseteq BOOLEAN
      PROVE  Control'
  <2>0. /\ state = "Awaiting" /\ pending_done = NoDone /\ claimed = FALSE
        /\ plan \in Plans /\ plan.replies # "None"
        /\ UNCHANGED <<rate, response_deadline, pending_wire_done, claimed, txArmed,
                       talk, sending, noise, spoke>>
    BY <1>4, <1>5
  <2>1. deadline_at' \in 0 .. 2 * TickMod
    <3>1. window_for \in 1 .. Reach
      BY <2>0, WindowIs
    <3> QED BY <1>5, <3>1, Sized
  <2>2. TypeOK'
    BY <1>5, <2>0, <2>1 DEF TypeOK
  <2> QED BY <1>5, <2>0, <2>2 DEF Driving
<1>6. CASE PollStatus /\ Last
  <2>1. PICK garble \in BOOLEAN : finish("Complete", got + 1, garble)
    BY <1>6 DEF PollStatus, TypeOK
  <2> QED BY <1>4, <1>6, <2>1, ClosesLate, FinishControl DEF TypeOK
<1>7. CASE PollStatus /\ ~Last
  <2>1. /\ got' = got + 1 /\ junk' \in BOOLEAN /\ fresh' = FALSE /\ deadline_at' = window_for
        /\ UNCHANGED <<state, plan, pace_until, pending_done>>
    BY <1>7 DEF PollStatus, arm, paceVars, TypeOK
  <2>2. got' \in Nat
    BY <2>1 DEF TypeOK
  <2> QED BY <1>5, <1>7, <2>1, <2>2
<1>8. CASE PollProgress
  <2>1. /\ got' = got /\ junk' \in BOOLEAN /\ fresh' = FALSE /\ deadline_at' = window_for
        /\ UNCHANGED <<state, plan, pace_until, pending_done>>
    BY <1>8 DEF PollProgress, arm, paceVars, terminals, TypeOK
  <2>2. got' \in Nat
    BY <2>1 DEF TypeOK
  <2> QED BY <1>5, <1>8, <2>1, <2>2
<1>9. CASE PollTimeout
  <2>1. PICK outcome \in {"Complete", "Timeout"}, garble \in BOOLEAN :
          finish(outcome, got, garble)
    <3>1. (junk \/ Unresolved) \in BOOLEAN
      BY DEF TypeOK
    <3>2. (IF plan.replies = "Collect" THEN "Complete" ELSE "Timeout") \in {"Complete", "Timeout"}
      OBVIOUS
    <3> QED BY <1>9, <3>1, <3>2 DEF PollTimeout
  <2> QED BY <1>4, <1>9, <2>1, ClosesLate, FinishControl DEF TypeOK
<1> QED BY <1>1, <1>2, <1>3, <1>6, <1>7, <1>8, <1>9 DEF poll

LEMMA TailIs ==
    ASSUME NEW S, NEW s \in Seq(S), s # <<>>
    PROVE  /\ Len(s) \in Nat \ {0} /\ Head(s) = s[1] /\ Head(s) \in S
           /\ Tail(s) \in Seq(S) /\ Len(Tail(s)) = Len(s) - 1
           /\ \A i \in 1 .. Len(s) - 1 : Tail(s)[i] = s[i + 1]
OBVIOUS

LEMMA ControlWire == ASSUME BusInv, Servos \/ Wire(Noise) PROVE Control'
<1> USE DEF BusInv, Control
<1>1. /\ UNCHANGED <<state, deadline_at, plan, rate, response_deadline, pace_until, got, junk,
                     pending_done, pending_wire_done, claimed, txArmed>>
  BY DEF Servos, Wire, settings, paceVars, terminals, drive
<1>2. TypeOK'
  <2>1. noise' \in 0 .. MaxNoise
    <3>1. MaxNoise \in Nat /\ noise \in 0 .. MaxNoise
      BY TimingAssumption DEF TypeOK
    <3>2. noise' = noise \/ noise' = noise + 0 \/ (noise < MaxNoise /\ noise' = noise + 1)
      <4>1. CASE Wire(TalkEnd)
        BY <4>1 DEF Wire, TalkEnd
      <4>2. CASE Wire(TalkStart \/ TalkSkip) \/ Wire(Noise)
        BY <4>2 DEF Wire, TalkStart, TalkSkip, Noise
      <4> QED BY <4>1, <4>2 DEF Servos, Wire
    <3> QED BY <3>1, <3>2
  <2>2. {sending', fresh', spoke'} \subseteq BOOLEAN
    BY DEF Servos, Wire, TalkStart, TalkEnd, TalkSkip, Noise, Arrive, Own, TypeOK
  <2> QED BY <1>1, <2>1, <2>2 DEF TypeOK
<1>3. talk' # <<>> => state' = "Awaiting"
  BY <1>1 DEF Servos, Wire, TalkStart, TalkEnd, TalkSkip, Noise
<1>4. sending' => talk' # <<>> /\ Head(talk').live
  BY DEF Servos, Wire, TalkStart, TalkEnd, TalkSkip, Noise
<1> QED BY <1>1, <1>2, <1>3, <1>4 DEF Driving

LEMMA ControlTick == ASSUME BusInv, Tick PROVE Control'
<1> USE DEF BusInv, Control
<1>1. /\ deadline_at' = IF Timed THEN Before(deadline_at) ELSE deadline_at
      /\ pace_until' = IF pace_until = None THEN None ELSE Before(pace_until)
      /\ UNCHANGED <<state, plan, rate, response_deadline, got, junk, fresh, pending_done,
                     pending_wire_done, claimed, txArmed, talk, sending, noise, spoke>>
  BY DEF Tick, settings, evidence, terminals, drive
<1>2. deadline_at' \in 0 .. 2 * TickMod /\ pace_until' \in -1 .. TickMod - 1
  <2>1. deadline_at \in 0 .. 2 * TickMod /\ pace_until \in -1 .. TickMod - 1
    BY DEF TypeOK
  <2>2. Before(deadline_at) \in 0 .. TickMod - 1 /\ Before(pace_until) \in 0 .. TickMod - 1
    BY <2>1, InRange, Sized
  <2> QED BY <1>1, <2>1, <2>2, Sized DEF None
<1>3. TypeOK'
  BY <1>1, <1>2 DEF TypeOK
<1> QED BY <1>1, <1>3 DEF Driving

LEMMA ControlStep == ASSUME BusInv, Next PROVE Control'
BY ControlSubmit, ControlTx, ControlDeadline, ControlPoll, ControlWire, ControlTick DEF Next

-----------------------------------------------------------------------------
(* The break grid.                                                         *)

LEMMA GridKept ==
    ASSUME Grid, UNCHANGED job, state' \notin Trained \/ UNCHANGED <<state, trainVars, deadline_at>>
    PROVE  Grid'
BY DEF Grid, trainVars

LEMMA GridSubmit == ASSUME BusInv, Submit PROVE Grid'
<1>1. ASSUME NEW p \in Plans, SubmitExchange(p) PROVE Grid'
  BY <1>1, GridKept DEF SubmitExchange, start_tx, Trained, BusInv
<1>2. ASSUME NEW us, SubmitDeadline(us) PROVE Grid'
  BY <1>2, GridKept, Finished DEF SubmitDeadline, Trained, BusInv
<1>3. ASSUME NEW r, SubmitBaud(r) \/ wire_baud(r) PROVE Grid'
  BY <1>3, GridKept DEF SubmitBaud, wire_baud, BusInv
<1>4. ASSUME NEW s \in {"RescueHold", "WirePulse"}, NEW us, Hold(s, us) PROVE Grid'
  BY <1>4, GridKept DEF Hold, Trained, BusInv
<1>5. ASSUME NEW j, WireStart(j), j.breaks # 0 => j.gap \in 1 .. Reach PROVE Grid'
  BY <1>5 DEF WireStart, Grid, Trained
<1>6. NoJob.breaks = 0
  BY DEF NoJob
<1>7. ASSUME NEW n PROVE [NoJob EXCEPT !.frames = n].breaks = 0
  BY DEF NoJob
<1>8. ASSUME NEW t \in Trains
      PROVE  [NoJob EXCEPT !.breaks = t.breaks, !.gap = t.gap].gap \in 1 .. Reach
  BY TimingAssumption DEF NoJob
<1> QED BY <1>1, <1>2, <1>3, <1>4, <1>5, <1>6, <1>7, <1>8
        DEF Submit, SubmitRescue, wire_pulse_low, wire_send, wire_burst, wire_train

LEMMA GridTx == ASSUME BusInv, on_tx_complete PROVE Grid'
<1> USE DEF BusInv
<1>1. CASE state = "WireTx" /\ wire_advance
  <2>1. CASE job.breaks # 0
    <3>1. /\ job.gap \in 1 .. Reach /\ job' = NoJob
          /\ gap' = job.gap /\ ideal' = job.gap /\ deadline_at' = job.gap
      BY <1>1, <2>1 DEF wire_advance, arm, Grid
    <3>2. job'.breaks = 0
      BY <3>1 DEF NoJob
    <3> QED BY <3>1, <3>2, Sized DEF Grid
  <2>2. CASE job.breaks = 0 /\ job.frames > 0
    <3>1. state' = state /\ job' = [job EXCEPT !.frames = @ - 1]
      BY <1>1, <2>2 DEF wire_advance
    <3>2. job'.breaks = 0
      BY <2>2, <3>1
    <3> QED BY <1>1, <3>1, <3>2 DEF Grid, Trained
  <2>3. CASE job.breaks = 0 /\ ~(job.frames > 0)
    BY <1>1, <2>3, GridKept DEF wire_advance, wire_finish, Trained
  <2> QED BY <2>1, <2>2, <2>3
<1>2. CASE state = "Transmitting" /\ TxTrain
  <2>1. /\ gap' = plan.gap /\ ideal' = plan.gap /\ deadline_at' = plan.gap /\ job' = job
        /\ plan \in Plans /\ plan.train # 0
    BY <1>2 DEF TxTrain, arm, Control
  <2>2. plan.gap \in 1 .. Reach
    BY <2>1, TimingAssumption
  <2> QED BY <2>1, <2>2, Sized DEF Grid
<1>3. CASE state = "Transmitting" /\ TxSilent
  BY <1>3, GridKept, Finished DEF TxSilent, Trained
<1>4. CASE state = "Transmitting" /\ TxAwait
  BY <1>4, GridKept DEF TxAwait, Trained
<1> QED BY <1>1, <1>2, <1>3, <1>4 DEF on_tx_complete

LEMMA GridDeadline == ASSUME BusInv, on_deadline PROVE Grid'
<1> USE DEF BusInv
<1>0. job' = job /\ state \in Trained
  BY DEF on_deadline, Trained
<1>1. CASE left > 1
  <2>1. /\ state' = state /\ gap' = gap /\ ideal' = ideal + gap /\ deadline_at' = deadline_at + gap
    BY <1>1 DEF on_deadline, arm, NextSlot
  <2>2. /\ gap \in 1 .. Reach /\ ideal \in -Latency .. gap
        /\ deadline_at = ideal \/ deadline_at = ideal + TickMod
    BY <1>0 DEF Grid
  <2>3. ~(ideal \in 1 .. Reach)
    <3>1. tick_reached(deadline_at)
      BY DEF on_deadline, Due
    <3> QED BY <2>2, <3>1, Ahead
  <2>4. ideal' \in -Latency .. gap /\ (deadline_at' = ideal' \/ deadline_at' = ideal' + TickMod)
    BY <2>1, <2>2, <2>3, Sized
  <2> QED BY <1>0, <2>1, <2>2, <2>4 DEF Grid
<1>2. CASE ~(left > 1) /\ state = "Training"
  BY <1>0, <1>2, GridKept, Finished DEF on_deadline, Trained
<1>3. CASE ~(left > 1) /\ state = "WireTrain"
  BY <1>0, <1>3, GridKept DEF on_deadline, wire_finish, Trained
<1> QED BY <1>0, <1>1, <1>2, <1>3 DEF Trained

LEMMA GridTick == ASSUME BusInv, Tick PROVE Grid'
<1> USE DEF BusInv
<1>1. CASE state \notin Trained
  BY <1>1, GridKept DEF Tick
<1>2. CASE state \in Trained
  <2>1. /\ gap \in 1 .. Reach /\ ideal \in -Latency .. gap /\ deadline_at >= 0
        /\ deadline_at = ideal \/ deadline_at = ideal + TickMod
    BY <1>2 DEF Grid, Control, TypeOK
  <2>2. /\ job' = job /\ state' = state /\ gap' = gap /\ ideal' = ideal - 1
        /\ deadline_at' = Before(deadline_at) /\ ~(Due /\ Lateness >= Latency)
    BY <1>2, <2>1 DEF Tick, Timed, Trained, Overdue
  <2>3. Latency \in Nat /\ Latency < TickMod - Reach /\ TickMod \in Nat /\ Reach < TickMod
        /\ Reach \in Nat
    BY Sized
  <2>4. CASE ideal >= 1
    <3>1. ideal \in 1 .. Reach
      BY <2>1, <2>3, <2>4
    <3>2. deadline_at' = ideal - 1
      BY <2>1, <2>2, <3>1, Ahead
    <3> QED BY <1>2, <2>1, <2>2, <2>3, <2>4, <3>2 DEF Grid
  <2>5. CASE ideal = 0
    <3>1. CASE deadline_at = 0
      <4>1. tick_reached(deadline_at) /\ (-deadline_at) % TickMod = 0 /\ deadline_at' = TickMod - 1
        BY <2>2, <3>1, AtZero
      <4> QED BY <1>2, <2>1, <2>2, <2>3, <2>5, <4>1 DEF Grid, Due, Lateness
    <3>2. CASE deadline_at = TickMod - 0
      <4>1. /\ tick_reached(deadline_at) /\ (-deadline_at) % TickMod = 0
            /\ deadline_at' = TickMod - 1
        BY <2>2, <2>3, <3>2, Behind
      <4> QED BY <1>2, <2>1, <2>2, <2>3, <2>5, <4>1 DEF Grid, Due, Lateness
    <3> QED BY <2>1, <2>3, <2>5, <3>1, <3>2
  <2>6. CASE ideal < 0
    <3>1. PICK d \in 0 .. TickMod - Reach - 1 : d = -ideal /\ deadline_at = TickMod - d
      BY <2>1, <2>3, <2>6
    <3>2. /\ tick_reached(deadline_at) /\ (-deadline_at) % TickMod = d
          /\ deadline_at' = TickMod - d - 1
      BY <2>2, <3>1, Behind
    <3> QED BY <1>2, <2>1, <2>2, <2>3, <2>6, <3>1, <3>2 DEF Grid, Due, Lateness
  <2> QED BY <2>1, <2>3, <2>4, <2>5, <2>6
<1> QED BY <1>1, <1>2

LEMMA GridStep == ASSUME BusInv, Next PROVE Grid'
<1>1. CASE poll
  <2>1. CASE PollDone \/ PollWireDone
    BY <2>1, GridKept DEF PollDone, PollWireDone, BusInv
  <2>2. CASE PollPacing \/ PollRescue \/ PollPulse
    BY <2>2, GridKept DEF PollPacing, PollRescue, PollPulse, start_tx, Trained, BusInv
  <2>3. CASE PollStatus \/ PollProgress \/ PollTimeout
    <3>1. state = "Awaiting" /\ job' = job
      BY <2>3 DEF PollStatus, PollProgress, PollTimeout, Polling
    <3>2. state' = state \/ state' = "Idle"
      BY <2>3 DEF PollStatus, PollProgress, PollTimeout, finish
    <3> QED BY <3>1, <3>2, GridKept DEF Trained, BusInv
  <2> QED BY <1>1, <2>1, <2>2, <2>3 DEF poll
<1>2. CASE Servos \/ Wire(Noise)
  BY <1>2, GridKept DEF Servos, Wire, BusInv
<1> QED BY <1>1, <1>2, GridSubmit, GridTx, GridDeadline, GridTick DEF Next

-----------------------------------------------------------------------------
(* The enforced silence.                                                   *)

HorizonOver == calm >= Horizon * byte_ticks

LEMMA PacedKept ==
    ASSUME Paced, UNCHANGED <<paceVars, rate>>,
           state' = "Pacing" => UNCHANGED <<state, deadline_at>>,
           state = "Pacing" => state' = "Pacing" \/ HorizonOver
    PROVE  Paced'
BY DEF Paced, Elapsed, byte_ticks, paceVars, HorizonOver

LEMMA PacedAnew ==
    ASSUME Paced, NEW r \in Rates, pace(r), rate' = r, state' # "Pacing"
    PROVE  Paced'
<1>1. pace_until' = Horizon * ByteTicks[r] /\ pace_until' \in 1 .. Reach /\ calm' = 0
  BY PaceIs
<1>2. Elapsed(pace_until)'
  BY <1>1, Sized DEF Elapsed, byte_ticks
<1>3. 0 \in 0 .. MaxCalm /\ pace_until' # None
  <2>1. Horizon * ByteTicks[RescueRate] \in 1 .. Reach
    BY TimingAssumption, EngineAssumption
  <2> QED BY <1>1, <2>1, Sized DEF MaxCalm, None
<1> QED BY <1>1, <1>2, <1>3 DEF Paced, MaxCalm

(* A silence that is over has been a horizon long.                         *)
LEMMA OverIsOver ==
    ASSUME Paced, rate \in Rates, NEW d \in Int, Elapsed(d), tick_reached(d)
    PROVE  HorizonOver
<1>1. Horizon * byte_ticks \in 1 .. Reach
  BY TimingAssumption DEF byte_ticks
<1>2. CASE d \in 1 .. Horizon * byte_ticks
  BY <1>1, <1>2, Ahead, Sized
<1> QED BY <1>2 DEF Elapsed, HorizonOver

LEMMA PacedFinish ==
    ASSUME BusInv, state # "Pacing", NEW outcome \in {"Complete", "Timeout", "Sent"}, NEW n,
           NEW garble \in BOOLEAN, finish(outcome, n, garble), rate' = rate
    PROVE  Paced'
<1>1. state' = "Idle" /\ rate \in Rates
  BY Finished DEF BusInv, Control, TypeOK
<1>2. CASE garble
  BY <1>1, <1>2, Finished, PacedAnew DEF BusInv
<1>3. CASE ~garble
  BY <1>1, <1>3, Finished, PacedKept DEF BusInv
<1> QED BY <1>2, <1>3

LEMMA PacedSubmit == ASSUME BusInv, Submit PROVE Paced' /\ QuietStep
<1> USE DEF BusInv
<1>1. ASSUME NEW p \in Plans, SubmitExchange(p) PROVE Paced' /\ QuietStep
  <2>1. /\ state = "Idle" /\ pace_until' = None /\ calm' = calm /\ rate' = rate
        /\ rate \in Rates /\ pace_until \in Int
    BY <1>1, Sized DEF SubmitExchange, Ready, settings, Control, TypeOK
  <2>2. CASE pace_until # None /\ ~tick_reached(pace_until)
    <3>1. state' = "Pacing" /\ deadline_at' = pace_until /\ Elapsed(pace_until)
      BY <1>1, <2>2 DEF SubmitExchange, arm, Paced
    <3> QED BY <2>1, <3>1 DEF Paced, Elapsed, byte_ticks, QuietStep, MaxCalm
  <2>3. CASE ~(pace_until # None /\ ~tick_reached(pace_until))
    <3>1. HorizonOver
      <4>1. CASE pace_until = None
        BY <2>1, <4>1 DEF Paced, HorizonOver
      <4>2. CASE pace_until # None
        BY <2>1, <2>3, <4>2, OverIsOver DEF Paced
      <4> QED BY <4>1, <4>2
    <3>2. state' = "Transmitting"
      BY <1>1, <2>3 DEF SubmitExchange, start_tx
    <3> QED BY <2>1, <3>1, <3>2 DEF Paced, HorizonOver, byte_ticks, QuietStep, MaxCalm, None
  <2> QED BY <2>2, <2>3
<1>2. ASSUME NEW us, SubmitDeadline(us) PROVE Paced' /\ QuietStep
  <2>1. state = "Idle" /\ finish("Complete", 0, FALSE) /\ rate' = rate
    BY <1>2 DEF SubmitDeadline, Ready
  <2> QED BY <2>1, PacedFinish, Finished DEF QuietStep
<1>3. ASSUME NEW r \in Rates, SubmitBaud(r) \/ wire_baud(r) PROVE Paced' /\ QuietStep
  <2>1. state = "Idle" /\ state' = state /\ rate' = r /\ pace(r)
    BY <1>3 DEF SubmitBaud, wire_baud, Ready
  <2> QED BY <2>1, PacedAnew DEF QuietStep
<1>4. ASSUME NEW s \in {"RescueHold", "WirePulse"}, NEW us, Hold(s, us) PROVE Paced' /\ QuietStep
  BY <1>4, PacedKept DEF Hold, Ready, settings, QuietStep
<1>5. ASSUME NEW j, WireStart(j) PROVE Paced' /\ QuietStep
  BY <1>5, PacedKept DEF WireStart, Ready, settings, QuietStep
<1>6. WireRates \subseteq Rates
  BY TimingAssumption
<1> QED BY <1>1, <1>2, <1>3, <1>4, <1>5, <1>6
        DEF Submit, SubmitRescue, wire_pulse_low, wire_send, wire_burst, wire_train

LEMMA PacedInterrupt == ASSUME BusInv, on_tx_complete \/ on_deadline PROVE Paced' /\ QuietStep
<1> USE DEF BusInv
<1>0. rate' = rate
  BY DEF on_tx_complete, on_deadline, settings
<1>1. CASE state = "WireTx" /\ wire_advance
  <2>1. paceVars' = paceVars /\ state' \in {"WireTrain", "WireTx", "Idle"}
    BY <1>1 DEF wire_advance, wire_finish
  <2> QED BY <1>0, <1>1, <2>1, PacedKept DEF QuietStep
<1>2. CASE state = "Transmitting" /\ TxTrain
  BY <1>0, <1>2, PacedKept DEF TxTrain, QuietStep
<1>3. CASE state = "Transmitting" /\ TxSilent
  <2>1. finish("Sent", 0, FALSE)
    BY <1>3 DEF TxSilent
  <2> QED BY <1>0, <1>3, <2>1, PacedFinish, Finished DEF QuietStep
<1>4. CASE state = "Transmitting" /\ TxAwait
  BY <1>0, <1>4, PacedKept DEF TxAwait, QuietStep
<1>5. CASE on_deadline /\ left > 1
  BY <1>0, <1>5, PacedKept DEF on_deadline, QuietStep
<1>6. CASE on_deadline /\ ~(left > 1) /\ state = "Training"
  <2>1. finish("Sent", 0, junk) /\ junk \in BOOLEAN
    BY <1>6 DEF on_deadline, Control, TypeOK
  <2> QED BY <1>0, <1>6, <2>1, PacedFinish, Finished DEF QuietStep
<1>7. CASE on_deadline /\ ~(left > 1) /\ state = "WireTrain"
  BY <1>0, <1>7, PacedKept DEF on_deadline, wire_finish, QuietStep
<1> QED BY <1>1, <1>2, <1>3, <1>4, <1>5, <1>6, <1>7 DEF on_tx_complete, on_deadline

LEMMA PacedPoll == ASSUME BusInv, poll PROVE Paced' /\ QuietStep
<1> USE DEF BusInv
<1>1. CASE PollDone \/ PollWireDone
  BY <1>1, PacedKept DEF PollDone, PollWireDone, settings, QuietStep
<1>2. CASE PollPacing
  <2>1. /\ state = "Pacing" /\ state' = "Transmitting" /\ UNCHANGED <<paceVars, rate>>
        /\ tick_reached(deadline_at) /\ rate \in Rates /\ deadline_at \in Int
    BY <1>2, Sized DEF PollPacing, Polling, Due, start_tx, settings, Control, TypeOK
  <2>2. HorizonOver
    BY <2>1, OverIsOver DEF Paced
  <2> QED BY <2>1, <2>2, PacedKept DEF QuietStep, HorizonOver, byte_ticks
<1>3. CASE PollRescue
  <2>1. rate' = RescueRate /\ pace(RescueRate) /\ state' = "Idle" /\ RescueRate \in Rates
    BY <1>3, EngineAssumption DEF PollRescue
  <2> QED BY <2>1, PacedAnew DEF QuietStep
<1>4. CASE PollPulse
  BY <1>4, PacedKept DEF PollPulse, Polling, settings, QuietStep
<1>5. CASE PollStatus
  <2>1. state = "Awaiting" /\ rate' = rate
    BY <1>5 DEF PollStatus, Polling, settings
  <2>2. CASE Last
    <3>1. PICK garble \in BOOLEAN : finish("Complete", got + 1, garble)
      BY <1>5, <2>2 DEF PollStatus, Control, TypeOK
    <3> QED BY <2>1, <3>1, PacedFinish, Finished DEF QuietStep
  <2>3. CASE ~Last
    BY <1>5, <2>1, <2>3, PacedKept DEF PollStatus, QuietStep
  <2> QED BY <2>2, <2>3
<1>6. CASE PollProgress
  BY <1>6, PacedKept DEF PollProgress, Polling, settings, QuietStep
<1>7. CASE PollTimeout
  <2>1. state = "Awaiting" /\ rate' = rate
    BY <1>7 DEF PollTimeout, Polling, settings
  <2>2. PICK outcome \in {"Complete", "Timeout"}, garble \in BOOLEAN :
          finish(outcome, got, garble)
    <3>1. (junk \/ Unresolved) \in BOOLEAN
      BY DEF Control, TypeOK
    <3>2. (IF plan.replies = "Collect" THEN "Complete" ELSE "Timeout") \in {"Complete", "Timeout"}
      OBVIOUS
    <3> QED BY <1>7, <3>1, <3>2 DEF PollTimeout
  <2> QED BY <2>1, <2>2, PacedFinish, Finished DEF QuietStep
<1> QED BY <1>1, <1>2, <1>3, <1>4, <1>5, <1>6, <1>7 DEF poll

(* A tick takes from the silence that is left what it adds to the passed.  *)
LEMMA PacedTick == ASSUME BusInv, Tick PROVE Paced' /\ QuietStep
<1> USE DEF BusInv
<1>1. /\ state' = state /\ rate' = rate /\ rate \in Rates
      /\ calm' = (IF calm < MaxCalm THEN calm + 1 ELSE calm)
      /\ pace_until' = (IF pace_until = None THEN None ELSE Before(pace_until))
      /\ state = "Pacing" => deadline_at' = Before(deadline_at)
  BY DEF Tick, settings, Timed, Control, TypeOK
<1>2. byte_ticks' = byte_ticks /\ Horizon * byte_ticks \in 1 .. Reach
      /\ Horizon * byte_ticks <= MaxCalm /\ MaxCalm \in Nat /\ calm \in 0 .. MaxCalm
  <2>1. /\ ByteTicks[rate] \in Nat /\ ByteTicks[RescueRate] \in Nat
        /\ ByteTicks[rate] <= ByteTicks[RescueRate]
    BY <1>1, EngineAssumption
  <2>2. Horizon * ByteTicks[rate] <= Horizon * ByteTicks[RescueRate]
        /\ Horizon * ByteTicks[RescueRate] \in Nat
    BY <2>1, Sized, Bigger, NonZero
  <2>3. Horizon * ByteTicks[rate] \in 1 .. Reach
    BY <1>1, TimingAssumption
  <2> QED BY <1>1, <2>2, <2>3 DEF byte_ticks, MaxCalm, Paced
<1>3. calm' \in 0 .. MaxCalm /\ calm' >= calm
      /\ (calm' = calm + 1 \/ calm' >= Horizon * byte_ticks)
  BY <1>1, <1>2
<1>4. ASSUME NEW d \in Int, Elapsed(d)
      PROVE  calm' >= Horizon * byte_ticks
               \/ (Before(d) \in 1 .. Horizon * byte_ticks
                     /\ Before(d) + calm' >= Horizon * byte_ticks)
  <2>1. CASE calm >= Horizon * byte_ticks
    BY <1>2, <1>3, <2>1
  <2>2. CASE d \in 1 .. Horizon * byte_ticks /\ d + calm >= Horizon * byte_ticks
    <3>1. d \in 1 .. Reach
      BY <1>2, <2>2, Sized
    <3>2. Before(d) = d - 1
      BY <3>1, Ahead
    <3> QED BY <1>2, <1>3, <2>2, <3>2
  <2> QED BY <1>4, <2>1, <2>2 DEF Elapsed
<1>5. deadline_at \in Int /\ pace_until \in Int
  BY Sized DEF Control, TypeOK
<1>6. state' = "Pacing" => pace_until' = None /\ Elapsed(deadline_at)'
  BY <1>1, <1>2, <1>4, <1>5 DEF Paced, Elapsed
<1>7. pace_until' # None => Elapsed(pace_until)'
  BY <1>1, <1>2, <1>4, <1>5 DEF Paced, Elapsed
<1>8. pace_until' = None /\ state' # "Pacing" => calm' >= Horizon * byte_ticks'
  <2>1. ASSUME pace_until' = None PROVE pace_until = None
    <3>1. CASE pace_until # None
      <4>1. Before(pace_until) \in 0 .. TickMod - 1
        BY <1>5, InRange
      <4> QED BY <1>1, <2>1, <3>1, <4>1, Sized DEF None
    <3> QED BY <3>1
  <2> QED BY <1>1, <1>2, <1>3, <2>1 DEF Paced
<1>9. calm' \in 0 .. MaxCalm'
  BY <1>3 DEF MaxCalm
<1> QED BY <1>1, <1>6, <1>7, <1>8, <1>9 DEF Paced, QuietStep

LEMMA PacedStep == ASSUME BusInv, Next PROVE Paced' /\ QuietStep
<1>1. CASE Servos \/ Wire(Noise)
  BY <1>1, PacedKept DEF Servos, Wire, settings, QuietStep, BusInv
<1> QED BY <1>1, PacedSubmit, PacedInterrupt, PacedPoll, PacedTick DEF Next

-----------------------------------------------------------------------------
(* What was heard.                                                         *)

LEMMA HeardNothing == ASSUME spoke' = FALSE PROVE Heard'
BY DEF Heard, SilenceIsTrue

LEMMA HeardKept ==
    ASSUME Heard, UNCHANGED <<state, got, junk, ring, spoke, pending_done>>
    PROVE  Heard'
BY DEF Heard, SilenceIsTrue

LEMMA SilentOtherwise ==
    ASSUME BusInv, state # "Awaiting", pending_done = NoDone
    PROVE  spoke = FALSE
BY DEF BusInv, Control, TypeOK, Heard

LEMMA HeardPoll == ASSUME BusInv, poll PROVE Heard'
<1> USE DEF BusInv
<1>1. CASE PollDone
  BY <1>1, HeardNothing DEF PollDone
<1>2. CASE PollWireDone
  BY <1>2, HeardKept DEF PollWireDone, evidence
<1>3. CASE PollPacing \/ PollRescue \/ PollPulse
  BY <1>3, SilentOtherwise, HeardNothing DEF PollPacing, PollRescue, PollPulse, Polling
<1>4. CASE PollStatus /\ Last
  <2>1. PICK garble \in BOOLEAN : finish("Complete", got + 1, garble)
    BY <1>4 DEF PollStatus, Control, TypeOK
  <2>2. pending_done' # NoDone /\ pending_done'.got = got + 1 /\ state' = "Idle"
    BY <2>1, Finished
  <2>3. got + 1 # 0
    BY DEF Control, TypeOK
  <2> QED BY <2>2, <2>3 DEF Heard, SilenceIsTrue
<1>5. CASE PollStatus /\ ~Last
  <2>1. /\ got' = got + 1 /\ state' = "Awaiting" /\ pending_done' = NoDone
    BY <1>5 DEF PollStatus, Polling
  <2>2. got + 1 > 0 /\ NoDone.outcome = "none"
    BY DEF Control, TypeOK, NoDone
  <2> QED BY <2>1, <2>2 DEF Heard, SilenceIsTrue
<1>6. CASE PollProgress
  <2>1. /\ state = "Awaiting" /\ state' = "Awaiting" /\ pending_done' = NoDone
        /\ got' = got /\ junk' = (junk \/ Walked) /\ ring' = Parked /\ spoke' = spoke
    BY <1>6 DEF PollProgress, Polling, terminals
  <2>2. ASSUME ring # <<>> PROVE Walked \/ Parked # <<>>
    <3>1. Len(ring) > 0
      BY <2>2, EmptySeq, LenProperties DEF Slots
    <3>2. CASE Parked = <<>>
      BY <3>1, <3>2 DEF Walked
    <3> QED BY <3>2
  <2>3. NoDone.outcome = "none"
    BY DEF NoDone
  <2>4. spoke' => got' > 0 \/ junk' \/ ring' # <<>>
    BY <2>1, <2>2 DEF Heard
  <2> QED BY <2>1, <2>3, <2>4 DEF Heard, SilenceIsTrue
<1>7. CASE PollTimeout
  <2>1. spoke' = spoke /\ state = "Awaiting"
    BY <1>7 DEF PollTimeout, Polling
  <2>2. PICK outcome \in {"Complete", "Timeout"} : finish(outcome, got, junk \/ Unresolved)
    BY <1>7 DEF PollTimeout
  <2>3. /\ pending_done' # NoDone /\ pending_done'.got = got
        /\ pending_done'.junk = (junk \/ Unresolved) /\ state' = "Idle"
    BY <2>2, Finished
  <2>4. ASSUME got = 0, ~(junk \/ Unresolved) PROVE ~spoke
    BY <2>1, <2>4 DEF Heard, Unresolved
  <2> QED BY <2>1, <2>3, <2>4 DEF Heard, SilenceIsTrue
<1> QED BY <1>1, <1>2, <1>3, <1>4, <1>5, <1>6, <1>7 DEF poll

LEMMA HeardWire == ASSUME BusInv, Servos \/ Wire(Noise) PROVE Heard'
<1> USE DEF BusInv
<1>1. UNCHANGED <<state, got, junk, pending_done>>
  BY DEF Servos, Wire, terminals
<1>2. CASE Wire(TalkSkip)
  BY <1>1, <1>2, HeardKept DEF Wire, TalkSkip
<1>3. CASE Wire(TalkStart) \/ Wire(TalkEnd) \/ Wire(Noise)
  <2>1. spoke' = (spoke \/ Own)
    BY <1>3 DEF Wire, TalkStart, TalkEnd, Noise, Arrive
  <2>2. ring' # <<>>
    <3>0. ring \in Seq([kind : Kinds, slot : Nat, own : BOOLEAN])
      BY DEF Slots
    <3>1. ASSUME NEW e \in [kind : Kinds, slot : Nat, own : BOOLEAN] PROVE Append(ring, e) # <<>>
      BY <3>0, AppendProperties
    <3>2. ASSUME NEW kind, ring # <<>> PROVE [ring EXCEPT ![Len(ring)].kind = kind] # <<>>
      BY <3>0, <3>2
    <3>3. CASE Wire(TalkStart)
      <4>1. ring' = Append(ring, [kind |-> "part", slot |-> Head(talk).slot, own |-> Own])
        BY <3>3 DEF Wire, TalkStart, Arrive
      <4> QED BY <3>0, <4>1
    <3>4. CASE Wire(Noise)
      <4>1. ring' = Append(ring, [kind |-> "junk", slot |-> 0, own |-> Own])
        BY <3>4 DEF Wire, Noise, Arrive
      <4> QED BY <3>0, <4>1
    <3>5. CASE Wire(TalkEnd)
      <4>1. PICK kind \in Kinds : ring' = [ring EXCEPT ![Len(ring)].kind = kind]
        BY <3>5 DEF Wire, TalkEnd, Arrive, Kinds, Slots
      <4>2. ring # <<>>
        BY <3>5 DEF Wire, TalkEnd, Slots
      <4> QED BY <3>2, <4>1, <4>2
    <3> QED BY <1>3, <3>3, <3>4, <3>5
  <2>3. CASE Own
    <3>1. pending_done = NoDone /\ NoDone.outcome = "none"
      BY <2>3 DEF Own, Control, NoDone
    <3> QED BY <1>1, <2>2, <2>3, <3>1 DEF Heard, SilenceIsTrue, Own
  <2>4. CASE ~Own
    <3>1. spoke' <=> spoke
      BY <2>1, <2>4
    <3> QED BY <1>1, <2>4, <3>1 DEF Heard, SilenceIsTrue, Own
  <2> QED BY <2>3, <2>4
<1> QED BY <1>2, <1>3 DEF Servos, Wire

LEMMA HeardStep == ASSUME BusInv, Next PROVE Heard'
<1> USE DEF BusInv
<1>1. CASE Submit
  <2>1. Ready /\ (spoke' = spoke \/ spoke' = FALSE)
    BY <1>1 DEF Submit, SubmitExchange, SubmitDeadline, SubmitBaud, SubmitRescue, Hold,
                wire_send, wire_burst, wire_train, wire_baud, wire_pulse_low, WireStart
  <2> QED BY <2>1, SilentOtherwise, HeardNothing DEF Ready
<1>2. CASE on_tx_complete \/ on_deadline
  <2>1. /\ state \in {"WireTx", "Transmitting", "Training", "WireTrain"}
        /\ spoke' = spoke /\ pending_done = NoDone
    BY <1>2 DEF on_tx_complete, on_deadline, Control
  <2> QED BY <2>1, SilentOtherwise, HeardNothing
<1>3. CASE Tick
  BY <1>3, HeardKept DEF Tick, evidence, terminals
<1> QED BY <1>1, <1>2, <1>3, HeardPoll, HeardWire DEF Next

-----------------------------------------------------------------------------
(* The slots and the ring.                                                 *)

Entries == [kind : Kinds, slot : Nat, own : BOOLEAN]
Owing == [slot : Nat, live : BOOLEAN]

LEMMA SuffixIs ==
    ASSUME NEW S, NEW s \in Seq(S), NEW m \in 1 .. Len(s) + 1
    PROVE  /\ SubSeq(s, m, Len(s)) \in Seq(S)
           /\ Len(SubSeq(s, m, Len(s))) = Len(s) - m + 1
           /\ \A i \in 1 .. Len(s) - m + 1 : SubSeq(s, m, Len(s))[i] = s[i + m - 1]
OBVIOUS

LEMMA LongerIs ==
    ASSUME NEW S, NEW s \in Seq(S), NEW e \in S
    PROVE  /\ Append(s, e) \in Seq(S) /\ Len(Append(s, e)) = Len(s) + 1 /\ Append(s, e) # <<>>
           /\ Append(s, e)[Len(s) + 1] = e
           /\ \A i \in 1 .. Len(s) : Append(s, e)[i] = s[i]
OBVIOUS

(* The walk takes a prefix of the ring, never the frame that is arriving.  *)
LEMMA SuffixSlots ==
    ASSUME BusInv, state = "Awaiting", NEW m \in 1 .. Len(ring) + 1,
           ring' = SubSeq(ring, m, Len(ring)), UNCHANGED <<state, plan, talk, sending>>,
           sending => m <= Len(ring),
           Counted => /\ got' + Len(talk) <= Total
                      /\ \A i \in m .. Len(ring) : ring[i].kind = "status" => ring[i].slot >= got'
    PROVE  Slots'
<1> USE DEF BusInv
<1>1. ring \in Seq(Entries) /\ talk \in Seq(Owing)
  BY DEF Slots, Waits, Entries, Owing
<1>2. /\ ring' \in Seq(Entries) /\ Len(ring') = Len(ring) - m + 1 /\ Len(ring) \in Nat
      /\ \A i \in 1 .. Len(ring') : ring'[i] = ring[i + m - 1]
  BY <1>1, SuffixIs
<1>3. ASSUME sending'
      PROVE  /\ ring' # <<>> /\ ring'[Len(ring')].kind = "part"
             /\ ring'[Len(ring')].slot = Head(talk').slot
  <2>1. Len(ring') \in 1 .. Len(ring') /\ ring'[Len(ring')] = ring[Len(ring)] /\ Len(ring') > 0
    BY <1>2, <1>3
  <2>2. ring[Len(ring)].kind = "part" /\ ring[Len(ring)].slot = Head(talk).slot
    BY <1>3 DEF Slots
  <2>3. ring' # <<>>
    <3>1. ring' = <<>> => Len(ring') = 0
      OBVIOUS
    <3> QED BY <1>2, <2>1, <3>1
  <2> QED BY <2>1, <2>2, <2>3
<1>4. ASSUME Counted PROVE InOrder'
  <2>1. InOrder /\ Total' = Total /\ Len(talk) \in Nat
    BY <1>1, <1>4 DEF Slots, Total
  <2>2. \A i \in 1 .. Len(ring') : ring'[i].kind = "status" =>
          ring'[i].slot >= got' /\ ring'[i].slot < Total - Len(talk)
    <3> TAKE i \in 1 .. Len(ring')
    <3>1. i + m - 1 \in m .. Len(ring) /\ i + m - 1 \in 1 .. Len(ring)
      BY <1>2
    <3> QED BY <1>2, <1>4, <2>1, <3>1 DEF InOrder
  <2>3. \A i, j \in 1 .. Len(ring') :
          i < j /\ ring'[i].kind = "status" /\ ring'[j].kind = "status"
            => ring'[i].slot < ring'[j].slot
    <3> TAKE i, j \in 1 .. Len(ring')
    <3>1. i + m - 1 \in 1 .. Len(ring) /\ j + m - 1 \in 1 .. Len(ring)
          /\ (i < j => i + m - 1 < j + m - 1)
      BY <1>2
    <3> QED BY <1>2, <2>1, <3>1 DEF InOrder
  <2> QED BY <1>4, <2>1, <2>2, <2>3 DEF InOrder
<1> QED BY <1>2, <1>3, <1>4 DEF Slots, Entries, Counted

LEMMA SlotsElsewhere ==
    ASSUME Slots, UNCHANGED ring, state' # "Awaiting", sending' = FALSE,
           state' \in {"Pacing", "Transmitting"} => state \in {"Pacing", "Transmitting"}
    PROVE  Slots'
BY DEF Slots

LEMMA SlotsKept ==
    ASSUME Slots, UNCHANGED <<state, plan, got, talk, sending, ring>>
    PROVE  Slots'
BY DEF Slots, InOrder, Counted, Total

LEMMA FirstOf ==
    ASSUME NEW n \in Nat, NEW S, S \subseteq 1 .. n, S # {}
    PROVE  \E i \in S : \A j \in S : i <= j
<1>1. S \subseteq Nat
  OBVIOUS
<1>2. PICK x \in S : \A y \in S : ~(<<y, x>> \in OpToRel(<, Nat))
  BY <1>1, NatLessThanWellFounded, WFMin
<1>3. \A y \in S : y \in Nat /\ x \in Nat /\ <<y, x>> \in Nat \X Nat
  BY <1>1
<1>4. \A y \in S : ~(y < x)
  BY <1>2, <1>3 DEF OpToRel
<1> QED BY <1>3, <1>4

LEMMA StatusIs ==
    ASSUME BusInv, Statuses # {}
    PROVE  /\ FirstStatus \in 1 .. Len(ring) /\ ring[FirstStatus].kind = "status"
           /\ Len(ring) \in Nat
<1>1. Len(ring) \in Nat
  BY LenProperties DEF BusInv, Slots
<1>2. \E i \in Statuses : \A j \in Statuses : i <= j
  <2>1. Statuses \subseteq 1 .. Len(ring) /\ Statuses # {}
    BY DEF Statuses
  <2> QED BY <1>1, <2>1, FirstOf
<1>3. FirstStatus \in Statuses
  BY <1>2 DEF FirstStatus
<1> QED BY <1>1, <1>3 DEF Statuses

LEMMA SlotsPoll == ASSUME BusInv, poll PROVE Slots'
<1> USE DEF BusInv
<1>1. CASE PollDone \/ PollWireDone
  BY <1>1, SlotsKept DEF PollDone, PollWireDone, evidence, servos
<1>2. CASE PollPacing \/ PollRescue \/ PollPulse
  <2>1. /\ state \in {"Pacing", "RescueHold", "WirePulse"} /\ sending' = sending /\ ring' = ring
        /\ state' = "Idle" \/ (state' = "Transmitting" /\ state = "Pacing")
    BY <1>2 DEF PollPacing, PollRescue, PollPulse, Polling, start_tx, servos
  <2>2. sending' = FALSE
    BY <2>1 DEF Control, TypeOK
  <2> QED BY <2>1, <2>2, SlotsElsewhere
<1>3. CASE PollStatus
  <2>1. /\ state = "Awaiting" /\ Statuses # {} /\ UNCHANGED <<talk, sending>>
        /\ ring' = SubSeq(ring, FirstStatus + 1, Len(ring))
    BY <1>3 DEF PollStatus, Polling, AfterStatus, servos
  <2>2. FirstStatus \in 1 .. Len(ring) /\ ring[FirstStatus].kind = "status" /\ Len(ring) \in Nat
    BY <2>1, StatusIs
  <2>3. ASSUME sending PROVE FirstStatus + 1 <= Len(ring)
    <3>1. ring[Len(ring)].kind = "part"
      BY <2>3 DEF Slots
    <3>2. FirstStatus # Len(ring)
      BY <2>2, <3>1
    <3> QED BY <2>2, <3>2
  <2>4. FirstStatus + 1 \in 1 .. Len(ring) + 1
    BY <2>2
  <2>5. CASE Last
    <3>1. state' = "Idle"
      BY <1>3, <2>5 DEF PollStatus, finish
    <3>2. ring' \in Seq(Entries)
      BY <2>1, <2>4, SuffixIs DEF Slots, Entries
    <3>3. talk = <<>>
      BY <1>3, <2>5, ClosesLate
    <3>4. sending' = FALSE
      BY <2>1, <3>3 DEF Control, TypeOK
    <3> QED BY <3>1, <3>2, <3>4 DEF Slots, Entries
  <2>6. CASE ~Last
    <3>1. got' = got + 1 /\ UNCHANGED <<state, plan>>
      BY <1>3, <2>6 DEF PollStatus
    <3>2. ASSUME Counted
          PROVE  /\ got' + Len(talk) <= Total
                 /\ \A i \in FirstStatus + 1 .. Len(ring) :
                       ring[i].kind = "status" => ring[i].slot >= got'
      <4>1. InOrder
        BY <2>1, <3>2 DEF Slots
      <4>2. /\ ring[FirstStatus].slot >= got /\ ring[FirstStatus].slot < Total - Len(talk)
            /\ \A i \in FirstStatus + 1 .. Len(ring) : ring[i].kind = "status" =>
                  ring[FirstStatus].slot < ring[i].slot
        BY <2>2, <4>1 DEF InOrder
      <4>3. /\ got \in Nat /\ Len(talk) \in Nat /\ Total \in Nat
            /\ \A i \in 1 .. Len(ring) : ring[i].slot \in Nat
        <5>1. plan \in Plans
          BY <2>1 DEF Control
        <5>2. Total \in Nat
          BY <5>1, TimingAssumption DEF Total
        <5>3. \A i \in 1 .. Len(ring) : ring[i] \in Entries
          BY ElementOfSeq DEF Slots, Entries
        <5> QED BY <5>2, <5>3, LenProperties DEF Control, TypeOK, Waits, Entries
      <4> QED BY <2>2, <3>1, <4>2, <4>3
    <3> QED BY <2>1, <2>3, <2>4, <3>1, <3>2, SuffixSlots
  <2> QED BY <2>5, <2>6
<1>4. CASE PollProgress
  <2>1. /\ state = "Awaiting" /\ UNCHANGED <<state, plan, talk, sending, got>> /\ ring' = Parked
    BY <1>4 DEF PollProgress, Polling, servos
  <2>2. Len(ring) \in Nat /\ ring \in Seq(Entries)
    BY LenProperties DEF Slots, Entries
  <2>3. PICK m \in 1 .. Len(ring) + 1 :
          Parked = SubSeq(ring, m, Len(ring)) /\ (sending => m <= Len(ring))
    <3>1. CASE Parts = {}
      <4>1. ~sending
        <5>1. ASSUME sending PROVE FALSE
          <6>1. Len(ring) \in 1 .. Len(ring) /\ ring[Len(ring)].kind = "part"
            BY <2>2, <5>1, EmptySeq DEF Slots
          <6> QED BY <3>1, <6>1 DEF Parts
        <5> QED BY <5>1
      <4>2. SubSeq(ring, Len(ring) + 1, Len(ring)) = <<>>
        BY <2>2
      <4>3. Len(ring) + 1 \in 1 .. Len(ring) + 1
        BY <2>2
      <4> QED BY <3>1, <4>1, <4>2, <4>3 DEF Parked
    <3>2. CASE Parts # {}
      <4>1. Parts \subseteq 1 .. Len(ring)
        BY DEF Parts
      <4>2. \E i \in Parts : \A j \in Parts : i <= j
        BY <2>2, <3>2, <4>1, FirstOf
      <4> DEFINE f == CHOOSE i \in Parts : \A j \in Parts : i <= j
      <4>3. f \in 1 .. Len(ring)
        BY <4>1, <4>2
      <4>4. Parked = SubSeq(ring, f, Len(ring))
        BY <3>2 DEF Parked
      <4> HIDE DEF f
      <4>5. f \in 1 .. Len(ring) + 1 /\ f <= Len(ring)
        BY <2>2, <4>3
      <4> QED BY <4>4, <4>5
    <3> QED BY <3>1, <3>2
  <2>4. ASSUME Counted
        PROVE  /\ got' + Len(talk) <= Total
               /\ \A i \in m .. Len(ring) : ring[i].kind = "status" => ring[i].slot >= got'
    <3>1. InOrder
      BY <2>1, <2>4 DEF Slots
    <3>2. \A i \in m .. Len(ring) : i \in 1 .. Len(ring)
      BY <2>2, <2>3
    <3> QED BY <2>1, <3>1, <3>2 DEF InOrder
  <2> QED BY <2>1, <2>3, <2>4, SuffixSlots
<1>5. CASE PollTimeout
  <2>1. state' = "Idle" /\ UNCHANGED <<ring, sending, talk>>
    BY <1>5 DEF PollTimeout, finish, servos
  <2>2. sending' = FALSE
    BY <1>5, <2>1, ClosesLate DEF Control, TypeOK
  <2> QED BY <2>1, <2>2, SlotsElsewhere
<1> QED BY <1>1, <1>2, <1>3, <1>4, <1>5 DEF poll

LEMMA FcnIsSeq ==
    ASSUME NEW S, NEW n \in Nat, NEW f \in [1 .. n -> S]
    PROVE  f \in Seq(S) /\ Len(f) = n
OBVIOUS

LEMMA Tuples ==
    ASSUME NEW S, NEW a \in S
    PROVE  /\ <<>> \in Seq(S) /\ Len(<<>>) = 0
           /\ <<a>> \in Seq(S) /\ Len(<<a>>) = 1 /\ <<a>>[1] = a
           /\ <<a, a>> \in Seq(S) /\ Len(<<a, a>>) = 2 /\ <<a, a>>[1] = a /\ <<a, a>>[2] = a
OBVIOUS

(* The servos owe one answer per slot, with no long run of dead ones.      *)
LEMMA AnswersAre ==
    ASSUME Control, state = "Transmitting", plan.replies # "None", NEW s \in Answers
    PROVE  /\ s \in Seq(BOOLEAN) /\ Len(s) \in Nat
           /\ Counted => Len(s) = Total
           /\ \A i \in 1 .. Len(s) - MaxDeadRun : \E k \in i .. i + MaxDeadRun : s[k]
<1>1. /\ plan \in Plans /\ plan.n \in Nat
      /\ plan.replies \in {"Single", "Chain", "Collect"}
  <2>1. plan \in Plans
    BY DEF Control
  <2> QED BY <2>1, EngineAssumption, TimingAssumption
<1>2. MaxDeadRun \in Nat \ {0}
  BY Sized
<1>3. CASE plan.replies = "Single"
  <2>1. s = <<TRUE>> \/ s = <<FALSE>>
    BY <1>3 DEF Answers
  <2>2. s \in Seq(BOOLEAN) /\ Len(s) = 1
    <3>1. TRUE \in BOOLEAN /\ FALSE \in BOOLEAN
      OBVIOUS
    <3> QED BY <2>1, <3>1, Tuples, Zenon
  <2> QED BY <1>2, <1>3, <2>2 DEF Total
<1>4. CASE plan.replies = "Collect"
  <2>1. s = <<>> \/ s = <<TRUE>> \/ s = <<TRUE, TRUE>>
    BY <1>4 DEF Answers
  <2>2. s \in Seq(BOOLEAN) /\ Len(s) \in 0 .. 2 /\ \A i \in 1 .. Len(s) : s[i] = TRUE
    <3>1. TRUE \in BOOLEAN
      OBVIOUS
    <3>2. /\ s \in Seq(BOOLEAN)
          /\ \/ Len(s) = 0
             \/ Len(s) = 1 /\ s[1] = TRUE
             \/ Len(s) = 2 /\ s[1] = TRUE /\ s[2] = TRUE
      BY <2>1, <3>1, Tuples, Zenon
    <3>3. Len(s) = 0 \/ Len(s) = 1 \/ Len(s) = 2
      BY <3>2, Zenon
    <3>4. PICK n \in 0 .. 2 : n = Len(s)
      BY <3>3
    <3>5. \A i \in 1 .. n : (i = 1 /\ n \in {1, 2}) \/ (i = 2 /\ n = 2)
      BY <3>4
    <3>6. n = 1 => s[1] = TRUE
      BY <3>2, <3>4
    <3>7. n = 2 => s[1] = TRUE /\ s[2] = TRUE
      BY <3>2, <3>4
    <3>8. \A i \in 1 .. n : s[i] = TRUE
      BY <3>5, <3>6, <3>7
    <3> QED BY <3>2, <3>4, <3>8
  <2>3. \A i \in 1 .. Len(s) - MaxDeadRun : i \in i .. i + MaxDeadRun /\ i \in 1 .. Len(s)
    BY <1>2, <2>2
  <2> QED BY <1>4, <2>2, <2>3 DEF Counted
<1>5. CASE plan.replies = "Chain"
  <2>1. s \in [1 .. plan.n -> BOOLEAN]
        /\ \A i \in 1 .. plan.n - MaxDeadRun : \E k \in i .. i + MaxDeadRun : s[k]
    BY <1>5 DEF Answers
  <2>2. s \in Seq(BOOLEAN) /\ Len(s) = plan.n
    BY <1>1, <2>1, FcnIsSeq
  <2> QED BY <1>1, <1>5, <2>1, <2>2 DEF Total
<1> QED BY <1>1, <1>3, <1>4, <1>5

TalkOf(s) == [i \in 1 .. Len(s) |-> [slot |-> i - 1, live |-> s[i]]]

LEMMA TalkIs ==
    ASSUME Control, state = "Transmitting", plan.replies # "None", NEW s \in Answers
    PROVE  /\ TalkOf(s) \in Seq(Owing) /\ Len(TalkOf(s)) = Len(s) /\ RunsOk(TalkOf(s))
           /\ \A i \in 1 .. Len(s) : TalkOf(s)[i].slot = i - 1
<1>1. s \in Seq(BOOLEAN) /\ Len(s) \in Nat
  BY AnswersAre
<1>2. \A i \in 1 .. Len(s) : s[i] \in BOOLEAN /\ i - 1 \in Nat
  BY <1>1, ElementOfSeq
<1>3. TalkOf(s) \in [1 .. Len(s) -> Owing]
  BY <1>2 DEF TalkOf, Owing
<1>4. TalkOf(s) \in Seq(Owing) /\ Len(TalkOf(s)) = Len(s)
  BY <1>1, <1>3, FcnIsSeq
<1>5. \A i \in 1 .. Len(s) : TalkOf(s)[i].slot = i - 1 /\ TalkOf(s)[i].live = s[i]
  BY DEF TalkOf
<1>6. \A i \in 1 .. Len(s) - MaxDeadRun : \E k \in i .. i + MaxDeadRun : s[k]
  BY AnswersAre
<1>7. \A i \in 1 .. Len(s) - MaxDeadRun : \A k \in i .. i + MaxDeadRun : k \in 1 .. Len(s)
  BY <1>1, Sized
<1>8. RunsOk(TalkOf(s))
  BY <1>4, <1>5, <1>6, <1>7 DEF RunsOk
<1> QED BY <1>4, <1>5, <1>8

LEMMA SlotsTx == ASSUME BusInv, on_tx_complete \/ on_deadline PROVE Slots'
<1> USE DEF BusInv
<1>0. ring' = ring
  BY DEF on_tx_complete, on_deadline
<1>1. CASE state = "Transmitting" /\ TxAwait
  <2>1. PICK s \in Answers : talk' = TalkOf(s)
    BY <1>1 DEF TxAwait, TalkOf
  <2>2. /\ plan.replies # "None" /\ plan' = plan /\ got' = 0 /\ state' = "Awaiting"
        /\ sending' = sending
    BY <1>1 DEF TxAwait
  <2>3. sending' = FALSE
    BY <1>1, <2>2 DEF Control, TypeOK
  <2>4. \A i \in 1 .. Len(ring) : ring[i].kind # "status"
    BY <1>1 DEF Slots
  <2>5. /\ Len(talk') = Len(s) /\ Len(s) \in Nat /\ \A i \in 1 .. Len(s) : talk'[i].slot = i - 1
        /\ Counted => Len(s) = Total
    BY <1>1, <2>1, <2>2, TalkIs, AnswersAre
  <2>6. ASSUME Counted PROVE InOrder'
    <3>1. Len(talk') = Total /\ Total' = Total /\ Total \in Nat
      BY <2>2, <2>5, <2>6 DEF Total
    <3>2. \A i \in 1 .. Len(talk') : talk'[i].slot = Total - Len(talk') + i - 1
      BY <2>5, <3>1
    <3> QED BY <1>0, <2>2, <2>4, <3>1, <3>2 DEF InOrder
  <2> QED BY <1>0, <2>2, <2>3, <2>6 DEF Slots, Counted
<1>2. CASE ~(state = "Transmitting" /\ TxAwait)
  <2>1. /\ state \in {"WireTx", "Transmitting", "Training", "WireTrain"}
        /\ state' \in {"Idle", "WireTx", "WireTrain", "Training"} /\ sending' = sending
    <3>1. CASE on_deadline
      BY <3>1 DEF on_deadline, servos, finish, wire_finish
    <3>2. CASE state = "WireTx" /\ wire_advance
      BY <3>2 DEF wire_advance, wire_finish, servos
    <3>3. CASE state = "Transmitting" /\ (TxTrain \/ TxSilent)
      BY <3>3 DEF TxTrain, TxSilent, servos, finish
    <3> QED BY <1>2, <3>1, <3>2, <3>3 DEF on_tx_complete
  <2>2. sending' = FALSE
    BY <2>1 DEF Control, TypeOK
  <2> QED BY <1>0, <2>1, <2>2, SlotsElsewhere
<1> QED BY <1>1, <1>2

LEMMA SlotsSubmit == ASSUME BusInv, Submit PROVE Slots'
<1> USE DEF BusInv
<1>1. ASSUME Ready, sending' = sending PROVE sending' = FALSE
  BY <1>1 DEF Ready, Control, TypeOK
<1>2. ASSUME NEW p \in Plans, SubmitExchange(p) PROVE Slots'
  <2>1. ring' = <<>> /\ state' \in {"Pacing", "Transmitting"} /\ sending' = FALSE
    BY <1>1, <1>2 DEF SubmitExchange, start_tx, servos
  <2> QED BY <2>1 DEF Slots
<1>3. CASE ~(\E p \in Plans : SubmitExchange(p))
  <2>1. /\ Ready /\ ring' = ring /\ sending' = sending
        /\ state' \in {"Idle", "RescueHold", "WirePulse", "WireTx"}
    BY <1>3 DEF Submit, SubmitDeadline, SubmitBaud, SubmitRescue, Hold, wire_send, wire_burst,
                wire_train, wire_baud, wire_pulse_low, WireStart, Ready, servos, finish
  <2> QED BY <1>1, <2>1, SlotsElsewhere
<1> QED BY <1>2, <1>3

LEMMA RingTypes ==
    ASSUME BusInv
    PROVE  /\ ring \in Seq(Entries) /\ Len(ring) \in Nat /\ talk \in Seq(Owing) /\ Len(talk) \in Nat
           /\ got \in Nat /\ sending \in BOOLEAN
           /\ plan \in Plans => Total \in Nat
           /\ \A i \in 1 .. Len(ring) : ring[i] \in Entries /\ ring[i].slot \in Nat
           /\ \A i \in 1 .. Len(talk) : talk[i] \in Owing /\ talk[i].slot \in Nat
<1>1. ring \in Seq(Entries) /\ talk \in Seq(Owing) /\ got \in Nat /\ sending \in BOOLEAN
  BY DEF BusInv, Slots, Waits, Control, TypeOK, Entries, Owing
<1>2. plan \in Plans => Total \in Nat
  BY TimingAssumption DEF Total
<1>3. \A i \in 1 .. Len(ring) : ring[i] \in Entries
  BY <1>1, ElementOfSeq
<1>4. \A i \in 1 .. Len(talk) : talk[i] \in Owing
  BY <1>1, ElementOfSeq
<1> QED BY <1>1, <1>2, <1>3, <1>4, LenProperties DEF Entries, Owing

LEMMA EntryIs ==
    ASSUME NEW k \in Kinds, NEW n \in Nat, NEW b \in BOOLEAN
    PROVE  /\ [kind |-> k, slot |-> n, own |-> b] \in Entries
           /\ [kind |-> k, slot |-> n, own |-> b].kind = k
           /\ [kind |-> k, slot |-> n, own |-> b].slot = n
BY DEF Entries

LEMMA Rekinded ==
    ASSUME NEW e \in Entries, NEW k \in Kinds
    PROVE  [e EXCEPT !.kind = k] \in Entries /\ [e EXCEPT !.kind = k].slot = e.slot
BY DEF Entries

(* An entry that is no status joins the ring.                              *)
LEMMA SlotsAppend ==
    ASSUME BusInv, NEW e \in Entries, e.kind # "status", ring' = Append(ring, e), ~sending,
           sending' => e.kind = "part" /\ e.slot = Head(talk).slot,
           UNCHANGED <<state, plan, got, talk>>
    PROVE  Slots'
<1> USE DEF BusInv
<1>1. ring \in Seq(Entries) /\ Len(ring) \in Nat
  BY RingTypes
<1>2. /\ ring' \in Seq(Entries) /\ Len(ring') = Len(ring) + 1 /\ ring' # <<>>
      /\ ring'[Len(ring')] = e /\ \A i \in 1 .. Len(ring) : ring'[i] = ring[i]
  BY <1>1, LongerIs
<1>3. \A i \in 1 .. Len(ring') : i \in 1 .. Len(ring) \/ i = Len(ring')
  BY <1>1, <1>2
<1>4. \A i \in 1 .. Len(ring') : ring'[i].kind = "status" =>
        i \in 1 .. Len(ring) /\ ring'[i] = ring[i] /\ ring[i].kind = "status"
  BY <1>2, <1>3
<1>5. ASSUME state = "Awaiting", Counted PROVE InOrder'
  <2>1. InOrder
    BY <1>5 DEF Slots
  <2> QED BY <1>4, <2>1 DEF InOrder, Total
<1>6. state' \in {"Pacing", "Transmitting"} => \A i \in 1 .. Len(ring') : ring'[i].kind # "status"
  BY <1>4 DEF Slots
<1> QED BY <1>2, <1>5, <1>6 DEF Slots, Entries, Counted

(* A slot is over: its answer is in the ring, or there is none.            *)
LEMMA SlotsTail ==
    ASSUME BusInv, talk # <<>>, talk' = Tail(talk), UNCHANGED <<state, plan, got>>,
           sending' = FALSE, ring' \in Seq(Entries), Len(ring') = Len(ring),
           \A i \in 1 .. Len(ring) :
              \/ ring'[i] = ring[i]
              \/ i = Len(ring) /\ ring'[i].slot = Head(talk).slot
    PROVE  Slots'
<1> USE DEF BusInv
<1>1. /\ Len(ring) \in Nat /\ Len(talk) \in Nat \ {0} /\ got \in Nat /\ state = "Awaiting"
      /\ Len(talk') = Len(talk) - 1 /\ Head(talk) = talk[1] /\ 1 \in 1 .. Len(talk)
      /\ \A i \in 1 .. Len(talk) - 1 : talk'[i] = talk[i + 1] /\ i + 1 \in 1 .. Len(talk)
  <2>1. talk \in Seq(Owing)
    BY RingTypes
  <2>2. /\ Len(talk) \in Nat \ {0} /\ Len(talk') = Len(talk) - 1 /\ Head(talk) = talk[1]
        /\ \A i \in 1 .. Len(talk) - 1 : talk'[i] = talk[i + 1]
    BY <2>1, TailIs
  <2>3. 1 \in 1 .. Len(talk) /\ \A i \in 1 .. Len(talk) - 1 : i + 1 \in 1 .. Len(talk)
    BY <2>2
  <2> QED BY <2>2, <2>3, RingTypes DEF Control
<1>2. ASSUME Counted PROVE InOrder'
  <2>1. InOrder /\ Total' = Total /\ Total \in Nat
    BY <1>1, <1>2, RingTypes DEF Slots, Total, Control
  <2>2. got' + Len(talk') <= Total
    BY <1>1, <2>1 DEF InOrder
  <2>3. \A i \in 1 .. Len(talk') : talk'[i].slot = Total - Len(talk') + i - 1
    <3> TAKE i \in 1 .. Len(talk')
    <3>1. talk'[i] = talk[i + 1] /\ i + 1 \in 1 .. Len(talk)
      BY <1>1
    <3>2. talk[i + 1].slot = Total - Len(talk) + (i + 1) - 1
      BY <2>1, <3>1 DEF InOrder
    <3> QED BY <1>1, <2>1, <3>1, <3>2
  <2>4. Head(talk).slot = Total - Len(talk)
    <3>1. talk[1].slot = Total - Len(talk) + 1 - 1
      BY <1>1, <2>1 DEF InOrder
    <3> QED BY <1>1, <2>1, <3>1
  <2>5. \A i \in 1 .. Len(ring') : ring'[i].kind = "status" =>
           ring'[i].slot >= got' /\ ring'[i].slot < Total - Len(talk')
    <3> TAKE i \in 1 .. Len(ring')
    <3>1. CASE ring'[i] = ring[i]
      <4>1. ASSUME ring[i].kind = "status"
            PROVE  ring[i].slot >= got /\ ring[i].slot < Total - Len(talk) /\ ring[i].slot \in Nat
        BY <2>1, <4>1, RingTypes DEF InOrder
      <4> QED BY <1>1, <2>1, <3>1, <4>1
    <3>2. CASE ring'[i].slot = Head(talk).slot
      BY <1>1, <2>1, <2>4, <3>2 DEF InOrder
    <3> QED BY <3>1, <3>2
  <2>6. \A i, j \in 1 .. Len(ring') :
          i < j /\ ring'[i].kind = "status" /\ ring'[j].kind = "status"
            => ring'[i].slot < ring'[j].slot
    <3> TAKE i, j \in 1 .. Len(ring')
    <3> HAVE i < j /\ ring'[i].kind = "status" /\ ring'[j].kind = "status"
    <3>1. ring'[i] = ring[i] /\ ring[i].kind = "status" /\ i \in 1 .. Len(ring)
      BY <1>1
    <3>2. ring[i].slot < Total - Len(talk)
      BY <2>1, <3>1 DEF InOrder
    <3>3. CASE ring'[j] = ring[j]
      BY <2>1, <3>1, <3>3 DEF InOrder
    <3>4. CASE ring'[j].slot = Head(talk).slot
      BY <2>4, <3>1, <3>2, <3>4
    <3> QED BY <3>3, <3>4
  <2> QED BY <2>1, <2>2, <2>3, <2>5, <2>6 DEF InOrder
<1> QED BY <1>1, <1>2 DEF Slots, Entries, Counted

LEMMA SlotsWire == ASSUME BusInv, Servos \/ Wire(Noise) PROVE Slots'
<1> USE DEF BusInv
<1>1. UNCHANGED <<state, plan, got>>
  BY DEF Servos, Wire
<1>2. CASE Wire(TalkStart)
  <2>1. /\ talk # <<>> /\ ~sending /\ talk' = talk
        /\ ring' = Append(ring, [kind |-> "part", slot |-> Head(talk).slot, own |-> Own])
    BY <1>2 DEF Wire, TalkStart, Arrive
  <2>2. Head(talk).slot \in Nat
    BY <2>1, RingTypes, TailIs DEF Owing
  <2>3. PICK e \in Entries : /\ e = [kind |-> "part", slot |-> Head(talk).slot, own |-> Own]
                             /\ e.kind = "part" /\ e.slot = Head(talk).slot
    <3>1. Own \in BOOLEAN
      BY DEF Own
    <3>2. "part" \in Kinds
      BY DEF Kinds
    <3> QED BY <2>2, <3>1, <3>2, EntryIs, ZenonT(40)
  <2> QED BY <1>1, <2>1, <2>3, SlotsAppend
<1>3. CASE Wire(Noise)
  <2>1. /\ ~sending /\ UNCHANGED <<talk, sending>>
        /\ ring' = Append(ring, [kind |-> "junk", slot |-> 0, own |-> Own])
    BY <1>3 DEF Wire, Noise, Arrive
  <2>2. PICK e \in Entries : e = [kind |-> "junk", slot |-> 0, own |-> Own] /\ e.kind = "junk"
    <3>1. Own \in BOOLEAN
      BY DEF Own
    <3>2. "junk" \in Kinds /\ 0 \in Nat
      BY DEF Kinds
    <3> QED BY <3>1, <3>2, EntryIs
  <2> QED BY <1>1, <2>1, <2>2, SlotsAppend
<1>4. CASE Wire(TalkSkip)
  <2>1. talk # <<>> /\ talk' = Tail(talk) /\ UNCHANGED <<sending, ring>> /\ ~Head(talk).live
    BY <1>4 DEF Wire, TalkSkip
  <2>2. sending' = FALSE
    BY <2>1 DEF Control, TypeOK
  <2> QED BY <1>1, <2>1, <2>2, RingTypes, SlotsTail
<1>5. CASE Wire(TalkEnd)
  <2>1. /\ sending /\ talk # <<>> /\ talk' = Tail(talk) /\ sending' = FALSE
        /\ ring # <<>> /\ ring[Len(ring)].kind = "part"
        /\ ring[Len(ring)].slot = Head(talk).slot
    BY <1>5 DEF Wire, TalkEnd, Control, Slots
  <2>2. PICK kind \in Kinds : ring' = [ring EXCEPT ![Len(ring)].kind = kind]
    BY <1>5, <2>1 DEF Wire, TalkEnd, Arrive, Kinds
  <2>3. Len(ring) \in 1 .. Len(ring) /\ ring \in Seq(Entries) /\ Len(ring) \in Nat
    BY <2>1, RingTypes, EmptySeq
  <2>4. ring[Len(ring)] \in Entries
    BY <2>3, RingTypes
  <2>5. PICK e \in Entries : /\ e = [ring[Len(ring)] EXCEPT !.kind = kind]
                             /\ e.slot = ring[Len(ring)].slot
    BY <2>4, Rekinded
  <2>6. ring' = [ring EXCEPT ![Len(ring)] = e]
    BY <2>2, <2>5
  <2>7. /\ ring' \in Seq(Entries) /\ Len(ring') = Len(ring) /\ ring'[Len(ring)] = e
        /\ \A i \in 1 .. Len(ring) : i # Len(ring) => ring'[i] = ring[i]
    BY <2>3, <2>6
  <2> QED BY <1>1, <2>1, <2>5, <2>7, SlotsTail
<1> QED BY <1>2, <1>3, <1>4, <1>5 DEF Servos, Wire

LEMMA SlotsStep == ASSUME BusInv, Next PROVE Slots'
<1>1. CASE Tick
  BY <1>1, SlotsKept DEF Tick, evidence, BusInv
<1> QED BY <1>1, SlotsSubmit, SlotsTx, SlotsPoll, SlotsWire DEF Next

-----------------------------------------------------------------------------
(* The window outlives the chain.                                          *)

LEMMA HeadZero ==
    ASSUME NEW t \in Seq(Owing), RunsOk(t)
    PROVE  HeadOk(t, 0)
<1> SUFFICES ASSUME NEW i \in 1 .. Len(t), \A j \in 1 .. i : ~t[j].live
             PROVE  0 + i <= MaxDeadRun
  BY DEF HeadOk
<1>1. Len(t) \in Nat /\ MaxDeadRun \in Nat
  BY Sized, LenProperties
<1>2. CASE i > MaxDeadRun
  <2>1. 1 \in 1 .. Len(t) - MaxDeadRun
    BY <1>1, <1>2
  <2>2. PICK k \in 1 .. 1 + MaxDeadRun : t[k].live
    BY <2>1 DEF RunsOk
  <2>3. k \in 1 .. i
    BY <1>1, <1>2
  <2> QED BY <2>2, <2>3
<1> QED BY <1>1, <1>2

LEMMA RunsTail ==
    ASSUME NEW t \in Seq(Owing), t # <<>>, RunsOk(t)
    PROVE  RunsOk(Tail(t))
<1>1. /\ Len(t) \in Nat \ {0} /\ Len(Tail(t)) = Len(t) - 1
      /\ \A i \in 1 .. Len(t) - 1 : Tail(t)[i] = t[i + 1]
  BY TailIs
<1> SUFFICES ASSUME NEW i \in 1 .. Len(Tail(t)) - MaxDeadRun
             PROVE  \E k \in i .. i + MaxDeadRun : Tail(t)[k].live
  BY DEF RunsOk
<1>2. i + 1 \in 1 .. Len(t) - MaxDeadRun /\ MaxDeadRun \in Nat
  BY <1>1, Sized
<1>3. PICK k \in i + 1 .. i + 1 + MaxDeadRun : t[k].live
  BY <1>2 DEF RunsOk
<1>4. k - 1 \in i .. i + MaxDeadRun /\ k - 1 \in 1 .. Len(t) - 1 /\ k - 1 + 1 = k
  BY <1>1, <1>2
<1>5. Tail(t)[k - 1] = t[k]
  BY <1>1, <1>4
<1> QED BY <1>3, <1>4, <1>5

(* A dead slot is skipped.                                                 *)
LEMMA HeadTail ==
    ASSUME NEW t \in Seq(Owing), t # <<>>, ~t[1].live, NEW k \in Nat, HeadOk(t, k)
    PROVE  k + 1 <= MaxDeadRun /\ HeadOk(Tail(t), k + 1)
<1>1. /\ Len(t) \in Nat \ {0} /\ Len(Tail(t)) = Len(t) - 1 /\ 1 \in 1 .. Len(t)
      /\ \A i \in 1 .. Len(t) - 1 : Tail(t)[i] = t[i + 1]
  BY TailIs
<1>2. k + 1 <= MaxDeadRun
  <2>1. \A j \in 1 .. 1 : ~t[j].live
    <3>1. \A j \in 1 .. 1 : j = 1
      OBVIOUS
    <3> QED BY <3>1
  <2> QED BY <1>1, <2>1 DEF HeadOk
<1>3. ASSUME NEW i \in 1 .. Len(Tail(t)), \A j \in 1 .. i : ~Tail(t)[j].live
      PROVE  k + 1 + i <= MaxDeadRun
  <2>1. i + 1 \in 1 .. Len(t)
    BY <1>1
  <2>2. \A j \in 1 .. i + 1 : ~t[j].live
    <3> TAKE j \in 1 .. i + 1
    <3>1. CASE j = 1
      BY <3>1
    <3>2. CASE j # 1
      <4>1. j - 1 \in 1 .. i /\ j - 1 \in 1 .. Len(t) - 1 /\ j - 1 + 1 = j
        BY <1>1, <2>1, <3>2
      <4>2. Tail(t)[j - 1] = t[j]
        BY <1>1, <4>1
      <4> QED BY <1>3, <4>1, <4>2
    <3> QED BY <3>1, <3>2
  <2>3. k + (i + 1) <= MaxDeadRun
    BY <2>1, <2>2 DEF HeadOk
  <2> QED BY <2>1, <2>3, <1>1, Sized
<1> QED BY <1>2, <1>3 DEF HeadOk

LEMMA WaitsElsewhere ==
    ASSUME BusInv, state' # "Awaiting", talk = <<>>, UNCHANGED <<talk, quiet>>
    PROVE  Waits'
BY DEF BusInv, Waits, RunsOk

LEMMA WaitsKept ==
    ASSUME Waits, UNCHANGED <<state, deadline_at, plan, settings, talk, quiet, sending, fresh>>
    PROVE  Waits'
BY DEF Waits, settings, MaxQuiet, Covered, window_for, LeadOf, byte_ticks

LEMMA WindowKept ==
    ASSUME UNCHANGED <<plan, rate, response_deadline>>
    PROVE  window_for' = window_for /\ LeadOf' = LeadOf /\ byte_ticks' = byte_ticks
BY DEF window_for, LeadOf, byte_ticks

LEMMA NoLess ==
    ASSUME NEW w \in Nat, NEW q \in Nat, NEW z \in Int, z = 0
    PROVE  w + q >= w /\ w + q + z >= w
OBVIOUS

(* A window opened or pushed out covers every answer that is owed.         *)
LEMMA Reopened ==
    ASSUME UNCHANGED <<plan, rate, response_deadline>>, window_for \in 1 .. Reach,
           deadline_at' = window_for, talk' \in Seq(Owing), RunsOk(talk'), quiet' \in Nat,
           talk' # <<>> => quiet' <= MaxQuiet'
    PROVE  Waits'
<1>1. window_for' = window_for
  BY WindowKept
<1>2. Covered'
  <2>1. 0 \in 0 .. MaxDeadRun /\ 0 * FleetRD = 0 /\ 0 * FleetRD \in Int
    BY Sized
  <2>2. HeadOk(talk', 0)
    BY HeadZero
  <2>3. window_for + quiet' >= window_for /\ window_for + quiet' + 0 * FleetRD >= window_for
    <3>1. PICK w \in Nat : w = window_for
      BY Sized
    <3>2. PICK q \in Nat : q = quiet'
      OBVIOUS
    <3>3. w + q >= w /\ w + q + 0 * FleetRD >= w
      BY <2>1, NoLess
    <3> QED BY <3>1, <3>2, <3>3
  <2> QED BY <1>1, <2>1, <2>2, <2>3 DEF Covered
<1> QED BY <1>1, <1>2, Sized DEF Waits, Owing

LEMMA WaitsTx == ASSUME BusInv, on_tx_complete \/ on_deadline PROVE Waits'
<1> USE DEF BusInv
<1>1. CASE state = "Transmitting" /\ TxAwait
  <2>1. PICK s \in Answers : talk' = TalkOf(s)
    BY <1>1 DEF TxAwait, TalkOf
  <2>2. /\ plan.replies # "None" /\ deadline_at' = window_for /\ quiet' = 0 /\ sending' = sending
        /\ UNCHANGED <<plan, rate, response_deadline>>
    BY <1>1 DEF TxAwait, arm, on_tx_complete, on_deadline, settings
  <2>3. talk' \in Seq(Owing) /\ RunsOk(talk')
    BY <1>1, <2>1, <2>2, TalkIs
  <2>4. window_for \in 1 .. Reach /\ LeadOf \in Nat
    BY <1>1, <2>2, WindowIs
  <2>5. 0 <= MaxQuiet'
    <3>1. sending' = FALSE
      BY <1>1, <2>2 DEF Control, TypeOK
    <3>2. LeadOf' = LeadOf
      BY <2>2, WindowKept
    <3> QED BY <2>4, <3>1, <3>2, Sized DEF MaxQuiet
  <2> QED BY <2>2, <2>3, <2>4, <2>5, Reopened
<1>2. CASE ~(state = "Transmitting" /\ TxAwait)
  <2>1. /\ state \in {"WireTx", "Transmitting", "Training", "WireTrain"}
        /\ state' \in {"Idle", "WireTx", "WireTrain", "Training"} /\ UNCHANGED <<talk, quiet>>
    <3>1. CASE on_deadline
      BY <3>1 DEF on_deadline, servos, finish, wire_finish
    <3>2. CASE state = "WireTx" /\ wire_advance
      BY <3>2 DEF wire_advance, wire_finish, servos
    <3>3. CASE state = "Transmitting" /\ (TxTrain \/ TxSilent)
      BY <3>3 DEF TxTrain, TxSilent, servos, finish
    <3> QED BY <1>2, <3>1, <3>2, <3>3 DEF on_tx_complete
  <2>2. talk = <<>>
    BY <2>1 DEF Control
  <2> QED BY <2>1, <2>2, WaitsElsewhere
<1> QED BY <1>1, <1>2

LEMMA WaitsSubmit == ASSUME BusInv, Submit PROVE Waits'
<1> USE DEF BusInv
<1>1. /\ Ready /\ UNCHANGED <<talk, quiet>>
      /\ state' \in {"Idle", "Pacing", "Transmitting", "RescueHold", "WirePulse", "WireTx"}
  BY DEF Submit, SubmitExchange, SubmitDeadline, SubmitBaud, SubmitRescue, Hold, wire_send,
         wire_burst, wire_train, wire_baud, wire_pulse_low, WireStart, Ready, servos, finish,
         start_tx
<1>2. talk = <<>>
  BY <1>1 DEF Ready, Control
<1> QED BY <1>1, <1>2, WaitsElsewhere

LEMMA WaitsPoll == ASSUME BusInv, poll PROVE Waits'
<1> USE DEF BusInv
<1>1. CASE PollDone \/ PollWireDone
  BY <1>1, WaitsKept DEF PollDone, PollWireDone, evidence, servos
<1>2. CASE PollPacing \/ PollRescue \/ PollPulse
  <2>1. /\ state \in {"Pacing", "RescueHold", "WirePulse"} /\ UNCHANGED <<talk, quiet>>
        /\ state' \in {"Idle", "Transmitting"}
    BY <1>2 DEF PollPacing, PollRescue, PollPulse, Polling, start_tx, servos
  <2>2. talk = <<>>
    BY <2>1 DEF Control
  <2> QED BY <2>1, <2>2, WaitsElsewhere
<1>3. CASE (PollStatus /\ Last) \/ PollTimeout
  <2>1. state' = "Idle" /\ UNCHANGED <<talk, quiet>>
    BY <1>3 DEF PollStatus, PollTimeout, finish, servos
  <2> QED BY <1>3, <2>1, ClosesLate, WaitsElsewhere
<1>4. CASE (PollStatus /\ ~Last) \/ PollProgress
  <2>1. /\ state = "Awaiting" /\ deadline_at' = window_for
        /\ UNCHANGED <<state, plan, rate, response_deadline, talk, quiet, sending>>
    BY <1>4 DEF PollStatus, PollProgress, Polling, arm, settings, servos
  <2>2. window_for \in 1 .. Reach
    BY <2>1, WindowIs
  <2>3. talk' # <<>> => quiet' <= MaxQuiet'
    BY <2>1, WindowKept DEF Waits, MaxQuiet
  <2>4. talk' \in Seq(Owing) /\ RunsOk(talk') /\ quiet' \in Nat
    BY <2>1 DEF Waits, Owing
  <2> QED BY <2>1, <2>2, <2>3, <2>4, Reopened
<1> QED BY <1>1, <1>2, <1>3, <1>4 DEF poll

LEMMA WaitsWire == ASSUME BusInv, Servos \/ Wire(Noise) PROVE Waits'
<1> USE DEF BusInv
<1>1. UNCHANGED <<state, deadline_at, plan, rate, response_deadline>>
  BY DEF Servos, Wire, settings
<1>2. window_for' = window_for /\ LeadOf' = LeadOf /\ byte_ticks' = byte_ticks
  BY <1>1, WindowKept
<1>3. talk \in Seq(Owing) /\ RunsOk(talk) /\ quiet \in Nat
  BY DEF Waits, Owing
<1>4. state' = "Awaiting" =>
        deadline_at' \in 0 .. window_for' \cup TickMod - PollLag .. TickMod - 1
  BY <1>1, <1>2 DEF Waits
<1>5. ASSUME talk # <<>>
      PROVE  /\ state = "Awaiting" /\ LeadOf \in Nat /\ plan.bytes * byte_ticks \in Nat
             /\ FleetRD \in Nat
  BY <1>5, WindowIs, Sized DEF Control
<1>6. CASE Wire(TalkStart) \/ Wire(TalkEnd)
  <2>1. /\ talk # <<>> /\ quiet' = 0 /\ (talk' = talk \/ talk' = Tail(talk))
        /\ fresh' = (fresh \/ Own)
    BY <1>6 DEF Wire, TalkStart, TalkEnd, Arrive, Control
  <2>2. fresh'
    BY <1>5, <2>1 DEF Own
  <2>3. talk' \in Seq(Owing) /\ RunsOk(talk')
    BY <1>3, <2>1, TailIs, RunsTail
  <2>4. 0 <= MaxQuiet'
    BY <1>1, <1>2, <1>5, <2>1 DEF MaxQuiet
  <2> QED BY <1>4, <2>1, <2>2, <2>3, <2>4 DEF Waits, Owing
<1>7. CASE Wire(TalkSkip)
  <2>1. /\ talk # <<>> /\ quiet = FleetRD /\ quiet' = 0 /\ talk' = Tail(talk)
        /\ ~Head(talk).live /\ UNCHANGED <<sending, fresh>>
    BY <1>7 DEF Wire, TalkSkip
  <2>2. ~sending
    BY <2>1 DEF Control
  <2>3. talk' \in Seq(Owing) /\ RunsOk(talk')
    BY <1>3, <2>1, TailIs, RunsTail
  <2>4. 0 <= MaxQuiet'
    BY <1>1, <1>2, <1>5, <2>1 DEF MaxQuiet
  <2>5. ASSUME ~fresh' PROVE deadline_at' \in 1 .. window_for' /\ Covered'
    <3>1. deadline_at \in 1 .. window_for /\ Covered
      BY <2>1, <2>5 DEF Waits
    <3>2. PICK k \in 0 .. MaxDeadRun :
            HeadOk(talk, k) /\ deadline_at + quiet + k * FleetRD >= window_for
      BY <2>2, <3>1 DEF Covered
    <3>3. k + 1 <= MaxDeadRun /\ HeadOk(talk', k + 1) /\ k \in Nat
      <4>1. ~talk[1].live /\ k \in Nat
        BY <1>3, <2>1, <3>2, TailIs, Sized
      <4> QED BY <1>3, <2>1, <3>2, <4>1, HeadTail
    <3>4. deadline_at + 0 + (k + 1) * FleetRD >= window_for
      <4>1. (k + 1) * FleetRD = k * FleetRD + FleetRD /\ k * FleetRD \in Nat
        BY <3>3, Sized, NonZero
      <4>2. FleetRD \in Nat /\ deadline_at \in Int /\ window_for \in Int
        BY <2>1, <3>1, <1>5, WindowIs, Sized
      <4>3. deadline_at + FleetRD + k * FleetRD >= window_for
        BY <2>1, <3>2
      <4> QED BY <4>1, <4>2, <4>3
    <3>5. k + 1 \in 0 .. MaxDeadRun
      BY <3>3, Sized
    <3> QED BY <1>1, <1>2, <2>1, <2>2, <3>1, <3>3, <3>4, <3>5 DEF Covered
  <2> QED BY <1>4, <2>1, <2>3, <2>4, <2>5 DEF Waits, Owing
<1>8. CASE Wire(Noise)
  <2>1. UNCHANGED <<talk, quiet, sending>> /\ fresh' = (fresh \/ Own)
    BY <1>8 DEF Wire, Noise, Arrive
  <2>2. ASSUME talk' # <<>> PROVE fresh'
    BY <1>5, <2>1, <2>2 DEF Own
  <2>3. talk' # <<>> => quiet' <= MaxQuiet'
    BY <1>1, <1>2, <2>1 DEF Waits, MaxQuiet
  <2> QED BY <1>3, <1>4, <2>1, <2>2, <2>3 DEF Waits, Owing
<1> QED BY <1>6, <1>7, <1>8 DEF Servos, Wire

(* While a servo owes an answer, time runs out for the slot before it does *)
(* for the window.                                                         *)
LEMMA StillCovered ==
    ASSUME BusInv, Tick, talk # <<>>, ~fresh
    PROVE  /\ deadline_at - 1 \in 1 .. window_for
           /\ sending => deadline_at - 1 + (quiet + 1) >= window_for
           /\ ~sending => \E k \in 0 .. MaxDeadRun :
                HeadOk(talk, k) /\ deadline_at - 1 + (quiet + 1) + k * FleetRD >= window_for
<1> USE DEF BusInv
<1>1. state = "Awaiting" /\ ~claimed
  BY DEF Control, Driving
<1>2. /\ window_for \in Nat /\ LeadOf \in Nat /\ plan.bytes * byte_ticks \in Nat
      /\ plan.bytes * byte_ticks < window_for /\ MaxDeadRun * FleetRD + LeadOf < window_for
      /\ FleetRD \in Nat /\ MaxDeadRun \in Nat /\ MaxDeadRun * FleetRD \in Nat
  BY <1>1, WindowIs, Sized, NonZero
<1>3. deadline_at \in 1 .. window_for /\ Covered /\ quiet \in Nat
  BY DEF Waits
<1>4. CASE sending
  <2>1. deadline_at + quiet >= window_for /\ ~(quiet >= plan.bytes * byte_ticks)
    BY <1>3, <1>4 DEF Covered, Tick, Overdue
  <2> QED BY <1>2, <1>3, <1>4, <2>1
<1>5. CASE ~sending
  <2>1. PICK k \in 0 .. MaxDeadRun :
          HeadOk(talk, k) /\ deadline_at + quiet + k * FleetRD >= window_for
    BY <1>3, <1>5 DEF Covered
  <2>2. ~(quiet >= (IF Head(talk).live THEN LeadOf ELSE FleetRD))
    BY <1>1, <1>5 DEF Tick, Overdue
  <2>3. k * FleetRD \in Nat /\ k \in Nat
    BY <1>2, <2>1, NonZero
  <2>4. quiet + 1 + k * FleetRD < window_for
    <3>1. CASE Head(talk).live
      <4>1. k * FleetRD <= MaxDeadRun * FleetRD
        BY <1>2, <2>1, <2>3, Bigger
      <4>2. quiet + 1 <= LeadOf
        BY <1>2, <1>3, <2>2, <3>1
      <4> QED BY <1>2, <1>3, <2>3, <4>1, <4>2
    <3>2. CASE ~Head(talk).live
      <4>1. talk \in Seq(Owing) /\ ~talk[1].live
        BY <3>2, TailIs DEF Waits, Owing
      <4>2. k + 1 <= MaxDeadRun
        BY <2>1, <2>3, <4>1, HeadTail
      <4>3. (k + 1) * FleetRD <= MaxDeadRun * FleetRD
        BY <1>2, <2>3, <4>2, Bigger
      <4>4. (k + 1) * FleetRD = k * FleetRD + FleetRD
        BY <1>2, <2>3
      <4>5. quiet + 1 <= FleetRD
        BY <1>2, <1>3, <2>2, <3>2
      <4> QED BY <1>2, <1>3, <2>3, <4>3, <4>4, <4>5
    <3> QED BY <3>1, <3>2
  <2>5. /\ deadline_at - 1 \in 1 .. window_for
        /\ deadline_at - 1 + (quiet + 1) + k * FleetRD >= window_for
    <3>1. deadline_at + quiet + k * FleetRD >= window_for
      BY <2>1
    <3> QED BY <1>2, <1>3, <2>3, <2>4, <3>1
  <2> QED BY <1>5, <2>1, <2>5
<1> QED BY <1>4, <1>5

LEMMA WaitsTick == ASSUME BusInv, Tick PROVE Waits'
<1> USE DEF BusInv
<1>1. /\ UNCHANGED <<state, plan, rate, response_deadline, talk, sending, fresh>>
      /\ quiet' = (IF talk = <<>> THEN 0 ELSE quiet + 1)
      /\ state = "Awaiting" => deadline_at' = Before(deadline_at)
  BY DEF Tick, settings, evidence, Timed
<1>2. window_for' = window_for /\ LeadOf' = LeadOf /\ byte_ticks' = byte_ticks
  BY <1>1, WindowKept
<1>3. talk' \in Seq(Owing) /\ RunsOk(talk') /\ quiet' \in Nat
  BY <1>1 DEF Waits, Owing
<1>4. ASSUME state = "Awaiting"
      PROVE  deadline_at' \in 0 .. window_for \cup TickMod - PollLag .. TickMod - 1
  <2>1. window_for \in 1 .. Reach
    BY <1>4, WindowIs
  <2>2. ~(tick_reached(deadline_at) /\ (-deadline_at) % TickMod >= PollLag)
    BY <1>4 DEF Tick, Overdue, Due, Lateness
  <2>3. deadline_at \in 0 .. window_for \cup TickMod - PollLag .. TickMod - 1
    BY <1>4 DEF Waits
  <2>4. /\ TickMod \in Nat /\ PollLag \in Nat /\ Reach \in Nat /\ PollLag < TickMod - Reach
        /\ window_for \in Nat /\ deadline_at' = Before(deadline_at)
    BY <1>1, <1>4, <2>1, Sized
  <2>5. CASE deadline_at \in 1 .. window_for
    <3>1. deadline_at \in 1 .. Reach
      BY <2>1, <2>4, <2>5
    <3>2. Before(deadline_at) = deadline_at - 1
      BY <3>1, Ahead
    <3> QED BY <2>4, <2>5, <3>2
  <2>6. CASE deadline_at = 0
    <3>1. tick_reached(deadline_at) /\ (-deadline_at) % TickMod = 0 /\ Before(deadline_at) = TickMod - 1
      BY <2>6, AtZero
    <3> QED BY <2>2, <2>4, <3>1
  <2>7. CASE deadline_at \in TickMod - PollLag .. TickMod - 1
    <3>1. PICK d \in 0 .. TickMod - Reach - 1 : deadline_at = TickMod - d
      <4>1. TickMod - deadline_at \in 0 .. TickMod - Reach - 1
            /\ deadline_at = TickMod - (TickMod - deadline_at)
        BY <2>4, <2>7
      <4> QED BY <4>1
    <3>2. /\ tick_reached(deadline_at) /\ (-deadline_at) % TickMod = d
          /\ Before(deadline_at) = TickMod - d - 1
      BY <3>1, Behind
    <3> QED BY <2>2, <2>4, <3>1, <3>2
  <2> QED BY <2>3, <2>4, <2>5, <2>6, <2>7
<1>5. ASSUME talk' # <<>> PROVE quiet' <= MaxQuiet'
  <2>1. state = "Awaiting" /\ ~claimed /\ talk # <<>>
    BY <1>1, <1>5 DEF Control, Driving
  <2>2. LeadOf \in Nat /\ plan.bytes * byte_ticks \in Nat /\ FleetRD \in Nat /\ quiet \in Nat
    BY <2>1, WindowIs, Sized DEF Waits
  <2>3. CASE sending
    <3>1. ~(quiet >= plan.bytes * byte_ticks)
      BY <2>3 DEF Tick, Overdue
    <3>2. quiet + 1 <= plan.bytes * byte_ticks
      BY <2>2, <3>1
    <3> QED BY <1>1, <1>2, <2>1, <2>3, <3>2 DEF MaxQuiet
  <2>4. CASE ~sending
    <3>1. ~(quiet >= (IF Head(talk).live THEN LeadOf ELSE FleetRD))
      BY <2>1, <2>4 DEF Tick, Overdue
    <3>2. quiet + 1 <= (IF Head(talk).live THEN LeadOf ELSE FleetRD)
      BY <2>2, <3>1
    <3> QED BY <1>1, <1>2, <2>1, <2>4, <3>2 DEF MaxQuiet
  <2> QED BY <2>3, <2>4
<1>6. ASSUME talk' # <<>>, ~fresh' PROVE deadline_at' \in 1 .. window_for' /\ Covered'
  <2>1. state = "Awaiting" /\ talk # <<>> /\ ~fresh /\ quiet' = quiet + 1
    BY <1>1, <1>6 DEF Control
  <2>2. deadline_at \in 1 .. window_for /\ window_for \in 1 .. Reach
    BY <2>1, WindowIs DEF Waits
  <2>3. deadline_at' = deadline_at - 1
    <3>1. deadline_at \in 1 .. Reach
      BY <2>2, Sized
    <3> QED BY <1>1, <2>1, <3>1, Ahead
  <2>4. /\ deadline_at - 1 \in 1 .. window_for
        /\ sending => deadline_at - 1 + (quiet + 1) >= window_for
        /\ ~sending => \E k \in 0 .. MaxDeadRun :
             HeadOk(talk, k) /\ deadline_at - 1 + (quiet + 1) + k * FleetRD >= window_for
    BY <2>1, StillCovered
  <2> QED BY <1>1, <1>2, <2>1, <2>3, <2>4 DEF Covered
<1> QED BY <1>1, <1>2, <1>3, <1>4, <1>5, <1>6 DEF Waits, Owing

LEMMA WaitsStep == ASSUME BusInv, Next PROVE Waits'
BY WaitsSubmit, WaitsTx, WaitsPoll, WaitsWire, WaitsTick DEF Next

(* Every step of the engine keeps the invariant and the enforced silence.  *)
LEMMA BusStep == ASSUME BusInv, [Next]_vars PROVE BusInv' /\ (QuietStep \/ UNCHANGED vars)
<1>1. CASE Next
  BY <1>1, ControlStep, GridStep, PacedStep, WaitsStep, SlotsStep, HeardStep DEF BusInv
<1>2. CASE UNCHANGED vars
  <2>1. /\ UNCHANGED <<state, left, gap, ideal, deadline_at, plan, rate, response_deadline,
                       pace_until, calm, got, junk, fresh, pending_done, pending_wire_done>>
        /\ UNCHANGED <<job, claimed, txArmed, ring, talk, quiet, sending, noise, spoke>>
    BY <1>2 DEF vars, trainVars, settings, paceVars, evidence, terminals, drive, servos
  <2>2. Control'
    BY <2>1 DEF BusInv, Control, TypeOK
  <2>3. Grid' /\ Paced'
    BY <2>1, GridKept, PacedKept DEF BusInv, trainVars, paceVars
  <2>4. Waits' /\ Slots' /\ Heard'
    BY <2>1, WaitsKept, SlotsKept, HeardKept DEF BusInv, settings
  <2> QED BY <1>2, <2>2, <2>3, <2>4 DEF BusInv
<1> QED BY <1>1, <1>2

LEMMA BusSafe == ASSUME BusInv PROVE TypeOK /\ NoTalkOver /\ OnGrid /\ SilenceIsTrue
<1>1. NoTalkOver
  BY DEF BusInv, Control, NoTalkOver, Driving
<1>2. OnGrid
  BY DEF BusInv, Grid, OnGrid, Trained
<1> QED BY <1>1, <1>2 DEF BusInv, Control, Heard

(* The bus master under its own callers: it never drives the wire while a  *)
(* servo answers, puts every break of a train on its grid, reports a       *)
(* silent bus only when nothing was heard, and starts no frame before the  *)
(* horizon of silence is over, whatever the plans, the rates, the dead     *)
(* slots and the lateness of interrupts and main loop the timing           *)
(* assumption admits (HostEngine::poll, on_deadline, window_for).          *)
THEOREM EngineDisciplined == Spec => EngineSound
<1>1. Init => BusInv
  BY BusInit
<1>2. BusInv /\ [Next]_vars => BusInv'
  BY BusStep
<1>3. BusInv /\ [Next]_vars => [QuietStep]_vars
  BY BusStep
<1>4. BusInv => TypeOK /\ NoTalkOver /\ OnGrid /\ SilenceIsTrue
  BY BusSafe
<1> QED BY <1>1, <1>2, <1>3, <1>4, PTL DEF Spec, EngineSound

-----------------------------------------------------------------------------
(* Every record the server hands to the engine is one of its commands.     *)
LEMMA RunSubmits == ASSUME NEW o \in Ops, o.verb # "malformed", Run(o) PROVE Submit
<1>1. CASE o.verb = "exchange"
  <2>1. o.arg \in Plans /\ SubmitExchange(o.arg)
    BY <1>1, ServerAssumption DEF Run
  <2> QED BY <2>1 DEF Submit
<1>2. CASE o.verb = "deadline"
  <2>1. o.arg \in Deadlines /\ SubmitDeadline(o.arg)
    BY <1>2, ServerAssumption DEF Run
  <2> QED BY <2>1 DEF Submit
<1>3. CASE o.verb = "hostbaud"
  <2>1. o.arg \in Rates /\ SubmitBaud(o.arg)
    BY <1>3, ServerAssumption DEF Run
  <2> QED BY <2>1 DEF Submit
<1>4. CASE o.verb \in {"rescue", "send"}
  <2>1. SubmitRescue \/ wire_send
    BY <1>4 DEF Run
  <2> QED BY <2>1 DEF Submit
<1>5. CASE o.verb = "burst"
  <2>1. o.arg \in Bursts /\ wire_burst(o.arg)
    BY <1>5, ServerAssumption DEF Run
  <2> QED BY <2>1 DEF Submit
<1>6. CASE o.verb = "train"
  <2>1. o.arg \in Trains /\ wire_train(o.arg)
    BY <1>6, ServerAssumption DEF Run
  <2> QED BY <2>1 DEF Submit
<1>7. CASE o.verb = "baud"
  <2>1. o.arg \in WireRates /\ wire_baud(o.arg)
    BY <1>7, ServerAssumption DEF Run
  <2> QED BY <2>1 DEF Submit
<1>8. CASE o.verb = "pulse"
  <2>1. o.arg \in Pulses /\ wire_pulse_low(o.arg)
    BY <1>8, ServerAssumption DEF Run
  <2> QED BY <2>1 DEF Submit
<1> QED BY <1>1, <1>2, <1>3, <1>4, <1>5, <1>6, <1>7, <1>8, ServerAssumption

LEMMA ServerDrivesEngine == ASSUME IInv, [ServerNext]_allVars PROVE [Next]_vars
<1>1. CASE HandleOp
  <2>1. CASE Ready /\ Head(chunk).op.verb # "malformed"
    <3>1. Head(chunk).op \in Ops
      <4>1. Head(chunk) \in Records /\ Head(chunk).type = "op"
        BY <1>1, HeadTailProperties DEF IInv, ServerTypeOK, ServingInv, HandleOp, Records
      <4> QED BY <4>1, RecordTypes
    <3>2. Run(Head(chunk).op)
      BY <1>1, <2>1 DEF HandleOp
    <3> QED BY <2>1, <3>1, <3>2, RunSubmits DEF Next
  <2>2. CASE ~(Ready /\ Head(chunk).op.verb # "malformed")
    BY <1>1, <2>2 DEF HandleOp
  <2> QED BY <2>1, <2>2
<1>2. CASE ClientSends \/ on_pipe \/ HandleRails \/ HandleBoot \/ take_adapter_request
  BY <1>2 DEF ClientSends, on_pipe, HandleRails, HandleBoot, take_adapter_request
<1>3. CASE Outside(pump)
  <2>1. poll
    BY <1>3 DEF Outside, pump, poll
  <2> QED BY <2>1 DEF Next
<1>4. CASE EngineStep \/ Engine(Servos) \/ Engine(Wire(Noise)) \/ Engine(Tick)
  BY <1>4 DEF EngineStep, Engine, Outside, Next
<1>5. CASE UNCHANGED allVars
  BY <1>5 DEF allVars
<1> QED BY <1>1, <1>2, <1>3, <1>4, <1>5 DEF ServerNext, Handle

(* The composition: the bus master keeps its discipline under the link     *)
(* server too, with records pipelined, refused and interleaved with its    *)
(* interrupts (LinkServer::on_record, pump over HostEngine).               *)
THEOREM ServerDisciplined == ServerSpec => EngineSound
<1>1. ServerInit => BusInv
  BY BusInit DEF ServerInit
<1>2. IInv /\ BusInv /\ [ServerNext]_allVars => BusInv' /\ [QuietStep]_vars
  <2> SUFFICES ASSUME IInv, BusInv, [ServerNext]_allVars PROVE BusInv' /\ [QuietStep]_vars
    OBVIOUS
  <2>1. [Next]_vars
    BY ServerDrivesEngine
  <2> QED BY <2>1, BusStep
<1>3. BusInv => TypeOK /\ NoTalkOver /\ OnGrid /\ SilenceIsTrue
  BY BusSafe
<1> QED BY <1>1, <1>2, <1>3, Invariance, PTL DEF ServerSpec, EngineSound

=============================================================================
