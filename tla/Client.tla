------------------------------- MODULE Client -------------------------------
(***************************************************************************)
(* The async client (src/client/src/client.rs, session.rs, cyclic.rs,      *)
(* mgmt.rs, blocking.rs): one call at a time, a program of exchanges, each *)
(* a request on the pipe and a wait for the record that answers it, under  *)
(* a guard that gives up on a silent pipe.  A record travels as two        *)
(* pieces, because the carrier's chunks do not respect record boundaries.  *)
(* Each request has a number `n`, the identity that the code cannot see;   *)
(* each record the adapter produces carries the number of the request that *)
(* caused it.                                                              *)
(*                                                                         *)
(* The adapter is its contract (LinkContract): answers to rails, drain and *)
(* reset at once, one terminal per accepted submit, busy to a second one.  *)
(***************************************************************************)
EXTENDS Naturals, Sequences, SequencesExt, FiniteSets

CONSTANTS
  SeqSpace,      \* sequence numbers below SEQ_NONE
  MaxCalls,      \* bound: no call starts after this many requests
  MaxStatuses,   \* bound: statuses of one submit
  StatusKinds,   \* the statuses servos send: [result, own], "short" an ok
                 \* whose payload is short of a PING's
  Groups,        \* gwrite groups of the hot-loop cycle
  Listed,        \* servos a sweep or a calibration lists
  Trains,        \* CAL trains of a calibration
  Breach,        \* whether the adapter may send one undecodable record
  Reopens,       \* whether the application reopens the device
  Kinds          \* the calls the application makes

ClientAssumption ==
  /\ SeqSpace \in Nat \ {0, 1}
  /\ MaxCalls \in Nat
  /\ MaxStatuses \in Nat
  /\ StatusKinds \subseteq [result : {"ok", "short", "refused", "reserved"}, own : BOOLEAN]
  /\ Groups \in Nat \ {0} /\ Listed \in Nat \ {0} /\ Trains \in Nat \ {0}
  /\ Breach \in BOOLEAN
  /\ Reopens \in BOOLEAN

VARIABLES
  call,    \* the call in progress, or Idle
  next,    \* Session::next_seq
  rx,      \* Session::rx, in pieces
  down,    \* the pipe towards the adapter
  up,      \* the pipe from the adapter, in pieces
  act,     \* the submit or wire op the adapter is playing
  sent,    \* how many requests were ever sent
  bad,     \* whether the adapter's breach has been spent
  last     \* the outcome of the last call

vars == <<call, next, rx, down, up, act, sent, bad, last>>

Idle == [kind |-> "idle"]
Nobody == [n |-> 0]
Booted == [n |-> 0, booted |-> TRUE]
Seqless == {"rails", "drain", "reset", "boot", "hello"}

(* The record that answers a request without a sequence number.            *)
AckOf(kind) == CASE kind = "rails" -> "rails_ack" [] kind = "drain" -> "edges"
                 [] kind = "reset" -> "capture_ack" [] kind = "hello" -> "info"
                 [] kind = "boot"  -> "boot_ack"

(* How a call ended; `got` are the statuses of its last exchange, `cut`
   whether that timed out, `roster` what it reports of each listed servo.  *)
Outcome(c, res) ==
  [kind |-> c.kind, res |-> res, n |-> c.n, from |-> c.from, got |-> c.got,
   cut |-> c.cut, roster |-> c.roster]

(* A call with nothing sent yet.                                           *)
Fresh(kind) == [kind |-> kind, op |-> "none", seq |-> SeqSpace, n |-> 0, from |-> {},
                got |-> <<>>, cut |-> FALSE, roster |-> <<>>, left |-> <<>>]

Init ==
  /\ call = Idle /\ next = 0 /\ rx = <<>> /\ down = <<>> /\ up = <<>>
  /\ act = Nobody /\ sent = 0 /\ bad = FALSE
  /\ last = Outcome(Fresh("none"), "none")

(* alloc_seq: the counter skips SEQ_NONE.                                  *)
alloc_seq(s) == IF s + 1 = SeqSpace THEN 0 ELSE s + 1

(* next_record: a whole record at the head that decodes; one that does not
   stays at the head and fails every later call.                           *)
Decodes(pieces) == Len(pieces) >= 2 /\ pieces[1].type # "garbage"

(* frame + Pipe::send, and the adapter's framing of a record.              *)
Pieces(rec) == <<rec, rec>>

(***************************************************************************)
(* The calls                                                               *)
(***************************************************************************)
(* One exchange of a call: the request, how its reply is digested, whether
   a timeout is an answer (`soft`) and noted in the roster (`lists`), and
   whether its payload can be built.                                       *)
Op(req, digest) ==
  [req |-> req, digest |-> digest, soft |-> FALSE, lists |-> FALSE, fits |-> TRUE]

Unanswered == Op("submit", "none")
Sole  == Op("submit", "sole")
Ping  == Op("submit", "ping")
Chain == Op("submit", "chain")
MgmtOp == Op("submit", "from")
WireOp == Op("wire", "none")

Misfit(op) == [op EXCEPT !.fits = FALSE]

(* ping_sweep, and the readback of one train.                              *)
Sweep    == [i \in 1..Listed |-> [Ping EXCEPT !.soft = TRUE, !.lists = TRUE]]
Readback == [i \in 1..Listed |-> [Sole EXCEPT !.lists = TRUE]]

RescueSweep == <<Unanswered>> \o Sweep

(* cal, and cal_verify: after every train each listed servo is read.       *)
Cal == [t \in 1..Trains |-> Unanswered]

CalVerify == FlattenSeq([t \in 1..Trains |-> <<Cal[t]>> \o Readback])

(* Cycle::step: a held group write per group, each width checked when its
   group's turn comes, then COMMIT, then the telemetry read.               *)
CycleStep(widths) ==
  [g \in 1..Groups |-> IF widths[g] THEN Unanswered ELSE Misfit(Unanswered)]
     \o <<Unanswered, Chain>>

(* What each call exchanges, one after the other.                          *)
Programs(kind) ==
  CASE kind = "submit" -> {<<Unanswered>>}  \* submit, write_noreply, gwrite, commit, rescue
    [] kind = "read"   -> {<<Sole>>, <<Misfit(Sole)>>}  \* read, read_profile, write, write_hold
    [] kind = "ping"   -> {<<Ping>>}
    [] kind = "gread"  -> {<<Chain>>, <<Misfit(Chain)>>}
    [] kind = "mgmt"   -> {<<MgmtOp>>}  \* save, reboot, factory, assign
    [] kind = "step"   -> {CycleStep(w) : w \in [1..Groups -> BOOLEAN]}
    [] kind = "rescue_sweep" -> {RescueSweep}
    [] kind = "cal"          -> {Cal}
    [] kind = "cal_verify"   -> {CalVerify}
    [] kind = "wire"         -> {<<WireOp>>, <<Misfit(WireOp)>>}
    [] OTHER           -> {<<Op(kind, "none")>>}   \* rails, drain, reset, boot

(* Send the request of one exchange of call c: submit and wire ops take a
   sequence number, the others have none.                                  *)
Send(c, op) ==
  /\ sent' = sent + 1
  /\ LET seq == IF op.req \in Seqless THEN SeqSpace ELSE next
     IN  /\ down' = Append(down, [kind |-> op.req, seq |-> seq, n |-> sent + 1])
         /\ call' = [c EXCEPT !.op = op, !.seq = seq, !.n = sent + 1, !.from = {},
                              !.got = <<>>, !.cut = FALSE]
  /\ next' = IF op.req \in Seqless THEN next ELSE alloc_seq(next)

Return(c, res) ==
  /\ call' = Idle
  /\ last' = Outcome(c, res)

(* The next exchange of a call: a payload that cannot be built (range,
   limit or malformed, as the caller is told) ends it
   without touching the wire, and so does the end of its program.          *)
GoOn(c) ==
  IF c.left # <<>> /\ Head(c.left).fits
  THEN Send([c EXCEPT !.left = Tail(c.left)], Head(c.left)) /\ UNCHANGED last
  ELSE Return(c, IF c.left = <<>> THEN "ok" ELSE "misfit") /\ UNCHANGED <<next, down, sent>>

(* A connect that failed hands out no client to call.                      *)
Connected == call = Idle /\ sent < MaxCalls /\ (last.kind = "hello" => last.res = "ok")

Call(kind) ==
  /\ Connected
  /\ \E prog \in Programs(kind) : GoOn([Fresh(kind) EXCEPT !.left = prog])
  /\ UNCHANGED <<rx, up, act, bad>>

(***************************************************************************)
(* Waiting                                                                 *)
(***************************************************************************)
(* recv_guarded: one chunk of whatever has arrived.                        *)
Recv ==
  /\ call # Idle /\ Len(rx) < 2 /\ up # <<>>
  /\ \E k \in 1..Len(up) :
       /\ rx' = rx \o SubSeq(up, 1, k)
       /\ up' = SubSeq(up, k + 1, Len(up))
  /\ UNCHANGED <<call, next, down, act, sent, bad, last>>

(* recv_guarded's lapse: a pending chunk wins the race, so only a silent
   pipe stalls.                                                            *)
Lapse ==
  /\ call # Idle /\ Len(rx) < 2 /\ up = <<>>
  /\ Return(call, "stalled")
  /\ UNCHANGED <<next, rx, down, up, act, sent, bad>>

(* Variant of Mine that takes a record of any sequence number. *)
MineAny(rec) == TRUE

(* A record that answers the request the call is waiting for, as far as
   the code can tell.                                                      *)
Mine(rec) == rec.seq = call.seq

Taken(rec) == [call EXCEPT !.from = @ \cup {rec.n}]

(* A record that ends the exchange.                                        *)
Ends(rec) ==
  \/ call.op.req = "submit" /\ rec.type = "terminal" /\ Mine(rec)
  \/ call.op.req = "wire" /\ rec.type = "wire_done" /\ Mine(rec)
  \/ call.op.req \in Seqless /\ rec.type = AckOf(call.op.req)

(* sole_ok, ping and expect_ok_from: a timeout, or exactly one status (of
   the servo asked), whose result decides; other digests hand the reply on. *)
Digest(c) ==
  IF c.op.digest \notin {"sole", "ping", "from"} THEN "ok"
  ELSE IF c.cut THEN "timeout"
  ELSE IF Len(c.got) # 1 \/ (c.op.digest = "from" /\ ~c.got[1].own) THEN "desync"
  ELSE CASE c.got[1].result = "ok" -> "ok"
         [] c.got[1].result = "short" -> IF c.op.digest = "ping" THEN "desync" ELSE "ok"
         [] c.got[1].result = "refused" -> "servo"
         [] c.got[1].result = "reserved" -> "desync"

(* An exchange is answered: its digest ends the call or lets it go on.     *)
Answered(c) ==
  LET d == Digest(c)
      on == d = "ok" \/ (d = "timeout" /\ c.op.soft)
      noted == IF c.op.lists
               THEN [c EXCEPT !.roster = Append(@, [alive |-> d = "ok", mine |-> c.from = {c.n}])]
               ELSE c
  IN  IF on THEN GoOn(noted)
      ELSE Return(c, d) /\ UNCHANGED <<next, down, sent>>

(* submit's loop, await_wire_done, rails_op, enter_bootloader, drain_edges,
   reset_capture and connect, on the record at the head of rx.             *)
Take ==
  /\ call # Idle /\ Len(rx) >= 2
  /\ UNCHANGED <<up, act, bad>>
  /\ LET rec == Head(rx)
         streams == call.op.req = "submit" /\ rec.type = "status" /\ Mine(rec)
         rejects == call.op.req \in {"submit", "wire"} /\ rec.type = "rejected" /\ Mine(rec)
     IN  IF ~Decodes(rx)
         THEN Return(call, "malformed") /\ UNCHANGED <<next, rx, down, sent>>
         ELSE /\ rx' = SubSeq(rx, 3, Len(rx))
              /\ \/ /\ streams
                    /\ call' = [Taken(rec) EXCEPT !.got = Append(@, rec.what)]
                    /\ UNCHANGED <<next, down, sent, last>>
                 \/ /\ Ends(rec)
                    /\ Answered([Taken(rec) EXCEPT !.cut = (rec.what = "timeout")])
                 \/ /\ rejects
                    /\ Return(call, "rejected") /\ UNCHANGED <<next, down, sent>>
                 \/ /\ ~streams /\ ~Ends(rec) /\ ~rejects
                    /\ Return(call, "desync") /\ UNCHANGED <<next, down, sent>>

(* Client::connect on a reopened device: a new session (empty buffer, first
   sequence number), and a HELLO.  The adapter keeps what it had queued,
   and the packet it had armed is dropped when the endpoint is configured
   again.                                                                  *)
Reconnect ==
  /\ Reopens /\ call = Idle
  /\ rx' = <<>>
  /\ sent < MaxCalls /\ sent' = sent + 1
  /\ down' = Append(down, [kind |-> "hello", seq |-> SeqSpace, n |-> sent + 1])
  /\ call' = [Fresh("hello") EXCEPT !.op = Op("hello", "none"), !.n = sent + 1]
  /\ next' = 0
  /\ \E k \in 0..Len(up) : up' = SubSeq(up, k + 1, Len(up))
  /\ UNCHANGED <<act, bad, last>>

(***************************************************************************)
(* The adapter, external here                                              *)
(***************************************************************************)
Answer(type, req, what) ==
  Pieces([type |-> type, seq |-> req.seq, n |-> req.n, what |-> what])

Playing == act \notin {Nobody, Booted}

(* The bootloader takes over after its ack and answers nothing any more.   *)
AdapterTakes ==
  /\ down # <<>> /\ act # Booted
  /\ LET req == Head(down)
     IN  /\ down' = Tail(down)
         /\ IF req.kind \in Seqless
            THEN /\ up' = up \o Answer(AckOf(req.kind), req, "done")
                 /\ act' = IF req.kind = "boot" THEN Booted ELSE act
            ELSE IF act # Nobody
            THEN up' = up \o Answer("rejected", req, "done") /\ UNCHANGED act
            ELSE act' = [req |-> req, n |-> req.n, frames |-> 0] /\ UNCHANGED up
  /\ UNCHANGED <<call, next, rx, sent, bad, last>>

AdapterStatus(what) ==
  /\ Playing /\ act.req.kind = "submit" /\ act.frames < MaxStatuses
  /\ act' = [act EXCEPT !.frames = @ + 1]
  /\ up' = up \o Answer("status", act.req, what)
  /\ UNCHANGED <<call, next, rx, down, sent, bad, last>>

AdapterEnds(outcome) ==
  /\ Playing /\ (act.req.kind = "wire" => outcome = "complete")
  /\ act' = Nobody
  /\ up' = up \o Answer(IF act.req.kind = "submit" THEN "terminal" ELSE "wire_done",
                        act.req, outcome)
  /\ UNCHANGED <<call, next, rx, down, sent, bad, last>>

AdapterBreaches ==
  /\ Breach /\ ~bad
  /\ bad' = TRUE
  /\ up' = up \o Answer("garbage", [seq |-> SeqSpace, n |-> 0], "done")
  /\ UNCHANGED <<call, next, rx, down, act, sent, last>>

Next ==
  \/ \E k \in Kinds : Call(k)
  \/ Recv \/ Lapse \/ Take \/ Reconnect
  \/ AdapterTakes
  \/ \E what \in StatusKinds : AdapterStatus(what)
  \/ \E outcome \in {"complete", "timeout"} : AdapterEnds(outcome)
  \/ AdapterBreaches

(* The executor polls the pending call: what has arrived is taken, and the
   guard lapses on a pipe that stays silent.                               *)
Fairness == WF_vars(Recv) /\ WF_vars(Take) /\ WF_vars(Lapse)

Spec == Init /\ [][Next]_vars /\ Fairness

(***************************************************************************)
(* Properties                                                              *)
(***************************************************************************)
(* Type correctness of the session and of the pipe.                        *)
TypeOK ==
  /\ next \in 0..SeqSpace - 1
  /\ sent \in 0..MaxCalls + Groups + 1 + Listed * Trains + Trains
  /\ call.kind \in {"idle", "hello"} \cup Kinds
  /\ call # Idle => call.seq \in 0..SeqSpace /\ call.cut \in BOOLEAN
  /\ \A i \in 1..Len(rx) : rx[i].seq \in 0..SeqSpace
  /\ last.res \in {"none", "ok", "stalled", "desync", "malformed", "rejected", "misfit",
                   "timeout", "servo"}

(* A sequenced call that succeeds was answered by its own request only:
   after stalls, busy rejections and desyncs a late status or terminal of an
   earlier submit never leaks into a later one (Client::submit's guards).
   So a typed call that succeeds has one status, which its own request
   caused (sole_ok), and a sweep's or a calibration's roster names every
   listed servo, each on the word of its own exchange.                     *)
SequencedMine ==
  last.res = "ok" =>
    /\ last.kind \in {"submit", "wire", "ping", "read", "gread", "mgmt", "step"} => last.from = {last.n}
    /\ last.kind \in {"ping", "read", "mgmt"} => Len(last.got) = 1 /\ ~last.cut
    /\ last.kind = "rescue_sweep" => Len(last.roster) = Listed
    /\ last.kind = "cal_verify" => Len(last.roster) = Listed * Trains
    /\ \A i \in 1..Len(last.roster) : last.roster[i].mine

(* A record that does not decode wedges the session loudly: once one is at
   the head of rx no call succeeds until the client reconnects.            *)
WedgedStep ==
  rx # <<>> /\ rx[1].type = "garbage" /\ call # Idle /\ call' = Idle
       => last'.res \in {"malformed", "stalled"}
=============================================================================
