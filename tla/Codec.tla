------------------------------- MODULE Codec -------------------------------
(***************************************************************************)
(* The osc-native codec from end to end (osc-protocol bytes.rs, wire.rs,   *)
(* frame.rs, group.rs, build.rs, reply.rs): a client builds a payload or   *)
(* submits raw bytes, the host derives what answers it will wait for       *)
(* (engine/shape.rs), the frame lands in each servo's ring split at an     *)
(* arbitrary seam, and every servo decodes it (bus/decode.rs).             *)
(*                                                                         *)
(* Bytes of a payload are 0..Base-1 and a u16 is two of them; the ids of   *)
(* the model are scaled the same way.  An Option is a set of at most one   *)
(* element, so the ? operator is a set comprehension.  The checksum is     *)
(* left out: a frame is whole and verified before it is decoded.           *)
(***************************************************************************)
EXTENDS Integers, Sequences, FiniteSets

CONSTANTS
  Base,        \* values of a byte
  MaxUnicast,  \* the largest unicast id (0xF9)
  Broadcast,   \* the broadcast id (0xFE)
  MaxPayload,  \* wire::MAX_PAYLOAD
  UidLen,      \* wire::UID_LEN
  ByteBits,    \* bits of a byte, for the ENUM prefix
  Ids,         \* frame ids a client may put on a frame
  Insts,       \* INST bytes a client may submit
  RawPayloads, \* byte strings submitted as they are
  Wanted,      \* requests handed to the builders
  Servos       \* ids of the servos on the bus

VARIABLES
  stage,    \* "submitted", "refused", "sent", "seen"
  wanted,   \* Option: the request the payload was built from
  id,       \* frame id
  inst,     \* INST byte
  payload,  \* Option: the payload bytes, absent when the builder refused
  shape,    \* what the host derived
  frame,    \* the frame on the wire
  seam,     \* bytes of the frame before the ring seam
  verdict   \* what each servo decoded

codecVars == <<stage, wanted, id, inst, payload, shape, frame, seam, verdict>>

None == {}

Get(o) == CHOOSE x \in o : TRUE

----------------------------------------------------------------------------
(* FrameBytes: a byte string in two segments. *)

View(h, t) == [head |-> h, tail |-> t]

ByteLen(b) == Len(b.head) + Len(b.tail)

Bytes(b) == b.head \o b.tail

U8At(b, i) ==
  IF i < Len(b.head) THEN {b.head[i + 1]}
  ELSE IF i - Len(b.head) < Len(b.tail) THEN {b.tail[i - Len(b.head) + 1]}
  ELSE None

U16At(b, i) == {lo + Base * hi : lo \in U8At(b, i), hi \in U8At(b, i + 1)}

Sub(b, start, len) ==
  LET end == start + len
      h   == Len(b.head)
  IN  IF end > ByteLen(b) THEN None
      ELSE IF start >= h THEN {View(SubSeq(b.tail, start - h + 1, end - h), <<>>)}
      ELSE IF end <= h THEN {View(SubSeq(b.head, start + 1, end), <<>>)}
      ELSE {View(SubSeq(b.head, start + 1, h), SubSeq(b.tail, 1, end - h))}

After(b, n) == IF ByteLen(b) < n THEN None ELSE Sub(b, n, ByteLen(b) - n)

----------------------------------------------------------------------------
(* wire.rs: ids, the packed INST byte, the lengths of a frame. *)

IsUnicast(i) == i \in 1..MaxUnicast

IsValid(i) == IsUnicast(i) \/ i = Broadcast

Addresses(i, own) == i = Broadcast \/ i = own

IsStatus(i) == i >= 128

OpNames == <<"ping", "read", "write", "commit", "gread", "gwrite", "mgmt">>

Opcode(i) ==
  LET bits == (i \div 16) % 8
  IN  IF IsStatus(i) \/ bits = 0 THEN None ELSE {OpNames[bits]}

Hold(i) == i % 2 = 1

Profile(i) == Hold(i)

NoReply(i) == (i \div 4) % 2 = 1

PerTarget(i) == (i \div 8) % 2 = 1

MgmtNames == <<"enum", "assign", "save", "reboot", "factory", "cal">>

LenFor(p) == 3 + p

PayloadLen(len) == len - 3

\* Header::validate: LEN covers INST and CRC, the id addresses, the opcode exists.
Validate(i, len, b) == len >= 3 /\ IsValid(i) /\ (IsStatus(b) \/ Opcode(b) # None)

Footprint(len) == 3 + len

----------------------------------------------------------------------------
(* frame.rs: the payload of a plain request. *)

ReadReq(p) ==
  IF ByteLen(p) # 4 THEN None
  ELSE {[form |-> "read", addr |-> a, count |-> c] : a \in U16At(p, 0), c \in U16At(p, 2)}

ProfileReq(p) ==
  IF ByteLen(p) # 1 THEN None ELSE {[form |-> "profile", slot |-> s] : s \in U8At(p, 0)}

WriteReq(p) ==
  {[form |-> "write", addr |-> a, data |-> Bytes(d)] : a \in U16At(p, 0), d \in After(p, 2)}

Ceil(n) == (n + ByteBits - 1) \div ByteBits

EnumReq(a) ==
  {[form |-> "enum", bits |-> n, prefix |-> Bytes(Get(Sub(a, 1, Ceil(n))))] :
     n \in {m \in U8At(a, 0) : m <= UidLen * ByteBits /\ ByteLen(a) = 1 + Ceil(m)}}

AssignReq(a) ==
  IF ByteLen(a) # UidLen + 1 THEN None
  ELSE {[form |-> "assign", uid |-> Bytes(u), new_id |-> n] :
          u \in Sub(a, 0, UidLen), n \in U8At(a, UidLen)}

CalReq(a) ==
  IF ByteLen(a) # 3 THEN None
  ELSE {r \in {[form |-> "cal", gap |-> g, gaps |-> n] : g \in U16At(a, 0), n \in U8At(a, 2)} :
          r.gap # 0 /\ r.gaps # 0}

MgmtOp(p) == {MgmtNames[b] : b \in {c \in U8At(p, 0) : c \in 1..Len(MgmtNames)}}

MgmtReq(p) == {[op |-> o, args |-> a] : o \in MgmtOp(p), a \in After(p, 1)}

----------------------------------------------------------------------------
(* group.rs: the payload of a group request. *)

GreadUniform(p) ==
  {[form |-> "gread_uniform", addr |-> a, count |-> c, ids |-> Bytes(l)] :
     a \in U16At(p, 0), c \in U16At(p, 2), l \in {m \in After(p, 4) : ByteLen(m) > 0}}

GreadProfileUniform(p) ==
  {[form |-> "gread_profile_uniform", slot |-> s, ids |-> Bytes(l)] :
     s \in U8At(p, 0), l \in {m \in After(p, 1) : ByteLen(m) > 0}}

\* The n-th fixed-size entry of a list.
Entry(p, size, n) == Get(Sub(p, size * (n - 1), size))

GreadPerTarget(p) ==
  IF ByteLen(p) = 0 \/ ByteLen(p) % 5 # 0 THEN None
  ELSE {[form |-> "gread_per_target",
         targets |-> [n \in 1..(ByteLen(p) \div 5) |->
            LET e == Entry(p, 5, n)
            IN  [id |-> Get(U8At(e, 0)), addr |-> Get(U16At(e, 1)),
                 count |-> Get(U16At(e, 3))]]]}

GreadProfilePerTarget(p) ==
  IF ByteLen(p) = 0 \/ ByteLen(p) % 2 # 0 THEN None
  ELSE {[form |-> "gread_profile_per_target",
         targets |-> [n \in 1..(ByteLen(p) \div 2) |->
            LET e == Entry(p, 2, n)
            IN  [id |-> Get(U8At(e, 0)), slot |-> Get(U8At(e, 1))]]]}

(* Variant of GwriteUniform that drops a ragged tail. *)
GwriteUniformRagged(p) ==
  {[form |-> "gwrite_uniform", addr |-> a, count |-> c,
    targets |-> [n \in 1..(ByteLen(l) \div (1 + c)) |->
       LET e == Entry(l, 1 + c, n) IN [id |-> Get(U8At(e, 0)), data |-> Bytes(Get(After(e, 1)))]]] :
     a \in U16At(p, 0), c \in U8At(p, 2) \ {0}, l \in {m \in After(p, 3) : ByteLen(m) > 0}}

GwriteUniform(p) ==
  UNION {{[form |-> "gwrite_uniform", addr |-> a, count |-> c,
           targets |-> [n \in 1..(ByteLen(l) \div (1 + c)) |->
              LET e == Entry(l, 1 + c, n)
              IN  [id |-> Get(U8At(e, 0)), data |-> Bytes(Get(After(e, 1)))]]] :
             l \in {m \in After(p, 3) : ByteLen(m) > 0 /\ ByteLen(m) % (1 + c) = 0}} :
           a \in U16At(p, 0), c \in U8At(p, 2) \ {0}}

\* The entries of a PER_TARGET GWRITE: each one's count sizes its own data.
RECURSIVE Walk(_)
Walk(rest) ==
  IF ByteLen(rest) = 0 THEN {<<>>}
  ELSE UNION {{<<[id |-> Get(U8At(rest, 0)), addr |-> Get(U16At(rest, 1)),
                  data |-> Bytes(Get(Sub(rest, 4, c)))]>> \o more :
                 more \in UNION {Walk(r) : r \in After(rest, 4 + c)}} :
                c \in U8At(rest, 3)}

GwritePerTarget(p) ==
  IF ByteLen(p) = 0 THEN None
  ELSE {[form |-> "gwrite_per_target", targets |-> t] : t \in Walk(p)}

\* slot_of, find: the first position that names the servo.
SlotOf(ids, own) ==
  LET at == {n \in 1..Len(ids) : ids[n] = own}
  IN  {n - 1 : n \in {m \in at : \A k \in at : m <= k}}

TargetIds(targets) == [n \in 1..Len(targets) |-> targets[n].id]

----------------------------------------------------------------------------
(* build.rs: the encode mirror of the parsers, into a buffer of MaxPayload. *)

Le16(n) == <<n % Base, n \div Base>>

Fits(s) == IF Len(s) <= MaxPayload THEN {s} ELSE None

RECURSIVE Concat(_)
Concat(ss) == IF ss = <<>> THEN <<>> ELSE Head(ss) \o Concat(Tail(ss))

\* GwriteUniform::new, push and finish.
BuildGwriteUniform(w) ==
  IF \/ w.count = 0
     \/ w.targets = <<>>
     \/ \E n \in 1..Len(w.targets) : Len(w.targets[n].data) # w.count
  THEN None
  ELSE Fits(Le16(w.addr) \o <<w.count>>
            \o Concat([n \in 1..Len(w.targets) |-> <<w.targets[n].id>> \o w.targets[n].data]))

\* GwritePerTarget::push and finish.
BuildGwritePerTarget(w) ==
  IF w.targets = <<>> THEN None
  ELSE Fits(Concat([n \in 1..Len(w.targets) |->
              <<w.targets[n].id>> \o Le16(w.targets[n].addr)
              \o <<Len(w.targets[n].data)>> \o w.targets[n].data]))

BuildGread(w) ==
  CASE w.form = "gread_uniform" ->
         IF w.ids = <<>> THEN None ELSE Fits(Le16(w.addr) \o Le16(w.count) \o w.ids)
    [] w.form = "gread_profile_uniform" ->
         IF w.ids = <<>> THEN None ELSE Fits(<<w.slot>> \o w.ids)
    [] w.form = "gread_per_target" ->
         IF w.targets = <<>> THEN None
         ELSE Fits(Concat([n \in 1..Len(w.targets) |->
                <<w.targets[n].id>> \o Le16(w.targets[n].addr) \o Le16(w.targets[n].count)]))
    [] w.form = "gread_profile_per_target" ->
         IF w.targets = <<>> THEN None
         ELSE Fits(Concat([n \in 1..Len(w.targets) |->
                <<w.targets[n].id, w.targets[n].slot>>]))

BuildMgmt(w) ==
  CASE w.form = "enum" ->
         IF w.bits > UidLen * ByteBits THEN None
         ELSE Fits(<<1, w.bits>> \o SubSeq(w.prefix, 1, Ceil(w.bits)))
    [] w.form = "assign" -> Fits(<<2>> \o w.uid \o <<w.new_id>>)
    [] w.form = "cal" ->
         IF w.gap = 0 \/ w.gaps = 0 THEN None ELSE Fits(<<6>> \o Le16(w.gap) \o <<w.gaps>>)
    [] w.form = "mgmt" -> Fits(<<CHOOSE b \in 1..6 : MgmtNames[b] = w.op>>)

BuildPlain(w) ==
  CASE w.form = "read" -> Fits(Le16(w.addr) \o Le16(w.count))
    [] w.form = "profile" -> Fits(<<w.slot>>)
    [] w.form = "write" -> Fits(Le16(w.addr) \o w.data)

\* The INST byte a client pairs with each form, and the payload.
InstOf(w) ==
  CASE w.form = "read" -> 32
    [] w.form = "profile" -> 33
    [] w.form = "write" -> 48
    [] w.form = "gread_uniform" -> 80
    [] w.form = "gread_profile_uniform" -> 81
    [] w.form = "gread_per_target" -> 88
    [] w.form = "gread_profile_per_target" -> 89
    [] w.form = "gwrite_uniform" -> 96
    [] w.form = "gwrite_per_target" -> 104
    [] OTHER -> 112

Build(w) ==
  CASE InstOf(w) < 64 -> BuildPlain(w)
    [] InstOf(w) \in 80..89 -> BuildGread(w)
    [] w.form = "gwrite_uniform" -> BuildGwriteUniform(w)
    [] w.form = "gwrite_per_target" -> BuildGwritePerTarget(w)
    [] OTHER -> BuildMgmt(w)

----------------------------------------------------------------------------
(* reply.rs: [0x00][ID][LEN][INST][payload][crc][crc]. *)

FrameBuf(i, b, p) == <<0, i, LenFor(Len(p)), b>> \o p \o <<0, 0>>

----------------------------------------------------------------------------
(* decode.rs: what one servo makes of a frame. *)

Skip == [kind |-> "skip"]

Own(req, may, slot) == [kind |-> "own", req |-> req, may_reply |-> may, slot |-> slot]

\* A parsed request, or Unsupported.
OrUnsupported(o) == IF o = None THEN [form |-> "unsupported"] ELSE Get(o)

MgmtRequest(p, broadcast) ==
  LET m == MgmtReq(p)
  IN  IF m = None THEN [form |-> "unsupported"]
      ELSE CASE Get(m).op = "enum" -> OrUnsupported(EnumReq(Get(m).args))
             [] Get(m).op = "assign" -> OrUnsupported(AssignReq(Get(m).args))
             [] Get(m).op = "cal" ->
                  OrUnsupported(IF broadcast THEN CalReq(Get(m).args) ELSE None)
             [] OTHER -> [form |-> "mgmt", op |-> Get(m).op]

PlainRequest(op, b, p, broadcast) ==
  CASE op \in {"ping", "commit"} -> [form |-> op]
    [] op = "read" -> OrUnsupported(IF Profile(b) THEN ProfileReq(p) ELSE ReadReq(p))
    [] op = "write" -> OrUnsupported(WriteReq(p))
    [] op = "mgmt" -> MgmtRequest(p, broadcast)

Plain(op, b, i, p, own) ==
  LET req == PlainRequest(op, b, p, i = Broadcast)
  IN  IF ~Addresses(i, own) THEN Skip
      ELSE Own(req, ~NoReply(b) /\ (i # Broadcast \/ req.form \in {"enum", "assign"}), 0)

Gread(b, p, own) ==
  LET g == CASE ~Profile(b) /\ ~PerTarget(b) -> GreadUniform(p)
             [] ~Profile(b) /\ PerTarget(b)  -> GreadPerTarget(p)
             [] Profile(b) /\ ~PerTarget(b)  -> GreadProfileUniform(p)
             [] OTHER                        -> GreadProfilePerTarget(p)
      ids == IF PerTarget(b) THEN TargetIds(Get(g).targets) ELSE Get(g).ids
      at(s) == IF PerTarget(b) THEN Get(g).targets[s + 1] ELSE Get(g)
      slots == IF g = None THEN None ELSE SlotOf(ids, own)
  IN  IF slots = None THEN Skip
      ELSE Own(IF Profile(b)
               THEN [form |-> "profile", slot |-> at(Get(slots)).slot]
               ELSE [form |-> "read", addr |-> at(Get(slots)).addr, count |-> at(Get(slots)).count],
               TRUE, Get(slots))

Gwrite(b, p, own) ==
  LET g == IF PerTarget(b) THEN GwritePerTarget(p) ELSE GwriteUniform(p)
      slots == IF g = None THEN None ELSE SlotOf(TargetIds(Get(g).targets), own)
      e == Get(g).targets[Get(slots) + 1]
  IN  IF slots = None THEN Skip
      ELSE Own([form |-> "write", addr |-> (IF PerTarget(b) THEN e.addr ELSE Get(g).addr),
                data |-> e.data], FALSE, 0)

Decode(f, own) ==
  LET b == Get(U8At(f, 3))
      p == Sub(f, 4, PayloadLen(Get(U8At(f, 2))))
      op == Opcode(b)
  IN  IF ~Validate(Get(U8At(f, 1)), Get(U8At(f, 2)), b) THEN Skip
      ELSE IF IsStatus(b) THEN [kind |-> "status"]
      ELSE IF op = None \/ p = None THEN Skip
      ELSE CASE Get(op) = "gread" -> Gread(b, Get(p), own)
             [] Get(op) = "gwrite" -> Gwrite(b, Get(p), own)
             [] OTHER -> Plain(Get(op), b, Get(U8At(f, 1)), Get(p), own)

----------------------------------------------------------------------------
(* shape.rs: what the host expects before anything touches the wire. *)

AckReply == Footprint(LenFor(0))

Least(a, b) == IF a < b THEN a ELSE b

ReadReply(count) == Footprint(LenFor(Least(count, MaxPayload)))

Refused(why) == [ok |-> FALSE, why |-> why]

Shape(replies, n, foot) == [ok |-> TRUE, replies |-> replies, slots |-> n, footprint |-> foot]

PlainShape(i, foot) == Shape(IF i = Broadcast THEN "none" ELSE "single", 0, foot)

GreadShape(b, p) ==
  LET g == CASE ~Profile(b) /\ ~PerTarget(b) -> GreadUniform(p)
             [] ~Profile(b) /\ PerTarget(b)  -> GreadPerTarget(p)
             [] Profile(b) /\ ~PerTarget(b)  -> GreadProfileUniform(p)
             [] OTHER                        -> GreadProfilePerTarget(p)
      counts == {Get(g).targets[n].count : n \in 1..Len(Get(g).targets)}
  IN  IF g = None THEN Refused("payload")
      ELSE CASE Profile(b) /\ PerTarget(b) ->
                  Shape("chain", Len(Get(g).targets), ReadReply(MaxPayload))
             [] Profile(b) /\ ~PerTarget(b) ->
                  Shape("chain", Len(Get(g).ids), ReadReply(MaxPayload))
             [] ~Profile(b) /\ PerTarget(b) ->
                  Shape("chain", Len(Get(g).targets),
                        ReadReply(CHOOSE c \in counts : \A d \in counts : d <= c))
             [] OTHER -> Shape("chain", Len(Get(g).ids), ReadReply(Get(g).count))

MgmtShape(i, p) ==
  LET m == MgmtReq(p)
      args == Get(m).args
  IN  IF m = None THEN Refused("payload")
      ELSE CASE Get(m).op = "enum" ->
                  IF EnumReq(args) = None THEN Refused("payload")
                  ELSE Shape(IF i = Broadcast THEN "collect" ELSE "single", 0,
                             Footprint(LenFor(UidLen)))
             [] Get(m).op = "assign" ->
                  IF AssignReq(args) = None THEN Refused("payload")
                  ELSE Shape("single", 0, AckReply)
             [] Get(m).op = "cal" ->
                  IF CalReq(args) = None \/ i # Broadcast THEN Refused("payload")
                  ELSE Shape("none", 0, 0)
             [] Get(m).op \in {"save", "factory"} ->
                  IF ByteLen(args) # 0 THEN Refused("payload") ELSE PlainShape(i, AckReply)
             [] OTHER -> PlainShape(i, AckReply)

\* The match of Shape::derive on the opcode.
OpShape(op, i, b, s) ==
  LET p == View(s, <<>>)
      r == ReadReq(p)
  IN  CASE op \in {"ping", "commit"} ->
             IF s # <<>> THEN Refused("payload")
             ELSE PlainShape(i, IF op = "ping" THEN ReadReply(3) ELSE AckReply)
        [] op = "read" /\ Profile(b) ->
             IF ProfileReq(p) = None THEN Refused("payload") ELSE PlainShape(i, ReadReply(MaxPayload))
        [] op = "read" /\ ~Profile(b) ->
             IF r = None THEN Refused("payload") ELSE PlainShape(i, ReadReply(Get(r).count))
        [] op = "write" ->
             IF WriteReq(p) = None THEN Refused("payload") ELSE PlainShape(i, AckReply)
        [] op = "gread" -> GreadShape(b, p)
        [] op = "gwrite" ->
             IF (IF PerTarget(b) THEN GwritePerTarget(p) ELSE GwriteUniform(p)) = None
             THEN Refused("payload") ELSE Shape("none", 0, 0)
        [] op = "mgmt" -> MgmtShape(i, p)

Derive(i, b, s) ==
  LET op == Opcode(b)
      sh == OpShape(Get(op), i, b, s)
  IN  IF op = None THEN Refused("inst")
      ELSE IF ~IsValid(i) THEN Refused("id")
      ELSE IF Len(s) > MaxPayload THEN Refused("long")
      ELSE IF sh.ok /\ NoReply(b) /\ sh.replies # "chain"
      THEN [sh EXCEPT !.replies = "none"]
      ELSE sh

----------------------------------------------------------------------------
(* The path of one exchange. *)

Init ==
  /\ stage = "submitted"
  /\ id \in Ids
  /\ \/ /\ wanted \in {{w} : w \in Wanted}
        /\ inst = InstOf(Get(wanted))
        /\ payload = Build(Get(wanted))
     \/ /\ wanted = None
        /\ inst \in Insts
        /\ payload \in {{p} : p \in RawPayloads}
  /\ shape = None /\ frame = <<>> /\ seam = 0 /\ verdict = <<>>

\* Engine::submit: the gate before the wire.
Submit ==
  /\ stage = "submitted" /\ payload # None
  /\ LET s == Derive(id, inst, Get(payload)) IN
       /\ shape' = {s}
       /\ stage' = IF s.ok THEN "sent" ELSE "refused"
       /\ frame' = IF s.ok THEN FrameBuf(id, inst, Get(payload)) ELSE <<>>
  /\ UNCHANGED <<wanted, id, inst, payload, seam, verdict>>

\* The frame sits in every servo's ring, wrapped after k bytes, and is decoded.
Receive(k) ==
  /\ stage = "sent" /\ k \in 0..Len(frame)
  /\ stage' = "seen"
  /\ seam' = k
  /\ verdict' = [s \in Servos |->
                   Decode(View(SubSeq(frame, 1, k), SubSeq(frame, k + 1, Len(frame))), s)]
  /\ UNCHANGED <<wanted, id, inst, payload, shape, frame>>

\* No frame is longer than the largest payload and its six bytes around it.
Next == Submit \/ (\E k \in 0..(MaxPayload + 6) : Receive(k))

Spec == Init /\ [][Next]_codecVars

----------------------------------------------------------------------------
(* The exchange under way has its types. *)
TypeOK ==
  /\ stage \in {"submitted", "refused", "sent", "seen"}
  /\ id \in 0..(Base - 1) /\ inst \in 0..255
  /\ Cardinality(payload) <= 1 /\ Cardinality(shape) <= 1
  /\ stage = "seen" => DOMAIN verdict = Servos

----------------------------------------------------------------------------
(* What the servos read. *)

\* The request as a whole, every entry of a group included.
Parsed(b, p) ==
  LET op == Opcode(b)
  IN  CASE op = {"gread"} ->
             (CASE ~Profile(b) /\ ~PerTarget(b) -> GreadUniform(p)
                [] ~Profile(b) /\ PerTarget(b)  -> GreadPerTarget(p)
                [] Profile(b) /\ ~PerTarget(b)  -> GreadProfileUniform(p)
                [] OTHER                        -> GreadProfilePerTarget(p))
        [] op = {"gwrite"} -> IF PerTarget(b) THEN GwritePerTarget(p) ELSE GwriteUniform(p)
        [] OTHER -> {PlainRequest(Get(op), b, p, TRUE)}

\* The uid bytes past the prefix are not sent: a built prefix is its first bytes.
Canonical(w) ==
  IF w.form = "enum" THEN [w EXCEPT !.prefix = SubSeq(@, 1, Ceil(w.bits))] ELSE w

\* The bytes a servo expects back from each request (dispatch.rs).
ReplyBytes(req) ==
  CASE req.form = "ping" -> 3
    [] req.form = "read" -> IF req.count > MaxPayload THEN 0 ELSE req.count
    [] req.form = "profile" -> MaxPayload
    [] req.form = "enum" -> UidLen
    [] OTHER -> 0

(* A built payload parses back to the request it was built from, and a
   payload the parser accepts is the one the builder writes for what was
   parsed: the encode mirror of the parsers (build.rs). *)
RoundTrip ==
  /\ wanted # None /\ payload # None
       => Parsed(inst, View(Get(payload), <<>>)) = {Canonical(Get(wanted))}
  /\ wanted = None /\ ~IsStatus(inst) /\ Opcode(inst) # None
       => \A r \in Parsed(inst, View(Get(payload), <<>>)) :
            (/\ r.form \notin {"ping", "commit", "unsupported", "mgmt"}
             /\ Len(Get(payload)) <= MaxPayload) => Build(r) = payload

(* Where the ring wraps changes nothing: every servo reads from a split frame
   what it would read from a contiguous one (FrameBytes in bytes.rs, decode). *)
SeamBlind ==
  stage = "seen" => \A s \in Servos : verdict[s] = Decode(View(frame, <<>>), s)

(* The host's plan is the servos' behaviour.  No servo finds an accepted frame
   malformed; where the host waits for nothing nobody answers, where it waits
   for one reply at most one servo may answer (an ASSIGN is answered by the one
   uid it names), in a chain the repliers hold different listed slots, and the
   time allowed covers every reply (Shape::derive, decode). *)
HostServoAgree ==
  stage = "seen" =>
    LET sh == Get(shape)
        repliers == {s \in Servos : verdict[s].kind = "own" /\ verdict[s].may_reply}
    IN  /\ \A s \in Servos : /\ verdict[s].kind # "status"
                             /\ verdict[s].kind = "own" => verdict[s].req.form # "unsupported"
        /\ sh.replies = "none" => repliers = {}
        /\ sh.replies = "single" =>
             \/ Cardinality(repliers) <= 1
             \/ \A s \in repliers : verdict[s].req.form = "assign"
        /\ sh.replies = "chain" =>
             /\ \A s \in repliers : verdict[s].slot < sh.slots
             /\ \A s, t \in repliers : verdict[s].slot = verdict[t].slot => s = t
        /\ sh.replies = "collect" => \A s \in repliers : verdict[s].req.form = "enum"
        /\ \A s \in repliers : Footprint(LenFor(ReplyBytes(verdict[s].req))) <= sh.footprint
        /\ IsUnicast(id) /\ id \in Servos /\ sh.replies = "single" => repliers = {id}
=============================================================================
