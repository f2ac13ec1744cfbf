---------------------------- MODULE MCRegisters ----------------------------
(* Model checking of the path of a register access: the frame's codec       *)
(* (Codec), the table its bytes land in (TableLayout), and the dispatch     *)
(* session that stages, holds and commits them (Dispatcher as MCDispatcher  *)
(* has it).                                                                 *)
EXTENDS MCDispatcher, TableShapes, CodecInputs

VARIABLES
    unit,   \* the part of the system this behaviour is about
    decl, drop, phase, consts, placed, mem, staged, last, dump, held, ops,
    stage, wanted, id, inst, payload, shape, frame, seam, verdict

Layout == INSTANCE TableLayout WITH
    Byte <- 4, WordBits <- 4, Chunk <- 4, Decls <- SomeDecls,
    Variants <- SomeVariants, Payloads <- SomePayloads, Words <- SomeWords,
    Drops <- SomeDrops, MaxOps <- 2

Wire == INSTANCE Codec WITH
    Base <- 8, MaxUnicast <- 4, Broadcast <- 6, MaxPayload <- 11, UidLen <- 2,
    ByteBits <- 3, Ids <- {0, 1, 3, 6}, Insts <- SomeInsts,
    RawPayloads <- RawBytes, Wanted <- SomeWanted, Servos <- {1, 2}

-----------------------------------------------------------------------------
\* A part that is not under way stands still.
layoutVars == <<decl, drop, phase, consts, placed, mem, staged, last, dump, held, ops>>
codecVars == <<stage, wanted, id, inst, payload, shape, frame, seam, verdict>>

Off == "off"
LayoutOff ==
    /\ decl = Off /\ drop = Off /\ phase = Off /\ consts = Off
    /\ placed = Off /\ mem = Off /\ staged = Off /\ last = Off /\ dump = Off
    /\ held = Off /\ ops = Off
CodecOff ==
    /\ stage = Off /\ wanted = Off /\ id = Off /\ inst = Off
    /\ payload = Off /\ shape = Off /\ frame = Off /\ seam = Off
    /\ verdict = Off

SuiteInit ==
    \/ unit = "session" /\ Init /\ LayoutOff /\ CodecOff
    \/ unit = "layout" /\ Layout!Init /\ Init /\ CodecOff
    \/ unit = "codec" /\ Wire!Init /\ Init /\ LayoutOff

OnlySession(A) == unit = "session" /\ A /\ UNCHANGED <<unit, layoutVars, codecVars>>
OnlyLayout(A) == unit = "layout" /\ A /\ UNCHANGED <<unit, dvars, codecVars>>
OnlyCodec(A) == unit = "codec" /\ A /\ UNCHANGED <<unit, dvars, layoutVars>>

SuiteNext ==
    \/ OnlySession(Next)
    \/ OnlyLayout(Layout!Next)
    \/ OnlyCodec(Wire!Next)

suiteVars == <<unit, dvars, layoutVars, codecVars>>

\* Only safety is checked here: no fairness is assumed.
SuiteSpec ==
    /\ SuiteInit /\ [][SuiteNext]_suiteVars

-----------------------------------------------------------------------------
(* A write is committed exactly when every byte of it belongs to a kept,    *)
(* read-write field at its true place and every field it touches obeys its  *)
(* declared rules in the merged image, wherever the ring seam cut it, and a *)
(* refused write changes nothing; what the operator's tool sets is what it  *)
(* then reads; and a dump never tears a scalar although the kernel          *)
(* publishes between its chunks (control-table-derive; map.rs, rules.rs,    *)
(* descriptor.rs, main.rs dump).                                            *)
TableExact ==
    unit = "layout" =>
        Layout!TypeOK /\ Layout!WriteExact /\ Layout!SetReads /\ Layout!DumpUntorn

(* Builders and parsers invert each other, the ring seam changes nothing,   *)
(* and the host's plan for a frame is the servos' behaviour: who answers,   *)
(* in which slot, with how many bytes (osc-protocol build.rs, decode.rs,    *)
(* host shape.rs).                                                          *)
CodecAgrees ==
    unit = "codec" =>
        Wire!TypeOK /\ Wire!RoundTrip /\ Wire!SeamBlind /\ Wire!HostServoAgree
=============================================================================
