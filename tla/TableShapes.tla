--------------------------- MODULE TableShapes ---------------------------
(* Table declarations TableLayout is checked on: three that the derives     *)
(* accept, with skipped fields, reserved blocks, padding sections, rules    *)
(* against immediates and against registers, hooks and an enum, and nine    *)
(* that they refuse; what a host writes and an operator types.              *)
EXTENDS Integers

SomeVariants == << [name |-> <<"off", "Off">>, value |-> 1], [name |-> <<"run", "Run">>, value |-> 3] >>

F(n, ty) == [name |-> n, ty |-> ty, skip |-> FALSE, access |-> "rw", hook |-> "none",
             abs |-> FALSE, cmps |-> <<>>]
Ro(f) == [f EXCEPT !.access = "ro"]
Skip(f) == [f EXCEPT !.skip = TRUE]
Hook(f, h) == [f EXCEPT !.hook = h]
Imm(op, v) == [op |-> op, reg |-> FALSE, val |-> v]
Reg(op, a) == [op |-> op, reg |-> TRUE, val |-> a]
Bounded(f, cs) == [f EXCEPT !.cmps = cs]
Abs(f) == [f EXCEPT !.abs = TRUE]
Block(fs) == [repr |-> "C", hooks |-> TRUE, skip |-> FALSE, fields |-> fs]
Rsvd(ty) == [repr |-> "C", hooks |-> FALSE, skip |-> TRUE, fields |-> <<F("_rsvd", ty)>>]
Section(b, n, bs) == [repr |-> "C", skip |-> FALSE, base |-> b, size |-> n, blocks |-> bs]
Pad(n, bs) == [repr |-> "C", skip |-> TRUE, base |-> 0, size |-> n, blocks |-> bs]
Table(n, ss) == [repr |-> "C", model |-> 1, size |-> n, sections |-> ss]

Mixed == Table(12, <<
  Section(0, 4, << Block(<<Ro(F("model", "u16")), Bounded(F("id", "u8"), <<Imm("ge", 1), Imm("lt", 3)>>),
                           Skip(F("_r", "u8"))>>) >>),
  Section(4, 4, << Block(<<Hook(Bounded(F("lo", "i8"), <<Reg("le", 5)>>), "ident"), Hook(F("hi", "i8"), "path")>>),
                   Block(<<F("mode", "Mode"), Hook(F("on", "bool"), "path")>>) >>),
  Section(8, 4, << Block(<<Bounded(Abs(F("goal", "i16")), <<Imm("le", 2)>>), Ro(F("pos", "i16"))>>) >>) >>)

Gapped == Table(12, <<
  Section(0, 4, << Block(<<F("mode", "Mode"), Bounded(F("gain", "u8"), <<Imm("gt", 0), Imm("le", 2)>>)>>), Rsvd("[u8;2]") >>),
  Pad(4, << Rsvd("u32") >>),
  Section(8, 4, << Block(<<Ro(F("pos", "u32"))>>) >>) >>)

Wide == [Table(8, <<
  Section(0, 4, << Block(<<Bounded(F("span", "u16"), <<Imm("ne", 0), Imm("lt", 9)>>), F("raw", "[u8;2]")>>) >>),
  Section(4, 4, << Block(<<Ro(F("now", "u32"))>>) >>) >>) EXCEPT !.model = 0]

Holed == Table(4, << Section(0, 4, << Block(<<F("a", "u8"), F("b", "u16")>>) >>) >>)
RoCmp == Table(1, << Section(0, 1, << Block(<<Ro(Bounded(F("a", "u8"), <<Imm("ge", 1)>>))>>) >>) >>)
U32Cmp == Table(4, << Section(0, 4, << Block(<<Bounded(F("a", "u32"), <<Imm("ge", 1)>>)>>) >>) >>)
TwoLow == Table(1, << Section(0, 1, << Block(<<Bounded(F("a", "u8"), <<Imm("ge", 1), Imm("gt", 1)>>)>>) >>) >>)
Moved == Table(8, << Section(0, 4, << Block(<<F("a", "u32")>>) >>), Section(2, 4, << Block(<<F("b", "u32")>>) >>) >>)
Short == Table(4, << Section(0, 6, << Block(<<F("a", "u32")>>) >>) >>)
Hookless == Table(1, << Section(0, 1, << [Block(<<Hook(F("a", "u8"), "ident")>>) EXCEPT !.hooks = FALSE] >>) >>)
Reserved == Table(1, << Section(0, 1, << Block(<<[F("a", "u8") EXCEPT !.access = "reserved"]>>) >>) >>)
Packed == [Table(1, << Section(0, 1, << Block(<<F("a", "u8")>>) >>) >>) EXCEPT !.repr = "packed"]

SomeDecls == {Mixed, Gapped, Wide, Holed, RoCmp, U32Cmp, TwoLow, Moved, Short, Hookless, Reserved, Packed}

SomePayloads == {<<>>, <<0>>, <<3>>, <<2, 1>>, <<1, 1, 0>>, <<1, 2, 3, 1>>}

SomeWords == {[num |-> n] : n \in {-9, -2, -1, 0, 1, 2, 3, 9}}
             \cup {[flag |-> TRUE], [name |-> <<"run", "RUN">>],
                   [hex |-> <<1, 2>>]}

SomeDrops == {<<>>, << [model |-> 1, fw |-> 2, of |-> "own"], [model |-> 2, fw |-> 1, of |-> "other"] >>,
              << [model |-> 1, fw |-> 2, of |-> "other"] >>}
=============================================================================
