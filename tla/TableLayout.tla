---------------------------- MODULE TableLayout ----------------------------
(***************************************************************************)
(* The control table from its declaration to the operator's screen.  The   *)
(* derives (control-table-derive block.rs, section.rs, table.rs, enums.rs) *)
(* turn nested repr(C) structs into the writable bitmap, the rule stripes, *)
(* the hook spans and the field descriptors; map.rs and rules.rs judge a   *)
(* write with them; table-export prints them and the osc tool (descriptor, *)
(* get, set, dump) names registers by them.                                *)
(*                                                                         *)
(* A byte has Byte values and a bitmap word WordBits bits.  A declaration  *)
(* is a table of members, each member of a table a section of members,     *)
(* each of those a block of fields; skip marks a reserved member.          *)
(***************************************************************************)
EXTENDS Integers, Sequences, SequencesExt, FiniteSets

CONSTANTS
  Byte,      \* values of a byte (256)
  WordBits,  \* bits of a bitmap word (32)
  Chunk,     \* bytes dump reads at a time (252)
  Decls,     \* table declarations
  Variants,  \* sequence of the enum's variants, [name, value]
  Payloads,  \* byte strings a host writes
  Words,     \* values an operator types
  Drops,     \* sequences of external descriptors, [model, fw, of]
  MaxOps     \* writes, sets and kernel updates of a behaviour

VARIABLES
  decl,   \* the declaration
  drop,   \* external descriptor files, sorted by path
  phase,  \* "source", "refused", "built"
  consts, \* the consts the derives emitted
  placed, \* ghost: every declared field at its true place
  mem,    \* the live table
  staged, \* writes held for the next COMMIT
  last,   \* the last host operation and its outcome
  dump,   \* the image a dump has read so far
  held,   \* bytes each field has held since the dump began
  ops     \* operations so far

layoutVars == <<decl, drop, phase, consts, placed, mem, staged, last, dump, held, ops>>

None == {}

Get(o) == CHOOSE x \in o : TRUE

Cat(s, Op(_)) == FlattenSeq([i \in DOMAIN s |-> Op(i)])

----------------------------------------------------------------------------
(* Types, and repr(C). *)

TypeWidth(ty) ==
  CASE ty \in {"u8", "i8", "bool", "Mode"} -> 1
    [] ty \in {"u16", "i16", "[u8;2]"} -> 2
    [] ty = "[u8;3]" -> 3
    [] OTHER -> 4

TypeAlign(ty) == IF ty \in {"[u8;2]", "[u8;3]"} THEN 1 ELSE TypeWidth(ty)

Up(n, a) == ((n + a - 1) \div a) * a

(* Size, alignment and member offsets of a repr(C) struct whose members    *)
(* have sizes and alignments ms.                                           *)
ReprC(ms) ==
  LET place(acc, m) == [at |-> Append(acc.at, Up(acc.size, m.align)),
                        size |-> Up(acc.size, m.align) + m.size,
                        align |-> IF m.align > acc.align THEN m.align ELSE acc.align]
      raw == FoldLeft(place, [at |-> <<>>, size |-> 0, align |-> 1], ms)
  IN  [raw EXCEPT !.size = Up(raw.size, raw.align)]

NoPadding(ms) == ReprC(ms).size = FoldLeft(LAMBDA n, m : n + m.size, 0, ms)

FieldMembers(b) ==
  [i \in DOMAIN b.fields |-> [size |-> TypeWidth(b.fields[i].ty),
                              align |-> TypeAlign(b.fields[i].ty)]]

BlockLayout(b) == ReprC(FieldMembers(b))

SectionMembers(s) ==
  [i \in DOMAIN s.blocks |-> [size |-> BlockLayout(s.blocks[i]).size,
                              align |-> BlockLayout(s.blocks[i]).align]]

SectionLayout(s) == ReprC(SectionMembers(s))

TableMembers(t) ==
  [i \in DOMAIN t.sections |-> [size |-> SectionLayout(t.sections[i]).size,
                                align |-> SectionLayout(t.sections[i]).align]]

WholeLayout(t) == ReprC(TableMembers(t))

----------------------------------------------------------------------------
(* Block derive. *)

Allowed == {Variants[i].value : i \in DOMAIN Variants}

AutoEnumAllowed(ty) ==
  CASE ty = "bool" -> {{0, 1}}
    [] ty = "Mode" -> {Allowed}
    [] OTHER -> None

CmpWidthSigned(ty) ==
  IF ty \in {"u8", "i8", "u16", "i16", "i32"}
    THEN {[width |-> TypeWidth(ty), signed |-> ty \in {"i8", "i16", "i32"}]}
    ELSE None

FieldKind(ty) ==
  CASE ty = "bool" -> "bool"
    [] ty \in {"u8", "u16", "u32"} -> "uint"
    [] ty \in {"i8", "i16", "i32"} -> "int"
    [] ty = "Mode" -> "enum"
    [] OTHER -> "bytes"

Immediates(f, opset) ==
  IF f.abs THEN <<>>
  ELSE SelectSeq(f.cmps, LAMBDA c : ~c.reg /\ c.op \in opset)

FieldBounds(f) ==
  LET low == Immediates(f, {"ge", "gt"})
      high == Immediates(f, {"le", "lt"})
  IN  [min |-> {low[i].val + (IF low[i].op = "gt" THEN 1 ELSE 0) : i \in DOMAIN low},
       max |-> {high[i].val - (IF high[i].op = "lt" THEN 1 ELSE 0) : i \in DOMAIN high}]

ResolvesHook(f, b) == f.hook = "ident" => b.hooks

ParsesField(f) == f.access \in {"ro", "rw"}

FieldRefused(f, b) ==
  \/ ~ParsesField(f)
  \/ ~ResolvesHook(f, b)
  \/ f.cmps # <<>> /\ (f.skip \/ f.access = "ro")
  \/ ~f.skip /\ f.cmps # <<>> /\ CmpWidthSigned(f.ty) = None
  \/ ~f.skip /\ (Len(Immediates(f, {"ge", "gt"})) > 1 \/ Len(Immediates(f, {"le", "lt"})) > 1)

BlockRefused(b) ==
  \/ b.repr # "C"
  \/ \E i \in DOMAIN b.fields : FieldRefused(b.fields[i], b)
  \/ ~NoPadding(FieldMembers(b))

Kept(f) == ~f.skip

ReadWrite(f) == Kept(f) /\ f.access = "rw"

BlockSpans(b) ==
  Cat(b.fields, LAMBDA i : LET f == b.fields[i] IN
    IF ReadWrite(f) THEN << <<BlockLayout(b).at[i], TypeWidth(f.ty)>> >> ELSE <<>>)

BlockCmps(b) ==
  Cat(b.fields, LAMBDA i : LET f == b.fields[i] IN
    IF ~ReadWrite(f) THEN <<>>
    ELSE [k \in DOMAIN f.cmps |->
            LET ws == Get(CmpWidthSigned(f.ty)) IN
            [addr |-> BlockLayout(b).at[i], width |-> ws.width, signed |-> ws.signed,
             abs |-> f.abs /\ ws.signed, op |-> f.cmps[k].op,
             reg |-> f.cmps[k].reg, val |-> f.cmps[k].val]])

BlockAlloweds(b) ==
  Cat(b.fields, LAMBDA i : LET f == b.fields[i] IN
    IF ReadWrite(f) /\ AutoEnumAllowed(f.ty) # None
      THEN <<[addr |-> BlockLayout(b).at[i], allowed |-> Get(AutoEnumAllowed(f.ty))]>>
      ELSE <<>>)

BlockFields(b) ==
  Cat(b.fields, LAMBDA i : LET f == b.fields[i] IN
    IF ~Kept(f) THEN <<>>
    ELSE <<[name |-> f.name, addr |-> BlockLayout(b).at[i], width |-> TypeWidth(f.ty),
            writable |-> f.access # "ro", kind |-> FieldKind(f.ty),
            min |-> FieldBounds(f).min, max |-> FieldBounds(f).max]>>)

(* Hook bindings are pushed before a skipped field is left out. *)
BlockHooks(b) ==
  Cat(b.fields, LAMBDA i : LET f == b.fields[i] IN
    IF f.hook = "none" THEN <<>>
    ELSE <<[name |-> f.name, addr |-> BlockLayout(b).at[i], width |-> TypeWidth(f.ty)]>>)

----------------------------------------------------------------------------
(* Section derive. *)

KeptBlocks(s) == {i \in DOMAIN s.blocks : ~s.blocks[i].skip}

SectionRefused(s) ==
  \/ s.repr # "C"
  \/ \E i \in KeptBlocks(s) : BlockRefused(s.blocks[i])
  \/ SectionLayout(s).size # s.size
  \/ ~NoPadding(SectionMembers(s))

BlockBase(s, i) == s.base + SectionLayout(s).at[i]

\* A kept block's rows, moved from the block's addresses to the table's.
Rebase(s, i, rows) ==
  [k \in DOMAIN rows |-> [rows[k] EXCEPT !.addr = @ + BlockBase(s, i)]]

\* The rebased rows of every kept block of s, rowsOf[i] being block i's.
SectionRows(s, rowsOf) ==
  Cat(s.blocks, LAMBDA i : IF i \in KeptBlocks(s) THEN Rebase(s, i, rowsOf[i]) ELSE <<>>)

SectionCmps(s) == SectionRows(s, [i \in DOMAIN s.blocks |-> BlockCmps(s.blocks[i])])
SectionAlloweds(s) == SectionRows(s, [i \in DOMAIN s.blocks |-> BlockAlloweds(s.blocks[i])])
SectionFields(s) == SectionRows(s, [i \in DOMAIN s.blocks |-> BlockFields(s.blocks[i])])
SectionHooks(s) == SectionRows(s, [i \in DOMAIN s.blocks |-> BlockHooks(s.blocks[i])])

SectionSpans(s) ==
  Cat(s.blocks, LAMBDA i :
    IF i \notin KeptBlocks(s) THEN <<>>
    ELSE LET sp == BlockSpans(s.blocks[i]) IN
         [k \in DOMAIN sp |-> <<sp[k][1] + BlockBase(s, i), sp[k][2]>>])

----------------------------------------------------------------------------
(* Table derive. *)

KeptSections(t) == SelectSeq(t.sections, LAMBDA s : ~s.skip)

KeptAt(t) == {i \in DOMAIN t.sections : ~t.sections[i].skip}

Extents(t) == {<<t.sections[i].base, t.sections[i].base + t.sections[i].size>> : i \in KeptAt(t)}

TableRefused(t) ==
  \/ t.repr # "C"
  \/ \E i \in KeptAt(t) : SectionRefused(t.sections[i])
  \/ WholeLayout(t).size # t.size
  \/ ~NoPadding(TableMembers(t))
  \/ \E i \in KeptAt(t) : WholeLayout(t).at[i] # t.sections[i].base
  \/ \E e \in Extents(t) : e[2] > t.size
  \/ \E i, j \in KeptAt(t) :
       /\ i < j
       /\ t.sections[i].base < t.sections[j].base + t.sections[j].size
       /\ t.sections[j].base < t.sections[i].base + t.sections[i].size

WritableWords(t) ==
  LET spans == Cat(KeptSections(t), LAMBDA i : SectionSpans(KeptSections(t)[i]))
      bytes == UNION {spans[k][1] .. spans[k][1] + spans[k][2] - 1 : k \in DOMAIN spans}
  IN  [w \in 0 .. Up(t.size, WordBits) \div WordBits - 1 |->
         {b \in 0 .. WordBits - 1 : w * WordBits + b \in bytes}]

TableCmps(t) == Cat(KeptSections(t), LAMBDA i : SectionCmps(KeptSections(t)[i]))

TableAlloweds(t) == Cat(KeptSections(t), LAMBDA i : SectionAlloweds(KeptSections(t)[i]))

Fields(t) == Cat(KeptSections(t), LAMBDA i : SectionFields(KeptSections(t)[i]))

Hooks(t) == Cat(KeptSections(t), LAMBDA i : SectionHooks(KeptSections(t)[i]))

(* Variant of RuleRange that counts the preceding section only. *)
RuleRangeLast(counts, i) ==
  LET start == IF i = 1 THEN 0 ELSE counts[i - 1] IN <<start, start + counts[i]>>

(* A section's stripe of a rule array whose sections hold counts rules. *)
RuleRange(counts, i) ==
  LET start == FoldLeft(LAMBDA n, c : n + c, 0, SubSeq(counts, 1, i - 1))
  IN  <<start, start + counts[i]>>

SectionMetas(t) ==
  LET secs == KeptSections(t)
      ncmp == [i \in DOMAIN secs |-> Len(SectionCmps(secs[i]))]
      nallowed == [i \in DOMAIN secs |-> Len(SectionAlloweds(secs[i]))]
  IN  [i \in DOMAIN secs |-> [base |-> secs[i].base, size |-> secs[i].size,
                              cmps |-> RuleRange(ncmp, i), alloweds |-> RuleRange(nallowed, i)]]

(* The consts of the table and its RegisterMap impl. *)
Consts(t) ==
  [size |-> t.size, words |-> WritableWords(t), sections |-> SectionMetas(t),
   cmps |-> TableCmps(t), alloweds |-> TableAlloweds(t), fields |-> Fields(t), hooks |-> Hooks(t)]

DefaultByte(f) == IF f.ty = "Mode" THEN Variants[1].value ELSE 0

(* new(): zeros, an enum's default (or first) variant, which Variants      *)
(* lists first; the members lie end to end once the asserts hold.          *)
NewTable(t) ==
  Cat(t.sections, LAMBDA i :
    Cat(t.sections[i].blocks, LAMBDA j :
      Cat(t.sections[i].blocks[j].fields, LAMBDA k :
        LET f == t.sections[i].blocks[j].fields[k] IN
        [n \in 1 .. TypeWidth(f.ty) |-> DefaultByte(f)])))

----------------------------------------------------------------------------
(* map.rs: the overlaid view, and validate. *)

Overlaps(a, len, lo, hi) == a < hi /\ a + len > lo

View(image, addr, head, tail) == [image |-> image, addr |-> addr, o1 |-> head, o2 |-> tail]

ReadMixed(v, lo, len) ==
  LET split == v.addr + Len(v.o1)
      end == split + Len(v.o2)
  IN  [n \in 1 .. len |->
         LET a == lo + n - 1 IN
         CASE a >= v.addr /\ a < split -> v.o1[a - v.addr + 1]
           [] a >= split /\ a < end -> v.o2[a - split + 1]
           [] OTHER -> v.image[a + 1]]

ReadFixed(v, lo, len) ==
  LET hi == lo + len
      split == v.addr + Len(v.o1)
  IN  CASE hi > Len(v.image) -> None
        [] hi <= v.addr \/ lo >= split + Len(v.o2) -> {SubSeq(v.image, lo + 1, hi)}
        [] lo >= v.addr /\ hi <= split -> {SubSeq(v.o1, lo - v.addr + 1, hi - v.addr)}
        [] OTHER -> {ReadMixed(v, lo, len)}

LittleEndian(bs) == FoldRight(LAMBDA b, n : b + Byte * n, bs, 0)

SignExtend(n, width) == IF 2 * n >= Byte ^ width THEN n - Byte ^ width ELSE n

Widen(v, addr, width, signed) ==
  {IF signed THEN SignExtend(LittleEndian(bs), width) ELSE LittleEndian(bs) :
     bs \in ReadFixed(v, addr, width)}

SaturatingAbs(n, width) ==
  LET m == IF n < 0 THEN -n ELSE n
      top == Byte ^ width \div 2 - 1
  IN  IF m > top THEN top ELSE m

Compare(op, a, r) ==
  CASE op = "lt" -> a < r
    [] op = "le" -> a <= r
    [] op = "gt" -> a > r
    [] op = "ge" -> a >= r
    [] op = "eq" -> a = r
    [] OTHER -> a # r

CheckCmp(v, r) ==
  LET lhs == Widen(v, r.addr, r.width, r.signed)
      rhs == IF r.reg THEN Widen(v, r.val, r.width, r.signed) ELSE {r.val}
      side(n) == IF r.abs THEN SaturatingAbs(n, r.width) ELSE n
  IN  IF lhs = None \/ rhs = None THEN "range"
      ELSE IF Compare(r.op, side(Get(lhs)), side(Get(rhs))) THEN "ok" ELSE "compare"

CheckAllowed(v, r) ==
  LET b == ReadFixed(v, r.addr, 1) IN
  IF b = None THEN "range" ELSE IF Get(b)[1] \in r.allowed THEN "ok" ELSE "enum"

\* An allowed-values rule covers one byte.
RuleWidth(r) == IF "width" \in DOMAIN r THEN r.width ELSE 1

(* The rules of a stripe a write [lo, hi) is judged by: the scan ends at   *)
(* the first rule past the write.                                          *)
Scanned(rules, range, lo, hi) ==
  LET rs == IF range[2] <= Len(rules) THEN SubSeq(rules, range[1] + 1, range[2]) ELSE <<>>
      past == {k \in DOMAIN rs : rs[k].addr >= hi}
      stop == IF past = {} THEN Len(rs) ELSE (CHOOSE k \in past : \A j \in past : k <= j) - 1
  IN  SelectSeq(SubSeq(rs, 1, stop), LAMBDA r : Overlaps(r.addr, RuleWidth(r), lo, hi))

WordsCover(lo, hi) ==
  \A w \in lo \div WordBits .. (hi - 1) \div WordBits :
    LET first == IF lo > w * WordBits THEN lo - w * WordBits ELSE 0
        end == IF hi - w * WordBits < WordBits THEN hi - w * WordBits ELSE WordBits
    IN  first .. end - 1 \subseteq consts.words[w]

RuleVerdicts(v, lo, hi) ==
  Cat(consts.sections, LAMBDA i :
    LET sec == consts.sections[i]
        as == Scanned(consts.alloweds, sec.alloweds, lo, hi)
        cs == Scanned(consts.cmps, sec.cmps, lo, hi)
    IN  IF ~Overlaps(sec.base, sec.size, lo, hi) THEN <<>>
        ELSE [k \in DOMAIN as |-> CheckAllowed(v, as[k])]
               \o [k \in DOMAIN cs |-> CheckCmp(v, cs[k])])

Validate(image, addr, head, tail) ==
  LET hi == addr + Len(head) + Len(tail)
      bad == SelectSeq(RuleVerdicts(View(image, addr, head, tail), addr, hi),
                       LAMBDA r : r # "ok")
  IN  CASE head \o tail = <<>> -> "ok"
        [] hi > consts.size -> "range"
        [] ~WordsCover(addr, hi) -> "access"
        [] OTHER -> IF bad = <<>> THEN "ok" ELSE bad[1]

Copied(image, addr, data) ==
  [n \in DOMAIN image |->
     IF n - 1 >= addr /\ n - 1 < addr + Len(data) THEN data[n - addr] ELSE image[n]]

(* dispatch_events: the hooks a committed write fires, with the bytes of   *)
(* the field they are handed.                                              *)
Fired(image, addr, len) ==
  {<<h.name, SubSeq(image, h.addr + 1, h.addr + h.width)>> :
     h \in {x \in Range(consts.hooks) : addr < x.addr + x.width /\ x.addr < addr + len}}

----------------------------------------------------------------------------
(* The tool's descriptor. *)

(* build_descriptor, the JSON; the tool ignores the bounds. *)
Export ==
  [k \in DOMAIN consts.fields |->
     LET d == consts.fields[k] IN
     [name |-> d.name, addr |-> d.addr, width |-> d.width,
      access |-> IF d.writable THEN "rw" ELSE "ro", kind |-> d.kind,
      min |-> d.min, max |-> d.max]]

(* Registry::load: a file with a model number already known replaces it. *)
Load(files) ==
  FoldLeft(LAMBDA ds, d : Append(SelectSeq(ds, LAMBDA e : e.model # d.model), d),
           <<[model |-> 1, fw |-> 1, of |-> "own"]>>, files)

Select(ds, model) ==
  LET same == SelectSeq(ds, LAMBDA d : d.model = model) IN
  IF same # <<>> THEN {same[1]}
  ELSE IF model = 0 /\ Len(ds) = 1 THEN {ds[1]} ELSE None

(* The fields a descriptor lists; a file for another layout, the escape     *)
(* hatch under the same model number, has them one byte further on.        *)
FieldsOf(d) ==
  [k \in DOMAIN Export |->
     IF d.of = "own" THEN Export[k] ELSE [Export[k] EXCEPT !.addr = @ + 1]]

FieldNamed(fs, name) ==
  LET hit == SelectSeq(fs, LAMBDA f : f.name = name) IN
  IF hit = <<>> THEN None ELSE {hit[1]}

ToLittleEndian(n, width) == [k \in 1 .. width |-> (n \div Byte ^ (k - 1)) % Byte]

WriteUint(f, n) ==
  IF f.width \in {1, 2, 4} /\ n < Byte ^ f.width THEN {ToLittleEndian(n, f.width)} ELSE None

WriteInt(f, n) ==
  LET half == Byte ^ f.width \div 2 IN
  IF f.width \in {1, 2, 4} /\ n >= -half /\ n < half
    THEN {ToLittleEndian(n % Byte ^ f.width, f.width)} ELSE None

(* An operator types a number, a flag, a variant name or hex bytes. *)
Typed(word, kind) == kind \in DOMAIN word

(* Variant name exactly, then in any case, else a number. *)
EnumValue(word) ==
  LET exact == SelectSeq(Variants, LAMBDA v : Typed(word, "name") /\ v.name = word.name)
      folded == SelectSeq(Variants, LAMBDA v : Typed(word, "name") /\ v.name[1] = word.name[1])
  IN  CASE exact # <<>> -> {exact[1].value}
        [] folded # <<>> -> {folded[1].value}
        [] Typed(word, "num") /\ word.num >= 0 /\ word.num < Byte -> {word.num}
        [] OTHER -> None

Encode(f, word) ==
  CASE f.access = "ro" -> None
    [] f.kind = "uint" -> IF Typed(word, "num") /\ word.num >= 0 THEN WriteUint(f, word.num) ELSE None
    [] f.kind = "int" -> IF Typed(word, "num") THEN WriteInt(f, word.num) ELSE None
    [] f.kind = "bool" ->
         IF Typed(word, "flag") THEN {<<IF word.flag THEN 1 ELSE 0>>}
         ELSE IF Typed(word, "num") /\ word.num \in {0, 1} THEN {<<word.num>>} ELSE None
    [] f.kind = "enum" -> UNION {WriteUint(f, n) : n \in EnumValue(word)}
    [] OTHER -> IF Typed(word, "hex") /\ Len(word.hex) = f.width THEN {word.hex} ELSE None

(* What decode shows: a value of the kind Encode takes, an enum by its     *)
(* discriminant.                                                           *)
Decode(f, bs) ==
  CASE f.kind \in {"uint", "enum"} -> [num |-> LittleEndian(bs)]
    [] f.kind = "int" -> [num |-> SignExtend(LittleEndian(bs), f.width)]
    [] f.kind = "bool" -> [flag |-> bs[1] # 0]
    [] OTHER -> [hex |-> bs]

BytesOf(image, f) == SubSeq(image, f.addr + 1, f.addr + f.width)

----------------------------------------------------------------------------

Idle == [op |-> "none"]

Init ==
  /\ decl \in Decls
  /\ drop \in Drops
  /\ phase = "source"
  /\ consts = <<>>
  /\ placed = {}
  /\ mem = <<>>
  /\ staged = <<>>
  /\ last = Idle
  /\ dump = <<>>
  /\ held = <<>>
  /\ ops = 0

(* Every declared field with its true place in the nested structs. *)
Placed(t) ==
  UNION {UNION {{[f |-> t.sections[i].blocks[j].fields[k],
                  live |-> ~t.sections[i].skip /\ ~t.sections[i].blocks[j].skip,
                  lo |-> WholeLayout(t).at[i] + SectionLayout(t.sections[i]).at[j]
                           + BlockLayout(t.sections[i].blocks[j]).at[k],
                  width |-> TypeWidth(t.sections[i].blocks[j].fields[k].ty)] :
                 k \in DOMAIN t.sections[i].blocks[j].fields} :
                j \in DOMAIN t.sections[i].blocks} : i \in DOMAIN t.sections}

(* The compiler expands the derives and evaluates their asserts; the       *)
(* firmware starts on new().                                               *)
Derive ==
  /\ phase = "source"
  /\ phase' = IF TableRefused(decl) THEN "refused" ELSE "built"
  /\ IF TableRefused(decl)
       THEN UNCHANGED <<consts, placed, mem>>
       ELSE consts' = Consts(decl) /\ placed' = Placed(decl) /\ mem' = NewTable(decl)
  /\ UNCHANGED <<decl, drop, staged, last, dump, held, ops>>

(* What every field now holds joins what it has held. *)
Recorded(image) ==
  IF held = <<>> THEN held
  ELSE [k \in DOMAIN held |-> held[k] \cup {BytesOf(image, consts.fields[k])}]

(* write_split, then the hooks of the written span. *)
WriteSplit(addr, head, tail, from) ==
  LET out == Validate(mem, addr, head, tail)
      data == head \o tail
      image == IF out = "ok" THEN Copied(mem, addr, data) ELSE mem
  IN  /\ phase = "built"
      /\ ops < MaxOps
      /\ ops' = ops + 1
      /\ mem' = image
      /\ held' = Recorded(image)
      /\ last' = [op |-> "write", addr |-> addr, data |-> data, out |-> out, before |-> mem,
                  fired |-> IF out = "ok" THEN Fired(image, addr, Len(data)) ELSE {},
                  from |-> from]
      /\ UNCHANGED <<decl, drop, phase, consts, placed, staged, dump>>

(* write_hold: judged like any write, then kept for the COMMIT. *)
HoldSplit(addr, data, from) ==
  LET out == Validate(mem, addr, data, <<>>)
  IN  /\ ops' = ops + 1
      /\ staged' = IF out = "ok" THEN Append(staged, [addr |-> addr, data |-> data]) ELSE staged
      /\ last' = [op |-> "hold", addr |-> addr, data |-> data, out |-> out, before |-> mem,
                  fired |-> {}, from |-> from]
      /\ UNCHANGED <<decl, drop, phase, consts, placed, mem, dump, held>>

(* osc commit: the held writes in order, with their hooks. *)
Commit ==
  /\ staged # <<>>
  /\ LET image == FoldLeft(LAMBDA m, w : Copied(m, w.addr, w.data), mem, staged)
     IN  mem' = image /\ held' = Recorded(image)
  /\ staged' = <<>>
  /\ last' = [op |-> "commit"]
  /\ UNCHANGED <<decl, drop, phase, consts, placed, dump, ops>>

HostWrite ==
  ops < MaxOps /\ \E addr \in 0 .. decl.size, data \in Payloads : \E cut \in 0 .. Len(data) :
    WriteSplit(addr, SubSeq(data, 1, cut), SubSeq(data, cut + 1, Len(data)), None)

(* The descriptor that the registry selects for this servo's identity.     *)
Selected == Select(Load(drop), decl.model)

(* osc set: the descriptor gives the address and the bytes; written, with  *)
(* or without a reply, or held.                                            *)
Set ==
  /\ phase = "built" /\ ops < MaxOps
  /\ \E d \in Selected : \E f \in Range(Export), word \in Words :
       \E g \in FieldNamed(FieldsOf(d), f.name) : \E data \in Encode(g, word) :
         LET from == {[name |-> f.name, word |-> word, of |-> d.of]}
         IN  \/ WriteSplit(g.addr, data, <<>>, from)
             \/ HoldSplit(g.addr, data, from)

(* The kernel publishes a read-only field. *)
Publish ==
  /\ phase = "built"
  /\ ops < MaxOps
  /\ held # <<>>
  /\ \E f \in Range(consts.fields) :
       /\ ~f.writable
       /\ LET image == Copied(mem, f.addr,
                              [n \in 1 .. f.width |-> (mem[f.addr + n] + 1) % Byte])
          IN  mem' = image /\ held' = Recorded(image)
  /\ ops' = ops + 1
  /\ UNCHANGED <<decl, drop, phase, consts, placed, staged, last, dump>>

ChunkLen(left) == IF left < Chunk THEN left ELSE Chunk

(* osc dump: one read of the table walk. *)
DumpChunk ==
  LET n == ChunkLen(decl.size - Len(dump)) IN
  /\ phase = "built" /\ Selected # None
  /\ Len(dump) < decl.size
  /\ dump' = dump \o SubSeq(mem, Len(dump) + 1, Len(dump) + n)
  /\ held' = IF held = <<>>
               THEN [k \in DOMAIN consts.fields |-> {BytesOf(mem, consts.fields[k])}]
               ELSE held
  /\ UNCHANGED <<decl, drop, phase, consts, placed, mem, staged, last, ops>>

Next ==
  \/ Derive
  \/ HostWrite
  \/ Set
  \/ Commit
  \/ Publish
  \/ DumpChunk

Spec == Init /\ [][Next]_layoutVars

----------------------------------------------------------------------------

(* The live table has its declared size and holds bytes. *)
TypeOK ==
  /\ decl \in Decls
  /\ phase \in {"source", "refused", "built"}
  /\ phase = "built" => Len(mem) = decl.size
  /\ \A n \in DOMAIN mem : mem[n] \in 0 .. Byte - 1
  /\ ops \in 0 .. MaxOps

ScalarAt(image, p) ==
  LET n == LittleEndian(SubSeq(image, p.lo + 1, p.lo + p.width)) IN
  IF p.f.ty \in {"i8", "i16", "i32"} THEN SignExtend(n, p.width) ELSE n

Obeys(image, p) ==
  /\ p.f.ty = "bool" => image[p.lo + 1] \in {0, 1}
  /\ p.f.ty = "Mode" => image[p.lo + 1] \in Allowed
  /\ \A k \in DOMAIN p.f.cmps :
       LET c == p.f.cmps[k]
           mag == p.f.abs /\ p.f.ty \in {"i8", "i16", "i32"}
           rhs == IF c.reg THEN ScalarAt(image, [p EXCEPT !.lo = c.val]) ELSE c.val
           side(n) == IF mag THEN SaturatingAbs(n, p.width) ELSE n
       IN  Compare(c.op, side(ScalarAt(image, p)), side(rhs))

(* A write is committed exactly when every byte of it belongs to a kept,   *)
(* read-write field at its true repr(C) place and every field it touches   *)
(* obeys its declared rules in the merged image, wherever the ring seam    *)
(* cut it; it fires exactly the hooks of the fields it touches, and a      *)
(* refused write changes nothing: the bitmap, the rule stripes with their  *)
(* per-section ranges and the hook spans agree with the declaration.       *)
WriteExact ==
  last.op \in {"write", "hold"} =>
    LET hi == last.addr + Len(last.data)
        touched == {p \in placed : Overlaps(p.lo, p.width, last.addr, hi)}
        merged == Copied(last.before, last.addr, last.data)
        open == \A a \in last.addr .. hi - 1 :
                  \E p \in touched : p.live /\ ReadWrite(p.f) /\ a >= p.lo /\ a < p.lo + p.width
        legal == hi <= decl.size /\ open /\ \A p \in touched : Obeys(merged, p)
    IN  /\ (last.out = "ok") <=> (last.data = <<>> \/ legal)
        /\ last.fired = IF last.out # "ok" \/ last.op = "hold" THEN {}
                        ELSE {<<p.f.name, SubSeq(merged, p.lo + 1, p.lo + p.width)>> :
                                p \in {q \in touched : q.live /\ q.f.hook # "none"}}

(* Named by its own descriptor, a value the servo accepts from `osc set`   *)
(* lies within the exported bounds, lands in the named field alone and is  *)
(* what `osc get` then shows.                                              *)
SetReads ==
  /\ last.op = "write" /\ last.out = "ok" /\ held = <<>>
  /\ \E s \in last.from : s.of = "own"
  =>
    LET s == Get(last.from)
        f == Get(FieldNamed(Export, s.name))
        shown == Decode(f, BytesOf(mem, f))
        p == CHOOSE q \in placed : q.f.name = s.name
    IN  /\ p.lo = f.addr /\ p.width = f.width
        /\ f.kind \in {"uint", "int"} =>
             /\ shown = s.word
             /\ \A m \in f.min : s.word.num >= m
             /\ \A m \in f.max : s.word.num <= m
             /\ ScalarAt(mem, p) = s.word.num
        /\ f.kind = "enum" /\ Typed(s.word, "name") =>
             \E i \in DOMAIN Variants : Variants[i].name[1] = s.word.name[1]
                                        /\ Variants[i].value = shown.num
        /\ \A n \in DOMAIN mem :
             (n - 1 < p.lo \/ n - 1 >= p.lo + p.width) => mem[n] = last.before[n]

(* Every scalar of a finished dump is a value the field really held while  *)
(* the dump ran, although the table is read in chunks with the kernel      *)
(* publishing in between: no chunk boundary cuts a scalar.                 *)
DumpUntorn ==
  dump # <<>> /\ Len(dump) = decl.size =>
    \A k \in DOMAIN consts.fields :
      consts.fields[k].kind # "bytes" => BytesOf(dump, consts.fields[k]) \in held[k]

============================================================================
