---------------------------- MODULE CodecInputs ----------------------------
(* Requests and byte strings Codec is checked on, for bytes of three bits,  *)
(* unicast ids up to 4 and the broadcast id 6.                              *)
EXTENDS Integers, Sequences

Addresses == {0, 1, 10}

SomeIds == {1, 2, 6}

IdLists == UNION {[1..n -> SomeIds] : n \in 0..2}

Bytes == {<<>>, <<1>>, <<2, 0>>}

IdSpans == {[id |-> i, addr |-> a, count |-> c] : i \in {1, 2}, a \in {1, 8}, c \in {0, 10}}

SlotReads == {[id |-> i, slot |-> s] : i \in {1, 2}, s \in {0, 3}}

IdBlocks == {[id |-> i, data |-> d] : i \in {1, 2}, d \in Bytes}

IdWrites == {[id |-> i, addr |-> a, data |-> d] : i \in {1, 2}, a \in {1, 8}, d \in Bytes}

UpTo2(S) == {<<>>} \cup {<<x>> : x \in S} \cup {<<x, y>> : x, y \in S}

SomeWanted ==
  {[form |-> "read", addr |-> a, count |-> c] : a, c \in Addresses}
  \cup {[form |-> "profile", slot |-> s] : s \in {0, 3}}
  \cup {[form |-> "write", addr |-> a, data |-> d] : a \in Addresses, d \in Bytes}
  \cup {[form |-> "gread_uniform", addr |-> a, count |-> a, ids |-> l] : a \in Addresses, l \in IdLists}
  \cup {[form |-> "gread_profile_uniform", slot |-> 3, ids |-> l] : l \in IdLists}
  \cup {[form |-> "gread_per_target", targets |-> t] : t \in UpTo2(IdSpans)}
  \cup {[form |-> "gread_profile_per_target", targets |-> t] : t \in UpTo2(SlotReads)}
  \cup {[form |-> "gwrite_uniform", addr |-> a, count |-> c, targets |-> t] :
          a \in {1, 8}, c \in 0..2, t \in UpTo2(IdBlocks)}
  \cup {[form |-> "gwrite_per_target", targets |-> t] : t \in UpTo2(IdWrites)}
  \cup {[form |-> "enum", bits |-> n, prefix |-> u] : n \in 0..7, u \in {<<0, 0>>, <<5, 1>>}}
  \cup {[form |-> "assign", uid |-> u, new_id |-> i] : u \in {<<0, 0>>, <<5, 1>>}, i \in SomeIds}
  \cup {[form |-> "cal", gap |-> g, gaps |-> n] : g \in Addresses, n \in {0, 2}}
  \cup {[form |-> "mgmt", op |-> o] : o \in {"save", "reboot", "factory"}}

SomeInsts == {16 * op + f : op \in 0..7, f \in {0, 1, 4, 8, 9, 12}} \cup {128, 161}

RawBytes == UNION {[1..n -> {0, 1, 2, 6}] : n \in 0..3} \cup [1..4 -> {1, 2}]
=============================================================================
