------------------------------ MODULE Discovery ------------------------------
(***************************************************************************)
(* Management choreographies of the client (src/client/src/mgmt.rs), of    *)
(* the bench tool (src/tools/bench/src/discover.rs) and of the provisioning*)
(* example: the ENUM prefix walk and its confirm probes, the agreement of  *)
(* two walks, ASSIGN, the search for the bus rate, and the fleet baud      *)
(* migration.  One action is one exchange.                                 *)
(*                                                                         *)
(* External: the bus.  Servos that answer an ENUM together collide; now    *)
(* and then their superposition reads back as one clean frame of any UID   *)
(* (a ghost), a parked fleet reads as silence (a mute), and noise garbles  *)
(* a lone answer or is heard where none is.                                *)
(***************************************************************************)
EXTENDS Naturals, Sequences, FiniteSets, TLC

CONSTANTS
    Bits,           \* UID_LEN * 8
    EmptyRetries,   \* EMPTY_RETRIES
    LeafRetries,    \* FULL_DEPTH_RETRIES
    WalksCap,       \* WALKS_CAP
    Rates,          \* the bus rates in find_bus_baud's order
    Jobs,           \* what the operator may run
    MaxServos,      \* servos on the bus (bound)
    MaxMutes,       \* answers that read as silence, lost writes and acks (bound)
    MaxGhosts,      \* superpositions that read as a clean frame (bound)
    MaxGarbles      \* lone answers garbled, noise on a silent bus (bound)

VARIABLES
    job,       \* "walk", "bench", "assign", "findBaud", "setBaud"
    fleet,     \* UIDs on the bus
    ids,       \* the id of each servo
    rates,     \* the rate of each servo, an index of Rates
    hostRate,  \* the host's rate
    stack,     \* prefixes still to probe; bench: with its confirmed flag
    pc,        \* what the next exchange is for
    node,      \* the candidate being confirmed
    tries,     \* re-probes of this place
    found,     \* the roster of this walk
    prev,      \* the roster of the walk before
    walks,     \* walks done
    at,        \* index of the servo in hand
    roster,    \* the answers of the ping sweep
    noise      \* faults so far

discVars == <<job, fleet, ids, rates, hostRate, stack, pc, node, tries, found, prev, walks,
              at, roster, noise>>

Uids == [1 .. Bits -> {0, 1}]
Root == [prefix |-> <<>>, ok |-> FALSE]
NoNode == [prefix |-> <<>>, uid |-> <<>>]

\* LSB-first: bit k of the stream is the k-th element.
Extends(uid, prefix) == \A k \in DOMAIN prefix : uid[k] = prefix[k]
Below(u, v) == \E k \in 1 .. Bits : u[k] < v[k] /\ \A j \in k + 1 .. Bits : u[j] = v[j]
Listed(s) == SortSeq(s, Below)
InOrder(S) == Listed(CHOOSE q \in [1 .. Cardinality(S) -> S] : {q[i] : i \in DOMAIN q} = S)

DiscInit ==
    /\ job \in Jobs
    /\ fleet \in {S \in SUBSET Uids : Cardinality(S) <= MaxServos}
    /\ ids = [u \in fleet |-> 1]
    /\ rates \in [fleet -> IF job \in {"findBaud", "setBaud"} THEN DOMAIN Rates ELSE {1}]
    /\ job \in {"findBaud", "setBaud"} => \A u, v \in fleet : rates[u] = rates[v]
    /\ hostRate = IF job = "setBaud" /\ fleet # {} THEN rates[CHOOSE u \in fleet : TRUE] ELSE 1
    /\ stack = IF job = "findBaud" THEN <<>> ELSE <<Root>>
    /\ pc = CASE job = "findBaud" -> "rate" [] job = "setBaud" -> "write"
              [] OTHER -> "pop"
    /\ node = NoNode /\ tries = 0 /\ found = <<>> /\ prev = <<>> /\ walks = 0
    /\ at = 1 /\ roster = {} /\ noise = [mutes |-> 0, ghosts |-> 0, garbles |-> 0]

-----------------------------------------------------------------------------
(* The bus and one probe.                                                    *)

\* The servos that answer an ENUM of this prefix.
Matchers(prefix) == {u \in fleet : rates[u] = hostRate /\ Extends(u, prefix)}

Empty == [v |-> "Empty", uid |-> <<>>]
Collision == [v |-> "Collision", uid |-> <<>>]
Candidate(uid) == [v |-> "Candidate", uid |-> uid]

Spend(kind, most) == noise[kind] < most /\ noise' = [noise EXCEPT ![kind] = @ + 1]

\* A clean frame is believed only if it extends the prefix it was asked for.
Verdict(uid, prefix) == IF Extends(uid, prefix) THEN Candidate(uid) ELSE Collision

\* The bench tool believes every clean frame.
BenchVerdict(uid, prefix) == Candidate(uid)

Judge(uid, prefix) == IF job = "bench" THEN BenchVerdict(uid, prefix) ELSE Verdict(uid, prefix)

\* One exchange with verdict r.
Exchange(prefix, r) ==
    LET heard == Matchers(prefix)
    IN  \/ heard = {} /\ r = Empty /\ noise' = noise
        \/ heard # {} /\ r = Empty /\ Spend("mutes", MaxMutes)
        \/ \E u \in heard : heard = {u} /\ r = Judge(u, prefix) /\ noise' = noise
        \/ Cardinality(heard) <= 1 /\ r = Collision /\ Spend("garbles", MaxGarbles)
        \/ Cardinality(heard) > 1 /\ r = Collision /\ noise' = noise
        \/ /\ Cardinality(heard) > 1 /\ Spend("ghosts", MaxGhosts)
           /\ \E w \in Uids : r = Judge(w, prefix)

Verdicts == {Empty, Collision} \cup {Candidate(u) : u \in Uids}

(* Variant of Settled that believes the first silence. *)
SettledAtOnce(r) == FALSE

\* probe_settled: silence is asked again before it is believed.
Settled(r) == r = Empty /\ tries < EmptyRetries

AskAgain ==
    /\ tries' = tries + 1
    /\ UNCHANGED <<stack, pc, node, found>>

Top == stack[Len(stack)]
Pop == SubSeq(stack, 1, Len(stack) - 1)
Descend(prefix, ok0, ok1) ==
    <<[prefix |-> Append(prefix, 0), ok |-> ok0], [prefix |-> Append(prefix, 1), ok |-> ok1]>>

WalkStep == UNCHANGED <<job, fleet, ids, rates, hostRate, prev, walks, at, roster>>

-----------------------------------------------------------------------------
(* walk(): the client's.                                                     *)

WalkProbe ==
    /\ pc = "pop" /\ job \in {"walk", "assign"} /\ stack # <<>>
    /\ LET p == Top.prefix IN
       \E r \in Verdicts :
          /\ Exchange(p, r)
          /\ IF Settled(r) THEN AskAgain
             ELSE /\ tries' = 0
                  /\ CASE r.v = "Empty" ->
                            stack' = Pop /\ UNCHANGED <<pc, node, found>>
                       [] r.v = "Candidate" /\ Len(p) = Bits ->
                            /\ stack' = Pop /\ found' = Append(found, r.uid)
                            /\ UNCHANGED <<pc, node>>
                       [] r.v = "Candidate" /\ Len(p) < Bits ->
                            /\ node' = [prefix |-> p, uid |-> r.uid] /\ pc' = "own"
                            /\ stack' = Pop /\ found' = found
                       [] r.v = "Collision" /\ Len(p) = Bits ->
                            /\ node' = [prefix |-> p, uid |-> <<>>] /\ pc' = "leaf"
                            /\ stack' = Pop /\ found' = found
                       [] r.v = "Collision" /\ Len(p) < Bits ->
                            /\ stack' = Pop \o Descend(p, FALSE, FALSE)
                            /\ UNCHANGED <<pc, node, found>>
    /\ WalkStep

\* The two confirm probes: the child with the candidate's bit, the sibling.
OwnChild == Append(node.prefix, node.uid[Len(node.prefix) + 1])
Sibling == Append(node.prefix, 1 - node.uid[Len(node.prefix) + 1])

\* Both confirm probes are made; own remembers whether the first agreed.
ConfirmOwn ==
    /\ pc = "own"
    /\ \E r \in Verdicts :
          /\ Exchange(OwnChild, r)
          /\ IF Settled(r) THEN AskAgain
             ELSE /\ tries' = 0
                  /\ pc' = IF r = Candidate(node.uid) THEN "sib" ELSE "sibAnyway"
                  /\ UNCHANGED <<stack, node, found>>
    /\ WalkStep

ConfirmSibling ==
    /\ pc \in {"sib", "sibAnyway"}
    /\ \E r \in Verdicts :
          /\ Exchange(Sibling, r)
          /\ IF Settled(r) THEN AskAgain
             ELSE /\ tries' = 0 /\ pc' = "pop" /\ node' = NoNode
                  /\ IF pc = "sib" /\ r = Empty
                     THEN found' = Append(found, node.uid) /\ stack' = stack
                     ELSE found' = found /\ stack' = stack \o Descend(node.prefix, FALSE, FALSE)
    /\ WalkStep

\* A collision at full depth is garble luck: asked again, then skipped.
LeafProbe ==
    /\ pc = "leaf"
    /\ \E r \in Verdicts :
          /\ Exchange(node.prefix, r)
          /\ IF r.v = "Candidate"
             THEN found' = Append(found, r.uid) /\ tries' = 0 /\ pc' = "pop" /\ node' = NoNode
             ELSE /\ found' = found
                  /\ IF tries + 1 < LeafRetries THEN tries' = tries + 1 /\ UNCHANGED <<pc, node>>
                     ELSE tries' = 0 /\ pc' = "pop" /\ node' = NoNode
    /\ stack' = stack
    /\ WalkStep

\* discover(): two walks in a row must agree; the last one returns regardless.
WalkDone ==
    /\ pc = "pop" /\ stack = <<>> /\ job \in {"walk", "assign"}
    /\ LET now == Listed(found)
           agreed == walks > 0 /\ (now = prev \/ walks + 1 = WalksCap)
       IN  /\ walks' = walks + 1
           /\ prev' = now
           /\ IF agreed
              THEN /\ found' = now /\ stack' = stack
                   /\ pc' = IF job = "assign" /\ now # <<>> THEN "assign" ELSE "done"
              ELSE found' = <<>> /\ stack' = <<Root>> /\ pc' = pc
    /\ UNCHANGED <<job, fleet, ids, rates, hostRate, node, tries, at, roster, noise>>

-----------------------------------------------------------------------------
(* The bench tool's walk: no prefix check, children marked as confirmed.     *)

BenchProbe ==
    /\ pc = "pop" /\ job = "bench" /\ stack # <<>>
    /\ LET p == Top.prefix IN
       \E r \in Verdicts :
          /\ Exchange(p, r)
          /\ IF Settled(r) THEN AskAgain
             ELSE /\ tries' = 0 /\ node' = node
                  /\ CASE r.v = "Empty" -> stack' = Pop /\ UNCHANGED <<pc, found>>
                       [] r.v = "Candidate" /\ (Top.ok \/ Len(p) = Bits) ->
                            stack' = Pop /\ found' = Append(found, r.uid) /\ pc' = pc
                       [] r.v = "Candidate" /\ ~Top.ok /\ Len(p) < Bits ->
                            /\ stack' = Pop \o
                                  (IF r.uid[Len(p) + 1] = 0
                                   THEN <<[prefix |-> Append(p, 1), ok |-> TRUE],
                                          [prefix |-> Append(p, 0), ok |-> TRUE]>>
                                   ELSE <<[prefix |-> Append(p, 0), ok |-> TRUE],
                                          [prefix |-> Append(p, 1), ok |-> TRUE]>>)
                            /\ UNCHANGED <<pc, found>>
                       [] r.v = "Collision" /\ Len(p) = Bits ->
                            pc' = "failed" /\ UNCHANGED <<stack, found>>
                       [] r.v = "Collision" /\ Len(p) < Bits ->
                            /\ stack' = Pop \o <<[prefix |-> Append(p, 1), ok |-> FALSE],
                                                 [prefix |-> Append(p, 0), ok |-> FALSE]>>
                            /\ UNCHANGED <<pc, found>>
    /\ WalkStep

BenchDone ==
    /\ pc = "pop" /\ job = "bench" /\ stack = <<>>
    /\ pc' = "done"
    /\ UNCHANGED <<job, fleet, ids, rates, hostRate, stack, node, tries, found, prev, walks,
                   at, roster, noise>>

-----------------------------------------------------------------------------
(* ASSIGN by UID in roster order; the matcher takes the id and acks from it. *)

NewId(i) == 1 + i

Assign ==
    /\ pc = "assign"
    /\ LET u == found[at] IN
       /\ \/ u \in fleet /\ ids' = [ids EXCEPT ![u] = NewId(at)] /\ noise' = noise
             /\ IF at = Len(found) THEN pc' = "done" /\ at' = at ELSE pc' = pc /\ at' = at + 1
          \/ /\ u \in fleet /\ Spend("mutes", MaxMutes) /\ pc' = "failed" /\ at' = at
             /\ ids' \in {ids, [ids EXCEPT ![u] = NewId(at)]}
          \/ u \notin fleet /\ pc' = "failed" /\ UNCHANGED <<ids, noise, at>>
    /\ UNCHANGED <<job, fleet, rates, hostRate, stack, node, tries, found, prev, walks, roster>>

-----------------------------------------------------------------------------
(* find_bus_baud: the root ENUM at each rate; any answer is an answer.       *)

\* host_baud of the next rate, then bus_present.
RateProbe ==
    /\ pc = "rate"
    /\ \E r \in Verdicts :
          /\ hostRate = at
          /\ Exchange(<<>>, r)
          /\ CASE Settled(r) -> tries' = tries + 1 /\ UNCHANGED <<pc, at, hostRate>>
               [] ~Settled(r) /\ r # Empty -> pc' = "done" /\ tries' = 0 /\ UNCHANGED <<at, hostRate>>
               [] ~Settled(r) /\ r = Empty ->
                    /\ tries' = 0
                    /\ IF at = Len(Rates) THEN pc' = "none" /\ UNCHANGED <<at, hostRate>>
                       ELSE at' = at + 1 /\ hostRate' = at + 1 /\ pc' = pc
    /\ UNCHANGED <<job, fleet, ids, rates, stack, node, found, prev, walks, roster>>

-----------------------------------------------------------------------------
(* set_baud: servo first, then the host, then the sweep.                     *)

Target == Len(Rates)
Order == InOrder(fleet)

\* The write at the old rate: applied and acked, applied with the ack lost,
\* lost, or refused (any error but a timeout ends the call).
BaudWrite ==
    /\ pc = "write" /\ at <= Cardinality(fleet)
    /\ LET u == Order[at] IN
       \/ /\ rates' = [rates EXCEPT ![u] = Target] /\ noise' = noise
          /\ at' = at + 1 /\ pc' = pc
       \/ /\ Spend("mutes", MaxMutes) /\ rates' \in {rates, [rates EXCEPT ![u] = Target]}
          /\ at' = at + 1 /\ pc' = pc
       \/ /\ Spend("garbles", MaxGarbles)
          /\ pc' = "failed" /\ UNCHANGED <<rates, at>>
    /\ UNCHANGED <<job, fleet, ids, hostRate, stack, node, tries, found, prev, walks, roster>>

HostFollows ==
    /\ pc = "write" /\ at > Cardinality(fleet)
    /\ hostRate' = Target /\ at' = 1 /\ pc' = "sweep"
    /\ UNCHANGED <<job, fleet, ids, rates, stack, node, tries, found, prev, walks, roster, noise>>

PingSweep ==
    /\ pc = "sweep"
    /\ IF at > Cardinality(fleet) THEN pc' = "done" /\ UNCHANGED <<at, roster, noise>>
       ELSE /\ \/ rates[Order[at]] = hostRate /\ roster' = roster \cup {Order[at]} /\ noise' = noise
               \/ rates[Order[at]] # hostRate /\ UNCHANGED <<roster, noise>>
               \/ rates[Order[at]] = hostRate /\ Spend("mutes", MaxMutes) /\ roster' = roster
            /\ at' = at + 1 /\ pc' = pc
    /\ UNCHANGED <<job, fleet, ids, rates, hostRate, stack, node, tries, found, prev, walks>>

-----------------------------------------------------------------------------
(* The link.                                                                 *)

\* An exchange or a host_baud is under way.
Asking ==
    \/ pc \in {"own", "sib", "sibAnyway", "leaf", "assign", "rate", "write"}
    \/ pc = "pop" /\ stack # <<>>
    \/ pc = "sweep" /\ at <= Cardinality(fleet)

\* Any error of one that is not an answer, nor a timeout where that is one,
\* is returned at once; the call's locals are gone.
LinkFails ==
    /\ Asking
    /\ pc' = "failed" /\ stack' = <<>> /\ node' = NoNode /\ tries' = 0 /\ found' = <<>>
    /\ prev' = <<>> /\ walks' = 0 /\ at' = 1 /\ roster' = {}
    /\ UNCHANGED <<job, fleet, ids, rates, hostRate, noise>>

DiscNext ==
    \/ WalkProbe \/ ConfirmOwn \/ ConfirmSibling \/ LeafProbe \/ WalkDone
    \/ BenchProbe \/ BenchDone \/ Assign \/ RateProbe
    \/ BaudWrite \/ HostFollows \/ PingSweep \/ LinkFails

DiscSpec == DiscInit /\ [][DiscNext]_discVars

-----------------------------------------------------------------------------

(* The walk's state has its types. *)
DiscTypeOK ==
    /\ hostRate \in DOMAIN Rates /\ walks \in 0 .. WalksCap
    /\ \A i \in DOMAIN stack : Len(stack[i].prefix) <= Bits
    /\ roster \subseteq fleet

Elements(s) == {s[i] : i \in DOMAIN s}

(* A finished discovery is the fleet: no servo is lost behind a clean frame, *)
(* no ghost is listed and none twice, as long as there was one ghost, fewer  *)
(* garbles than a leaf is asked again, and no more silences than one settled *)
(* probe believes: a walk that lost a subtree to them disagrees with the     *)
(* next (mgmt.rs walk, discover, "agreement across walks is what makes the   *)
(* roster trustworthy").  The bench tool walks once and does without the     *)
(* last silence (discover.rs).                                               *)
RosterTrue ==
    /\ pc \in {"done", "assign"}
    /\ job \in {"walk", "assign"} \/ (job = "bench" /\ noise.mutes <= EmptyRetries)
    => Elements(found) = fleet /\ Len(found) = Cardinality(fleet)

(* What the client's calls report about rates is so: without noise the rate  *)
(* found is one a servo is at (garble counts as an answer, so noise on a     *)
(* silent bus passes for a fleet), none is reported only on an empty bus,    *)
(* and a servo the reunion sweep calls alive has migrated (mgmt.rs           *)
(* find_bus_baud, set_baud).                                                 *)
RateTrue ==
    /\ job = "findBaud" /\ pc = "done" /\ noise.garbles = 0 => \E u \in fleet : rates[u] = hostRate
    /\ job = "findBaud" /\ pc = "none" /\ noise.mutes <= EmptyRetries => fleet = {}
    /\ job = "setBaud" => \A u \in roster : rates[u] = Target
=============================================================================
