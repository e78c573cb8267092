---------------------------- MODULE ReplayContexts ----------------------------
(***************************************************************************)
(* The histories activation calibration replays.  For every prepared       *)
(* bundle calibrate.py plans one base context, and for a long Detection    *)
(* answer one more at the tail of the target; every decode graph is then   *)
(* replayed behind each (ReplayAttention).  At the end the plan is audited *)
(* from the coverage records alone, after the hours the replay took.       *)
(*                                                                         *)
(* A token stream is its length and the offsets of its structural tokens   *)
(* (<ref>, <box>); token i of stream s is <<s, i>>.  A bundle is named by  *)
(* the sequence number in front of its id.                                 *)
(***************************************************************************)
EXTENDS Integers, Sequences, FiniteSets

CONSTANTS
  Payloads,    \* the prepared bundles there may be
  Samples,     \* bundles in the manifest
  ChunkSize,   \* tokens a prefill takes
  CacheLen,    \* kv width of the decode graphs
  Pending,     \* tokens kept behind the history: 6
  LongSuffix,  \* a target with as long a history gets a context of its own: 32
  Slots        \* positions the base contexts rotate through: 5

ContextAssumption ==
  /\ Samples \in Nat \ {0}
  /\ Pending \in Nat \ {0} /\ LongSuffix \in Nat \ {0} /\ Slots \in Nat \ {0, 1}
  /\ ChunkSize + 2 * Pending <= CacheLen

VARIABLES
  bundles, \* the bundles planned so far
  records, \* their coverage records
  status,  \* "planning", "audited" or "failed"
  errors   \* what the audit of the records complained about

vars == <<bundles, records, status, errors>>

-----------------------------------------------------------------------------
Smaller(a, b) == IF a < b THEN a ELSE b

\* The element of a set of numbers with k smaller ones.
Nth(S, k) == CHOOSE x \in S : Cardinality({y \in S : y < x}) = k

Positive(S) == {x \in S : x > 0}

MaxSuffix(p) == ChunkSize - p.prompt

\* The last offset with a whole block of pending tokens behind it.
Latest(p, s) == Smaller(MaxSuffix(p), p.streams[s].len - Pending)

\* _structural_offsets: the start of a stream, and its structural tokens.
StructuralOffsets(p, s) ==
  IF Latest(p, s) < 0 THEN {}
  ELSE {0} \cup {k \in p.streams[s].marks : k <= Latest(p, s)}

\* Detection targets only: the history they could fill, and its boundaries.
TargetUsable(p) ==
  IF p.task = "detection" /\ p.streams["target"].len > 0 /\ Latest(p, "target") > 0
  THEN Latest(p, "target") ELSE 0

TargetEligible(p) ==
  IF p.task = "detection" /\ p.streams["target"].len > 0
  THEN Positive(StructuralOffsets(p, "target")) ELSE {}

\* required_detection_target_offsets.
Required(eligible, usable) ==
  IF usable < LongSuffix \/ eligible = {} THEN {}
  ELSE {Nth(eligible, Cardinality(eligible) - 1)}

Slot(p) == p.bundle % Slots

\* The streams that have tokens, starting with the one the number prefers.
StreamOrder(p) ==
  LET filled == SelectSeq(<<"target", "hybrid">>, LAMBDA s : p.streams[s].len > 0)
      n == Len(filled)
  IN [i \in 1 .. n |-> filled[((i - 1 + p.bundle \div Slots) % n) + 1]]

Candidates(p) ==
  LET usable == SelectSeq(StreamOrder(p), LAMBDA s : StructuralOffsets(p, s) # {})
      deep == SelectSeq(usable, LAMBDA s : Positive(StructuralOffsets(p, s)) # {})
  IN IF Slot(p) # 0 /\ deep # <<>> THEN deep ELSE usable

\* The boundary a slot picks: round((slot - 1) * last / (Slots - 2)), where no
\* quotient of the five slots is half-way between two indices.
SlotOffset(offsets, slot) ==
  LET deep == Positive(offsets)
      last == Cardinality(deep) - 1
  IN IF slot = 0 \/ deep = {} THEN 0
     ELSE Nth(deep, (2 * (slot - 1) * last + Slots - 2) \div (2 * (Slots - 2)))

Tokens(p, s, from, n) ==
  LET available == Smaller(n, p.streams[s].len - from)
  IN [i \in 1 .. (IF available < 0 THEN 0 ELSE available) |-> <<s, from + i - 1>>]

\* select_decode_tokens: prediction, then target, repeated to the length asked.
FallbackTokens(p) ==
  LET combined == Tokens(p, "hybrid", 0, p.streams["hybrid"].len)
                    \o Tokens(p, "target", 0, p.streams["target"].len)
  IN [i \in 1 .. (IF combined = <<>> THEN 0 ELSE Pending) |->
        combined[((i - 1) % Len(combined)) + 1]]

\* A context, and the fields of its coverage record.
Context(p, role, source, slot, offset, pending) ==
  [bundle   |-> p.bundle,   task    |-> p.task,
   role     |-> role,       source  |-> source,   slot   |-> slot,
   offset   |-> offset,     pending |-> pending,
   anchor   |-> IF offset > 0 THEN <<source, offset - 1>> ELSE <<"prompt", p.prompt - 1>>,
   prompt   |-> p.prompt,   past    |-> p.prompt + offset,
   maxSuffix |-> MaxSuffix(p),
   usable   |-> TargetUsable(p), eligible |-> TargetEligible(p),
   required |-> Required(TargetEligible(p), TargetUsable(p))]

ContextId(c) == <<c.bundle, c.source, c.offset>>

\* select_decode_replay_context.
BaseContext(p) ==
  IF Candidates(p) = <<>>
  THEN Context(p, "base", "fallback", Slot(p), 0, FallbackTokens(p))
  ELSE LET s == Head(Candidates(p))
           offset == SlotOffset(StructuralOffsets(p, s), Slot(p))
       IN Context(p, "base", s, Slot(p), offset, Tokens(p, s, offset, Pending))

\* Mutant: the tail is left out whenever the base is taken from the target.
TailContextsSource(p) ==
  {c \in {Context(p, "target_tail", "target", -1, o, Tokens(p, "target", o, Pending)) :
            o \in BaseContext(p).required} :
     BaseContext(p).source # "target"}

\* select_decode_replay_contexts: the tail of a long target, unless the base
\* context is that already.
TailContexts(p) ==
  {c \in {Context(p, "target_tail", "target", -1, o, Tokens(p, "target", o, Pending)) :
            o \in BaseContext(p).required} :
     ContextId(c) # ContextId(BaseContext(p))}

PlannedContexts(p) == {BaseContext(p)} \cup TailContexts(p)

-----------------------------------------------------------------------------
\* summarize_decode_context_coverage, from the records alone.
Of(b) == {c \in records : c.bundle = b}
Planned == {c.bundle : c \in records}

ContextErrors ==
  UNION {
    {e \in {"suffix", "cache"} :
       \/ e = "suffix" /\ ~(c.offset \in 0 .. c.maxSuffix)
       \/ e = "cache" /\ c.past + 2 * Pending > CacheLen} : c \in records}

BundleErrors(b) ==
  LET base == CHOOSE c \in Of(b) : c.role = "base"
      required == IF base.task = "detection" THEN Required(base.eligible, base.usable)
                  ELSE {}
      tails == {c \in Of(b) : c.role # "base"}
      fromTarget == {c.offset : c \in {d \in Of(b) : d.source = "target"}}
  IN IF Cardinality({c \in Of(b) : c.role = "base"}) # 1 THEN {"base count"}
     ELSE {e \in {"contexts", "eligible", "boundary", "required", "differs",
                  "supplemental", "unexpected", "missing"} :
             \/ e = "contexts" /\ Cardinality(Of(b)) > 2
             \/ e = "eligible" /\ \E o \in base.eligible : o > base.usable
             \/ /\ e = "boundary"
                /\ base.task = "detection" /\ base.usable >= LongSuffix
                /\ base.eligible = {}
             \/ e = "required" /\ base.required # required
             \/ e = "differs" /\ \E c \in Of(b) : <<c.usable, c.eligible, c.required>>
                                                    # <<base.usable, base.eligible, base.required>>
             \/ e = "supplemental" /\ \E c \in tails : c.task # "detection" \/ c.source # "target"
             \/ e = "unexpected" /\ \E c \in tails : c.offset \notin required
             \/ e = "missing" /\ ~(required \subseteq fromTarget)}

DatasetErrors ==
  LET deep(c) == c.offset >= LongSuffix
      detection == {c \in records : c.task = "detection"}
  IN {e \in {"samples", "ids", "no prompt boundary", "no history", "shallow",
             "shallow detection"} :
        \/ e = "samples" /\ Cardinality(Planned) # Samples
        \/ e = "ids" /\ Cardinality({ContextId(c) : c \in records}) # Cardinality(records)
        \/ e = "no prompt boundary" /\ ~\E c \in records : c.offset = 0
        \/ e = "no history" /\ ~\E c \in records : c.offset > 0
        \/ e = "shallow" /\ ~\E c \in records : deep(c)
        \/ e = "shallow detection" /\ detection # {} /\ ~\E c \in detection : deep(c)}

AuditErrors == ContextErrors \cup DatasetErrors \cup UNION {BundleErrors(b) : b \in Planned}

-----------------------------------------------------------------------------
Init ==
  /\ bundles = {}
  /\ records = {}
  /\ status = "planning"
  /\ errors = {}

\* The next bundle of the manifest; one without any answer token ends the run.
Plan(p) ==
  /\ status = "planning"
  /\ Cardinality(bundles) < Samples
  /\ \A q \in bundles : q.bundle # p.bundle
  /\ bundles' = bundles \cup {p}
  /\ IF \A c \in PlannedContexts(p) : Len(c.pending) = Pending
     THEN records' = records \cup PlannedContexts(p) /\ UNCHANGED status
     ELSE status' = "failed" /\ UNCHANGED records
  /\ UNCHANGED errors

Audit ==
  /\ status = "planning"
  /\ Cardinality(bundles) = Samples
  /\ status' = "audited"
  /\ errors' = AuditErrors
  /\ UNCHANGED <<bundles, records>>

Finished == status # "planning" /\ UNCHANGED vars

Next == (\E p \in Payloads : Plan(p)) \/ Audit \/ Finished

Spec == Init /\ [][Next]_vars

-----------------------------------------------------------------------------
HasAnswer(p) == \E s \in DOMAIN p.streams : p.streams[s].len > 0

PayloadOf(b) == CHOOSE p \in bundles : p.bundle = b

\* The boundaries of a stream a full block of pending tokens still follows.
Boundaries(p, s) ==
  {k \in p.streams[s].marks :
     k > 0 /\ k + Pending <= p.streams[s].len /\ p.prompt + k <= ChunkSize}

-----------------------------------------------------------------------------
\* Only a bundle without any answer token stops the plan.
TypeOK ==
  /\ bundles \subseteq Payloads /\ Cardinality(bundles) <= Samples
  /\ Planned \subseteq {p.bundle : p \in bundles}
  /\ status \in {"planning", "audited", "failed"}
  /\ status = "failed" <=> \E p \in bundles : ~HasAnswer(p)

\* Every planned context is one the decode graphs can be replayed behind: its
\* history and the widest query fit, its pending tokens are a full block that
\* goes on where the history ends, and its anchor is the token before them.
ContextsReplayable ==
  \A c \in records :
    /\ c.past <= ChunkSize /\ c.past + 2 * Pending <= CacheLen
    /\ Len(c.pending) = Pending
    /\ c.anchor = IF c.past > c.prompt THEN <<c.source, c.past - c.prompt - 1>>
                  ELSE <<"prompt", c.prompt - 1>>
    /\ c.source # "fallback" =>
         \A i \in 1 .. Pending :
           /\ c.pending[i] = <<c.source, c.past - c.prompt + i - 1>>
           /\ c.past - c.prompt + i <= PayloadOf(c.bundle).streams[c.source].len
    /\ c.source = "fallback" =>
         \A s \in DOMAIN PayloadOf(c.bundle).streams :
           PayloadOf(c.bundle).streams[s].len < Pending

\* A long Detection answer with boundaries is replayed at its deepest one, by
\* the base context or by one more, whatever slot and stream the base took.
LongTargetsReplayed ==
  \A p \in bundles :
    LET deepest == {k \in Boundaries(p, "target") :
                      \A j \in Boundaries(p, "target") : j <= k}
        usable == Smaller(ChunkSize - p.prompt, p.streams["target"].len - Pending)
    IN p.task = "detection" /\ usable >= LongSuffix =>
         \A k \in deepest :
           \E c \in records : ContextId(c) = <<p.bundle, "target", k>>

\* The audit accepts what the planner plans: it complains only of a long
\* Detection target without a boundary, and of a set of bundles in which no
\* history is empty, or none is long enough.
AuditFindsWhatIsMissing ==
  status = "audited" =>
    /\ "boundary" \in errors <=>
         \E p \in bundles :
           /\ p.task = "detection" /\ Boundaries(p, "target") = {}
           /\ p.streams["target"].len - Pending >= LongSuffix
           /\ ChunkSize - p.prompt >= LongSuffix
    /\ errors \subseteq {"boundary", "no prompt boundary", "no history", "shallow",
                         "shallow detection"}
    /\ "shallow" \in errors => "shallow detection" \in errors
                               \/ \A p \in bundles : p.task # "detection"

\* Slot zero preserves the prompt boundary; the remaining slots of one stream
\* pick progressively deeper boundaries, from the first to the last, all
\* different when there are as many boundaries as slots.
SlotsDeepen ==
  \A p \in bundles :
    \A s \in DOMAIN p.streams :
      LET offsets == StructuralOffsets(p, s)
          at(slot) == SlotOffset(offsets, slot)
          deep == Boundaries(p, s)
      IN offsets # {} =>
           /\ at(0) = 0
           /\ deep # {} => \A k \in deep : at(1) <= k /\ k <= at(Slots - 1)
           /\ \A slot \in 1 .. Slots - 2 :
                at(slot) <= at(slot + 1)
                /\ (Cardinality(deep) >= Slots - 1 => at(slot) < at(slot + 1))

\* All of these of every plan.
ContextsSound ==
  /\ TypeOK /\ ContextsReplayable /\ LongTargetsReplayed /\ SlotsDeepen
  /\ AuditFindsWhatIsMissing
=============================================================================
