------------------------- MODULE QuantizationEmulator -------------------------
(* pipeline/quantization.py: the emulator that takes over the forwards of a   *)
(* model's quantized operators, the policies that rescue some of them to      *)
(* Float, and what an operator quantizes under each mode.                     *)
EXTENDS Integers, Sequences, FiniteSets

CONSTANTS
  Ops,          \* the operators, in the order a forward runs them
  Kind,         \* [operator -> "linear", "matmul", "fake_matmul", "static"]
  Inside,       \* [operator -> the fake matmul it belongs to, or NoOp]
  Uncalibrated, \* static quantizers with no absmax
  RMSNorms,     \* norms, each with a scale of its own that no emulator knows of
  WVMatmuls,    \* operators named *.wv_matmul
  Policies,     \* sequences of rules [ops, stages, kinds, mode]
  Patterns,     \* sets of operators that dynamic quantizer patterns match
  NoOp, NoPolicy

ASSUME OperatorsGiven ==
  /\ Ops \in Seq(DOMAIN Kind)
  /\ \A i, j \in DOMAIN Ops : Ops[i] = Ops[j] => i = j
  /\ \A op \in DOMAIN Kind : Kind[op] \in {"linear", "matmul", "fake_matmul", "static"}
  /\ RMSNorms \cap DOMAIN Kind = {}
  /\ NoPolicy \notin Policies

VARIABLES
  installed, enabled, stage, rows, policy, dynamic, cached,
  moved         \* quantizers and norms whose scale a forward has raised

emulator == <<installed, enabled, stage, rows, policy, dynamic, cached, moved>>

Operators == {Ops[i] : i \in DOMAIN Ops}

------------------------------------------------------------------------------
Modes(kind) ==
  CASE kind = "linear" -> {"quantized", "float", "float_weight", "float_activation"}
    [] kind = "matmul" -> {"quantized", "float"}
    [] kind = "fake_matmul" -> {"quantized", "float", "centered_value_s8"}
    [] kind = "static" -> {"quantized", "float", "nonnegative_u8"}

(* FloatRescueRule and FloatRescuePolicy: what may be constructed.            *)
Constructed(rules) ==
  \A i \in DOMAIN rules :
    /\ rules[i].stages # {} /\ rules[i].kinds # {}
    /\ \A kind \in rules[i].kinds : rules[i].mode \in Modes(kind)

(* __init__: static quantizers are taken over if they have a scale.           *)
Patchable(op) == Kind[op] = "static" => op \notin Uncalibrated

Inventory == {op \in Operators : Patchable(op)}

Ruled(rule, op) == Kind[op] \in rule.kinds /\ op \in rule.ops

(* bind: every rule has to match something.                                   *)
Bound(rules, inventory) == \A i \in DOMAIN rules : \E op \in inventory : Ruled(rules[i], op)

Matching(rules, on, op) ==
  {rules[i].mode : i \in {j \in DOMAIN rules : /\ rules[j].stages \cap {"*", on} # {}
                                               /\ Ruled(rules[j], op)}}

------------------------------------------------------------------------------
(* _rescue_mode; "observed" stands for the forward that was there before.     *)
RescueModes(turnedOn, on, op) ==
  IF op \notin installed THEN {"observed"}
  ELSE IF ~turnedOn THEN {"float"}
  ELSE IF policy = NoPolicy \/ Matching(policy, on, op) = {} THEN {"quantized"}
  ELSE Matching(policy, on, op)

Mode(turnedOn, on, op) == CHOOSE mode \in RescueModes(turnedOn, on, op) : TRUE

(* A quantizer inside a fake matmul runs when that runs its own forward.      *)
Executes(turnedOn, on, op) ==
  Inside[op] # NoOp => Mode(turnedOn, on, Inside[op]) \in {"quantized", "observed"}

(* The forwards that raise: rules in conflict, or a centering without values. *)
Refuses(turnedOn, on, op) ==
  /\ Executes(turnedOn, on, op)
  /\ \/ Cardinality(RescueModes(turnedOn, on, op)) > 1
     \/ Mode(turnedOn, on, op) = "centered_value_s8" /\ op \notin WVMatmuls

(* _linear_forward, _matmul_forward, _fake_matmul_forward, _static_forward:   *)
(* what they round.                                                           *)
Rounded(op, mode) ==
  IF mode \in {"float", "observed"} THEN {}
  ELSE CASE Kind[op] = "linear" ->
              (IF mode = "float_activation" THEN {} ELSE {"activation"})
              \cup (IF mode = "float_weight" THEN {} ELSE {"weight"})
         [] Kind[op] = "matmul" -> {"left", "right"}
         [] Kind[op] = "fake_matmul" ->
              IF mode = "quantized" THEN {} ELSE {"left", "right"}
         [] Kind[op] = "static" ->
              {IF mode = "nonnegative_u8" THEN "unsigned"
               ELSE IF op \in dynamic THEN "dynamic" ELSE "static"}

(* The rows a forward records, in order.                                      *)
Records(turnedOn, on, op) ==
  Executes(turnedOn, on, op) /\ Rounded(op, Mode(turnedOn, on, op)) # {}

Row(turnedOn, on, op) == [module |-> op, rounded |-> Rounded(op, Mode(turnedOn, on, op))]

Recorded(turnedOn, on) ==
  LET upTo[i \in 0 .. Len(Ops)] ==
        IF i = 0 THEN <<>>
        ELSE IF Records(turnedOn, on, Ops[i])
             THEN Append(upTo[i - 1], Row(turnedOn, on, Ops[i]))
        ELSE upTo[i - 1]
  IN upTo[Len(Ops)]

(* set_enabled starts the rows of a pass.                                     *)
Cleared == <<>>

(* The scales a forward raises if it sees a new peak: those of quantizers     *)
(* left to their own forwards, and of every norm, in Float and quantized.     *)
Observing(turnedOn, on) ==
  RMSNorms \cup {op \in Operators : /\ Kind[op] = "static" /\ Executes(turnedOn, on, op)
                                    /\ Mode(turnedOn, on, op) = "observed"}

(* set_stage, set_enabled and a forward of the model, up to an operator that  *)
(* refuses, if any.                                                           *)
Forward(turnedOn, on, capturing) ==
  /\ enabled' = turnedOn /\ stage' = on
  /\ rows' = IF capturing THEN Cleared \o Recorded(turnedOn, on) ELSE Cleared
  /\ cached' = cached \cup {op \in installed : "weight" \in Rounded(op, Mode(turnedOn, on, op))}
  /\ \E raised \in SUBSET Observing(turnedOn, on) : moved' = moved \cup raised
  /\ UNCHANGED <<installed, policy, dynamic>>

Disable ==
  /\ enabled' = FALSE /\ rows' = Cleared
  /\ UNCHANGED <<installed, stage, policy, dynamic, cached, moved>>

------------------------------------------------------------------------------
EmulatorInit ==
  /\ installed = {} /\ enabled = FALSE /\ stage = "unassigned" /\ rows = <<>>
  /\ policy = NoPolicy /\ dynamic = {} /\ cached = {} /\ moved = {}

(* __init__; a policy that cannot be bound gives the forwards back.           *)
InstalledUnlessRefused(rules) ==
  IF rules = NoPolicy \/ Bound(rules, Inventory) THEN Inventory ELSE {}

Install(rules) ==
  /\ installed' = InstalledUnlessRefused(rules)
  /\ policy' = IF installed' = {} THEN NoPolicy ELSE rules
  /\ enabled' = FALSE /\ stage' = "unassigned" /\ rows' = <<>>
  /\ dynamic' = {} /\ cached' = {} /\ UNCHANGED moved

(* set_rescue_policy; the policy in force stays if the new one is refused.    *)
SetRescuePolicy(rules) ==
  /\ policy' = IF rules = NoPolicy \/ Bound(rules, installed) THEN rules ELSE policy
  /\ UNCHANGED <<installed, enabled, stage, rows, dynamic, cached, moved>>

(* set_dynamic_quantizer_patterns: each pattern has to match a quantizer.     *)
PatternsMatch(patterns, inventory) ==
  \A pattern \in patterns : \E op \in pattern \cap inventory : Kind[op] = "static"

Matched(patterns, inventory) ==
  {op \in inventory \cap UNION patterns : Kind[op] = "static"}

SetDynamicQuantizerPatterns(patterns) ==
  /\ dynamic' = IF PatternsMatch(patterns, installed) THEN Matched(patterns, installed)
                ELSE dynamic
  /\ UNCHANGED <<installed, enabled, stage, rows, policy, cached, moved>>

CloseEmulator ==
  /\ installed' = {} /\ policy' = NoPolicy /\ dynamic' = {} /\ cached' = {}
  /\ UNCHANGED <<enabled, stage, rows, moved>>
==============================================================================
