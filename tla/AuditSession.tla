----------------------------- MODULE AuditSession -----------------------------
(* A numerical audit of the language model: pipeline/language_audit.py runs   *)
(* each stage of a sample in Float and then quantized, compares the two at    *)
(* the layer boundaries and collects the operators' rows;                     *)
(* pipeline/coordinates.py does so for the boxes of an answer, with the       *)
(* fallback's tokens in between.  One model is switched to and fro.           *)
EXTENDS QuantizationEmulator

CONSTANTS
  Answers,    \* per box: whether it is the first of a batch, and the tokens either
              \* side decodes one by one for it
  Hooks,      \* layers whose outputs are compared
  MaxAuditRuns

ASSUME SessionsAssumption ==
  /\ Answers \subseteq Seq([first : BOOLEAN, reference : Nat, candidate : Nat])
  /\ Hooks \in Nat /\ MaxAuditRuns \in Nat

VARIABLES
  owner,      \* of the model: "none", "float", "quantized", "lost"
  phase, boundaryStage, references, boundaries,   \* LanguageBoundaryCapture
  kind,       \* of the run: "none", "eager", "coordinates"
  steps, callsDone,                               \* model calls to do, number done
  operators,  \* rows collected by the run
  report,     \* of the last run that ended
  run, unfinished                                 \* number of the run; those cut short

capture == <<phase, boundaryStage, references, boundaries>>
auditVars ==
  <<emulator, owner, capture, kind, steps, callsDone, operators, report, run, unfinished>>

------------------------------------------------------------------------------
Step(on, at, side, captured) ==
  [stage |-> on, at |-> at, side |-> side, captured |-> captured]

Both(on, at) == <<Step(on, at, "reference", TRUE), Step(on, at, "candidate", TRUE)>>

(* _run_ar_fallback; a pass of it is not captured.                            *)
Fallback(side, tokens) == [i \in 1 .. tokens |-> Step("ar_q1", "unassigned", side, FALSE)]

EagerSteps(slow) ==
  Both("prefill", "prefill") \o Both("pbd_q6", "pbd_q6")
  \o IF slow THEN Both("ar_q1", "ar_q1") ELSE <<>>

FloatSteps(slow) ==
  [i \in 1 .. IF slow THEN 3 ELSE 2 |->
     Step(<<"prefill", "pbd_q6", "ar_q1">>[i], "unassigned", "reference", FALSE)]

BoxSteps(box) ==
  (IF box.first THEN Both("pbd_q6", "coordinate_pbd_q6") ELSE <<>>)
  \o Fallback("reference", box.reference) \o Fallback("candidate", box.candidate)

CoordinateSteps(boxes) ==
  LET upTo[i \in 0 .. Len(boxes)] ==
        IF i = 0 THEN Both("prefill", "coordinate_prefill")
        ELSE upTo[i - 1] \o BoxSteps(boxes[i])
  IN upTo[Len(boxes)]

Idle == owner \in {"float", "quantized"} /\ kind = "none"

------------------------------------------------------------------------------
AuditInit ==
  /\ EmulatorInit
  /\ owner = "none"
  /\ phase = "off" /\ boundaryStage = "unassigned" /\ references = {} /\ boundaries = <<>>
  /\ kind = "none" /\ steps = <<>> /\ callsDone = 0 /\ operators = <<>>
  /\ report = [run |-> 0, operators |-> <<>>, boundaries |-> <<>>] /\ run = 0 /\ unfinished = {}

NewCapture ==
  phase' = "off" /\ boundaryStage' = "unassigned" /\ references' = {} /\ boundaries' = <<>>

SameRun == UNCHANGED <<kind, steps, callsDone, operators, report, run, unfinished>>

(* LanguageEagerRunner.__init__.  Patterns that match nothing end it after    *)
(* the forwards were taken over.                                              *)
OpenQuantized ==
  /\ owner = "none" /\ run < MaxAuditRuns
  /\ \E rules \in {r \in Policies : Constructed(r)} \cup {NoPolicy} :
       /\ Install(rules)
       /\ owner' = IF rules = NoPolicy \/ Bound(rules, Inventory) THEN "installed" ELSE "none"
  /\ NewCapture /\ SameRun

SetPatterns ==
  /\ owner \in {"installed", "quantized"} /\ kind = "none"
  /\ \E patterns \in Patterns :
       /\ SetDynamicQuantizerPatterns(patterns)
       /\ owner' = IF owner = "installed" /\ ~PatternsMatch(patterns, installed)
                   THEN "lost" ELSE "quantized"
  /\ UNCHANGED capture /\ SameRun

OpenFloat ==
  /\ owner = "none" /\ run < MaxAuditRuns
  /\ owner' = "float"
  /\ NewCapture /\ SameRun /\ UNCHANGED emulator

SetPolicy ==
  /\ Idle /\ owner = "quantized"
  /\ \E rules \in {r \in Policies : Constructed(r)} \cup {NoPolicy} : SetRescuePolicy(rules)
  /\ UNCHANGED <<owner, capture>> /\ SameRun

StartAudit ==
  /\ Idle /\ run < MaxAuditRuns
  /\ run' = run + 1 /\ callsDone' = 0 /\ operators' = <<>>
  /\ \/ /\ kind' = "eager"
        /\ \E slow \in BOOLEAN :
             steps' = IF owner = "float" THEN FloatSteps(slow) ELSE EagerSteps(slow)
     \/ /\ owner = "quantized" /\ kind' = "coordinates"
        /\ \E boxes \in Answers : steps' = CoordinateSteps(boxes)
  /\ UNCHANGED <<emulator, owner, capture, report, unfinished>>

------------------------------------------------------------------------------
Current == steps[callsDone + 1]

(* The hooks of a pass that got as far as the first seen of them; a reference *)
(* overwrites the one of its stage.                                           *)
Hooked(step, seen) ==
  /\ phase' = IF step.captured THEN step.side ELSE "off"
  /\ boundaryStage' = IF step.captured THEN step.at ELSE boundaryStage
  /\ references' =
       IF step.captured /\ step.side = "reference"
       THEN {r \in references : r.at # step.at \/ r.hook > seen}
            \cup {[at |-> step.at, hook |-> hook, run |-> run, call |-> callsDone + 1]
                  : hook \in 1 .. seen}
       ELSE references
  /\ boundaries' =
       IF step.captured /\ step.side = "candidate"
       THEN boundaries
            \o [hook \in 1 .. seen |->
                  [run |-> run, call |-> callsDone + 1, hook |-> hook,
                   against |-> CHOOSE r \in references : r.at = step.at /\ r.hook = hook]]
       ELSE boundaries

Stamped(step) == [i \in DOMAIN rows' |-> [row |-> rows'[i], call |-> callsDone + 1]]

\* Mutant: a fallback token runs as the pass before it did.
TurnedOnBefore(step) == IF step.captured THEN step.side = "candidate" ELSE enabled

TurnedOn(step) == step.side = "candidate"

Refused(step) == \E op \in Operators : Refuses(TurnedOn(step), step.stage, op)

(* _pair, and the passes of LanguageCoordinateAuditor.run.                    *)
Call ==
  /\ kind # "none" /\ callsDone < Len(steps) /\ ~Refused(Current)
  /\ Forward(TurnedOn(Current), Current.stage, TRUE)
  /\ Hooked(Current, Hooks)
  /\ operators' = IF Current.captured /\ Current.side = "candidate"
                  THEN operators \o Stamped(Current) ELSE operators
  /\ callsDone' = callsDone + 1
  /\ UNCHANGED <<owner, kind, steps, report, run, unfinished>>

Protected == kind = "coordinates" /\ callsDone >= 2

FinishSample ==
  phase' = "off" /\ boundaryStage' = "unassigned" /\ references' = {} /\ boundaries' = <<>>

End(finished) ==
  /\ kind' = "none" /\ steps' = <<>> /\ callsDone' = 0 /\ operators' = <<>>
  /\ unfinished' = IF finished THEN unfinished ELSE unfinished \cup {run}
  /\ UNCHANGED <<owner, run>>

(* A pass raises, or the comparison after it: only the boxes' passes clean up.*)
CallRaises ==
  /\ kind # "none" /\ callsDone < Len(steps)
  /\ \E seen \in 0 .. Hooks :
       IF Protected THEN Disable /\ FinishSample
       ELSE Forward(TurnedOn(Current), Current.stage, TRUE) /\ Hooked(Current, seen)
  /\ UNCHANGED report
  /\ End(Protected)

(* A row with no nucleus ends the decoding of the boxes between two passes.   *)
DecodingRaises ==
  /\ Protected /\ callsDone > 2 /\ steps[callsDone].side = "candidate"
  /\ Disable /\ FinishSample /\ UNCHANGED report
  /\ End(TRUE)

Finish ==
  /\ kind # "none" /\ callsDone = Len(steps)
  /\ report' = [run |-> run, operators |-> operators, boundaries |-> boundaries]
  /\ Disable /\ FinishSample
  /\ End(TRUE)

(* close; the rows of a sample that was cut short stay behind.                *)
Close ==
  /\ Idle
  /\ owner' = "none"
  /\ CloseEmulator
  /\ references' = {} /\ UNCHANGED <<phase, boundaryStage, boundaries>>
  /\ SameRun

AuditNext ==
  OpenQuantized \/ SetPatterns \/ OpenFloat \/ SetPolicy \/ StartAudit \/ Call \/ CallRaises
  \/ DecodingRaises \/ Finish \/ Close

AuditSpec == AuditInit /\ [][AuditNext]_auditVars

------------------------------------------------------------------------------
(* Values of the variables; nothing is asked of a reference that is not there.*)
SessionTypeOK ==
  /\ owner \in {"none", "installed", "float", "quantized", "lost"}
  /\ kind \in {"none", "eager", "coordinates"} /\ callsDone \in 0 .. Len(steps)
  /\ installed \subseteq Operators /\ dynamic \subseteq installed /\ cached \subseteq installed
  /\ phase \in {"off", "reference", "candidate"}
  /\ kind # "none" /\ callsDone < Len(steps) /\ Current.captured /\ Current.side = "candidate" =>
       \A hook \in 1 .. Hooks :
         [at |-> Current.at, hook |-> hook, run |-> run, call |-> callsDone] \in references

(* After each pass the switch stands as that pass needs it: Float passes      *)
(* round nothing and quantized ones everything the policy does not rescue,    *)
(* however fallback tokens and policies alternate.                            *)
PassesOnTheirSide ==
  kind # "none" /\ callsDone > 0 /\ owner = "quantized" =>
    LET step == steps[callsDone]
        due == {op \in installed : /\ RescueModes(TRUE, step.stage, op) # {"float"}
                                   /\ Executes(TRUE, step.stage, op)
                                   /\ Kind[op] = "fake_matmul" =>
                                        RescueModes(TRUE, step.stage, op) # {"quantized"}}
    IN {rows[i].module : i \in DOMAIN rows} = IF step.side = "candidate" THEN due ELSE {}

(* The operators' rows of a run: each quantized pass that is compared has     *)
(* each of its operators once, and no other pass has any.                     *)
OperatorRowsOnce ==
  kind # "none" =>
    /\ \A i, j \in DOMAIN operators :
         i # j => operators[i].call # operators[j].call
                  \/ operators[i].row.module # operators[j].row.module
    /\ \A i \in DOMAIN operators :
         steps[operators[i].call].side = "candidate" /\ steps[operators[i].call].captured

(* Boundaries are compared with the Float pass just before, on the same       *)
(* inputs, also across batches; "boundary_scope" is prefill and PBD only.     *)
BoundariesPaired ==
  \A i \in DOMAIN boundaries :
    LET row == boundaries[i]
    IN /\ row.against.run = row.run /\ row.against.call = row.call - 1
       /\ row.run = run /\ kind = "coordinates" => steps[row.call].stage # "ar_q1"

(* What a run reports is its own, or what runs that failed before it left in  *)
(* the capture.                                                               *)
ReportsItsOwn ==
  \A i \in DOMAIN report.boundaries :
    report.boundaries[i].run \in {report.run} \cup unfinished

(* Between runs the model is in Float and nothing is captured, unless a run   *)
(* was cut short where nobody cleans up.                                      *)
FloatBetweenRuns ==
  Idle /\ run > 0 /\ run \notin unfinished => ~enabled /\ phase = "off" /\ references = {}

(* A model that nobody has runs its own forwards, all of them.                *)
ModelLeftAlone ==
  /\ owner = "none" => installed = {}
  /\ owner \in {"installed", "quantized", "lost"} => installed = Inventory

(* While the emulator has the model, quantizers keep the ranges they were     *)
(* calibrated to; only what it does not take over may be moved: norms, whose  *)
(* calibrated scales an audit may raise, and quantizers without a range.      *)
CalibrationKept == installed # {} => moved' \ moved \subseteq RMSNorms \cup Uncalibrated

(* Float and quantized passes, their rows and their boundaries stay apart,    *)
(* and no audit moves the calibrated range of a quantizer (norms observe      *)
(* through every audit), for one model in one session after another.          *)
AuditSound ==
  /\ [](/\ SessionTypeOK /\ PassesOnTheirSide /\ OperatorRowsOnce /\ BoundariesPaired
        /\ ReportsItsOwn /\ FloatBetweenRuns /\ ModelLeftAlone)
  /\ [][CalibrationKept]_auditVars
==============================================================================
