------------------------------ MODULE Calibration ------------------------------
(***************************************************************************)
(* Activation calibration: run_calibrate.sh keeps the job's exit record,   *)
(* calibrate.py replays the prepared samples through the tracked modules,  *)
(* publishes the scales and the audits file by file, and decides last      *)
(* whether the run was any good; a build restores the scales from the      *)
(* published file.  The files outlive the run, a run may be killed or      *)
(* cancelled at any point, and runs with other settings may follow.        *)
(*                                                                         *)
(* What a tracked module is shown by one call is the largest magnitude in  *)
(* its input: a number, Inf or NaN, or Unseen when the call passes it by.  *)
(***************************************************************************)
EXTENDS Integers, Sequences, FiniteSets

CONSTANTS
  Points,       \* tracked modules of every component
  Norms,        \* those that are norms; the others are ConstFakeQuant
  DataSets,     \* prepared samples there may be, in replay order
  Settings,     \* [component, profile, requested, detailed] of a run
  Standard,     \* STANDARD_CONVERGENCE_CHECKPOINTS
  MaxRuns       \* bound: runs started

Components == {"vision", "language"}
Inf == 1000
NaN == -1
Unseen == -2
None == [run |-> 0]

(* What a call can show a module, and the samples made of such calls.        *)
Values == {Unseen, NaN} \cup 0 .. Inf
Samples == [vision : [Points["vision"] -> Values],
            language : Seq([Points["language"] -> Values])]

ASSUME CalibrationAssumption ==
  /\ DOMAIN Points = Components
  /\ Norms \subseteq Points["language"]
  /\ DataSets \subseteq Seq(Samples)
  /\ \A s \in Settings :
       /\ s.component \in Components \cup {"all"}
       /\ s.requested # {} /\ s.requested \subseteq Nat \ {0} /\ IsFiniteSet(s.requested)
       /\ s.detailed \in BOOLEAN
  /\ MaxRuns \in Nat

VARIABLES
  runs,        \* runs started
  job,         \* [settings, data] of the run
  pc,          \* where it is
  done,        \* samples of this phase replayed
  module,      \* the state of every tracked module
  snaps,       \* snapshots taken, by component and number of samples
  contexts,    \* language contexts planned
  interrupted, \* the wrapper was sent SIGINT
  record,      \* the exit record
  disk,        \* the published files
  built        \* what a build has restored last

progress == <<done, module, snaps, contexts>>
vars == <<runs, job, pc, progress, interrupted, record, disk, built>>

Stopped == {"idle", "exited", "killed"}

-----------------------------------------------------------------------------
(* Checkpoints.  A single number asked for brings the standard ones below it *)
(* along.                                                                    *)
Largest(S) == CHOOSE x \in S : \A y \in S : x >= y
Legacy(s) == Largest(s.requested)
Configured(s) ==
  IF Cardinality(s.requested) > 1 THEN s.requested
  ELSE s.requested \cup {k \in Standard : k <= Legacy(s)}
Evaluated(s, total) == {k \in Configured(s) : k <= total}

SnapshotSamples(s, total) == Evaluated(s, total) \cup {total}

Runs(component) == job.settings.component \in {component, "all"}
Total == Len(job.data)

-----------------------------------------------------------------------------
(* Tracked modules.                                                          *)
Fresh == [range |-> Unseen, executed |-> FALSE, nonfinite |-> FALSE]
Finite(v) == v >= 0 /\ v < Inf

\* ConstFakeQuant.forward: torch.maximum from zero; NaN propagates.
Peak(range, shown) ==
  IF NaN \in {range, shown} THEN NaN
  ELSE IF shown > range THEN shown ELSE range

\* RMSNorm.forward: a comparison; NaN stays if first and is passed over later.
NormPeak(range, shown) ==
  IF range = Unseen \/ (range # NaN /\ shown > range) THEN shown ELSE range

\* Mutant: the hook does not look for values that are not finite.
ShowBlind(p, state, shown) ==
  IF shown = Unseen THEN state
  ELSE [range |-> IF p \in Norms THEN NormPeak(state.range, shown)
                  ELSE Peak(state.range, shown),
        executed |-> TRUE, nonfinite |-> FALSE]

(* One call of a module: its own range and the tracker's hook.               *)
Show(p, state, shown) ==
  IF shown = Unseen THEN state
  ELSE [range |-> IF p \in Norms THEN NormPeak(state.range, shown)
                  ELSE Peak(state.range, shown),
        executed |-> TRUE,
        nonfinite |-> state.nonfinite \/ ~Finite(shown)]

\* The forward calls of a sample: one for vision, one context after another
\* for language (every decode graph sees what the context shows).
CallsOf(component, sample) ==
  IF component = "vision" THEN <<sample.vision>> ELSE sample.language

ShowAll(component, state, calls) ==
  LET after[k \in 0 .. Len(calls)] ==
        IF k = 0 THEN state
        ELSE [p \in Points[component] |->
               Show(p, after[k - 1][p], calls[k][p])]
  IN after[Len(calls)]

\* The range that is read back: a ConstFakeQuant starts at zero.
RangeOf(p, state) ==
  IF p \notin Norms /\ state.range = Unseen THEN 0 ELSE state.range

Snapshot(state) ==
  [p \in DOMAIN state |-> [state[p] EXCEPT !.range = RangeOf(p, state[p])]]

-----------------------------------------------------------------------------
(* Audits.                                                                   *)
PointValid(p, entry) ==
  /\ entry.executed /\ ~entry.nonfinite
  /\ Finite(entry.range)
  /\ p \in Norms \/ entry.range > 0

AuditPassed(snapshot) == \A p \in DOMAIN snapshot : PointValid(p, snapshot[p])

Done(component) == DOMAIN snaps[component] # {}
AuditsPassed ==
  \A c \in Components : Done(c) => AuditPassed(snaps[c][Total])

\* A norm's scale is at least one; the square root is left out.
Metric(p, entry) ==
  IF p \in Norms THEN (IF entry.range > 1 THEN entry.range ELSE 1)
  ELSE entry.range

\* Mutant: only a scale that fell has drifted.
OutliersFallen(before, after) ==
  {p \in DOMAIN after :
    /\ {NaN, Inf} \cap {after[p].range, before[p].range} = {}
    /\ 10 * (Metric(p, before[p]) - Metric(p, after[p])) > Metric(p, after[p])}

\* compare_snapshots: points that drifted by more than a tenth; a drift that is
\* not a number names none.
Outliers(before, after) ==
  {p \in DOMAIN after :
    LET drift == Metric(p, after[p]) - Metric(p, before[p])
    IN /\ {NaN, Inf} \cap {after[p].range, before[p].range} = {}
       /\ 10 * (IF drift < 0 THEN 0 - drift ELSE drift) > Metric(p, after[p])}

Compared(component) ==
  [k \in DOMAIN snaps[component] \ {Total} |->
    Outliers(snaps[component][k], snaps[component][Total])]

-----------------------------------------------------------------------------
NoSnapshots == [c \in Components |-> <<>>]
Untouched == [c \in Components |-> [p \in Points[c] |-> Fresh]]

Init ==
  /\ runs = 0 /\ pc = "idle" /\ done = 0
  /\ job = None /\ module = Untouched /\ snaps = NoSnapshots /\ contexts = 0
  /\ interrupted = FALSE
  /\ record = [run |-> 0, status |-> "none"]
  /\ disk = [scales |-> None, coverage |-> None, convergence |-> None,
             legacy |-> <<>>, report |-> None]
  /\ built = None

\* The wrapper writes its record before calibrate.py starts.
Start(settings, data) ==
  /\ pc \in Stopped /\ runs < MaxRuns
  /\ runs' = runs + 1
  /\ job' = [settings |-> settings, data |-> data]
  /\ pc' = "check" /\ interrupted' = FALSE
  /\ record' = [run |-> runs', status |-> "running"]
  /\ done' = 0 /\ module' = Untouched /\ snaps' = NoSnapshots /\ contexts' = 0
  /\ UNCHANGED <<disk, built>>

\* finish_job
Ended(passed) ==
  /\ pc' = "exited"
  /\ record' = [record EXCEPT !.status =
       IF interrupted THEN "cancelled" ELSE IF passed THEN "succeeded" ELSE "failed"]

FirstPhase == IF Runs("vision") THEN "vision" ELSE "language"

\* Everything before the models are loaded.
Check ==
  /\ pc = "check"
  /\ IF Legacy(job.settings) < Total
     THEN pc' = FirstPhase /\ UNCHANGED record
     ELSE Ended(FALSE)
  /\ UNCHANGED <<runs, job, progress, interrupted, disk, built>>

Taken(component, state, k) ==
  [i \in DOMAIN snaps[component] \cup {k} |->
    IF i = k THEN Snapshot(state) ELSE snaps[component][i]]

\* One sample of the current component, and the snapshot if one is due.
Replay(component) ==
  /\ pc = component /\ done < Total
  /\ LET calls == CallsOf(component, job.data[done + 1])
         after == ShowAll(component, module[component], calls)
     IN /\ done' = done + 1
        /\ module' = [module EXCEPT ![component] = after]
        /\ contexts' = IF component = "language" THEN contexts + Len(calls)
                       ELSE contexts
        /\ snaps' = IF done' \in SnapshotSamples(job.settings, Total)
                    THEN [snaps EXCEPT ![component] =
                           Taken(component, after, done')]
                    ELSE snaps
  /\ UNCHANGED <<runs, job, pc, interrupted, record, disk, built>>

\* The other component, or the publication.
Replayed(component) ==
  /\ pc = component /\ done = Total
  /\ done' = 0
  /\ pc' = IF component = "vision" /\ Runs("language") THEN "language" ELSE "scales"
  /\ UNCHANGED <<runs, job, module, snaps, contexts, interrupted, record, disk, built>>

Publish(from, file, content, to) ==
  /\ pc = from /\ pc' = to
  /\ disk' = [disk EXCEPT ![file] = content]
  /\ UNCHANGED <<runs, job, progress, interrupted, record, built>>

\* calibration_scale_manifest.json; data is what the scales were taken from.
PublishScales ==
  Publish("scales", "scales",
          [run |-> runs, settings |-> job.settings, count |-> Total,
           snaps |-> snaps, data |-> job.data], "coverage")

\* calibration_graph_coverage.json; whether the language contexts cover what
\* they must is for ReplayContexts to say.
PublishCoverage ==
  \E covered \in IF Done("language") THEN BOOLEAN ELSE {TRUE} :
    Publish("coverage", "coverage",
            [run |-> runs, contexts |-> contexts, audited |-> AuditsPassed,
             covered |-> covered], "convergence")

\* scale_convergence.json
PublishConvergence ==
  Publish("convergence", "convergence",
          [run |-> runs, compared |-> [c \in Components |->
             IF Done(c) THEN Compared(c) ELSE <<>>]], "legacy")

\* scale_convergence_<checkpoint>_vs_<full>.json, if a snapshot fell on it.
PublishLegacy ==
  LET name == <<Legacy(job.settings), Total>>
      due == \E c \in Components : Legacy(job.settings) \in DOMAIN snaps[c]
  IN Publish("legacy", "legacy",
             IF due THEN [n \in DOMAIN disk.legacy \cup {name} |->
                           IF n = name THEN runs ELSE disk.legacy[n]]
             ELSE disk.legacy,
             IF job.settings.detailed THEN "report" ELSE "verdict")

\* generate_activation_report: the figures may be missing, which fails the run
\* with everything but the figures in place.
Report ==
  /\ pc = "report"
  /\ \E drawn \in BOOLEAN :
       /\ disk' = [disk EXCEPT !.report = [run |-> runs, drawn |-> drawn]]
       /\ IF drawn THEN pc' = "verdict" /\ UNCHANGED record ELSE Ended(FALSE)
  /\ UNCHANGED <<runs, job, progress, interrupted, built>>

(* The raises at the end of run, by the coverage it has just published.      *)
Verdict == disk.coverage.audited /\ disk.coverage.covered

Judge ==
  /\ pc = "verdict"
  /\ Ended(Verdict)
  /\ UNCHANGED <<runs, job, progress, interrupted, disk, built>>

Running == pc \notin Stopped

\* A tensor that is missing or of another profile, a full device, a full disk.
Breaks ==
  /\ Running
  /\ Ended(FALSE)
  /\ UNCHANGED <<runs, job, progress, interrupted, disk, built>>

\* cancel_job on SIGTERM or SIGHUP: the child dies of it.
Cancel ==
  /\ Running
  /\ pc' = "exited"
  /\ record' = [record EXCEPT !.status = "cancelled"]
  /\ UNCHANGED <<runs, job, progress, interrupted, disk, built>>

\* cancel_job on SIGINT: a background child of a shell without job control
\* ignores it, and the wrapper waits for it to come to its end.
Interrupt ==
  /\ Running /\ ~interrupted
  /\ interrupted' = TRUE
  /\ UNCHANGED <<runs, job, pc, progress, record, disk, built>>

\* Wrapper and replay both gone, without a word.
Kill ==
  /\ Running
  /\ pc' = "killed"
  /\ UNCHANGED <<runs, job, progress, interrupted, record, disk, built>>

-----------------------------------------------------------------------------
(* apply_scale_manifest, called by a build of its own.                       *)
PositiveEntry(p, entry) ==
  IF p \in Norms THEN entry.range # Unseen ELSE entry.range > 0 \/ entry.range = NaN

\* The fields a component's build compares.
SameProfile(component, settings, wanted) ==
  settings.profile[component] = wanted.profile[component]

\* Mutant: the profile in the file is not compared.
RestorableUnbound(component, file, wanted) ==
  /\ wanted \in Settings /\ file.count \in DOMAIN file.snaps[component]
  /\ \A p \in Points[component] : PositiveEntry(p, file.snaps[component][file.count][p])

Restorable(component, file, wanted) ==
  /\ SameProfile(component, file.settings, wanted)
  /\ file.count \in DOMAIN file.snaps[component]
  /\ \A p \in Points[component] : PositiveEntry(p, file.snaps[component][file.count][p])

Restore(component, wanted) ==
  /\ disk.scales # None
  /\ Restorable(component, disk.scales, wanted)
  /\ built' = [run |-> disk.scales.run, component |-> component, wanted |-> wanted,
               trained |-> disk.scales.settings, data |-> disk.scales.data,
               scales |-> disk.scales.snaps[component][disk.scales.count]]
  /\ UNCHANGED <<runs, job, pc, progress, interrupted, record, disk>>

Next ==
  \/ \E settings \in Settings, data \in DataSets : Start(settings, data)
  \/ Check
  \/ \E component \in Components : Replay(component) \/ Replayed(component)
  \/ PublishScales \/ PublishCoverage \/ PublishConvergence \/ PublishLegacy
  \/ Report \/ Judge
  \/ Breaks \/ Cancel \/ Interrupt \/ Kill
  \/ \E component \in Components, wanted \in Settings : Restore(component, wanted)

Spec == Init /\ [][Next]_vars

-----------------------------------------------------------------------------
(* What the first k samples showed a point, whichever way it was collected.  *)
ShownBy(component, sample, p) ==
  {CallsOf(component, sample)[j][p] : j \in DOMAIN CallsOf(component, sample)}
Shown(component, data, p, k) ==
  (UNION {ShownBy(component, data[i], p) : i \in 1 .. k}) \ {Unseen}

Numbers(S) == S \ {NaN}
Top(S) == IF S = {} THEN 0 ELSE Largest(S)

(* The state has its type, and a job that runs is the one on record.         *)
TypeOK ==
  /\ runs \in 0 .. MaxRuns
  /\ pc \in Stopped \cup Components \cup
       {"check", "scales", "coverage", "convergence", "legacy", "report", "verdict"}
  /\ record \in [run : 0 .. MaxRuns,
                 status : {"none", "running", "succeeded", "failed", "cancelled"}]
  /\ contexts \in Nat /\ done \in Nat /\ interrupted \in BOOLEAN
  /\ record.run = runs
  /\ Running => record.status = "running" /\ done <= Total
  /\ \A c \in Components : \A k \in DOMAIN snaps[c] :
       k <= Total /\ DOMAIN snaps[c][k] = Points[c]

(* A job on record as succeeded has left its own three files, and its data   *)
(* showed every tracked module of its components only finite values, and     *)
(* every ConstFakeQuant something other than zero.                           *)
SucceededIsAudited ==
  record.status = "succeeded" =>
    /\ {disk.scales.run, disk.coverage.run, disk.convergence.run} = {record.run}
    /\ disk.coverage.audited /\ disk.coverage.covered
    /\ \A c \in Components : Runs(c) => \A p \in Points[c] :
         LET shown == Shown(c, disk.scales.data, p, Len(disk.scales.data))
         IN /\ shown # {}
            /\ \A v \in shown : Finite(v)
            /\ p \in Norms \/ Top(shown) > 0

(* Whatever happens to the jobs, the scales in the file are those of a whole *)
(* replay: at every snapshot a range is what the samples before it reached,  *)
(* and the last snapshot is behind all of them.                              *)
ScalesOfWholeReplay ==
  disk.scales # None =>
    LET file == disk.scales IN \A c \in Components :
      LET kept == DOMAIN file.snaps[c] IN
      /\ kept # {} <=> file.settings.component \in {c, "all"}
      /\ kept # {} => Largest(kept) = Len(file.data) /\ Cardinality(kept) > 1
      /\ \A k \in kept, p \in Points[c] :
           LET shown == Shown(c, file.data, p, k)
           IN NaN \notin shown \/ p \notin Norms =>
                file.snaps[c][k][p].range =
                  IF NaN \in shown THEN NaN
                  ELSE IF shown = {} /\ p \in Norms THEN Unseen ELSE Top(shown)

(* The convergence file of a successful job can be believed: a point it does *)
(* not name had reached nine tenths of its scale by the checkpoint.          *)
ConvergenceBelieved ==
  record.status = "succeeded" =>
    \A c \in Components : \A k \in DOMAIN disk.convergence.compared[c] :
      \A p \in Points[c] \ disk.convergence.compared[c][k] :
        LET early == Top(Shown(c, disk.scales.data, p, k))
            late == Top(Shown(c, disk.scales.data, p, Len(disk.scales.data)))
        IN 10 * early >= 9 * late \/ (p \in Norms /\ late <= 1)

(* The scales in the file and the convergence report are those of the data.   *)
ScalesSound == TypeOK /\ ScalesOfWholeReplay /\ ConvergenceBelieved

(* A build that gets its scales gets those of a replay under its own         *)
(* profile, wide enough for every number that replay showed the point.       *)
RestoredForThisBuild ==
  built # None =>
    LET c == built.component IN
    /\ built.trained.component \in {c, "all"}
    /\ built.trained.profile[c] = built.wanted.profile[c]
    /\ \A p \in Points[c] : built.scales[p].range # NaN =>
         \A v \in Numbers(Shown(c, built.data, p, Len(built.data))) :
           v <= built.scales[p].range

(* replay.py:1193: "Restore audited activation-scale state before switching  *)
(* to compile mode".  The scales are in place before the audit rejects them. *)
RestoredScalesAudited == built # None => AuditPassed(built.scales)
=============================================================================
