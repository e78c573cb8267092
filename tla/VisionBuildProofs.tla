-------------------------- MODULE VisionBuildProofs --------------------------
(***************************************************************************)
(* The Vision build of any number of configurations and image sizes: what  *)
(* a run leaves when it completes is for the size it was asked for,        *)
(* although the files it resumes from carry no size in their names.        *)
(*                                                                         *)
(* The invariant adds which stages are behind a run at each point, so that *)
(* every stage reads what a check of this very run has passed.             *)
(*                                                                         *)
(* And the commands that start builds, preparations and calibrations, for  *)
(* any requests of an operator: each is what it reports.                   *)
(***************************************************************************)
EXTENDS VisionBuild, Orchestration, TLAPS

Runs == [config : Configs, target : {"none", "bc", "hbm"}, resume : BOOLEAN]

StagesBehind ==
  /\ pc \in {"idle", "check", "export", "recheck", "source", "convert"} => staged = 0
  /\ pc = "compile" => staged = 1
  /\ pc = "link" => staged = 2
  /\ pc = "recheck" => run.target = "bc"

VisionInv == VisionForItsSize /\ run \in Runs /\ StagesBehind

-----------------------------------------------------------------------------
\* A file that passes the check was made by some run.
LEMMA ValidFilesAreGraphs ==
  ASSUME SizesGiven, NEW file \in Graphs \cup {NoFile, Damaged}, FunctionValid(file)
  PROVE  file \in Graphs /\ file.config \in Configs /\ file.sound
  BY DEF FunctionValid, Intact, Graphs

\* A new graph is one of the files.
LEMMA NewGraph ==
  ASSUME SizesGiven, NotFiles, NEW config \in Configs, NEW sound \in BOOLEAN, run \in Runs
  PROVE  /\ Graph(config, Size, sound) \in Graphs
         /\ Size \in Sizes
         /\ Intact(Graph(config, Size, sound))
         /\ sound => FunctionValid(Graph(config, Size, sound))
  <1>1. Size \in Sizes
    BY DEF SizesGiven, Size, Runs
  <1>2. Graph(config, Size, sound) \in Graphs
    BY <1>1 DEF Graph, Graphs
  <1>3. Intact(Graph(config, Size, sound))
    BY <1>2 DEF NotFiles, Intact
  <1>4. sound => FunctionValid(Graph(config, Size, sound))
    BY <1>3 DEF FunctionValid, Graph
  <1> QED BY <1>1, <1>2, <1>3, <1>4

LEMMA VisionInitInv == ASSUME SizesGiven, Init PROVE VisionInv
  <1>1. TypeOK
    <2>1. inUse \in BOOLEAN
      BY Zenon DEF Init
    <2>2. bc \in [Sizes -> Graphs \cup {NoFile, Damaged}]
      BY DEF Init
    <2>3. {converted, hbo, hbm} \subseteq Graphs \cup {NoFile, Damaged}
      BY DEF Init
    <2>4. pc = "idle" /\ staged = 0
      BY DEF Init
    <2> QED BY <2>1, <2>2, <2>3, <2>4 DEF TypeOK, Stopped
  <1>2. run \in Runs /\ StagesBehind
    BY DEF Init, Runs, StagesBehind
  <1>3. CompiledFromChecked /\ CompletedForItsSize /\ StageReadsItsSize
    BY DEF Init, CompiledFromChecked, CompletedForItsSize, StageReadsItsSize, Intact
  <1> QED BY <1>1, <1>2, <1>3 DEF VisionInv, VisionForItsSize

-----------------------------------------------------------------------------
\* Start, Check and the steps before any stage.
LEMMA SourceSteps ==
  ASSUME SizesGiven, NotFiles, VisionInv,
         \/ \E config \in Configs, target \in {"bc", "hbm"}, resume \in BOOLEAN :
              Start(config, target, resume)
         \/ Check \/ Export \/ Recheck
  PROVE  VisionInv'
  <1> USE DEF VisionInv, VisionForItsSize, TypeOK, CompiledFromChecked, CompletedForItsSize,
              StageReadsItsSize, StagesBehind, Stopped, FunctionValid, Intact, Size
  <1>1. ASSUME NEW config \in Configs, NEW target \in {"bc", "hbm"}, NEW resume \in BOOLEAN,
               Start(config, target, resume)
        PROVE  VisionInv'
    BY <1>1 DEF Start, files, Runs
  <1>2. CASE Check
    BY <1>2 DEF Check, files, TakesSource
  <1>3. CASE Export
    <2>1. PICK sound \in BOOLEAN : bc' = [bc EXCEPT ![Size] = Graph(run.config, Size, sound)]
      BY <1>3 DEF Export
    <2>2. Graph(run.config, Size, sound) \in Graphs
      BY NewGraph DEF Runs
    <2> QED BY <1>3, <2>1, <2>2 DEF Export
  <1>4. CASE Recheck
    BY <1>4 DEF Recheck, files
  <1> QED BY <1>1, <1>2, <1>3, <1>4

\* The conversion leaves a converted file that passed its check, or fails.
LEMMA ConvertSteps ==
  ASSUME SizesGiven, NotFiles, VisionInv, KeepConverted \/ ConvertGraph
  PROVE  VisionInv'
  <1> USE DEF VisionInv, VisionForItsSize, TypeOK, CompiledFromChecked, CompletedForItsSize,
              StageReadsItsSize, StagesBehind, Stopped
  <1>1. CASE KeepConverted
    BY <1>1 DEF KeepConverted, KeepsConverted, files, FunctionValid, Intact, Size
  <1>2. CASE ConvertGraph
    <2>1. bc[Size].config \in Configs
      <3>1. Size \in Sizes
        BY DEF SizesGiven, Size, Runs
      <3>2. bc[Size] \in Graphs \cup {NoFile, Damaged}
        BY <3>1
      <3>3. FunctionValid(bc[Size])
        BY <1>2 DEF ConvertGraph
      <3> QED BY <3>2, <3>3, ValidFilesAreGraphs
    <2>2. PICK sound \in BOOLEAN :
            /\ converted' = Graph(bc[Size].config, Size, sound)
            /\ IF sound THEN pc' = "compile" /\ staged' = staged + 1
                        ELSE pc' = "failed" /\ staged' = staged
      BY <1>2 DEF ConvertGraph
    <2>3. /\ converted' \in Graphs
          /\ sound => FunctionValid(converted')
      BY <2>1, <2>2, NewGraph
    <2>4. UNCHANGED <<bc, hbo, hbm, inUse, run>> /\ staged = 0
      BY <1>2 DEF ConvertGraph
    <2>5. pc' = "compile" => FunctionValid(converted)'
      BY <2>2, <2>3, <2>4 DEF FunctionValid, Intact, Size
    <2> QED BY <2>2, <2>3, <2>4, <2>5 DEF Intact
  <1> QED BY <1>1, <1>2

\* Only a converted file that this run checked is compiled.
LEMMA CompileSteps ==
  ASSUME SizesGiven, VisionInv, KeepHbo \/ CompileHbo
  PROVE  VisionInv'
  <1> USE DEF VisionInv, VisionForItsSize, TypeOK, CompiledFromChecked, CompletedForItsSize,
              StageReadsItsSize, StagesBehind, Stopped, FunctionValid, Intact, Size
  <1>1. CASE KeepHbo
    BY <1>1 DEF KeepHbo, files
  <1>2. CASE CompileHbo
    BY <1>2 DEF CompileHbo
  <1> QED BY <1>1, <1>2

\* A run completes with a model that passed the check.
LEMMA LinkSteps ==
  ASSUME SizesGiven, VisionInv, KeepHbm \/ LinkHbm
  PROVE  VisionInv'
  <1> USE DEF VisionInv, VisionForItsSize, TypeOK, CompiledFromChecked, CompletedForItsSize,
              StageReadsItsSize, StagesBehind, Stopped, FunctionValid, Intact, Size
  <1>1. CASE KeepHbm
    BY <1>1 DEF KeepHbm, KeepsHbm, files
  <1>2. CASE LinkHbm
    BY <1>2 DEF LinkHbm
  <1> QED BY <1>1, <1>2

LEMMA Disturbances ==
  ASSUME SizesGiven, VisionInv, Interrupt \/ LosePower \/ UNCHANGED vars
  PROVE  VisionInv'
  <1> USE DEF VisionInv, VisionForItsSize, TypeOK, CompiledFromChecked, CompletedForItsSize,
              StageReadsItsSize, StagesBehind, Stopped, Intact
  <1>1. CASE Interrupt
    BY <1>1 DEF Interrupt
  <1>2. CASE LosePower
    BY <1>2 DEF LosePower
  <1>3. CASE UNCHANGED vars
    BY <1>3 DEF vars, files, FunctionValid, Size
  <1> QED BY <1>1, <1>2, <1>3

LEMMA VisionNextInv == ASSUME SizesGiven, NotFiles, VisionInv, [Next]_vars PROVE VisionInv'
  BY SourceSteps, ConvertSteps, CompileSteps, LinkSteps, Disturbances DEF Next, Progress

(* What a completed run of vision_build.py leaves, and what each of its      *)
(* stages reads, is for the image size that was asked for, whatever runs of  *)
(* other sizes, kills and power cuts came before.                            *)
THEOREM VisionModelsFitTheirSize ==
  ASSUME SizesGiven, NotFiles
  PROVE  Spec => []VisionForItsSize
  <1>1. Init => VisionInv
    BY VisionInitInv
  <1>2. VisionInv /\ [Next]_vars => VisionInv'
    BY VisionNextInv
  <1>3. VisionInv => VisionForItsSize
    BY DEF VisionInv
  <1> QED BY <1>1, <1>2, <1>3, PTL DEF Spec

-----------------------------------------------------------------------------
(* The commands of quantize.py.  The invariant says what a plan was made of,   *)
(* that the files of a plan are of its command exactly up to the child that   *)
(* runs, and that only wrappers of prepare and calibrate are in background.   *)

\* The jobs a request is planned as.

PlanOf(commandPlan, request, by) ==
  /\ DOMAIN commandPlan = DOMAIN Children(request)
  /\ Len(commandPlan) = Len(Children(request))
  /\ \A i \in DOMAIN Children(request) :
       /\ commandPlan[i].child = Children(request)[i] /\ commandPlan[i].by = by
       /\ commandPlan[i].accepted = ChildAccepts(Children(request)[i], request.config)
  /\ request.kind = "calibrate" =>
       commandPlan[1].checkpoint \in 1 .. commandPlan[1].samples - 1

\* Files are of commands that were given; no model without a build root in use.
Filed ==
  /\ given \in 0 .. MaxCommands /\ made \in [AllChildren -> 0 .. given] /\ records \in Nat
  /\ made["vision"] # 0 \/ made["language"] # 0 => rootInUse
  /\ \A job \in background :
       detach /\ job.child \in {"prepare", "calibrate"} /\ job.by \in 1 .. given

\* A plan that is not refused is of an accepted configuration.
PlanSound ==
  Planned => /\ given >= 1 /\ command \in Requests /\ Accepted(command.config)
             /\ PlanOf(plan, command, given)

\* While a command runs: what lies behind it is made, the rest is not.
SoFar ==
  status = "running" =>
    /\ childPos \in DOMAIN plan
    /\ ~Detached => \A i \in DOMAIN plan : (made[plan[i].child] = given) = (i < childPos)

\* A fresh build finds no models.
AloneSoFar ==
  status = "running" /\ command.kind = "build" /\ ~command.resume =>
    {made["vision"], made["language"]} \subseteq {0, given}

\* The inductive invariant.
CommandInv ==
  /\ status \in {"none", "refused", "printed", "running", "complete", "failed"}
  /\ Filed /\ PlanSound /\ SoFar /\ AloneSoFar /\ StatusTrue /\ FreshBuildAlone
  /\ status = "failed" => ~Detached

\* One child or two, of the kind of the command, none twice.
LEMMA ChildrenOf ==
  ASSUME NEW request \in Requests
  PROVE  /\ Len(Children(request)) \in {1, 2}
         /\ DOMAIN Children(request) = 1 .. Len(Children(request))
         /\ \A i \in DOMAIN Children(request) :
              /\ Children(request)[i] \in AllChildren
              /\ Children(request)[i] \in {"vision", "language"} <=> request.kind = "build"
         /\ \A i, j \in DOMAIN Children(request) :
              Children(request)[i] = Children(request)[j] => i = j
         /\ request.kind # "build" => Children(request) = <<request.kind>>
  <1>1. /\ request.kind \in {"prepare", "calibrate", "build"}
        /\ request.component \in {"vision", "language", "all"}
    BY OrchestrationAssumption DEF OrchestrationAssumption
  <1>2. CASE request.kind # "build"
    BY <1>1, <1>2 DEF Children, AllChildren
  <1>3. CASE request.kind = "build" /\ request.component = "all"
    BY <1>3 DEF Children, AllChildren
  <1>4. CASE request.kind = "build" /\ request.component # "all"
    BY <1>1, <1>4 DEF Children, AllChildren
  <1> QED BY <1>2, <1>3, <1>4

\* Two multiples of 64, one beyond the other, leave room for two windows.
LEMMA RoomBehind ==
  ASSUME NEW chunk \in Int, NEW cache \in Int,
         chunk % 64 = 0, cache % 64 = 0, cache > chunk
  PROVE  chunk + 2 * 6 <= cache
  OBVIOUS

\* Of some standard checkpoints one is the greatest.
LEMMA GreatestCheckpoint ==
  ASSUME NEW E \in SUBSET CONVERGENCE_CHECKPOINTS, E # {}
  PROVE  (CHOOSE k \in E : \A other \in E : k >= other) \in Int
  <1>1. \E k \in E : \A other \in E : k >= other
    <2>1. E \subseteq {64, 128, 256, 512}
      BY DEF CONVERGENCE_CHECKPOINTS
    <2>2. CASE 512 \in E
      BY <2>1, <2>2
    <2>3. CASE 512 \notin E /\ 256 \in E
      BY <2>1, <2>3
    <2>4. CASE 512 \notin E /\ 256 \notin E /\ 128 \in E
      BY <2>1, <2>4
    <2>5. CASE 512 \notin E /\ 256 \notin E /\ 128 \notin E
      <3>1. \A k \in E : k = 64
        BY <2>1, <2>5
      <3> QED BY <3>1
    <2> QED BY <2>2, <2>3, <2>4, <2>5
  <1>2. (CHOOSE k \in E : \A other \in E : k >= other) \in E
    BY <1>1, Zenon
  <1>3. \A k \in E : k \in Int
    BY DEF CONVERGENCE_CHECKPOINTS
  <1> QED BY <1>2, <1>3, Zenon

\* The checkpoint of a calibration that is not refused is below its samples.
LEMMA CheckpointOf ==
  ASSUME NEW request \in Requests, records \in Nat, ~CalibrationRefused(request)
  PROVE  Checkpoint(request) \in 1 .. Samples(request) - 1
  <1>1. /\ request.samples \subseteq Int /\ request.checkpoint \subseteq Int
    BY OrchestrationAssumption DEF OrchestrationAssumption
  <1>2. Samples(request) \in Int
    BY <1>1 DEF Samples
  <1> DEFINE eligible == {k \in CONVERGENCE_CHECKPOINTS : k < Samples(request)}
  <1>5. Checkpoint(request) \in Int
    <2>1. CASE request.checkpoint # {}
      BY <1>1, <2>1 DEF Checkpoint
    <2>2. CASE request.checkpoint = {} /\ eligible # {}
      <3>1. Checkpoint(request) = CHOOSE k \in eligible : \A other \in eligible : k >= other
        BY <2>2 DEF Checkpoint
      <3>2. eligible \in SUBSET CONVERGENCE_CHECKPOINTS
        OBVIOUS
      <3> QED BY <2>2, <3>1, <3>2, GreatestCheckpoint, Zenon
    <2>3. CASE request.checkpoint = {} /\ eligible = {}
      <3>1. Checkpoint(request) = IF Samples(request) \div 2 > 1 THEN Samples(request) \div 2 ELSE 1
        BY <2>3 DEF Checkpoint
      <3> QED BY <1>2, <3>1
    <2> QED BY <2>1, <2>2, <2>3
  <1> QED BY <1>2, <1>5 DEF CalibrationRefused

\* What a command that is not refused plans.
LEMMA PlanGiven ==
  ASSUME NEW request \in Requests, records \in Nat, ~Refused(request), NEW by,
         NEW p, p = [i \in DOMAIN Children(request) |-> Job(request, Children(request)[i], by)]
  PROVE  Accepted(request.config) /\ PlanOf(p, request, by)
  <1>1. Accepted(request.config)
    BY DEF Refused
  <1> DEFINE c == Children(request)
  <1>2. Len(c) \in {1, 2} /\ DOMAIN c = 1 .. Len(c)
    BY ChildrenOf
  <1>3. DOMAIN p = DOMAIN c
    OBVIOUS
  <1>4. Len(p) = Len(c)
    <2> HIDE DEF c
    <2>1. p = [i \in 1 .. Len(c) |-> Job(request, c[i], by)]
      BY <1>2 DEF c
    <2> QED BY <1>2, <2>1
  <1>5. \A i \in DOMAIN c : /\ p[i].child = c[i] /\ p[i].by = by
                            /\ p[i].accepted = ChildAccepts(c[i], request.config)
    BY DEF Job
  <1>6. ASSUME request.kind = "calibrate" PROVE p[1].checkpoint \in 1 .. p[1].samples - 1
    <2>1. c = <<"calibrate">>
      BY <1>6, ChildrenOf
    <2>2. p[1] = Job(request, "calibrate", by)
      BY <2>1
    <2>3. p[1].checkpoint = Checkpoint(request) /\ p[1].samples = Samples(request)
      BY <2>2 DEF Job
    <2>4. ~CalibrationRefused(request)
      BY <1>6 DEF Refused
    <2> QED BY <2>3, <2>4, CheckpointOf
  <1> QED BY <1>1, <1>3, <1>4, <1>5, <1>6 DEF PlanOf

\* A new command: its plan is sound, and no file is of it yet.
LEMMA CommandGiven ==
  ASSUME CommandInv, NEW request \in Requests, Give(request)
  PROVE  CommandInv'
  <1>1. /\ given \in 0 .. MaxCommands /\ MaxCommands \in Nat /\ given' = given + 1
        /\ given < MaxCommands
        /\ made \in [AllChildren -> 0 .. given] /\ records \in Nat
    BY OrchestrationAssumption DEF OrchestrationAssumption, CommandInv, Filed, Give
  <1>2. /\ command' = request /\ childPos' = 1
        /\ plan' = [i \in DOMAIN Children(request) |-> Job(request, Children(request)[i], given')]
        /\ status' = (IF Refused(request) THEN "refused"
                      ELSE IF request.dry THEN "printed" ELSE "running")
        /\ made' = made /\ records' = records /\ rootInUse' = rootInUse
        /\ detach' = detach /\ background' = background
    BY DEF Give
  <1>3. given' \in 0 .. MaxCommands /\ made' \in [AllChildren -> 0 .. given']
        /\ \A child \in AllChildren : made'[child] # given'
    BY <1>1, <1>2
  <1>4. Filed'
    <2>1. \A n \in 1 .. given : n \in 1 .. given'
      BY <1>1
    <2> QED BY <1>1, <1>2, <1>3, <2>1 DEF CommandInv, Filed
  <1>5. status' \in {"refused", "printed", "running"} /\ (status' # "refused" => ~Refused(request))
    BY <1>2
  <1>6. PlanSound'
    <2>1. given' >= 1
      BY <1>1
    <2>2. status' # "refused" => Accepted(request.config) /\ PlanOf(plan', request, given')
      BY <1>1, <1>2, <1>5, PlanGiven, Zenon
    <2> QED BY <1>2, <1>5, <2>1, <2>2, Zenon DEF PlanSound, Planned
  <1>7. SoFar'
    <2>1. DOMAIN plan' = DOMAIN Children(request)
      BY <1>2
    <2>2. 1 \in DOMAIN plan' /\ \A i \in DOMAIN plan' : ~(i < 1)
      BY <2>1, ChildrenOf
    <2>3. \A i \in DOMAIN plan' : plan'[i].child \in AllChildren
      BY <1>2, <2>1, ChildrenOf DEF Job
    <2>4. \A i \in DOMAIN plan' : ~(made'[plan'[i].child] = given')
      BY <1>3, <2>3
    <2> QED BY <1>2, <2>2, <2>4 DEF SoFar
  <1>8. AloneSoFar'
    <2>1. SUFFICES ASSUME status' = "running", request.kind = "build", ~request.resume
                   PROVE  {made["vision"], made["language"]} \subseteq {0}
      BY <1>2 DEF AloneSoFar
    <2>2. ~rootInUse
      BY <1>2, <2>1 DEF Refused
    <2> QED BY <2>2 DEF CommandInv, Filed
  <1> QED BY <1>4, <1>5, <1>6, <1>7, <1>8 DEF CommandInv, StatusTrue, FreshBuildAlone

\* Work on a job keeps the files in order: of its child they are this command's.
LEMMA WorkFiled ==
  ASSUME Filed, NEW job, Works(job) \/ Breaks(job), job.child \in AllChildren, job.by \in 1 .. given
  PROVE  /\ made' \in [AllChildren -> 0 .. given] /\ records' \in Nat
         /\ made'["vision"] # 0 \/ made'["language"] # 0 => rootInUse'
         /\ Works(job) => made'[job.child] = job.by
         /\ Breaks(job) => made' = made
         /\ \A child \in AllChildren : child # job.child => made'[child] = made[child]
  <1>1. made \in [AllChildren -> 0 .. given] /\ records \in Nat /\ given \in Nat
    BY OrchestrationAssumption DEF Filed, OrchestrationAssumption
  <1>2. records' \in Nat
    BY <1>1, OrchestrationAssumption DEF Works, WorkDone, Breaks, OrchestrationAssumption
  <1>3. CASE Works(job)
    <2>1. made' = [made EXCEPT ![job.child] = job.by]
      BY <1>3 DEF Works, WorkDone, ChildMade
    <2>2. job.by \in 0 .. given
      BY <1>1
    <2>3. made'[job.child] = job.by /\ made' \in [AllChildren -> 0 .. given]
          /\ \A child \in AllChildren : child # job.child => made'[child] = made[child]
      BY <1>1, <2>1, <2>2
    <2>4. made'["vision"] # 0 \/ made'["language"] # 0 => rootInUse'
      <3>1. job.child \in {"vision", "language"} => rootInUse'
        BY <1>3 DEF Works, WorkDone
      <3>2. job.child \notin {"vision", "language"} => rootInUse' = rootInUse
        BY <1>3 DEF Works, WorkDone
      <3>3. "vision" \in AllChildren /\ "language" \in AllChildren
        BY DEF AllChildren
      <3> QED BY <2>3, <3>1, <3>2, <3>3 DEF Filed
    <2>5. Breaks(job) => made' = made
      BY DEF Breaks
    <2> QED BY <1>2, <2>3, <2>4, <2>5
  <1>4. CASE Breaks(job) /\ ~Works(job)
    <2>1. made' = made /\ (rootInUse' = rootInUse \/ rootInUse' = TRUE)
      BY <1>4 DEF Breaks
    <2> QED BY <1>1, <1>2, <1>4, <2>1 DEF Filed
  <1> QED BY <1>3, <1>4

\* The child that runs is one of the plan, and its job is of this command.
LEMMA JobRunning ==
  ASSUME CommandInv, status = "running", NEW i \in DOMAIN plan
  PROVE  /\ plan[i].child \in AllChildren /\ plan[i].by = given /\ given \in 1 .. given
         /\ plan[i].child \in {"vision", "language"} <=> command.kind = "build"
         /\ \A j \in DOMAIN plan : plan[i].child = plan[j].child => i = j
         /\ DOMAIN plan = 1 .. Len(plan) /\ Len(plan) \in {1, 2}
  <1>1. command \in Requests /\ PlanOf(plan, command, given) /\ given \in 1 .. given
    BY OrchestrationAssumption
       DEF CommandInv, PlanSound, Planned, Filed, OrchestrationAssumption
  <1>2. DOMAIN plan = DOMAIN Children(command) /\ Len(plan) = Len(Children(command))
        /\ \A j \in DOMAIN Children(command) :
             plan[j].child = Children(command)[j] /\ plan[j].by = given
    BY <1>1 DEF PlanOf
  <1> QED BY <1>1, <1>2, ChildrenOf

\* A child at its end, done or broken.
LEMMA ChildDone ==
  ASSUME CommandInv, Child
  PROVE  CommandInv'
  <1>1. /\ status = "running" /\ ~Detached /\ Filed /\ PlanSound /\ SoFar /\ AloneSoFar
        /\ given' = given /\ command' = command /\ plan' = plan
        /\ detach' = detach /\ background' = background
    BY DEF CommandInv, Child
  <1> DEFINE job == plan[childPos]
  <1>2. /\ childPos \in DOMAIN plan
        /\ \A i \in DOMAIN plan : (made[plan[i].child] = given) = (i < childPos)
    BY <1>1 DEF SoFar
  <1>3. /\ job.child \in AllChildren /\ job.by = given /\ given \in 1 .. given
        /\ job.child \in {"vision", "language"} <=> command.kind = "build"
        /\ \A j \in DOMAIN plan : job.child = plan[j].child => childPos = j
        /\ DOMAIN plan = 1 .. Len(plan) /\ Len(plan) \in {1, 2}
    BY <1>1, <1>2, JobRunning
  <1> HIDE DEF job
  <1>4. Works(job) \/ Breaks(job)
    BY DEF Child, job
  <1>5. /\ made' \in [AllChildren -> 0 .. given] /\ records' \in Nat
        /\ made'["vision"] # 0 \/ made'["language"] # 0 => rootInUse'
        /\ Works(job) => made'[job.child] = given
        /\ Breaks(job) => made' = made
        /\ \A child \in AllChildren : child # job.child => made'[child] = made[child]
    BY <1>1, <1>3, <1>4, WorkFiled
  <1>6. Filed'
    BY <1>1, <1>5 DEF Filed
  <1>7. PlanSound' /\ (Detached' <=> Detached)
    BY <1>1 DEF PlanSound, Planned, Child, Detached
  <1>8. command.kind = "build" /\ ~command.resume =>
          {made'["vision"], made'["language"]} \subseteq {0, given}
    <2>1. \A child \in AllChildren : made'[child] = made[child] \/ made'[child] = given
      BY <1>4, <1>5
    <2>2. "vision" \in AllChildren /\ "language" \in AllChildren
      BY DEF AllChildren
    <2> QED BY <1>1, <2>1, <2>2 DEF AloneSoFar
  <1>9. \A i \in DOMAIN plan : i # childPos => made'[plan[i].child] = made[plan[i].child]
    <2>1. ASSUME NEW i \in DOMAIN plan, i # childPos
          PROVE  plan[i].child \in AllChildren /\ plan[i].child # job.child
      BY <1>1, <1>3, <2>1, JobRunning
    <2> QED BY <1>5, <2>1
  <1>10. CASE Works(job) /\ childPos # Len(plan) /\ childPos' = childPos + 1 /\ status' = "running"
    <2>2. childPos + 1 \in DOMAIN plan
      BY <1>2, <1>3, <1>10
    <2>3. \A i \in DOMAIN plan : (made'[plan[i].child] = given) = (i < childPos + 1)
      BY <1>2, <1>3, <1>5, <1>9, <1>10 DEF job
    <2> QED BY <1>1, <1>6, <1>7, <1>8, <1>10, <2>2, <2>3
            DEF CommandInv, SoFar, AloneSoFar, StatusTrue, FreshBuildAlone
  <1>11. CASE Works(job) /\ childPos = Len(plan) /\ status' = "complete"
    <2>1. \A i \in DOMAIN plan : made'[plan[i].child] = given
      BY <1>2, <1>3, <1>5, <1>9, <1>11 DEF job
    <2> QED BY <1>1, <1>6, <1>7, <1>8, <1>11, <2>1
            DEF CommandInv, SoFar, AloneSoFar, StatusTrue, FreshBuildAlone
  <1>12. CASE Breaks(job) /\ status' = "failed" /\ childPos' = childPos
    BY <1>1, <1>2, <1>5, <1>6, <1>7, <1>12
       DEF CommandInv, SoFar, AloneSoFar, StatusTrue, FreshBuildAlone
  <1>13. \/ Works(job) /\ childPos = Len(plan) /\ status' = "complete"
         \/ Works(job) /\ childPos # Len(plan) /\ childPos' = childPos + 1 /\ status' = status
         \/ Breaks(job) /\ status' = "failed" /\ childPos' = childPos
    BY Zenon DEF Child, job
  <1> QED BY <1>1, <1>10, <1>11, <1>12, <1>13

\* A wrapper that goes to the background leaves its job there.
LEMMA WrapperDetached ==
  ASSUME CommandInv, Detach
  PROVE  CommandInv'
  <1>1. /\ status = "running" /\ detach /\ command.kind # "build" /\ Filed /\ PlanSound
        /\ background' = background \cup {plan[childPos]} /\ status' = "complete"
        /\ given' = given /\ command' = command /\ plan' = plan /\ childPos' = childPos
        /\ made' = made /\ records' = records /\ rootInUse' = rootInUse /\ detach' = detach
    BY DEF CommandInv, Detach, Detached
  <1>2. childPos \in DOMAIN plan
    BY <1>1 DEF CommandInv, SoFar
  <1>3. plan[childPos].child \in {"prepare", "calibrate"} /\ plan[childPos].by \in 1 .. given
    BY <1>1, <1>2, JobRunning DEF AllChildren
  <1>4. Filed'
    BY <1>1, <1>3 DEF Filed
  <1> QED BY <1>1, <1>4
          DEF CommandInv, PlanSound, Planned, SoFar, AloneSoFar, StatusTrue, FreshBuildAlone, Detached

\* A job in the background touches no model and no job of a command at work.
LEMMA BackgroundDone ==
  ASSUME CommandInv, InBackground
  PROVE  CommandInv'
  <1>1. PICK job \in background : /\ Works(job) \/ Breaks(job)
                                  /\ background' = background \ {job}
    BY DEF InBackground
  <1>2. /\ given' = given /\ command' = command /\ plan' = plan /\ childPos' = childPos
        /\ status' = status /\ detach' = detach /\ Filed /\ PlanSound
    BY DEF InBackground, CommandInv
  <1>3. detach /\ job.child \in {"prepare", "calibrate"} /\ job.by \in 1 .. given
        /\ job.child \in AllChildren
    BY <1>2 DEF Filed, AllChildren
  <1>4. /\ made' \in [AllChildren -> 0 .. given] /\ records' \in Nat
        /\ made'["vision"] # 0 \/ made'["language"] # 0 => rootInUse'
        /\ \A child \in AllChildren : child # job.child => made'[child] = made[child]
    BY <1>1, <1>2, <1>3, WorkFiled
  <1>5. made'["vision"] = made["vision"] /\ made'["language"] = made["language"]
    BY <1>3, <1>4 DEF AllChildren
  <1>6. Filed'
    BY <1>1, <1>2, <1>4 DEF Filed
  <1>7. PlanSound' /\ AloneSoFar' /\ FreshBuildAlone' /\ (Detached' <=> Detached)
    BY <1>2, <1>5 DEF CommandInv, PlanSound, Planned, AloneSoFar, FreshBuildAlone, Detached
  <1>8. ASSUME Planned, ~Detached, NEW i \in DOMAIN plan
        PROVE  made'[plan[i].child] = made[plan[i].child]
    <2>1. command \in Requests /\ PlanOf(plan, command, given) /\ command.kind = "build"
      BY <1>2, <1>3, <1>8 DEF PlanSound, Detached
    <2>2. plan[i].child \in {"vision", "language"}
      BY <2>1, ChildrenOf DEF PlanOf
    <2> QED BY <1>5, <2>2
  <1>9. SoFar'
    BY <1>2, <1>7, <1>8 DEF CommandInv, SoFar, Planned
  <1>10. StatusTrue'
    <2>1. SUFFICES ASSUME Planned PROVE StatusTrue'
      BY <1>2 DEF StatusTrue, Planned
    <2>2. CASE Detached
      <3>1. status' # "failed"
        BY <1>2, <2>2 DEF CommandInv
      <3> QED BY <1>2, <1>7, <2>2, <3>1 DEF StatusTrue
    <2>3. CASE ~Detached
      BY <1>2, <1>7, <1>8, <2>1, <2>3 DEF CommandInv, StatusTrue
    <2> QED BY <2>2, <2>3
  <1> QED BY <1>2, <1>6, <1>7, <1>9, <1>10 DEF CommandInv

\* The sizes a configuration may have leave room behind a full prefill.
LEMMA AcceptedFits ==
  ASSUME NEW c, SizesFit(c), c.chunk \in Int, c.cache \in Int
  PROVE  /\ c.chunk + 2 * 6 <= c.cache /\ c.chunk > c.visual
         /\ \A answer \in c.answer : c.chunk + answer <= c.cache
  <1>1. /\ c.chunk % 64 = 0 /\ c.cache % 64 = 0 /\ c.cache > c.chunk /\ c.visual < c.chunk
        /\ \A answer \in c.answer : answer > 0 /\ c.chunk + answer <= c.cache
    BY DEF SizesFit
  <1>2. c.chunk + 2 * 6 <= c.cache
    BY <1>1, RoomBehind
  <1> QED BY <1>1, <1>2

\* The widest cache of a configuration holds a window.
LEMMA WindowInCache ==
  ASSUME NEW c, SizesFit(c)
  PROVE  AdapterSizes(c)
  <1>1. PICK n \in 256 .. 4096 : n = c.cache
    BY DEF SizesFit
  <1>2. 1 <= PBD_QUERY_LEN /\ PBD_QUERY_LEN <= n
    BY DEF PBD_QUERY_LEN
  <1>3. 1 <= PBD_QUERY_LEN /\ PBD_QUERY_LEN <= c.cache
    BY <1>1, <1>2
  <1> QED BY <1>3 DEF SizesFit, AdapterSizes

\* What validate_config lets through a child accepts, but for the named cases.
LEMMA AcceptedByChildren ==
  ASSUME NEW c, NEW child, Accepted(c), c.march = "nash-p", c.device # "cpu,cuda",
         ~(child = "prepare" /\ c.dtype = "float16")
  PROVE  ChildAccepts(child, c)
  <1>1. ValuesKnown(c) /\ SizesFit(c)
    BY DEF Accepted
  <1>2. AdapterAccepts(child, c)
    BY <1>1, WindowInCache, Zenon DEF AdapterAccepts, ValuesKnown
  <1>3. child = "prepare" => PrepareAccepts(c)
    BY <1>1, Zenon DEF PrepareAccepts, ValuesKnown
  <1> QED BY <1>2, <1>3, Zenon DEF ChildAccepts

\* What is planned is sound because the plan is.
LEMMA CommandInvSound == CommandInv => CommandSound
  <1> SUFFICES ASSUME CommandInv PROVE CommandSound
    OBVIOUS
  <1>1. ASSUME Planned
        PROVE  command \in Requests /\ Accepted(command.config) /\ PlanOf(plan, command, given)
    BY <1>1 DEF CommandInv, PlanSound
  <1>2. ASSUME Planned PROVE command.config.chunk \in Int /\ command.config.cache \in Int
    BY <1>1, <1>2, OrchestrationAssumption DEF OrchestrationAssumption
  <1>3. ConfigurationFits
    BY <1>1, <1>2, AcceptedFits DEF ConfigurationFits, Accepted
  <1>4. CheckpointInside
    BY <1>1 DEF CheckpointInside, PlanOf
  <1>5. RefusedLate
    <2>1. SUFFICES ASSUME Planned, NEW i \in DOMAIN plan, command.config.march = "nash-p",
                          command.config.device # "cpu,cuda",
                          ~(plan[i].child = "prepare" /\ command.config.dtype = "float16")
                   PROVE  plan[i].accepted
      BY DEF RefusedLate
    <2>2. plan[i].accepted = ChildAccepts(plan[i].child, command.config)
      BY <1>1, <2>1 DEF PlanOf
    <2> QED BY <1>1, <2>1, <2>2, AcceptedByChildren
  <1> QED BY <1>3, <1>4, <1>5 DEF CommandInv, CommandSound, Filed

\* Commands of any configurations, sample counts and resume flags, one after the
\* other, with wrappers in the background or not: what quantize.py lets through
\* fits the cache, asks for a checkpoint below its samples, is refused late in
\* the named cases only, and is reported as what it left.
THEOREM CommandsAreSound == CommandsSpec => []CommandSound
<1>1. CommandsInit => CommandInv
  <2> SUFFICES ASSUME CommandsInit PROVE CommandInv
    OBVIOUS
  <2>1. made \in [AllChildren -> 0 .. given] /\ made["vision"] = 0 /\ made["language"] = 0
    BY DEF CommandsInit, AllChildren
  <2>2. Filed
    BY <2>1, OrchestrationAssumption DEF CommandsInit, Filed, OrchestrationAssumption
  <2> QED BY <2>2 DEF CommandsInit, CommandInv, PlanSound, Planned, SoFar, AloneSoFar, StatusTrue,
                      FreshBuildAlone
<1>2. CommandInv /\ [CommandsNext]_commandVars => CommandInv'
  <2> SUFFICES ASSUME CommandInv, [CommandsNext]_commandVars PROVE CommandInv'
    OBVIOUS
  <2>1. ASSUME NEW request \in Requests, Give(request) PROVE CommandInv'
    BY <2>1, CommandGiven
  <2>2. CASE Child
    BY <2>2, ChildDone
  <2>3. CASE Detach
    BY <2>3, WrapperDetached
  <2>4. CASE InBackground
    BY <2>4, BackgroundDone
  <2>5. CASE UNCHANGED commandVars
    BY <2>5 DEF commandVars, CommandInv, Filed, PlanSound, Planned, SoFar, AloneSoFar, StatusTrue,
                FreshBuildAlone, Detached, PlanOf
  <2> QED BY <2>1, <2>2, <2>3, <2>4, <2>5 DEF CommandsNext
<1> QED BY <1>1, <1>2, CommandInvSound, PTL DEF CommandsSpec
=============================================================================
