----------------------------- MODULE Orchestration -----------------------------
(* quantize.py: one command loads a configuration, plans its children and     *)
(* runs them one after the other; the operator gives one command after the    *)
(* other.  The wrappers of prepare and calibrate go to the background when    *)
(* DETACH is in the environment, which quantize.py hands through.             *)
EXTENDS Integers, Sequences

CONSTANTS
  Requests,    \* commands the operator may give, each with its configuration
  Counts,      \* records a preparation may leave
  MaxCommands  \* bound: commands given

(* What the command line and a configuration may say.                         *)
ASSUME OrchestrationAssumption ==
  /\ Counts \subseteq Nat /\ MaxCommands \in Nat
  /\ \A request \in Requests :
       /\ request.kind \in {"prepare", "calibrate", "build"}
       /\ request.component \in {"vision", "language", "all"}
       /\ request.samples \subseteq Int /\ request.checkpoint \subseteq Int
       /\ request.config.chunk \in Int /\ request.config.cache \in Int

VARIABLES
  given,       \* commands given so far
  command,     \* the last one
  plan,        \* the jobs of its children
  childPos,    \* the one that runs
  status,      \* what became of the command
  made,        \* by child: the command that completed its files last, or 0
  records,     \* in the calibration manifest
  rootInUse,   \* build_root holds anything
  detach,      \* DETACH=1 in the environment
  background   \* jobs that went on without their command

commandVars ==
  <<given, command, plan, childPos, status, made, records, rootInUse, detach, background>>

------------------------------------------------------------------------------
(* What is left of a value that is absent or spaces.                          *)
Blank == ""

(* validate_config: the values of language, vision, runtime, quantization and *)
(* build; answer is {} without a runtime section.                             *)
ValuesKnown(config) ==
  /\ config.dtype \in {"bfloat16", "float16"}
  /\ config.visionBits = 8 /\ config.languageBits \in {4, 8}
  /\ config.cores \in {1, 2, 4} /\ config.device # Blank /\ config.march # Blank

SizesFit(config) ==
  /\ config.chunk \in 128 .. 2048 /\ config.cache \in 256 .. 4096
  /\ config.chunk % 64 = 0 /\ config.cache % 64 = 0
  /\ config.cache > config.chunk
  /\ config.visual < config.chunk
  /\ \A answer \in config.answer : answer > 0 /\ config.chunk + answer <= config.cache

Accepted(config) == ValuesKnown(config) /\ SizesFit(config)

(* What the children check again: run_prepare.sh and build_adapter.py, which   *)
(* only one march is registered with and a list of CPU and CUDA is no device. *)
PBD_QUERY_LEN == 6

PrepareAccepts(config) == config.dtype = "bfloat16" /\ config.device # "cpu,cuda"

AdapterSizes(config) ==
  /\ config.cache \in 256 .. 4096 /\ config.chunk \in 128 .. 2048
  /\ config.cache > config.chunk /\ config.cache % 64 = 0 /\ config.chunk % 64 = 0
  /\ 1 <= PBD_QUERY_LEN /\ PBD_QUERY_LEN <= config.cache

AdapterAccepts(component, config) ==
  /\ config.march = "nash-p" /\ config.device # "cpu,cuda"
  /\ AdapterSizes(config)
  /\ config.cores \in {1, 2, 4}
  /\ component = "vision" => config.visionBits = 8
  /\ component = "language" => config.languageBits \in {4, 8}

ChildAccepts(child, config) ==
  CASE child = "prepare" -> PrepareAccepts(config)
    [] child = "calibrate" -> config.device # "cpu,cuda"
    [] OTHER -> AdapterAccepts(child, config)

(* calibration_sample_count: --max-samples, or the records there are.         *)
Samples(request) ==
  IF request.samples = {} THEN records
  ELSE CHOOSE samples \in request.samples : TRUE

CONVERGENCE_CHECKPOINTS == {64, 128, 256, 512}

(* calibration_checkpoint: the largest standard one below the samples.        *)
Checkpoint(request) ==
  IF request.checkpoint # {} THEN CHOOSE asked \in request.checkpoint : TRUE
  ELSE LET eligible == {k \in CONVERGENCE_CHECKPOINTS : k < Samples(request)}
       IN IF eligible # {} THEN CHOOSE k \in eligible : \A other \in eligible : k >= other
          ELSE IF Samples(request) \div 2 > 1 THEN Samples(request) \div 2 ELSE 1

(* What the calibrate plan refuses; a count that is given is not compared     *)
(* with the records.                                                          *)
CalibrationRefused(request) ==
  \/ Samples(request) < 2
  \/ Checkpoint(request) < 1 \/ Checkpoint(request) >= Samples(request)

Children(request) ==
  IF request.kind # "build" THEN <<request.kind>>
  ELSE IF request.component = "all" THEN <<"vision", "language">>
  ELSE <<request.component>>

Refused(request) ==
  \/ ~Accepted(request.config)
  \/ request.kind = "calibrate" /\ CalibrationRefused(request)
  \/ request.kind = "build" /\ ~request.resume /\ ~request.dry /\ rootInUse

------------------------------------------------------------------------------
AllChildren == {"prepare", "calibrate", "vision", "language"}

CommandsInit ==
  /\ given = 0 /\ command = <<>> /\ plan = <<>> /\ childPos = 0 /\ status = "none"
  /\ made = [child \in AllChildren |-> 0] /\ records = 0
  /\ rootInUse = FALSE /\ detach \in BOOLEAN /\ background = {}

(* What a child is handed in its environment.                                 *)
Job(request, child, by) ==
  [child |-> child, by |-> by, accepted |-> ChildAccepts(child, request.config),
   samples |-> IF child = "calibrate" THEN Samples(request) ELSE 0,
   checkpoint |-> IF child = "calibrate" THEN Checkpoint(request) ELSE 0]

(* main, up to the first child of run_plan.                                   *)
Give(request) ==
  /\ status # "running" /\ given < MaxCommands
  /\ given' = given + 1 /\ command' = request
  /\ plan' = [i \in DOMAIN Children(request) |-> Job(request, Children(request)[i], given')]
  /\ childPos' = 1
  /\ status' = IF Refused(request) THEN "refused"
               ELSE IF request.dry THEN "printed" ELSE "running"
  /\ UNCHANGED <<made, records, rootInUse, detach, background>>

ChildMade(job) == made' = [made EXCEPT ![job.child] = job.by]

WorkDone(job) ==
  /\ ChildMade(job)
  /\ \/ job.child = "prepare" /\ records' \in Counts /\ UNCHANGED rootInUse
     \/ /\ job.child = "calibrate"
        /\ job.checkpoint < job.samples /\ job.checkpoint < records
        /\ UNCHANGED <<records, rootInUse>>
     \/ job.child \in {"vision", "language"} /\ rootInUse' = TRUE /\ UNCHANGED records

(* A child that does its work; calibrate.py compares the checkpoint with the  *)
(* records it finds.  A build that finds its source graphs does not start the *)
(* adapter.                                                                   *)
Works(job) ==
  /\ \/ job.accepted
     \/ job.child \in {"vision", "language"} /\ command.resume /\ rootInUse
        /\ command.config.march = "nash-p"
  /\ WorkDone(job)

(* A child that does not; a build may have written by then, and a preparation *)
(* that was not refused may have replaced the records.                        *)
Breaks(job) ==
  /\ rootInUse' = rootInUse \/ (job.child \in {"vision", "language"} /\ rootInUse' = TRUE)
  /\ records' = records \/ (job.child = "prepare" /\ job.accepted /\ records' \in Counts)
  /\ UNCHANGED made

Detached == detach /\ command.kind # "build"

\* Mutant: the status of a child is not looked at.
ChildUnchecked ==
  /\ status = "running" /\ ~Detached
  /\ Works(plan[childPos]) \/ Breaks(plan[childPos])
  /\ IF childPos = Len(plan) THEN status' = "complete" /\ UNCHANGED childPos
                        ELSE childPos' = childPos + 1 /\ UNCHANGED status
  /\ UNCHANGED <<given, command, plan, detach, background>>

(* run_plan: the next child after one that exits with zero, no other after    *)
(* one that does not.                                                         *)
Child ==
  /\ status = "running" /\ ~Detached
  /\ \/ /\ Works(plan[childPos])
        /\ IF childPos = Len(plan) THEN status' = "complete" /\ UNCHANGED childPos
                              ELSE childPos' = childPos + 1 /\ UNCHANGED status
     \/ Breaks(plan[childPos]) /\ status' = "failed" /\ UNCHANGED childPos
  /\ UNCHANGED <<given, command, plan, detach, background>>

(* The wrapper starts itself again and exits with zero.                       *)
Detach ==
  /\ status = "running" /\ Detached
  /\ background' = background \cup {plan[childPos]}
  /\ status' = "complete"
  /\ UNCHANGED <<given, command, plan, childPos, made, records, rootInUse, detach>>

InBackground ==
  \E job \in background :
    /\ Works(job) \/ Breaks(job)
    /\ background' = background \ {job}
    /\ UNCHANGED <<given, command, plan, childPos, status, detach>>

CommandsNext == (\E request \in Requests : Give(request)) \/ Child \/ Detach \/ InBackground

CommandsSpec == CommandsInit /\ [][CommandsNext]_commandVars

------------------------------------------------------------------------------
Planned == status \notin {"none", "refused"}

(* A configuration that gets past validate_config leaves room behind a full   *)
(* prefill for the widest decode window, which no check names, and for the    *)
(* answer the runtime section promises; and for text beside the image.        *)
ConfigurationFits ==
  Planned =>
    /\ command.config.chunk + 2 * 6 <= command.config.cache
    /\ command.config.chunk > command.config.visual
    /\ \A answer \in command.config.answer :
         command.config.chunk + answer <= command.config.cache

(* The convergence check a plan asks for compares two counts of samples.      *)
CheckpointInside ==
  Planned /\ command.kind = "calibrate" =>
    plan[1].checkpoint \in 1 .. plan[1].samples - 1

(* Of what validate_config lets through the children refuse only another      *)
(* march, a mixed list of devices and a preparation in float16: the ranges    *)
(* the adapter repeats do not cross those of the configuration.               *)
RefusedLate ==
  Planned => \A i \in DOMAIN plan :
    \/ plan[i].accepted
    \/ command.config.march # "nash-p" \/ command.config.device = "cpu,cuda"
    \/ plan[i].child = "prepare" /\ command.config.dtype = "float16"

(* Unless a wrapper went to the background, a command that reports success    *)
(* has made everything it planned, and one that failed has made what came     *)
(* before the child it failed in, and nothing from there on.                  *)
StatusTrue ==
  /\ status = "complete" /\ ~Detached =>
       \A i \in DOMAIN plan : made[plan[i].child] = given
  /\ status = "failed" =>
       \A i \in DOMAIN plan : (made[plan[i].child] = given) = (i < childPos)

(* A build without --resume leaves models of its own and no others.           *)
FreshBuildAlone ==
  status = "complete" /\ command.kind = "build" /\ ~command.resume =>
    {made["vision"], made["language"]} \subseteq {0, given}

(* A command is what it reports, on a configuration that can run.             *)
CommandSound ==
  /\ given \in 0 .. MaxCommands
  /\ status \in {"none", "refused", "printed", "running", "complete", "failed"}
  /\ ConfigurationFits /\ CheckpointInside /\ RefusedLate /\ StatusTrue /\ FreshBuildAlone
==============================================================================
