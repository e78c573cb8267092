----------------------------- MODULE VisionBuild -----------------------------
(* The resumable build of the Vision model: build_vision.sh validates or     *)
(* exports the source graph, vision_build.py converts, compiles and links    *)
(* it.  Only the source graph has the image size in its file name; the       *)
(* files made of it are shared by the runs of every size.                    *)
EXTENDS Naturals

CONSTANTS
  Configs,      \* what a build depends on
  Sizes,        \* image sizes, which fix the shapes of the graph
  SizeOf,       \* the image size of a configuration
  NoFile, Damaged

Graphs == [config : Configs, size : Sizes, sound : BOOLEAN]
SizesGiven == SizeOf \in [Configs -> Sizes]
NotFiles == NoFile # Damaged /\ {NoFile, Damaged} \cap Graphs = {}

VARIABLES
  bc,         \* source graphs by image size
  converted, hbo, hbm,
  inUse,      \* build_root holds anything
  run,        \* arguments of the current or last run
  pc,         \* where it is
  staged      \* stages StageProgress has seen completed

files == <<bc, converted, hbo, hbm>>
vars == <<files, inUse, run, pc, staged>>

(* A graph file: who made it, the image size its shapes are for, and whether *)
(* its name, arity and element types came out of the tool as expected.       *)
Graph(config, size, sound) == [config |-> config, size |-> size, sound |-> sound]
Intact(file) == file # NoFile /\ file # Damaged
Size == SizeOf[run.config]

(* validate_visual_function on the one graph a readable file must hold.      *)
FunctionValid(file) == Intact(file) /\ file.sound /\ file.size = Size

------------------------------------------------------------------------------
Init ==
  /\ bc = [size \in Sizes |-> NoFile]
  /\ converted = NoFile /\ hbo = NoFile /\ hbm = NoFile
  /\ inUse = FALSE
  /\ run \in [config : Configs, target : {"none"}, resume : {FALSE}]
  /\ pc = "idle" /\ staged = 0

Stopped == {"idle", "done", "failed", "killed"}

(* build_plan refuses a directory in use unless --resume is given.           *)
Start(config, target, resume) ==
  /\ pc \in Stopped
  /\ resume \/ ~inUse
  /\ run' = [config |-> config, target |-> target, resume |-> resume]
  /\ pc' = "check" /\ staged' = 0
  /\ UNCHANGED <<files, inUse>>

(* run_build: the bc target validates only to resume, the hbm target always  *)
(* takes a source graph that validates.                                      *)
TakesSource == FunctionValid(bc[Size]) /\ (run.target = "hbm" \/ run.resume)

Check ==
  /\ pc = "check"
  /\ inUse' = TRUE
  /\ pc' = IF ~TakesSource THEN "export"
           ELSE IF run.target = "bc" THEN "done" ELSE "source"
  /\ UNCHANGED <<files, run, staged>>

Export ==
  /\ pc = "export"
  /\ \E sound \in BOOLEAN :
       bc' = [bc EXCEPT ![Size] = Graph(run.config, Size, sound)]
  /\ pc' = IF run.target = "bc" THEN "recheck" ELSE "source"
  /\ UNCHANGED <<converted, hbo, hbm, inUse, run, staged>>

(* validate_bc after the export, and the source contract at the head of main. *)
Recheck ==
  /\ pc \in {"recheck", "source"}
  /\ pc' = IF ~FunctionValid(bc[Size]) THEN "failed"
           ELSE IF pc = "recheck" THEN "done" ELSE "convert"
  /\ UNCHANGED <<files, inUse, run, staged>>

KeepsConverted == run.resume /\ FunctionValid(converted)

KeepConverted ==
  /\ pc = "convert" /\ KeepsConverted
  /\ pc' = "compile" /\ staged' = staged + 1
  /\ UNCHANGED <<files, inUse, run>>

(* The new file replaces the old one before it is validated.                 *)
ConvertGraph ==
  /\ pc = "convert" /\ ~KeepsConverted
  /\ \E sound \in BOOLEAN :
       /\ converted' = Graph(bc[Size].config, Size, sound)
       /\ IF sound THEN pc' = "compile" /\ staged' = staged + 1
                   ELSE pc' = "failed" /\ staged' = staged
  /\ UNCHANGED <<bc, hbo, hbm, inUse, run>>

(* valid_hbo: a compiled graph is kept if it opens.                          *)
KeepsHbo == run.resume /\ Intact(hbo)

KeepHbo ==
  /\ pc = "compile" /\ KeepsHbo
  /\ pc' = "link" /\ staged' = staged + 1
  /\ UNCHANGED <<files, inUse, run>>

(* compile_hbo does not look at the interface of the converted file.         *)
CompileHbo ==
  /\ pc = "compile" /\ ~KeepsHbo
  /\ Intact(converted)
  /\ hbo' = converted
  /\ pc' = "link" /\ staged' = staged + 1
  /\ UNCHANGED <<bc, converted, hbm, inUse, run>>

\* Mutant: a model is kept because it opens.
KeepsHbmOpens == run.resume /\ Intact(hbm)

(* valid_hbm.                                                                *)
KeepsHbm == run.resume /\ FunctionValid(hbm)

KeepHbm ==
  /\ pc = "link" /\ KeepsHbm
  /\ pc' = "done" /\ staged' = staged + 1
  /\ UNCHANGED <<files, inUse, run>>

(* The model is in place before its contract is checked.                     *)
LinkHbm ==
  /\ pc = "link" /\ ~KeepsHbm /\ Intact(hbo)
  /\ hbm' = hbo
  /\ IF FunctionValid(hbo) THEN pc' = "done" /\ staged' = staged + 1
                           ELSE pc' = "failed" /\ staged' = staged
  /\ UNCHANGED <<bc, converted, hbo, inUse, run>>

(* An exception or a kill.  Only the export writes its file in place.        *)
Interrupt ==
  /\ pc \notin Stopped
  /\ pc' = "killed"
  /\ bc' \in IF pc = "export" THEN {bc, [bc EXCEPT ![Size] = Damaged]} ELSE {bc}
  /\ UNCHANGED <<converted, hbo, hbm, inUse, run, staged>>

(* Nothing is forced to disk: a machine that stops may lose the contents of  *)
(* the file replaced last.                                                   *)
LosePower ==
  /\ pc \in {"compile", "link"}
  /\ pc' = "killed"
  /\ IF pc = "compile" THEN converted' = Damaged /\ hbo' = hbo
                       ELSE converted' = converted /\ hbo' = Damaged
  /\ UNCHANGED <<bc, hbm, inUse, run, staged>>

Progress ==
  \/ Check \/ Export \/ Recheck
  \/ KeepConverted \/ ConvertGraph \/ KeepHbo \/ CompileHbo \/ KeepHbm \/ LinkHbm

Next ==
  \/ \E config \in Configs, target \in {"bc", "hbm"}, resume \in BOOLEAN :
       Start(config, target, resume)
  \/ Progress \/ Interrupt \/ LosePower

Spec == Init /\ [][Next]_vars

------------------------------------------------------------------------------
(* Values of the variables; a run never counts more than its three stages.   *)
TypeOK ==
  /\ bc \in [Sizes -> Graphs \cup {NoFile, Damaged}]
  /\ {converted, hbo, hbm} \subseteq Graphs \cup {NoFile, Damaged}
  /\ inUse \in BOOLEAN
  /\ pc \in Stopped \cup {"check", "export", "recheck", "source", "convert",
                        "compile", "link"}
  /\ staged \in 0 .. 3 /\ (pc = "done" /\ run.target = "hbm" => staged \in {0, 3})

(* A compiled graph comes from a converted one that passed its check,        *)
(* although the converted file is in place before it is checked and          *)
(* compile_hbo does not look at it again.                                    *)
CompiledFromChecked == Intact(hbo) => hbo.sound

(* A build that ends successfully leaves a model for the image size it was   *)
(* asked for, whatever earlier runs left behind.                             *)
CompletedForItsSize ==
  pc = "done" /\ run.target = "hbm" => FunctionValid(hbm)

(* What the next stage is going to read is for the image size of the run.    *)
StageReadsItsSize ==
  /\ pc = "convert" => FunctionValid(bc[Size])
  /\ pc = "compile" => FunctionValid(converted)

(* What is compiled, and what is left in the end, is what the run asked for. *)
VisionForItsSize ==
  TypeOK /\ CompiledFromChecked /\ CompletedForItsSize /\ StageReadsItsSize

(* What keeps a build from completing while the operator keeps resuming it:  *)
(* interruptions, and tools that do not make what they should.               *)
Disturbance ==
  \/ Interrupt \/ LosePower
  \/ Export /\ ~bc'[Size].sound
  \/ ConvertGraph /\ ~converted'.sound
Resumed == \E config \in Configs : Start(config, "hbm", TRUE)
==============================================================================
