------------------------------- MODULE MCBuilds -------------------------------
(* The builds and the command in front of them, side by side in one run: the  *)
(* components share no state, part says which of them a behaviour explores.   *)
(*   language   two configurations, the release path, power loss; fair        *)
(*   families   a third configuration that exports under a name of its own,   *)
(*              for other weight widths or cores                              *)
(*   contracts  two configurations, each for a chunk and cache of its own     *)
(*   variants   a model for each of two core counts, one configuration        *)
(*   vision     configurations of two image sizes                             *)
(*   one_size   configurations of one image size; fair                        *)
(*   commands   quantize.py                                                   *)
EXTENDS LanguageBuild, Orchestration, TLC

CONSTANTS c1, c2, c3, n1, n2, small, large

VARIABLES
  part,
  otherBc, otherEmbedding, otherConverted, otherHbo, otherHbm, otherInUse, otherRun,
  otherPc, otherPos, otherStaged,
  visionBc, visionConverted, visionHbo, visionHbm, visionInUse, visionRun, visionPc,
  visionStaged

other == <<otherBc, otherEmbedding, otherConverted, otherHbo, otherHbm, otherInUse, otherRun,
           otherPc, otherPos, otherStaged>>
vision == <<visionBc, visionConverted, visionHbo, visionHbm, visionInUse, visionRun,
            visionPc, visionStaged>>

------------------------------------------------------------------------------
MCNameOf == [config \in Configs |-> n1]
MCNames == {n1}
MCContractOf == n1 :> small
MCStageOrder == <<"prefill", "decode_ar">>
MCArGraphs == {"decode_ar"}
MCArCores == <<4>>

Families ==
  INSTANCE LanguageBuild
    WITH Configs <- {c1, c2, c3}, Names <- {n1, n2},
         NameOf <- (c1 :> n1 @@ c2 :> n1 @@ c3 :> n2),
         ContractOf <- (n1 :> small @@ n2 :> small), PowerLoss <- FALSE,
         bc <- otherBc, embedding <- otherEmbedding, converted <- otherConverted,
         hbo <- otherHbo, hbm <- otherHbm, inUse <- otherInUse, run <- otherRun,
         pc <- otherPc, pos <- otherPos, staged <- otherStaged

Contracts ==
  INSTANCE LanguageBuild
    WITH Configs <- {c1, c3}, Names <- {n1, n2},
         NameOf <- (c1 :> n1 @@ c3 :> n2),
         ContractOf <- (n1 :> small @@ n2 :> large), PowerLoss <- FALSE,
         bc <- otherBc, embedding <- otherEmbedding, converted <- otherConverted,
         hbo <- otherHbo, hbm <- otherHbm, inUse <- otherInUse, run <- otherRun,
         pc <- otherPc, pos <- otherPos, staged <- otherStaged

Variants ==
  INSTANCE LanguageBuild
    WITH Configs <- {c1}, NameOf <- (c1 :> n1), StageOrder <- <<"prefill", "decode", "decode_ar">>,
         ArCores <- <<1, 2>>, ReleasePath <- FALSE,
         bc <- otherBc, embedding <- otherEmbedding, converted <- otherConverted,
         hbo <- otherHbo, hbm <- otherHbm, inUse <- otherInUse, run <- otherRun,
         pc <- otherPc, pos <- otherPos, staged <- otherStaged

Vision ==
  INSTANCE VisionBuild
    WITH Configs <- {c1, c2, c3}, Sizes <- {small, large},
         SizeOf <- (c1 :> small @@ c2 :> small @@ c3 :> large),
         bc <- visionBc, converted <- visionConverted, hbo <- visionHbo, hbm <- visionHbm,
         inUse <- visionInUse, run <- visionRun, pc <- visionPc, staged <- visionStaged

OneSize ==
  INSTANCE VisionBuild
    WITH Configs <- {c1, c2}, Sizes <- {small}, SizeOf <- (c1 :> small @@ c2 :> small),
         bc <- visionBc, converted <- visionConverted, hbo <- visionHbo, hbm <- visionHbm,
         inUse <- visionInUse, run <- visionRun, pc <- visionPc, staged <- visionStaged

ASSUME Vision!SizesGiven /\ Vision!NotFiles /\ OneSize!SizesGiven /\ OneSize!NotFiles

Config(chunk, cache, visual, answer) ==
  [chunk |-> chunk, cache |-> cache, visual |-> visual, answer |-> answer,
   dtype |-> "bfloat16", visionBits |-> 8, languageBits |-> 8, cores |-> 4,
   device |-> "cuda", march |-> "nash-p"]
Request(kind, component, config, resume, dry, samples, checkpoint) ==
  [kind |-> kind, component |-> component, config |-> config, resume |-> resume,
   dry |-> dry, samples |-> samples, checkpoint |-> checkpoint]
MCConfigs == {Config(1024, 2048, 576, {512}), Config(256, 320, 64, {}),
              Config(256, 320, 64, {96}), Config(256, 256, 64, {}), Config(320, 392, 64, {}),
              Config(128, 256, 128, {})}
Good == Config(1024, 2048, 576, {512})
Unusual == {[Good EXCEPT !.dtype = "float16"], [Good EXCEPT !.device = "cpu,cuda"],
            [Good EXCEPT !.march = "nash-m"]}
Wrong == {[Good EXCEPT !.visionBits = 4], [Good EXCEPT !.cores = 3],
          [Good EXCEPT !.device = ""], [Good EXCEPT !.languageBits = 2],
          Config(64, 256, 16, {})}

(* Preparation and builds with every configuration, calibration with counts   *)
(* on both sides of the standard checkpoints.                                 *)
MCRequests ==
  {Request("prepare", "all", config, FALSE, FALSE, {}, {}) :
     config \in MCConfigs \cup Unusual}
  \cup {Request("build", "all", config, TRUE, FALSE, {}, {}) :
          config \in MCConfigs \cup Unusual \cup Wrong}
  \cup {Request("build", component, config, resume, dry, {}, {}) :
          component \in {"vision", "language", "all"}, config \in {Good},
          resume \in BOOLEAN, dry \in BOOLEAN}
  \cup {Request("calibrate", "all", Good, FALSE, FALSE, samples, checkpoint) :
          samples \in {{}, {2}, {64}, {65}, {600}}, checkpoint \in {{}, {1}, {64}, {0}}}

MCCounts == {1, 3, 64, 65}

------------------------------------------------------------------------------
OtherStarts ==
  CASE part = "families" -> Families!Init
    [] part = "contracts" -> Contracts!Init
    [] part = "variants" -> Variants!Init
    [] OTHER -> /\ otherBc = 0 /\ otherEmbedding = 0 /\ otherConverted = 0 /\ otherHbo = 0
                /\ otherHbm = 0 /\ otherInUse = 0 /\ otherRun = 0 /\ otherPc = "idle"
                /\ otherPos = 0 /\ otherStaged = 0

VisionStarts ==
  CASE part = "vision" -> Vision!Init
    [] part = "one_size" -> OneSize!Init
    [] OTHER -> /\ visionBc = 0 /\ visionConverted = 0 /\ visionHbo = 0 /\ visionHbm = 0
                /\ visionInUse = 0 /\ visionRun = 0 /\ visionPc = "idle" /\ visionStaged = 0

(* CommandSound is stated of every state: without a command it says little.   *)
CommandsStart == CommandsInit /\ (part # "commands" => ~detach)

PartsStart ==
  /\ part \in {"language", "families", "contracts", "variants", "vision", "one_size", "commands"}
  /\ Init /\ OtherStarts /\ VisionStarts /\ CommandsStart

everything == <<part, vars, other, vision, commandVars>>

LanguageStep == part = "language" /\ Next /\ UNCHANGED <<part, other, vision, commandVars>>
FamiliesStep == part = "families" /\ Families!Next /\ UNCHANGED <<part, vars, vision, commandVars>>
ContractsStep == part = "contracts" /\ Contracts!Next /\ UNCHANGED <<part, vars, vision, commandVars>>
VariantsStep == part = "variants" /\ Variants!Next /\ UNCHANGED <<part, vars, vision, commandVars>>
VisionStep == part = "vision" /\ Vision!Next /\ UNCHANGED <<part, vars, other, commandVars>>
OneSizeStep == part = "one_size" /\ OneSize!Next /\ UNCHANGED <<part, vars, other, commandVars>>
CommandsStep == part = "commands" /\ CommandsNext /\ UNCHANGED <<part, vars, other, vision>>
(* Only the bound on the commands ends their part.                            *)
CommandsGiven == part = "commands" /\ given = MaxCommands /\ UNCHANGED everything

PartsNext ==
  \/ LanguageStep \/ FamiliesStep \/ ContractsStep \/ VariantsStep \/ VisionStep \/ OneSizeStep
  \/ CommandsStep \/ CommandsGiven

(* The runs go on, and the operator goes on resuming until one completes.     *)
LanguageGoesOn ==
  part = "language" /\ (Progress \/ (pc # "done" /\ Resumed))
  /\ UNCHANGED <<part, other, vision, commandVars>>
OneSizeGoesOn ==
  part = "one_size" /\ (OneSize!Progress \/ (visionPc # "done" /\ OneSize!Resumed))
  /\ UNCHANGED <<part, vars, other, commandVars>>

PartsSpec ==
  /\ PartsStart /\ [][PartsNext]_everything
  /\ WF_everything(LanguageGoesOn) /\ WF_everything(OneSizeGoesOn)

(* The Vision build of several sizes alone, as fair as that of one.           *)
VisionGoesOn ==
  part = "vision" /\ (Vision!Progress \/ (visionPc # "done" /\ Vision!Resumed))
  /\ UNCHANGED <<part, vars, other, commandVars>>
SizesSpec ==
  /\ PartsStart /\ part = "vision" /\ [][VisionStep]_everything
  /\ WF_everything(VisionGoesOn)

(* The Language build alone, for two chunk and cache lengths.                 *)
ContractsSpec == PartsStart /\ part = "contracts" /\ [][ContractsStep]_everything

------------------------------------------------------------------------------
(* What OneModel and CompletedRunHasModels say of the release path holds of   *)
(* exports under names of their own, for another chunk or cache too, and of   *)
(* models for several core counts, and a Vision model is for the image size   *)
(* that was asked for.                                                        *)
OtherBuildsSound ==
  /\ part = "families" => Families!OneModel /\ Families!CompletedRunHasModels
  /\ part = "contracts" => Contracts!OneModel /\ Contracts!CompletedRunHasModels
  /\ part = "variants" => Variants!OneModel /\ Variants!CompletedRunHasModels
  /\ part = "vision" => Vision!VisionForItsSize
  /\ part = "one_size" => OneSize!VisionForItsSize

(* Undisturbed, a build that is resumed again and again completes.            *)
BuildsComplete ==
  <>[][~(part = "language" /\ Disturbance) /\ ~(part = "one_size" /\ OneSize!Disturbance)]_everything
    => []<>((part = "language" => pc = "done") /\ (part = "one_size" => visionPc = "done"))

(* A build that completes leaves each model with the embedding table its      *)
(* weights were exported with; quantize.py says of --resume that it reuses    *)
(* complete compatible outputs.  The two configurations differ in chunk or    *)
(* cache and in the checkpoint or rotation that the table is made of.         *)
CompletedModelHasItsTable ==
  part = "contracts" /\ otherPc = "done" /\ otherRun.target = "hbm" =>
    \A key \in Contracts!HbmKeys : otherHbm[key].weights = {otherEmbedding}

(* What BuildsComplete says, of Vision when the size changes; quantize.py     *)
(* tells the operator to use --resume to continue a directory in use.         *)
ResizedBuildCompletes ==
  <>[][~Vision!Disturbance]_everything => []<>(visionPc = "done")
==============================================================================
