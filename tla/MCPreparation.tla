---------------------------- MODULE MCPreparation ----------------------------
(* The preparation of calibration data, its stages side by side in one run:   *)
(* they share no state here, part says which of them a behaviour explores.    *)
(*   generate   one selection, two settings, power loss; fair                 *)
(*   profiles   selections that overlap, two profiles                         *)
(*   settings   two settings, lines of the log that a kill cuts short         *)
(*   select     every quota and seed, copies that a kill cuts short           *)
(*   reselect   one catalogue again and again into one directory              *)
(*   updated    the catalogue changes between two runs                        *)
(*   geometry   one image after another onto a canvas                         *)
(*   bundle     the replay contexts of every bundle by itself                 *)
(*   dataset    the replay contexts of sets of three bundles                  *)
EXTENDS Prepare, ImageGeometry, TLC

CONSTANTS a, b, c, s1, s2, p1, p2, x1, x2, x3, x4, x5, x6, y1, NoFile, Part

VARIABLES
  part,
  otherLog, otherTensors, otherManifest, otherSummary, otherExit, otherRun, otherPc,
  otherPos, otherRecords, otherUnsynced,
  images, selected, selectRun, selectPc, selectPos, selectRuns,
  bundles, contexts, planStatus, planErrors

other == <<otherLog, otherTensors, otherManifest, otherSummary, otherExit, otherRun, otherPc,
           otherPos, otherRecords, otherUnsynced>>
selection == <<images, selected, selectRun, selectPc, selectPos, selectRuns>>
replay == <<bundles, contexts, planStatus, planErrors>>

------------------------------------------------------------------------------
MCSelections == {<<a, b>>}

Profiled ==
  INSTANCE Prepare
    WITH Items <- {a, b, c}, Selections <- {<<a, b>>, <<b, c>>}, Settings <- {s1},
         Profiles <- {p1, p2}, PowerLoss <- FALSE,
         log <- otherLog, tensors <- otherTensors, manifest <- otherManifest,
         summary <- otherSummary, exit <- otherExit, run <- otherRun, pc <- otherPc,
         pos <- otherPos, records <- otherRecords, unsynced <- otherUnsynced

Torn ==
  INSTANCE Prepare
    WITH TornAppends <- TRUE, PowerLoss <- FALSE,
         log <- otherLog, tensors <- otherTensors, manifest <- otherManifest,
         summary <- otherSummary, exit <- otherExit, run <- otherRun, pc <- otherPc,
         pos <- otherPos, records <- otherRecords, unsynced <- otherUnsynced

------------------------------------------------------------------------------
(* Catalogues in which images belong to several tasks and supplies run out.   *)
Row(task, image, id) == [task |-> task, image |-> image, id |-> id, evaluation |-> FALSE]
Held(task, image, id) == [Row(task, image, id) EXCEPT !.evaluation = TRUE]

MCShared ==
  {Row("detection", x1, 1), Row("detection", x2, 2), Row("detection", x3, 3),
   Row("gui", x1, 1), Row("gui", x4, 2), Row("gui", x5, 3),
   Row("layout", x4, 1), Row("layout", x6, 2), Held("layout", y1, 0)}
MCScarce ==
  {Row("detection", y1, 1), Row("gui", x2, 2), Row("gui", x3, 3), Row("layout", x4, 2),
   Row("layout", x5, 3), Row("detection", y1, 2)}

Selected ==
  INSTANCE Selection
    WITH Catalogues <- {MCShared, MCScarce}, Totals <- 1 .. 5, ExplicitQuotas <- BOOLEAN,
         MaxRuns <- 1, CutCopies <- TRUE,
         Tasks <- <<"detection", "gui", "layout">>,
         Weight <- [detection |-> 6, gui |-> 3, layout |-> 1], Steepness <- 2,
         SeedRange <- 32, BaseSeeds <- {0, 5, 27, 31}, SlowSamples <- 2,
         manifest <- selected, run <- selectRun, pc <- selectPc, pos <- selectPos,
         runs <- selectRuns

Reselected ==
  INSTANCE Selection
    WITH Catalogues <- {MCShared}, Totals <- {5}, ExplicitQuotas <- {FALSE},
         MaxRuns <- 4, CutCopies <- FALSE,
         Tasks <- <<"detection", "gui", "layout">>,
         Weight <- [detection |-> 6, gui |-> 3, layout |-> 1], Steepness <- 2,
         SeedRange <- 32, BaseSeeds <- {0, 5, 27, 31}, SlowSamples <- 2,
         manifest <- selected, run <- selectRun, pc <- selectPc, pos <- selectPos,
         runs <- selectRuns

Updated ==
  INSTANCE Selection
    WITH Catalogues <- {MCShared, MCScarce}, Totals <- {3}, ExplicitQuotas <- {FALSE},
         MaxRuns <- 2, CutCopies <- FALSE,
         Tasks <- <<"detection", "gui", "layout">>,
         Weight <- [detection |-> 6, gui |-> 3, layout |-> 1], Steepness <- 2,
         SeedRange <- 32, BaseSeeds <- {0, 5, 27, 31}, SlowSamples <- 2,
         manifest <- selected, run <- selectRun, pc <- selectPc, pos <- selectPos,
         runs <- selectRuns

ASSUME /\ Selected!WeightsGiven /\ Selected!SeedsFit
       /\ Reselected!SeedsFit /\ Updated!SeedsFit

------------------------------------------------------------------------------
(* Square and oblong canvases; sources wider, taller, smaller than the        *)
(* canvas, with halves to round, and thin enough to vanish.                   *)
Size(width, height) == [width |-> width, height |-> height]
MCSources == {Size(1344, 1081), Size(1344, 1083), Size(101, 1344), Size(1, 3000),
              Size(448, 223), Size(640, 480), Size(672, 672), Size(20, 15)}
MCResponses == {<<0, 0, 1000, 1000>>, <<499, 500, 501, 502>>, <<1, 999, 2, 999>>,
                <<333, 667>>, <<5, 5, 5>>, <<0, 1001>>}

MCCanvases == {Size(672, 672), Size(336, 224), Size(84, 42), Size(0, 28)}
MCOtherGrids == {<<16, 24>>, <<24, 16>>, <<48, 48>>, <<47, 49>>}

------------------------------------------------------------------------------
(* Blocks of two pending tokens, histories of four tokens counting as long,   *)
(* chunks of nine tokens and prompts of one or six, so that targets are cut   *)
(* by their own end and by the chunk.                                         *)
StreamsUpTo(lengths) == UNION {[len : {n}, marks : SUBSET (1 .. n - 1)] : n \in lengths}

(* Every target of six tokens, with a prediction, and both orders of          *)
(* preference.                                                                *)
MCOneBundle ==
  [bundle : {0, 1, 2, 4, 5, 8}, task : {"detection", "ocr"}, prompt : {1, 6},
   streams : [target : StreamsUpTo({0, 1, 6}),
              hybrid : StreamsUpTo({0, 1}) \cup {[len |-> 5, marks |-> {2, 3}]}]]

(* A few different bundles, for whole data sets of three.                     *)
MCDataset ==
  [bundle : {0, 1, 4, 7}, task : {"detection", "ocr"}, prompt : {1},
   streams : [target : {[len |-> 7, marks |-> {}], [len |-> 7, marks |-> {1, 2, 4}],
                        [len |-> 3, marks |-> {1}]},
              hybrid : {[len |-> 0, marks |-> {}], [len |-> 6, marks |-> {4}]}]]

Bundle ==
  INSTANCE ReplayContexts
    WITH Payloads <- MCOneBundle, Samples <- 1, ChunkSize <- 9, CacheLen <- 13,
         Pending <- 2, LongSuffix <- 4, Slots <- 5,
         records <- contexts, status <- planStatus, errors <- planErrors

Dataset ==
  INSTANCE ReplayContexts
    WITH Payloads <- MCDataset, Samples <- 3, ChunkSize <- 9, CacheLen <- 13,
         Pending <- 2, LongSuffix <- 4, Slots <- 5,
         records <- contexts, status <- planStatus, errors <- planErrors

ASSUME Bundle!ContextAssumption /\ Dataset!ContextAssumption

------------------------------------------------------------------------------
OtherStarts ==
  CASE part = "profiles" -> Profiled!Init
    [] part = "settings" -> Torn!Init
    [] OTHER -> /\ otherLog = <<>> /\ otherTensors = 0 /\ otherManifest = <<>>
                /\ otherSummary = 0 /\ otherExit = 0 /\ otherRun = 0 /\ otherPc = 0
                /\ otherPos = 0 /\ otherRecords = 0 /\ otherUnsynced = 0

SelectionStarts ==
  CASE part = "select" -> Selected!Init
    [] part = "reselect" -> Reselected!Init
    [] part = "updated" -> Updated!Init
    [] OTHER -> /\ images = 0 /\ selected = 0 /\ selectRun = 0 /\ selectPc = 0
                /\ selectPos = 0 /\ selectRuns = 0

ReplayStarts ==
  CASE part = "bundle" -> Bundle!Init
    [] part = "dataset" -> Dataset!Init
    [] OTHER -> bundles = 0 /\ contexts = 0 /\ planStatus = 0 /\ planErrors = 0

PartsStart ==
  /\ part \in {"generate", "profiles", "settings", "select", "reselect", "geometry",
              "bundle", "dataset"}
  /\ Init /\ OtherStarts /\ SelectionStarts /\ GeometryInit /\ ReplayStarts

everything == <<part, vars, other, selection, geometryVars, replay>>

GenerateStep ==
  part = "generate" /\ Next /\ UNCHANGED <<part, other, selection, geometryVars, replay>>
ProfilesStep ==
  part = "profiles" /\ Profiled!Next /\ UNCHANGED <<part, vars, selection, geometryVars, replay>>
SettingsStep ==
  part = "settings" /\ Torn!Next /\ UNCHANGED <<part, vars, selection, geometryVars, replay>>
SelectStep ==
  part = "select" /\ Selected!Next /\ UNCHANGED <<part, vars, other, geometryVars, replay>>
ReselectStep ==
  part = "reselect" /\ Reselected!Next /\ UNCHANGED <<part, vars, other, geometryVars, replay>>
UpdatedStep ==
  part = "updated" /\ Updated!Next /\ UNCHANGED <<part, vars, other, geometryVars, replay>>
GeometryStep ==
  part = "geometry" /\ GeometryNext /\ UNCHANGED <<part, vars, other, selection, replay>>
BundleStep ==
  part = "bundle" /\ Bundle!Next /\ UNCHANGED <<part, vars, other, selection, geometryVars>>
DatasetStep ==
  part = "dataset" /\ Dataset!Next /\ UNCHANGED <<part, vars, other, selection, geometryVars>>
(* Only the bound on the selections ends their part.                          *)
SelectionsMade ==
  part \in {"select", "reselect"} /\ selectPc = "idle" /\ selectRuns > 0
  /\ UNCHANGED everything

PartsNext ==
  \/ GenerateStep \/ ProfilesStep \/ SettingsStep \/ SelectStep \/ ReselectStep
  \/ GeometryStep \/ BundleStep \/ DatasetStep \/ SelectionsMade

(* A run goes on, and the operator goes on resuming until one is done.        *)
GenerateGoesOn ==
  part = "generate" /\ (Progress \/ (pc # "done" /\ Resumed))
  /\ UNCHANGED <<part, other, selection, geometryVars, replay>>

PartsSpec ==
  PartsStart /\ [][PartsNext]_everything /\ WF_everything(GenerateGoesOn)

(* The same when a kill may cut a line of the log short.                      *)
SettingsGoesOn ==
  part = "settings" /\ (Torn!Progress \/ (otherPc # "done" /\ Torn!Resumed))
  /\ UNCHANGED <<part, vars, selection, geometryVars, replay>>
TornSpec ==
  /\ PartsStart /\ part = "settings" /\ [][SettingsStep]_everything
  /\ WF_everything(SettingsGoesOn)

(* A catalogue that changes between two selections.                           *)
UpdatedSpec ==
  /\ part = "updated" /\ Init /\ OtherStarts /\ SelectionStarts /\ GeometryInit
  /\ ReplayStarts /\ [][UpdatedStep]_everything

------------------------------------------------------------------------------
(* When the kills end and the operator keeps resuming, a manifest and its     *)
(* summary are published.                                                     *)
ResumedRunPublishes ==
  <>[](part = "generate" => pc # "killed")
    => []<>(part = "generate" => pc = "boxes" \/ exit = "succeeded")

(* The same if a kill may cut a line short; prepare.py's resume reads the log *)
(* to go on where the last run stopped.                                       *)
TornRunPublishes ==
  <>[](otherPc # "killed") => []<>(otherPc = "boxes" \/ otherExit = "succeeded")

(* What PublicationSound says of one selection holds of several that overlap, *)
(* of two profiles, and of a log whose lines a kill cuts short; a selection   *)
(* is the mix that was asked for, with its images and seeds.                  *)
InputsSound ==
  /\ part = "profiles" => Profiled!PublicationSound
  /\ part = "settings" => Torn!PublicationSound /\ Torn!RecordMatchesTensor
  /\ part = "select" => Selected!MixSound
  /\ part = "reselect" => Reselected!MixSound /\ Reselected!ImagesMatchRecords

(* The image file of a record is its image also when the catalogue changed.   *)
UpdatedImagesMatch == Updated!ImagesMatchRecords

(* Replay contexts cover what they must, and the audit says so.               *)
ContextsSound ==
  /\ part = "bundle" => Bundle!ContextsSound
  /\ part = "dataset" => Dataset!ContextsSound
==============================================================================
