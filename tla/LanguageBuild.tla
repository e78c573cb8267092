---------------------------- MODULE LanguageBuild ----------------------------
(* The resumable build of the Language model: quantize.py admits a run,      *)
(* build_language.sh validates or exports the source graphs, and             *)
(* language_build.py converts, compiles and links them.  Every artifact is   *)
(* a file that outlives the run; a run may be interrupted at any point and   *)
(* be followed by one with another configuration.                            *)
EXTENDS Naturals, Sequences

CONSTANTS
  Configs,      \* what a file may depend on: scales, weights, widths, cores
  Names,        \* file-name prefixes of exported graphs
  NameOf,       \* the part of a configuration that standard_lm_name spells out
  ContractOf,   \* LanguageContract, the chunk and cache lengths a prefix spells
  StageOrder,   \* LANGUAGE_GRAPHS
  ArGraphs,     \* those compiled once per AR core count
  ArCores,      \* --ar_core_nums
  ReleasePath,  \* --hbm_path: one file per graph, whatever its core count
  PowerLoss,    \* a crash may damage the file written last
  NoFile, Damaged

Graphs == {StageOrder[i] : i \in DOMAIN StageOrder}

ASSUME NamesGiven == NameOf \in [Configs -> Names]

(* The shapes of a graph, source, converted or linked, are those of the      *)
(* contract it was exported for.                                             *)
Contract(config) == ContractOf[NameOf[config]]
ASSUME OrderGiven ==
  /\ StageOrder \in Seq(Graphs)
  /\ StageOrder # <<>>
  /\ \A i, j \in DOMAIN StageOrder : StageOrder[i] = StageOrder[j] => i = j
ASSUME CoresGiven ==
  /\ ArCores \in Seq(Nat) /\ ArCores # <<>>
  /\ ReleasePath => Len(ArCores) = 1

(* What a readable file may hold: a source graph, a graph converted or       *)
(* compiled, a linked model.                                                 *)
Contents == [weights : Configs, options : Configs]
Models == [weights : SUBSET Configs, options : SUBSET Configs, matches : BOOLEAN]

ASSUME NotContents ==
  /\ NoFile # Damaged
  /\ \A file \in {NoFile, Damaged} : file \notin Configs \cup Contents \cup Models

VARIABLES
  bc,         \* source graphs, by file-name prefix and graph
  embedding,  \* the token embedding table beside them
  converted,  \* converted graphs
  hbo,        \* compiled graphs, by graph and core count
  hbm,        \* linked models, by AR core count
  inUse,      \* build_root holds anything
  run,        \* arguments of the current or last run
  pc, pos,    \* where it is
  staged      \* stages StageProgress has seen completed

files == <<bc, embedding, converted, hbo, hbm>>
vars == <<files, inUse, run, pc, pos, staged>>

Intact(file) == file # NoFile /\ file # Damaged

------------------------------------------------------------------------------
(* The stages of language_build.py in the order main runs them.              *)
Convert(graph) == [kind |-> "convert", graph |-> graph, core |-> 0]
Compile(graph, core) == [kind |-> "compile", graph |-> graph, core |-> core]
Link(core) == [kind |-> "link", graph |-> "none", core |-> core]

(* SelectSeq, in a form that can be reasoned about.                          *)
InOrder(graphs) ==
  LET upTo[i \in 0 .. Len(StageOrder)] ==
        IF i = 0 THEN <<>>
        ELSE IF StageOrder[i] \in graphs THEN Append(upTo[i - 1], StageOrder[i])
        ELSE upTo[i - 1]
  IN upTo[Len(StageOrder)]

SharedGraphs == InOrder(Graphs \ ArGraphs)
ArStages == InOrder(Graphs \cap ArGraphs)

VariantPlan(core) ==
  Append([i \in DOMAIN ArStages |-> Compile(ArStages[i], core)], Link(core))

VariantsPlan[i \in 0 .. Len(ArCores)] ==
  IF i = 0 THEN <<>> ELSE VariantsPlan[i - 1] \o VariantPlan(ArCores[i])

Plan == [i \in DOMAIN StageOrder |-> Convert(StageOrder[i])]
        \o [i \in DOMAIN SharedGraphs |-> Compile(SharedGraphs[i], 0)]
        \o VariantsPlan[Len(ArCores)]

(* The total StageProgress is created with: one prefill, the PBD graphs, and *)
(* the AR graphs and a link for every AR core count.                         *)
TotalStages == Len(StageOrder) + 1 + (Len(SharedGraphs) - 1)
               + Len(ArCores) * (Len(ArStages) + 1)

(* The release path has no core count in it.                                 *)
PathCore(core) == IF ReleasePath THEN 0 ELSE core
HboKeys == [graph : Graphs, core : {0} \cup {ArCores[i] : i \in DOMAIN ArCores}]
HbmKeys == {PathCore(ArCores[i]) : i \in DOMAIN ArCores}
HboKey(graph, core) ==
  [graph |-> graph, core |-> IF graph \in ArGraphs THEN PathCore(core) ELSE 0]

------------------------------------------------------------------------------
(* Files.  A source graph holds the configuration that exported it; later    *)
(* files hold whose weights they are made of and whose options made them.    *)
Made(weights, options) == [weights |-> weights, options |-> options]

(* discover_bc: one readable file for each graph, under whatever prefix,     *)
(* with the shapes a run of this configuration expects; and then a table.    *)
SourceNames(graph) == {n \in Names : bc[n][graph] # NoFile}
SourcesValid(config) ==
  /\ \A graph \in Graphs : \E n \in Names :
       /\ SourceNames(graph) = {n} /\ Intact(bc[n][graph])
       /\ Contract(bc[n][graph]) = Contract(config)
  /\ embedding # NoFile
SourceOf(graph) ==
  bc[CHOOSE n \in Names : SourceNames(graph) = {n}][graph]

(* validate_graph_contract against the arguments of the current run.         *)
Fits(weights) == Contract(weights) = Contract(run.config)

------------------------------------------------------------------------------
Init ==
  /\ bc = [n \in Names |-> [graph \in Graphs |-> NoFile]]
  /\ embedding = NoFile
  /\ converted = [graph \in Graphs |-> NoFile]
  /\ hbo = [key \in HboKeys |-> NoFile]
  /\ hbm = [key \in HbmKeys |-> NoFile]
  /\ inUse = FALSE
  /\ run = [config |-> NoFile, target |-> "none", resume |-> FALSE]
  /\ pc = "idle" /\ pos = 1 /\ staged = 0

Stopped == {"idle", "done", "failed", "killed"}

(* build_plan refuses a directory in use unless --resume is given.           *)
Admitted(resume) == resume \/ ~inUse

Start(config, target, resume) ==
  /\ pc \in Stopped
  /\ Admitted(resume)
  /\ run' = [config |-> config, target |-> target, resume |-> resume]
  /\ pc' = "check"
  /\ pos' = 1 /\ staged' = 0
  /\ UNCHANGED <<files, inUse>>

\* Mutant: the hbm target takes a family that validates only to resume bc.
TakesSourcesRarely == SourcesValid(run.config) /\ run.target = "bc" /\ run.resume

(* run_build of build_language.sh: the bc target validates only to resume,   *)
(* the hbm target always takes a family that validates.                      *)
TakesSources == SourcesValid(run.config) /\ (run.target = "hbm" \/ run.resume)

Check ==
  /\ pc = "check"
  /\ inUse' = TRUE
  /\ pc' = IF ~TakesSources THEN "open"
           ELSE IF run.target = "bc" THEN "done" ELSE "build"
  /\ UNCHANGED <<files, run, pos, staged>>

(* The constructor of LocateAnythingLanguageApi replaces the embedding table *)
(* before anything of the export is sure: apply_scale_manifest may yet       *)
(* refuse the calibration (Interrupt).                                       *)
SaveEmbedding ==
  /\ pc = "open"
  /\ embedding' = run.config
  /\ pc' = "export"
  /\ UNCHANGED <<bc, converted, hbo, hbm, inUse, run, pos, staged>>

(* compile then saves one graph after the other.                             *)
Saved(file) == [bc EXCEPT ![NameOf[run.config]][StageOrder[pos]] = file]

Export ==
  /\ pc = "export"
  /\ bc' = Saved(run.config)
  /\ IF pos = Len(StageOrder) THEN pc' = "recheck" /\ pos' = 1
                              ELSE pc' = pc /\ pos' = pos + 1
  /\ UNCHANGED <<embedding, converted, hbo, hbm, inUse, run, staged>>

(* The shell validates what it exported, whatever else is there.             *)
Recheck ==
  /\ pc = "recheck"
  /\ pc' = IF ~SourcesValid(run.config) THEN "failed"
           ELSE IF run.target = "bc" THEN "done" ELSE "build"
  /\ UNCHANGED <<files, inUse, run, pos, staged>>

Step == Plan[pos]

Advance ==
  /\ staged' = staged + 1
  /\ IF pos = Len(Plan) THEN pc' = "done" /\ pos' = 1
                        ELSE pc' = pc /\ pos' = pos + 1
  /\ UNCHANGED <<bc, embedding, inUse, run>>

\* Mutants: a file is kept because it is there, or is never kept.
KeepsConvertedPresent(graph) == run.resume /\ converted[graph] # NoFile
KeepsConvertedNever(graph) == graph \notin Graphs

(* convert_stage: a converted graph with the right interface is kept.        *)
KeepsConverted(graph) ==
  run.resume /\ Intact(converted[graph]) /\ Fits(converted[graph].weights)

ConvertStage ==
  /\ pc = "build" /\ Step.kind = "convert"
  /\ converted' = IF KeepsConverted(Step.graph) THEN converted
                  ELSE [converted EXCEPT ![Step.graph] =
                          Made(SourceOf(Step.graph), run.config)]
  /\ Advance
  /\ UNCHANGED <<hbo, hbm>>

(* compile_stage: a compiled graph that opens is kept, whatever its shapes.  *)
KeepsHbo(key) == run.resume /\ Intact(hbo[key])

CompileStage ==
  /\ pc = "build" /\ Step.kind = "compile"
  /\ \/ KeepsHbo(HboKey(Step.graph, Step.core))
     \/ Intact(converted[Step.graph]) /\ Fits(converted[Step.graph].weights)
  /\ LET key == HboKey(Step.graph, Step.core)
     IN hbo' = IF KeepsHbo(key) THEN hbo
               ELSE [hbo EXCEPT ![key] =
                       Made(converted[Step.graph].weights, run.config)]
  /\ Advance
  /\ UNCHANGED <<converted, hbm>>

(* link_variant replaces the published model and checks it afterwards.       *)
LinkedHbos(core) == {hbo[HboKey(graph, core)] : graph \in Graphs}
Linked(core, matches) ==
  [weights |-> {file.weights : file \in LinkedHbos(core)},
   options |-> {file.options : file \in LinkedHbos(core)},
   matches |-> matches]

\* Mutant: a model is kept because it opens.
KeepsHbmOpens(core) == run.resume /\ Intact(hbm[PathCore(core)])

(* hbm_contract_matches: the graphs by name, each with this run's shapes.    *)
ContractMatches(model) == model.matches /\ \A weights \in model.weights : Fits(weights)

KeepsHbm(core) == /\ run.resume
                  /\ Intact(hbm[PathCore(core)])
                  /\ ContractMatches(hbm[PathCore(core)])

LinkStage ==
  /\ pc = "build" /\ Step.kind = "link"
  /\ \/ KeepsHbm(Step.core)
     \/ \A file \in LinkedHbos(Step.core) : Intact(file) /\ Fits(file.weights)
  /\ hbm' = IF KeepsHbm(Step.core) THEN hbm
            ELSE [hbm EXCEPT ![PathCore(Step.core)] = Linked(Step.core, TRUE)]
  /\ Advance
  /\ UNCHANGED <<converted, hbo>>

LinkMismatch ==
  /\ pc = "build" /\ Step.kind = "link" /\ ~KeepsHbm(Step.core)
  /\ \A file \in LinkedHbos(Step.core) : Intact(file)
  /\ hbm' = [hbm EXCEPT ![PathCore(Step.core)] = Linked(Step.core, FALSE)]
  /\ pc' = "failed"
  /\ UNCHANGED <<bc, embedding, converted, hbo, inUse, run, pos, staged>>

(* An exception or a kill.  Files are replaced whole, but for the source     *)
(* graph that is being saved.                                                *)
Interrupt ==
  /\ pc \notin Stopped
  /\ pc' = "killed"
  /\ bc' \in IF pc = "export" THEN {bc, Saved(Damaged)}
                              ELSE {bc}
  /\ UNCHANGED <<embedding, converted, hbo, hbm, inUse, run, pos, staged>>

(* Nothing is forced to disk, so a machine that stops may lose the contents  *)
(* of the file replaced last.                                                *)
LosePower ==
  /\ PowerLoss /\ pc = "build" /\ pos > 1
  /\ pc' = "killed"
  /\ LET last == Plan[pos - 1]
     IN \/ /\ last.kind = "convert"
           /\ converted' = [converted EXCEPT ![last.graph] = Damaged]
           /\ UNCHANGED <<hbo, hbm>>
        \/ /\ last.kind = "compile"
           /\ hbo' = [hbo EXCEPT ![HboKey(last.graph, last.core)] = Damaged]
           /\ UNCHANGED <<converted, hbm>>
        \/ /\ last.kind = "link"
           /\ hbm' = [hbm EXCEPT ![PathCore(last.core)] = Damaged]
           /\ UNCHANGED <<converted, hbo>>
  /\ UNCHANGED <<bc, embedding, inUse, run, pos, staged>>

Progress == Check \/ SaveEmbedding \/ Export \/ Recheck \/ ConvertStage \/ CompileStage \/ LinkStage

Next ==
  \/ \E config \in Configs, target \in {"bc", "hbm"}, resume \in BOOLEAN :
       Start(config, target, resume)
  \/ Progress \/ LinkMismatch \/ Interrupt \/ LosePower

Spec == Init /\ [][Next]_vars

------------------------------------------------------------------------------
(* Values of the variables; the counter never runs past the total it was     *)
(* created with, which StageProgress.stage would refuse.                     *)
TypeOK ==
  /\ bc \in [Names -> [Graphs -> Configs \cup {NoFile, Damaged}]]
  /\ embedding \in Configs \cup {NoFile}
  /\ converted \in [Graphs -> Contents \cup {NoFile, Damaged}]
  /\ hbo \in [HboKeys -> Contents \cup {NoFile, Damaged}]
  /\ hbm \in [HbmKeys -> Models \cup {NoFile, Damaged}]
  /\ inUse \in BOOLEAN
  /\ pc \in Stopped \cup {"check", "open", "export", "recheck", "build"}
  /\ pos \in 1 .. Len(Plan)
  /\ staged \in 0 .. TotalStages

(* A run of another chunk or cache than an export's has saved something in   *)
(* the directory since: its embedding table, or a source graph of its own.   *)
Superseded(export) ==
  \E config \in Configs :
    /\ Contract(config) # Contract(export)
    /\ embedding = config \/ \E graph \in Graphs : bc[NameOf[config]][graph] # NoFile

(* A family of source graphs that some run would take was exported whole by  *)
(* one run, however many exports were cut short; and so was the embedding    *)
(* table beside it, unless a run of another chunk or cache replaced it.      *)
FamilyOfOneExport ==
  \A config \in Configs : SourcesValid(config) =>
    \E export \in Configs :
      /\ \A graph \in Graphs : SourceOf(graph) = export
      /\ embedding = export \/ Superseded(export)

(* No linked model mixes the weights of two exports, or has others than the  *)
(* embedding table that ships with it, unless a run of another chunk or      *)
(* cache has been in the directory since.                                    *)
OneWeightSet ==
  \A key \in HbmKeys : Intact(hbm[key]) =>
    \E export \in Configs :
      /\ hbm[key].weights = {export}
      /\ embedding = export \/ Superseded(export)

(* A build that ends successfully leaves every model it names, with the      *)
(* graphs and shapes it expects, even if an earlier run left one that it had *)
(* rejected or one for another chunk or cache.                               *)
CompletedRunHasModels ==
  pc = "done" /\ run.target = "hbm" =>
    /\ \A key \in HbmKeys : Intact(hbm[key]) /\ ContractMatches(hbm[key])
    /\ staged = TotalStages

(* Without --resume a completed model owes nothing to an earlier run.        *)
FreshRunOwnsModel ==
  pc = "done" /\ run.target = "hbm" /\ ~run.resume =>
    \A key \in HbmKeys :
      hbm[key].weights = {run.config} /\ hbm[key].options = {run.config}

(* What is on disk never mixes two exports.                                  *)
OneModel == TypeOK /\ FamilyOfOneExport /\ OneWeightSet /\ FreshRunOwnsModel

(* The build is resumable work: no artifact that is there is made again, and *)
(* a model is linked only from all of them.  For the release path, where     *)
(* there is one model.                                                       *)
MadeBy(file) == IF Intact(file) THEN file.options ELSE NoFile
Work == INSTANCE ResumableWork WITH
  Items <- {"convert", "compile"} \X Graphs,
  Makers <- Configs,
  None <- NoFile,
  made <- [item \in {"convert", "compile"} \X Graphs |->
             MadeBy(IF item[1] = "convert" THEN converted[item[2]]
                    ELSE hbo[HboKey(item[2], 0)])],
  result <- IF \E key \in HbmKeys : ~Intact(hbm[key]) THEN "none"
            ELSE IF \A key \in HbmKeys : hbm[key].matches THEN "published"
            ELSE "rejected"
ImplementsWork == Work!Spec

(* What keeps a build from completing while the operator keeps resuming it.  *)
Disturbance == Interrupt \/ LosePower \/ LinkMismatch
Resumed == \E config \in Configs : Start(config, "hbm", TRUE)
==============================================================================
