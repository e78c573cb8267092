---------------------------- MODULE CompiledGraphs ----------------------------
(* Compiled Language graphs away from the device.                             *)
(*   pipeline/hbm_audit.py compares the converted graphs of a build with the  *)
(*   linked HBM, and on request what one graph computes in both forms; all    *)
(*   that outlives the program is its report and its exit status.             *)
(*   LanguageBCRunner of pipeline/language_audit.py replays a sample through  *)
(*   the three compiled graphs there are files for.                           *)
EXTENDS Integers, FiniteSets, SequencesExt

CONSTANTS
  LANGUAGE_GRAPHS,  \* the stable graphs, in order
  Archives,    \* directories: by graph, the files whose names end in its suffix
  Models,      \* linked HBMs: what is found under --hbm
  Requests,    \* --graph with the sizes of its input files, or NoGraph
  NoGraph, NoFile,
  Folders,     \* files the runner may be pointed at
  CHUNK_SIZE, CACHE_LEN, PBD_QUERY_LEN,
  MaxAudits    \* bound: audits started

VARIABLES
  asked,       \* arguments of the audit: archive, model and request
  at,          \* where it is: "idle", "reading", "executing", "writing", "replacing"
  contracts,   \* mismatches of the graphs compared so far
  execution,   \* of the requested graph: "none", "passed", "failed"
  audits, exit,  \* audits started, and how the last one ended
  report,      \* the file at --report
  replay       \* what LanguageBCRunner.run was given last, and what it returned

vars == <<asked, at, contracts, execution, audits, exit, report, replay>>

Stable == {LANGUAGE_GRAPHS[i] : i \in DOMAIN LANGUAGE_GRAPHS}

------------------------------------------------------------------------------
(* A function of a graph file has a name, descriptors [shape, dtype] of its   *)
(* inputs and outputs, and the tensors it computes from the fixed inputs,     *)
(* each a descriptor and rows [top, data, number]: the greatest element of    *)
(* the row, all its elements, and "finite", "infinite" or "nan".              *)

(* discover_converted_bc and load_converted_bc.                               *)
Discovered(archive) == \A graph \in Stable : Cardinality(archive[graph]) = 1
FileOf(archive, graph) == CHOOSE file \in archive[graph] : TRUE
Loads(file, graph) == Len(file) = 1 /\ file[1].name = graph
ConvertedBC(archive, graph) == FileOf(archive, graph)[1]

(* load_hbm_graphs: no graph is missing and none unexpected.                  *)
CatalogComplete(model) ==
  model # NoFile /\ {model[i].name : i \in DOMAIN model} = Stable
Linked(model, graph) ==
  model[CHOOSE i \in DOMAIN model : model[i].name = graph]

(* compare_graph_contracts.                                                   *)
Mismatches(left, right, direction) ==
  IF Len(left) # Len(right) THEN {[direction |-> direction, index |-> 0, reason |-> "count"]}
  ELSE {[direction |-> direction, index |-> i, reason |-> "descriptor"] :
          i \in {j \in DOMAIN left : left[j] # right[j]}}

CompareContracts(bc, hbm) ==
  Mismatches(bc.inputs, hbm.inputs, "inputs") \cup Mismatches(bc.outputs, hbm.outputs, "outputs")

------------------------------------------------------------------------------
Size(shape) == FoldSeq(LAMBDA one, two : one * two, 1, shape)

(* load_input_bundle: a file of the right size per input of the BC; 0 stands  *)
(* for no file.                                                               *)
BundleFits(sizes, inputs) ==
  \A i \in DOMAIN inputs : i \in DOMAIN sizes /\ sizes[i] # 0 /\ sizes[i] = Size(inputs[i].shape)

(* _coerce_bc_input: shapes are the same but for sizes of one; the element    *)
(* type is converted whatever it was.                                         *)
Coercible(given, wanted) ==
  LET squeezed(shape) == SelectSeq(shape, LAMBDA size : size # 1)
  IN given = wanted \/ squeezed(given) = squeezed(wanted)

(* run_outputs, fed with values of the given descriptors.                     *)
Feeds(function, given) ==
  /\ Len(given) = Len(function.inputs) /\ function.outputs # <<>>
  /\ \A i \in DOMAIN given : Coercible(given[i].shape, function.inputs[i].shape)
  /\ Len(function.values) = Len(function.outputs)

Numbers(tensor) == {tensor.rows[i].number : i \in DOMAIN tensor.rows}

(* tensor_metrics and logits_metrics; array_equal finds no NaN equal.         *)
Comparable(left, right) == left.shape = right.shape /\ left.dtype = right.dtype
Exact(left, right) == left.rows = right.rows /\ "nan" \notin Numbers(left)
AllFinite(left, right) == Numbers(left) \cup Numbers(right) \subseteq {"finite"}
Top1Agrees(left, right) == \A i \in DOMAIN left.rows : left.rows[i].top = right.rows[i].top

(* compare_graph_outputs raises, or accepts decisions that agree, caches that *)
(* are identical and nothing but finite numbers.                              *)
Executes(bc, hbm) ==
  /\ Feeds(bc, bc.inputs) /\ Feeds(hbm, bc.inputs)
  /\ Len(bc.values) = Len(hbm.values)
  /\ \A i \in DOMAIN bc.values : Comparable(bc.values[i], hbm.values[i])
  /\ Len(bc.values[1].shape) = 3

Accepts(bc, hbm) ==
  /\ Top1Agrees(bc.values[1], hbm.values[1])
  /\ \A i \in DOMAIN bc.values \ {1} : Exact(bc.values[i], hbm.values[i])
  /\ \A i \in DOMAIN bc.values : AllFinite(bc.values[i], hbm.values[i])

------------------------------------------------------------------------------
(* resolve_language_bc_paths: the one complete bundle of a directory, or the  *)
(* one graph of a file; {} stands for an exception.                           *)
LANGUAGE_BC_GRAPHS == {"prefill", "decode", "decode_ar"}

Bundle(base, converted) ==
  {[base |-> base, graph |-> graph, converted |-> converted] : graph \in LANGUAGE_BC_GRAPHS}

Resolved(folder, path, converted) ==
  LET bundles == {Bundle(file.base, converted) : file \in folder} \cap SUBSET folder
  IN IF path = NoFile
     THEN IF Cardinality(bundles) = 1 THEN UNION bundles ELSE {}
     ELSE {file \in {path} : file.converted = converted}

(* build_right_aligned_caches and _right_aligned_bc_caches: the first rows of *)
(* a prefill's updates at the end of caches of zeros.                         *)
Zeros == [c \in 1 .. CACHE_LEN |-> [by |-> "zero", row |-> 0]]
RightAligned(by, activeLen) ==
  [c \in 1 .. CACHE_LEN |->
     IF c > CACHE_LEN - activeLen THEN [by |-> by, row |-> c - (CACHE_LEN - activeLen)]
     ELSE Zeros[c]]

(* _compact_bc_logits.                                                        *)
Compacts(graph, rows, activeLen) ==
  CASE graph = "prefill" -> rows = 1 \/ activeLen <= rows
    [] graph = "decode" -> rows = PBD_QUERY_LEN
    [] graph = "decode_ar" -> rows = 1

Stage(graph, rows, caches, source) ==
  [graph |-> graph, row |-> rows, caches |-> caches, source |-> source]

(* LanguageBCRunner.run: graphs are the artifacts, provider a compiled        *)
(* prefill that is not one of them; converted graphs have quantized caches,   *)
(* and rows says how many rows of logits each graph returns.                  *)
Run(graphs, quantized, provider, rows, slow, activeLen) ==
  LET decodes == graphs \cap {"decode", "decode_ar"}
      quantizedCache == decodes # {} /\ quantized
      compiled == "prefill" \in graphs \/ (provider /\ quantizedCache)
      executed == (graphs \ {"decode_ar"}) \cup (IF slow THEN decodes \ {"decode"} ELSE {})
      source == IF quantizedCache THEN "compiled_prefill" ELSE "float_prefill"
      last == IF rows["prefill"] = 1 THEN 1 ELSE activeLen
  IN IF \/ quantizedCache /\ ~compiled
        \/ \E graph \in executed : ~Compacts(graph, rows[graph], activeLen)
     THEN {}
     ELSE {IF graph = "prefill" THEN Stage(graph, last, Zeros, "zero")
           ELSE Stage(graph, 0, RightAligned(source, activeLen), source) : graph \in executed}

------------------------------------------------------------------------------
NoReport == [run |-> 0, status |-> "none", asked |-> <<>>, contracts |-> <<>>]

Init ==
  /\ asked = <<>> /\ at = "idle" /\ contracts = <<>> /\ execution = "none"
  /\ audits = 0 /\ exit = "none" /\ report = NoReport
  /\ replay = [given |-> <<>>, stages |-> {}]

Ends(how) == at' = "idle" /\ exit' = how

(* main, until the HBM is open.                                               *)
Start ==
  /\ at = "idle" /\ audits < MaxAudits /\ replay.given = <<>> /\ audits' = audits + 1
  /\ \E archive \in Archives, model \in Models, request \in Requests :
       /\ asked' = [archive |-> archive, model |-> model, request |-> request]
       /\ IF Discovered(archive) /\ CatalogComplete(model)
          THEN at' = "reading" /\ exit' = "none"
          ELSE Ends("raised")
  /\ contracts' = <<>> /\ execution' = "none"
  /\ UNCHANGED <<report, replay>>

(* The loop of main over the stable graphs.                                   *)
Compare ==
  /\ at = "reading"
  /\ LET graph == LANGUAGE_GRAPHS[Len(contracts) + 1]
     IN IF Loads(FileOf(asked.archive, graph), graph)
        THEN /\ contracts' = Append(contracts, CompareContracts(
                               ConvertedBC(asked.archive, graph), Linked(asked.model, graph)))
             /\ at' = IF Len(contracts') < Len(LANGUAGE_GRAPHS) THEN "reading"
                      ELSE IF asked.request = NoGraph THEN "writing" ELSE "executing"
             /\ UNCHANGED exit
        ELSE Ends("raised") /\ UNCHANGED contracts
  /\ UNCHANGED <<asked, execution, audits, report, replay>>

(* load_input_bundle and compare_graph_outputs for the requested graph.       *)
Execute ==
  /\ at = "executing"
  /\ LET bc == ConvertedBC(asked.archive, asked.request.graph)
         hbm == Linked(asked.model, asked.request.graph)
     IN IF BundleFits(asked.request.sizes, bc.inputs) /\ Executes(bc, hbm)
        THEN /\ execution' = IF Accepts(bc, hbm) THEN "passed" ELSE "failed"
             /\ at' = "writing" /\ UNCHANGED exit
        ELSE Ends("raised") /\ UNCHANGED execution
  /\ UNCHANGED <<asked, contracts, audits, report, replay>>

Status ==
  IF (\A i \in DOMAIN contracts : contracts[i] = {}) /\ execution \in {"none", "passed"}
  THEN "passed" ELSE "failed"

(* write_json fills a file beside the report, then replaces the report.       *)
WritePartial ==
  /\ at = "writing" /\ at' = "replacing"
  /\ UNCHANGED <<asked, contracts, execution, audits, exit, report, replay>>

Replace ==
  /\ at = "replacing"
  /\ report' = [run |-> audits, status |-> Status, asked |-> asked, contracts |-> contracts]
  /\ Ends(IF Status = "passed" THEN "0" ELSE "1")
  /\ UNCHANGED <<asked, contracts, execution, audits, replay>>

Kill ==
  /\ at # "idle" /\ Ends("killed")
  /\ UNCHANGED <<asked, contracts, execution, audits, report, replay>>

(* A runner over what its path resolves to, and one sample.  It shares        *)
(* nothing with an audit: a behaviour has one of the two.                     *)
Replay ==
  /\ audits = 0 /\ replay.given = <<>>
  /\ \E folder \in Folders, converted \in BOOLEAN, provider \in BOOLEAN, slow \in BOOLEAN :
     \E path \in folder \cup {NoFile}, rows \in [LANGUAGE_BC_GRAPHS -> {1, PBD_QUERY_LEN, CHUNK_SIZE}] :
     \E activeLen \in 1 .. CHUNK_SIZE :
       LET files == Resolved(folder, path, converted)
           graphs == {file.graph : file \in files}
       IN replay' = [given |-> [files |-> files, path |-> path, converted |-> converted,
                                provider |-> provider, rows |-> rows, slow |-> slow,
                                activeLen |-> activeLen],
                     stages |-> Run(graphs, converted, provider, rows, slow, activeLen)]
  /\ UNCHANGED <<asked, at, contracts, execution, audits, exit, report>>

Next == Start \/ Compare \/ Execute \/ WritePartial \/ Replace \/ Kill \/ Replay

Spec == Init /\ [][Next]_vars

------------------------------------------------------------------------------
(* The linked HBM holds the archived graphs and no others, with the same      *)
(* boundaries, and where a graph was executed it takes the same decisions and *)
(* leaves the same caches.                                                    *)
SameModel(given) ==
  /\ Len(given.model) = Len(LANGUAGE_GRAPHS)
  /\ \A graph \in Stable : \E i \in DOMAIN given.model, file \in given.archive[graph] :
       LET bc == file[1]
           hbm == given.model[i]
       IN /\ bc.name = graph /\ hbm.name = graph
          /\ bc.inputs = hbm.inputs /\ bc.outputs = hbm.outputs
          /\ given.request # NoGraph /\ given.request.graph = graph =>
               /\ \A k \in DOMAIN bc.values, r \in DOMAIN bc.values[1].rows :
                    bc.values[k].rows[r].number = "finite" /\ hbm.values[k].rows[r].number = "finite"
               /\ \A r \in DOMAIN bc.values[1].rows :
                    bc.values[1].rows[r].top = hbm.values[1].rows[r].top
               /\ Tail(bc.values) = Tail(hbm.values)

(* A report says passed of one and the same model only, and of each; it is    *)
(* the one of the last audit if that has an exit status of its own, and an    *)
(* audit that broke off has left the report of an earlier one in place.       *)
ReportTrue ==
  /\ report.run > 0 => (report.status = "passed") = SameModel(report.asked)
  /\ exit \in {"0", "1"} => report.run = audits /\ (exit = "0") = (report.status = "passed")
  /\ exit = "raised" \/ at # "idle" => report.run < audits

(* Without --graph nothing but files that are not those of a build keeps a    *)
(* comparison from its report; with it, also boundaries that differ.          *)
RefusalExplained ==
  exit = "raised" /\ Discovered(asked.archive) /\ CatalogComplete(asked.model)
    /\ (\A graph \in Stable : Loads(FileOf(asked.archive, graph), graph)) =>
      /\ asked.request # NoGraph
      /\ LET bc == ConvertedBC(asked.archive, asked.request.graph)
         IN \/ CompareContracts(bc, Linked(asked.model, asked.request.graph)) # {}
            \/ \E i \in DOMAIN bc.inputs :
                 i > Len(asked.request.sizes) \/ asked.request.sizes[i] # Size(bc.inputs[i].shape)

(* A replayed decode graph sees the prompt's rows in order at the end of its  *)
(* caches and zeros before, made by the compiled prefill exactly if its       *)
(* caches are quantized: Float rows are never cast to them.                   *)
ReplaySound ==
  \A stage \in replay.stages :
    LET given == replay.given
        first == CACHE_LEN - given.activeLen
    IN /\ stage.graph \in {file.graph : file \in given.files}
       /\ stage.graph = "prefill" =>
            stage.caches = Zeros /\ stage.row \in {given.activeLen, 1}
       /\ stage.graph # "prefill" =>
            /\ \A c \in 1 .. first : stage.caches[c].by = "zero"
            /\ \A r \in 1 .. given.activeLen :
                 stage.caches[first + r] =
                   [by |-> IF given.converted THEN "compiled_prefill" ELSE "float_prefill",
                    row |-> r]
            /\ given.converted => given.provider \/ given.path = NoFile
       /\ \A left, right \in given.files : left.base = right.base

GraphsSound == ReportTrue /\ RefusalExplained /\ ReplaySound
==============================================================================
