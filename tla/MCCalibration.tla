---------------------------- MODULE MCCalibration ----------------------------
(* Calibration jobs, the diagnostics of one of their points, and the audits   *)
(* of a quantized model, side by side in one run: they share no state here,   *)
(* part says which of them a behaviour explores.                              *)
(*   jobs         calibration jobs and the builds that restore their scales   *)
(*   statistics   one activation point                                        *)
(*   audits       sessions of numerical audits with one model                 *)
(*   graphs       audits of linked graphs, and replays of compiled ones       *)
EXTENDS Calibration, AuditSession

CONSTANTS NoGraph, NoFile

VARIABLES
  part,
  statistics, order, seen,
  asked, at, contracts, execution, hbmAudits, exit, hbmReport, replay

point == <<statistics, order, seen>>
graphs == <<asked, at, contracts, execution, hbmAudits, exit, hbmReport, replay>>

------------------------------------------------------------------------------
(* Data sets of three samples with everything a point can be shown: growing   *)
(* and falling magnitudes, zero, infinity, NaN first and late, a module that  *)
(* is never run.                                                              *)
MCPoints == [vision |-> {"linear"}, language |-> {"cache", "norm"}]
MCNorms == {"norm"}

Sample(l, calls) == [vision |-> [linear |-> l], language |-> calls]
At(c, n) == [cache |-> c, norm |-> n]
Plain == <<At(1, 1)>>

Growing == <<Sample(1, <<At(2, 1), At(9, 10)>>), Sample(3, <<At(10, 4)>>),
             Sample(2, <<At(5, 20)>>)>>
LateNaN == <<Sample(1, Plain), Sample(NaN, <<At(2, NaN)>>), Sample(3, Plain)>>
FirstNaN == <<Sample(2, <<At(1, NaN)>>), Sample(1, Plain), Sample(1, Plain)>>
Endless == <<Sample(2, <<At(1, 1), At(Inf, 1)>>), Sample(1, <<At(NaN, Inf)>>),
              Sample(1, Plain)>>
Silent == <<Sample(0, <<At(1, Unseen)>>), Sample(0, <<At(3, Unseen)>>)>>
Short == <<Sample(1, Plain)>>
MCDataSets == {Growing, LateNaN, FirstNaN, Endless, Silent, Short}

Profile(v, l) == [vision |-> v, language |-> l]
MCSettings == {
  [component |-> "all", profile |-> Profile("672", "w8"), requested |-> {1}, detailed |-> FALSE],
  [component |-> "language", profile |-> Profile("672", "w4"), requested |-> {2}, detailed |-> TRUE],
  [component |-> "vision", profile |-> Profile("336", "w8"), requested |-> {1, 4}, detailed |-> FALSE]}
MCStandard == {1, 2}

------------------------------------------------------------------------------
(* Tensors with signs, zeros, ties, repeats, no element, NaN alone and among  *)
(* numbers, and a magnitude beyond the histogram.                             *)
NoNumber == 1000
MCTensors == {<<>>, <<NoNumber>>, <<0>>, <<3, -3>>, <<-1, NoNumber, 2>>, <<1, 5, 0>>, <<-7>>,
              <<9>>}

Point ==
  INSTANCE StreamingStatistics
    WITH Stages <- {"prefill", "pbd_q6"}, Tensors <- MCTensors, Clipping <- 2, LastBin <- 2,
         MaxUpdates <- 3

------------------------------------------------------------------------------
(* A projection, an attention product with its two quantizers, a dynamic      *)
(* product and two further quantizers, one without a scale; and a norm.       *)
MCKind == [proj |-> "linear", wv |-> "fake_matmul", wv_x |-> "static", wv_y |-> "static",
           qk |-> "matmul", cache |-> "static"]
MCInside == [proj |-> "-", wv |-> "-", wv_x |-> "wv", wv_y |-> "wv", qk |-> "-", cache |-> "-"]

Everywhere == DOMAIN MCKind
Rule(ops, stages, kinds, mode) == [ops |-> ops, stages |-> stages, kinds |-> kinds, mode |-> mode]
MCPolicies ==
  {<<Rule(Everywhere, {"*"}, {"linear", "matmul", "static", "fake_matmul"}, "float")>>,
   <<Rule({"wv"}, {"pbd_q6"}, {"fake_matmul"}, "centered_value_s8"),
     Rule({"proj"}, {"prefill"}, {"linear"}, "float_weight")>>,
   <<Rule({"proj"}, {"*"}, {"linear"}, "float_activation"),
     Rule(Everywhere, {"ar_q1"}, {"linear"}, "float_weight")>>,
   <<Rule({"wv_y"}, {"pbd_q6"}, {"static"}, "float")>>,
   <<Rule({"qk"}, {"*"}, {"matmul"}, "float_weight")>>}
MCPatterns == {{{"wv_x", "wv_y"}, {"cache"}}, {{"cache"}}, {{"wv_y"}}}

(* Answers in one batch and in two, with one box or two in a batch.           *)
Box(first, reference, candidate) ==
  [first |-> first, reference |-> reference, candidate |-> candidate]
MCAnswers ==
  {<<Box(TRUE, 0, 0)>>, <<Box(TRUE, 2, 0), Box(TRUE, 0, 1)>>,
   <<Box(TRUE, 1, 1), Box(FALSE, 1, 0), Box(TRUE, 0, 0)>>}

MCOps == <<"proj", "wv", "wv_x", "wv_y", "qk", "cache">>

------------------------------------------------------------------------------
(* Two graphs of two inputs and two outputs.  A linked graph is like the      *)
(* archived one, computes something else (other decisions, other logits only, *)
(* another cache, no numbers), or has other boundaries.                       *)
Tensor(shape, dtype) == [shape |-> shape, dtype |-> dtype]
Computed(tensor, cells) == [shape |-> tensor.shape, dtype |-> tensor.dtype, rows |-> cells]
Cell(top, data, number) == [top |-> top, data |-> data, number |-> number]

Mask == Tensor(<<1, 2>>, "float16")
Cache == Tensor(<<2>>, "int8")
Logits == Tensor(<<1, 1, 3>>, "float16")
Kept(data) == Computed(Cache, <<Cell(0, data, "finite")>>)
Scored(top, data, number) == Computed(Logits, <<Cell(top, data, number)>>)

Made(name, values) ==
  [name |-> name, inputs |-> <<Mask, Cache>>, outputs |-> <<Logits, Cache>>, values |-> values]
Plainly(name) == Made(name, <<Scored(1, 1, "finite"), Kept(1)>>)

LinkedPrefills ==
  {Plainly("prefill"),
   Made("prefill", <<Scored(2, 2, "finite"), Kept(1)>>),
   Made("prefill", <<Scored(1, 2, "finite"), Kept(1)>>),
   Made("prefill", <<Scored(1, 1, "nan"), Kept(1)>>),
   Made("prefill", <<Scored(1, 1, "finite"), Kept(2)>>),
   Made("prefill", <<Scored(1, 1, "finite"), Computed(Cache, <<Cell(0, 1, "infinite")>>)>>),
   [Plainly("prefill") EXCEPT !.inputs = <<Tensor(<<2>>, "float16"), Cache>>],
   [Plainly("prefill") EXCEPT !.inputs = <<Mask>>],
   [Plainly("prefill") EXCEPT !.outputs = <<Logits, Tensor(<<2>>, "int16")>>,
      !.values = <<Scored(1, 1, "finite"), Computed(Tensor(<<2>>, "int16"), <<Cell(0, 1, "finite")>>)>>],
   [Plainly("prefill") EXCEPT !.outputs = <<Logits, Cache, Cache>>]}
MCModels ==
  {<<Plainly("decode"), prefill>> : prefill \in LinkedPrefills}
  \cup {NoFile, <<Plainly("prefill")>>,
        <<Plainly("prefill"), Plainly("decode"), Plainly("decode_ar")>>}

Archive(prefills, decodes) == [prefill |-> prefills, decode |-> decodes]
Whole == {<<Plainly("prefill")>>}
MCArchives ==
  {Archive(Whole, {<<Plainly("decode")>>}), Archive(Whole, {}),
   Archive(Whole, {<<Plainly("prefill")>>}),
   Archive(Whole \cup {<<>>}, {<<Plainly("decode")>>})}
MCRequests ==
  {NoGraph, [graph |-> "prefill", sizes |-> <<2, 2>>], [graph |-> "prefill", sizes |-> <<2, 4>>]}

GraphFile(base, graph, converted) == [base |-> base, graph |-> graph, converted |-> converted]
WholeBundle(base, converted) ==
  {GraphFile(base, graph, converted) : graph \in {"prefill", "decode", "decode_ar"}}
MCFolders ==
  {WholeBundle("w8", TRUE) \cup WholeBundle("w8", FALSE),
   WholeBundle("w8", FALSE) \cup WholeBundle("w4", FALSE),
   WholeBundle("w4", TRUE) \cup {GraphFile("w8", "decode", TRUE)}}

CompiledAudits ==
  INSTANCE CompiledGraphs
    WITH LANGUAGE_GRAPHS <- <<"prefill", "decode">>, Archives <- MCArchives,
         Models <- MCModels, Requests <- MCRequests, Folders <- MCFolders,
         CHUNK_SIZE <- 3, CACHE_LEN <- 4, PBD_QUERY_LEN <- 2, MaxAudits <- 2,
         audits <- hbmAudits, report <- hbmReport

------------------------------------------------------------------------------
PointStarts ==
  IF part = "statistics" THEN Point!Init ELSE statistics = 0 /\ order = 0 /\ seen = 0

PartsStart ==
  /\ part \in {"jobs", "statistics", "audits", "graphs"}
  /\ Init /\ PointStarts /\ AuditInit /\ CompiledAudits!Init

everything == <<part, vars, point, auditVars, graphs>>

JobsStep == part = "jobs" /\ Next /\ UNCHANGED <<part, point, auditVars, graphs>>
PointStep == part = "statistics" /\ Point!Next /\ UNCHANGED <<part, vars, auditVars, graphs>>
AuditsStep == part = "audits" /\ AuditNext /\ UNCHANGED <<part, vars, point, graphs>>
GraphsStep == part = "graphs" /\ CompiledAudits!Next /\ UNCHANGED <<part, vars, point, auditVars>>

PartsNext == JobsStep \/ PointStep \/ AuditsStep \/ GraphsStep
PartsSpec == PartsStart /\ [][PartsNext]_everything

------------------------------------------------------------------------------
(* The diagnostics of a point are those of everything it was shown; a report  *)
(* on linked graphs says what they are, and compiled graphs are replayed from *)
(* caches of their own kind.                                                  *)
ReportsSound ==
  /\ part = "statistics" => Point!DiagnosticsSound
  /\ part = "graphs" => CompiledAudits!GraphsSound
==============================================================================
