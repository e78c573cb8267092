# A TLA+ model of LocateAnything's runtime and build pipeline

The repository has two halves.  `src/inference/` is a C++ runtime that runs a
vision and a language network on a BPU and turns the answer into boxes and
points; `src/compiler/` is the Python pipeline that prepares calibration data,
calibrates, audits and builds the networks.  This project models what is decided
by control rather than by floating point: what a graph call is allowed to see,
how the key/value caches follow the text, how threads share the decoder, a
session and a terminal, and what the pipeline leaves on disk when its runs are
killed, resumed, reconfigured or rejected.

From this directory, `tlc -config <cfg> <module>` checks a run (they are listed
in `PROJECT.json`) and `tlapm <module>Proofs.tla` a proof module.

## Inventory

| Component | State it keeps | Operations | Interacts with | What makes it correct |
|---|---|---|---|---|
| Attention mask, position ids (`attention_mask.cpp`, `position.cpp`, builders in `language.cpp`) | none | one call builds mask and ids | generation; the cache view | every active row sees its context once, no padding |
| Mirrored KV ring (`kv_cache.cpp`) | storage, byte offset per tensor | seed, append rows | generation, device memory | the view reads the committed rows in order; both copies agree |
| PBD/AR decoder (`decoder.cpp`) | none between calls | `DecodePbd`, `DecodeArGreedy` | generation, row executor | every decision can be acted upon; unsure coordinates are redone |
| PBD row executor (`decoder.cpp`) | job, generation, pending count, threads | `Decode`, worker loop, destructor | decoder | each row once, nobody writes after return, no lost wake-up |
| Language generation (`language.cpp`) | caches, history length, response, pending tokens | `Generate` | all of the above, HBM session | cache rows = accepted text, fresh logits, honest stop reason, it returns |
| HBM session and graphs (`hbm.cpp`) | active graph, buffers seen by CPU and BPU | execute, switch, release | generation, vision | an output is computed from this call's inputs; one graph holds buffers |
| Inference pipeline, vision runtime (`inference.cpp`, `vision.cpp`) | two engines, the latest features | `Initialize`, `InferQueries` | parsing, console | answers of the caller's own request, whatever failed before |
| Console (`cli.cpp`) | renderer thread, output directory | load, image, video, signal | inference | the renderer ends; a reported result is of one run |
| Image, prompt, tokenizer, answer parsing (`processing/`) | none | conversions | inference | boxes lie where calibration says they lie |
| Preparation (`prepare.py`, `run_prepare.sh`) | log, tensor files, manifest, summary, exit record | select, generate, resume | calibration | nothing published that is missing, mixed or of another record |
| Calibration (`calibrate.py`, `run_calibrate.sh`) | scale manifest, coverage, convergence, exit record | replay, audit, publish | preparation, builds | published scales cover all samples; success means audited |
| Replay (`replay.py`) | trackers, context plan | plan, replay, audit, restore | calibration, builds | the runtime's calls, over the histories promised |
| Audits (`coordinates.py`, `language_audit.py`, `quantization.py`) | the switched model, rows, references | passes in Float and quantized | model | the two sides stay apart; decisions are the runtime's |
| Language and Vision build (`language_build.py`, `vision_build.py`, scripts) | source, converted, compiled and linked graphs | export, convert, compile, link, resume | calibration | no model of two exports, resuming completes |
| Orchestration (`quantize.py`) | the plan of a command | validate, plan, run children | everything in the pipeline | it reports what happened |
| Progress, report, model definition, configuration | counters, tensors, constants | formatting, numerics | builds | stage counts add up; the rest is numerical |

What is hard here: threads share one job slot and condition variables; a commit
touches 72 tensors, two copies each, and may fail anywhere in between; decoding
moves between two protocols with different rules about which accepted tokens
are already committed; a protected request starts over; index arithmetic for
right-aligned windows is written three times (C++, replay, coordinate audit)
and must agree; every stage of the pipeline resumes from files that earlier
runs, with other settings, replaced one by one; one model is switched to and
fro between two ways of computing.  `PROJECT.json` lists each hazard at its
line with the properties that cover it.

## Modules

| Module | Models | State and actions against the code |
|---|---|---|
| `AttentionWindow` | masks and positions of every graph | a call is a record; a step builds the next row |
| `KVLog`, `KVRing`, `KVRingAppends` | what a cache promises; `AppendMirroredDeviceRingRows` and its callers; the function for any caller | `storage`, `start`, `history` are buffer, byte offset and `history_len`; each `WriteDeviceBuffer` a step that may fail |
| `DetectionTokens`, `HybridDecoder` | token ids, patterns; the decision on a window | a row is what the nucleus kept, in percents |
| `PbdRowExecutor` | the class of that name | a step per section under `job_mutex_`; a wait goes on or sleeps |
| `Transcript`, `LanguageGeneration` | what a caller of `Generate` may rely on; `Generate` | `pc` is the point reached, variables carry the source's names |
| `HbmSession`, `InferenceSession` | `Graph::Execute` and the switch; the session two threads share | each memory has a CPU and a BPU view, an output is a term over what the BPU read; every step may fail |
| `Console` | renderer, command loop, files | `disk` says whose frames each file holds |
| `ImageGeometry` | letterbox, patches, coordinates on both sides | ratios as fractions, both rounding rules |
| `ReplayContexts`, `ReplayAttention` | which histories are replayed; the calls made for one | a token stream is its length and structural offsets; a key row is token, position and what it attended to |
| `CoordinateDecoding`, `Nucleus`, `CoordinateProbes` | the coordinate audit's decision, nucleus and probes | beside the runtime's own definitions |
| `QuantizationEmulator`, `AuditSession` | the emulator and its policies; audits around it | which operator computes how at each call, where rows and references go, which scales a pass may raise |
| `CompiledGraphs` | `hbm_audit.py`; `LanguageBCRunner` | a step per graph compared, the report replaced whole; a replay is one step, a cache row says which prefill made it |
| `Calibration`, `StreamingStatistics` | jobs, trackers, publication, restore; the diagnostics of a point | a sample's magnitudes are numbers, Inf or NaN |
| `ResumableWork` | what a resumable stage promises | items made, published, lost by a crash |
| `Prepare`, `Selection` | `generate_bundle` with its log; `select` | one action per line of the log, tensor file, publication; kills anywhere |
| `LanguageBuild`, `VisionBuild` | the two builds with their wrappers | one action per stage; what a file holds is the export it came from; its shapes are those of that export's chunk and cache (`Contract`), which every check compares with the run's (`Fits`) |
| `Orchestration` | `quantize.py`, the checks of its children | a command, its plan, its children |

`MCWindows`, `MCLanguageGeneration`, `MCRuntime`, `MCBuilds`, `MCPreparation`
and `MCCalibration` instantiate these for TLC; `MCDecoderWindows` and
`MCProbeResponses` supply larger inputs.  The `*Proofs`
modules hold the proofs.

The modules meet as follows.  `LanguageGeneration` keeps a cache tensor as the
sequence of tokens whose rows it holds; `KVRing` shows that the mirrored ring
with its piecewise writes implements that (`KVLog`).  It takes the text a row
of logits continues from the committed rows and the window's own tokens;
`AttentionWindow` shows that mask and positions give each row exactly those.
`InferenceSession` extends `HbmSession` and runs the graph calls of a `Generate`
on it.  `DetectionTokens` is shared by generation, the decoder and the audit,
and `CoordinateDecoding` extends `HybridDecoder` to compare with.
`AuditSession` extends `QuantizationEmulator`, whose variables it steps.  `Prepare` and `LanguageBuild`
both implement `ResumableWork`.

## Runs

A run checks several components side by side where they share no state: the
variable `part` says which one a behaviour explores, the others rest.  A
property named `part = "x" => ...` in an MC module says nothing about the other
parts, and each part is explored completely.

| Run | Parts and bounds | Why they are enough |
|---|---|---|
| `windows` | attention: cache widths 12, 14, 17, prefills of 4 and 7 rows, all prefixes | the widest window (12 rows) fills the cache, nearly fills it, or leaves history |
| | replay: chunk 8, cache 21 | prompt shorter and longer than a block, every prefix; chunk and cache alignments differ |
| | log: five rows, prompts of 1 and 3, updates of 1 to 4; ring: four rows, any caller | filled in one append and in several; appends that begin at, end at and cross the end, and one as long as the ring |
| | decoder: 10752 windows; fallback: at most 6 new tokens | each row on both sides of each threshold; the fallback stops for each of its reasons |
| | nucleus: ten units over seven tokens, batches of two, widths 2 and 4 | a nucleus inside, at and beyond each width, ties at the edge |
| | probes: batches of two over responses with several boxes | histories of different length in one batch, broken and degenerate boxes |
| `generation` | prompts of 2, 11, 16 in a cache of 16, limits 3 and 11, two tensors, one window of each kind of decision | room for two windows, one, none; a commit that tears; a limit inside and after a window |
| `runtime` | executor: four workers, two callers, two calls each, generation values modulo 2 | the worst case of the code's 2^64; late workers of a call met by the next |
| | session: two threads, four calls, three requests | a failure at every step of a call followed by another request, the restart of a protected one |
| | console: two images and a video in one directory, two frames, four lines | two runs over one set of files, with a failure or a signal at every point |
| `builds` | language: two configurations, power loss; families: a third that exports under another name, for other weight widths or cores; contracts: two for different chunk or cache; variants: two core counts | a family half of one export and half of another, files lost at every stage, and files that a run of other shapes left |
| | vision: two image sizes; one_size: one | a compiled graph of the other size at every stage |
| | commands: three commands over fourteen configurations | each check of the configuration on both sides, and values that only the children refuse |
| `preparation` | generate, profiles, settings: two or three items, two settings or two profiles, logs of at most three lines | every line lost, duplicated or of another run |
| | select, reselect: catalogues where images belong to several tasks and supplies run out, totals 1 to 5 | ties, refused quotas, seeds that wrap around |
| | geometry: four canvases, eight sources; bundle, dataset: histories of up to six tokens, sets of three | halves to round, images thinner than a pixel; targets cut by their end and by the chunk |
| `calibration` | jobs: two runs over six data sets of at most three samples | Inf and NaN, first or late, in either component; a module never shown anything |
| | statistics: three updates; audits: two runs under five policies, answers in one batch and in two | empty, signed, repeated and clipped tensors in each stage order; each kind of rescue, a failure in any pass, a fallback on either side or both |
| | graphs: two audits of four archives and thirteen linked models; one replay over three folders, chunk 3, cache 4 | every way in which archive and model differ, alone; a report that an earlier audit left; each choice of graphs, each length of the prompt |

`CHECK_DEADLOCK FALSE` is said of `windows` and `calibration` only, whose parts
end (inputs are worked off, `MaxRuns` jobs are over).  Each property has a
mutant of the modelled code that violates it under the same configuration.

What the passing runs show:

* `windows`: `ContextSeenOnce` and `PositionBuildersAgree` (each active row
  attends to every earlier position once, and the two builders agree),
  `ReplayFaithful` (calibration's calls show the model the same),
  `MirrorCoherent`, `WindowSlides`, `ImplementsLog`, `DecisionSound`,
  `FallbackSound` (the audit's decision is the runtime's but for the named
  differences), `NucleusLikeRuntime`, `ProbesFaithful`.
* `generation`: `CacheHoldsText`, `CallsSound`, `AnswerAccounted`,
  `ProtectedAnswer`, `TornCacheNeverRead`, `AnswerGrowsOrRestartsOnce` (the
  refinement of `Transcript`), and `GenerateReturns`.
* `runtime`: `HeldJobLive`, `RowsDecodedOnce`, `ReturnedResultsStay`,
  `SessionSound`, `OutputsOfOneRun`, and `WaitsEnd`.
* `builds`: `OneModel` (no model mixes exports, or has another table than its
  own, unless a run of another chunk or cache has been there since: `Superseded`) and `CompletedRunHasModels`,
  `OtherBuildsSound` (the same of other names, of other chunk and cache lengths
  and of other core counts, and Vision models of the size asked for), `CommandSound`, `ImplementsWork` and `BuildsComplete`.
* `preparation`: `PublicationSound` (what is published is there, and of one run),
  `InputsSound` (the same of overlapping selections, profiles and cut lines; the
  mix of a selection), `GeometrySound`, `ContextsSound`, `ImplementsWork` and
  `ResumedRunPublishes`.
* `calibration`: `SucceededIsAudited`, `ScalesSound`, `RestoredForThisBuild`,
  `ReportsSound` (the diagnostics of a point are those of all it was shown; a
  report on linked graphs says what they are, and a replay starts from caches of
  its own kind), `AuditSound` (Float and quantized passes, their rows and their
  boundaries stay apart, and quantizers keep the ranges they were calibrated to).
  Norms do not: `RMSNorm.forward` raises its scale in every pass
  (`rms_norm.py:133`), also in Float, and the emulator never takes it over, so
  the model in memory after an audit is not the calibrated one.  Nothing is
  exported from it, and a norm's output does not depend on its scale.

### Where the code does not do what is said of it

Six runs state what a comment or message says, and find it violated:

* `vision_build_resize`: `quantize.py:826` says `--resume` reuses complete
  compatible outputs; `vision_build.py:315` keeps a compiled graph of another
  image size, and no later resume gets past it.
* `language_table_replaced`: the same promise of compatible outputs; the
  constructor replaces `embed_tokens.bin` before anything else of its export is
  sure (`language.py:245`).  A run for another chunk or cache rejects the family
  that is there, replaces the table and ends, killed or by a calibration that is
  refused; a run of the first configuration then finds family and model of its
  own shapes, asks the table only for its size (`language_build.py:598`), and
  reports success.  It matters when the two were made of different checkpoints
  or rotations.
* `prepare_torn`: `prepare.py:728` tells the operator to resume; a line of the
  log that a kill cut short stops every resume.
* `selection_rerun`: the data mix is called deterministic (`prepare.py:930`); an
  image file that is there is kept, whatever image it was copied from.
* `console_saved`: "save annotated image and JSON result" (`cli.cpp:624`); the
  JSON is written without asking whether it was.
* `calibration_unaudited`: "Restore audited activation-scale state"
  (`replay.py:1193`); the scales are published before the audit is judged, and
  the restore lets NaN through.

Met on the way, and not given a run: `language.cpp:1007` calls the protection
flag "duplicate/incomplete-box guards", but the excursion goes back to windows
on any box end (`language.cpp:1143`), so an accepted hybrid answer may hold an
incomplete box; `position.hpp:18` says that the
ids of a decode step after 256 rows are six times 256, `position.cpp:37` gives
255 to 260; `decoder.cpp:518` speaks of a complete
pattern where line 545 returns one with a token 0; a resumed Language build
publishes whatever weights the kept graph was built from
(`language_build.py:344`); `prepare.py:907` puts the last run's settings over
samples of earlier ones; the coordinate audit's threshold is 0.7
(`coordinates.py:361`), the decoder's 0.6 (`decoder.cpp:523`); `Initialize`
retried on a session whose first attempt failed calls `HbmSession::Load` again,
which drops the first handle and keeps its graph wrappers (`hbm.cpp:389`);
`cli.cpp:321` speaks of a directory per media file, but media of one stem share
it, a rerun that fails leaves the earlier `summary.json` beside a new log, and
a frame that cannot be read, or a signal, ends a video as complete;
`quantize.py:187` lets `prepare_dtype: float16` through, `run_prepare.sh:26`
and `prepare.py:691` refuse it (`RefusedLate` of `Orchestration` says that this,
another march and a mixed list of devices are all that is refused late);
`hbm_audit.py --graph` ends with an exception, leaving an older report in place,
if the boundaries it has just found to differ keep the graph from running
(`RefusalExplained` of `CompiledGraphs`).

### Fairness

* `LanguageGeneration!FairSpec`: weak fairness of the next-state relation.  The
  call runs on its caller's thread; nothing is assumed of what graphs answer.
* `MCRuntime!Fairness`: weak fairness per thread.  A caller need not call
  again, a sleeping thread need not wake by itself; loading a model returns or
  throws, and the renderer's 100 ms pass.
* `builds` and `preparation`: a run under way goes on, and while nothing is
  complete the operator resumes with the same arguments (weak fairness of
  `Progress \/ Resumed`, separately for each part).  `BuildsComplete` and
  `ResumedRunPublishes` hold for behaviours in which kills end.  Without such an
  operator a killed run stays killed.

## Proofs

Eight modules, for every value of the constants.  The invariant proved is in
each case stronger than the property, for the reason given.

* `WindowProofs`: `ContextSeenOnce` for every cache width, history, prefix and
  block, by cases on the graph family, each with the column that shows a given
  position; the invariant adds that a built row is the one of the formulas.
  `PositionBuildersAgree` for the same calls.  Of the ring: type correctness,
  `MirrorCoherent`, and that `KVRing` implements `KVLog`.  While an append is
  under way the copies differ, so the invariant says which chunk is in flight,
  that the copies agree outside it, and that destination rows lie outside the
  committed view.  `WindowSlides` holds for every caller of
  `AppendMirroredDeviceRingRows`, also where an append crosses the end of the
  ring: told apart by their distance from the start, the rows of both chunks
  land in order, and the invariant says how many each copy has (the run checks
  it of the instance with four rows).  Of the decision: `DecisionSound` for
  every window of six rows, whatever the rows hold, from what a row's order of
  ranks makes its first, its best and its pool; and `FallbackSound` for every
  choice of tokens and every limit.  That invariant says that the history is
  the decision's prefix and the tokens run so far, that the answer ends only
  where a token stops it, and what the box was closed with.
* `LanguageGenerationProofs`: `CacheHoldsText`, `CallsSound`, `AnswerAccounted`,
  `ProtectedAnswer`, `TornCacheNeverRead`, and that `Generate` implements
  `Transcript`, for every block, cache, limit and decision.  What a commit may
  append depends on the point reached (`Phase`), on the room that earlier checks
  left (`Room`) and on what the decision on a window can return; a stop reason
  has to stay true until it is reported (`StopTrue`), and the boxes of a
  protected answer have to be kept apart through windows and AR excursions
  (`BoxesKept`).
* `PbdRowExecutorProofs`: type correctness, `PendingExact`, `HeldJobLive`,
  `RowsDecodedOnce`, `ReturnedResultsStay`, for any number of workers, callers,
  calls and at least two generation values.  The count alone does not say who
  still owes a row, so the invariant adds that without a live call no worker
  has anything ahead of it, and that a row is empty until its thread wrote it.
  (Type correctness and `PendingExact` are proved here and in no run.)
* `SessionProofs`: `SessionSound` for any threads and requests, and
  `OutputsOfOneRun` for any media, frames and lines.  Buffers survive a call
  that failed, so the first follows an execution: what the BPU is about to read
  is what this execution packed, what it has written is computed from that;
  and a loop has the seed, the rows and the outputs of so many graphs of this
  query.  The second says what a request under way has already made its own.
* `PrepareProofs`: `GeometrySound`, for any canvases, patch sizes, images,
  processor answers and responses.  The invariant says which profile, layout and
  answer belong to the sample in hand; the rest is arithmetic of fractions: both
  rounding rules stay within a half of the fraction and at most one apart, and
  clamping, halving the padding and counting in thousandths each keep what was
  close close.  `PublicationSound`, for any selection, setting, profile,
  kills and power cuts.  The log alone does not say that an item is of this
  profile and has its file; the invariant says it of the items the run has
  passed.  And `ImplementsWork`: an item with a line and a tensor is never made
  again, a manifest needs all of them.  That theorem has two hypotheses.
  `EverySelectionIsWhole`: with selections that overlap in part, what one run
  publishes is not all items.  `~TornAppends`: after half a line no run gets
  past the log (the run `prepare_torn`).
* `LanguageBuildProofs`: `OneModel`, `CompletedRunHasModels` and
  `FamilyOfOneExport`, for any configurations, prefixes and contracts.  Two name
  prefixes that both hold the first graph stop every later run, and with one
  prefix the last graph is there only after a complete export; both are needed
  to see that what is accepted is whole.  The table has no prefix in its name:
  it is that of the family's export until a run whose contract the family does
  not meet has saved its own, and from then on that run's table or graphs stay
  in the directory (`Superseded`); the theorems say so, and the run
  `language_table_replaced` shows that it happens.  A
  run knows what the stages it has passed left, which takes facts about its
  plan: they come from induction over a set of numbers, and from the search for
  missing stages being written as a recursive function.  And `ImplementsWork`
  for the release path (hypothesis `ReleasePath`): with models for several core
  counts an item of the abstract work is not one file.
* `VisionBuildProofs`: `VisionForItsSize`.  A file's name carries no size, so
  the invariant says which checks of this very run are behind it.  And
  `CommandSound` for any configurations and commands: the invariant says which
  command put each file there, that a background child is of a detached command
  and prepares or calibrates, and that the children of a plan have left their
  files exactly up to the one now running; the checks of `quantize.py` and of
  the children are compared by their arithmetic.
* `CalibrationProofs`: `SucceededIsAudited`, `ScalesSound` and
  `RestoredForThisBuild`, for any samples, settings and checkpoints.  The
  invariant follows a replay sample by sample (a tracker holds the peak of what
  it was shown so far, a snapshot that of the samples before it), then the
  files, put in place one after the other; the scales on disk are of one whole
  replay whichever run was killed after it.  And `AuditSound`, for any
  operators, policies, patterns and answers.  Induction over the boxes of an
  answer shows that a quantized pass that is compared comes right after a Float
  pass of its place; the invariant then says who has the model and with which
  operators (a quantizer without a mode of its own is one without a range, so
  only norms and those can be moved), that the references of a place are those of the Float pass just
  made, and of which run and pass each boundary and row is.  An operator that
  does not refuse has one mode, so a pass has the rows of just the operators
  that its switch and policy quantize, each once.

They assume only the named assumptions on the constants, evaluated by TLC in
the runs: widths and capacities that fit (`WindowAssumption`, `RingAssumption`,
`ExecutorAssumption`, `GenerationAssumption`, `CalibrationAssumption`), windows
of six rows in percents and limits that are numbers (`WindowsAssumption`,
`AuditAssumption`), sizes and sample counts that are numbers
(`GeometryAssumption`, `OrchestrationAssumption`), operators in an order, each
of a known kind, and numbers of tokens and layers (`OperatorsGiven`,
`SessionsAssumption`), requests
that list their queries and a thread that is none (`SessionAssumption`), names
and orders that are given (`NamesGiven`, `OrderGiven`, `CoresGiven`,
`SelectionsGiven`, `SizesGiven`), and "nothing there" and "damaged" being no
file's content (`NoneApart`, `NotContents`, `NotFiles`); and the hypotheses of
the two refinement theorems, which the parts of the runs that check
`ImplementsWork` meet.

Only model-checked:

* liveness under fairness (`GenerateReturns`, `WaitsEnd`, `BuildsComplete`,
  `ResumedRunPublishes`), which is out of this prover's reach;
* what recursive definitions compute: the selection in `InputsSound`
  (`Selection`), `ContextsSound`, `ReplayFaithful`, `NucleusLikeRuntime` and
  `ProbesFaithful`, and the folds over a tensor's figures in `ReportsSound`;
* the audits and replays of compiled graphs, the other half of `ReportsSound`;
* `OtherBuildsSound` and the rest of `InputsSound`, which are instances, for
  other constants, of what is proved of `LanguageBuild`, `VisionBuild` and
  `Prepare`;
* `ImplementsWork` where its hypotheses do not hold is not claimed at all.

## What is not modelled

* Numbers: softmax, repetition penalty, fp16 and float rounding (that of the
  letterbox scale included), quantization error, the square root of a norm's
  scale, the figures of the audits.
* Wording and layout: prompts, the byte-pair merges, the scan of an answer for
  boxes, progress lines, reports, debug dumps, timing.
* Read-only tables: embeddings.
* Runtime: arguments of `DecodePbd` of another shape or range
  (`decoder.cpp:638`), which end the answer and which the loop never passes; an
  append by a caller other than the engine after one that failed; the session's
  run has `generation_mode` "hybrid" (the theorem holds of "slow" too);
  an allocation failure in the caller's own row unwinds `Decode` while
  workers still decode (`decoder.cpp:341`); `DecodePbdCompact`, for graphs the
  pipeline does not produce; the mutexes inside the engines, never contended
  under `inference_mutex`; `Load` is one step; a wait for a task that fails is
  taken to mean that the task ended.
* Preparation: the reference model's answer is a choice.  With power loss and
  settings that change, a tensor file may be of another run than its record;
  `RecordMatchesTensor` is therefore checked only without power loss.
* Calibration: SIGINT does not reach a background child, so "cancelled" may
  stand over complete files; an orphaned child after SIGKILL of its wrapper; a
  `--component` run that overwrites the other component's manifest; `--resume`,
  which is parsed and ignored.
* Audits: two emulators on one model at once; visual features in replay.
* Builds: power lost while source graphs are exported, and a table damaged by
  it, which no check would notice; of the build stages, only the file replaced
  last is lost.  `--convert_only`; two commands at once, of which the check for a
  directory in use is made when the plan is; environment variables that leak
  into children (`DETACH` is modelled, `HIDDEN_ROTATION_PATH` is not).
* Compiled graphs: a build that replaces graphs while `hbm_audit.py` reads
  them; a catalog that names a graph twice; replays of a bundle that mixes
  quantized and Float decode graphs, which one build does not make.

## Plan

Next: proofs of the audits of compiled graphs (`GraphsSound`);
exceptions in the row computation; concurrent commands of `quantize.py`.
