------------------------------ MODULE Selection ------------------------------
(* prepare.py select: which source records become calibration samples, where *)
(* their images are put, and the seeds generation derives for them.  The     *)
(* output directory outlives the run.                                        *)
EXTENDS Naturals, Sequences, FiniteSets, SequencesExt

CONSTANTS
  Tasks,       \* the domains, in the order of their names
  Weight,      \* PAPER_TASK_WEIGHTS
  Steepness,   \* 1 / temperature
  Catalogues,  \* source manifests: sets of records
  Totals,      \* --num-samples
  ExplicitQuotas, \* whether --quota is given: a set of truth values
  MaxRuns,     \* bound on the runs into one directory
  CutCopies,   \* a kill may leave part of an image file
  SeedRange,   \* 2 ^ 32 in the code
  BaseSeeds, SlowSamples,
  NoFile, Part

TaskSet == ToSet(Tasks)
WeightsGiven == Weight \in [TaskSet -> Nat \ {0}] /\ Steepness \in Nat \ {0}
SeedsFit == \A total \in Totals : 4 * total <= SeedRange

VARIABLES
  images,    \* image files, by position in the selection and task
  manifest,  \* selected.jsonl
  run, pc,
  pos,       \* records materialised
  runs       \* runs so far

vars == <<images, manifest, run, pc, pos, runs>>

NameRank(task) == CHOOSE i \in DOMAIN Tasks : Tasks[i] = task

------------------------------------------------------------------------------
(* Source records are [task, image, id, evaluation].  stable_rank orders     *)
(* them by task and identifier; the seed is the same for all of them.        *)
Before(left, right) ==
  \/ NameRank(left.task) < NameRank(right.task)
  \/ left.task = right.task /\ left.id < right.id

Eligible(catalogue) == {record \in catalogue : ~record.evaluation}

(* by_path: the first record of an image.                                    *)
Deduplicated(catalogue) ==
  {record \in Eligible(catalogue) :
     \A other \in Eligible(catalogue) :
       other.image = record.image => ~Before(other, record)}

Grouped(catalogue, task) ==
  LET group == {record \in Deduplicated(catalogue) : record.task = task}
      place(record) == Cardinality({other \in group : ~Before(record, other)})
  IN [i \in 1 .. Cardinality(group) |-> CHOOSE record \in group : place(record) = i]

\* Mutant: counted before the images are made unique.
AvailableEligible(catalogue) ==
  [task \in TaskSet |-> Cardinality({r \in Eligible(catalogue) : r.task = task})]

Available(catalogue) == [task \in TaskSet |-> Len(Grouped(catalogue, task))]

(* allocate_quotas gives one sample at a time to the task with the largest   *)
(* weight ^ temperature / (quota + 1); ties go to the larger weight, then    *)
(* name.  Both sides are raised to Steepness.                                *)
Share(task, quota) == [weight |-> Weight[task], divisor |-> (quota + 1) ^ Steepness]

Preferred(task, other, quotas) ==
  LET mine == Share(task, quotas[task])
      theirs == Share(other, quotas[other])
      left == mine.weight * theirs.divisor
      right == theirs.weight * mine.divisor
  IN \/ left > right
     \/ left = right /\ Weight[task] > Weight[other]
     \/ left = right /\ Weight[task] = Weight[other] /\ NameRank(task) > NameRank(other)

Chosen(quotas, available) ==
  LET candidates == {task \in TaskSet : quotas[task] < available[task]}
  IN CHOOSE task \in candidates :
       \A other \in candidates \ {task} : Preferred(task, other, quotas)

AllocateQuotas(available, total) ==
  LET after[n \in 0 .. total] ==
        IF n = 0 THEN [task \in TaskSet |-> 0]
        ELSE [after[n - 1] EXCEPT ![Chosen(after[n - 1], available)] = @ + 1]
  IN after[total]

SumOf(counts) == FoldFunction(+, 0, counts)

(* parse_explicit_quotas.                                                    *)
ExplicitAccepted(quotas, available, total) ==
  /\ SumOf(quotas) = total
  /\ \A task \in TaskSet : quotas[task] <= available[task]

(* The quotas of a run, or none if select raises.                            *)
QuotasOf(args) ==
  LET available == Available(args.catalogue)
  IN IF args.explicit
     THEN {quotas \in [TaskSet -> 0 .. args.total] :
             ExplicitAccepted(quotas, available, args.total)}
     ELSE IF SumOf(available) < args.total THEN {}
     ELSE {AllocateQuotas(available, args.total)}

Selected(args, quotas) ==
  LET ofTask(task) ==
        LET group == Grouped(args.catalogue, task)
        IN SelectSeq(group, LAMBDA record : \E i \in 1 .. quotas[task] :
                                              i <= Len(group) /\ group[i] = record)
  IN FlattenSeq([i \in DOMAIN Tasks |-> ofTask(Tasks[i])])

(* images/{index}_{task}.                                                    *)
Destination(i) == [index |-> i, task |-> run.selected[i].task]

------------------------------------------------------------------------------
NoRun == [catalogue |-> {}, explicit |-> FALSE, total |-> 0,
          quotas |-> <<>>, selected |-> <<>>]

MaxTotal == CHOOSE n \in Totals : \A other \in Totals : other <= n
Destinations == [index : 1 .. MaxTotal, task : TaskSet]

Init ==
  /\ images = [file \in Destinations |-> NoFile]
  /\ manifest = <<>>
  /\ run = NoRun /\ pc = "idle" /\ pos = 0 /\ runs = 0

Start(args) ==
  /\ pc = "idle" /\ runs < MaxRuns
  /\ runs' = runs + 1
  /\ \E quotas \in QuotasOf(args) :
       run' = [catalogue |-> args.catalogue, explicit |-> args.explicit,
               total |-> args.total, quotas |-> quotas,
               selected |-> Selected(args, quotas)]
  /\ pc' = "copy" /\ pos' = 0
  /\ UNCHANGED <<images, manifest>>

Copy ==
  /\ pc = "copy" /\ pos < Len(run.selected)
  /\ LET file == Destination(pos + 1)
     IN images' = IF images[file] # NoFile THEN images
                  ELSE [images EXCEPT ![file] = run.selected[pos + 1].image]
  /\ pos' = pos + 1
  /\ UNCHANGED <<manifest, run, pc, runs>>

Publish ==
  /\ pc = "copy" /\ pos = Len(run.selected)
  /\ manifest' = run.selected
  /\ pc' = "idle"
  /\ UNCHANGED <<images, run, pos, runs>>

(* A kill; the copy in progress may have written part of its file.           *)
Interrupt ==
  /\ pc = "copy"
  /\ pc' = "idle"
  /\ images' \in
       IF CutCopies /\ pos < Len(run.selected) /\ images[Destination(pos + 1)] = NoFile
       THEN {images, [images EXCEPT ![Destination(pos + 1)] = Part]}
       ELSE {images}
  /\ UNCHANGED <<manifest, run, pos, runs>>

Arguments == [catalogue : Catalogues, explicit : ExplicitQuotas, total : Totals]
Next == (\E args \in Arguments : Start(args)) \/ Copy \/ Publish \/ Interrupt
Spec == Init /\ [][Next]_vars

------------------------------------------------------------------------------
(* deterministic_seed of the sample at a position, for one use of it.        *)
ModeOffset == [slowSelect |-> 0, hybrid |-> 1, slow |-> 2]

Seed(base, i, mode) == (base + (i - 1) * 4 + ModeOffset[mode]) % SeedRange

(* The samples that are also generated in slow mode.                         *)
SlowSelected(base) ==
  {i \in DOMAIN manifest :
     Cardinality({j \in DOMAIN manifest :
                    Seed(base, j, "slowSelect") < Seed(base, i, "slowSelect")})
       < SlowSamples}

------------------------------------------------------------------------------
(* Values of the variables; an image file holds an image of its task.        *)
TypeOK ==
  /\ DOMAIN images = Destinations
  /\ \A file \in Destinations :
       images[file] \in {record.image : record \in {r \in UNION Catalogues : r.task = file.task}}
                       \cup {NoFile, Part}
  /\ pc \in {"idle", "copy"}
  /\ pos \in 0 .. Len(run.selected) /\ runs \in 0 .. MaxRuns
  /\ Len(manifest) \in {0} \cup Totals

(* The selection has the size that was asked for, fills each task's quota,   *)
(* and shows no image twice, although records are thrown out by image before *)
(* they are counted by task.                                                 *)
SelectionFillsQuotas ==
  pc = "copy" =>
    /\ Len(run.selected) = run.total
    /\ \A task \in TaskSet :
         Cardinality({i \in DOMAIN run.selected : run.selected[i].task = task})
           = run.quotas[task]
    /\ \A i, j \in DOMAIN run.selected :
         run.selected[i].image = run.selected[j].image => i = j

(* The samples are shared out by the weights as well as whole samples and    *)
(* the supply allow: handing one from a task that has it to a task that      *)
(* could still take one would favour the latter.                             *)
QuotasProportional ==
  pc = "copy" /\ ~run.explicit =>
    \A from, to \in TaskSet :
      run.quotas[from] > 0 /\ run.quotas[to] < Available(run.catalogue)[to] =>
        Weight[to] * run.quotas[from] ^ Steepness
          <= Weight[from] * (run.quotas[to] + 1) ^ Steepness

(* The image file a selected record names is the image of that record.       *)
(* prepare.py calls the result a deterministic data mix.                     *)
ImagesMatchRecords ==
  pc = "idle" /\ manifest # <<>> /\ manifest = run.selected =>
    \A i \in DOMAIN manifest : images[Destination(i)] = manifest[i].image

(* No two calls of the reference model draw from one seed, also when the     *)
(* seeds wrap around, and as many samples are generated in slow mode as      *)
(* asked for.                                                                *)
SeedsIndependent ==
  \A base \in BaseSeeds :
    /\ \A i, j \in DOMAIN manifest : \A left, right \in DOMAIN ModeOffset :
         Seed(base, i, left) = Seed(base, j, right) => i = j /\ left = right
    /\ Cardinality(SlowSelected(base)) =
         IF Len(manifest) < SlowSamples THEN Len(manifest) ELSE SlowSamples

(* What holds of a selection however often it was made before.               *)
MixSound ==
  TypeOK /\ SelectionFillsQuotas /\ QuotasProportional /\ SeedsIndependent
==============================================================================
