------------------------------- MODULE Prepare -------------------------------
(* Calibration data preparation: prepare.py generate works off a selection   *)
(* of records, one tensor file and one line of a progress log for each, and  *)
(* publishes a manifest and a summary; run_prepare.sh keeps the exit record. *)
(* Files outlive the run, which may be killed at any point and resumed,      *)
(* possibly with other arguments.                                            *)
EXTENDS Naturals, Sequences, FiniteSets

CONSTANTS
  Items,       \* bundle identifiers
  Selections,  \* selected.jsonl: sequences of distinct identifiers
  Settings,    \* seed, sampling, model: arguments nothing compares
  Profiles,    \* image profile and tensor format: those a resume compares
  TornAppends, \* a kill may cut a line of the log
  PowerLoss,   \* a crash may lose files that were not forced to disk
  MaxLog,      \* bound on the log: no power loss after that many lines
  None

RecordsOf == [item : Items, settings : Settings, profile : Profiles, boxes : BOOLEAN]

ASSUME NoneApart == None \notin RecordsOf \cup Settings
ASSUME SelectionsGiven ==
  \A records \in Selections :
    /\ records \in Seq(Items) /\ records # <<>>
    /\ \A i, j \in DOMAIN records : records[i] = records[j] => i = j

VARIABLES
  log,       \* generation_progress.jsonl
  tensors,   \* tensor files by identifier
  manifest,  \* generated.jsonl
  summary,   \* generation_summary.json
  exit,      \* the exit record
  run, pc,
  pos,       \* position in the selection
  records,   \* generated_records, in memory
  unsynced   \* tensor files saved by this run

files == <<log, tensors, manifest, summary>>
memory == <<run, pos, records, unsynced>>
vars == <<files, exit, pc, memory>>

Stopped == {"idle", "done", "failed", "killed"}
Item == run.selection[pos]

(* What a run makes of an item: the line of the log and of the manifest.     *)
Record(item, boxes) ==
  [item |-> item, settings |-> run.settings, profile |-> run.profile,
   boxes |-> boxes]

------------------------------------------------------------------------------
(* The log is a text file.  A line that a kill cut short, or left without    *)
(* its newline, runs into the line appended next.                            *)
Line(record, ending) == [record |-> record, ending |-> ending]

(* read_jsonl raises on the first line that is not one object.               *)
Readable ==
  \A i \in DOMAIN log : \/ log[i].ending = "newline"
                        \/ log[i].ending = "none" /\ i = Len(log)

(* load_completed_progress: the last line of an identifier counts.           *)
Completed ==
  [item \in Items |->
     LET lines == {i \in DOMAIN log : log[i].record.item = item}
     IN IF lines = {} THEN None
        ELSE log[CHOOSE i \in lines : \A j \in lines : j <= i].record]

------------------------------------------------------------------------------
Init ==
  /\ log = <<>>
  /\ tensors = [item \in Items |-> None]
  /\ manifest = <<>> /\ summary = None /\ exit = "none"
  /\ run \in [selection : Selections, settings : Settings, profile : Profiles,
              resume : {FALSE}]
  /\ pc = "idle" /\ pos = 1
  /\ records = [item \in Items |-> None]
  /\ unsynced = {}

(* generate_bundle up to its loop; run_prepare.sh has said that it runs.     *)
Start(args) ==
  /\ pc \in Stopped
  /\ run' = args
  /\ pos' = 1 /\ unsynced' = {}
  /\ IF ~args.resume
     THEN /\ records' = [item \in Items |-> None]
          /\ IF log = <<>> THEN pc' = "work" /\ exit' = "running"
                           ELSE pc' = "failed" /\ exit' = "failed"
     ELSE /\ records' = Completed
          /\ IF Readable THEN pc' = "work" /\ exit' = "running"
                         ELSE pc' = "failed" /\ exit' = "failed"
  /\ UNCHANGED files

Working == pc = "work" /\ pos <= Len(run.selection)
Existing == Working /\ records[Item] # None

Compatible == records[Item].profile = run.profile

RefuseRecord ==
  /\ Existing /\ ~Compatible
  /\ pc' = "failed" /\ exit' = "failed"
  /\ UNCHANGED <<files, memory>>

\* Mutants: a record is trusted without its tensor file; nothing is kept.
KeepsRecordBlindly == Existing /\ Compatible
KeepsRecordNever == Existing /\ ~Compatible

KeepsRecord == Existing /\ Compatible /\ tensors[Item] # None

KeepRecord ==
  /\ KeepsRecord
  /\ pos' = pos + 1
  /\ UNCHANGED <<files, exit, pc, run, records, unsynced>>

\* Mutant: a record without its file is neither kept nor made again.
MakesUnrecorded == Working /\ ~Existing

(* Otherwise the reference model runs and the tensor file is replaced.       *)
Makes == Working /\ ~KeepsRecord /\ (Existing => Compatible)

SaveTensor ==
  /\ Makes
  /\ tensors' = [tensors EXCEPT ![Item] = run.settings]
  /\ unsynced' = unsynced \cup {Item}
  /\ pc' = "append"
  /\ UNCHANGED <<log, manifest, summary, exit, run, pos, records>>

(* append_progress, forced to disk.                                          *)
AppendRecord ==
  /\ pc = "append"
  /\ \E boxes \in BOOLEAN :
       /\ log' = Append(log, Line(Record(Item, boxes), "newline"))
       /\ records' = [records EXCEPT ![Item] = Record(Item, boxes)]
  /\ pos' = pos + 1 /\ pc' = "work"
  /\ UNCHANGED <<tensors, manifest, summary, exit, run, unsynced>>

Publish ==
  /\ pc = "work" /\ pos > Len(run.selection)
  /\ manifest' = [i \in DOMAIN run.selection |-> records[run.selection[i]]]
  /\ pc' = "summary"
  /\ UNCHANGED <<log, tensors, summary, exit, memory>>

Summarise ==
  /\ pc = "summary"
  /\ summary' = [settings |-> run.settings, profile |-> run.profile,
                 count |-> Len(run.selection)]
  /\ pc' = "boxes"
  /\ UNCHANGED <<log, tensors, manifest, exit, memory>>

(* Some answer or target has boxes; checked after the manifest is in place.  *)
HasBoxes == \E i \in DOMAIN run.selection : records[run.selection[i]].boxes

CheckBoxes ==
  /\ pc = "boxes"
  /\ IF HasBoxes THEN pc' = "done" /\ exit' = "succeeded"
                 ELSE pc' = "failed" /\ exit' = "failed"
  /\ UNCHANGED <<files, memory>>

------------------------------------------------------------------------------
(* What a kill inside append_progress leaves of the line.                    *)
CutLogs ==
  {log, Append(log, Line(Record(Item, TRUE), "newline"))}
  \cup IF TornAppends THEN {Append(log, Line(Record(Item, TRUE), "none")),
                            Append(log, Line(Record(Item, TRUE), "torn"))}
                      ELSE {}

(* An exception, or a signal with or without the shell's trap.               *)
Interrupt ==
  /\ pc \notin Stopped
  /\ pc' = "killed"
  /\ exit' \in {"running", "cancelled", "failed"}
  /\ log' \in IF pc = "append" THEN CutLogs ELSE {log}
  /\ UNCHANGED <<tensors, manifest, summary, memory>>

(* The log is forced to disk, the tensor files are not.                      *)
LosePower ==
  /\ PowerLoss /\ pc \notin Stopped /\ Len(log) < MaxLog
  /\ pc' = "killed"
  /\ \E lost \in SUBSET unsynced :
       tensors' = [item \in Items |-> IF item \in lost THEN None ELSE tensors[item]]
  /\ UNCHANGED <<log, manifest, summary, exit, memory>>

Arguments == [selection : Selections, settings : Settings, profile : Profiles,
              resume : BOOLEAN]
Progress == \/ RefuseRecord \/ KeepRecord \/ SaveTensor \/ AppendRecord
            \/ Publish \/ Summarise \/ CheckBoxes
Next == (\E args \in Arguments : Start(args)) \/ Progress \/ Interrupt \/ LosePower

Spec == Init /\ [][Next]_vars

------------------------------------------------------------------------------
(* Values of the variables; an identifier is only worked on inside its       *)
(* selection, and a run that publishes has a record for every one.           *)
Lines == [record : RecordsOf, ending : {"newline", "none", "torn"}]
TypeOK ==
  /\ log \in Seq(Lines)
  /\ tensors \in [Items -> Settings \cup {None}]
  /\ \A i \in DOMAIN manifest : manifest[i] \in RecordsOf
  /\ exit \in {"none", "running", "succeeded", "failed", "cancelled"}
  /\ pc \in Stopped \cup {"work", "append", "summary", "boxes"}
  /\ pos \in 1 .. Len(run.selection) + 1
  /\ records \in [Items -> RecordsOf \cup {None}]

(* The records of a manifest have one profile and one format, which the      *)
(* calibration that reads them takes from any of them, although the log may  *)
(* hold the work of runs with several.                                       *)
OneProfile ==
  \A i, j \in DOMAIN manifest : manifest[i].profile = manifest[j].profile

(* A manifest is only put in place over tensor files that are there, also    *)
(* when a machine that stopped had lost some of them.                        *)
PublishedTensorsPresent ==
  pc = "summary" => \A i \in DOMAIN manifest : tensors[manifest[i].item] # None

(* The record of an item and its tensor file come from the same call of the  *)
(* reference model: the answer that is listed is the one in the file.        *)
RecordMatchesTensor ==
  pc = "summary" =>
    \A i \in DOMAIN manifest : tensors[manifest[i].item] = manifest[i].settings

(* The exit record says succeeded only of a complete manifest of this run's  *)
(* selection that passed the check made after it was put in place.           *)
SucceededIsComplete ==
  exit = "succeeded" =>
    /\ [i \in DOMAIN manifest |-> manifest[i].item] = run.selection
    /\ \E i \in DOMAIN manifest : manifest[i].boxes
    /\ summary.count = Len(manifest) /\ summary.profile = manifest[1].profile

(* What holds of every manifest, whatever the runs before it left behind.    *)
PublicationSound ==
  TypeOK /\ OneProfile /\ PublishedTensorsPresent /\ SucceededIsComplete

(* The runs are resumable work: an item with a record and a tensor file is   *)
(* not made again, a manifest needs them all.  For selections that name every *)
(* item, and logs in which no kill leaves half a line.                       *)
Work == INSTANCE ResumableWork WITH
  Makers <- Settings,
  made <- [item \in Items |->
             IF Readable /\ Completed[item] # None THEN tensors[item] ELSE None],
  result <- IF pc \in {"summary", "boxes"} \/ exit = "succeeded" THEN "published"
            ELSE "none"
ImplementsWork == Work!Spec

(* The operator resumes, with whatever arguments.                            *)
Resumed == \E args \in Arguments : args.resume /\ Start(args)
==============================================================================
