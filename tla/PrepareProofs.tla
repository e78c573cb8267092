---------------------------- MODULE PrepareProofs ----------------------------
(***************************************************************************)
(* What a preparation of calibration data publishes, for every selection,  *)
(* setting and profile, and every sequence of runs, kills and power cuts.  *)
(*                                                                         *)
(* The invariant says what a run knows of the items it has passed: it has  *)
(* a record of its own profile for each, and a tensor file.  From the log  *)
(* alone that does not follow, since a crash may have taken the file and   *)
(* the line may be of a run with another profile.                          *)
(*                                                                         *)
(* And the images of its samples: where calibration and the runtime place  *)
(* them and their boxes, for every canvas and every image.                 *)
(***************************************************************************)
EXTENDS Prepare, ImageGeometry, TLAPS, WellFoundedInduction

Passed(i) ==
  LET item == run.selection[i]
  IN /\ records[item] # None
     /\ records[item].profile = run.profile
     /\ tensors[item] # None

Listed == [i \in DOMAIN run.selection |-> records[run.selection[i]]]

RunSound ==
  /\ run \in Arguments
  /\ \A item \in Items : records[item] # None => records[item].item = item
  /\ pc \in {"work", "append"} => \A i \in 1 .. pos - 1 : Passed(i)
  /\ pc = "append" => pos <= Len(run.selection) /\ tensors[Item] # None

Published ==
  /\ pc \in {"summary", "boxes", "done"} =>
       /\ manifest = Listed
       /\ \A i \in DOMAIN run.selection :
            records[run.selection[i]] # None /\ records[run.selection[i]].profile = run.profile
  /\ pc \in {"boxes", "done"} =>
       /\ summary.count = Len(run.selection)
       /\ summary.profile = run.profile
  /\ exit = "succeeded" => pc = "done" /\ HasBoxes

PrepareInv == TypeOK /\ OneProfile /\ PublishedTensorsPresent /\ RunSound /\ Published

-----------------------------------------------------------------------------
\* A selection names items, one after the other.
LEMMA SelectedItems ==
  ASSUME run \in Arguments
  PROVE  /\ Len(run.selection) \in Nat
         /\ Len(run.selection) >= 1
         /\ DOMAIN run.selection = 1 .. Len(run.selection)
         /\ \A i \in 1 .. Len(run.selection) : run.selection[i] \in Items
         /\ \A i, j \in 1 .. Len(run.selection) : run.selection[i] = run.selection[j] => i = j
  <1>1. run.selection \in Selections
    BY DEF Arguments
  <1>2. run.selection \in Seq(Items) /\ run.selection # <<>>
    BY <1>1, SelectionsGiven DEF SelectionsGiven
  <1>3. \A i, j \in DOMAIN run.selection : run.selection[i] = run.selection[j] => i = j
    BY <1>1, SelectionsGiven DEF SelectionsGiven
  <1> QED BY <1>2, <1>3

\* What a record of this run is.
LEMMA RecordsAreRecords ==
  ASSUME run \in Arguments, NEW item \in Items, NEW boxes \in BOOLEAN
  PROVE  /\ Record(item, boxes) \in RecordsOf
         /\ Record(item, boxes).item = item
         /\ Record(item, boxes).profile = run.profile
  BY DEF Record, RecordsOf, Arguments

\* A set of numbers has a least one.
LEMMA LeastNatural ==
  ASSUME NEW T \in SUBSET Nat, T # {}
  PROVE  \E x \in T : \A y \in T : x <= y
  <1> DEFINE R == OpToRel(<, Nat)
  <1>1. \A x, y \in Nat : <<y, x>> \in R <=> y < x
    BY DEF OpToRel
  <1>2. IsWellFoundedOn(R, Nat)
    BY NatLessThanWellFounded
  <1> HIDE DEF R
  <1>3. PICK x \in T : \A y \in T : ~ (<<y, x>> \in R)
    BY <1>2, WFMin
  <1>4. \A y \in T : ~(y < x)
    BY <1>1, <1>3
  <1>5. \A y \in T : x <= y
    BY <1>4, SMT
  <1> QED BY <1>5

\* Some lines of a log are the last of them.
LEMMA LastLine ==
  ASSUME log \in Seq(Lines), NEW S \in SUBSET (DOMAIN log), S # {}
  PROVE  \E i \in S : \A j \in S : j <= i
  <1> DEFINE n == Len(log)
             T == {n - i : i \in S}
  <1>1. n \in Nat /\ DOMAIN log = 1 .. n
    OBVIOUS
  <1> HIDE DEF n
  <1>2. T \in SUBSET Nat /\ T # {}
    BY <1>1
  <1>3. PICK t \in T : \A u \in T : t <= u
    BY <1>2, LeastNatural
  <1>4. PICK i \in S : t = n - i
    OBVIOUS
  <1>5. \A j \in S : n - i <= n - j
    BY <1>3, <1>4
  <1>6. \A j \in S : j <= i
    BY <1>1, <1>5
  <1> QED BY <1>6

\* load_completed_progress returns for an item a line of that item.
LEMMA CompletedSound ==
  ASSUME TypeOK
  PROVE  /\ Completed \in [Items -> RecordsOf \cup {None}]
         /\ \A item \in Items : Completed[item] # None => Completed[item].item = item
  <1>1. ASSUME NEW item \in Items
        PROVE  /\ Completed[item] \in RecordsOf \cup {None}
               /\ Completed[item] # None => Completed[item].item = item
    <2> DEFINE lines == {i \in DOMAIN log : log[i].record.item = item}
               latest == CHOOSE i \in lines : \A j \in lines : j <= i
    <2>1. Completed[item] = IF lines = {} THEN None ELSE log[latest].record
      BY DEF Completed
    <2>2. log \in Seq(Lines)
      BY DEF TypeOK
    <2>3. ASSUME lines # {}
          PROVE  latest \in lines
      <3>1. lines \in SUBSET (DOMAIN log)
        OBVIOUS
      <3> HIDE DEF lines
      <3>2. \E i \in lines : \A j \in lines : j <= i
        BY <2>2, <2>3, <3>1, LastLine
      <3> QED BY <3>2
    <2>4. ASSUME lines # {}
          PROVE  log[latest].record \in RecordsOf /\ log[latest].record.item = item
      <3>1. latest \in DOMAIN log /\ log[latest].record.item = item
        BY <2>3, <2>4
      <3> HIDE DEF latest, lines
      <3>2. log[latest] \in Lines
        BY <2>2, <3>1
      <3> QED BY <3>1, <3>2 DEF Lines
    <2> QED BY <2>1, <2>4
  <1> QED BY <1>1 DEF Completed

\* The invariant gives what is published.
LEMMA InvPublicationSound == PrepareInv => PublicationSound
  <1> SUFFICES ASSUME PrepareInv, exit = "succeeded" PROVE SucceededIsComplete
    BY DEF PrepareInv, PublicationSound, SucceededIsComplete
  <1>1. /\ pc = "done" /\ HasBoxes /\ manifest = Listed
        /\ summary.count = Len(run.selection) /\ summary.profile = run.profile
        /\ \A i \in DOMAIN run.selection :
             records[run.selection[i]] # None /\ records[run.selection[i]].profile = run.profile
    BY DEF PrepareInv, Published
  <1>2. run \in Arguments
    BY DEF PrepareInv, RunSound
  <1>3. /\ Len(run.selection) \in Nat /\ Len(run.selection) >= 1
        /\ DOMAIN run.selection = 1 .. Len(run.selection)
        /\ \A i \in 1 .. Len(run.selection) : run.selection[i] \in Items
    BY <1>2, SelectedItems
  <1>4. run.selection \in Seq(Items)
    BY <1>2, SelectionsGiven DEF SelectionsGiven, Arguments
  <1>5. DOMAIN manifest = DOMAIN run.selection
    BY <1>1 DEF Listed
  <1>6. \A i \in DOMAIN manifest : manifest[i] = records[run.selection[i]]
    BY <1>1 DEF Listed
  <1>7. \A i \in DOMAIN manifest : manifest[i].item = run.selection[i]
    BY <1>1, <1>3, <1>5, <1>6 DEF PrepareInv, RunSound
  <1>8. [i \in DOMAIN manifest |-> manifest[i].item] = run.selection
    BY <1>4, <1>5, <1>7
  <1>9. \E i \in DOMAIN manifest : manifest[i].boxes
    BY <1>1, <1>5, <1>6 DEF HasBoxes
  <1>10. Len(manifest) = Len(run.selection)
    BY <1>1, <1>3 DEF Listed
  <1>11. manifest[1].profile = run.profile
    BY <1>1, <1>3, <1>5, <1>6
  <1> QED BY <1>1, <1>8, <1>9, <1>10, <1>11 DEF SucceededIsComplete

-----------------------------------------------------------------------------
LEMMA PrepareInitInv == ASSUME Init PROVE PrepareInv
  <1>1. run \in Arguments
    <2>1. PICK selection \in Selections, settings \in Settings, asked \in Profiles :
            run = [selection |-> selection, settings |-> settings, profile |-> asked,
                   resume |-> FALSE]
      BY Zenon DEF Init
    <2> QED BY <2>1, Zenon DEF Arguments
  <1>2. /\ log = <<>> /\ tensors = [item \in Items |-> None] /\ manifest = <<>>
        /\ exit = "none" /\ pc = "idle" /\ pos = 1
        /\ records = [item \in Items |-> None]
    BY DEF Init
  <1>3. TypeOK
    BY <1>1, <1>2, SelectedItems DEF TypeOK, Stopped
  <1>4. OneProfile /\ PublishedTensorsPresent
    BY <1>2 DEF OneProfile, PublishedTensorsPresent
  <1> QED BY <1>1, <1>2, <1>3, <1>4 DEF PrepareInv, RunSound, Published

\* A run begins, with the records the log has.
LEMMA StartStep ==
  ASSUME PrepareInv, NEW args \in Arguments, Start(args)
  PROVE  PrepareInv'
  <1> USE DEF PrepareInv
  <1>1. /\ run' = args /\ pos' = 1 /\ pc' \in {"work", "failed"}
        /\ exit' \in {"running", "failed"}
        /\ UNCHANGED <<log, tensors, manifest, summary>>
    BY DEF Start, files
  <1>2. records' = [item \in Items |-> None] \/ records' = Completed
    BY DEF Start
  <1>3. /\ records' \in [Items -> RecordsOf \cup {None}]
        /\ \A item \in Items : records'[item] # None => records'[item].item = item
    BY <1>2, CompletedSound
  <1>4. 1 \in 1 .. Len(args.selection) + 1
    <2>1. args.selection \in Seq(Items)
      BY SelectionsGiven DEF SelectionsGiven, Arguments
    <2> QED BY <2>1
  <1>5. TypeOK'
    BY <1>1, <1>3, <1>4 DEF TypeOK, Stopped
  <1>6. OneProfile' /\ PublishedTensorsPresent'
    BY <1>1 DEF OneProfile, PublishedTensorsPresent
  <1>7. RunSound'
    BY <1>1, <1>3 DEF RunSound
  <1>8. Published'
    BY <1>1 DEF Published
  <1> QED BY <1>5, <1>6, <1>7, <1>8

\* A record is kept only with its tensor file, and refused for its profile.
LEMMA ReuseSteps ==
  ASSUME PrepareInv, RefuseRecord \/ KeepRecord
  PROVE  PrepareInv'
  <1> USE DEF PrepareInv
  <1>1. run \in Arguments /\ pc = "work" /\ pos <= Len(run.selection)
    BY DEF RunSound, RefuseRecord, KeepRecord, KeepsRecord, Existing, Working
  <1>2. UNCHANGED <<log, tensors, manifest, summary, run, records>>
    BY DEF RefuseRecord, KeepRecord, files, memory
  <1>3. \/ pc' = "failed" /\ exit' = "failed" /\ pos' = pos
        \/ pc' = "work" /\ exit' = exit /\ pos' = pos + 1 /\ Passed(pos)
    BY <1>1 DEF RefuseRecord, KeepRecord, KeepsRecord, Existing, Compatible, Item, Passed, memory
  <1>4. pos' \in 1 .. Len(run.selection) + 1
    BY <1>1, <1>3, SelectedItems DEF TypeOK
  <1>5. TypeOK'
    BY <1>2, <1>3, <1>4 DEF TypeOK, Stopped
  <1>6. OneProfile' /\ PublishedTensorsPresent'
    BY <1>2, <1>3 DEF OneProfile, PublishedTensorsPresent
  <1>7. pc' = "work" => \A i \in 1 .. pos' - 1 : Passed(i)'
    <2> SUFFICES ASSUME pc' = "work", NEW i \in 1 .. pos' - 1 PROVE Passed(i)
      BY <1>2 DEF Passed
    <2>1. pos' = pos + 1 /\ Passed(pos) /\ pos \in Nat
      BY <1>1, <1>3, SelectedItems DEF TypeOK
    <2>2. i \in 1 .. pos - 1 \/ i = pos
      BY <2>1
    <2> QED BY <1>1, <2>1, <2>2 DEF RunSound
  <1>8. RunSound'
    BY <1>2, <1>3, <1>7 DEF RunSound
  <1>9. Published'
    BY <1>1, <1>3 DEF Published
  <1> QED BY <1>5, <1>6, <1>8, <1>9

\* A tensor file is replaced; those of the items passed stay.
LEMMA SaveStep ==
  ASSUME PrepareInv, SaveTensor
  PROVE  PrepareInv'
  <1> USE DEF PrepareInv
  <1>1. run \in Arguments /\ pc = "work" /\ pos <= Len(run.selection)
    BY DEF RunSound, SaveTensor, Makes, Working
  <1>2. /\ tensors' = [tensors EXCEPT ![Item] = run.settings] /\ pc' = "append"
        /\ UNCHANGED <<log, manifest, summary, exit, run, pos, records>>
    BY DEF SaveTensor
  <1>3. run.settings \in Settings /\ run.settings # None
    BY <1>1, NoneApart DEF Arguments, NoneApart
  <1>4. pos \in 1 .. Len(run.selection) /\ Item \in Items
    BY <1>1, SelectedItems DEF TypeOK, Item
  <1>5. /\ tensors' \in [Items -> Settings \cup {None}]
        /\ tensors'[Item] # None
        /\ \A item \in Items : tensors[item] # None => tensors'[item] # None
    BY <1>2, <1>3, <1>4 DEF TypeOK
  <1>6. TypeOK'
    BY <1>2, <1>5 DEF TypeOK, Stopped
  <1>7. OneProfile' /\ PublishedTensorsPresent'
    BY <1>2 DEF OneProfile, PublishedTensorsPresent
  <1>8. \A i \in 1 .. pos - 1 : Passed(i)'
    <2> SUFFICES ASSUME NEW i \in 1 .. pos - 1 PROVE Passed(i)'
      OBVIOUS
    <2>1. Passed(i)
      BY <1>1 DEF RunSound
    <2>2. run.selection[i] \in Items
      BY <1>1, <1>4, SelectedItems
    <2> QED BY <1>2, <1>5, <2>1, <2>2 DEF Passed
  <1>9. Item' = Item
    BY <1>2 DEF Item
  <1>10. RunSound'
    BY <1>1, <1>2, <1>5, <1>8, <1>9 DEF RunSound
  <1>11. Published'
    BY <1>1, <1>2 DEF Published
  <1> QED BY <1>6, <1>7, <1>10, <1>11

\* A line is a line whichever part of it a kill leaves.
LEMMA AppendedLog ==
  ASSUME TypeOK, NEW record \in RecordsOf, NEW ending \in {"newline", "none", "torn"}
  PROVE  Append(log, Line(record, ending)) \in Seq(Lines)
  <1>1. Line(record, ending) \in Lines
    BY DEF Line, Lines
  <1> QED BY <1>1 DEF TypeOK

\* The log gets a line, and the item is passed.
LEMMA AppendStep ==
  ASSUME PrepareInv, AppendRecord
  PROVE  PrepareInv'
  <1> USE DEF PrepareInv
  <1>1. run \in Arguments /\ pc = "append" /\ pos <= Len(run.selection) /\ tensors[Item] # None
    BY DEF RunSound, AppendRecord
  <1>2. PICK boxes \in BOOLEAN :
          /\ log' = Append(log, Line(Record(Item, boxes), "newline"))
          /\ records' = [records EXCEPT ![Item] = Record(Item, boxes)]
    BY DEF AppendRecord
  <1>3. /\ pos' = pos + 1 /\ pc' = "work"
        /\ UNCHANGED <<tensors, manifest, summary, exit, run>>
    BY DEF AppendRecord
  <1>4. pos \in 1 .. Len(run.selection) /\ Item \in Items
    BY <1>1, SelectedItems DEF TypeOK, Item
  <1>5. /\ Record(Item, boxes) \in RecordsOf /\ Record(Item, boxes) # None
        /\ Record(Item, boxes).item = Item /\ Record(Item, boxes).profile = run.profile
    BY <1>1, <1>4, RecordsAreRecords, NoneApart DEF NoneApart
  <1>6. log' \in Seq(Lines)
    BY <1>2, <1>5, AppendedLog
  <1>7. /\ records' \in [Items -> RecordsOf \cup {None}]
        /\ records'[Item] = Record(Item, boxes)
        /\ \A item \in Items : item # Item => records'[item] = records[item]
    BY <1>2, <1>4, <1>5 DEF TypeOK
  <1>8. pos' \in 1 .. Len(run.selection) + 1
    BY <1>1, <1>3, <1>4, SelectedItems
  <1>9. TypeOK'
    BY <1>3, <1>6, <1>7, <1>8 DEF TypeOK, Stopped
  <1>10. OneProfile' /\ PublishedTensorsPresent'
    BY <1>3 DEF OneProfile, PublishedTensorsPresent
  <1>11. \A i \in 1 .. pos' - 1 : Passed(i)'
    <2> SUFFICES ASSUME NEW i \in 1 .. pos PROVE Passed(i)'
      BY <1>3, <1>4
    <2>1. CASE i = pos
      BY <1>1, <1>3, <1>5, <1>7, <2>1 DEF Passed, Item
    <2>2. CASE i # pos
      <3>1. i \in 1 .. pos - 1
        BY <1>4, <2>2
      <3>2. Passed(i)
        BY <1>1, <3>1 DEF RunSound
      <3>3. run.selection[i] \in Items /\ run.selection[i] # Item
        BY <1>1, <1>4, <2>2, <3>1, SelectedItems DEF Item
      <3> QED BY <1>3, <1>7, <3>2, <3>3 DEF Passed
    <2> QED BY <2>1, <2>2
  <1>12. \A item \in Items : records'[item] # None => records'[item].item = item
    BY <1>5, <1>7 DEF RunSound
  <1>13. RunSound'
    BY <1>1, <1>3, <1>11, <1>12 DEF RunSound
  <1>14. Published'
    BY <1>1, <1>3 DEF Published
  <1> QED BY <1>9, <1>10, <1>13, <1>14

\* The manifest lists the records of a selection that is passed whole.
LEMMA PublishStep ==
  ASSUME PrepareInv, Publish
  PROVE  PrepareInv'
  <1> USE DEF PrepareInv
  <1>1. /\ run \in Arguments /\ pc = "work" /\ pos > Len(run.selection) /\ pc' = "summary"
        /\ manifest' = Listed
        /\ UNCHANGED <<log, tensors, summary, exit, run, pos, records>>
    BY DEF RunSound, Publish, Listed, memory
  <1>2. \A i \in DOMAIN run.selection : Passed(i) /\ run.selection[i] \in Items
    BY <1>1, SelectedItems DEF RunSound, TypeOK
  <1>3. \A i \in DOMAIN run.selection :
          /\ records[run.selection[i]] \in RecordsOf
          /\ records[run.selection[i]].profile = run.profile
          /\ records[run.selection[i]].item = run.selection[i]
          /\ tensors[run.selection[i]] # None
    BY <1>2 DEF TypeOK, Passed, RunSound
  <1>4. \A i \in DOMAIN manifest' :
          i \in DOMAIN run.selection /\ manifest'[i] = records[run.selection[i]]
    BY <1>1 DEF Listed
  <1>5. TypeOK'
    BY <1>1, <1>3, <1>4 DEF TypeOK, Stopped
  <1>6. OneProfile' /\ PublishedTensorsPresent'
    BY <1>1, <1>3, <1>4 DEF OneProfile, PublishedTensorsPresent
  <1>7. RunSound'
    BY <1>1 DEF RunSound
  <1>8. Listed' = Listed
    BY <1>1 DEF Listed
  <1>9. \A i \in DOMAIN run.selection : records[run.selection[i]] # None
    BY <1>2 DEF Passed
  <1>10. exit # "succeeded"
    BY <1>1 DEF Published
  <1>11. Published'
    BY <1>1, <1>3, <1>8, <1>9, <1>10 DEF Published
  <1> QED BY <1>5, <1>6, <1>7, <1>11

\* The summary and the check that follow leave the manifest alone.
LEMMA ClosingSteps ==
  ASSUME PrepareInv, Summarise \/ CheckBoxes
  PROVE  PrepareInv'
  <1> USE DEF PrepareInv
  <1>1. /\ pc \in {"summary", "boxes"}
        /\ UNCHANGED <<log, tensors, manifest, run, pos, records>>
    BY DEF Summarise, CheckBoxes, files, memory
  <1>2. Listed' = Listed /\ HasBoxes' = HasBoxes
    BY <1>1 DEF Listed, HasBoxes
  <1>3. CASE Summarise
    <2>1. /\ pc = "summary" /\ pc' = "boxes" /\ exit' = exit
          /\ summary'.count = Len(run.selection) /\ summary'.profile = run.profile
      BY <1>3 DEF Summarise
    <2>2. TypeOK' /\ OneProfile' /\ PublishedTensorsPresent' /\ RunSound'
      BY <1>1, <2>1 DEF TypeOK, Stopped, OneProfile, PublishedTensorsPresent, RunSound
    <2>3. Published'
      BY <1>1, <1>2, <2>1 DEF Published
    <2> QED BY <2>2, <2>3
  <1>4. CASE CheckBoxes
    <2>1. /\ pc = "boxes" /\ summary' = summary
          /\ \/ HasBoxes /\ pc' = "done" /\ exit' = "succeeded"
             \/ pc' = "failed" /\ exit' = "failed"
      BY <1>4 DEF CheckBoxes, files
    <2>2. TypeOK' /\ OneProfile' /\ PublishedTensorsPresent' /\ RunSound'
      BY <1>1, <2>1 DEF TypeOK, Stopped, OneProfile, PublishedTensorsPresent, RunSound
    <2>3. Published'
      BY <1>1, <1>2, <2>1 DEF Published
    <2> QED BY <2>2, <2>3
  <1> QED BY <1>3, <1>4

\* A run ends without a result of its own; a power cut may take tensor files.
LEMMA KilledSteps ==
  ASSUME PrepareInv, Interrupt \/ LosePower
  PROVE  PrepareInv'
  <1> USE DEF PrepareInv
  <1>1. /\ pc \notin Stopped /\ pc' = "killed"
        /\ UNCHANGED <<manifest, summary, run, pos, records>>
        /\ exit' \in {exit, "running", "cancelled", "failed"}
    BY DEF Interrupt, LosePower, memory
  <1>2. exit # "succeeded"
    BY <1>1 DEF Published, Stopped
  <1>3. log' \in Seq(Lines)
    <2>1. CASE log' = log
      BY <2>1 DEF TypeOK
    <2>2. CASE Interrupt /\ pc = "append"
      <3>1. run \in Arguments /\ pos \in 1 .. Len(run.selection)
        BY <2>2, SelectedItems DEF RunSound, TypeOK
      <3>2. Item \in Items
        BY <3>1, SelectedItems DEF Item
      <3>3. Record(Item, TRUE) \in RecordsOf
        BY <3>1, <3>2, RecordsAreRecords
      <3>4. \/ log' = log
            \/ \E ending \in {"newline", "none", "torn"} :
                 log' = Append(log, Line(Record(Item, TRUE), ending))
        BY <2>2, Zenon DEF Interrupt, CutLogs
      <3> QED BY <3>3, <3>4, AppendedLog DEF TypeOK
    <2> QED BY <2>1, <2>2 DEF Interrupt, LosePower
  <1>4. tensors' \in [Items -> Settings \cup {None}]
    BY DEF Interrupt, LosePower, TypeOK
  <1>5. TypeOK'
    BY <1>1, <1>3, <1>4 DEF TypeOK, Stopped
  <1>6. OneProfile' /\ PublishedTensorsPresent'
    BY <1>1 DEF OneProfile, PublishedTensorsPresent
  <1>7. RunSound'
    BY <1>1 DEF RunSound
  <1>8. Published'
    BY <1>1, <1>2 DEF Published
  <1> QED BY <1>5, <1>6, <1>7, <1>8

-----------------------------------------------------------------------------
LEMMA PrepareNextInv == ASSUME PrepareInv, [Next]_vars PROVE PrepareInv'
  <1>1. CASE UNCHANGED vars
    <2>1. UNCHANGED <<log, tensors, manifest, summary, exit, pc, run, pos, records>>
      BY <1>1 DEF vars, files, memory
    <2> QED BY <2>1 DEF PrepareInv, TypeOK, OneProfile, PublishedTensorsPresent, RunSound,
                        Published, Passed, Item, Listed, HasBoxes
  <1>2. CASE Next
    BY <1>2, StartStep, ReuseSteps, SaveStep, AppendStep, PublishStep, ClosingSteps, KilledSteps
       DEF Next, Progress
  <1> QED BY <1>1, <1>2

(* What prepare.py puts in place: records of one profile over tensor files   *)
(* that are there, and "succeeded" only over a complete manifest that passed *)
(* the check for boxes; for every selection, every sequence of resumed runs, *)
(* and kills and power cuts at any point.                                    *)
THEOREM PublicationsSound == Spec => []PublicationSound
  <1>1. Init => PrepareInv
    BY PrepareInitInv
  <1>2. PrepareInv /\ [Next]_vars => PrepareInv'
    BY PrepareNextInv
  <1> QED BY <1>1, <1>2, InvPublicationSound, PTL DEF Spec

-----------------------------------------------------------------------------
(* The runs as resumable work.  While no kill leaves a line without its      *)
(* newline the log stays readable, and what a run has in memory is what      *)
(* load_completed_progress would read.                                       *)
WorkInv ==
  /\ \A i \in DOMAIN log : log[i].ending = "newline"
  /\ pc \notin Stopped => records = Completed

Kept == [item \in Items |->
           IF Readable /\ Completed[item] # None THEN tensors[item] ELSE None]
Result == IF pc \in {"summary", "boxes"} \/ exit = "succeeded" THEN "published"
          ELSE "none"

\* A selection that names every item, as bundles that are there to be made.
EverySelectionIsWhole ==
  \A selection \in Selections, item \in Items :
    \E i \in DOMAIN selection : selection[i] = item

\* A line that is appended is the one that counts for its item.
LEMMA AppendedIsCompleted ==
  ASSUME TypeOK, NEW item \in Items, NEW record \in RecordsOf, record.item = item,
         log' = Append(log, Line(record, "newline"))
  PROVE  Completed' = [Completed EXCEPT ![item] = record]
  <1> DEFINE n == Len(log)
             last(lns, it) ==
               LET lines == {i \in DOMAIN lns : lns[i].record.item = it}
               IN IF lines = {} THEN None
                  ELSE lns[CHOOSE i \in lines : \A j \in lines : j <= i].record
  <1>1. /\ log \in Seq(Lines) /\ n \in Nat /\ DOMAIN log = 1 .. n
        /\ DOMAIN log' = 1 .. n + 1
        /\ \A i \in 1 .. n : log'[i] = log[i]
        /\ log'[n + 1].record = record
    <2>1. log \in Seq(Lines) /\ Line(record, "newline") \in Lines
      BY DEF TypeOK, Line, Lines
    <2>2. log'[n + 1] = Line(record, "newline")
      BY <2>1
    <2> QED BY <2>1, <2>2 DEF Line
  <1> HIDE DEF n
  <1>2. ASSUME NEW other \in Items
        PROVE  Completed'[other] = IF other = item THEN record ELSE Completed[other]
    <2> DEFINE lines == {i \in DOMAIN log : log[i].record.item = other}
               after == {i \in DOMAIN log' : log'[i].record.item = other}
               latest(S) == CHOOSE i \in S : \A j \in S : j <= i
    <2>1. /\ Completed[other] = IF lines = {} THEN None ELSE log[latest(lines)].record
          /\ Completed'[other] = IF after = {} THEN None ELSE log'[latest(after)].record
      BY DEF Completed
    <2>2. CASE other = item
      <3>1. n + 1 \in after /\ \A j \in after : j \in Nat /\ j <= n + 1
        BY <1>1, <2>2
      <3> HIDE DEF after
      <3>2. latest(after) \in after /\ \A j \in after : j <= latest(after)
        BY <3>1, Zenon
      <3> HIDE DEF latest
      <3>3. latest(after) = n + 1
        BY <3>1, <3>2, <1>1
      <3> QED BY <1>1, <2>1, <2>2, <3>1, <3>3
    <2>3. CASE other # item
      <3>1. after = lines
        BY <1>1, <2>3
      <3>2. ASSUME lines # {} PROVE log'[latest(lines)] = log[latest(lines)]
        <4>1. \E i \in lines : \A j \in lines : j <= i
          BY <1>1, <3>2, LastLine
        <4>2. latest(lines) \in lines
          BY <4>1, Zenon
        <4> QED BY <4>2, <1>1
      <3> HIDE DEF after, lines, latest
      <3> QED BY <2>1, <2>3, <3>1, <3>2
    <2> QED BY <2>2, <2>3
  <1>3. /\ Completed' = [other \in Items |-> last(log', other)]
        /\ Completed = [other \in Items |-> last(log, other)]
    BY DEF Completed
  <1> HIDE DEF last
  <1> QED BY <1>2, <1>3

\* The log is readable, so an item is kept that has a line and a tensor file.
LEMMA KeptReadable ==
  ASSUME WorkInv
  PROVE  Kept = [item \in Items |-> IF Completed[item] # None THEN tensors[item] ELSE None]
  BY DEF WorkInv, Kept, Readable

LEMMA WorkInitInv == ASSUME Init PROVE WorkInv
  BY DEF Init, WorkInv, Stopped

LEMMA WorkNextInv ==
  ASSUME ~TornAppends, PrepareInv, WorkInv, [Next]_vars
  PROVE  WorkInv'
  <1>1. CASE UNCHANGED vars
    BY <1>1 DEF vars, files, memory, WorkInv, Completed
  <1>2. ASSUME NEW args \in Arguments, Start(args) PROVE WorkInv'
    <2>1. log' = log /\ Completed' = Completed
      BY <1>2 DEF Start, files, Completed
    <2>2. log = <<>> => Completed = [item \in Items |-> None]
      BY DEF Completed
    <2> QED BY <1>2, <2>1, <2>2 DEF Start, WorkInv, Stopped
  <1>3. CASE AppendRecord
    <2>1. run \in Arguments /\ pos \in 1 .. Len(run.selection)
      BY <1>3, SelectedItems DEF AppendRecord, PrepareInv, RunSound, TypeOK
    <2>2. Item \in Items
      BY <2>1, SelectedItems DEF Item
    <2>3. PICK boxes \in BOOLEAN :
            /\ log' = Append(log, Line(Record(Item, boxes), "newline"))
            /\ records' = [records EXCEPT ![Item] = Record(Item, boxes)]
      BY <1>3 DEF AppendRecord
    <2>4. records = Completed
      BY <1>3 DEF AppendRecord, WorkInv, Stopped
    <2>5. Record(Item, boxes) \in RecordsOf /\ Record(Item, boxes).item = Item
      BY <2>1, <2>2, RecordsAreRecords
    <2>6. records' = Completed'
      BY <2>2, <2>3, <2>4, <2>5, AppendedIsCompleted DEF PrepareInv
    <2>7. \A i \in DOMAIN log' : log'[i].ending = "newline"
      BY <2>3 DEF PrepareInv, TypeOK, WorkInv, Line
    <2> QED BY <2>6, <2>7 DEF WorkInv
  <1>4. CASE Interrupt
    <2>1. pc' = "killed"
      BY <1>4 DEF Interrupt
    <2>2. log' = log \/ log' = Append(log, Line(Record(Item, TRUE), "newline"))
      BY <1>4 DEF Interrupt, CutLogs
    <2> QED BY <2>1, <2>2 DEF PrepareInv, TypeOK, WorkInv, Line, Stopped
  <1>5. CASE LosePower
    BY <1>5 DEF LosePower, WorkInv, Stopped
  <1>6. CASE RefuseRecord \/ KeepRecord \/ SaveTensor \/ Publish \/ Summarise \/ CheckBoxes
    <2>1. log' = log /\ pc \notin Stopped
      BY <1>6 DEF RefuseRecord, KeepRecord, KeepsRecord, SaveTensor, Makes, Publish, Summarise,
                  CheckBoxes, Existing, Working, files, Stopped
    <2>3. Completed' = Completed
      BY <2>1 DEF Completed
    <2>2. records' = records
      BY <1>6 DEF RefuseRecord, KeepRecord, SaveTensor, Publish, Summarise, CheckBoxes, memory
    <2> QED BY <2>1, <2>2, <2>3 DEF WorkInv
  <1> QED BY <1>1, <1>2, <1>3, <1>4, <1>5, <1>6 DEF Next, Progress

-----------------------------------------------------------------------------
\* The steps of resumable work, in terms of what is kept and shown.
LEMMA Loses ==
  ASSUME NEW lost,
         Kept' = [item \in Items |-> IF item \in lost THEN None ELSE Kept[item]],
         Result' \in {Result, "none"}
  PROVE  Work!Next
  <1> DEFINE gone == {item \in Items : item \in lost}
  <1>1. gone \in SUBSET Items
    OBVIOUS
  <1>2. Kept' = [item \in Items |-> IF item \in gone THEN None ELSE Kept[item]]
    OBVIOUS
  <1>3. \E l \in SUBSET Items : Kept' = [item \in Items |-> IF item \in l THEN None ELSE Kept[item]]
    BY <1>1, <1>2
  <1>4. Work!Lose
    BY <1>3, Zenon DEF Work!Lose, Kept, Result
  <1> QED BY <1>4 DEF Work!Next

LEMMA Finishes ==
  ASSUME NEW item \in Items, NEW maker \in Settings, Kept[item] = None,
         Kept' = [Kept EXCEPT ![item] = maker], Result' = Result
  PROVE  Work!Next
  <1>1. Work!Finish(item)
    BY Zenon DEF Work!Finish, Kept, Result
  <1> QED BY <1>1 DEF Work!Next

LEMMA Publishes ==
  ASSUME \A item \in Items : Kept[item] # None,
         Kept' = Kept, Result' = "published"
  PROVE  Work!Next
  <1>1. Work!Publish
    BY Zenon DEF Work!Publish, Kept, Result
  <1> QED BY <1>1 DEF Work!Next

LEMMA Stutters ==
  ASSUME Kept' = Kept, Result' = Result
  PROVE  UNCHANGED Work!workVars
  BY Zenon DEF Work!workVars, Kept, Result

\* Nothing is kept less, but a result may go.
LEMMA Withdraws ==
  ASSUME Kept' = Kept, Result' \in {Result, "none"}
  PROVE  Work!Next
  <1> DEFINE value(item) == IF Readable /\ Completed[item] # None THEN tensors[item] ELSE None
  <1>1. Kept = [item \in Items |-> value(item)]
    BY DEF Kept
  <1> HIDE DEF value
  <1>2. Kept' = [item \in Items |-> IF item \in {} THEN None ELSE Kept[item]]
    BY <1>1
  <1>3. \E lost \in SUBSET Items :
          Kept' = [item \in Items |-> IF item \in lost THEN None ELSE Kept[item]]
    <2> DEFINE P(lost) == Kept' = [item \in Items |-> IF item \in lost THEN None ELSE Kept[item]]
    <2>1. P({})
      BY <1>2
    <2> HIDE DEF P
    <2>2. \E lost \in SUBSET Items : P(lost)
      BY <2>1
    <2> QED BY <2>2 DEF P
  <1>4. Work!Lose
    BY <1>3, Zenon DEF Work!Lose, Kept, Result
  <1> QED BY <1>4 DEF Work!Next

LEMMA KeptAsFiles ==
  ASSUME log' = log, tensors' = tensors
  PROVE  Kept' = Kept
  BY DEF Kept, Readable, Completed

-----------------------------------------------------------------------------
WorkHolds == PrepareInv /\ WorkInv

\* While a run works its result is not yet there, and no other is.
LEMMA WorkingShowsNothing ==
  ASSUME PrepareInv, pc \in {"work", "append"}
  PROVE  Result = "none" /\ exit # "succeeded"
  BY DEF PrepareInv, Published, Result

\* A start or a refusal keeps the items and may withdraw a result.
LEMMA StartOrRefusalWork ==
  ASSUME WorkHolds, (\E args \in Arguments : Start(args)) \/ RefuseRecord
  PROVE  Work!Next
  <1>1. log' = log /\ tensors' = tensors
    BY DEF Start, RefuseRecord, files
  <1>2. pc' \in {"work", "failed"} /\ exit' \in {"running", "failed"}
    BY DEF Start, RefuseRecord
  <1>3. Result' = "none"
    BY <1>2 DEF Result
  <1> QED BY <1>1, <1>3, KeptAsFiles, Withdraws

LEMMA KeepRecordWork == ASSUME WorkHolds, KeepRecord PROVE UNCHANGED Work!workVars
  <1>1. log' = log /\ tensors' = tensors /\ pc' = pc /\ exit' = exit
    BY DEF KeepRecord, files
  <1>2. Result' = Result
    BY <1>1 DEF Result
  <1> QED BY <1>1, <1>2, KeptAsFiles, Stutters

\* A tensor file that was lost is made again for the line that is there.
LEMMA SaveWork ==
  ASSUME WorkHolds, SaveTensor
  PROVE  [Work!Next]_(Work!workVars)
  <1> USE DEF WorkHolds
  <1>1. /\ run \in Arguments /\ pc = "work" /\ pos \in 1 .. Len(run.selection)
        /\ run.settings \in Settings
    <2>1. run \in Arguments /\ pc = "work" /\ pos <= Len(run.selection)
      BY DEF PrepareInv, RunSound, SaveTensor, Makes, Working
    <2> QED BY <2>1, SelectedItems DEF PrepareInv, TypeOK, Arguments
  <1>2. Item \in Items
    BY <1>1, SelectedItems DEF Item
  <1>3. /\ tensors' = [tensors EXCEPT ![Item] = run.settings] /\ pc' = "append"
        /\ log' = log /\ exit' = exit
    BY DEF SaveTensor
  <1>4. Result = "none" /\ Result' = "none"
    BY <1>1, <1>3, WorkingShowsNothing DEF Result
  <1>5. records = Completed /\ Completed' = Completed
    <2>1. Completed' = Completed
      BY <1>3 DEF Completed
    <2> QED BY <2>1, <1>1 DEF WorkInv, Stopped
  <1>6. /\ Kept = [item \in Items |-> IF Completed[item] # None THEN tensors[item] ELSE None]
        /\ Kept' = [item \in Items |-> IF Completed[item] # None THEN tensors'[item] ELSE None]
    BY <1>3, <1>5, KeptReadable DEF WorkInv, Kept, Readable
  <1>7. tensors \in [Items -> Settings \cup {None}]
    BY DEF PrepareInv, TypeOK
  <1> DEFINE item == Item
             held == Completed
  <1>8. /\ item \in Items
        /\ held[item] # None => tensors[item] = None
        /\ tensors' = [tensors EXCEPT ![item] = run.settings]
        /\ Kept = [i \in Items |-> IF held[i] # None THEN tensors[i] ELSE None]
        /\ Kept' = [i \in Items |-> IF held[i] # None THEN tensors'[i] ELSE None]
    BY <1>2, <1>3, <1>5, <1>6 DEF SaveTensor, Makes, KeepsRecord, Existing
  <1> HIDE DEF item, held
  <1>9. CASE held[item] = None
    <2>1. Kept' = Kept
      BY <1>7, <1>8, <1>9
    <2> QED BY <2>1, <1>4, Stutters
  <1>10. CASE held[item] # None
    <2>1. Kept[item] = None /\ Kept' = [Kept EXCEPT ![item] = run.settings]
      BY <1>7, <1>8, <1>10
    <2> QED BY <2>1, <1>1, <1>4, <1>8, Finishes
  <1> QED BY <1>9, <1>10

\* With its line in the log, an item is kept from here on.
LEMMA LineWork ==
  ASSUME WorkHolds, pc = "append", NEW boxes \in BOOLEAN,
         log' = Append(log, Line(Record(Item, boxes), "newline")),
         tensors' = tensors, Result' = "none"
  PROVE  [Work!Next]_(Work!workVars)
  <1> USE DEF WorkHolds
  <1>1. /\ run \in Arguments /\ pos \in 1 .. Len(run.selection) /\ tensors[Item] # None
        /\ tensors \in [Items -> Settings \cup {None}]
    BY SelectedItems DEF PrepareInv, RunSound, TypeOK
  <1>2. Item \in Items
    BY <1>1, SelectedItems DEF Item
  <1> DEFINE item == Item
             record == Record(item, boxes)
             held == Completed
  <1>3. /\ item \in Items /\ tensors[item] \in Settings
        /\ record \in RecordsOf /\ record # None /\ record.item = item
        /\ log' = Append(log, Line(record, "newline"))
    BY <1>1, <1>2, RecordsAreRecords, NoneApart DEF NoneApart
  <1> HIDE DEF item, record
  <1>4. Completed' = [Completed EXCEPT ![item] = record]
    BY <1>3, AppendedIsCompleted DEF PrepareInv
  <1>5. \A i \in DOMAIN log' : log'[i].ending = "newline"
    <2>1. log \in Seq(Lines)
      BY DEF PrepareInv, TypeOK
    <2> QED BY <1>3, <2>1 DEF WorkInv, Line
  <1>6. held \in [Items -> RecordsOf \cup {None}]
    BY CompletedSound DEF PrepareInv
  <1>7. /\ Kept = [i \in Items |-> IF held[i] # None THEN tensors[i] ELSE None]
        /\ Kept' = [i \in Items |-> IF Completed'[i] # None THEN tensors'[i] ELSE None]
    BY <1>5, KeptReadable DEF Kept, Readable
  <1>8. Result = "none"
    BY WorkingShowsNothing
  <1> HIDE DEF held
  <1>9. CASE held[item] # None
    <2>1. Kept' = Kept
      BY <1>3, <1>4, <1>6, <1>7, <1>9 DEF held
    <2> QED BY <2>1, <1>8, Stutters
  <1>10. CASE held[item] = None
    <2>1. Kept[item] = None /\ Kept' = [Kept EXCEPT ![item] = tensors[item]]
      BY <1>3, <1>4, <1>6, <1>7, <1>10 DEF held
    <2> QED BY <2>1, <1>3, <1>8, Finishes
  <1> QED BY <1>9, <1>10

LEMMA AppendWork == ASSUME WorkHolds, AppendRecord PROVE [Work!Next]_(Work!workVars)
  <1>1. PICK boxes \in BOOLEAN :
          log' = Append(log, Line(Record(Item, boxes), "newline"))
    BY DEF AppendRecord
  <1>2. pc = "append" /\ pc' = "work" /\ exit' = exit /\ tensors' = tensors
    BY DEF AppendRecord
  <1>3. Result' = "none"
    BY <1>2, WorkingShowsNothing DEF WorkHolds, Result
  <1> QED BY <1>1, <1>2, <1>3, LineWork

\* A manifest is put in place when every item is kept.
LEMMA PublishWork ==
  ASSUME EverySelectionIsWhole, WorkHolds, Publish
  PROVE  Work!Next
  <1> USE DEF WorkHolds
  <1>1. /\ pc = "work" /\ pos > Len(run.selection) /\ pc' = "summary"
        /\ log' = log /\ tensors' = tensors /\ run \in Arguments
    BY DEF Publish, PrepareInv, RunSound
  <1>2. ASSUME NEW item \in Items PROVE records[item] # None /\ tensors[item] # None
    <2>1. PICK i \in DOMAIN run.selection : run.selection[i] = item
      BY <1>1 DEF EverySelectionIsWhole, Arguments
    <2>2. i \in 1 .. pos - 1
      BY <1>1, <2>1, SelectedItems DEF PrepareInv, TypeOK
    <2>3. Passed(i)
      BY <1>1, <2>2 DEF PrepareInv, RunSound
    <2> QED BY <2>1, <2>3 DEF Passed
  <1>3. records = Completed
    BY <1>1 DEF WorkInv, Stopped
  <1>4. \A item \in Items : Kept[item] # None
    BY <1>2, <1>3, KeptReadable
  <1>5. Result' = "published"
    BY <1>1 DEF Result
  <1> QED BY <1>1, <1>4, <1>5, KeptAsFiles, Publishes

LEMMA SummariseWork == ASSUME WorkHolds, Summarise PROVE UNCHANGED Work!workVars
  <1>1. log' = log /\ tensors' = tensors /\ pc = "summary" /\ pc' = "boxes"
    BY DEF Summarise
  <1>2. Result' = Result
    BY <1>1 DEF Result
  <1> QED BY <1>1, <1>2, KeptAsFiles, Stutters

\* The check that comes last may withdraw what was published.
LEMMA CheckBoxesWork == ASSUME WorkHolds, CheckBoxes PROVE Work!Next
  <1>1. log' = log /\ tensors' = tensors /\ pc = "boxes"
    BY DEF CheckBoxes, files
  <1>2. \/ HasBoxes /\ pc' = "done" /\ exit' = "succeeded"
        \/ ~HasBoxes /\ pc' = "failed" /\ exit' = "failed"
    BY Zenon DEF CheckBoxes
  <1>3. Result' \in {Result, "none"}
    BY <1>1, <1>2 DEF Result
  <1> QED BY <1>1, <1>3, KeptAsFiles, Withdraws

LEMMA InterruptWork ==
  ASSUME ~TornAppends, WorkHolds, Interrupt
  PROVE  [Work!Next]_(Work!workVars)
  <1>1. /\ pc' = "killed" /\ exit' \in {"running", "cancelled", "failed"}
        /\ tensors' = tensors
    BY DEF Interrupt
  <1>2. Result' = "none"
    BY <1>1 DEF Result
  <1>3. CASE log' = log
    BY <1>1, <1>2, <1>3, KeptAsFiles, Withdraws
  <1>4. CASE log' # log
    <2>1. pc = "append" /\ log' = Append(log, Line(Record(Item, TRUE), "newline"))
      BY <1>4 DEF Interrupt, CutLogs
    <2> QED BY <1>1, <1>2, <2>1, LineWork
  <1> QED BY <1>3, <1>4

\* The items whose tensor files a power cut takes are lost.
LEMMA LosePowerWork == ASSUME WorkHolds, LosePower PROVE Work!Next
  <1>1. pc \notin Stopped /\ pc' = "killed" /\ exit' = exit /\ log' = log
    BY DEF LosePower
  <1>2. Result' = "none"
    BY <1>1 DEF Result, WorkHolds, PrepareInv, Published, Stopped
  <1>3. PICK lost \in SUBSET unsynced :
          tensors' = [item \in Items |-> IF item \in lost THEN None ELSE tensors[item]]
    BY DEF LosePower
  <1> DEFINE held == Completed
  <1>4. /\ Kept = [i \in Items |-> IF held[i] # None THEN tensors[i] ELSE None]
        /\ Kept' = [i \in Items |-> IF held[i] # None THEN tensors'[i] ELSE None]
    <2>1. Completed' = Completed /\ Readable /\ Readable'
      BY <1>1 DEF WorkHolds, WorkInv, Readable, Completed
    <2> QED BY <2>1 DEF Kept
  <1> HIDE DEF held
  <1>5. Kept' = [item \in Items |-> IF item \in lost THEN None ELSE Kept[item]]
    BY <1>3, <1>4
  <1> QED BY <1>2, <1>5, Loses

LEMMA WorkStep ==
  ASSUME EverySelectionIsWhole, ~TornAppends, WorkHolds, [Next]_vars
  PROVE  [Work!Next]_(Work!workVars)
  <1>1. CASE UNCHANGED vars
    <2>1. log' = log /\ tensors' = tensors /\ pc' = pc /\ exit' = exit
      BY <1>1 DEF vars, files
    <2>2. Result' = Result
      BY <2>1 DEF Result
    <2> QED BY <2>1, <2>2, KeptAsFiles, Stutters
  <1>2. CASE Next
    BY <1>2, StartOrRefusalWork, KeepRecordWork, SaveWork, AppendWork, PublishWork,
       SummariseWork, CheckBoxesWork, InterruptWork, LosePowerWork DEF Next, Progress
  <1> QED BY <1>1, <1>2

LEMMA WorkInit == ASSUME Init PROVE Work!Init
  <1>1. Completed = [item \in Items |-> None]
    BY DEF Init, Completed
  <1>2. Kept = [item \in Items |-> None] /\ Result = "none"
    BY <1>1 DEF Init, Kept, Result
  <1> QED BY <1>2, Zenon DEF Work!Init, Kept, Result

(* The runs of prepare.py, with any arguments, kills and power cuts between  *)
(* them, are resumable work: an item that has its line and its tensor file   *)
(* is not made again, and a manifest is put in place only from all of them.  *)
(* It needs that every selection names every item and that no kill leaves    *)
(* half a line, which the log could not be read past.                        *)
THEOREM PreparationIsResumable ==
  ASSUME EverySelectionIsWhole, ~TornAppends
  PROVE  Spec => ImplementsWork
  <1>1. Init => WorkHolds
    BY PrepareInitInv, WorkInitInv DEF WorkHolds
  <1>2. WorkHolds /\ [Next]_vars => WorkHolds'
    BY PrepareNextInv, WorkNextInv DEF WorkHolds
  <1>3. Init => Work!Init
    BY WorkInit
  <1>4. WorkHolds /\ [Next]_vars => [Work!Next]_(Work!workVars)
    BY WorkStep
  <1> QED BY <1>1, <1>2, <1>3, <1>4, PTL DEF Spec, ImplementsWork, Work!Spec

-----------------------------------------------------------------------------
(* Images on the canvas.  The arithmetic says how far Python's and C++'s      *)
(* rounding of the same fraction, and of sizes made of it, lie apart; the     *)
(* invariant says that profile, layout and answer are of one sample.          *)

\* Quotient and remainder.
LEMMA Division ==
  ASSUME NEW n \in Nat, NEW d \in Nat \ {0}
  PROVE  \E q \in Nat : \E r \in 0 .. d - 1 :
           q = n \div d /\ r = n % d /\ n = d * q + r
  <1>1. \A q, r \in Int : q = n \div d /\ r = n % d => n = d * q + r
    OBVIOUS
  <1>2. n \div d \in Nat /\ n % d \in 0 .. d - 1 /\ n % d \in Int /\ n \div d \in Int
    OBVIOUS
  <1>3. PICK q \in Int, r \in Int : q = n \div d /\ r = n % d
    BY <1>2
  <1>4. n = d * q + r
    BY ONLY <1>1, <1>3
  <1>5. q \in Nat /\ r \in 0 .. d - 1
    BY <1>2, <1>3
  <1> QED BY <1>3, <1>4, <1>5, Zenon

\* Products with a positive factor keep their order.
LEMMA ProductOrder ==
  ASSUME NEW a \in Int, NEW b \in Int, NEW d \in Nat \ {0}
  PROVE  a <= b <=> a * d <= b * d
  OBVIOUS

\* Python's round is within a half.
LEMMA RoundNear ==
  ASSUME NEW n \in Nat, NEW d \in Nat \ {0}
  PROVE  /\ Round(n, d) \in Nat
         /\ 2 * (Round(n, d) * d) <= 2 * n + d
         /\ 2 * n <= 2 * (Round(n, d) * d) + d
  <1>1. PICK q \in Nat, r \in 0 .. d - 1 : q = n \div d /\ r = n % d /\ n = d * q + r
    BY Division
  <1>2. Round(n, d) = IF 2 * r > d \/ (2 * r = d /\ q % 2 = 1) THEN q + 1 ELSE q
    BY <1>1 DEF Round
  <1>3. d * q = q * d /\ (q + 1) * d = q * d + d /\ q * d \in Int
    BY <1>1
  <1>4. CASE Round(n, d) = q + 1 /\ 2 * r >= d
    BY <1>1, <1>3, <1>4
  <1>5. CASE Round(n, d) = q /\ 2 * r <= d
    BY <1>1, <1>3, <1>5
  <1> QED BY <1>1, <1>2, <1>4, <1>5

\* So is lround, which never rounds a half down.
LEMMA LRoundNear ==
  ASSUME NEW n \in Nat, NEW d \in Nat \ {0}
  PROVE  /\ LRound(n, d) \in Nat
         /\ 2 * (LRound(n, d) * d) <= 2 * n + d
         /\ 2 * n < 2 * (LRound(n, d) * d) + d
  <1>1. PICK q \in Nat, r \in 0 .. 2 * d - 1 :
          q = (2 * n + d) \div (2 * d) /\ 2 * n + d = (2 * d) * q + r
    BY Division
  <1>2. LRound(n, d) = q
    BY <1>1 DEF LRound
  <1>3. (2 * d) * q = 2 * (q * d) /\ q * d \in Int
    OBVIOUS
  <1> QED BY <1>1, <1>2, <1>3

\* Rounding keeps the order.
LEMMA RoundOrder ==
  ASSUME NEW n \in Nat, NEW m \in Nat, n <= m, NEW d \in Nat \ {0}
  PROVE  Round(n, d) <= Round(m, d)
  <1> DEFINE a == Round(n, d)
             b == Round(m, d)
  <1>1. CASE n = m
    BY <1>1, RoundNear
  <1>2. CASE n < m
    <2>1. a \in Nat /\ b \in Nat /\ 2 * (a * d) <= 2 * n + d /\ 2 * m <= 2 * (b * d) + d
      BY RoundNear
    <2> HIDE DEF a, b
    <2>2. (b + 1) * d = b * d + d /\ a * d \in Int /\ b * d \in Int
      BY <2>1
    <2>3. ~((b + 1) * d <= a * d)
      BY <1>2, <2>1, <2>2
    <2>4. ~(b + 1 <= a)
      BY <2>1, <2>3, ProductOrder
    <2> QED BY <2>1, <2>4 DEF a, b
  <1> QED BY <1>1, <1>2

\* The two ways to round differ by one at most, at a half.
LEMMA RoundsAlike ==
  ASSUME NEW n \in Nat, NEW d \in Nat \ {0}
  PROVE  LRound(n, d) \in {Round(n, d), Round(n, d) + 1}
  <1> DEFINE a == Round(n, d)
             b == LRound(n, d)
  <1>1. a \in Nat /\ 2 * (a * d) <= 2 * n + d /\ 2 * n <= 2 * (a * d) + d
    BY RoundNear
  <1>2. b \in Nat /\ 2 * (b * d) <= 2 * n + d /\ 2 * n < 2 * (b * d) + d
    BY LRoundNear
  <1> HIDE DEF a, b
  <1>3. (b + 1) * d = b * d + d /\ (a + 2) * d = a * d + 2 * d /\ a * d \in Int /\ b * d \in Int
    BY <1>1, <1>2
  <1>4. ~((b + 1) * d <= a * d) /\ ~((a + 2) * d <= b * d)
    BY <1>1, <1>2, <1>3
  <1>5. ~(b + 1 <= a) /\ ~(a + 2 <= b)
    BY <1>1, <1>2, <1>4, ProductOrder
  <1>6. b = a \/ b = a + 1
    BY <1>1, <1>2, <1>5
  <1> QED BY <1>6 DEF a, b

\* A side of the image on the canvas: at least a pixel, at most the canvas.
Clamped(size, limit) == Least(limit, Greatest(1, size))

\* Both ways to keep a side within the canvas do the same.
LEMMA ClampedSide ==
  ASSUME NEW size \in Nat, NEW limit \in Nat \ {0}
  PROVE  /\ Clamped(size, limit) \in 1 .. limit
         /\ size \in 1 .. limit => Clamped(size, limit) = size
         /\ size = 0 => Clamped(size, limit) = 1
         /\ size >= limit => Clamped(size, limit) = limit
         /\ Greatest(1, Least(limit, size)) = Clamped(size, limit)
  BY DEF Clamped, Least, Greatest

\* Sides that differ by one do so within the canvas too.
LEMMA ClampedAlike ==
  ASSUME NEW size \in Nat, NEW other \in Nat, other \in {size, size + 1}, NEW limit \in Nat \ {0}
  PROVE  Clamped(other, limit) \in {Clamped(size, limit), Clamped(size, limit) + 1}
  BY DEF Clamped, Least, Greatest

\* The side whose ratio is the scale fills the canvas.
LEMMA FullSide ==
  ASSUME NEW length \in Nat \ {0}, NEW limit \in Nat \ {0}
  PROVE  Round(length * limit, length) = limit
  <1> DEFINE r == Round(length * limit, length)
  <1>1. length * limit \in Nat
    OBVIOUS
  <1>2. r \in Nat /\ 2 * (r * length) <= 2 * (length * limit) + length
        /\ 2 * (length * limit) <= 2 * (r * length) + length
    BY <1>1, RoundNear
  <1> HIDE DEF r
  <1>3. (limit + 1) * length = length * limit + length /\ (r + 1) * length = r * length + length
        /\ r * length \in Int
    BY <1>2
  <1>4. ~((limit + 1) * length <= r * length) /\ ~((r + 1) * length <= limit * length)
    BY <1>1, <1>2, <1>3
  <1>5. ~(limit + 1 <= r) /\ ~(r + 1 <= limit)
    BY <1>2, <1>4, ProductOrder
  <1>6. r = limit
    BY <1>2, <1>5
  <1> QED BY <1>6 DEF r

\* The other side keeps the proportions, within a half.
LEMMA OtherSide ==
  ASSUME NEW w \in Nat \ {0}, NEW h \in Nat \ {0}, NEW width \in Nat \ {0}, NEW height \in Nat \ {0},
         width * h <= height * w
  PROVE  LET size == Clamped(Round(h * width, w), height)
         IN \/ size = 1
            \/ 2 * (size * w) <= 2 * (width * h) + w /\ 2 * (width * h) <= 2 * (size * w) + w
  <1> DEFINE r == Round(h * width, w)
             size == Clamped(r, height)
  <1>1. h * width \in Nat /\ h * width = width * h
    OBVIOUS
  <1>2. r \in Nat /\ 2 * (r * w) <= 2 * (h * width) + w /\ 2 * (h * width) <= 2 * (r * w) + w
    BY <1>1, RoundNear
  <1>3. /\ size \in 1 .. height
        /\ r \in 1 .. height => size = r
        /\ r = 0 => size = 1
    BY <1>2, ClampedSide
  <1> HIDE DEF size, r
  <1>4. (height + 1) * w = height * w + w /\ r * w \in Int
    BY <1>2
  <1>5. ~((height + 1) * w <= r * w)
    BY <1>1, <1>2, <1>4
  <1>6. ~(height + 1 <= r)
    BY <1>2, <1>5, ProductOrder
  <1>7. r = 0 \/ r \in 1 .. height
    BY <1>2, <1>6
  <1>8. size = 1 \/ size = r
    BY <1>3, <1>7
  <1>9. \/ size = 1
        \/ 2 * (size * w) <= 2 * (width * h) + w /\ 2 * (width * h) <= 2 * (size * w) + w
    BY <1>1, <1>2, <1>8
  <1> QED BY <1>9 DEF size, r

\* Padding before the image.
Before(limit, size) == (limit - size) \div 2

\* What is placed.
LEMMA PlacedInMiddle ==
  ASSUME NEW limit, NEW size
  PROVE  /\ Placed(size, limit).size = size
         /\ Placed(size, limit).before = Before(limit, size)
         /\ Placed(size, limit).after = limit - size - Before(limit, size)
  BY DEF Placed, Before

\* What is left over lies half before the image, or a pixel less.
LEMMA HalfBefore ==
  ASSUME NEW limit \in Nat \ {0}, NEW size \in 1 .. limit
  PROVE  /\ Before(limit, size) \in Nat
         /\ (limit - size) - 2 * Before(limit, size) \in {0, 1}
  BY DEF Before

\* Thousandths on the canvas, of a point n on it.
Thousandths(n, limit) == Greatest(0, Least(1000, Round(n, limit)))

\* Thousandths are what they are called.
LEMMA ThousandthsRange ==
  ASSUME NEW limit \in Nat \ {0}, NEW n \in Nat
  PROVE  /\ Thousandths(n, limit) \in Int
         /\ 0 <= Thousandths(n, limit) /\ Thousandths(n, limit) <= 1000
  <1>1. Round(n, limit) \in Nat
    BY RoundNear
  <1> QED BY <1>1 DEF Thousandths, Greatest, Least

\* They are within half a step of the point.
LEMMA ThousandthsNear ==
  ASSUME NEW limit \in Nat \ {0}, NEW n \in Nat, n <= 1000 * limit
  PROVE  /\ Thousandths(n, limit) \in Nat /\ Thousandths(n, limit) <= 1000
         /\ 2 * (Thousandths(n, limit) * limit) <= 2 * n + limit
         /\ 2 * n <= 2 * (Thousandths(n, limit) * limit) + limit
  <1> DEFINE r == Round(n, limit)
  <1>1. r \in Nat /\ 2 * (r * limit) <= 2 * n + limit /\ 2 * n <= 2 * (r * limit) + limit
    BY RoundNear
  <1> HIDE DEF r
  <1>2. 1001 * limit = 1000 * limit + limit /\ r * limit \in Int
    BY <1>1
  <1>3. ~(1001 * limit <= r * limit)
    BY <1>1, <1>2
  <1>4. ~(1001 <= r)
    BY <1>1, <1>3, ProductOrder
  <1>5. Greatest(0, Least(1000, r)) = r /\ r <= 1000
    BY <1>1, <1>4 DEF Greatest, Least
  <1>6. Thousandths(n, limit) = r
    BY <1>5 DEF Thousandths, r
  <1> QED BY <1>1, <1>5, <1>6

\* They keep the order of points.
LEMMA ThousandthsOrder ==
  ASSUME NEW limit \in Nat \ {0}, NEW n \in Nat, NEW m \in Nat, n <= m
  PROVE  Thousandths(n, limit) <= Thousandths(m, limit)
  <1>1. Round(n, limit) <= Round(m, limit) /\ Round(n, limit) \in Nat /\ Round(m, limit) \in Nat
    BY RoundOrder, RoundNear
  <1> QED BY <1>1 DEF Thousandths, Greatest, Least

\* A point of the image is a point of the canvas.
LEMMA PointOnCanvas ==
  ASSUME NEW limit \in Nat \ {0}, NEW size \in 1 .. limit, NEW before \in Nat,
         before + size <= limit, NEW value \in Nat, value <= 1000
  PROVE  /\ value * size \in Nat /\ value * size <= 1000 * size
         /\ value * size + 1000 * before \in Nat
         /\ value * size + 1000 * before <= 1000 * limit
  <1>1. value * size \in Nat /\ value * size <= 1000 * size
    OBVIOUS
  <1> QED BY <1>1

\* A multiple is divided without rest.
LEMMA ExactDivision ==
  ASSUME NEW k \in Nat \ {0}, NEW q \in Nat
  PROVE  (k * q) \div k = q
  <1>1. k * q \in Nat
    OBVIOUS
  <1>2. PICK p \in Nat, r \in 0 .. k - 1 : p = (k * q) \div k /\ k * q = k * p + r
    BY <1>1, Division
  <1>3. \A c, d \in Nat : \A e \in 0 .. k - 1 : c * k = d * k + e => c = d
    <2>1. SUFFICES ASSUME NEW c \in Nat, NEW d \in Nat, NEW e \in 0 .. k - 1, c * k = d * k + e
                   PROVE  c = d
      OBVIOUS
    <2>2. (d + 1) * k = d * k + k /\ c * k \in Int /\ d * k \in Int
      OBVIOUS
    <2>3. ~((d + 1) * k <= c * k) /\ d * k <= c * k
      BY <2>1, <2>2
    <2>4. ~(d + 1 <= c) /\ d <= c
      BY <2>3, ProductOrder
    <2> QED BY <2>4
  <1>4. q * k = p * k + r
    <2>1. k * q = q * k /\ k * p = p * k
      OBVIOUS
    <2> QED BY <1>2, <2>1
  <1>5. q = p
    BY <1>3, <1>4
  <1> QED BY <1>2, <1>5

\* Without rest, it is a multiple.
LEMMA Multiples ==
  ASSUME NEW n \in Nat, NEW d \in Nat \ {0}, n % d = 0
  PROVE  \E q \in Nat : n = d * q
  <1>1. PICK q \in Nat, r \in 0 .. d - 1 : r = n % d /\ n = d * q + r
    BY Division
  <1>2. r = 0
    BY <1>1
  <1>3. n = d * q
    BY <1>1, <1>2
  <1> QED BY <1>3

\* Patches and merged tokens of a canvas that is accepted.
PatchesFit(width, height, P, M) ==
  LET rows == height \div P
      columns == width \div P
      tokens == (rows * columns) \div (M * M)
  IN /\ tokens \in Nat /\ rows * P = height /\ columns * P = width
     /\ tokens * (P * M) * (P * M) = width * height

\* The patches of such a canvas are its rows and columns.
LEMMA PatchesCover ==
  ASSUME NEW width \in Nat \ {0}, NEW height \in Nat \ {0}, NEW P \in Nat \ {0}, NEW M \in Nat \ {0},
         width % (P * M) = 0, height % (P * M) = 0
  PROVE  PatchesFit(width, height, P, M)
  <1>1. P * M \in Nat \ {0} /\ M * M \in Nat \ {0}
    OBVIOUS
  <1>2. PICK a \in Nat : width = (P * M) * a
    BY <1>1, Multiples
  <1>3. PICK b \in Nat : height = (P * M) * b
    BY <1>1, Multiples
  <1>4. width = P * (M * a) /\ height = P * (M * b) /\ M * a \in Nat /\ M * b \in Nat
    BY <1>2, <1>3
  <1>5. width \div P = M * a /\ height \div P = M * b
    BY <1>4, ExactDivision
  <1>6. (M * b) * (M * a) = (M * M) * (a * b) /\ a * b \in Nat
    OBVIOUS
  <1>7. ((M * b) * (M * a)) \div (M * M) = a * b
    BY <1>1, <1>6, ExactDivision
  <1>8. (M * a) * P = width /\ (M * b) * P = height
    BY <1>4
  <1>9. (a * b) * (P * M) * (P * M) = width * height
    BY <1>2, <1>3
  <1> QED BY <1>5, <1>6, <1>7, <1>8, <1>9 DEF PatchesFit

\* One axis of a letterboxed image, as calibration and as the runtime place it.
LEMMA SidesAlike ==
  ASSUME NEW length \in Nat \ {0}, NEW limit \in Nat \ {0}, NEW num \in Nat \ {0}, NEW den \in Nat \ {0}
  PROVE  /\ Round(length * num, den) \in Nat
         /\ Clamped(Round(length * num, den), limit) \in 1 .. limit
         /\ Clamped(LRound(length * num, den), limit) \in 1 .. limit
         /\ Clamped(LRound(length * num, den), limit)
              \in {Clamped(Round(length * num, den), limit), Clamped(Round(length * num, den), limit) + 1}
         /\ Greatest(1, Least(limit, LRound(length * num, den))) = Clamped(LRound(length * num, den), limit)
  <1>1. PICK n \in Nat : n = length * num
    OBVIOUS
  <1>2. PICK r \in Nat : r = Round(n, den)
    BY RoundNear
  <1>3. PICK l \in Nat : l = LRound(n, den)
    BY LRoundNear
  <1>4. l \in {r, r + 1}
    BY <1>2, <1>3, RoundsAlike
  <1>5. Clamped(r, limit) \in 1 .. limit
    BY ClampedSide
  <1>6. Clamped(l, limit) \in 1 .. limit /\ Greatest(1, Least(limit, l)) = Clamped(l, limit)
    BY ClampedSide
  <1>7. Clamped(l, limit) \in {Clamped(r, limit), Clamped(r, limit) + 1}
    BY <1>4, ClampedAlike
  <1> QED BY <1>1, <1>2, <1>3, <1>5, <1>6, <1>7

\* The runtime's way to keep a side within the canvas.
LEMMA RuntimeSide ==
  ASSUME NEW size \in Nat, NEW limit \in Nat \ {0}
  PROVE  Greatest(1, Least(limit, size)) = Clamped(size, limit)
  BY ClampedSide

\* The sizes of an image of w by h on a canvas of width by height.
SidesOn(width, height, w, h, num, den, sx, sy, rx, ry) ==
  /\ sx \in 1 .. width /\ sy \in 1 .. height /\ rx \in 1 .. width /\ ry \in 1 .. height
  /\ rx \in {sx, sx + 1} /\ ry \in {sy, sy + 1}
  /\ sx = Clamped(Round(w * num, den), width) /\ rx = Clamped(LRound(w * num, den), width)
  /\ sy = Clamped(Round(h * num, den), height) /\ ry = Clamped(LRound(h * num, den), height)

\* Full along one axis, in proportion along the other.
InProportion(width, height, w, h, sx, sy) ==
  \/ /\ sx = width
     /\ \/ sy = 1
        \/ 2 * (sy * w) <= 2 * (width * h) + w /\ 2 * (width * h) <= 2 * (sy * w) + w
  \/ /\ sy = height
     /\ \/ sx = 1
        \/ 2 * (sx * h) <= 2 * (height * w) + h /\ 2 * (height * w) <= 2 * (sx * h) + h

\* Each scale leaves the sizes along both axes in proportion.
LEMMA SidesFit ==
  ASSUME NEW width \in Nat \ {0}, NEW height \in Nat \ {0}, NEW w \in Nat \ {0}, NEW h \in Nat \ {0},
         NEW num, NEW den,
         IF width * h <= height * w THEN num = width /\ den = w ELSE num = height /\ den = h
  PROVE  \E sx, sy, rx, ry \in Nat :
           /\ SidesOn(width, height, w, h, num, den, sx, sy, rx, ry)
           /\ InProportion(width, height, w, h, sx, sy)
  <1>1. num \in Nat \ {0} /\ den \in Nat \ {0}
    OBVIOUS
  <1>2. PICK sx \in 1 .. width : sx = Clamped(Round(w * num, den), width)
    BY <1>1, SidesAlike
  <1>3. PICK rx \in 1 .. width : rx = Clamped(LRound(w * num, den), width)
    BY <1>1, SidesAlike
  <1>4. PICK sy \in 1 .. height : sy = Clamped(Round(h * num, den), height)
    BY <1>1, SidesAlike
  <1>5. PICK ry \in 1 .. height : ry = Clamped(LRound(h * num, den), height)
    BY <1>1, SidesAlike
  <1>6. rx \in {sx, sx + 1} /\ ry \in {sy, sy + 1}
    BY <1>1, <1>2, <1>3, <1>4, <1>5, SidesAlike
  <1>7. SidesOn(width, height, w, h, num, den, sx, sy, rx, ry)
    BY <1>2, <1>3, <1>4, <1>5, <1>6 DEF SidesOn
  <1>8. CASE width * h <= height * w
    <2>1. num = width /\ den = w
      BY <1>8
    <2>2. sx = width
      BY <1>2, <2>1, FullSide, ClampedSide
    <2>3. \/ sy = 1
          \/ 2 * (sy * w) <= 2 * (width * h) + w /\ 2 * (width * h) <= 2 * (sy * w) + w
      BY <1>4, <1>8, <2>1, OtherSide
    <2> QED BY <1>7, <2>2, <2>3 DEF InProportion
  <1>9. CASE ~(width * h <= height * w)
    <2>1. num = height /\ den = h
      BY <1>9
    <2>2. sy = height
      BY <1>4, <2>1, FullSide, ClampedSide
    <2>3. height * w <= width * h
      BY <1>9
    <2>4. \/ sx = 1
          \/ 2 * (sx * h) <= 2 * (height * w) + h /\ 2 * (height * w) <= 2 * (sx * h) + h
      BY <1>2, <2>1, <2>3, OtherSide
    <2> QED BY <1>7, <2>2, <2>4 DEF InProportion
  <1> QED BY <1>8, <1>9

\* Both layouts of an image, as sizes along the axes.
SizesAlike(width, height, sx, sy, rx, ry) ==
  /\ sx \in 1 .. width /\ sy \in 1 .. height /\ rx \in 1 .. width /\ ry \in 1 .. height
  /\ rx \in {sx, sx + 1} /\ ry \in {sy, sy + 1}

\* Both layouts for those sizes.
LaidOut(width, height, laid, read, sx, sy, rx, ry) ==
  /\ laid = [x |-> Placed(sx, width), y |-> Placed(sy, height)]
  /\ read = [x |-> [size |-> rx, before |-> Before(width, rx)],
             y |-> [size |-> ry, before |-> Before(height, ry)]]

\* A stretched image fills the canvas.
LEMMA Stretched ==
  ASSUME NEW canvas, NEW image,
         NEW width \in Nat \ {0}, NEW height \in Nat \ {0}, width = canvas.width, height = canvas.height
  PROVE  /\ SizesAlike(width, height, width, height, width, height)
         /\ LaidOut(width, height, Layout(canvas, "stretch", image),
                    RuntimeLayout(canvas, "stretch", image), width, height, width, height)
  <1>1. SizesAlike(width, height, width, height, width, height)
    BY DEF SizesAlike
  <1>2. Before(width, width) = 0 /\ Before(height, height) = 0
    BY DEF Before
  <1>3. Layout(canvas, "stretch", image) = [x |-> Placed(width, width), y |-> Placed(height, height)]
    BY DEF Layout
  <1>4. RuntimeLayout(canvas, "stretch", image)
          = [x |-> [size |-> width, before |-> 0], y |-> [size |-> height, before |-> 0]]
    BY DEF RuntimeLayout
  <1> QED BY <1>1, <1>2, <1>3, <1>4, Zenon DEF LaidOut

\* A letterboxed image is laid out in proportion by both.
LEMMA Letterboxed ==
  ASSUME NEW canvas, NEW image,
         NEW width \in Nat \ {0}, NEW height \in Nat \ {0}, width = canvas.width, height = canvas.height,
         NEW w \in Nat \ {0}, NEW h \in Nat \ {0}, w = image.width, h = image.height
  PROVE  \E sx, sy, rx, ry \in Nat :
           /\ SizesAlike(width, height, sx, sy, rx, ry)
           /\ InProportion(width, height, w, h, sx, sy)
           /\ LaidOut(width, height, Layout(canvas, "letterbox", image),
                      RuntimeLayout(canvas, "letterbox", image), sx, sy, rx, ry)
  <1>1. PICK num, den : /\ ScaleOf(canvas, image) = [num |-> num, den |-> den]
                        /\ IF width * h <= height * w THEN num = width /\ den = w
                                                      ELSE num = height /\ den = h
    <2>1. CASE width * h <= height * w
      BY <2>1 DEF ScaleOf
    <2>2. CASE ~(width * h <= height * w)
      BY <2>2 DEF ScaleOf
    <2> QED BY <2>1, <2>2
  <1>2. PICK sx, sy, rx, ry \in Nat :
          /\ SidesOn(width, height, w, h, num, den, sx, sy, rx, ry)
          /\ InProportion(width, height, w, h, sx, sy)
    BY <1>1, SidesFit
  <1>3. num \in Nat \ {0} /\ den \in Nat \ {0}
    BY <1>1
  <1>4. /\ sx = Resized(w, width, ScaleOf(canvas, image))
        /\ sy = Resized(h, height, ScaleOf(canvas, image))
    BY <1>1, <1>2 DEF Resized, Clamped, SidesOn
  <1>5. Layout(canvas, "letterbox", image) = [x |-> Placed(sx, width), y |-> Placed(sy, height)]
    BY <1>4 DEF Layout
  <1>6. /\ rx = Greatest(1, Least(width, LRound(w * num, den)))
        /\ ry = Greatest(1, Least(height, LRound(h * num, den)))
    <2>1. w * num \in Nat /\ h * num \in Nat
      BY <1>3
    <2>2. LRound(w * num, den) \in Nat /\ LRound(h * num, den) \in Nat
      BY <1>3, <2>1, LRoundNear
    <2>3. Greatest(1, Least(width, LRound(w * num, den))) = Clamped(LRound(w * num, den), width)
      BY <2>2, RuntimeSide, Zenon
    <2>4. Greatest(1, Least(height, LRound(h * num, den))) = Clamped(LRound(h * num, den), height)
      BY <2>2, RuntimeSide, Zenon
    <2> QED BY <1>2, <2>3, <2>4, Zenon DEF SidesOn
  <1>7. /\ RuntimePlaced(w, width, ScaleOf(canvas, image)) = [size |-> rx, before |-> Before(width, rx)]
        /\ RuntimePlaced(h, height, ScaleOf(canvas, image)) = [size |-> ry, before |-> Before(height, ry)]
    BY <1>1, <1>6 DEF RuntimePlaced, Before
  <1>8. RuntimeLayout(canvas, "letterbox", image)
          = [x |-> [size |-> rx, before |-> Before(width, rx)],
             y |-> [size |-> ry, before |-> Before(height, ry)]]
    BY <1>7 DEF RuntimeLayout
  <1>9. SizesAlike(width, height, sx, sy, rx, ry)
    BY <1>2 DEF SidesOn, SizesAlike
  <1>10. LaidOut(width, height, Layout(canvas, "letterbox", image),
                 RuntimeLayout(canvas, "letterbox", image), sx, sy, rx, ry)
    BY <1>5, <1>8, Zenon DEF LaidOut
  <1> QED BY <1>2, <1>9, <1>10, Zenon

\* A coordinate of the source in thousandths of the canvas.
At(value, size, limit) == Thousandths(value * size + 1000 * Before(limit, size), limit)

\* transform_coordinate on an axis.
LEMMA CoordinateIs ==
  ASSUME NEW limit, NEW size, NEW value
  PROVE  CanvasCoordinate(value, Placed(size, limit), limit) = At(value, size, limit)
  <1>1. Placed(size, limit).size = size /\ Placed(size, limit).before = Before(limit, size)
    BY PlacedInMiddle
  <1>2. CanvasCoordinate(value, Placed(size, limit), limit)
          = Thousandths(value * Placed(size, limit).size + 1000 * Placed(size, limit).before, limit)
    BY DEF CanvasCoordinate, Thousandths
  <1> QED BY <1>1, <1>2 DEF At

\* A thousandth of the canvas lies on the image, within half a step.
OnImage(at, limit, size) ==
  /\ 2 * (at * limit) >= 2000 * Before(limit, size) - limit
  /\ 2 * (at * limit) <= 2000 * (Before(limit, size) + size) + limit

\* A coordinate of the answer, on an axis of the canvas.
LEMMA CoordinateOnImage ==
  ASSUME NEW limit \in Nat \ {0}, NEW size \in 1 .. limit, NEW value \in Nat, value <= 1000
  PROVE  OnImage(At(value, size, limit), limit, size)
  <1>1. PICK before \in Nat : before = Before(limit, size) /\ limit - size - 2 * before \in {0, 1}
    BY HalfBefore
  <1>2. PICK n \in Nat : n = value * size
    OBVIOUS
  <1>3. n <= 1000 * size /\ n + 1000 * before <= 1000 * limit
    BY <1>1, <1>2, PointOnCanvas
  <1>4. PICK m \in Nat : m = n + 1000 * before /\ m <= 1000 * limit
    BY <1>3
  <1>5. At(value, size, limit) = Thousandths(m, limit)
    BY <1>1, <1>2, <1>4 DEF At
  <1>6. /\ Thousandths(m, limit) \in Int
        /\ 0 <= Thousandths(m, limit) /\ Thousandths(m, limit) <= 1000
    BY ThousandthsRange
  <1>7. PICK c \in Nat : c = Thousandths(m, limit)
    BY <1>6
  <1>8. PICK at \in Nat : at = c * limit
    OBVIOUS
  <1>9. 2 * at <= 2 * m + limit /\ 2 * m <= 2 * at + limit
    BY <1>4, <1>7, <1>8, ThousandthsNear
  <1>10. 2 * at >= 2000 * before - limit /\ 2 * at <= 2000 * (before + size) + limit
    BY <1>3, <1>4, <1>9
  <1> QED BY <1>1, <1>5, <1>7, <1>8, <1>10 DEF OnImage

\* Coordinates keep their order on an axis.
LEMMA CoordinateOrder ==
  ASSUME NEW limit \in Nat \ {0}, NEW size \in 1 .. limit,
         NEW value \in Nat, value <= 1000, NEW other \in Nat, other <= 1000, value <= other
  PROVE  At(value, size, limit)
           <= At(other, size, limit)
  <1>1. PICK before \in Nat : before = Before(limit, size)
    BY HalfBefore
  <1>2. PICK n \in Nat : n = value * size + 1000 * before
    OBVIOUS
  <1>3. PICK m \in Nat : m = other * size + 1000 * before
    OBVIOUS
  <1>4. value * size <= other * size
    BY ProductOrder
  <1>5. n <= m
    BY <1>2, <1>3, <1>4
  <1>6. /\ At(value, size, limit) = Thousandths(n, limit)
        /\ At(other, size, limit) = Thousandths(m, limit)
    BY <1>1, <1>2, <1>3 DEF At
  <1> QED BY <1>5, <1>6, ThousandthsOrder

\* RestoreCoordinate on an axis.
LEMMA RestoredIs ==
  ASSUME NEW value, NEW size, NEW before, NEW limit
  PROVE  Restored(value, [size |-> size, before |-> before], limit)
           = Greatest(0, Least(1000 * size, value * limit - 1000 * before))
  BY DEF Restored

\* Reading a coordinate back.
ReadWhereItWas(value, limit, size, other) ==
  2 * Distance(Restored(At(value, size, limit),
                        [size |-> other, before |-> Before(limit, other)], limit),
               value * other)
    <= IF other = size THEN limit ELSE limit + 2000

\* What the runtime makes of a coordinate is off by half a step of the canvas,
\* and by a pixel where its side is longer by one.
LEMMA CoordinateRestored ==
  ASSUME NEW limit \in Nat \ {0}, NEW size \in 1 .. limit, NEW other \in 1 .. limit,
         other \in {size, size + 1}, NEW value \in Nat, value <= 1000
  PROVE  ReadWhereItWas(value, limit, size, other)
  <1>1. PICK before \in Nat : before = Before(limit, size) /\ limit - size - 2 * before \in {0, 1}
    BY HalfBefore
  <1>2. PICK half \in Nat : half = Before(limit, other) /\ limit - other - 2 * half \in {0, 1}
    BY HalfBefore
  <1>3. PICK n \in Nat : n = value * size
    OBVIOUS
  <1>4. n <= 1000 * size /\ n + 1000 * before <= 1000 * limit /\ n + 1000 * before \in Nat
    BY <1>1, <1>3, PointOnCanvas
  <1>5. PICK m \in Nat : m = n + 1000 * before /\ m <= 1000 * limit
    BY <1>4
  <1>6. /\ Thousandths(m, limit) \in Int
         /\ 0 <= Thousandths(m, limit) /\ Thousandths(m, limit) <= 1000
    BY ThousandthsRange
  <1>7. PICK c \in Nat : c = Thousandths(m, limit)
    BY <1>6
  <1>8. PICK at \in Nat : at = c * limit
    OBVIOUS
  <1>9. 2 * at <= 2 * m + limit /\ 2 * m <= 2 * at + limit
    BY <1>7, <1>8, <1>5, ThousandthsNear
  <1>10. 2 * at <= 2 * (n + 1000 * before) + limit /\ 2 * (n + 1000 * before) <= 2 * at + limit
    BY <1>5, <1>9
  <1>11. value * other = IF other = size THEN n ELSE n + value
    BY <1>3
  <1>12. 2 * Distance(Greatest(0, Least(1000 * other, at - 1000 * half)), value * other)
           <= IF other = size THEN limit ELSE limit + 2000
    <2>1. CASE other = size
      <3>1. half = before /\ value * other = n
        BY <1>1, <1>2, <1>11, <2>1
      <3> QED BY <1>4, <1>10, <2>1, <3>1 DEF Distance, Greatest, Least
    <2>2. CASE other = size + 1
      <3>1. half \in {before, before - 1}
        BY <1>1, <1>2, <2>2
      <3>2. value * other = n + value
        BY <1>11, <2>2
      <3> QED BY <1>4, <1>10, <2>2, <3>1, <3>2 DEF Distance, Greatest, Least
    <2> QED BY <2>1, <2>2
  <1>13. At(value, size, limit) = c
    BY <1>1, <1>3, <1>7, <1>5 DEF At
  <1>14. Restored(c, [size |-> other, before |-> Before(limit, other)], limit)
           = Greatest(0, Least(1000 * other, at - 1000 * half))
    BY <1>2, <1>8, RestoredIs
  <1> QED BY <1>12, <1>13, <1>14 DEF ReadWhereItWas

\* The profile is of a canvas that was accepted.
ProfileFixed ==
  \E canvas \in Canvases, mode \in Modes, limit \in PrefillLimits :
    profile \in FixedProfiles(canvas, mode, limit)

\* The layout is that of the source.
LaidOutSource == source \in Sources /\ layout = Layout(profile, profile.mode, source)

\* The inductive invariant: what is kept of each step is what that step made of
\* the profile and the image it saw.
GeometryInv ==
  /\ step \in {"profile", "image", "inputs", "response"}
  /\ step = "profile" => response.source = <<>>
  /\ step # "profile" => ProfileFixed
  /\ Prepared \/ Answered => LaidOutSource
  /\ Answered => response.source \in Responses /\ response.canvas \in Transformed(response.source)
  /\ Len(response.source) = Len(response.canvas)
  /\ InputsFitGraph

\* What a profile says of its canvas.
LEMMA CanvasFixed ==
  ASSUME ProfileFixed
  PROVE  \E width, height \in Nat \ {0} :
           /\ width = profile.width /\ height = profile.height
           /\ width % (PatchSize * MergeSize) = 0 /\ height % (PatchSize * MergeSize) = 0
           /\ profile.grid = <<height \div PatchSize, width \div PatchSize>>
           /\ profile.visualTokens
                = ((height \div PatchSize) * (width \div PatchSize)) \div (MergeSize * MergeSize)
           /\ profile.prefillLimit \in Int
           /\ profile.remaining = profile.prefillLimit - profile.visualTokens
           /\ profile.mode \in {"letterbox", "stretch"}
  <1>1. PICK canvas \in Canvases, mode \in Modes, limit \in PrefillLimits :
          profile = VisionProfile(canvas, mode, limit) /\ CanvasAccepted(canvas)
    BY DEF ProfileFixed, FixedProfiles
  <1>2. PICK width \in Int, height \in Int : width = canvas.width /\ height = canvas.height
    BY GeometryAssumption DEF GeometryAssumption
  <1>3. /\ width > 0 /\ height > 0
        /\ width % (PatchSize * MergeSize) = 0 /\ height % (PatchSize * MergeSize) = 0
    BY <1>1, <1>2 DEF CanvasAccepted
  <1>4. mode \in {"letterbox", "stretch"} /\ limit \in Int
    BY GeometryAssumption DEF GeometryAssumption
  <1>5. /\ profile.width = width /\ profile.height = height /\ profile.mode = mode
        /\ profile.grid = <<height \div PatchSize, width \div PatchSize>>
        /\ profile.visualTokens
             = ((height \div PatchSize) * (width \div PatchSize)) \div (MergeSize * MergeSize)
        /\ profile.prefillLimit = limit
        /\ profile.remaining = limit - profile.visualTokens
    BY <1>1, <1>2 DEF VisionProfile
  <1>6. width \in Nat \ {0} /\ height \in Nat \ {0}
    BY <1>3
  <1> QED BY <1>3, <1>4, <1>5, <1>6

\* What the layout of the image is, on both sides.
LEMMA SourceLaidOut ==
  ASSUME ProfileFixed, LaidOutSource
  PROVE  \E width, height, w, h \in Nat \ {0} : \E sx, sy, rx, ry \in Nat :
           /\ width = profile.width /\ height = profile.height
           /\ w = source.width /\ h = source.height
           /\ SizesAlike(width, height, sx, sy, rx, ry)
           /\ LaidOut(width, height, layout, RuntimeLayout(profile, profile.mode, source),
                      sx, sy, rx, ry)
           /\ profile.mode = "letterbox" => InProportion(width, height, w, h, sx, sy)
  <1>1. PICK width, height \in Nat \ {0} : width = profile.width /\ height = profile.height
    BY CanvasFixed
  <1>2. profile.mode \in {"letterbox", "stretch"}
    BY CanvasFixed
  <1>3. PICK w, h \in Nat \ {0} : w = source.width /\ h = source.height
    BY GeometryAssumption DEF GeometryAssumption, LaidOutSource
  <1>4. layout = Layout(profile, profile.mode, source)
    BY DEF LaidOutSource
  <1>5. CASE profile.mode = "stretch"
    <2>1. /\ SizesAlike(width, height, width, height, width, height)
          /\ LaidOut(width, height, Layout(profile, "stretch", source),
                     RuntimeLayout(profile, "stretch", source), width, height, width, height)
      BY <1>1, Stretched
    <2>2. width \in Nat /\ height \in Nat
      OBVIOUS
    <2> QED BY <1>1, <1>3, <1>4, <1>5, <2>1, <2>2, Zenon
  <1>6. CASE profile.mode = "letterbox"
    <2>1. PICK sx, sy, rx, ry \in Nat :
            /\ SizesAlike(width, height, sx, sy, rx, ry)
            /\ InProportion(width, height, w, h, sx, sy)
            /\ LaidOut(width, height, Layout(profile, "letterbox", source),
                       RuntimeLayout(profile, "letterbox", source), sx, sy, rx, ry)
      BY <1>1, <1>3, Letterboxed
    <2> QED BY <1>1, <1>3, <1>4, <1>6, <2>1, Zenon
  <1> QED BY <1>2, <1>5, <1>6

\* The image and its padding make up the canvas, the image in the middle.
LEMMA ImageMakesUpCanvas ==
  ASSUME ProfileFixed, LaidOutSource
  PROVE  /\ layout.x.size \in 1 .. profile.width /\ layout.y.size \in 1 .. profile.height
         /\ layout.x.before + layout.x.size + layout.x.after = profile.width
         /\ layout.y.before + layout.y.size + layout.y.after = profile.height
         /\ layout.x.after - layout.x.before \in {0, 1}
         /\ layout.y.after - layout.y.before \in {0, 1}
  <1>1. PICK width, height, w, h \in Nat \ {0} : \E sx, sy, rx, ry \in Nat :
           /\ width = profile.width /\ height = profile.height
           /\ w = source.width /\ h = source.height
           /\ SizesAlike(width, height, sx, sy, rx, ry)
           /\ LaidOut(width, height, layout, RuntimeLayout(profile, profile.mode, source),
                      sx, sy, rx, ry)
           /\ profile.mode = "letterbox" => InProportion(width, height, w, h, sx, sy)
    BY SourceLaidOut, Zenon
  <1>2. PICK sx, sy, rx, ry \in Nat :
           /\ width = profile.width /\ height = profile.height
           /\ w = source.width /\ h = source.height
           /\ SizesAlike(width, height, sx, sy, rx, ry)
           /\ LaidOut(width, height, layout, RuntimeLayout(profile, profile.mode, source),
                      sx, sy, rx, ry)
           /\ profile.mode = "letterbox" => InProportion(width, height, w, h, sx, sy)
    BY <1>1, Zenon
  <1>3. /\ width = profile.width /\ height = profile.height
        /\ sx \in 1 .. width /\ sy \in 1 .. height
        /\ layout.x = Placed(sx, width) /\ layout.y = Placed(sy, height)
    BY <1>2 DEF SizesAlike, LaidOut
  <1>4. \A limit \in Nat \ {0} : \A size \in 1 .. limit :
          /\ Placed(size, limit).size \in 1 .. limit
          /\ Placed(size, limit).before + Placed(size, limit).size + Placed(size, limit).after = limit
          /\ Placed(size, limit).after - Placed(size, limit).before \in {0, 1}
    <2>1. SUFFICES ASSUME NEW limit \in Nat \ {0}, NEW size \in 1 .. limit
                   PROVE  /\ Placed(size, limit).size \in 1 .. limit
                          /\ Placed(size, limit).before + Placed(size, limit).size
                               + Placed(size, limit).after = limit
                          /\ Placed(size, limit).after - Placed(size, limit).before \in {0, 1}
      OBVIOUS
    <2>2. PICK before \in Nat : before = Before(limit, size) /\ limit - size - 2 * before \in {0, 1}
      BY HalfBefore
    <2>3. /\ Placed(size, limit).size = size /\ Placed(size, limit).before = before
          /\ Placed(size, limit).after = limit - size - before
      BY <2>2, PlacedInMiddle
    <2> QED BY <2>2, <2>3
  <1> QED BY <1>3, <1>4

\* The runtime's layout is the same to a pixel.
LEMMA RuntimeAlike ==
  ASSUME ProfileFixed, LaidOutSource
  PROVE  LET runtime == RuntimeLayout(profile, profile.mode, source)
         IN \A axis \in {"x", "y"} :
              /\ Distance(runtime[axis].size, layout[axis].size) <= 1
              /\ Distance(runtime[axis].before, layout[axis].before) <= 1
              /\ runtime[axis].size >= layout[axis].size
  <1> DEFINE runtime == RuntimeLayout(profile, profile.mode, source)
  <1>1. PICK width, height \in Nat \ {0}, sx, sy, rx, ry \in Nat :
          /\ SizesAlike(width, height, sx, sy, rx, ry)
          /\ LaidOut(width, height, layout, runtime, sx, sy, rx, ry)
    BY SourceLaidOut
  <1> HIDE DEF runtime
  <1>2. /\ layout.x = Placed(sx, width) /\ layout.y = Placed(sy, height)
        /\ runtime.x = [size |-> rx, before |-> Before(width, rx)]
        /\ runtime.y = [size |-> ry, before |-> Before(height, ry)]
    BY <1>1 DEF LaidOut
  <1>3. \A limit \in Nat \ {0} : \A size, other \in 1 .. limit : other \in {size, size + 1} =>
          /\ Distance(other, size) <= 1 /\ other >= size
          /\ Distance(Before(limit, other), Before(limit, size)) <= 1
    <2>1. SUFFICES ASSUME NEW limit \in Nat \ {0}, NEW size \in 1 .. limit, NEW other \in 1 .. limit,
                          other \in {size, size + 1}
                   PROVE  /\ Distance(other, size) <= 1 /\ other >= size
                          /\ Distance(Before(limit, other), Before(limit, size)) <= 1
      OBVIOUS
    <2>2. PICK before \in Nat : before = Before(limit, size) /\ limit - size - 2 * before \in {0, 1}
      BY HalfBefore
    <2>3. PICK half \in Nat : half = Before(limit, other) /\ limit - other - 2 * half \in {0, 1}
      BY HalfBefore
    <2>4. Distance(half, before) <= 1
      BY <2>1, <2>2, <2>3 DEF Distance, Greatest
    <2>5. Distance(other, size) <= 1 /\ other >= size
      BY <2>1 DEF Distance, Greatest
    <2> QED BY <2>2, <2>3, <2>4, <2>5
  <1>4. /\ sx \in 1 .. width /\ rx \in 1 .. width /\ rx \in {sx, sx + 1}
        /\ sy \in 1 .. height /\ ry \in 1 .. height /\ ry \in {sy, sy + 1}
    BY <1>1 DEF SizesAlike
  <1>5. /\ layout.x.size = sx /\ layout.x.before = Before(width, sx)
        /\ layout.y.size = sy /\ layout.y.before = Before(height, sy)
        /\ runtime.x.size = rx /\ runtime.x.before = Before(width, rx)
        /\ runtime.y.size = ry /\ runtime.y.before = Before(height, ry)
    BY <1>2, PlacedInMiddle
  <1>6. /\ Distance(rx, sx) <= 1 /\ Distance(Before(width, rx), Before(width, sx)) <= 1 /\ rx >= sx
        /\ Distance(ry, sy) <= 1 /\ Distance(Before(height, ry), Before(height, sy)) <= 1 /\ ry >= sy
    BY <1>3, <1>4
  <1>7. \A axis \in {"x", "y"} :
          /\ Distance(runtime[axis].size, layout[axis].size) <= 1
          /\ Distance(runtime[axis].before, layout[axis].before) <= 1
          /\ runtime[axis].size >= layout[axis].size
    BY <1>5, <1>6
  <1> QED BY <1>7 DEF runtime

\* A letterboxed image keeps its proportions.
LEMMA ProportionsKept ==
  ASSUME ProfileFixed, LaidOutSource, profile.mode = "letterbox"
  PROVE  /\ layout.x.size = profile.width \/ layout.y.size = profile.height
         /\ LET off == 2 * Distance(layout.x.size * source.height, layout.y.size * source.width)
            IN \/ layout.x.size = profile.width /\ (off <= source.width \/ layout.y.size = 1)
               \/ layout.y.size = profile.height /\ (off <= source.height \/ layout.x.size = 1)
  <1>1. PICK width, height, w, h \in Nat \ {0} : \E sx, sy, rx, ry \in Nat :
           /\ width = profile.width /\ height = profile.height
           /\ w = source.width /\ h = source.height
           /\ SizesAlike(width, height, sx, sy, rx, ry)
           /\ LaidOut(width, height, layout, RuntimeLayout(profile, profile.mode, source),
                      sx, sy, rx, ry)
           /\ profile.mode = "letterbox" => InProportion(width, height, w, h, sx, sy)
    BY SourceLaidOut, Zenon
  <1>2. PICK sx, sy, rx, ry \in Nat :
           /\ width = profile.width /\ height = profile.height
           /\ w = source.width /\ h = source.height
           /\ SizesAlike(width, height, sx, sy, rx, ry)
           /\ LaidOut(width, height, layout, RuntimeLayout(profile, profile.mode, source),
                      sx, sy, rx, ry)
           /\ profile.mode = "letterbox" => InProportion(width, height, w, h, sx, sy)
    BY <1>1, Zenon
  <1>3. /\ width = profile.width /\ height = profile.height
        /\ w = source.width /\ h = source.height
        /\ LaidOut(width, height, layout, RuntimeLayout(profile, profile.mode, source),
                   sx, sy, rx, ry)
        /\ InProportion(width, height, w, h, sx, sy)
    BY <1>2, Zenon
  <1>4. layout.x.size = sx /\ layout.y.size = sy
    BY <1>3, PlacedInMiddle DEF LaidOut
  <1>5. PICK a, b \in Nat : a = sx * h /\ b = sy * w
    OBVIOUS
  <1>6. \/ sx = width /\ (2 * Distance(a, b) <= w \/ sy = 1)
        \/ sy = height /\ (2 * Distance(a, b) <= h \/ sx = 1)
    <2>1. CASE sx = width /\ sy = 1
      BY <2>1
    <2>2. CASE sy = height /\ sx = 1
      BY <2>2
    <2>3. CASE sx = width /\ 2 * (sy * w) <= 2 * (width * h) + w /\ 2 * (width * h) <= 2 * (sy * w) + w
      <3>1. 2 * b <= 2 * a + w /\ 2 * a <= 2 * b + w
        BY <1>5, <2>3
      <3> QED BY <2>3, <3>1 DEF Distance, Greatest
    <2>4. CASE sy = height /\ 2 * (sx * h) <= 2 * (height * w) + h /\ 2 * (height * w) <= 2 * (sx * h) + h
      <3>1. 2 * b <= 2 * a + h /\ 2 * a <= 2 * b + h
        BY <1>5, <2>4
      <3> QED BY <2>4, <3>1 DEF Distance, Greatest
    <2> QED BY <1>3, <2>1, <2>2, <2>3, <2>4 DEF InProportion
  <1> QED BY <1>3, <1>4, <1>5, <1>6

\* Numbers none of which is above 1000.
LEMMA NumbersBounded ==
  ASSUME NEW numbers \in Seq(Nat), \A i \in DOMAIN numbers : ~(numbers[i] > 1000)
  PROVE  \A i \in DOMAIN numbers : i \in Int /\ numbers[i] \in Nat /\ numbers[i] <= 1000
  OBVIOUS

\* The numbers of an answer, each on its axis.
LEMMA AnswerTransformed ==
  ASSUME response.source \in Responses, response.canvas \in Transformed(response.source)
  PROVE  /\ DOMAIN response.canvas = DOMAIN response.source
         /\ Len(response.canvas) = Len(response.source)
         /\ \A i \in DOMAIN response.source :
              /\ i \in Int /\ response.source[i] \in Nat /\ response.source[i] <= 1000
              /\ response.canvas[i] =
                   IF i % 2 = 1 THEN CanvasCoordinate(response.source[i], layout.x, profile.width)
                                ELSE CanvasCoordinate(response.source[i], layout.y, profile.height)
  <1>1. response.source \in Seq(Nat)
    BY GeometryAssumption DEF GeometryAssumption
  <1>2. \A i \in DOMAIN response.source : ~(response.source[i] > 1000)
    BY Zenon DEF Transformed
  <1>3. \A i \in DOMAIN response.source : i \in Int /\ response.source[i] \in Nat /\ response.source[i] <= 1000
    BY <1>1, <1>2, NumbersBounded
  <1>4. response.canvas = [i \in DOMAIN response.source |->
          IF i % 2 = 1 THEN CanvasCoordinate(response.source[i], layout.x, profile.width)
          ELSE CanvasCoordinate(response.source[i], layout.y, profile.height)]
    BY DEF Transformed
  <1>5. DOMAIN response.canvas = 1 .. Len(response.source) /\ Len(response.source) \in Nat
    BY <1>1, <1>4
  <1>6. Len(response.canvas) = Len(response.source)
    BY <1>5
  <1> QED BY <1>3, <1>4, <1>6

\* Two coordinates on an axis keep their order and lie on the image.
PointsKept(v, u, limit, size) ==
  LET at == At(v, size, limit) * limit
  IN /\ v <= u => At(v, size, limit) <= At(u, size, limit)
     /\ 2 * at >= 2000 * Placed(size, limit).before - limit
     /\ 2 * at <= 2000 * (Placed(size, limit).before + Placed(size, limit).size) + limit

\* Any two coordinates are kept so.
LEMMA CoordinatesOnAxis ==
  ASSUME NEW v \in Nat, v <= 1000, NEW u \in Nat, u <= 1000,
         NEW limit \in Nat \ {0}, NEW size \in 1 .. limit
  PROVE  PointsKept(v, u, limit, size)
  <1>1. ASSUME v <= u PROVE At(v, size, limit) <= At(u, size, limit)
    BY <1>1, CoordinateOrder
  <1>2. OnImage(At(v, size, limit), limit, size)
    BY CoordinateOnImage
  <1>3. Placed(size, limit).before = Before(limit, size) /\ Placed(size, limit).size = size
    BY PlacedInMiddle
  <1> QED BY <1>1, <1>2, <1>3 DEF OnImage, PointsKept

\* The sizes on the two axes, as integers.
LEMMA AxisSizes ==
  ASSUME ProfileFixed, LaidOutSource
  PROVE  \E width, height \in Nat \ {0} : \E sx, rx \in 1 .. width : \E sy, ry \in 1 .. height :
           /\ width = profile.width /\ height = profile.height
           /\ rx \in {sx, sx + 1} /\ ry \in {sy, sy + 1}
           /\ layout.x = Placed(sx, width) /\ layout.y = Placed(sy, height)
           /\ RuntimeLayout(profile, profile.mode, source)
                = [x |-> [size |-> rx, before |-> Before(width, rx)],
                   y |-> [size |-> ry, before |-> Before(height, ry)]]
  <1>1. PICK width, height, w, h \in Nat \ {0} : \E sx, sy, rx, ry \in Nat :
           /\ width = profile.width /\ height = profile.height
           /\ w = source.width /\ h = source.height
           /\ SizesAlike(width, height, sx, sy, rx, ry)
           /\ LaidOut(width, height, layout, RuntimeLayout(profile, profile.mode, source),
                      sx, sy, rx, ry)
           /\ profile.mode = "letterbox" => InProportion(width, height, w, h, sx, sy)
    BY SourceLaidOut, Zenon
  <1>2. PICK sx, sy, rx, ry \in Nat :
           /\ width = profile.width /\ height = profile.height
           /\ w = source.width /\ h = source.height
           /\ SizesAlike(width, height, sx, sy, rx, ry)
           /\ LaidOut(width, height, layout, RuntimeLayout(profile, profile.mode, source),
                      sx, sy, rx, ry)
           /\ profile.mode = "letterbox" => InProportion(width, height, w, h, sx, sy)
    BY <1>1, Zenon
  <1>3. /\ sx \in 1 .. width /\ rx \in 1 .. width /\ rx \in {sx, sx + 1}
        /\ sy \in 1 .. height /\ ry \in 1 .. height /\ ry \in {sy, sy + 1}
    BY <1>2 DEF SizesAlike
  <1>4. /\ layout.x = Placed(sx, width) /\ layout.y = Placed(sy, height)
        /\ RuntimeLayout(profile, profile.mode, source)
             = [x |-> [size |-> rx, before |-> Before(width, rx)],
                y |-> [size |-> ry, before |-> Before(height, ry)]]
    BY <1>2 DEF LaidOut
  <1>5. width = profile.width /\ height = profile.height
    BY <1>2, Zenon
  <1>6. sx \in 1 .. width /\ rx \in 1 .. width /\ sy \in 1 .. height /\ ry \in 1 .. height
    BY <1>3
  <1> WITNESS width \in Nat \ {0}, height \in Nat \ {0}
  <1> USE <1>6
  <1> WITNESS sx \in 1 .. width, rx \in 1 .. width
  <1> WITNESS sy \in 1 .. height, ry \in 1 .. height
  <1> QED BY <1>3, <1>4, <1>5

\* Boxes keep their corners in order, on the image.
LEMMA BoxesOnImage ==
  ASSUME ProfileFixed, LaidOutSource,
         response.source \in Responses, response.canvas \in Transformed(response.source)
  PROVE  \A i, j \in DOMAIN response.source :
           LET axis == IF i % 2 = 1 THEN layout.x ELSE layout.y
               limit == IF i % 2 = 1 THEN profile.width ELSE profile.height
               at == response.canvas[i] * limit
           IN /\ i % 2 = j % 2 /\ response.source[i] <= response.source[j] =>
                   response.canvas[i] <= response.canvas[j]
              /\ 2 * at >= 2000 * axis.before - limit
              /\ 2 * at <= 2000 * (axis.before + axis.size) + limit
  <1> SUFFICES ASSUME NEW i \in DOMAIN response.source, NEW j \in DOMAIN response.source
      PROVE LET axis == IF i % 2 = 1 THEN layout.x ELSE layout.y
               limit == IF i % 2 = 1 THEN profile.width ELSE profile.height
               at == response.canvas[i] * limit
           IN /\ i % 2 = j % 2 /\ response.source[i] <= response.source[j] =>
                   response.canvas[i] <= response.canvas[j]
              /\ 2 * at >= 2000 * axis.before - limit
              /\ 2 * at <= 2000 * (axis.before + axis.size) + limit
    OBVIOUS
  <1>1. PICK width, height \in Nat \ {0} : \E sx \in 1 .. width, sy \in 1 .. height :
          /\ width = profile.width /\ height = profile.height
          /\ layout.x = Placed(sx, width) /\ layout.y = Placed(sy, height)
    BY AxisSizes, Zenon
  <1>2. PICK sx \in 1 .. width, sy \in 1 .. height :
          layout.x = Placed(sx, width) /\ layout.y = Placed(sy, height)
    BY <1>1, Zenon
  <1>3. PICK v \in Nat : v = response.source[i] /\ v <= 1000
    BY AnswerTransformed
  <1>4. PICK u \in Nat : u = response.source[j] /\ u <= 1000
    BY AnswerTransformed
  <1>5. \A limit \in Nat \ {0} : \A size \in 1 .. limit :
          PointsKept(v, u, limit, size)
    BY <1>3, <1>4, CoordinatesOnAxis, Zenon
  <1>6. CASE i % 2 = 1
    <2>1. response.canvas[i] = At(v, sx, width)
      BY <1>1, <1>2, <1>3, <1>6, AnswerTransformed, CoordinateIs
    <2>2. i % 2 = j % 2 => response.canvas[j] = At(u, sx, width)
      BY <1>1, <1>2, <1>4, <1>6, AnswerTransformed, CoordinateIs
    <2> QED BY <1>1, <1>2, <1>3, <1>4, <1>5, <1>6, <2>1, <2>2 DEF PointsKept
  <1>7. CASE i % 2 # 1
    <2>1. response.canvas[i] = At(v, sy, height)
      BY <1>1, <1>2, <1>3, <1>7, AnswerTransformed, CoordinateIs
    <2>2. i % 2 = j % 2 => response.canvas[j] = At(u, sy, height)
      BY <1>1, <1>2, <1>4, <1>7, AnswerTransformed, CoordinateIs
    <2> QED BY <1>1, <1>2, <1>3, <1>4, <1>5, <1>7, <2>1, <2>2 DEF PointsKept
  <1> QED BY <1>6, <1>7

\* Every number of an answer is read back where it was.
LEMMA AnswerRestored ==
  ASSUME ProfileFixed, LaidOutSource,
         response.source \in Responses, response.canvas \in Transformed(response.source)
  PROVE  LET runtime == RuntimeLayout(profile, profile.mode, source)
         IN \A i \in DOMAIN response.source :
              LET axis == IF i % 2 = 1 THEN "x" ELSE "y"
                  limit == IF i % 2 = 1 THEN profile.width ELSE profile.height
                  allowed == IF runtime[axis].size = layout[axis].size THEN limit
                             ELSE limit + 2000
              IN 2 * Distance(Restored(response.canvas[i], runtime[axis], limit),
                              response.source[i] * runtime[axis].size) <= allowed
  <1> DEFINE runtime == RuntimeLayout(profile, profile.mode, source)
  <1>1. PICK width, height \in Nat \ {0} : \E sx, rx \in 1 .. width : \E sy, ry \in 1 .. height :
           /\ width = profile.width /\ height = profile.height
           /\ rx \in {sx, sx + 1} /\ ry \in {sy, sy + 1}
           /\ layout.x = Placed(sx, width) /\ layout.y = Placed(sy, height)
           /\ runtime = [x |-> [size |-> rx, before |-> Before(width, rx)],
                         y |-> [size |-> ry, before |-> Before(height, ry)]]
    BY AxisSizes, Zenon
  <1> HIDE DEF runtime
  <1>2. PICK sx, rx \in 1 .. width, sy, ry \in 1 .. height :
           /\ rx \in {sx, sx + 1} /\ ry \in {sy, sy + 1}
           /\ layout.x = Placed(sx, width) /\ layout.y = Placed(sy, height)
           /\ runtime = [x |-> [size |-> rx, before |-> Before(width, rx)],
                         y |-> [size |-> ry, before |-> Before(height, ry)]]
    BY <1>1
  <1>3. /\ runtime.x = [size |-> rx, before |-> Before(width, rx)] /\ runtime.x.size = rx
        /\ runtime.y = [size |-> ry, before |-> Before(height, ry)] /\ runtime.y.size = ry
        /\ layout.x.size = sx /\ layout.y.size = sy
    BY <1>2, PlacedInMiddle
  <1>4. \A i \in DOMAIN response.source :
              LET axis == IF i % 2 = 1 THEN "x" ELSE "y"
                  limit == IF i % 2 = 1 THEN profile.width ELSE profile.height
                  allowed == IF runtime[axis].size = layout[axis].size THEN limit
                             ELSE limit + 2000
              IN 2 * Distance(Restored(response.canvas[i], runtime[axis], limit),
                              response.source[i] * runtime[axis].size) <= allowed
    <2> SUFFICES ASSUME NEW i \in DOMAIN response.source
        PROVE LET axis == IF i % 2 = 1 THEN "x" ELSE "y"
                  limit == IF i % 2 = 1 THEN profile.width ELSE profile.height
                  allowed == IF runtime[axis].size = layout[axis].size THEN limit
                             ELSE limit + 2000
              IN 2 * Distance(Restored(response.canvas[i], runtime[axis], limit),
                              response.source[i] * runtime[axis].size) <= allowed
      OBVIOUS
    <2>1. PICK v \in Nat : v = response.source[i] /\ v <= 1000
      BY AnswerTransformed
    <2>2. CASE i % 2 = 1
      <3>1. response.canvas[i] = At(v, sx, width)
        BY <1>1, <1>2, <2>1, <2>2, AnswerTransformed, CoordinateIs
      <3>2. ReadWhereItWas(v, width, sx, rx)
        BY <1>2, <2>1, CoordinateRestored
      <3> QED BY <1>1, <1>3, <2>1, <2>2, <3>1, <3>2 DEF ReadWhereItWas
    <2>3. CASE i % 2 # 1
      <3>1. response.canvas[i] = At(v, sy, height)
        BY <1>1, <1>2, <2>1, <2>3, AnswerTransformed, CoordinateIs
      <3>2. ReadWhereItWas(v, height, sy, ry)
        BY <1>2, <2>1, CoordinateRestored
      <3> QED BY <1>1, <1>3, <2>1, <2>3, <3>1, <3>2 DEF ReadWhereItWas
    <2> QED BY <2>2, <2>3
  <1> QED BY <1>4 DEF runtime

\* Visual tokens cover the canvas.
LEMMA TokensCover ==
  ASSUME ProfileFixed
  PROVE  TokensCoverCanvas
  <1>1. PICK width, height \in Nat \ {0} :
           /\ width = profile.width /\ height = profile.height
           /\ width % (PatchSize * MergeSize) = 0 /\ height % (PatchSize * MergeSize) = 0
           /\ profile.visualTokens
                = ((height \div PatchSize) * (width \div PatchSize)) \div (MergeSize * MergeSize)
    BY CanvasFixed
  <1>2. PatchSize \in Nat \ {0} /\ MergeSize \in Nat \ {0}
    BY GeometryAssumption DEF GeometryAssumption
  <1>3. PatchesFit(width, height, PatchSize, MergeSize)
    BY <1>1, <1>2, PatchesCover
  <1> QED BY <1>1, <1>3 DEF TokensCoverCanvas, PatchesFit

\* Inputs that are accepted are those of the graph.
LEMMA AcceptedFit ==
  ASSUME ProfileFixed, NEW answer \in Answers(profile.prefillLimit),
         NEW kept \in AcceptedInputs(answer)
  PROVE  /\ kept.vision = profile.visionInput /\ kept.projected = profile.projected
         /\ kept.grid[1] * PatchSize = profile.height
         /\ kept.grid[2] * PatchSize = profile.width
         /\ kept.ids - profile.visualTokens <= profile.remaining
  <1>1. PICK width, height \in Nat \ {0} :
           /\ width = profile.width /\ height = profile.height
           /\ width % (PatchSize * MergeSize) = 0 /\ height % (PatchSize * MergeSize) = 0
           /\ profile.grid = <<height \div PatchSize, width \div PatchSize>>
           /\ profile.visualTokens
                = ((height \div PatchSize) * (width \div PatchSize)) \div (MergeSize * MergeSize)
           /\ profile.prefillLimit \in Int
           /\ profile.remaining = profile.prefillLimit - profile.visualTokens
    BY CanvasFixed
  <1>2. PatchSize \in Nat \ {0} /\ MergeSize \in Nat \ {0}
    BY GeometryAssumption DEF GeometryAssumption
  <1>3. /\ (height \div PatchSize) * PatchSize = height /\ (width \div PatchSize) * PatchSize = width
        /\ profile.visualTokens \in Nat
    <2>1. PatchesFit(width, height, PatchSize, MergeSize)
      BY <1>1, <1>2, PatchesCover
    <2> QED BY <1>1, <2>1 DEF PatchesFit
  <1>4. /\ kept.vision = profile.visionInput /\ kept.projected = profile.projected
        /\ kept.grid = profile.grid /\ kept.ids = answer.ids
        /\ answer.grid = profile.grid /\ answer.ids <= profile.prefillLimit
    <2>1. PICK pixels : /\ <<1>> \o pixels = profile.visionInput /\ GridAccepted(answer.grid)
                        /\ <<1, (answer.grid[1] * answer.grid[2]) \div (MergeSize * MergeSize),
                             HiddenSize>> = profile.projected
                        /\ answer.ids <= profile.prefillLimit
                        /\ kept = [vision |-> <<1>> \o pixels, grid |-> answer.grid,
                                   projected |-> <<1, (answer.grid[1] * answer.grid[2])
                                                        \div (MergeSize * MergeSize), HiddenSize>>,
                                   ids |-> answer.ids]
      BY DEF AcceptedInputs
    <2> QED BY <2>1 DEF GridAccepted
  <1>5. answer.ids \in Int
    <2>1. PICK grid : answer.ids \in {text + (grid[1] * grid[2]) \div (MergeSize * MergeSize) : text \in TextTokens}
                      /\ answer.grid = grid
      BY DEF Answers
    <2>2. PICK text \in TextTokens : answer.ids = text + profile.visualTokens
      BY <1>1, <1>4, <2>1
    <2>3. text \in Int
      BY GeometryAssumption DEF GeometryAssumption
    <2> QED BY <1>3, <2>2, <2>3
  <1>6. PICK ids \in Int, tokens \in Int, most \in Int :
          ids = answer.ids /\ tokens = profile.visualTokens /\ most = profile.prefillLimit
    BY <1>1, <1>3, <1>5
  <1>7. ids - tokens <= most - tokens
    BY <1>4, <1>6
  <1> QED BY <1>1, <1>3, <1>4, <1>6, <1>7

\* The invariant says what is to be shown.
LEMMA GeometryInvSound == GeometryInv => GeometrySound
  <1> SUFFICES ASSUME GeometryInv PROVE GeometrySound
    OBVIOUS
  <1>1. ASSUME Prepared PROVE ProfileFixed /\ LaidOutSource
    BY <1>1 DEF GeometryInv, Prepared
  <1>2. ASSUME Answered
        PROVE  /\ ProfileFixed /\ LaidOutSource
               /\ response.source \in Responses /\ response.canvas \in Transformed(response.source)
    BY <1>2 DEF GeometryInv, Answered
  <1>3. GeometryTypeOK
    BY <1>1, ImageMakesUpCanvas, Zenon DEF GeometryTypeOK, GeometryInv
  <1>4. LetterboxKeepsProportions
    BY <1>1, ImageMakesUpCanvas, ProportionsKept, Zenon DEF LetterboxKeepsProportions
  <1>5. RuntimeLaysOutAlike
    BY <1>1, RuntimeAlike, Zenon DEF RuntimeLaysOutAlike
  <1>6. BoxesStayOnImage
    BY <1>2, BoxesOnImage, Zenon DEF BoxesStayOnImage
  <1>7. RestoredWhereItWas
    BY <1>2, AnswerRestored, Zenon DEF RestoredWhereItWas
  <1>8. TokensCoverCanvas
    <2>1. step # "profile" => ProfileFixed
      BY DEF GeometryInv
    <2> QED BY <2>1, TokensCover DEF TokensCoverCanvas
  <1> QED BY <1>3, <1>4, <1>5, <1>6, <1>7, <1>8 DEF GeometrySound, GeometryInv

\* Every step keeps it.
LEMMA GeometryStep ==
  ASSUME GeometryInv, [GeometryNext]_geometryVars
  PROVE  GeometryInv'
  <1>1. CASE BuildProfile
    <2>1. /\ step = "profile" /\ step' = "image" /\ ProfileFixed'
          /\ UNCHANGED <<source, layout, response, inputs>>
      BY <1>1 DEF BuildProfile, ProfileFixed
    <2>2. response.source = <<>> /\ Len(response.source) = Len(response.canvas)
      BY <2>1 DEF GeometryInv
    <2> QED BY <2>1, <2>2 DEF GeometryInv, Prepared, Answered, InputsFitGraph
  <1>2. CASE PrepareImage
    <2>1. /\ step = "image" /\ step' = "inputs" /\ LaidOutSource'
          /\ UNCHANGED <<profile, response, inputs>>
      BY <1>2 DEF PrepareImage, LaidOutSource
    <2>2. ProfileFixed /\ Len(response.source) = Len(response.canvas)
      BY <2>1 DEF GeometryInv
    <2>3. ProfileFixed'
      BY <2>1, <2>2 DEF ProfileFixed
    <2> QED BY <2>1, <2>2, <2>3 DEF GeometryInv, Prepared, Answered, InputsFitGraph
  <1>3. CASE PrepareInputs
    <2>1. /\ step = "inputs" /\ step' = "response" /\ UNCHANGED <<profile, source, layout, response>>
      BY <1>3 DEF PrepareInputs
    <2>2. ProfileFixed /\ LaidOutSource /\ Len(response.source) = Len(response.canvas)
      BY <2>1 DEF GeometryInv, Prepared
    <2>3. ProfileFixed' /\ LaidOutSource'
      BY <2>1, <2>2 DEF ProfileFixed, LaidOutSource
    <2>4. PICK answer \in Answers(profile.prefillLimit) : inputs' \in AcceptedInputs(answer)
      BY <1>3 DEF PrepareInputs
    <2>5. /\ inputs'.vision = profile.visionInput /\ inputs'.projected = profile.projected
          /\ inputs'.grid[1] * PatchSize = profile.height
          /\ inputs'.grid[2] * PatchSize = profile.width
          /\ inputs'.ids - profile.visualTokens <= profile.remaining
      BY <2>2, <2>4, AcceptedFit
    <2>6. InputsFitGraph'
      BY <2>1, <2>5 DEF InputsFitGraph
    <2> QED BY <2>1, <2>2, <2>3, <2>6 DEF GeometryInv, Prepared, Answered
  <1>4. CASE TransformResponse
    <2>1. /\ step = "response" /\ step' = "image" /\ UNCHANGED <<profile, source, layout, inputs>>
          /\ response'.source \in Responses /\ response'.canvas \in Transformed(response'.source)
      BY <1>4 DEF TransformResponse
    <2>2. ProfileFixed /\ LaidOutSource
      BY <2>1 DEF GeometryInv, Prepared
    <2>3. ProfileFixed' /\ LaidOutSource'
      BY <2>1, <2>2 DEF ProfileFixed, LaidOutSource
    <2>4. Transformed(response'.source) = Transformed(response.source)'
      BY <2>1 DEF Transformed
    <2>5. Len(response'.canvas) = Len(response'.source)
      <3>1. PICK numbers \in Seq(Nat) : numbers = response'.source
        BY <2>1, GeometryAssumption DEF GeometryAssumption
      <3>2. response'.canvas \in Transformed(numbers)
        BY <2>1, <3>1
      <3>3. DOMAIN response'.canvas = DOMAIN numbers
        BY <3>2 DEF Transformed
      <3>4. DOMAIN numbers = 1 .. Len(numbers) /\ Len(numbers) \in Nat
        OBVIOUS
      <3>5. \E f : response'.canvas = [i \in 1 .. Len(numbers) |-> f[i]]
        BY <3>2, <3>4 DEF Transformed
      <3> QED BY <3>1, <3>3, <3>4, <3>5
    <2> QED BY <2>1, <2>3, <2>4, <2>5 DEF GeometryInv, Prepared, Answered, InputsFitGraph
  <1>5. CASE UNCHANGED geometryVars
    BY <1>5 DEF geometryVars, GeometryInv, Prepared, Answered, InputsFitGraph, ProfileFixed,
                LaidOutSource, Transformed
  <1> QED BY <1>1, <1>2, <1>3, <1>4, <1>5 DEF GeometryNext

\* For any canvases, patch sizes, images, answers of the processor and target
\* responses: the runtime lays an image out as calibration did, to a pixel; boxes
\* stay on it in order; what a model was trained to answer is read back where it
\* was; and what is kept of a sample fits the compiled graph.
THEOREM ImagesAreWhereTheyWere == GeometrySpec => []GeometrySound
<1>1. GeometryInit => GeometryInv
  BY DEF GeometryInit, GeometryInv, Prepared, Answered, InputsFitGraph
<1>2. GeometryInv /\ [GeometryNext]_geometryVars => GeometryInv'
  BY GeometryStep
<1> QED BY <1>1, <1>2, GeometryInvSound, PTL DEF GeometrySpec
=============================================================================
