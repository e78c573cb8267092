------------------------- MODULE LanguageBuildProofs -------------------------
(***************************************************************************)
(* The Language build for any number of graphs, configurations, file-name  *)
(* prefixes and core counts, whatever was killed, in four parts.           *)
(*                                                                         *)
(* A family of source graphs that is accepted was exported whole by one    *)
(* run, with the embedding table beside it unless a run of another chunk   *)
(* or cache has replaced that.  Files are never removed and an export      *)
(* begins with the same graph, so two prefixes that both hold the first    *)
(* graph stop every later run.  With a single prefix, the last graph is    *)
(* what a complete export alone leaves: while it is missing or damaged     *)
(* nothing is accepted, and once it is there only a run of another chunk   *)
(* or cache exports, under another prefix.                                 *)
(*                                                                         *)
(* The plan: its stages, how many there are, that it links every model.    *)
(* It is built by recursive functions; a number of steps is induction over *)
(* a set of numbers (Induction), which needs no operator as parameter.     *)
(*                                                                         *)
(* BuildInv: artifacts are made only from accepted graphs, so their        *)
(* weights are those of one export, which is still the one accepted or was *)
(* displaced by one of another chunk or cache; what a run has passed in    *)
(* its plan is there; a run without --resume owns what there is.           *)
(*                                                                         *)
(* Every step of the release build is a step of ResumableWork or none.     *)
(***************************************************************************)
EXTENDS LanguageBuild, TLAPS, WellFoundedInduction

First == StageOrder[1]
Final == StageOrder[Len(StageOrder)]
Exporting == pc \in {"open", "export"}

FilesTyped ==
  /\ bc \in [Names -> [Graphs -> Configs \cup {NoFile, Damaged}]]
  /\ embedding \in Configs \cup {NoFile}

\* Where the export under way is, and what it has saved.
ExportSound ==
  /\ pc \notin Stopped => run.config \in Configs
  /\ pc \in {"check", "open"} => pos = 1
  /\ Exporting => inUse
  /\ pc = "export" =>
       /\ pos \in 1 .. Len(StageOrder)
       /\ embedding = run.config
       /\ \A i \in 1 .. pos - 1 : bc[NameOf[run.config]][StageOrder[i]] = run.config

\* Only a run that resumes begins with files.
FreshIsEmpty ==
  /\ ~inUse => \A n \in Names, graph \in Graphs : bc[n][graph] = NoFile
  /\ pc = "check" /\ ~run.resume => ~inUse

Begun(n) == bc[n][First] # NoFile

FirstComesFirst ==
  \A n \in Names, graph \in Graphs : bc[n][graph] # NoFile => Begun(n)

Blocked == \E n, m \in Names : n # m /\ Begun(n) /\ Begun(m)

\* An export that is there whole, and the table beside it.
Whole(export) == \A graph \in Graphs : bc[NameOf[export]][graph] = export
TableOf(export) ==
  embedding = export \/ (embedding \in Configs /\ Contract(embedding) # Contract(export))
Complete(export) == Whole(export) /\ TableOf(export)

FinalIsComplete ==
  Blocked \/ \A n \in Names : Intact(bc[n][Final]) =>
    \E export \in Configs :
      /\ NameOf[export] = n /\ Complete(export)
      /\ Exporting => Contract(run.config) # Contract(export)

FamilyInv == FilesTyped /\ ExportSound /\ FreshIsEmpty /\ FirstComesFirst /\ FinalIsComplete

-----------------------------------------------------------------------------
LEMMA StagesAreGraphs ==
  /\ Len(StageOrder) \in Nat /\ Len(StageOrder) >= 1
  /\ DOMAIN StageOrder = 1 .. Len(StageOrder)
  /\ \A i \in 1 .. Len(StageOrder) : StageOrder[i] \in Graphs
  /\ First \in Graphs /\ Final \in Graphs
  /\ \A graph \in Graphs : \E i \in 1 .. Len(StageOrder) : StageOrder[i] = graph
  /\ \A i, j \in 1 .. Len(StageOrder) : StageOrder[i] = StageOrder[j] => i = j
  <1>1. StageOrder \in Seq(Graphs) /\ StageOrder # <<>>
    BY OrderGiven DEF OrderGiven
  <1>2. /\ Len(StageOrder) \in Nat /\ Len(StageOrder) >= 1
        /\ DOMAIN StageOrder = 1 .. Len(StageOrder)
    BY <1>1
  <1>3. \A i \in 1 .. Len(StageOrder) : StageOrder[i] \in Graphs
    BY <1>2 DEF Graphs
  <1>4. \A graph \in Graphs : \E i \in 1 .. Len(StageOrder) : StageOrder[i] = graph
    BY <1>2 DEF Graphs
  <1> QED BY <1>2, <1>3, <1>4, OrderGiven DEF OrderGiven, First, Final

LEMMA FinalIsLast == \A i \in 1 .. Len(StageOrder) : StageOrder[i] = Final => i = Len(StageOrder)
  <1>1. Len(StageOrder) \in 1 .. Len(StageOrder)
    BY StagesAreGraphs
  <1>2. \A i, j \in 1 .. Len(StageOrder) : StageOrder[i] = StageOrder[j] => i = j
    BY StagesAreGraphs
  <1> DEFINE n == Len(StageOrder)
  <1> HIDE DEF n
  <1>3. n \in 1 .. n /\ Final = StageOrder[n]
    BY <1>1 DEF n, Final
  <1>4. \A i, j \in 1 .. n : StageOrder[i] = StageOrder[j] => i = j
    BY <1>2 DEF n
  <1>5. \A i \in 1 .. n : StageOrder[i] = Final => i = n
    BY <1>3, <1>4, Zenon
  <1> QED BY <1>5 DEF n

LEMMA NotContentsFacts ==
  NoFile # Damaged /\ NoFile \notin Configs /\ Damaged \notin Configs
  BY NotContents DEF NotContents

\* Configurations of different contracts export under different prefixes.
LEMMA ContractsApart ==
  ASSUME NEW config, NEW other, Contract(config) # Contract(other)
  PROVE  NameOf[config] # NameOf[other]
  BY DEF Contract

\* Two prefixes with a first graph are never accepted.
LEMMA BlockedIsInvalid == ASSUME NEW config, Blocked PROVE ~SourcesValid(config)
  BY StagesAreGraphs DEF Blocked, SourcesValid, SourceNames, Begun

\* An export that is there whole is in its files.
LEMMA WholeFacts ==
  ASSUME NEW export \in Configs, Whole(export)
  PROVE  /\ NameOf[export] \in Names /\ Begun(NameOf[export])
         /\ \A graph \in Graphs : /\ bc[NameOf[export]][graph] = export
                                 /\ Intact(bc[NameOf[export]][graph])
         /\ bc[NameOf[export]][First] = export
  BY NamesGiven, StagesAreGraphs, NotContentsFacts DEF NamesGiven, Whole, Begun, Intact

\* The only complete export is accepted, by runs of its contract.
LEMMA CompleteIsValid ==
  ASSUME FirstComesFirst, ~Blocked, NEW export \in Configs, Complete(export),
         NEW config, Contract(config) = Contract(export)
  PROVE  SourcesValid(config)
  <1> DEFINE n == NameOf[export]
  <1>1. /\ n \in Names /\ Begun(n)
        /\ \A graph \in Graphs : bc[n][graph] = export /\ Intact(bc[n][graph])
    BY WholeFacts DEF Complete
  <1> HIDE DEF n
  <1>2. ASSUME NEW graph \in Graphs
        PROVE  /\ SourceNames(graph) = {n} /\ Intact(bc[n][graph])
               /\ Contract(bc[n][graph]) = Contract(config)
    <2>1. \A m \in Names : bc[m][graph] # NoFile => m = n
      BY <1>1 DEF FirstComesFirst, Blocked
    <2> QED BY <1>1, <2>1 DEF SourceNames, Intact
  <1>3. embedding # NoFile
    BY NotContentsFacts DEF Complete, TableOf
  <1> QED BY <1>1, <1>2, <1>3 DEF SourcesValid

\* What is accepted is a complete export, of the contract that was asked for.
LEMMA AcceptedIsComplete ==
  ASSUME FamilyInv, NEW config \in Configs, SourcesValid(config)
  PROVE  /\ ~Blocked
         /\ \E export \in Configs :
              /\ Complete(export) /\ Contract(export) = Contract(config)
              /\ \A graph \in Graphs : SourceOf(graph) = export
  <1> USE DEF FamilyInv
  <1>1. ~Blocked
    BY BlockedIsInvalid
  <1>2. PICK n \in Names :
          /\ SourceNames(Final) = {n} /\ Intact(bc[n][Final])
          /\ Contract(bc[n][Final]) = Contract(config)
    BY StagesAreGraphs DEF SourcesValid
  <1>3. PICK export \in Configs : NameOf[export] = n /\ Complete(export)
    BY <1>1, <1>2 DEF FinalIsComplete
  <1>4. \A graph \in Graphs : bc[n][graph] = export /\ Intact(bc[n][graph])
    BY <1>3, WholeFacts DEF Complete
  <1>5. Contract(export) = Contract(config)
    BY <1>2, <1>4, StagesAreGraphs
  <1>6. ASSUME NEW graph \in Graphs PROVE SourceOf(graph) = export
    <2>1. PICK m \in Names : SourceNames(graph) = {m}
      BY DEF SourcesValid
    <2>2. n \in SourceNames(graph)
      BY <1>4 DEF SourceNames, Intact
    <2>3. SourceNames(graph) = {n}
      BY <2>1, <2>2
    <2>4. (CHOOSE k \in Names : SourceNames(graph) = {k}) = n
      BY <2>3
    <2> QED BY <1>4, <2>4 DEF SourceOf
  <1> QED BY <1>1, <1>3, <1>5, <1>6

\* The invariant gives the property.
LEMMA InvFamily == FamilyInv => FamilyOfOneExport
  <1> SUFFICES ASSUME FamilyInv, NEW config \in Configs, SourcesValid(config)
               PROVE  \E export \in Configs :
                        /\ \A graph \in Graphs : SourceOf(graph) = export
                        /\ embedding = export \/ Superseded(export)
    BY DEF FamilyOfOneExport
  <1>1. PICK export \in Configs :
          Complete(export) /\ \A graph \in Graphs : SourceOf(graph) = export
    BY AcceptedIsComplete
  <1>2. embedding = export \/ Superseded(export)
    BY <1>1 DEF Complete, TableOf, Superseded
  <1> QED BY <1>1, <1>2

-----------------------------------------------------------------------------
LEMMA BuildInitInv == Init => FamilyInv
  <1> SUFFICES ASSUME Init PROVE FamilyInv
    OBVIOUS
  <1>1. /\ bc = [n \in Names |-> [graph \in Graphs |-> NoFile]]
        /\ embedding = NoFile /\ pc = "idle"
    BY DEF Init
  <1>2. FilesTyped
    BY <1>1 DEF FilesTyped
  <1>3. \A n \in Names, graph \in Graphs : bc[n][graph] = NoFile
    BY <1>1
  <1>4. ExportSound /\ FreshIsEmpty
    BY <1>1, <1>3 DEF ExportSound, Exporting, FreshIsEmpty, Stopped
  <1>5. FirstComesFirst /\ FinalIsComplete
    BY <1>3, StagesAreGraphs DEF FirstComesFirst, FinalIsComplete, Intact
  <1> QED BY <1>2, <1>4, <1>5 DEF FamilyInv

\* Steps that touch no source graph and are no part of an export.
LEMMA QuietSteps ==
  ASSUME FamilyInv, UNCHANGED <<bc, embedding, inUse>>, ~Exporting',
         pc' \in Stopped \/ run'.config \in Configs,
         pc' = "check" => pos' = 1 /\ (~run'.resume => ~inUse)
  PROVE  FamilyInv'
  <1>1. FilesTyped'
    BY DEF FamilyInv, FilesTyped
  <1>2. ExportSound'
    BY DEF ExportSound, Exporting, Stopped
  <1>3. FreshIsEmpty'
    BY DEF FamilyInv, FreshIsEmpty
  <1>4. FirstComesFirst'
    BY DEF FamilyInv, FirstComesFirst, Begun
  <1>5. FinalIsComplete'
    BY DEF FamilyInv, FinalIsComplete, Complete, Whole, TableOf, Blocked, Begun
  <1> QED BY <1>1, <1>2, <1>3, <1>4, <1>5 DEF FamilyInv

\* An export begins only where nothing complete is accepted.
LEMMA CheckStep ==
  ASSUME FamilyInv, Check
  PROVE  FamilyInv'
  <1>1. /\ pc = "check" /\ inUse' = TRUE /\ UNCHANGED <<bc, embedding, run, pos>>
        /\ pc' \in {"open", "done", "build"}
        /\ pc' = "open" => ~TakesSources
    BY DEF Check, files
  <1>2. pos = 1 /\ run.config \in Configs
    BY <1>1 DEF FamilyInv, ExportSound, Stopped
  <1>3. ASSUME pc' = "open"
        PROVE  ~SourcesValid(run.config)
    <2>1. CASE run.resume
      BY <1>1, <1>3, <2>1 DEF TakesSources
    <2>2. CASE ~run.resume
      <3>1. \A n \in Names, graph \in Graphs : bc[n][graph] = NoFile
        BY <1>1, <2>2 DEF FamilyInv, FreshIsEmpty
      <3>2. SUFFICES ASSUME SourcesValid(run.config) PROVE FALSE
        OBVIOUS
      <3>3. PICK n \in Names : Intact(bc[n][First])
        BY <3>2, StagesAreGraphs DEF SourcesValid
      <3> QED BY <3>1, <3>3, StagesAreGraphs DEF Intact
    <2> QED BY <2>1, <2>2
  <1>4. ASSUME pc' = "open", ~Blocked, NEW n \in Names, Intact(bc[n][Final])
        PROVE  \E export \in Configs :
                 /\ NameOf[export] = n /\ Complete(export)
                 /\ Contract(run.config) # Contract(export)
    <2>1. PICK export \in Configs : NameOf[export] = n /\ Complete(export)
      BY <1>4 DEF FamilyInv, FinalIsComplete
    <2>2. Contract(run.config) # Contract(export)
      BY <1>3, <1>4, <2>1, CompleteIsValid DEF FamilyInv
    <2> QED BY <2>1, <2>2
  <1>5. FilesTyped'
    BY <1>1 DEF FamilyInv, FilesTyped
  <1>6. ExportSound'
    BY <1>1, <1>2 DEF ExportSound, Exporting, Stopped
  <1>7. FreshIsEmpty'
    BY <1>1 DEF FreshIsEmpty
  <1>8. FirstComesFirst'
    BY <1>1 DEF FamilyInv, FirstComesFirst, Begun
  <1>9. FinalIsComplete'
    BY <1>1, <1>4 DEF FamilyInv, FinalIsComplete, Complete, Whole, TableOf, Blocked, Begun, Exporting
  <1> QED BY <1>5, <1>6, <1>7, <1>8, <1>9 DEF FamilyInv

LEMMA EmbeddingStep ==
  ASSUME FamilyInv, SaveEmbedding
  PROVE  FamilyInv'
  <1>1. /\ pc = "open" /\ embedding' = run.config /\ pc' = "export"
        /\ UNCHANGED <<bc, inUse, run, pos>>
    BY DEF SaveEmbedding
  <1>2. run.config \in Configs /\ pos = 1 /\ inUse
    BY <1>1 DEF FamilyInv, ExportSound, Stopped, Exporting
  <1>3. FilesTyped'
    BY <1>1, <1>2 DEF FamilyInv, FilesTyped
  <1>4. pos \in 1 .. Len(StageOrder)
    BY <1>2, StagesAreGraphs
  <1>5. ExportSound'
    BY <1>1, <1>2, <1>4 DEF ExportSound, Exporting, Stopped
  <1>6. FreshIsEmpty'
    BY <1>1, <1>2 DEF FreshIsEmpty
  <1>7. FirstComesFirst'
    BY <1>1 DEF FamilyInv, FirstComesFirst, Begun
  <1>8. FinalIsComplete'
    <2>1. ASSUME ~Blocked, NEW n \in Names, Intact(bc[n][Final])
          PROVE  \E export \in Configs :
                   /\ NameOf[export] = n /\ Complete(export)'
                   /\ Contract(run.config) # Contract(export)
      <3>1. PICK export \in Configs :
              /\ NameOf[export] = n /\ Complete(export)
              /\ Contract(run.config) # Contract(export)
        BY <1>1, <2>1 DEF FamilyInv, FinalIsComplete, Exporting
      <3>2. Complete(export)'
        BY <1>1, <1>2, <3>1 DEF Complete, Whole, TableOf
      <3> QED BY <3>1, <3>2
    <2> QED BY <1>1, <2>1 DEF FinalIsComplete, Blocked, Begun
  <1> QED BY <1>3, <1>5, <1>6, <1>7, <1>8 DEF FamilyInv

-----------------------------------------------------------------------------
\* What saving a file, whole or damaged, does to the prefixes.
LEMMA SavedFile ==
  ASSUME FamilyInv, pc = "export", NEW file \in Configs \cup {Damaged}, bc' = Saved(file)
  PROVE  /\ NameOf[run.config] \in Names
         /\ bc' \in [Names -> [Graphs -> Configs \cup {NoFile, Damaged}]]
         /\ bc'[NameOf[run.config]][StageOrder[pos]] = file
         /\ \A n \in Names, graph \in Graphs :
              n # NameOf[run.config] \/ graph # StageOrder[pos] => bc'[n][graph] = bc[n][graph]
         /\ FirstComesFirst'
         /\ bc'[NameOf[run.config]][First] # NoFile
         /\ \A n \in Names : Begun(n) => Begun(n)'
         /\ Blocked => Blocked'
  <1> DEFINE name == NameOf[run.config]
             graph == StageOrder[pos]
  <1>1. run.config \in Configs /\ pos \in 1 .. Len(StageOrder)
    BY DEF FamilyInv, ExportSound, Stopped
  <1>2. name \in Names /\ graph \in Graphs
    BY <1>1, NamesGiven, StagesAreGraphs DEF NamesGiven
  <1>3. bc' = [bc EXCEPT ![name][graph] = file]
    BY DEF Saved
  <1>4. bc \in [Names -> [Graphs -> Configs \cup {NoFile, Damaged}]]
    BY DEF FamilyInv, FilesTyped
  <1> HIDE DEF name, graph
  <1>5. /\ bc' \in [Names -> [Graphs -> Configs \cup {NoFile, Damaged}]]
        /\ bc'[name][graph] = file
        /\ \A n \in Names, g \in Graphs : n # name \/ g # graph => bc'[n][g] = bc[n][g]
    BY <1>2, <1>3, <1>4
  <1>6. file # NoFile
    BY NotContentsFacts
  <1>7. \A n \in Names : Begun(n) => Begun(n)'
    BY <1>5, <1>6, StagesAreGraphs DEF Begun
  <1>8. bc'[name][First] # NoFile
    <2>1. CASE pos = 1
      BY <1>5, <1>6, <2>1 DEF Begun, First, graph
    <2>2. CASE pos # 1
      <3>1. 1 \in 1 .. pos - 1
        BY <1>1, <2>2, StagesAreGraphs
      <3>2. bc[name][First] = run.config
        BY <3>1 DEF FamilyInv, ExportSound, First, name
      <3>3. Begun(name)
        BY <1>1, <3>2, NotContentsFacts DEF Begun
      <3> QED BY <1>2, <1>7, <3>3 DEF Begun
    <2> QED BY <2>1, <2>2
  <1>9. ASSUME NEW n \in Names, NEW g \in Graphs, bc'[n][g] # NoFile
        PROVE  bc'[n][First] # NoFile
    <2>1. CASE n = name
      BY <1>8, <2>1
    <2>2. CASE n # name
      <3>1. bc[n][g] # NoFile
        BY <1>5, <1>9, <2>2
      <3> QED BY <1>7, <3>1 DEF FamilyInv, FirstComesFirst, Begun
    <2> QED BY <2>1, <2>2
  <1>10. Blocked => Blocked'
    BY <1>7 DEF Blocked
  <1>11. FirstComesFirst'
    BY <1>9 DEF FirstComesFirst, Begun, First
  <1> QED BY <1>2, <1>5, <1>7, <1>8, <1>10, <1>11 DEF name, graph

\* An export under way is of another contract than the one that is there, and
\* its first file blocks the directory.
LEMMA SavedBlocks ==
  ASSUME FamilyInv, pc = "export", NEW file \in Configs \cup {Damaged}, bc' = Saved(file),
         NEW n \in Names, Intact(bc[n][Final])
  PROVE  Blocked'
  <1>1. /\ NameOf[run.config] \in Names /\ bc'[NameOf[run.config]][First] # NoFile
        /\ \A m \in Names : Begun(m) => Begun(m)'
        /\ Blocked => Blocked'
    BY SavedFile DEF Begun
  <1> SUFFICES ASSUME ~Blocked PROVE Blocked'
    BY <1>1
  <1>2. PICK export \in Configs : NameOf[export] = n /\ Contract(run.config) # Contract(export)
    BY DEF FamilyInv, FinalIsComplete, Exporting
  <1>3. NameOf[run.config] # n
    BY <1>2, ContractsApart
  <1>4. Begun(n)'
    BY <1>1, StagesAreGraphs DEF FamilyInv, FirstComesFirst, Intact
  <1> QED BY <1>1, <1>3, <1>4 DEF Blocked, Begun

\* One more graph is saved; the last one completes the prefix.
LEMMA ExportStep ==
  ASSUME FamilyInv, Export
  PROVE  FamilyInv'
  <1> DEFINE name == NameOf[run.config]
  <1>1. /\ pc = "export" /\ bc' = Saved(run.config)
        /\ \/ pos = Len(StageOrder) /\ pc' = "recheck"
           \/ pos # Len(StageOrder) /\ pc' = "export" /\ pos' = pos + 1
        /\ UNCHANGED <<embedding, inUse, run>>
    BY DEF Export
  <1>2. /\ run.config \in Configs /\ pos \in 1 .. Len(StageOrder) /\ embedding = run.config
        /\ inUse /\ \A i \in 1 .. pos - 1 : bc[name][StageOrder[i]] = run.config
    BY <1>1 DEF FamilyInv, ExportSound, Stopped, Exporting
  <1>3. /\ name \in Names
        /\ bc' \in [Names -> [Graphs -> Configs \cup {NoFile, Damaged}]]
        /\ bc'[name][StageOrder[pos]] = run.config
        /\ \A n \in Names, graph \in Graphs :
             n # name \/ graph # StageOrder[pos] => bc'[n][graph] = bc[n][graph]
        /\ FirstComesFirst'
        /\ Blocked => Blocked'
    BY <1>1, <1>2, SavedFile
  <1> HIDE DEF name
  <1>4. \A i \in 1 .. pos : bc'[name][StageOrder[i]] = run.config
    <2> SUFFICES ASSUME NEW i \in 1 .. pos, i # pos
                 PROVE  bc'[name][StageOrder[i]] = run.config
      BY <1>3
    <2>1. i \in 1 .. pos - 1 /\ i \in 1 .. Len(StageOrder)
      BY <1>2, StagesAreGraphs
    <2>2. StageOrder[i] \in Graphs /\ StageOrder[i] # StageOrder[pos]
      BY <1>2, <2>1, StagesAreGraphs
    <2> QED BY <1>2, <1>3, <2>1, <2>2
  <1>5. FilesTyped'
    BY <1>1, <1>3 DEF FamilyInv, FilesTyped
  <1>6. ExportSound'
    <2>1. CASE pc' = "recheck"
      BY <1>1, <1>2, <2>1 DEF ExportSound, Exporting
    <2>2. CASE pc' = "export"
      <3>1. pos' = pos + 1 /\ pos' \in 1 .. Len(StageOrder) /\ pos' - 1 = pos
        <4>1. pos' = pos + 1 /\ pos # Len(StageOrder)
          BY <1>1, <2>2
        <4>2. pos \in 1 .. Len(StageOrder) /\ Len(StageOrder) \in Nat
          BY <1>2, StagesAreGraphs
        <4> QED BY <4>1, <4>2
      <3>2. \A i \in 1 .. pos' - 1 : bc'[NameOf[run'.config]][StageOrder[i]] = run'.config
        BY <1>1, <1>4, <3>1 DEF name
      <3> QED BY <1>1, <1>2, <2>2, <3>1, <3>2 DEF ExportSound, Exporting
    <2> QED BY <1>1, <2>1, <2>2
  <1>7. FreshIsEmpty'
    BY <1>1, <1>2 DEF FreshIsEmpty
  <1>8. FinalIsComplete'
    <2> SUFFICES ASSUME ~Blocked', NEW n \in Names, Intact(bc'[n][Final])
                 PROVE  \E export \in Configs :
                          NameOf[export] = n /\ Complete(export)' /\ ~Exporting'
      BY DEF FinalIsComplete
    <2>1. ~Intact(bc[n][Final])
      BY <1>1, <1>2, SavedBlocks
    <2>2. n = name /\ Final = StageOrder[pos]
      BY <1>3, <2>1, StagesAreGraphs
    <2>3. pos = Len(StageOrder)
      BY <1>2, <2>2, FinalIsLast
    <2>4. ~Exporting'
      BY <1>1, <2>3 DEF Exporting
    <2>5. \A graph \in Graphs : bc'[n][graph] = run.config
      BY <1>4, <2>2, <2>3, StagesAreGraphs
    <2>6. PICK export \in Configs : export = run.config
      BY <1>2
    <2>7. Whole(export)' /\ TableOf(export)' /\ NameOf[export] = n
      BY <1>1, <1>2, <2>2, <2>5, <2>6 DEF Whole, TableOf, name
    <2> QED BY <2>4, <2>7 DEF Complete
  <1> QED BY <1>3, <1>5, <1>6, <1>7, <1>8 DEF FamilyInv

\* A kill may damage the graph that is being saved.
LEMMA InterruptStep ==
  ASSUME FamilyInv, Interrupt
  PROVE  FamilyInv'
  <1>1. pc' = "killed" /\ UNCHANGED <<embedding, inUse, run, pos>>
    BY DEF Interrupt
  <1>2. CASE bc' = bc
    BY <1>1, <1>2, QuietSteps DEF Exporting, Stopped
  <1>3. CASE pc = "export" /\ bc' = Saved(Damaged)
    <2>1. /\ bc' \in [Names -> [Graphs -> Configs \cup {NoFile, Damaged}]]
          /\ bc'[NameOf[run.config]][StageOrder[pos]] = Damaged
          /\ \A n \in Names, graph \in Graphs :
               n # NameOf[run.config] \/ graph # StageOrder[pos] => bc'[n][graph] = bc[n][graph]
          /\ FirstComesFirst'
          /\ Blocked => Blocked'
      BY <1>3, SavedFile
    <2>2. FilesTyped'
      BY <1>1, <2>1 DEF FamilyInv, FilesTyped
    <2>3. ExportSound'
      BY <1>1 DEF ExportSound, Exporting, Stopped
    <2>4. inUse
      BY <1>3 DEF FamilyInv, ExportSound, Exporting
    <2>5. FreshIsEmpty'
      BY <1>1, <2>4 DEF FreshIsEmpty
    <2>6. \A n \in Names : Intact(bc'[n][Final]) => Intact(bc[n][Final])
      BY <2>1, StagesAreGraphs DEF Intact
    <2>7. ~Blocked' => \A n \in Names : ~Intact(bc'[n][Final])
      BY <1>3, <2>6, SavedBlocks
    <2>8. FinalIsComplete'
      BY <2>7 DEF FinalIsComplete
    <2> QED BY <2>1, <2>2, <2>3, <2>5, <2>8 DEF FamilyInv
  <1> QED BY <1>2, <1>3 DEF Interrupt

-----------------------------------------------------------------------------
LEMMA BuildNextInv == ASSUME FamilyInv, [Next]_vars PROVE FamilyInv'
  <1>1. ASSUME NEW config \in Configs, NEW target \in {"bc", "hbm"}, NEW resume \in BOOLEAN,
               Start(config, target, resume)
        PROVE  FamilyInv'
    <2>1. /\ UNCHANGED <<bc, embedding, inUse>> /\ pc' = "check" /\ pos' = 1
          /\ run'.config \in Configs
      BY <1>1 DEF Start, files
    <2>2. ~run'.resume => ~inUse
      BY <1>1, Zenon DEF Start, Admitted
    <2> QED BY <2>1, <2>2, QuietSteps DEF Exporting
  <1>2. CASE Recheck \/ ConvertStage \/ CompileStage \/ LinkStage \/ LinkMismatch \/ LosePower
    <2>1. UNCHANGED <<bc, embedding, inUse, run>> /\ pc \notin Stopped
      BY <1>2 DEF Recheck, ConvertStage, CompileStage, LinkStage, LinkMismatch, LosePower,
                  Advance, files, Stopped
    <2>2. pc' \in {"failed", "done", "build", "killed"}
      BY <1>2 DEF Recheck, ConvertStage, CompileStage, LinkStage, LinkMismatch, LosePower, Advance
    <2>3. run'.config \in Configs
      BY <2>1 DEF FamilyInv, ExportSound
    <2> QED BY <2>1, <2>2, <2>3, QuietSteps DEF Exporting
  <1>3. CASE UNCHANGED vars
    BY <1>3 DEF vars, files, FamilyInv, FilesTyped, ExportSound, Exporting, FreshIsEmpty,
                FirstComesFirst, FinalIsComplete, Complete, Whole, TableOf, Blocked, Begun
  <1> QED BY <1>1, <1>2, <1>3, CheckStep, EmbeddingStep, ExportStep, InterruptStep
          DEF Next, Progress

(* Whatever exports were killed, and whatever file names and configurations  *)
(* they had: the source graphs that build_language.sh accepts, for any chunk *)
(* and cache, are all of one export, and the embedding table beside them is  *)
(* that export's unless a run of another chunk or cache has been there.      *)
THEOREM AcceptedFamilyIsOneExport == Spec => []FamilyOfOneExport
  <1> QED BY BuildInitInv, BuildNextInv, InvFamily, PTL DEF Spec

-----------------------------------------------------------------------------
(* The plan.  Its definitions by recursion denote the sequences that one     *)
(* expects: a step by step construction exists, by the least number for      *)
(* which there would be none.                                                *)

\* A set of numbers has a least one.
LEMMA LeastNatural ==
  ASSUME NEW T \in SUBSET Nat, T # {}
  PROVE  \E x \in T : \A y \in T : x <= y
  <1> DEFINE R == OpToRel(<, Nat)
  <1>1. \A x, y \in Nat : <<y, x>> \in R <=> y < x
    BY DEF OpToRel
  <1>2. IsWellFoundedOn(R, Nat)
    BY NatLessThanWellFounded
  <1> HIDE DEF R
  <1>3. PICK x \in T : \A y \in T : ~ (<<y, x>> \in R)
    BY <1>2, WFMin
  <1>4. \A y \in T : ~(y < x)
    BY <1>1, <1>3
  <1>5. \A y \in T : x <= y
    BY <1>4, SMT
  <1> QED BY <1>5

\* Induction, over a set of numbers.
LEMMA Induction ==
  ASSUME NEW N \in Nat, NEW P, 0 \in P, \A i \in 1 .. N : i - 1 \in P => i \in P
  PROVE  \A i \in 0 .. N : i \in P
  <1> DEFINE T == {n \in 0 .. N : n \notin P}
  <1>1. SUFFICES ASSUME T # {} PROVE FALSE
    OBVIOUS
  <1>2. T \in SUBSET Nat
    OBVIOUS
  <1>3. PICK t \in T : \A y \in T : t <= y
    <2> HIDE DEF T
    <2> QED BY <1>1, <1>2, LeastNatural
  <1>4. t \in 0 .. N /\ t \notin P
    BY <1>3
  <1>5. t # 0
    BY <1>4
  <1>6. t \in 1 .. N /\ t - 1 \in 0 .. N /\ ~(t <= t - 1)
    BY <1>4, <1>5
  <1>7. t - 1 \in P
    BY <1>3, <1>6
  <1> QED BY <1>4, <1>6, <1>7

\* A value can be stepped on a given number of times.
LEMMA Iterates ==
  ASSUME NEW S, NEW base \in S, NEW N \in Nat, NEW step \in [1 .. N -> [S -> S]]
  PROVE  \E f \in [0 .. N -> S] :
           /\ f[0] = base
           /\ \A i \in 1 .. N : f[i] = step[i][f[i - 1]]
  <1> DEFINE Ok(n, f) == f[0] = base /\ \A i \in 1 .. n : f[i] = step[i][f[i - 1]]
             P == {n \in 0 .. N : \E f \in [0 .. n -> S] : Ok(n, f)}
  <1>1. 0 \in P
    <2> DEFINE f == [i \in 0 .. 0 |-> base]
    <2>1. f \in [0 .. 0 -> S] /\ Ok(0, f) /\ 0 \in 0 .. N
      OBVIOUS
    <2> HIDE DEF Ok, f
    <2> QED BY <2>1
  <1>2. ASSUME NEW t \in 1 .. N, t - 1 \in P PROVE t \in P
    <2>1. PICK f \in [0 .. t - 1 -> S] : Ok(t - 1, f)
      BY <1>2
    <2> DEFINE g == [i \in 0 .. t |-> IF i = t THEN step[t][f[t - 1]] ELSE f[i]]
    <2>2. f[t - 1] \in S /\ step[t] \in [S -> S]
      OBVIOUS
    <2>3. step[t][f[t - 1]] \in S
      BY <2>2
    <2>4. g \in [0 .. t -> S]
      BY <2>3
    <2>5. \A i \in 0 .. t - 1 : g[i] = f[i]
      OBVIOUS
    <2>6. g[t] = step[t][g[t - 1]]
      BY <2>5
    <2> HIDE DEF g
    <2>7. g[0] = base
      BY <2>1, <2>5
    <2>8. ASSUME NEW i \in 1 .. t PROVE g[i] = step[i][g[i - 1]]
      <3>1. CASE i = t
        BY <2>6, <3>1
      <3>2. CASE i # t
        <4>1. i \in 1 .. t - 1 /\ i \in 0 .. t - 1 /\ i - 1 \in 0 .. t - 1
          BY <3>2
        <4>2. f[i] = step[i][f[i - 1]]
          BY <2>1, <4>1
        <4> QED BY <2>5, <4>1, <4>2
      <3> QED BY <3>1, <3>2
    <2>9. Ok(t, g)
      BY <2>7, <2>8
    <2>10. t \in 0 .. N
      OBVIOUS
    <2> HIDE DEF Ok
    <2> QED BY <2>4, <2>9, <2>10
  <1>3. N \in P
    <2> HIDE DEF P
    <2>1. \A i \in 0 .. N : i \in P
      BY <1>1, <1>2, Induction
    <2> QED BY <2>1
  <1> QED BY <1>3

\* The graphs of a set, as they are collected in their order.
Collects(f, set) ==
  f = [i \in 0 .. Len(StageOrder) |->
         IF i = 0 THEN <<>>
         ELSE IF StageOrder[i] \in set THEN Append(f[i - 1], StageOrder[i])
         ELSE f[i - 1]]

LEMMA Collectable == ASSUME NEW set PROVE \E f : Collects(f, set)
  <1> DEFINE N == Len(StageOrder)
             S == Seq(Graphs)
             step == [i \in 1 .. N |->
                        [s \in S |-> IF StageOrder[i] \in set THEN Append(s, StageOrder[i]) ELSE s]]
  <1>1. N \in Nat /\ \A i \in 1 .. N : StageOrder[i] \in Graphs
    BY StagesAreGraphs
  <1>2. \A i \in 1 .. N : step[i] \in [S -> S]
    BY <1>1
  <1>3. \A i \in 1 .. N, s \in S :
          step[i][s] = IF StageOrder[i] \in set THEN Append(s, StageOrder[i]) ELSE s
    OBVIOUS
  <1>4. <<>> \in S
    OBVIOUS
  <1>5. step = [i \in 1 .. N |-> step[i]]
    OBVIOUS
  <1> HIDE DEF step, S
  <1>6. step \in [1 .. N -> [S -> S]]
    BY <1>2, <1>5
  <1> HIDE DEF N
  <1>7. PICK f \in [0 .. N -> S] : f[0] = <<>> /\ \A i \in 1 .. N : f[i] = step[i][f[i - 1]]
    BY <1>1, <1>4, <1>6, Iterates
  <1>8. ASSUME NEW i \in 0 .. N
        PROVE  f[i] = IF i = 0 THEN <<>>
                      ELSE IF StageOrder[i] \in set THEN Append(f[i - 1], StageOrder[i])
                      ELSE f[i - 1]
    <2>1. CASE i = 0
      BY <1>7, <2>1
    <2>2. CASE i # 0
      <3>1. i \in 1 .. N /\ i - 1 \in 0 .. N
        BY <1>1, <2>2
      <3>2. f[i - 1] \in S /\ f[i] = step[i][f[i - 1]]
        BY <1>7, <3>1
      <3> QED BY <1>3, <2>2, <3>1, <3>2
    <2> QED BY <2>1, <2>2
  <1>9. f = [i \in 0 .. N |-> f[i]]
    BY <1>7
  <1>10. Collects(f, set)
    BY <1>8, <1>9 DEF Collects, N
  <1> QED BY <1>10

\* What InOrder returns, as the last of the collections of a function.
LEMMA InOrderCollects ==
  ASSUME NEW set
  PROVE  \E f : /\ InOrder(set) = f[Len(StageOrder)]
                /\ f[0] = <<>>
                /\ \A i \in 1 .. Len(StageOrder) :
                     f[i] = IF StageOrder[i] \in set THEN Append(f[i - 1], StageOrder[i])
                            ELSE f[i - 1]
  <1> DEFINE g == CHOOSE f : Collects(f, set)
  <1>1. InOrder(set) = g[Len(StageOrder)]
    BY DEF InOrder, Collects
  <1>2. Collects(g, set)
    BY Collectable, Zenon
  <1> HIDE DEF g
  <1>3. Len(StageOrder) \in Nat
    BY StagesAreGraphs
  <1>4. /\ g[0] = <<>>
        /\ \A i \in 1 .. Len(StageOrder) :
             g[i] = IF StageOrder[i] \in set THEN Append(g[i - 1], StageOrder[i]) ELSE g[i - 1]
    <2> DEFINE N == Len(StageOrder)
    <2>1. \A i \in 0 .. N :
            g[i] = IF i = 0 THEN <<>>
                   ELSE IF StageOrder[i] \in set THEN Append(g[i - 1], StageOrder[i])
                   ELSE g[i - 1]
      BY <1>2 DEF Collects
    <2>2. 0 \in 0 .. N /\ \A i \in 1 .. N : i \in 0 .. N /\ i # 0
      BY <1>3
    <2> HIDE DEF N
    <2>3. g[0] = <<>>
      BY <2>1, <2>2
    <2>4. \A i \in 1 .. N :
            g[i] = IF StageOrder[i] \in set THEN Append(g[i - 1], StageOrder[i]) ELSE g[i - 1]
      BY <2>1, <2>2
    <2> QED BY <2>3, <2>4 DEF N
  <1> QED BY <1>1, <1>4

\* The graphs of a set in their order: graphs of the set, none twice.
LEMMA InOrderFacts ==
  ASSUME NEW set \in SUBSET Graphs
  PROVE  /\ InOrder(set) \in Seq(set)
         /\ \A i, j \in 1 .. Len(InOrder(set)) : InOrder(set)[i] = InOrder(set)[j] => i = j
  <1> DEFINE N == Len(StageOrder)
  <1>1. PICK f : /\ InOrder(set) = f[N]
                 /\ f[0] = <<>>
                 /\ \A i \in 1 .. N :
                      f[i] = IF StageOrder[i] \in set THEN Append(f[i - 1], StageOrder[i])
                             ELSE f[i - 1]
    BY InOrderCollects
  <1>2. N \in Nat /\ \A i, j \in 1 .. N : StageOrder[i] = StageOrder[j] => i = j
    BY StagesAreGraphs
  <1> DEFINE Good(i, s) ==
               /\ s \in Seq(set)
               /\ \A a \in 1 .. Len(s) : \E b \in 1 .. i : s[a] = StageOrder[b]
               /\ \A a, b \in 1 .. Len(s) : s[a] = s[b] => a = b
             P == {i \in 0 .. N : Good(i, f[i])}
  <1> HIDE DEF N
  <1>3. 0 \in P
    <2>1. Good(0, <<>>) /\ 0 \in 0 .. N
      BY <1>2
    <2> HIDE DEF Good
    <2> QED BY <1>1, <2>1
  <1>4. ASSUME NEW i \in 1 .. N, i - 1 \in P PROVE i \in P
    <2> DEFINE s == f[i - 1]
               x == StageOrder[i]
    <2>1. s \in Seq(set) /\ Len(s) \in Nat /\ Good(i - 1, s)
      BY <1>4
    <2>2. i \in 0 .. N /\ \A b \in 1 .. i - 1 : b \in 1 .. N /\ b \in 1 .. i /\ b # i
      BY <1>2
    <2>3. CASE x \in set
      <3>1. f[i] = Append(s, x)
        BY <1>1, <2>3
      <3> HIDE DEF s, x
      <3> DEFINE r == Append(s, x)
      <3>2. /\ r \in Seq(set) /\ Len(r) = Len(s) + 1 /\ r[Len(s) + 1] = x
            /\ \A a \in 1 .. Len(s) : r[a] = s[a]
        BY <2>1, <2>3
      <3>3. \A a \in 1 .. Len(r) : a \in 1 .. Len(s) \/ a = Len(s) + 1
        BY <2>1, <3>2
      <3>4. \A a \in 1 .. Len(s) : s[a] # x
        BY <1>2, <2>1, <2>2 DEF x
      <3>5. i \in 1 .. i
        BY <1>2
      <3> HIDE DEF r
      <3>6. \A a \in 1 .. Len(r) : \E b \in 1 .. i : r[a] = StageOrder[b]
        BY <2>1, <2>2, <3>2, <3>3, <3>5 DEF x
      <3>7. \A a, b \in 1 .. Len(r) : r[a] = r[b] => a = b
        BY <2>1, <3>2, <3>3, <3>4
      <3>8. Good(i, r)
        BY <3>2, <3>6, <3>7
      <3> HIDE DEF Good
      <3> QED BY <2>2, <3>1, <3>8 DEF r
    <2>4. CASE x \notin set
      <3>1. f[i] = s
        BY <1>1, <2>4
      <3> HIDE DEF s, x
      <3>2. Good(i, s)
        BY <2>1, <2>2
      <3> HIDE DEF Good
      <3> QED BY <2>2, <3>1, <3>2
    <2> QED BY <2>3, <2>4
  <1>5. N \in 0 .. N
    BY <1>2
  <1> HIDE DEF P
  <1>6. N \in P
    BY <1>2, <1>3, <1>4, <1>5, Induction
  <1> QED BY <1>1, <1>6 DEF P

\* Every graph is compiled with the shared ones or for each core count.
LEMMA GraphsDivide ==
  Len(InOrder(Graphs \ ArGraphs)) + Len(InOrder(Graphs \cap ArGraphs)) = Len(StageOrder)
  <1> DEFINE N == Len(StageOrder)
             shared == Graphs \ ArGraphs
             ar == Graphs \cap ArGraphs
  <1>1. PICK f : /\ InOrder(shared) = f[N]
                 /\ f[0] = <<>>
                 /\ \A i \in 1 .. N :
                      f[i] = IF StageOrder[i] \in shared THEN Append(f[i - 1], StageOrder[i])
                             ELSE f[i - 1]
    BY InOrderCollects
  <1>2. PICK g : /\ InOrder(ar) = g[N]
                 /\ g[0] = <<>>
                 /\ \A i \in 1 .. N :
                      g[i] = IF StageOrder[i] \in ar THEN Append(g[i - 1], StageOrder[i])
                             ELSE g[i - 1]
    BY InOrderCollects
  <1>3. /\ N \in Nat
        /\ \A i \in 1 .. N : StageOrder[i] \in Graphs /\ (StageOrder[i] \in shared <=> StageOrder[i] \notin ar)
    BY StagesAreGraphs
  <1> DEFINE Good(i, s, t) ==
               s \in Seq(Graphs) /\ t \in Seq(Graphs) /\ Len(s) + Len(t) = i
             P == {i \in 0 .. N : Good(i, f[i], g[i])}
  <1> HIDE DEF N, shared, ar
  <1>4. 0 \in P
    <2>1. Good(0, <<>>, <<>>) /\ 0 \in 0 .. N
      BY <1>3
    <2> HIDE DEF Good
    <2> QED BY <1>1, <1>2, <2>1
  <1>5. ASSUME NEW i \in 1 .. N, i - 1 \in P PROVE i \in P
    <2> DEFINE s == f[i - 1]
               t == g[i - 1]
               x == StageOrder[i]
    <2>3. Good(i - 1, s, t)
      <3> HIDE DEF Good
      <3> QED BY <1>5
    <2>5. x \in Graphs /\ i \in 0 .. N
      BY <1>3
    <2>6. s \in Seq(Graphs) /\ t \in Seq(Graphs) /\ Len(s) + Len(t) = i - 1
      <3> HIDE DEF s, t, x, P
      <3> QED BY <2>3
    <2>1. /\ s \in Seq(Graphs) /\ t \in Seq(Graphs) /\ Len(s) + Len(t) = i - 1
          /\ x \in Graphs /\ i \in 0 .. N
      <3> HIDE DEF s, t, x, P, Good
      <3> QED BY <2>5, <2>6
    <2>2. \/ f[i] = Append(s, x) /\ g[i] = t
          \/ f[i] = s /\ g[i] = Append(t, x)
      BY <1>1, <1>2, <1>3
    <2> HIDE DEF s, t, x
    <2>4. Good(i, Append(s, x), t) /\ Good(i, s, Append(t, x))
      BY <2>1
    <2> HIDE DEF Good
    <2> QED BY <2>1, <2>2, <2>4
  <1>6. N \in 0 .. N
    BY <1>3
  <1> HIDE DEF P
  <1>7. N \in P
    BY <1>3, <1>4, <1>5, <1>6, Induction
  <1> QED BY <1>1, <1>2, <1>7 DEF P, N, shared, ar

-----------------------------------------------------------------------------
VariantSteps ==
  {Compile(graph, ArCores[b]) : graph \in Graphs \cap ArGraphs, b \in DOMAIN ArCores}
  \cup {Link(ArCores[b]) : b \in DOMAIN ArCores}
PlanSteps ==
  {Convert(graph) : graph \in Graphs} \cup {Compile(graph, 0) : graph \in Graphs \ ArGraphs}
  \cup VariantSteps

LEMMA CoresFacts ==
  /\ Len(ArCores) \in Nat /\ Len(ArCores) >= 1
  /\ DOMAIN ArCores = 1 .. Len(ArCores)
  /\ \A b \in 1 .. Len(ArCores) : ArCores[b] \in Nat
  BY CoresGiven DEF CoresGiven

LEMMA StagesFacts ==
  /\ SharedGraphs \in Seq(Graphs \ ArGraphs)
  /\ \A i, j \in 1 .. Len(SharedGraphs) : SharedGraphs[i] = SharedGraphs[j] => i = j
  /\ ArStages \in Seq(Graphs \cap ArGraphs)
  /\ \A i, j \in 1 .. Len(ArStages) : ArStages[i] = ArStages[j] => i = j
  /\ Len(SharedGraphs) + Len(ArStages) = Len(StageOrder)
  BY InOrderFacts, GraphsDivide DEF SharedGraphs, ArStages

LEMMA VariantPlanFacts ==
  ASSUME NEW b \in 1 .. Len(ArCores)
  PROVE  /\ VariantPlan(ArCores[b]) \in Seq(VariantSteps)
         /\ Len(VariantPlan(ArCores[b])) = Len(ArStages) + 1
         /\ VariantPlan(ArCores[b])[Len(ArStages) + 1] = Link(ArCores[b])
         /\ \A i \in 1 .. Len(ArStages) :
              VariantPlan(ArCores[b])[i] = Compile(ArStages[i], ArCores[b])
  <1> DEFINE k == Len(ArStages)
             core == ArCores[b]
             compiles == [i \in DOMAIN ArStages |-> Compile(ArStages[i], core)]
  <1>1. k \in Nat /\ DOMAIN ArStages = 1 .. k /\ \A i \in 1 .. k : ArStages[i] \in Graphs \cap ArGraphs
    BY StagesFacts
  <1>2. Link(core) \in VariantSteps /\ \A graph \in Graphs \cap ArGraphs : Compile(graph, core) \in VariantSteps
    BY CoresFacts DEF VariantSteps
  <1>3. VariantPlan(core) = Append(compiles, Link(core))
    BY DEF VariantPlan
  <1> HIDE DEF k, core
  <1>4. /\ compiles \in Seq(VariantSteps) /\ Len(compiles) = k
        /\ \A i \in 1 .. k : compiles[i] = Compile(ArStages[i], core)
    BY <1>1, <1>2
  <1> HIDE DEF compiles
  <1> QED BY <1>1, <1>2, <1>3, <1>4 DEF k, core

\* The plan of the variants is that of one after the other.
Joins(f) ==
  f = [i \in 0 .. Len(ArCores) |->
         IF i = 0 THEN <<>> ELSE f[i - 1] \o VariantPlan(ArCores[i])]

LEMMA Joinable == \E f : Joins(f)
  <1> DEFINE N == Len(ArCores)
             S == Seq(VariantSteps)
             step == [i \in 1 .. N |-> [s \in S |-> s \o VariantPlan(ArCores[i])]]
  <1>1. N \in Nat /\ \A i \in 1 .. N : VariantPlan(ArCores[i]) \in S
    BY CoresFacts, VariantPlanFacts
  <1>2. \A i \in 1 .. N : step[i] \in [S -> S]
    BY <1>1
  <1>3. \A i \in 1 .. N, s \in S : step[i][s] = s \o VariantPlan(ArCores[i])
    OBVIOUS
  <1>4. <<>> \in S
    OBVIOUS
  <1>5. step = [i \in 1 .. N |-> step[i]]
    OBVIOUS
  <1> HIDE DEF step, S
  <1>6. step \in [1 .. N -> [S -> S]]
    BY <1>2, <1>5
  <1> HIDE DEF N
  <1>7. PICK f \in [0 .. N -> S] : f[0] = <<>> /\ \A i \in 1 .. N : f[i] = step[i][f[i - 1]]
    <2> DEFINE base == <<>>
    <2>1. base \in S /\ N \in Nat
      BY <1>1, <1>4
    <2> HIDE DEF base
    <2>2. \E f \in [0 .. N -> S] : f[0] = base /\ \A i \in 1 .. N : f[i] = step[i][f[i - 1]]
      BY <1>6, <2>1, Iterates
    <2> QED BY <2>2 DEF base
  <1>8. ASSUME NEW i \in 0 .. N
        PROVE  f[i] = IF i = 0 THEN <<>> ELSE f[i - 1] \o VariantPlan(ArCores[i])
    <2>1. CASE i = 0
      BY <1>7, <2>1
    <2>2. CASE i # 0
      <3>1. i \in 1 .. N /\ i - 1 \in 0 .. N
        BY <1>1, <2>2
      <3>2. f[i - 1] \in S /\ f[i] = step[i][f[i - 1]]
        BY <1>7, <3>1
      <3> QED BY <1>3, <2>2, <3>1, <3>2
    <2> QED BY <2>1, <2>2
  <1>9. f = [i \in 0 .. N |-> f[i]]
    BY <1>7
  <1>10. Joins(f)
    BY <1>8, <1>9 DEF Joins, N
  <1> QED BY <1>10

LEMMA VariantsUnfold ==
  /\ VariantsPlan[0] = <<>>
  /\ \A i \in 1 .. Len(ArCores) : VariantsPlan[i] = VariantsPlan[i - 1] \o VariantPlan(ArCores[i])
  <1> DEFINE N == Len(ArCores)
  <1>1. VariantsPlan = CHOOSE f : Joins(f)
    BY DEF VariantsPlan, Joins
  <1>2. Joins(VariantsPlan)
    BY <1>1, Joinable, Zenon
  <1>3. \A i \in 0 .. N :
          VariantsPlan[i] = IF i = 0 THEN <<>> ELSE VariantsPlan[i - 1] \o VariantPlan(ArCores[i])
    BY <1>2 DEF Joins
  <1>4. 0 \in 0 .. N /\ \A i \in 1 .. N : i \in 0 .. N /\ i # 0
    BY CoresFacts
  <1> HIDE DEF N
  <1>5. VariantsPlan[0] = <<>>
    BY <1>3, <1>4
  <1>6. \A i \in 1 .. N : VariantsPlan[i] = VariantsPlan[i - 1] \o VariantPlan(ArCores[i])
    BY <1>3, <1>4
  <1> QED BY <1>5, <1>6 DEF N

\* For every core count the graphs are compiled and a model is linked.
LEMMA VariantsFacts ==
  LET V == VariantsPlan[Len(ArCores)]
  IN /\ V \in Seq(VariantSteps)
     /\ Len(V) = Len(ArCores) * (Len(ArStages) + 1)
     /\ \A b \in 1 .. Len(ArCores) : \E i \in 1 .. Len(V) : V[i] = Link(ArCores[b])
  <1> DEFINE N == Len(ArCores)
             k == Len(ArStages) + 1
             Good(i, s) ==
               /\ s \in Seq(VariantSteps) /\ Len(s) = i * k
               /\ \A b \in 1 .. i : \E a \in 1 .. Len(s) : s[a] = Link(ArCores[b])
             P == {i \in 0 .. N : Good(i, VariantsPlan[i])}
  <1>1. N \in Nat /\ k \in Nat /\ k >= 1
    BY CoresFacts, StagesFacts
  <1>2. \A i \in 1 .. N :
          /\ VariantPlan(ArCores[i]) \in Seq(VariantSteps)
          /\ Len(VariantPlan(ArCores[i])) = k
          /\ VariantPlan(ArCores[i])[k] = Link(ArCores[i])
    BY VariantPlanFacts
  <1> HIDE DEF N, k
  <1>3. 0 \in P
    <2>1. Good(0, <<>>) /\ 0 \in 0 .. N
      BY <1>1
    <2> HIDE DEF Good
    <2> QED BY VariantsUnfold, <2>1
  <1>4. ASSUME NEW i \in 1 .. N, i - 1 \in P PROVE i \in P
    <2> DEFINE s == VariantsPlan[i - 1]
               t == VariantPlan(ArCores[i])
               r == s \o t
    <2>1. Good(i - 1, s)
      <3> HIDE DEF Good
      <3> QED BY <1>4
    <2>2. VariantsPlan[i] = r
      BY VariantsUnfold DEF N
    <2>3. t \in Seq(VariantSteps) /\ Len(t) = k /\ t[k] = Link(ArCores[i])
      BY <1>2
    <2> HIDE DEF s, t
    <2>4. s \in Seq(VariantSteps) /\ Len(s) = (i - 1) * k /\ Len(s) \in Nat
      BY <2>1
    <2>5. \A n \in Nat : (i - 1) * n + n = i * n
      BY <1>1
    <2>6. Len(s) + k = i * k
      BY <1>1, <2>4, <2>5
    <2>7. /\ r \in Seq(VariantSteps) /\ Len(r) = Len(s) + k
          /\ \A a \in 1 .. Len(s) : r[a] = s[a]
          /\ \A a \in 1 .. k : r[Len(s) + a] = t[a]
      BY <1>1, <2>3, <2>4
    <2> HIDE DEF r
    <2>8. Len(s) + k \in 1 .. Len(r) /\ r[Len(s) + k] = Link(ArCores[i])
      BY <1>1, <2>3, <2>4, <2>7
    <2>9. \A b \in 1 .. i : b = i \/ b \in 1 .. i - 1
      BY <1>1
    <2>10. \A a \in 1 .. Len(s) : a \in 1 .. Len(r)
      BY <1>1, <2>4, <2>7
    <2>11. \A b \in 1 .. i : \E a \in 1 .. Len(r) : r[a] = Link(ArCores[b])
      BY <2>1, <2>7, <2>8, <2>9, <2>10
    <2>12. i \in 0 .. N
      BY <1>1
    <2>13. Good(i, r)
      BY <2>6, <2>7, <2>11
    <2> HIDE DEF Good
    <2> QED BY <2>2, <2>12, <2>13
  <1>5. N \in 0 .. N
    BY <1>1
  <1> HIDE DEF P
  <1>6. N \in P
    BY <1>1, <1>3, <1>4, <1>5, Induction
  <1> QED BY <1>6 DEF P, N, k

\* The plan: conversions, shared compilations, the variants.
LEMMA PlanParts ==
  LET n == Len(StageOrder)
      m == Len(SharedGraphs)
      V == VariantsPlan[Len(ArCores)]
  IN /\ n \in Nat /\ m \in Nat /\ Len(V) \in Nat
     /\ Plan \in Seq(PlanSteps)
     /\ Len(Plan) = n + m + Len(V)
     /\ \A i \in 1 .. n : Plan[i] = Convert(StageOrder[i])
     /\ \A i \in 1 .. m : Plan[n + i] = Compile(SharedGraphs[i], 0)
     /\ \A i \in 1 .. Len(V) : Plan[n + m + i] = V[i]
  <1> DEFINE n == Len(StageOrder)
             m == Len(SharedGraphs)
             V == VariantsPlan[Len(ArCores)]
             A == [i \in DOMAIN StageOrder |-> Convert(StageOrder[i])]
             B == [i \in DOMAIN SharedGraphs |-> Compile(SharedGraphs[i], 0)]
  <1>1. /\ n \in Nat /\ DOMAIN StageOrder = 1 .. n /\ \A i \in 1 .. n : StageOrder[i] \in Graphs
        /\ m \in Nat /\ DOMAIN SharedGraphs = 1 .. m
        /\ \A i \in 1 .. m : SharedGraphs[i] \in Graphs \ ArGraphs
    BY StagesAreGraphs, StagesFacts
  <1>2. Plan = (A \o B) \o V
    BY DEF Plan
  <1>3. V \in Seq(PlanSteps) /\ Len(V) \in Nat
    BY VariantsFacts DEF PlanSteps
  <1>4. /\ \A i \in 1 .. n : Convert(StageOrder[i]) \in PlanSteps
        /\ \A i \in 1 .. m : Compile(SharedGraphs[i], 0) \in PlanSteps
    BY <1>1 DEF PlanSteps
  <1> HIDE DEF n, m, V
  <1>5. /\ A \in Seq(PlanSteps) /\ Len(A) = n
        /\ \A i \in 1 .. n : A[i] = Convert(StageOrder[i])
    BY <1>1, <1>4
  <1>6. /\ B \in Seq(PlanSteps) /\ Len(B) = m
        /\ \A i \in 1 .. m : B[i] = Compile(SharedGraphs[i], 0)
    BY <1>1, <1>4
  <1> HIDE DEF A, B
  <1> DEFINE AB == A \o B
  <1>7. /\ AB \in Seq(PlanSteps) /\ Len(AB) = n + m
        /\ \A i \in 1 .. n : AB[i] = A[i]
        /\ \A i \in 1 .. m : AB[n + i] = B[i]
    BY <1>1, <1>5, <1>6
  <1>8. Plan = AB \o V
    BY <1>2
  <1> HIDE DEF AB
  <1>9. /\ Plan \in Seq(PlanSteps) /\ Len(Plan) = n + m + Len(V)
        /\ \A i \in 1 .. n + m : Plan[i] = AB[i]
        /\ \A i \in 1 .. Len(V) : Plan[n + m + i] = V[i]
    <2> DEFINE l == n + m
    <2>1. l \in Nat /\ AB \in Seq(PlanSteps) /\ Len(AB) = l
      BY <1>1, <1>7
    <2> HIDE DEF l
    <2>2. /\ AB \o V \in Seq(PlanSteps) /\ Len(AB \o V) = l + Len(V)
          /\ \A i \in 1 .. l : (AB \o V)[i] = AB[i]
          /\ \A i \in 1 .. Len(V) : (AB \o V)[l + i] = V[i]
      BY <1>3, <2>1
    <2> QED BY <1>8, <2>2 DEF l
  <1>10. /\ \A i \in 1 .. n : i \in 1 .. n + m
         /\ \A i \in 1 .. m : n + i \in 1 .. n + m
    BY <1>1
  <1>11. \A i \in 1 .. n : Plan[i] = Convert(StageOrder[i])
    BY <1>5, <1>7, <1>9, <1>10
  <1>12. \A i \in 1 .. m : Plan[n + i] = Compile(SharedGraphs[i], 0)
    BY <1>6, <1>7, <1>9, <1>10
  <1> QED BY <1>1, <1>3, <1>9, <1>11, <1>12 DEF n, m, V

\* What a step of the plan works on is a file of the build.
StepTyped(step) ==
  \/ step.kind = "convert" /\ step.graph \in Graphs
  \/ /\ step.kind = "compile" /\ step.graph \in Graphs
     /\ HboKey(step.graph, step.core) \in HboKeys
  \/ /\ step.kind = "link" /\ PathCore(step.core) \in HbmKeys
     /\ \A graph \in Graphs : HboKey(graph, step.core) \in HboKeys

LEMMA KeysFacts ==
  /\ \A graph \in Graphs : HboKey(graph, 0) \in HboKeys
  /\ \A graph \in Graphs, b \in 1 .. Len(ArCores) : HboKey(graph, ArCores[b]) \in HboKeys
  /\ \A b \in 1 .. Len(ArCores) : PathCore(ArCores[b]) \in HbmKeys
  /\ \A key \in HbmKeys : \E b \in 1 .. Len(ArCores) : key = PathCore(ArCores[b])
  BY CoresFacts DEF HboKey, HboKeys, HbmKeys, PathCore

LEMMA PlanStepsTyped == \A step \in PlanSteps : StepTyped(step)
  <1>1. ASSUME NEW graph \in Graphs PROVE StepTyped(Convert(graph)) /\ StepTyped(Compile(graph, 0))
    BY KeysFacts DEF StepTyped, Convert, Compile
  <1>2. ASSUME NEW graph \in Graphs, NEW b \in DOMAIN ArCores PROVE StepTyped(Compile(graph, ArCores[b]))
    BY KeysFacts, CoresFacts DEF StepTyped, Compile
  <1>3. ASSUME NEW b \in DOMAIN ArCores PROVE StepTyped(Link(ArCores[b]))
    BY KeysFacts, CoresFacts DEF StepTyped, Link
  <1> HIDE DEF StepTyped
  <1> QED BY <1>1, <1>2, <1>3 DEF PlanSteps, VariantSteps

\* The plan has as many steps as StageProgress is told, and links every model.
LEMMA PlanFacts ==
  /\ Len(Plan) \in Nat /\ Len(Plan) = TotalStages
  /\ Len(StageOrder) <= Len(Plan) /\ 1 <= Len(Plan)
  /\ \A i \in 1 .. Len(Plan) : StepTyped(Plan[i])
  /\ \A key \in HbmKeys :
       \E i \in 1 .. Len(Plan) : Plan[i].kind = "link" /\ PathCore(Plan[i].core) = key
  <1> DEFINE n == Len(StageOrder)
             m == Len(SharedGraphs)
             V == VariantsPlan[Len(ArCores)]
             c == Len(ArCores)
             k == Len(ArStages)
  <1>1. /\ n \in Nat /\ m \in Nat /\ Len(V) \in Nat
        /\ Plan \in Seq(PlanSteps) /\ Len(Plan) = n + m + Len(V)
        /\ \A i \in 1 .. Len(V) : Plan[n + m + i] = V[i]
    BY PlanParts
  <1>2. n >= 1 /\ m + k = n /\ k \in Nat /\ c \in Nat
    <2>1. n >= 1
      BY StagesAreGraphs
    <2>2. c \in Nat
      BY CoresFacts
    <2>3. m + k = n /\ ArStages \in Seq(Graphs \cap ArGraphs)
      BY StagesFacts
    <2> QED BY <2>1, <2>2, <2>3
  <1>3. /\ Len(V) = c * (k + 1)
        /\ \A b \in 1 .. c : \E i \in 1 .. Len(V) : V[i] = Link(ArCores[b])
    BY VariantsFacts
  <1>4. TotalStages = n + 1 + (m - 1) + c * (k + 1)
    BY DEF TotalStages
  <1> HIDE DEF n, m, V, c, k
  <1>5. Len(Plan) = TotalStages /\ Len(Plan) \in Nat /\ n <= Len(Plan) /\ 1 <= Len(Plan)
    <2>1. c * (k + 1) = Len(V)
      BY <1>3
    <2> DEFINE w == c * (k + 1)
    <2>2. w = Len(V) /\ TotalStages = n + 1 + (m - 1) + w
      BY <1>4, <2>1
    <2> HIDE DEF w
    <2> QED BY <1>1, <1>2, <2>2
  <1>6. \A i \in 1 .. Len(Plan) : StepTyped(Plan[i])
    <2>1. \A i \in 1 .. Len(Plan) : Plan[i] \in PlanSteps
      BY <1>1
    <2> HIDE DEF StepTyped
    <2> QED BY <2>1, PlanStepsTyped
  <1>7. ASSUME NEW key \in HbmKeys
        PROVE  \E i \in 1 .. Len(Plan) : Plan[i].kind = "link" /\ PathCore(Plan[i].core) = key
    <2>1. PICK b \in 1 .. c : key = PathCore(ArCores[b])
      BY KeysFacts DEF c
    <2>2. PICK i \in 1 .. Len(V) : V[i] = Link(ArCores[b])
      BY <1>3
    <2>3. n + m + i \in 1 .. Len(Plan) /\ Plan[n + m + i] = Link(ArCores[b])
      BY <1>1, <2>2
    <2>4. Link(ArCores[b]).kind = "link" /\ Link(ArCores[b]).core = ArCores[b]
      BY DEF Link
    <2> QED BY <2>1, <2>3, <2>4
  <1> QED BY <1>5, <1>6, <1>7 DEF n

-----------------------------------------------------------------------------
(* The invariant of the build.  Artifacts are only made from source graphs   *)
(* that are accepted.  The export they come from stays the one accepted,     *)
(* until one of another chunk or cache is begun beside it, and from then on  *)
(* nothing is: so they all have the weights of one export.  A run without    *)
(* --resume finds nothing, so that all it leaves is its own; and what a run  *)
(* has passed in its plan is there until it stops.                           *)
AnyMade ==
  \/ \E graph \in Graphs : converted[graph] # NoFile
  \/ \E key \in HboKeys : hbo[key] # NoFile
  \/ \E key \in HbmKeys : hbm[key] # NoFile

ArtifactsTyped ==
  /\ converted \in [Graphs -> Contents \cup {NoFile, Damaged}]
  /\ hbo \in [HboKeys -> Contents \cup {NoFile, Damaged}]
  /\ hbm \in [HbmKeys -> Models \cup {NoFile, Damaged}]

ControlTyped ==
  /\ inUse \in BOOLEAN
  /\ pc \in Stopped \cup {"check", "open", "export", "recheck", "build"}
  /\ pc # "idle" => run.config \in Configs
  /\ pos \in 1 .. Len(Plan)
  /\ staged \in 0 .. TotalStages
  /\ pc = "recheck" => pos = 1
  /\ pc \in {"check", "open", "export", "recheck"} => staged = 0
  /\ pc \in {"open", "export", "recheck", "build"} => inUse

ExportFirst ==
  /\ pc = "build" => SourcesValid(run.config)
  /\ (pc \in {"open", "export", "recheck"} /\ ~run.resume) \/ ~inUse => ~AnyMade

ArtifactsOf(export) ==
  /\ \A graph \in Graphs : Intact(converted[graph]) => converted[graph].weights = export
  /\ \A key \in HboKeys : Intact(hbo[key]) => hbo[key].weights = export
  /\ \A key \in HbmKeys : Intact(hbm[key]) => hbm[key].weights = {export}

Displaced(export) ==
  /\ Begun(NameOf[export])
  /\ \E config \in Configs : Contract(config) # Contract(export) /\ Begun(NameOf[config])

Source(export) == (~Blocked /\ Complete(export)) \/ Displaced(export)

OneSource == AnyMade => \E export \in Configs : ArtifactsOf(export) /\ Source(export)

Building == pc = "build" \/ (pc = "done" /\ run.target = "hbm")

OwnFiles ==
  /\ ArtifactsOf(run.config)
  /\ \A graph \in Graphs : Intact(converted[graph]) => converted[graph].options = run.config
  /\ \A key \in HboKeys : Intact(hbo[key]) => hbo[key].options = run.config
  /\ \A key \in HbmKeys : Intact(hbm[key]) => hbm[key].options = {run.config}

Owned ==
  /\ pc = "recheck" => embedding = run.config
  /\ Building /\ ~run.resume => embedding = run.config /\ OwnFiles

StageMade(step) ==
  CASE step.kind = "convert" -> Intact(converted[step.graph])
    [] step.kind = "compile" -> Intact(hbo[HboKey(step.graph, step.core)])
    [] step.kind = "link" -> /\ Intact(hbm[PathCore(step.core)])
                             /\ ContractMatches(hbm[PathCore(step.core)])

PassedStages ==
  /\ pc = "build" =>
       /\ staged = pos - 1
       /\ \A i \in 1 .. pos - 1 : StageMade(Plan[i])
  /\ pc = "done" /\ run.target = "hbm" =>
       /\ staged = TotalStages
       /\ \A i \in 1 .. Len(Plan) : StageMade(Plan[i])

BuildInv ==
  /\ FamilyInv /\ ArtifactsTyped /\ ControlTyped /\ ExportFirst /\ OneSource
  /\ Owned /\ PassedStages

LEMMA MadeFacts ==
  /\ \A weights, options \in Configs :
       /\ Made(weights, options) \in Contents /\ Intact(Made(weights, options))
       /\ Made(weights, options).weights = weights /\ Made(weights, options).options = options
  /\ \A file \in Contents : Intact(file)
  /\ \A file \in Models : Intact(file)
  <1>1. \A weights, options \in Configs :
          /\ Made(weights, options) \in Contents
          /\ Made(weights, options).weights = weights /\ Made(weights, options).options = options
    BY DEF Made, Contents
  <1>2. \A file \in Contents \cup Models : Intact(file)
    BY NotContents DEF NotContents, Intact
  <1> QED BY <1>1, <1>2

LEMMA IntactArtifacts ==
  ASSUME ArtifactsTyped
  PROVE  /\ \A graph \in Graphs : Intact(converted[graph]) => converted[graph] \in Contents
         /\ \A key \in HboKeys : Intact(hbo[key]) => hbo[key] \in Contents
         /\ \A key \in HbmKeys : Intact(hbm[key]) => hbm[key] \in Models
  BY DEF ArtifactsTyped, Intact

\* What is accepted, and what the artifacts come from: the same export.
Sourced(export) ==
  /\ ~Blocked /\ Complete(export) /\ Contract(export) = Contract(run.config)
  /\ \A graph \in Graphs : SourceOf(graph) = export
  /\ ArtifactsOf(export)

LEMMA AcceptedSource ==
  ASSUME FamilyInv, OneSource, run.config \in Configs, SourcesValid(run.config)
  PROVE  \E export \in Configs : Sourced(export)
  <1>1. ~Blocked
    BY AcceptedIsComplete
  <1>2. PICK export \in Configs :
          /\ Complete(export) /\ Contract(export) = Contract(run.config)
          /\ \A graph \in Graphs : SourceOf(graph) = export
    BY AcceptedIsComplete
  <1>3. CASE ~AnyMade
    BY <1>1, <1>2, <1>3 DEF AnyMade, ArtifactsOf, Intact, Sourced
  <1>4. CASE AnyMade
    <2>1. PICK origin \in Configs : ArtifactsOf(origin) /\ Source(origin)
      BY <1>4 DEF OneSource
    <2>2. ~Displaced(origin)
      <3>1. SUFFICES ASSUME Displaced(origin) PROVE FALSE
        OBVIOUS
      <3>2. PICK config \in Configs : Contract(config) # Contract(origin) /\ Begun(NameOf[config])
        BY <3>1 DEF Displaced
      <3>3. /\ NameOf[config] # NameOf[origin] /\ Begun(NameOf[origin])
            /\ NameOf[config] \in Names /\ NameOf[origin] \in Names
        BY <3>1, <3>2, ContractsApart, NamesGiven DEF Displaced, NamesGiven
      <3> QED BY <1>1, <3>2, <3>3 DEF Blocked
    <2>3. Complete(origin)
      BY <2>1, <2>2 DEF Source
    <2>4. /\ NameOf[origin] \in Names /\ Begun(NameOf[origin]) /\ bc[NameOf[origin]][First] = origin
          /\ NameOf[export] \in Names /\ Begun(NameOf[export]) /\ bc[NameOf[export]][First] = export
      BY <1>2, <2>3, WholeFacts DEF Complete
    <2>5. NameOf[origin] = NameOf[export]
      BY <1>1, <2>4 DEF Blocked
    <2>6. origin = export
      BY <2>4, <2>5
    <2> QED BY <1>1, <1>2, <2>1, <2>6 DEF Sourced
  <1> QED BY <1>3, <1>4

LEMMA BuildingBegins == ASSUME Init PROVE BuildInv
  <1>1. /\ converted = [graph \in Graphs |-> NoFile] /\ hbo = [key \in HboKeys |-> NoFile]
        /\ hbm = [key \in HbmKeys |-> NoFile] /\ inUse = FALSE /\ pc = "idle" /\ pos = 1
        /\ staged = 0
    BY DEF Init
  <1>2. /\ \A graph \in Graphs : converted[graph] = NoFile
        /\ \A key \in HboKeys : hbo[key] = NoFile
        /\ \A key \in HbmKeys : hbm[key] = NoFile
    BY <1>1
  <1>3. ~AnyMade
    BY <1>2 DEF AnyMade
  <1>4. ArtifactsTyped
    BY <1>1 DEF ArtifactsTyped
  <1>5. ControlTyped
    <2>1. inUse \in BOOLEAN
      BY <1>1, Zenon
    <2>2. pos \in 1 .. Len(Plan) /\ staged \in 0 .. TotalStages
      BY <1>1, PlanFacts
    <2> QED BY <1>1, <2>1, <2>2 DEF ControlTyped, Stopped
  <1>6. ExportFirst
    BY <1>1, <1>3 DEF ExportFirst
  <1>7. OneSource
    BY <1>3 DEF OneSource
  <1>8. Owned /\ PassedStages
    BY <1>1 DEF Owned, PassedStages, Building
  <1> QED BY <1>4, <1>5, <1>6, <1>7, <1>8, BuildInitInv DEF BuildInv

-----------------------------------------------------------------------------
\* Steps before the stages, and those that end a run: no artifact changes.
LEMMA ArtifactsStay ==
  ASSUME BuildInv, UNCHANGED <<converted, hbo, hbm>>
  PROVE  /\ ArtifactsTyped' /\ AnyMade' = AnyMade
         /\ \A export \in Configs : ArtifactsOf(export)' = ArtifactsOf(export)
         /\ (\A export \in Configs : Source(export) => Source(export)') => OneSource'
  <1>1. ArtifactsTyped'
    BY DEF BuildInv, ArtifactsTyped
  <1>2. AnyMade' = AnyMade
    BY DEF AnyMade
  <1>3. \A export \in Configs : ArtifactsOf(export)' = ArtifactsOf(export)
    BY DEF ArtifactsOf
  <1>4. ASSUME \A export \in Configs : Source(export) => Source(export)' PROVE OneSource'
    <2> SUFFICES ASSUME AnyMade'
                 PROVE  \E export \in Configs : ArtifactsOf(export)' /\ Source(export)'
      BY DEF OneSource
    <2>1. PICK export \in Configs : ArtifactsOf(export) /\ Source(export)
      BY <1>2 DEF BuildInv, OneSource
    <2> QED BY <1>3, <1>4, <2>1
  <1> QED BY <1>1, <1>2, <1>3, <1>4

LEMMA SourcesStay ==
  ASSUME bc' = bc, embedding' = embedding
  PROVE  /\ run'.config = run.config => SourcesValid(run.config)' = SourcesValid(run.config)
         /\ Blocked' = Blocked
         /\ \A export \in Configs : /\ Complete(export)' = Complete(export)
                                   /\ Source(export)' = Source(export)
         /\ \A graph \in Graphs : SourceOf(graph)' = SourceOf(graph)
  <1>1. run'.config = run.config => SourcesValid(run.config)' = SourcesValid(run.config)
    BY DEF SourcesValid, SourceNames
  <1>2. Blocked' = Blocked
    BY DEF Blocked, Begun
  <1>3. \A export \in Configs : Complete(export)' = Complete(export)
    BY DEF Complete, Whole, TableOf
  <1>4. \A export \in Configs : Displaced(export)' = Displaced(export)
    BY DEF Displaced, Begun
  <1>5. \A graph \in Graphs : SourceOf(graph)' = SourceOf(graph)
    BY DEF SourceOf, SourceNames
  <1> QED BY <1>1, <1>2, <1>3, <1>4, <1>5 DEF Source

\* While an export is under way, what is complete is of another contract.
LEMMA OtherExport ==
  ASSUME FamilyInv, Exporting, ~Blocked, NEW export \in Configs, Complete(export)
  PROVE  Contract(run.config) # Contract(export)
  <1>1. /\ NameOf[export] \in Names /\ Intact(bc[NameOf[export]][Final])
        /\ bc[NameOf[export]][First] = export
    BY WholeFacts, StagesAreGraphs DEF Complete
  <1>2. PICK other \in Configs :
          /\ NameOf[other] = NameOf[export] /\ Complete(other)
          /\ Contract(run.config) # Contract(other)
    BY <1>1 DEF FamilyInv, FinalIsComplete
  <1>3. bc[NameOf[other]][First] = other
    BY <1>2, WholeFacts DEF Complete
  <1> QED BY <1>1, <1>2, <1>3

LEMMA TableKeepsSource ==
  ASSUME FamilyInv, SaveEmbedding, NEW export \in Configs, Source(export)
  PROVE  Source(export)'
  <1>1. /\ pc = "open" /\ embedding' = run.config /\ bc' = bc /\ run.config \in Configs
    BY DEF SaveEmbedding, FamilyInv, ExportSound, Stopped
  <1>2. CASE Displaced(export)
    BY <1>1, <1>2 DEF Source, Displaced, Begun
  <1>3. CASE ~Blocked /\ Complete(export)
    <2>1. Contract(run.config) # Contract(export)
      BY <1>1, <1>3, OtherExport DEF Exporting
    <2>2. Complete(export)'
      BY <1>1, <1>3, <2>1 DEF Complete, Whole, TableOf
    <2>3. ~Blocked'
      BY <1>1, <1>3 DEF Blocked, Begun
    <2> QED BY <2>2, <2>3 DEF Source
  <1> QED BY <1>2, <1>3 DEF Source

LEMMA SavedKeepsSource ==
  ASSUME FamilyInv, pc = "export", NEW file \in Configs \cup {Damaged}, bc' = Saved(file),
         NEW export \in Configs, Source(export)
  PROVE  Source(export)'
  <1>1. /\ run.config \in Configs /\ NameOf[export] \in Names
        /\ \A config \in Configs : NameOf[config] \in Names
    BY NamesGiven DEF FamilyInv, ExportSound, Stopped, NamesGiven
  <1>2. bc'[NameOf[run.config]][First] # NoFile /\ \A n \in Names : Begun(n) => Begun(n)'
    BY SavedFile
  <1>3. CASE Displaced(export)
    BY <1>1, <1>2, <1>3 DEF Source, Displaced
  <1>4. CASE ~Blocked /\ Complete(export)
    <2>1. Contract(run.config) # Contract(export)
      BY <1>4, OtherExport DEF Exporting
    <2>2. Begun(NameOf[export])'
      BY <1>1, <1>2, <1>4, WholeFacts DEF Complete
    <2>3. PICK config \in Configs : config = run.config
      BY <1>1
    <2>4. Begun(NameOf[config])'
      BY <1>2, <2>3 DEF Begun
    <2>5. Displaced(export)'
      BY <2>1, <2>2, <2>3, <2>4 DEF Displaced
    <2> QED BY <2>5 DEF Source
  <1> QED BY <1>3, <1>4 DEF Source

LEMMA StartBuilds ==
  ASSUME BuildInv, NEW config \in Configs, NEW target \in {"bc", "hbm"}, NEW resume \in BOOLEAN,
         Start(config, target, resume), FamilyInv'
  PROVE  BuildInv'
  <1>1. /\ UNCHANGED <<bc, embedding, converted, hbo, hbm, inUse>>
        /\ run'.config = config /\ pc' = "check" /\ pos' = 1 /\ staged' = 0
    BY DEF Start, files
  <1>2. ControlTyped'
    BY <1>1, PlanFacts DEF BuildInv, ControlTyped, Stopped
  <1>3. ExportFirst'
    BY <1>1, ArtifactsStay, SourcesStay DEF BuildInv, ExportFirst
  <1>4. Owned' /\ PassedStages'
    BY <1>1 DEF Owned, PassedStages, Building
  <1>5. ArtifactsTyped' /\ OneSource'
    BY <1>1, ArtifactsStay, SourcesStay
  <1> QED BY <1>1, <1>2, <1>3, <1>4, <1>5 DEF BuildInv

LEMMA CheckBuilds ==
  ASSUME BuildInv, Check, FamilyInv'
  PROVE  BuildInv'
  <1>1. /\ UNCHANGED <<bc, embedding, converted, hbo, hbm, run, pos, staged>>
        /\ pc = "check" /\ inUse' = TRUE /\ pc' \in {"open", "done", "build"}
        /\ pc' = "open" => ~TakesSources
        /\ pc' = "build" => TakesSources
        /\ pc' = "done" => run.target = "bc"
    BY DEF Check, files
  <1>2. pos = 1 /\ staged = 0
    BY <1>1 DEF BuildInv, FamilyInv, ExportSound, ControlTyped
  <1>3. ControlTyped'
    BY <1>1, <1>2 DEF BuildInv, ControlTyped, Stopped
  <1>4. ~run.resume => ~AnyMade /\ ~SourcesValid(run.config)
    <2> SUFFICES ASSUME ~run.resume PROVE ~AnyMade /\ ~SourcesValid(run.config)
      OBVIOUS
    <2>1. ~inUse /\ \A n \in Names, graph \in Graphs : bc[n][graph] = NoFile
      BY <1>1 DEF BuildInv, FamilyInv, FreshIsEmpty
    <2>2. ~SourcesValid(run.config)
      BY <2>1, StagesAreGraphs DEF SourcesValid, Intact
    <2> QED BY <2>1, <2>2 DEF BuildInv, ExportFirst
  <1>6. ExportFirst'
    BY <1>1, <1>4, ArtifactsStay, SourcesStay DEF BuildInv, ExportFirst, TakesSources
  <1>7. pc' = "build" => run.resume
    BY <1>1, <1>4 DEF TakesSources
  <1>8. Owned'
    BY <1>1, <1>7 DEF Owned, Building
  <1>9. PassedStages'
    BY <1>1, <1>2 DEF PassedStages
  <1>10. ArtifactsTyped' /\ OneSource'
    BY <1>1, ArtifactsStay, SourcesStay
  <1> QED BY <1>1, <1>3, <1>6, <1>8, <1>9, <1>10 DEF BuildInv

LEMMA ExportBuilds ==
  ASSUME BuildInv, SaveEmbedding \/ Export, FamilyInv'
  PROVE  BuildInv'
  <1>1. /\ UNCHANGED <<converted, hbo, hbm, inUse, run, staged>>
        /\ pc \in {"open", "export"} /\ pc' \in {"export", "recheck"}
        /\ pc' = "recheck" => pos' = 1 /\ pc = "export" /\ embedding' = embedding
    BY DEF SaveEmbedding, Export
  <1>2. (~run.resume => ~AnyMade) /\ inUse
    BY <1>1 DEF BuildInv, ExportFirst, ControlTyped
  <1>3. pos' \in 1 .. Len(Plan)
    <2>1. CASE SaveEmbedding
      BY <2>1 DEF SaveEmbedding, BuildInv, ControlTyped
    <2>2. CASE Export
      <3>1. pos \in 1 .. Len(StageOrder)
        BY <2>2 DEF Export, BuildInv, FamilyInv, ExportSound
      <3>2. \/ pos = Len(StageOrder) /\ pc' = "recheck" /\ pos' = 1
            \/ pos # Len(StageOrder) /\ pc' = pc /\ pos' = pos + 1
        BY <2>2 DEF Export
      <3> DEFINE n == Len(StageOrder)
                 l == Len(Plan)
      <3>3. n \in Nat /\ l \in Nat /\ n <= l /\ 1 <= l /\ pos \in 1 .. n
        BY <3>1, PlanFacts, StagesAreGraphs
      <3>4. pos' = 1 \/ (pos # n /\ pos' = pos + 1)
        BY <3>2
      <3> HIDE DEF n, l
      <3>5. pos' \in 1 .. l
        BY <3>3, <3>4
      <3> QED BY <3>5 DEF l
    <2> QED BY <2>1, <2>2
  <1>4. ControlTyped'
    BY <1>1, <1>2, <1>3 DEF BuildInv, ControlTyped, Stopped
  <1>5. ExportFirst'
    BY <1>1, <1>2, ArtifactsStay DEF ExportFirst
  <1>6. pc' = "recheck" => embedding' = run'.config
    BY <1>1 DEF BuildInv, FamilyInv, ExportSound
  <1>7. Owned'
    BY <1>1, <1>6 DEF Owned, Building
  <1>8. PassedStages'
    BY <1>1 DEF PassedStages
  <1>9. \A export \in Configs : Source(export) => Source(export)'
    BY TableKeepsSource, SavedKeepsSource DEF BuildInv, Export, FamilyInv, ExportSound, Stopped
  <1>10. ArtifactsTyped' /\ OneSource'
    BY <1>1, <1>9, ArtifactsStay
  <1> QED BY <1>1, <1>4, <1>5, <1>7, <1>8, <1>10 DEF BuildInv

LEMMA RecheckBuilds ==
  ASSUME BuildInv, Recheck, FamilyInv'
  PROVE  BuildInv'
  <1>1. /\ UNCHANGED <<bc, embedding, converted, hbo, hbm, inUse, run, pos, staged>>
        /\ pc = "recheck" /\ pc' \in {"failed", "done", "build"}
        /\ pc' = "done" => run.target = "bc"
        /\ pc' = "build" => SourcesValid(run.config)
    BY DEF Recheck, files
  <1>2. /\ pos = 1 /\ staged = 0 /\ (~run.resume => ~AnyMade) /\ embedding = run.config
    BY <1>1 DEF BuildInv, ControlTyped, ExportFirst, Owned
  <1>3. ControlTyped'
    BY <1>1, <1>2 DEF BuildInv, ControlTyped, Stopped
  <1>4. ExportFirst'
    <2>1. pc' = "build" => SourcesValid(run.config)'
      BY <1>1, SourcesStay
    <2>2. AnyMade' = AnyMade /\ (~inUse => ~AnyMade)
      BY <1>1, ArtifactsStay DEF BuildInv, ExportFirst
    <2> QED BY <1>1, <1>2, <2>1, <2>2 DEF ExportFirst
  <1>5. Owned'
    BY <1>1, <1>2 DEF Owned, OwnFiles, ArtifactsOf, Building, AnyMade, Intact
  <1>6. PassedStages'
    BY <1>1, <1>2 DEF PassedStages
  <1>7. ArtifactsTyped' /\ OneSource'
    BY <1>1, ArtifactsStay, SourcesStay
  <1> QED BY <1>1, <1>3, <1>4, <1>5, <1>6, <1>7 DEF BuildInv

LEMMA InterruptBuilds ==
  ASSUME BuildInv, Interrupt, FamilyInv'
  PROVE  BuildInv'
  <1>1. /\ UNCHANGED <<embedding, converted, hbo, hbm, inUse, run, pos, staged>>
        /\ pc \notin Stopped /\ pc' = "killed"
        /\ bc' = bc \/ (pc = "export" /\ bc' = Saved(Damaged))
    BY DEF Interrupt
  <1>2. ControlTyped'
    BY <1>1 DEF BuildInv, ControlTyped, Stopped
  <1>3. \A export \in Configs : Source(export) => Source(export)'
    BY <1>1, SavedKeepsSource, SourcesStay DEF BuildInv
  <1>4. ExportFirst'
    BY <1>1, ArtifactsStay DEF BuildInv, ExportFirst
  <1>5. Owned' /\ PassedStages'
    BY <1>1 DEF Owned, PassedStages, Building
  <1>6. ArtifactsTyped' /\ OneSource'
    BY <1>1, <1>3, ArtifactsStay
  <1> QED BY <1>1, <1>2, <1>4, <1>5, <1>6 DEF BuildInv

-----------------------------------------------------------------------------
\* What a run knows in front of a stage.
LEMMA StageContext ==
  ASSUME BuildInv, pc = "build"
  PROVE  /\ SourcesValid(run.config) /\ run.config \in Configs /\ inUse
         /\ \E export \in Configs : Sourced(export) /\ (~run.resume => export = run.config)
         /\ pos \in 1 .. Len(Plan) /\ staged = pos - 1 /\ Len(Plan) \in Nat
         /\ StepTyped(Step)
         /\ \A i \in 1 .. pos - 1 : StageMade(Plan[i])
         /\ ~run.resume => embedding = run.config /\ OwnFiles
  <1>1. SourcesValid(run.config) /\ FamilyInv /\ OneSource
    BY DEF BuildInv, ExportFirst
  <1>2. /\ run.config \in Configs /\ inUse /\ pos \in 1 .. Len(Plan)
    BY DEF BuildInv, ControlTyped
  <1>3. StepTyped(Step)
    BY <1>2, PlanFacts DEF Step
  <1>4. staged = pos - 1 /\ \A i \in 1 .. pos - 1 : StageMade(Plan[i])
    BY DEF BuildInv, PassedStages
  <1>5. ~run.resume => embedding = run.config /\ OwnFiles
    BY DEF BuildInv, Owned, Building
  <1>6. PICK export \in Configs : Sourced(export)
    BY <1>1, <1>2, AcceptedSource
  <1>7. ~run.resume => export = run.config
    BY <1>5, <1>6 DEF Sourced, Complete, TableOf
  <1> QED BY <1>1, <1>2, <1>3, <1>4, <1>5, <1>6, <1>7, PlanFacts

LEMMA AdvanceFacts ==
  ASSUME BuildInv, pc = "build", Advance
  PROVE  /\ UNCHANGED <<bc, embedding, inUse, run>>
         /\ \/ pos = Len(Plan) /\ pc' = "done" /\ pos' = 1 /\ staged' = TotalStages
            \/ pos + 1 \in 1 .. Len(Plan) /\ pc' = "build" /\ pos' = pos + 1 /\ staged' = pos
         /\ staged' \in 0 .. TotalStages
  <1> DEFINE l == Len(Plan)
  <1>1. pos \in 1 .. l /\ staged = pos - 1 /\ l \in Nat /\ TotalStages = l
    BY StageContext, PlanFacts
  <1>2. /\ UNCHANGED <<bc, embedding, inUse, run>> /\ staged' = staged + 1
        /\ \/ pos = l /\ pc' = "done" /\ pos' = 1
           \/ pos # l /\ pc' = "build" /\ pos' = pos + 1
    BY DEF Advance
  <1> HIDE DEF l
  <1>3. staged' = pos /\ staged' \in 0 .. l
    BY <1>1, <1>2
  <1>4. pos # l => pos + 1 \in 1 .. l
    BY <1>1
  <1> QED BY <1>1, <1>2, <1>3, <1>4 DEF l

\* A stage that ends well leaves its file and what those before it left.
LEMMA StagePasses ==
  ASSUME BuildInv, pc = "build", Advance, FamilyInv', ArtifactsTyped',
         NEW export \in Configs, Sourced(export), ArtifactsOf(export)',
         ~run.resume => OwnFiles', \A i \in 1 .. pos : StageMade(Plan[i])'
  PROVE  BuildInv'
  <1>1. /\ UNCHANGED <<bc, embedding, inUse, run>>
        /\ \/ pos = Len(Plan) /\ pc' = "done" /\ pos' = 1 /\ staged' = TotalStages
           \/ pos + 1 \in 1 .. Len(Plan) /\ pc' = "build" /\ pos' = pos + 1 /\ staged' = pos
        /\ staged' \in 0 .. TotalStages
    BY AdvanceFacts
  <1>2. /\ SourcesValid(run.config) /\ run.config \in Configs /\ inUse /\ pos \in 1 .. Len(Plan)
        /\ ~run.resume => embedding = run.config
    BY StageContext
  <1>3. pos' \in 1 .. Len(Plan)
    BY <1>1, PlanFacts
  <1>4. ControlTyped'
    BY <1>1, <1>2, <1>3 DEF BuildInv, ControlTyped, Stopped
  <1>5. SourcesValid(run.config)'
    BY <1>1, <1>2, SourcesStay
  <1>6. ExportFirst'
    BY <1>1, <1>2, <1>5 DEF ExportFirst
  <1>7. Owned'
    BY <1>1, <1>2 DEF Owned, Building
  <1>8. PassedStages'
    <2>1. CASE pc' = "done"
      <3>1. pos = Len(Plan) /\ staged' = TotalStages
        BY <1>1, <2>1
      <3> QED BY <2>1, <3>1 DEF PassedStages
    <2>2. CASE pc' = "build"
      <3>1. pos' = pos + 1 /\ staged' = pos /\ pos \in Nat
        BY <1>1, <1>2, <2>2, PlanFacts
      <3>2. pos' - 1 = pos
        BY <3>1
      <3> QED BY <2>2, <3>1, <3>2 DEF PassedStages
    <2> QED BY <1>1, <2>1, <2>2
  <1>9. OneSource'
    BY <1>1, SourcesStay DEF OneSource, Source, Sourced
  <1> QED BY <1>4, <1>6, <1>7, <1>8, <1>9 DEF BuildInv

\* A stage that does not leaves files of the same kinds.
LEMMA StageFails ==
  ASSUME BuildInv, pc = "build", pc' \in {"failed", "killed"}, FamilyInv',
         UNCHANGED <<bc, embedding, inUse, run, pos, staged>>,
         ArtifactsTyped', NEW export \in Configs, Sourced(export), ArtifactsOf(export)'
  PROVE  BuildInv'
  <1>1. SourcesValid(run.config) /\ run.config \in Configs /\ inUse
    BY StageContext
  <1>2. ControlTyped'
    BY <1>1 DEF BuildInv, ControlTyped, Stopped
  <1>3. ExportFirst'
    BY <1>1, SourcesStay DEF ExportFirst
  <1>4. Owned' /\ PassedStages'
    BY DEF Owned, PassedStages, Building
  <1>5. OneSource'
    BY SourcesStay DEF OneSource, Source, Sourced
  <1> QED BY <1>2, <1>3, <1>4, <1>5 DEF BuildInv

\* One file written, or none.
LEMMA ConvertBuilds ==
  ASSUME BuildInv, ConvertStage, FamilyInv'
  PROVE  BuildInv'
  <1> DEFINE graph == Step.graph
             file == Made(SourceOf(graph), run.config)
  <1>1. /\ pc = "build" /\ Step.kind = "convert" /\ Advance /\ UNCHANGED <<hbo, hbm>>
        /\ converted' = IF KeepsConverted(graph) THEN converted
                        ELSE [converted EXCEPT ![graph] = file]
    BY DEF ConvertStage
  <1>0. PICK export \in Configs : Sourced(export) /\ (~run.resume => export = run.config)
    BY <1>1, StageContext
  <1>2. /\ run.config \in Configs /\ graph \in Graphs
        /\ SourceOf(graph) = export /\ pos \in 1 .. Len(Plan)
        /\ \A i \in 1 .. pos - 1 : StageMade(Plan[i])
        /\ ~run.resume => OwnFiles
    BY <1>0, <1>1, StageContext DEF StepTyped, Sourced
  <1>3. /\ file \in Contents /\ Intact(file) /\ file.weights = export /\ file.options = run.config
    BY <1>2, MadeFacts
  <1>4. run' = run
    BY <1>1, AdvanceFacts
  <1>5. Step = Plan[pos]
    BY DEF Step
  <1> HIDE DEF file
  <1>6. /\ converted' \in [Graphs -> Contents \cup {NoFile, Damaged}]
        /\ \A g \in Graphs : converted'[g] = converted[g] \/ converted'[g] = file
        /\ Intact(converted'[graph])
    <2>1. CASE KeepsConverted(graph)
      BY <1>1, <2>1 DEF BuildInv, ArtifactsTyped, KeepsConverted
    <2>2. CASE ~KeepsConverted(graph)
      <3>1. converted' = [converted EXCEPT ![graph] = file]
        BY <1>1, <2>2
      <3> HIDE DEF graph
      <3> QED BY <1>2, <1>3, <3>1 DEF BuildInv, ArtifactsTyped
    <2> QED BY <2>1, <2>2
  <1> HIDE DEF graph
  <1>7. ArtifactsTyped'
    BY <1>1, <1>6 DEF BuildInv, ArtifactsTyped
  <1>8. ArtifactsOf(export)'
    BY <1>0, <1>1, <1>3, <1>6 DEF Sourced, ArtifactsOf
  <1>9. ~run.resume => OwnFiles'
    BY <1>0, <1>1, <1>2, <1>3, <1>4, <1>6, <1>8 DEF OwnFiles, ArtifactsOf
  <1>10. ASSUME NEW i \in 1 .. pos PROVE StageMade(Plan[i])'
    <2>1. CASE i = pos
      BY <1>1, <1>5, <1>6, <2>1 DEF StageMade, graph
    <2>2. CASE i # pos
      <3>1. StageMade(Plan[i]) /\ StepTyped(Plan[i])
        BY <1>2, <2>2, PlanFacts
      <3> DEFINE step == Plan[i]
      <3>2. StageMade(step) /\ StepTyped(step)
        BY <3>1
      <3> HIDE DEF step
      <3>3. \A g \in Graphs : Intact(converted[g]) => Intact(converted'[g])
        BY <1>3, <1>6
      <3>4. StageMade(step)'
        BY <1>1, <1>4, <3>2, <3>3 DEF StageMade, StepTyped, ContractMatches, Fits
      <3> QED BY <3>4 DEF step
    <2> QED BY <2>1, <2>2
  <1> QED BY <1>0, <1>1, <1>7, <1>8, <1>9, <1>10, StagePasses

LEMMA CompileBuilds ==
  ASSUME BuildInv, CompileStage, FamilyInv'
  PROVE  BuildInv'
  <1> DEFINE graph == Step.graph
             key == HboKey(Step.graph, Step.core)
             file == Made(converted[graph].weights, run.config)
  <1>1. /\ pc = "build" /\ Step.kind = "compile" /\ Advance /\ UNCHANGED <<converted, hbm>>
        /\ KeepsHbo(key) \/ Intact(converted[graph])
        /\ hbo' = IF KeepsHbo(key) THEN hbo ELSE [hbo EXCEPT ![key] = file]
    BY DEF CompileStage
  <1>0. PICK export \in Configs : Sourced(export) /\ (~run.resume => export = run.config)
    BY <1>1, StageContext
  <1>2. /\ run.config \in Configs /\ graph \in Graphs /\ key \in HboKeys
        /\ pos \in 1 .. Len(Plan)
        /\ \A i \in 1 .. pos - 1 : StageMade(Plan[i])
        /\ ~run.resume => OwnFiles
    BY <1>1, StageContext DEF StepTyped
  <1>3. ~KeepsHbo(key) =>
          /\ file \in Contents /\ Intact(file) /\ file.weights = export
          /\ file.options = run.config
    <2> SUFFICES ASSUME ~KeepsHbo(key)
                 PROVE  /\ file \in Contents /\ Intact(file) /\ file.weights = export
                        /\ file.options = run.config
      OBVIOUS
    <2>1. converted[graph].weights = export
      BY <1>0, <1>1, <1>2 DEF Sourced, ArtifactsOf
    <2> QED BY <1>2, <2>1, MadeFacts
  <1>4. run' = run
    BY <1>1, AdvanceFacts
  <1>5. Step = Plan[pos]
    BY DEF Step
  <1> HIDE DEF file, graph
  <1>6. /\ hbo' \in [HboKeys -> Contents \cup {NoFile, Damaged}]
        /\ \A k \in HboKeys :
             \/ hbo'[k] = hbo[k]
             \/ Intact(hbo'[k]) /\ hbo'[k].weights = export /\ hbo'[k].options = run.config
        /\ Intact(hbo'[key])
    <2>1. CASE KeepsHbo(key)
      BY <1>1, <2>1 DEF BuildInv, ArtifactsTyped, KeepsHbo
    <2>2. CASE ~KeepsHbo(key)
      <3>1. hbo' = [hbo EXCEPT ![key] = file]
        BY <1>1, <2>2
      <3> HIDE DEF key
      <3> QED BY <1>2, <1>3, <2>2, <3>1 DEF BuildInv, ArtifactsTyped
    <2> QED BY <2>1, <2>2
  <1> HIDE DEF key
  <1>7. ArtifactsTyped'
    BY <1>1, <1>6 DEF BuildInv, ArtifactsTyped
  <1>8. ArtifactsOf(export)'
    BY <1>0, <1>1, <1>6 DEF Sourced, ArtifactsOf
  <1>9. ~run.resume => OwnFiles'
    BY <1>0, <1>1, <1>2, <1>4, <1>6, <1>8 DEF OwnFiles, ArtifactsOf
  <1>10. ASSUME NEW i \in 1 .. pos PROVE StageMade(Plan[i])'
    <2>1. CASE i = pos
      BY <1>1, <1>5, <1>6, <2>1 DEF StageMade, key
    <2>2. CASE i # pos
      <3> DEFINE step == Plan[i]
      <3>1. StageMade(step) /\ StepTyped(step)
        BY <1>2, <2>2, PlanFacts
      <3> HIDE DEF step
      <3>2. \A k \in HboKeys : Intact(hbo[k]) => Intact(hbo'[k])
        BY <1>6
      <3>3. StageMade(step)'
        BY <1>1, <1>4, <3>1, <3>2 DEF StageMade, StepTyped, ContractMatches, Fits
      <3> QED BY <3>3 DEF step
    <2> QED BY <2>1, <2>2
  <1> QED BY <1>0, <1>1, <1>7, <1>8, <1>9, <1>10, StagePasses

\* The model that is linked, when every graph it needs opens.
LEMMA LinkedFacts ==
  ASSUME BuildInv, pc = "build", NEW core, \A graph \in Graphs : HboKey(graph, core) \in HboKeys,
         \A file \in LinkedHbos(core) : Intact(file), NEW matches \in BOOLEAN,
         NEW export \in Configs, Sourced(export)
  PROVE  /\ Linked(core, matches) \in Models /\ Intact(Linked(core, matches))
         /\ Linked(core, matches).weights = {export}
         /\ Linked(core, matches).matches = matches
         /\ matches => ContractMatches(Linked(core, matches))
         /\ ~run.resume => Linked(core, matches).options = {run.config}
  <1>1. ASSUME NEW file \in LinkedHbos(core)
        PROVE  /\ file \in Contents /\ file.weights = export
               /\ ~run.resume => file.options = run.config
    <2>1. PICK graph \in Graphs : file = hbo[HboKey(graph, core)]
      BY DEF LinkedHbos
    <2>2. HboKey(graph, core) \in HboKeys /\ Intact(file)
      BY <2>1
    <2>3. file \in Contents
      BY <2>1, <2>2, IntactArtifacts DEF BuildInv
    <2>4. file.weights = export
      BY <2>1, <2>2 DEF Sourced, ArtifactsOf
    <2>5. ~run.resume => file.options = run.config
      BY <2>1, <2>2, StageContext DEF OwnFiles
    <2> QED BY <2>3, <2>4, <2>5
  <1>2. LinkedHbos(core) # {}
    <2>1. First \in Graphs
      BY StagesAreGraphs
    <2>2. hbo[HboKey(First, core)] \in LinkedHbos(core)
      BY <2>1 DEF LinkedHbos
    <2> QED BY <2>2
  <1>3. /\ {file.weights : file \in LinkedHbos(core)} = {export}
        /\ ~run.resume => {file.options : file \in LinkedHbos(core)} = {run.config}
        /\ {file.options : file \in LinkedHbos(core)} \in SUBSET Configs
    BY <1>1, <1>2 DEF Contents
  <1>5. /\ Linked(core, matches).weights = {export}
        /\ Linked(core, matches).options = {file.options : file \in LinkedHbos(core)}
        /\ Linked(core, matches).matches = matches
    BY <1>3 DEF Linked
  <1>6. Linked(core, matches) \in Models
    BY <1>3 DEF Linked, Models
  <1>7. matches => ContractMatches(Linked(core, matches))
    BY <1>5 DEF ContractMatches, Fits, Sourced
  <1> QED BY <1>3, <1>5, <1>6, <1>7, MadeFacts

LEMMA LinkBuilds ==
  ASSUME BuildInv, LinkStage, FamilyInv'
  PROVE  BuildInv'
  <1> DEFINE core == Step.core
             key == PathCore(core)
             file == Linked(core, TRUE)
  <1>1. /\ pc = "build" /\ Step.kind = "link" /\ Advance /\ UNCHANGED <<converted, hbo>>
        /\ KeepsHbm(core) \/ \A f \in LinkedHbos(core) : Intact(f)
        /\ hbm' = IF KeepsHbm(core) THEN hbm ELSE [hbm EXCEPT ![key] = file]
    BY DEF LinkStage
  <1>0. PICK export \in Configs : Sourced(export) /\ (~run.resume => export = run.config)
    BY <1>1, StageContext
  <1>2. /\ key \in HbmKeys /\ pos \in 1 .. Len(Plan)
        /\ \A graph \in Graphs : HboKey(graph, core) \in HboKeys
        /\ \A i \in 1 .. pos - 1 : StageMade(Plan[i])
        /\ ~run.resume => OwnFiles
    BY <1>1, StageContext DEF StepTyped
  <1>3. ~KeepsHbm(core) =>
          /\ file \in Models /\ Intact(file) /\ file.weights = {export} /\ ContractMatches(file)
          /\ ~run.resume => file.options = {run.config}
    BY <1>0, <1>1, <1>2, LinkedFacts
  <1>4. run' = run
    BY <1>1, AdvanceFacts
  <1>5. Step = Plan[pos]
    BY DEF Step
  <1> HIDE DEF file
  <1>6. /\ hbm' \in [HbmKeys -> Models \cup {NoFile, Damaged}]
        /\ \A k \in HbmKeys :
             \/ hbm'[k] = hbm[k]
             \/ /\ Intact(hbm'[k]) /\ hbm'[k].weights = {export} /\ ContractMatches(hbm'[k])
                /\ ~run.resume => hbm'[k].options = {run.config}
        /\ Intact(hbm'[key]) /\ ContractMatches(hbm'[key])
    <2>1. CASE KeepsHbm(core)
      BY <1>1, <2>1 DEF BuildInv, ArtifactsTyped, KeepsHbm
    <2>2. CASE ~KeepsHbm(core)
      <3>1. hbm' = [hbm EXCEPT ![key] = file]
        BY <1>1, <2>2
      <3> HIDE DEF key, core
      <3> QED BY <1>2, <1>3, <2>2, <3>1 DEF BuildInv, ArtifactsTyped
    <2> QED BY <2>1, <2>2
  <1> HIDE DEF key
  <1>7. ArtifactsTyped'
    BY <1>1, <1>6 DEF BuildInv, ArtifactsTyped
  <1>8. ArtifactsOf(export)'
    BY <1>0, <1>1, <1>6 DEF Sourced, ArtifactsOf
  <1>9. ~run.resume => OwnFiles'
    BY <1>0, <1>1, <1>2, <1>4, <1>6, <1>8 DEF OwnFiles, ArtifactsOf
  <1>10. ASSUME NEW i \in 1 .. pos PROVE StageMade(Plan[i])'
    <2>1. CASE i = pos
      BY <1>1, <1>4, <1>5, <1>6, <2>1 DEF StageMade, ContractMatches, Fits, key
    <2>2. CASE i # pos
      <3> DEFINE step == Plan[i]
      <3>1. StageMade(step) /\ StepTyped(step)
        BY <1>2, <2>2, PlanFacts
      <3> HIDE DEF step
      <3>2. \A k \in HbmKeys : Intact(hbm[k]) /\ ContractMatches(hbm[k]) => Intact(hbm'[k]) /\ ContractMatches(hbm'[k])
        BY <1>6
      <3>3. StageMade(step)'
        BY <1>1, <1>4, <3>1, <3>2 DEF StageMade, StepTyped, ContractMatches, Fits
      <3> QED BY <3>3 DEF step
    <2> QED BY <2>1, <2>2
  <1> QED BY <1>0, <1>1, <1>7, <1>8, <1>9, <1>10, StagePasses

LEMMA MismatchBuilds ==
  ASSUME BuildInv, LinkMismatch, FamilyInv'
  PROVE  BuildInv'
  <1> DEFINE core == Step.core
             key == PathCore(core)
             file == Linked(core, FALSE)
  <1>1. /\ pc = "build" /\ Step.kind = "link" /\ pc' = "failed"
        /\ \A f \in LinkedHbos(core) : Intact(f)
        /\ hbm' = [hbm EXCEPT ![key] = file]
        /\ UNCHANGED <<bc, embedding, converted, hbo, inUse, run, pos, staged>>
    BY DEF LinkMismatch
  <1>0. PICK export \in Configs : Sourced(export)
    BY <1>1, StageContext
  <1>2. key \in HbmKeys /\ \A graph \in Graphs : HboKey(graph, core) \in HboKeys
    BY <1>1, StageContext DEF StepTyped
  <1>3. file \in Models /\ file.weights = {export}
    BY <1>0, <1>1, <1>2, LinkedFacts
  <1> HIDE DEF file, key
  <1>4. ArtifactsTyped'
    BY <1>1, <1>2, <1>3 DEF BuildInv, ArtifactsTyped
  <1>5. \A k \in HbmKeys : hbm'[k] = hbm[k] \/ hbm'[k] = file
    BY <1>1 DEF BuildInv, ArtifactsTyped
  <1>6. ArtifactsOf(export)'
    BY <1>0, <1>1, <1>3, <1>5 DEF Sourced, ArtifactsOf
  <1> QED BY <1>0, <1>1, <1>4, <1>6, StageFails

\* A machine that stops damages at most the file written last.
LEMMA PowerBuilds ==
  ASSUME BuildInv, LosePower, FamilyInv'
  PROVE  BuildInv'
  <1>1. /\ pc = "build" /\ pos > 1 /\ pc' = "killed"
        /\ UNCHANGED <<bc, embedding, inUse, run, pos, staged>>
    BY DEF LosePower
  <1>2. ~Intact(Damaged)
    BY DEF Intact
  <1>3. \/ converted' = converted
        \/ \E graph : converted' = [converted EXCEPT ![graph] = Damaged]
    BY DEF LosePower
  <1>4. hbo' = hbo \/ \E key : hbo' = [hbo EXCEPT ![key] = Damaged]
    BY DEF LosePower
  <1>5. hbm' = hbm \/ \E key : hbm' = [hbm EXCEPT ![key] = Damaged]
    BY DEF LosePower
  <1>6. ArtifactsTyped'
    BY <1>3, <1>4, <1>5 DEF BuildInv, ArtifactsTyped
  <1>7. /\ \A graph \in Graphs : converted'[graph] = converted[graph] \/ converted'[graph] = Damaged
        /\ \A key \in HboKeys : hbo'[key] = hbo[key] \/ hbo'[key] = Damaged
        /\ \A key \in HbmKeys : hbm'[key] = hbm[key] \/ hbm'[key] = Damaged
    BY <1>3, <1>4, <1>5 DEF BuildInv, ArtifactsTyped
  <1>0. PICK export \in Configs : Sourced(export)
    BY <1>1, StageContext
  <1>8. ArtifactsOf(export)'
    BY <1>0, <1>2, <1>7 DEF Sourced, ArtifactsOf
  <1> QED BY <1>0, <1>1, <1>6, <1>8, StageFails

-----------------------------------------------------------------------------
LEMMA BuildingGoesOn == ASSUME BuildInv, [Next]_vars PROVE BuildInv'
  <1>1. FamilyInv'
    BY BuildNextInv DEF BuildInv
  <1>2. CASE UNCHANGED vars
    <2>1. UNCHANGED <<bc, embedding, converted, hbo, hbm, inUse, run, pc, pos, staged>>
      BY <1>2 DEF vars, files
    <2>2. /\ ArtifactsTyped' /\ OneSource' /\ AnyMade' = AnyMade
          /\ \A export \in Configs : ArtifactsOf(export)' = ArtifactsOf(export)
      BY <2>1, ArtifactsStay, SourcesStay
    <2>3. ControlTyped'
      BY <2>1 DEF BuildInv, ControlTyped
    <2>4. ExportFirst'
      BY <2>1, <2>2, SourcesStay DEF BuildInv, ExportFirst
    <2>5. Owned'
      BY <2>1 DEF BuildInv, Owned, Building, OwnFiles, ArtifactsOf
    <2>6. PassedStages'
      BY <2>1 DEF BuildInv, PassedStages, StageMade, ContractMatches, Fits
    <2> QED BY <1>1, <2>2, <2>3, <2>4, <2>5, <2>6 DEF BuildInv
  <1>3. CASE Next
    BY <1>1, <1>3, StartBuilds, CheckBuilds, ExportBuilds, RecheckBuilds, InterruptBuilds,
       ConvertBuilds, CompileBuilds, LinkBuilds, MismatchBuilds, PowerBuilds DEF Next, Progress
  <1> QED BY <1>2, <1>3

\* The invariant gives what the models promise.
LEMMA InvWeights == BuildInv => OneWeightSet
  <1> SUFFICES ASSUME BuildInv, NEW key \in HbmKeys, Intact(hbm[key])
               PROVE  \E export \in Configs :
                        /\ hbm[key].weights = {export}
                        /\ embedding = export \/ Superseded(export)
    BY DEF OneWeightSet
  <1>1. AnyMade
    BY DEF AnyMade, Intact
  <1>2. PICK export \in Configs : ArtifactsOf(export) /\ Source(export)
    BY <1>1 DEF BuildInv, OneSource
  <1>3. embedding = export \/ Superseded(export)
    <2>1. CASE Complete(export)
      BY <2>1 DEF Complete, TableOf, Superseded
    <2>2. CASE Displaced(export)
      BY <2>2, StagesAreGraphs DEF Displaced, Begun, Superseded
    <2> QED BY <1>2, <2>1, <2>2 DEF Source
  <1> QED BY <1>2, <1>3 DEF ArtifactsOf

LEMMA InvOneModel == BuildInv => OneModel
  <1> SUFFICES ASSUME BuildInv PROVE OneModel
    OBVIOUS
  <1>1. TypeOK
    BY DEF BuildInv, FamilyInv, FilesTyped, ArtifactsTyped, ControlTyped, TypeOK
  <1>2. FamilyOfOneExport /\ OneWeightSet
    BY InvFamily, InvWeights DEF BuildInv
  <1>3. FreshRunOwnsModel
    <2> SUFFICES ASSUME pc = "done", run.target = "hbm", ~run.resume, NEW key \in HbmKeys
                 PROVE  hbm[key].weights = {run.config} /\ hbm[key].options = {run.config}
      BY DEF FreshRunOwnsModel
    <2>1. PICK i \in 1 .. Len(Plan) : Plan[i].kind = "link" /\ PathCore(Plan[i].core) = key
      BY PlanFacts
    <2>2. StageMade(Plan[i])
      BY <2>1 DEF BuildInv, PassedStages
    <2>3. Intact(hbm[key])
      BY <2>1, <2>2 DEF StageMade
    <2> QED BY <2>3 DEF BuildInv, Owned, Building, OwnFiles, ArtifactsOf
  <1> QED BY <1>1, <1>2, <1>3 DEF OneModel

LEMMA InvCompleted == BuildInv => CompletedRunHasModels
  <1> SUFFICES ASSUME BuildInv, pc = "done", run.target = "hbm" PROVE CompletedRunHasModels
    BY DEF CompletedRunHasModels
  <1>1. staged = TotalStages /\ \A i \in 1 .. Len(Plan) : StageMade(Plan[i])
    BY DEF BuildInv, PassedStages
  <1>2. ASSUME NEW key \in HbmKeys PROVE Intact(hbm[key]) /\ ContractMatches(hbm[key])
    <2>1. PICK i \in 1 .. Len(Plan) : Plan[i].kind = "link" /\ PathCore(Plan[i].core) = key
      BY PlanFacts
    <2> QED BY <1>1, <2>1 DEF StageMade
  <1> QED BY <1>1, <1>2 DEF CompletedRunHasModels

(* Whatever was built, killed and resumed before, with any configurations,   *)
(* graphs and core counts: no linked model mixes the weights of two exports, *)
(* all have those of the embedding table beside them unless a run of another *)
(* chunk or cache has been in the directory, and the models of a run without *)
(* --resume are of its own configuration alone.                              *)
THEOREM ModelsAreOfOneExport == Spec => []OneModel
  <1> QED BY BuildingBegins, BuildingGoesOn, InvOneModel, PTL DEF Spec

(* A build that reports success leaves every model it names, opened and      *)
(* checked for its own chunk and cache, whatever others were built before,   *)
(* after as many stages as StageProgress was told there would be.   *)
THEOREM CompletedBuildsHaveModels == Spec => []CompletedRunHasModels
  <1> QED BY BuildingBegins, BuildingGoesOn, InvCompleted, PTL DEF Spec

-----------------------------------------------------------------------------
(* The build as resumable work, for the release path.  There a run works off *)
(* every artifact once, so that what a run without --resume comes to is not  *)
(* there; in a run with it, what is there and opens is kept.                 *)
PlanDistinct ==
  \A i, j \in 1 .. Len(Plan) :
    i < j /\ Plan[i].kind = Plan[j].kind /\ Plan[i].kind # "link" =>
      Plan[i].graph # Plan[j].graph

ReleaseStage(i) ==
  \/ /\ i \in 1 .. Len(StageOrder) /\ Plan[i] = Convert(StageOrder[i])
  \/ \E a \in 1 .. Len(SharedGraphs) :
       i = Len(StageOrder) + a /\ Plan[i] = Compile(SharedGraphs[a], 0)
  \/ \E a \in 1 .. Len(ArStages) :
       /\ i = Len(StageOrder) + Len(SharedGraphs) + a
       /\ Plan[i] = Compile(ArStages[a], ArCores[1])
  \/ /\ i = Len(StageOrder) + Len(SharedGraphs) + Len(ArStages) + 1
     /\ Plan[i] = Link(ArCores[1])

LEMMA ReleaseStages ==
  ASSUME ReleasePath
  PROVE  \A i \in 1 .. Len(Plan) : ReleaseStage(i)
  <1> DEFINE n == Len(StageOrder)
             m == Len(SharedGraphs)
             k == Len(ArStages)
             V == VariantsPlan[Len(ArCores)]
             W == VariantPlan(ArCores[1])
  <1>1. Len(ArCores) = 1 /\ 1 \in 1 .. Len(ArCores)
    BY CoresGiven DEF CoresGiven
  <1>2. /\ W \in Seq(VariantSteps) /\ Len(W) = k + 1 /\ W[k + 1] = Link(ArCores[1])
        /\ \A a \in 1 .. k : W[a] = Compile(ArStages[a], ArCores[1])
    BY <1>1, VariantPlanFacts
  <1>3. V = <<>> \o W
    <2>1. VariantsPlan[1] = VariantsPlan[1 - 1] \o W
      BY <1>1, VariantsUnfold
    <2>2. VariantsPlan[1 - 1] = <<>>
      BY VariantsUnfold
    <2> QED BY <1>1, <2>1, <2>2
  <1>4. k \in Nat
    BY StagesFacts
  <1>5. /\ n \in Nat /\ m \in Nat /\ Len(V) \in Nat /\ Len(Plan) = n + m + Len(V)
        /\ \A i \in 1 .. n : Plan[i] = Convert(StageOrder[i])
        /\ \A i \in 1 .. m : Plan[n + i] = Compile(SharedGraphs[i], 0)
        /\ \A i \in 1 .. Len(V) : Plan[n + m + i] = V[i]
    BY PlanParts
  <1> HIDE DEF W, V
  <1>6. Len(V) = k + 1 /\ \A a \in 1 .. k + 1 : V[a] = W[a]
    <2>1. \A s \in Seq(VariantSteps) : <<>> \o s = s
      OBVIOUS
    <2>2. V = W
      BY <1>2, <1>3, <2>1
    <2> QED BY <1>2, <2>2
  <1> SUFFICES ASSUME NEW i \in 1 .. Len(Plan) PROVE ReleaseStage(i)
    OBVIOUS
  <1>7. \/ i \in 1 .. n
        \/ \E a \in 1 .. m : i = n + a
        \/ \E a \in 1 .. k : i = n + m + a
        \/ i = n + m + k + 1
    <2> HIDE DEF n, m, k
    <2>1. i \in Nat /\ i <= n + m + k + 1 /\ 1 <= i
      BY <1>4, <1>5, <1>6
    <2>2. CASE i > n /\ i <= n + m
      BY <1>5, <2>1, <2>2, i - n \in 1 .. m, i = n + (i - n)
    <2>3. CASE i > n + m /\ i <= n + m + k
      <3> DEFINE a == i - (n + m)
      <3>1. a \in 1 .. k /\ i = n + m + a
        BY <1>4, <1>5, <2>1, <2>3
      <3> QED BY <3>1
    <2>4. CASE i <= n \/ i > n + m + k
      BY <1>4, <1>5, <2>1, <2>4
    <2> QED BY <1>4, <1>5, <2>1, <2>2, <2>3, <2>4
  <1> HIDE DEF n, m, k
  <1>8. \A a \in 1 .. k : a \in 1 .. k + 1 /\ Plan[n + m + a] = Compile(ArStages[a], ArCores[1])
    BY <1>2, <1>4, <1>5, <1>6
  <1>9. k + 1 \in 1 .. k + 1 /\ Plan[n + m + (k + 1)] = Link(ArCores[1])
    BY <1>2, <1>4, <1>5, <1>6
  <1>10. n + m + k + 1 = n + m + (k + 1)
    BY <1>4, <1>5
  <1> QED BY <1>5, <1>7, <1>8, <1>9, <1>10 DEF ReleaseStage, n, m, k

\* In the release path no stage of a kind is there twice for a graph.
LEMMA ReleasePlanDistinct ==
  ASSUME ReleasePath
  PROVE  PlanDistinct
  <1> DEFINE n == Len(StageOrder)
             m == Len(SharedGraphs)
             k == Len(ArStages)
  <1>1. n \in Nat /\ m \in Nat /\ k \in Nat
    BY StagesFacts, StagesAreGraphs
  <1>2. /\ \A a \in 1 .. m : SharedGraphs[a] \in Graphs \ ArGraphs
        /\ \A a \in 1 .. k : ArStages[a] \in Graphs \cap ArGraphs
        /\ \A a, b \in 1 .. n : StageOrder[a] = StageOrder[b] => a = b
        /\ \A a, b \in 1 .. m : SharedGraphs[a] = SharedGraphs[b] => a = b
        /\ \A a, b \in 1 .. k : ArStages[a] = ArStages[b] => a = b
    BY StagesFacts, StagesAreGraphs
  <1>3. /\ \A graph : Convert(graph).kind = "convert" /\ Convert(graph).graph = graph
        /\ \A graph, core : Compile(graph, core).kind = "compile" /\ Compile(graph, core).graph = graph
        /\ \A core : Link(core).kind = "link"
    BY DEF Convert, Compile, Link
  <1> DEFINE Converts(i) == i \in 1 .. n /\ Plan[i].kind = "convert" /\ Plan[i].graph = StageOrder[i]
             Shares(i) == \E a \in 1 .. m : /\ i = n + a /\ Plan[i].kind = "compile"
                                            /\ Plan[i].graph = SharedGraphs[a]
             Varies(i) == \E a \in 1 .. k : /\ i = n + m + a /\ Plan[i].kind = "compile"
                                            /\ Plan[i].graph = ArStages[a]
  <1>4. ASSUME NEW i \in 1 .. Len(Plan), Plan[i].kind # "link"
        PROVE  Converts(i) \/ Shares(i) \/ Varies(i)
    <2>1. ReleaseStage(i)
      BY ReleaseStages
    <2> QED BY <1>3, <1>4, <2>1 DEF ReleaseStage
  <1> SUFFICES ASSUME NEW i \in 1 .. Len(Plan), NEW j \in 1 .. Len(Plan), i < j,
                      Plan[i].kind = Plan[j].kind, Plan[i].kind # "link"
               PROVE  Plan[i].graph # Plan[j].graph
    BY DEF PlanDistinct
  <1>5. /\ Converts(i) \/ Shares(i) \/ Varies(i)
        /\ Converts(j) \/ Shares(j) \/ Varies(j)
    BY <1>4
  <1> HIDE DEF n, m, k
  <1>6. CASE Converts(i) /\ Converts(j)
    BY <1>2, <1>6
  <1>7. CASE Shares(i) /\ Shares(j)
    BY <1>1, <1>2, <1>7
  <1>8. CASE Varies(i) /\ Varies(j)
    BY <1>1, <1>2, <1>8
  <1>9. CASE (Shares(i) /\ Varies(j)) \/ (Varies(i) /\ Shares(j))
    BY <1>2, <1>9
  <1>10. ~(Converts(i) /\ (Shares(j) \/ Varies(j))) /\ ~(Converts(j) /\ (Shares(i) \/ Varies(i)))
    OBVIOUS
  <1> QED BY <1>5, <1>6, <1>7, <1>8, <1>9, <1>10

\* Every graph is converted before anything is linked.
LEMMA ConvertedBeforeLink ==
  ASSUME NEW i \in 1 .. Len(Plan), Plan[i].kind = "link", NEW graph \in Graphs
  PROVE  \E j \in 1 .. i - 1 : Plan[j].kind = "convert" /\ Plan[j].graph = graph
  <1> DEFINE n == Len(StageOrder)
  <1>1. n \in Nat /\ \A j \in 1 .. n : Plan[j] = Convert(StageOrder[j])
    BY PlanParts
  <1>6. \A g : Convert(g).kind = "convert" /\ Convert(g).graph = g
    BY DEF Convert
  <1>2. i \notin 1 .. n
    BY <1>1, <1>6
  <1>3. PICK j \in 1 .. n : StageOrder[j] = graph
    BY StagesAreGraphs
  <1>4. Plan[j].kind = "convert" /\ Plan[j].graph = graph
    BY <1>1, <1>3, <1>6
  <1>5. j \in 1 .. i - 1
    <2> HIDE DEF n
    <2>1. i \in Nat /\ i > n
      BY <1>1, <1>2, PlanFacts
    <2> QED BY <1>1, <2>1
  <1> QED BY <1>4, <1>5

\* What a run without --resume has not come to is not there.
Untouched(step) ==
  /\ step.kind = "convert" => converted[step.graph] = NoFile
  /\ step.kind = "compile" => hbo[HboKey(step.graph, step.core)] = NoFile

NotYet == pc = "build" /\ ~run.resume => \A i \in pos .. Len(Plan) : Untouched(Plan[i])

LEMMA NotYetGoesOn ==
  ASSUME ReleasePath, BuildInv, NotYet, [Next]_vars
  PROVE  NotYet'
  <1> SUFFICES ASSUME pc' = "build", ~run'.resume PROVE \A i \in pos' .. Len(Plan) : Untouched(Plan[i])'
    BY DEF NotYet
  <1>1. CASE UNCHANGED vars
    <2>1. UNCHANGED <<converted, hbo, run, pc, pos>>
      BY <1>1 DEF vars, files
    <2> QED BY <2>1 DEF NotYet, Untouched
  <1>2. CASE Check
    <2>1. /\ pc = "check" /\ run' = run /\ TakesSources /\ SourcesValid(run.config)
      BY <1>2 DEF Check, TakesSources
    <2>2. \A n \in Names, graph \in Graphs : bc[n][graph] = NoFile
      BY <2>1 DEF BuildInv, FamilyInv, FreshIsEmpty
    <2> QED BY <2>1, <2>2, StagesAreGraphs DEF SourcesValid, Intact
  <1>3. CASE Recheck
    <2>1. ~AnyMade /\ UNCHANGED <<converted, hbo, pos>> /\ pos = 1
      BY <1>3 DEF Recheck, files, BuildInv, ExportFirst, ControlTyped
    <2>2. ASSUME NEW i \in 1 .. Len(Plan) PROVE Untouched(Plan[i])'
      BY <2>1, PlanFacts DEF Untouched, StepTyped, AnyMade
    <2> QED BY <2>1, <2>2
  <1>4. CASE ConvertStage \/ CompileStage \/ LinkStage
    <2>1. pc = "build" /\ Advance
      BY <1>4 DEF ConvertStage, CompileStage, LinkStage
    <2>2. pos' = pos + 1 /\ run' = run /\ pos \in 1 .. Len(Plan) /\ Len(Plan) \in Nat /\ Step = Plan[pos]
      BY <2>1, AdvanceFacts, StageContext DEF Step
    <2> SUFFICES ASSUME NEW i \in pos + 1 .. Len(Plan) PROVE Untouched(Plan[i])'
      BY <2>2
    <2>3. i \in 1 .. Len(Plan) /\ i \in pos .. Len(Plan) /\ pos < i
      BY <2>2
    <2>4. Untouched(Plan[i]) /\ StepTyped(Plan[i])
      BY <2>1, <2>2, <2>3, PlanFacts DEF NotYet
    <2>5. Plan[pos].kind = Plan[i].kind /\ Plan[pos].kind # "link" => Plan[pos].graph # Plan[i].graph
      BY <2>2, <2>3, ReleasePlanDistinct DEF PlanDistinct
    <2> DEFINE step == Plan[i]
    <2>6. /\ Untouched(step) /\ StepTyped(step)
          /\ Step.kind = step.kind /\ Step.kind # "link" => Step.graph # step.graph
      BY <2>2, <2>4, <2>5
    <2> HIDE DEF step
    <2>7. CASE ConvertStage
      <3>1. hbo' = hbo /\ \A graph \in Graphs : graph # Step.graph => converted'[graph] = converted[graph]
        BY <2>7 DEF ConvertStage, BuildInv, ArtifactsTyped
      <3>2. Step.kind = "convert"
        BY <2>7 DEF ConvertStage
      <3>3. Untouched(step)'
        BY <2>6, <3>1, <3>2 DEF Untouched, StepTyped
      <3> QED BY <3>3 DEF step
    <2>8. CASE CompileStage
      <3> DEFINE key == HboKey(Step.graph, Step.core)
      <3>1. converted' = converted /\ \A other \in HboKeys : other # key => hbo'[other] = hbo[other]
        BY <2>8 DEF CompileStage, BuildInv, ArtifactsTyped
      <3>2. Step.kind = "compile"
        BY <2>8 DEF CompileStage
      <3>3. Step.graph # step.graph => HboKey(step.graph, step.core) # key
        BY DEF HboKey
      <3> HIDE DEF key
      <3>4. Untouched(step)'
        BY <2>6, <3>1, <3>2, <3>3 DEF Untouched, StepTyped
      <3> QED BY <3>4 DEF step
    <2>9. CASE LinkStage
      <3>1. converted' = converted /\ hbo' = hbo
        BY <2>9 DEF LinkStage
      <3>2. Untouched(step)'
        BY <2>6, <3>1 DEF Untouched
      <3> QED BY <3>2 DEF step
    <2> QED BY <1>4, <2>7, <2>8, <2>9
  <1>5. CASE \/ \E config \in Configs, target \in {"bc", "hbm"}, resume \in BOOLEAN :
                  Start(config, target, resume)
             \/ SaveEmbedding \/ Export \/ LinkMismatch \/ Interrupt \/ LosePower
    <2>1. CASE Export
      BY <2>1 DEF Export
    <2> QED BY <1>5, <2>1 DEF Start, SaveEmbedding, LinkMismatch, Interrupt, LosePower
  <1> QED BY <1>1, <1>2, <1>3, <1>4, <1>5 DEF Next, Progress

-----------------------------------------------------------------------------
WorkItems == {"convert", "compile"} \X Graphs
FileOf(item) == IF item[1] = "convert" THEN converted[item[2]] ELSE hbo[HboKey(item[2], 0)]

\* What Work sees of the files.
Stored == [item \in {"convert", "compile"} \X Graphs |->
             MadeBy(IF item[1] = "convert" THEN converted[item[2]]
                    ELSE hbo[HboKey(item[2], 0)])]
Result == IF \E key \in HbmKeys : ~Intact(hbm[key]) THEN "none"
          ELSE IF \A key \in HbmKeys : hbm[key].matches THEN "published"
          ELSE "rejected"

LEMMA StoredFiles ==
  /\ Stored = [item \in WorkItems |-> MadeBy(FileOf(item))]
  /\ \A item \in WorkItems : Stored[item] = MadeBy(FileOf(item))
  BY DEF Stored, WorkItems, FileOf

LEMMA FinishesStage ==
  ASSUME NEW item \in WorkItems, NEW maker \in Configs, Stored[item] = NoFile,
         Stored' = [Stored EXCEPT ![item] = maker], Result' = Result
  PROVE  Work!Next
  <1>1. Work!Finish(item)
    BY Zenon DEF Work!Finish, Stored, Result
  <1> QED BY <1>1, Zenon DEF Work!Next, WorkItems

LEMMA LosesFiles ==
  ASSUME \A item \in WorkItems : Stored'[item] = Stored[item] \/ Stored'[item] = NoFile,
         Result' \in {Result, "none"}
  PROVE  Work!Next
  <1> DEFINE lost == {item \in WorkItems : Stored'[item] = NoFile}
             F(gone) == Stored' = [item \in WorkItems |-> IF item \in gone THEN NoFile ELSE Stored[item]]
  <1>1. Stored' = [item \in WorkItems |-> MadeBy(FileOf(item))']
    BY DEF Stored, WorkItems, FileOf
  <1>2. F(lost)
    <2> DEFINE value(item) == MadeBy(FileOf(item))'
    <2>1. Stored' = [item \in WorkItems |-> value(item)]
      BY <1>1
    <2> HIDE DEF value
    <2> QED BY <2>1
  <1> HIDE DEF F
  <1>3. \E gone \in SUBSET WorkItems : F(gone)
    BY <1>2
  <1>4. Work!Lose
    BY <1>3, Zenon DEF F, Work!Lose, Stored, Result, WorkItems
  <1> QED BY <1>4 DEF Work!Next

LEMMA LinksAll ==
  ASSUME \A item \in WorkItems : Stored[item] # NoFile,
         Stored' = Stored, Result' \in {"rejected", "published"}
  PROVE  Work!Next
  <1>1. Work!Publish
    BY Zenon DEF Work!Publish, Stored, Result, WorkItems
  <1> QED BY <1>1 DEF Work!Next

LEMMA StuttersWork ==
  ASSUME UNCHANGED <<converted, hbo, hbm>>
  PROVE  UNCHANGED Work!workVars
  <1>1. Stored' = Stored
    BY DEF Stored
  <1>2. Result' = Result
    BY DEF Result
  <1> QED BY <1>1, <1>2, Zenon DEF Work!workVars, Stored, Result

\* In the release path there is one file of a graph, whatever its core count.
LEMMA ReleaseKey == ASSUME ReleasePath PROVE \A graph, core : HboKey(graph, core) = HboKey(graph, 0)
  BY DEF HboKey, PathCore

LEMMA MadeByMaker ==
  ASSUME NEW weights \in Configs, NEW options \in Configs
  PROVE  MadeBy(Made(weights, options)) = options
  BY MadeFacts DEF MadeBy

\* A stage that writes the file of an item that was not there.
LEMMA WritesFile ==
  ASSUME NEW item \in WorkItems, Stored[item] = NoFile, NEW file, MadeBy(file) \in Configs,
         \A other \in WorkItems : FileOf(other)' = IF other = item THEN file ELSE FileOf(other),
         hbm' = hbm
  PROVE  Work!Next
  <1>1. Stored' = [Stored EXCEPT ![item] = MadeBy(file)]
    <2>1. Stored' = [other \in WorkItems |-> MadeBy(FileOf(other)')]
      BY DEF Stored, WorkItems, FileOf, MadeBy, Intact
    <2>2. \A other \in WorkItems :
            MadeBy(FileOf(other)') = IF other = item THEN MadeBy(file) ELSE Stored[other]
      BY StoredFiles
    <2>3. Stored' = [other \in WorkItems |-> IF other = item THEN MadeBy(file) ELSE Stored[other]]
      BY <2>1, <2>2
    <2>4. DOMAIN Stored = WorkItems
      BY StoredFiles
    <2> QED BY <2>3, <2>4, StoredFiles
  <1>2. Result' = Result
    BY DEF Result
  <1> QED BY <1>1, <1>2, FinishesStage

\* What is not kept is not there: a run with --resume keeps what opens, and
\* one without has not come to it.
LEMMA NotKept ==
  ASSUME BuildInv, NotYet, pc = "build"
  PROVE  /\ Step.kind = "convert" /\ ~KeepsConverted(Step.graph) => ~Intact(converted[Step.graph])
         /\ Step.kind = "compile" /\ ~KeepsHbo(HboKey(Step.graph, Step.core)) =>
              ~Intact(hbo[HboKey(Step.graph, Step.core)])
  <1>1. CASE run.resume
    <2>1. PICK export \in Configs : Sourced(export)
      BY StageContext
    <2>2. Step.kind = "convert" => Step.graph \in Graphs
      BY StageContext DEF StepTyped
    <2>3. Step.kind = "convert" /\ Intact(converted[Step.graph]) => Fits(converted[Step.graph].weights)
      BY <2>1, <2>2 DEF Sourced, ArtifactsOf, Fits
    <2> QED BY <1>1, <2>3 DEF KeepsConverted, KeepsHbo
  <1>2. CASE ~run.resume
    <2>1. pos \in pos .. Len(Plan) /\ Step = Plan[pos]
      BY StageContext DEF Step
    <2>2. Untouched(Step)
      BY <1>2, <2>1 DEF NotYet
    <2> QED BY <2>2 DEF Untouched, Intact
  <1> QED BY <1>1, <1>2

LEMMA ConvertWork ==
  ASSUME ReleasePath, BuildInv, NotYet, ConvertStage
  PROVE  [Work!Next]_(Work!workVars)
  <1> DEFINE graph == Step.graph
             item == <<"convert", graph>>
             file == Made(SourceOf(graph), run.config)
  <1>1. /\ pc = "build" /\ Step.kind = "convert" /\ hbo' = hbo /\ hbm' = hbm
        /\ converted' = IF KeepsConverted(graph) THEN converted
                        ELSE [converted EXCEPT ![graph] = file]
    BY DEF ConvertStage
  <1>2. /\ SourceOf(graph) \in Configs /\ run.config \in Configs /\ graph \in Graphs
    BY <1>1, StageContext DEF StepTyped, Sourced
  <1>3. CASE KeepsConverted(graph)
    BY <1>1, <1>3, StuttersWork
  <1>4. CASE ~KeepsConverted(graph)
    <2>1. ~Intact(converted[graph])
      BY <1>1, <1>4, NotKept
    <2>2. item \in WorkItems /\ Stored[item] = NoFile
      <3>1. item \in WorkItems
        BY <1>2 DEF WorkItems
      <3> QED BY <2>1, <3>1, StoredFiles DEF FileOf, MadeBy
    <2>3. converted' = [converted EXCEPT ![graph] = file]
      BY <1>1, <1>4
    <2>4. MadeBy(file) \in Configs
      BY <1>2, MadeByMaker
    <2>5. \A other \in WorkItems :
            FileOf(other)' = IF other = item THEN file ELSE FileOf(other)
      <3> HIDE DEF file, graph
      <3>1. converted'[graph] = file /\ \A g \in Graphs : g # graph => converted'[g] = converted[g]
        BY <1>2, <2>3 DEF BuildInv, ArtifactsTyped
      <3> SUFFICES ASSUME NEW other \in WorkItems
                   PROVE  FileOf(other)' = IF other = item THEN file ELSE FileOf(other)
        OBVIOUS
      <3>2. CASE other = item
        BY <3>1, <3>2 DEF FileOf
      <3>3. CASE other # item
        <4>1. other[1] = "convert" => other[2] \in Graphs /\ other[2] # graph
          BY <3>3 DEF WorkItems
        <4> QED BY <1>1, <3>1, <3>3, <4>1 DEF FileOf
      <3> QED BY <3>2, <3>3
    <2> HIDE DEF file, item
    <2> QED BY <1>1, <2>2, <2>4, <2>5, WritesFile
  <1> QED BY <1>3, <1>4

LEMMA CompileWork ==
  ASSUME ReleasePath, BuildInv, NotYet, CompileStage
  PROVE  [Work!Next]_(Work!workVars)
  <1> DEFINE graph == Step.graph
             key == HboKey(graph, 0)
             item == <<"compile", graph>>
             file == Made(converted[graph].weights, run.config)
  <1>1. HboKey(graph, Step.core) = key
    BY ReleaseKey
  <1>2. /\ pc = "build" /\ Step.kind = "compile" /\ converted' = converted /\ hbm' = hbm
        /\ KeepsHbo(key) \/ Intact(converted[graph])
        /\ hbo' = IF KeepsHbo(key) THEN hbo ELSE [hbo EXCEPT ![key] = file]
    BY <1>1 DEF CompileStage
  <1>3. run.config \in Configs /\ graph \in Graphs
    BY <1>2, StageContext DEF StepTyped
  <1>4. CASE KeepsHbo(key)
    BY <1>2, <1>4, StuttersWork
  <1>5. CASE ~KeepsHbo(key)
    <2>1. ~Intact(hbo[key])
      BY <1>1, <1>2, <1>5, NotKept
    <2>2. item \in WorkItems /\ Stored[item] = NoFile
      <3>1. item \in WorkItems
        BY <1>3 DEF WorkItems
      <3> QED BY <2>1, <3>1, StoredFiles DEF FileOf, MadeBy
    <2>3. hbo' = [hbo EXCEPT ![key] = file]
      BY <1>2, <1>5
    <2>4. MadeBy(file) \in Configs
      <3>1. converted[graph].weights \in Configs
        BY <1>2, <1>3, <1>5, IntactArtifacts DEF BuildInv, Contents
      <3> QED BY <1>3, <3>1, MadeByMaker
    <2>5. \A other \in WorkItems :
            FileOf(other)' = IF other = item THEN file ELSE FileOf(other)
      <3>1. key \in HboKeys /\ \A g \in Graphs : HboKey(g, 0) \in HboKeys /\ (g # graph => HboKey(g, 0) # key)
        BY <1>3, KeysFacts DEF HboKey
      <3> HIDE DEF file, key, graph
      <3>2. hbo'[key] = file /\ \A k \in HboKeys : k # key => hbo'[k] = hbo[k]
        BY <2>3, <3>1 DEF BuildInv, ArtifactsTyped
      <3> SUFFICES ASSUME NEW other \in WorkItems
                   PROVE  FileOf(other)' = IF other = item THEN file ELSE FileOf(other)
        OBVIOUS
      <3>3. CASE other = item
        <4>1. other[1] # "convert" /\ other[2] = graph
          BY <3>3
        <4>2. FileOf(other)' = hbo'[key]
          BY <4>1 DEF FileOf, key
        <4> QED BY <3>2, <3>3, <4>2
      <3>4. CASE other # item
        <4>1. other[1] # "convert" => other[2] \in Graphs /\ other[2] # graph
          BY <3>4 DEF WorkItems
        <4> QED BY <1>2, <3>1, <3>2, <3>4, <4>1 DEF FileOf
      <3> QED BY <3>3, <3>4
    <2> HIDE DEF file, item
    <2> QED BY <1>2, <2>2, <2>4, <2>5, WritesFile
  <1> QED BY <1>4, <1>5

\* When a model is linked every artifact is there.
LEMMA AllStored ==
  ASSUME ReleasePath, BuildInv, pc = "build", Step.kind = "link",
         \A file \in LinkedHbos(Step.core) : Intact(file)
  PROVE  \A item \in WorkItems : Stored[item] # NoFile
  <1> SUFFICES ASSUME NEW item \in WorkItems PROVE Stored[item] # NoFile
    OBVIOUS
  <1> DEFINE graph == item[2]
  <1>1. graph \in Graphs /\ item[1] \in {"convert", "compile"}
    BY DEF WorkItems
  <1>2. Intact(FileOf(item)) /\ FileOf(item) \in Contents
    <2>1. CASE item[1] = "convert"
      <3>1. pos \in 1 .. Len(Plan) /\ Plan[pos].kind = "link"
        BY StageContext DEF Step
      <3>2. PICK j \in 1 .. pos - 1 : Plan[j].kind = "convert" /\ Plan[j].graph = graph
        BY <1>1, <3>1, ConvertedBeforeLink
      <3>3. StageMade(Plan[j])
        BY StageContext
      <3>4. Intact(converted[graph])
        BY <3>2, <3>3 DEF StageMade
      <3> QED BY <1>1, <2>1, <3>4, IntactArtifacts DEF FileOf, BuildInv
    <2>2. CASE item[1] # "convert"
      <3>1. hbo[HboKey(graph, Step.core)] \in LinkedHbos(Step.core)
        BY <1>1 DEF LinkedHbos
      <3>2. HboKey(graph, Step.core) = HboKey(graph, 0) /\ HboKey(graph, 0) \in HboKeys
        BY <1>1, ReleaseKey, KeysFacts
      <3> QED BY <1>1, <2>2, <3>1, <3>2, IntactArtifacts DEF FileOf, BuildInv
    <2> QED BY <2>1, <2>2
  <1>3. MadeBy(FileOf(item)) \in Configs
    BY <1>2 DEF MadeBy, Contents
  <1>4. NoFile \notin Configs
    BY NotContents DEF NotContents
  <1> QED BY <1>3, <1>4, StoredFiles

LEMMA LinkedWork ==
  ASSUME ReleasePath, BuildInv, pc = "build", Step.kind = "link",
         \A file \in LinkedHbos(Step.core) : Intact(file), NEW matches \in BOOLEAN,
         hbm' = [hbm EXCEPT ![PathCore(Step.core)] = Linked(Step.core, matches)],
         UNCHANGED <<converted, hbo>>
  PROVE  Work!Next
  <1> DEFINE core == Step.core
             file == Linked(core, matches)
  <1>1. PathCore(core) \in HbmKeys /\ \A graph \in Graphs : HboKey(graph, core) \in HboKeys
    BY StageContext DEF StepTyped
  <1>2. Intact(file)
    <2>1. PICK export \in Configs : Sourced(export)
      BY StageContext
    <2> QED BY <1>1, <2>1, LinkedFacts
  <1>3. \A key \in HbmKeys : key = PathCore(core)
    BY KeysFacts DEF PathCore
  <1> HIDE DEF file, core
  <1>4. \A key \in HbmKeys : hbm'[key] = file
    BY <1>1, <1>3 DEF BuildInv, ArtifactsTyped, core, file
  <1>5. Result' \in {"rejected", "published"}
    BY <1>2, <1>4 DEF Result, Intact
  <1>6. Stored' = Stored
    BY DEF Stored
  <1> QED BY <1>5, <1>6, AllStored, LinksAll

LEMMA LinkWork ==
  ASSUME ReleasePath, BuildInv, LinkStage \/ LinkMismatch
  PROVE  [Work!Next]_(Work!workVars)
  <1>1. /\ pc = "build" /\ Step.kind = "link" /\ converted' = converted /\ hbo' = hbo
    BY DEF LinkStage, LinkMismatch
  <1>2. CASE LinkStage /\ KeepsHbm(Step.core)
    <2>1. hbm' = hbm
      BY <1>2 DEF LinkStage
    <2> QED BY <1>1, <2>1, StuttersWork
  <1>3. CASE LinkStage /\ ~KeepsHbm(Step.core)
    <2>1. /\ \A file \in LinkedHbos(Step.core) : Intact(file)
          /\ hbm' = [hbm EXCEPT ![PathCore(Step.core)] = Linked(Step.core, TRUE)]
      BY <1>3 DEF LinkStage
    <2> QED BY <1>1, <2>1, LinkedWork
  <1>4. CASE LinkMismatch
    <2>1. /\ \A file \in LinkedHbos(Step.core) : Intact(file)
          /\ hbm' = [hbm EXCEPT ![PathCore(Step.core)] = Linked(Step.core, FALSE)]
      BY <1>4 DEF LinkMismatch
    <2> QED BY <1>1, <2>1, LinkedWork
  <1> QED BY <1>2, <1>3, <1>4

\* A machine that stops costs the file written last, or nothing.
LEMMA PowerWork ==
  ASSUME BuildInv, LosePower
  PROVE  Work!Next
  <1>1. \/ converted' = converted
        \/ \E graph : converted' = [converted EXCEPT ![graph] = Damaged]
    BY DEF LosePower
  <1>2. hbo' = hbo \/ \E key : hbo' = [hbo EXCEPT ![key] = Damaged]
    BY DEF LosePower
  <1>3. hbm' = hbm \/ \E key : hbm' = [hbm EXCEPT ![key] = Damaged]
    BY DEF LosePower
  <1>4. /\ \A graph \in Graphs : converted'[graph] = converted[graph] \/ converted'[graph] = Damaged
        /\ \A key \in HboKeys : hbo'[key] = hbo[key] \/ hbo'[key] = Damaged
        /\ \A key \in HbmKeys : hbm'[key] = hbm[key] \/ hbm'[key] = Damaged
    BY <1>1, <1>2, <1>3 DEF BuildInv, ArtifactsTyped
  <1>5. ~Intact(Damaged) /\ MadeBy(Damaged) = NoFile
    BY DEF Intact, MadeBy
  <1>6. ASSUME NEW item \in WorkItems PROVE Stored'[item] = Stored[item] \/ Stored'[item] = NoFile
    <2>1. item[2] \in Graphs /\ HboKey(item[2], 0) \in HboKeys
      BY KeysFacts DEF WorkItems
    <2>2. FileOf(item)' = FileOf(item) \/ FileOf(item)' = Damaged
      BY <1>4, <2>1 DEF FileOf
    <2>3. Stored'[item] = MadeBy(FileOf(item)')
      BY DEF Stored, WorkItems, FileOf, MadeBy, Intact
    <2> QED BY <1>5, <2>2, <2>3, StoredFiles
  <1>7. Result' \in {Result, "none"}
    <2>1. CASE \E key \in HbmKeys : ~Intact(hbm'[key])
      BY <2>1 DEF Result, Intact
    <2>2. CASE \A key \in HbmKeys : Intact(hbm'[key])
      <3>1. \A key \in HbmKeys : hbm'[key] = hbm[key]
        BY <1>4, <1>5, <2>2
      <3> QED BY <2>2, <3>1 DEF Result, Intact
    <2> QED BY <2>1, <2>2
  <1> QED BY <1>6, <1>7, LosesFiles

LEMMA BuildWork ==
  ASSUME ReleasePath, BuildInv, NotYet, [Next]_vars
  PROVE  [Work!Next]_(Work!workVars)
  <1>1. CASE \/ \E config \in Configs, target \in {"bc", "hbm"}, resume \in BOOLEAN :
                  Start(config, target, resume)
             \/ Check \/ SaveEmbedding \/ Export \/ Recheck \/ Interrupt \/ UNCHANGED vars
    <2>1. UNCHANGED <<converted, hbo, hbm>>
      BY <1>1 DEF Start, Check, SaveEmbedding, Export, Recheck, Interrupt, vars, files
    <2> QED BY <2>1, StuttersWork
  <1>2. CASE ConvertStage \/ CompileStage \/ LinkStage \/ LinkMismatch \/ LosePower
    BY <1>2, ConvertWork, CompileWork, LinkWork, PowerWork
  <1> QED BY <1>1, <1>2 DEF Next, Progress

LEMMA WorkBegins == ASSUME Init PROVE Work!Init /\ NotYet
  <1>1. /\ \A graph \in Graphs : converted[graph] = NoFile
        /\ \A key \in HboKeys : hbo[key] = NoFile
    BY DEF Init
  <1>2. Stored = [item \in WorkItems |-> NoFile]
    <2>1. \A item \in WorkItems : MadeBy(FileOf(item)) = NoFile
      <3>1. \A item \in WorkItems : item[2] \in Graphs /\ HboKey(item[2], 0) \in HboKeys
        BY KeysFacts DEF WorkItems
      <3> QED BY <1>1, <3>1 DEF FileOf, MadeBy, Intact
    <2> QED BY <2>1, StoredFiles
  <1>3. Result = "none"
    <2>1. HbmKeys # {}
      BY KeysFacts, CoresFacts
    <2>2. \A key \in HbmKeys : hbm[key] = NoFile
      BY DEF Init
    <2> QED BY <2>1, <2>2 DEF Result, Intact
  <1>4. Work!Init
    BY <1>2, <1>3, Zenon DEF Work!Init, Stored, Result, WorkItems
  <1>5. NotYet
    BY DEF Init, NotYet
  <1> QED BY <1>4, <1>5

(* The release build is resumable work.  Whatever is interrupted, loses the  *)
(* machine's power, is resumed or started with another configuration: each   *)
(* graph is converted and compiled at most once while the file is there, and *)
(* a model is put in place only when all of them are, be it one that is then *)
(* found not to have the graphs it should.                                   *)
THEOREM BuildIsResumable == ASSUME ReleasePath PROVE Spec => ImplementsWork
  <1>1. Init => BuildInv /\ NotYet /\ Work!Init
    BY BuildingBegins, WorkBegins
  <1>2. BuildInv /\ NotYet /\ [Next]_vars => BuildInv' /\ NotYet'
    BY BuildingGoesOn, NotYetGoesOn
  <1>3. BuildInv /\ NotYet /\ [Next]_vars => [Work!Next]_(Work!workVars)
    BY BuildWork
  <1> QED BY <1>1, <1>2, <1>3, PTL DEF Spec, ImplementsWork, Work!Spec
=============================================================================
