------------------------ MODULE PbdRowExecutorProofs ------------------------
(***************************************************************************)
(* For any number of workers, callers and generations: the count of        *)
(* pending workers is exact, workers decode through the arguments of a     *)
(* call that has not returned, a call returns when every row was decoded   *)
(* once, and nobody touches its results afterwards.                        *)
(*                                                                         *)
(* The inductive invariant ties the threads together: the holder of        *)
(* call_mutex is the only caller that is doing anything; while it is live  *)
(* its arguments are the published job; while nobody is live no worker has *)
(* anything to do; a worker that decodes or reports has seen the current   *)
(* generation and holds its job; and a row is written exactly when its     *)
(* thread has passed the point that writes it.                             *)
(***************************************************************************)
EXTENDS PbdRowExecutor, TLAPS, FiniteSetTheorems, SequenceTheorems

Jobs == Callers \X Nat

Types ==
  /\ caller \in [Callers -> Live \cup {"idle", "entered"}]
  /\ calls \in [Callers -> Nat]
  /\ written \in [Callers -> [Rows -> Seq(Jobs)]]
  /\ callMutex \in Callers \cup {Idle}
  /\ generation \in 0 .. Generations - 1
  /\ pending \in Nat
  /\ worker \in [Workers -> {"checking", "asleep", "decoding", "reporting", "exited"}]
  /\ observed \in [Workers -> 0 .. Generations - 1]
  /\ held \in [Workers -> Jobs \cup {Idle}]

OneCaller == \A c \in Callers : caller[c] # "idle" <=> callMutex = c

JobPublished == \A c \in Callers : caller[c] \in Live => job = Job(c)

QuietWithoutCall == (\A c \in Callers : caller[c] \notin Live) => \A w \in Workers : ~Unfinished(w)

WorkersHold ==
  \A w \in Workers : worker[w] \in {"decoding", "reporting"} =>
    observed[w] = generation /\ held[w] = job

\* Worker w has still to write its row.
Unwritten(w) == worker[w] = "decoding" \/ observed[w] # generation

RowsWritten ==
  \A c \in Callers :
    /\ caller[c] = "entered" => \A r \in Rows : written[c][r] = <<>>
    /\ caller[c] \in Live =>
         /\ \A w \in Workers : written[c][w] = IF Unwritten(w) THEN <<>> ELSE <<Job(c)>>
         /\ written[c][OwnRow] =
              IF caller[c] \in {"posted", "decoding"} THEN <<>> ELSE <<Job(c)>>

ExecInv ==
  /\ Types
  /\ OneCaller
  /\ JobPublished
  /\ QuietWithoutCall
  /\ WorkersHold
  /\ PendingExact
  /\ RowsWritten

-----------------------------------------------------------------------------
\* The constants, as every proof below uses them.
LEMMA Constants ==
  /\ IsFiniteSet(Workers) /\ OwnRow \notin Workers
  /\ Idle \notin Callers
  /\ Generations \in Nat /\ Generations >= 2
  /\ Cardinality(Workers) \in Nat
  BY ExecutorAssumption, FS_CardinalityType DEF ExecutorAssumption

\* The next generation is another value of the range, also where it wraps.
LEMMA NextGeneration ==
  ASSUME NEW g \in 0 .. Generations - 1
  PROVE  /\ (g + 1) % Generations \in 0 .. Generations - 1
         /\ (g + 1) % Generations # g
  <1>1. CASE g + 1 < Generations
    <2>1. (g + 1) % Generations = g + 1
      BY <1>1, Constants
    <2> QED BY <2>1, <1>1, Constants
  <1>2. CASE g + 1 = Generations
    <2>1. (g + 1) % Generations = 0
      BY <1>2, Constants
    <2> QED BY <2>1, <1>2, Constants
  <1> QED BY <1>1, <1>2, Constants

\* Writing a row that is still empty leaves the one job in it.
LEMMA FirstWrite ==
  ASSUME NEW j \in Jobs
  PROVE  Append(<<>>, j) = <<j>>
  <1>1. Append(<<>>, j) = <<>> \o <<j>>
    BY AppendIsConcat, EmptySeq
  <1> QED BY <1>1

\* The workers that owe their row are finitely many.
LEMMA OwingFinite ==
  LET owing == {w \in Workers : Unfinished(w)}
  IN IsFiniteSet(owing) /\ Cardinality(owing) \in Nat /\ Cardinality(owing) <= Cardinality(Workers)
  BY Constants, FS_Subset, FS_CardinalityType

\* At most one caller is at work; nobody is when the mutex is free.
LEMMA OnlyHolder ==
  ASSUME OneCaller, NEW c \in Callers, NEW d \in Callers, caller[c] # "idle", d # c
  PROVE  caller[d] = "idle" /\ callMutex = c
  BY DEF OneCaller

-----------------------------------------------------------------------------
LEMMA InitExec == Init => ExecInv
  <1> SUFFICES ASSUME Init PROVE ExecInv
    OBVIOUS
  <1> USE DEF Init
  <1>1. Types
    <2>1. \A c \in Callers : written[c] \in [Rows -> Seq(Jobs)]
      BY EmptySeq
    <2> QED BY <2>1, Constants DEF Types, Live
  <1>2. OneCaller
    BY Constants DEF OneCaller
  <1>3. \A w \in Workers : ~Unfinished(w)
    BY DEF Unfinished
  <1>4. JobPublished /\ QuietWithoutCall /\ WorkersHold /\ RowsWritten
    BY <1>3 DEF JobPublished, QuietWithoutCall, WorkersHold, RowsWritten, Live
  <1>5. PendingExact
    BY DEF PendingExact, Live
  <1> QED BY <1>1, <1>2, <1>4, <1>5 DEF ExecInv
-----------------------------------------------------------------------------
\* A call begins: its caller is the only one at work, its rows are empty.
LEMMA EnterExec ==
  ASSUME ExecInv, NEW c \in Callers, Enter(c)
  PROVE  ExecInv'
  <1> USE DEF ExecInv, Enter, callerVars, workerVars
  <1>0. \A d \in Callers : caller[d] = "idle" /\ (d # c => caller'[d] = "idle")
    BY Constants DEF OneCaller, Types
  <1>1. caller'[c] = "entered" /\ caller' \in [Callers -> Live \cup {"idle", "entered"}]
    BY DEF Types
  <1>2. Types'
    <2>1. written' \in [Callers -> [Rows -> Seq(Jobs)]]
      BY EmptySeq DEF Types
    <2>2. calls' \in [Callers -> Nat]
      BY DEF Types
    <2> QED BY <1>1, <2>1, <2>2 DEF Types
  <1>3. OneCaller'
    BY <1>0, <1>1, Constants DEF OneCaller
  <1>4. \A d \in Callers : caller[d] \notin Live /\ caller'[d] \notin Live
    BY <1>0, <1>1 DEF Live
  <1>5. \A w \in Workers : Unfinished(w)' <=> Unfinished(w)
    BY DEF Unfinished
  <1>6. JobPublished' /\ QuietWithoutCall' /\ WorkersHold' /\ PendingExact'
    BY <1>4, <1>5 DEF JobPublished, QuietWithoutCall, WorkersHold, PendingExact
  <1>7. RowsWritten'
    BY <1>0, <1>1, <1>4 DEF RowsWritten, Types
  <1> QED BY <1>2, <1>3, <1>6, <1>7

\* The job is published: every worker now owes its row.
LEMMA PostExec ==
  ASSUME ExecInv, NEW c \in Callers, Post(c)
  PROVE  ExecInv'
  <1> USE DEF ExecInv, Post, workerVars
  <1>0. \A d \in Callers : d # c => caller[d] = "idle" /\ caller'[d] = "idle"
    BY OnlyHolder DEF Types
  <1>1. /\ caller'[c] = "posted" /\ caller[c] = "entered"
        /\ caller' \in [Callers -> Live \cup {"idle", "entered"}]
    BY DEF Types, Live
  <1>2. generation' \in 0 .. Generations - 1 /\ generation' # generation
    BY NextGeneration DEF Types
  <1>3. Types'
    BY <1>1, <1>2, Constants DEF Types
  <1>4. OneCaller'
    BY <1>0, <1>1 DEF OneCaller
  <1>5. JobPublished'
    BY <1>0, <1>1 DEF JobPublished, Job, Live
  <1>6. QuietWithoutCall'
    BY <1>1 DEF QuietWithoutCall, Live
  <1>7. \A w \in Workers : ~Unfinished(w)
    BY <1>0, <1>1 DEF QuietWithoutCall, Live
  <1>8. \A w \in Workers : worker[w] \notin {"decoding", "reporting"} /\ observed[w] = generation
    BY <1>7 DEF Unfinished
  <1>9. WorkersHold'
    BY <1>8 DEF WorkersHold
  <1>10. PendingExact'
    <2>1. \A w \in Workers : Unfinished(w)'
      BY <1>8, <1>2 DEF Unfinished
    <2>2. {w \in Workers : Unfinished(w)'} = Workers
      BY <2>1
    <2>3. \E d \in Callers : caller'[d] \in Live
      BY <1>1 DEF Live
    <2> QED BY <2>2, <2>3 DEF PendingExact
  <1>11. RowsWritten'
    <2>1. \A r \in Rows : written'[c][r] = <<>>
      BY <1>1 DEF RowsWritten
    <2>2. \A w \in Workers : Unwritten(w)' /\ w \in Rows
      BY <1>8, <1>2 DEF Unwritten, Rows
    <2>3. OwnRow \in Rows
      BY DEF Rows
    <2> QED BY <1>0, <1>1, <2>1, <2>2, <2>3 DEF RowsWritten, Live
  <1> QED BY <1>3, <1>4, <1>5, <1>6, <1>9, <1>10, <1>11

\* Steps that neither begin nor end a call nor touch a job in a worker's hands:
\* they leave the workers that owe their row, and the rows, as they are.
LEMMA IdleStepExec ==
  ASSUME ExecInv,
         UNCHANGED <<calls, written, callMutex, job, generation, pending, observed, held>>,
         worker' \in [Workers -> {"checking", "asleep", "decoding", "reporting", "exited"}],
         \A w \in Workers : worker'[w] = worker[w] \/
           (worker[w] \notin {"decoding", "reporting"} /\ worker'[w] \notin {"decoding", "reporting"}),
         caller' \in [Callers -> Live \cup {"idle", "entered"}],
         \A c \in Callers : caller'[c] = caller[c] \/
           (caller[c] = "posted" /\ caller'[c] = "decoding") \/
           (caller[c] \in {"checking", "asleep"} /\ caller'[c] \in {"checking", "asleep"})
  PROVE  ExecInv'
  <1> USE DEF ExecInv
  <1>1. \A c \in Callers :  /\ caller'[c] \in Live <=> caller[c] \in Live
                            /\ caller'[c] = "idle" <=> caller[c] = "idle"
                            /\ caller'[c] = "entered" <=> caller[c] = "entered"
                            /\ caller'[c] \in {"posted", "decoding"} <=> caller[c] \in {"posted", "decoding"}
    BY DEF Live
  <1>2. \A w \in Workers :  /\ Unfinished(w)' <=> Unfinished(w)
                            /\ Unwritten(w)' <=> Unwritten(w)
                            /\ worker'[w] \in {"decoding", "reporting"} <=> worker[w] \in {"decoding", "reporting"}
    BY DEF Unfinished, Unwritten
  <1>3. Types'
    BY DEF Types
  <1>4. OneCaller' /\ JobPublished' /\ QuietWithoutCall' /\ WorkersHold'
    BY <1>1, <1>2 DEF OneCaller, JobPublished, QuietWithoutCall, WorkersHold, Job
  <1>5. PendingExact'
    <2>1. {w \in Workers : Unfinished(w)'} = {w \in Workers : Unfinished(w)}
      BY <1>2
    <2>2. (\E c \in Callers : caller'[c] \in Live) <=> (\E c \in Callers : caller[c] \in Live)
      BY <1>1
    <2> QED BY <2>1, <2>2 DEF PendingExact
  <1>6. RowsWritten'
    BY <1>1, <1>2 DEF RowsWritten, Job
  <1> QED BY <1>3, <1>4, <1>5, <1>6

\* A call whose caller is live is the one whose job is published.
LEMMA LiveCaller ==
  ASSUME ExecInv, NEW w \in Workers, Unfinished(w)
  PROVE  \E c \in Callers : /\ caller[c] \in Live /\ callMutex = c /\ job = Job(c)
                            /\ Job(c) \in Jobs
                            /\ \A d \in Callers : d # c => caller[d] = "idle"
  <1> USE DEF ExecInv
  <1>1. PICK c \in Callers : caller[c] \in Live
    BY DEF QuietWithoutCall
  <1>2. caller[c] # "idle"
    BY <1>1 DEF Live
  <1>3. callMutex = c /\ \A d \in Callers : d # c => caller[d] = "idle"
    BY <1>2, OnlyHolder DEF OneCaller
  <1>4. job = Job(c) /\ Job(c) \in Jobs
    BY <1>1 DEF JobPublished, Job, Jobs, Types
  <1> QED BY <1>1, <1>3, <1>4

\* The caller's own row is written, once, from its own job.
LEMMA DecodeOwnRowExec ==
  ASSUME ExecInv, NEW c \in Callers, DecodeOwnRow(c)
  PROVE  ExecInv'
  <1> USE DEF ExecInv, DecodeOwnRow, workerVars
  <1>1. \A d \in Callers : d # c => caller[d] = "idle" /\ caller'[d] = "idle"
    BY OnlyHolder DEF Types
  <1>2. /\ caller'[c] = "checking" /\ caller[c] = "decoding"
        /\ caller' \in [Callers -> Live \cup {"idle", "entered"}]
    BY DEF Types, Live
  <1>3. Job(c) \in Jobs /\ Job(c)[1] = c /\ Job(c)' = Job(c)
    BY DEF Job, Jobs, Types
  <1>4. written[c][OwnRow] = <<>>
    BY <1>2 DEF RowsWritten, Live
  <1>5. OwnRow \in Rows /\ Workers \subseteq Rows /\ \A w \in Workers : w # OwnRow
    BY Constants DEF Rows
  <1>6. written' = [written EXCEPT ![c][OwnRow] = <<Job(c)>>]
    BY <1>3, <1>4, <1>5, FirstWrite DEF Write, Types
  <1>7. written' \in [Callers -> [Rows -> Seq(Jobs)]]
    BY <1>3, <1>5, <1>6 DEF Types
  <1>8. Types'
    BY <1>2, <1>7 DEF Types
  <1>9. OneCaller'
    BY <1>1, <1>2 DEF OneCaller
  <1>10. \A d \in Callers : (caller'[d] \in Live) <=> (caller[d] \in Live)
    BY <1>1, <1>2 DEF Live
  <1>11. \A w \in Workers : (Unfinished(w)' <=> Unfinished(w)) /\ (Unwritten(w)' <=> Unwritten(w))
    BY DEF Unfinished, Unwritten
  <1>12. JobPublished' /\ QuietWithoutCall' /\ WorkersHold'
    BY <1>10, <1>11 DEF JobPublished, QuietWithoutCall, WorkersHold, Job
  <1>13. PendingExact'
    BY <1>10, <1>11 DEF PendingExact
  <1>14. RowsWritten'
    <2>1. written'[c][OwnRow] = <<Job(c)>>
      BY <1>5, <1>6 DEF Types
    <2>2. \A w \in Workers : written'[c][w] = written[c][w]
      BY <1>5, <1>6 DEF Types
    <2>3. \A w \in Workers : written'[c][w] = IF Unwritten(w)' THEN <<>> ELSE <<Job(c)'>>
      BY <2>2, <1>2, <1>3, <1>11 DEF RowsWritten, Live
    <2> QED BY <1>1, <1>2, <1>3, <2>1, <2>3 DEF RowsWritten, Live
  <1> QED BY <1>8, <1>9, <1>12, <1>13, <1>14
\* While a caller is live and the count is zero, no worker owes its row.
LEMMA NobodyOwes ==
  ASSUME ExecInv, NEW c \in Callers, caller[c] \in Live, pending = 0
  PROVE  \A w \in Workers : ~Unfinished(w)
  <1> DEFINE owing == {w \in Workers : Unfinished(w)}
  <1>1. Cardinality(owing) = 0
    BY DEF ExecInv, PendingExact
  <1>2. IsFiniteSet(owing)
    BY OwingFinite
  <1> HIDE DEF owing
  <1>3. owing = {}
    BY <1>1, <1>2, FS_EmptySet
  <1> QED BY <1>3 DEF owing

\* The call returns when nobody owes a row, so the quiet state is real.
LEMMA ReturnExec ==
  ASSUME ExecInv, NEW c \in Callers, Return(c)
  PROVE  ExecInv'
  <1> USE DEF ExecInv, Return, workerVars
  <1>1. \A d \in Callers : d # c => caller[d] = "idle"
    BY OnlyHolder DEF Types
  <1>2. caller' \in [Callers -> Live \cup {"idle", "entered"}] /\ \A d \in Callers : caller'[d] = "idle"
    BY <1>1 DEF Types
  <1>3. \A d \in Callers : caller'[d] \notin Live /\ caller'[d] # "entered"
    BY <1>2 DEF Live
  <1>4. \A w \in Workers : ~Unfinished(w)
    BY NobodyOwes DEF Live
  <1>5. \A w \in Workers : ~Unfinished(w)' /\ worker[w] \notin {"decoding", "reporting"}
    BY <1>4 DEF Unfinished
  <1>6. Types'
    BY <1>2 DEF Types
  <1>7. OneCaller'
    BY <1>2, Constants DEF OneCaller
  <1>8. JobPublished' /\ QuietWithoutCall' /\ WorkersHold' /\ PendingExact' /\ RowsWritten'
    BY <1>3, <1>5 DEF JobPublished, QuietWithoutCall, WorkersHold, PendingExact, RowsWritten
  <1> QED BY <1>6, <1>7, <1>8

\* A worker takes the job of a generation it has not seen: a live call's job.
LEMMA TakeJobExec ==
  ASSUME ExecInv, NEW w \in Workers,
         worker[w] = "checking", generation # observed[w],
         worker' = [worker EXCEPT ![w] = "decoding"],
         observed' = [observed EXCEPT ![w] = generation],
         held' = [held EXCEPT ![w] = job],
         UNCHANGED <<callerVars, job, generation, pending>>
  PROVE  ExecInv'
  <1> USE DEF ExecInv, callerVars
  <1>1. job \in Jobs
    BY LiveCaller DEF Unfinished
  <1>2. /\ worker'[w] = "decoding" /\ observed'[w] = generation /\ held'[w] = job
        /\ \A v \in Workers : v # w =>
             worker'[v] = worker[v] /\ observed'[v] = observed[v] /\ held'[v] = held[v]
    BY DEF Types
  <1>3. Types'
    BY <1>1 DEF Types
  <1>4. \A v \in Workers : Unfinished(v)' <=> Unfinished(v)
    BY <1>2 DEF Unfinished
  <1>5. \A v \in Workers : Unwritten(v)' <=> Unwritten(v)
    BY <1>2 DEF Unwritten
  <1>6. OneCaller' /\ JobPublished' /\ QuietWithoutCall'
    BY <1>4 DEF OneCaller, JobPublished, QuietWithoutCall, Job
  <1>7. WorkersHold'
    BY <1>2 DEF WorkersHold
  <1>8. PendingExact'
    BY <1>4 DEF PendingExact
  <1>9. RowsWritten'
    BY <1>5 DEF RowsWritten, Job
  <1> QED BY <1>3, <1>6, <1>7, <1>8, <1>9

\* A worker that checks stops, takes the job or falls asleep.
LEMMA CheckExec ==
  ASSUME ExecInv, NEW w \in Workers, Check(w)
  PROVE  ExecInv'
  <1> USE DEF Check
  <1>1. CASE ~stopping /\ generation # observed[w]
    BY <1>1, TakeJobExec
  <1>2. CASE stopping \/ generation = observed[w]
    <2>1. UNCHANGED <<caller, calls, written, callMutex, job, generation, pending, observed, held>>
      BY <1>2 DEF callerVars
    <2>2. \E s \in {"exited", "asleep"} : worker' = [worker EXCEPT ![w] = s]
      BY <1>2
    <2>3. worker' \in [Workers -> {"checking", "asleep", "decoding", "reporting", "exited"}]
      BY <2>2 DEF ExecInv, Types
    <2>4. \A v \in Workers : worker'[v] = worker[v] \/
           (worker[v] \notin {"decoding", "reporting"} /\ worker'[v] \notin {"decoding", "reporting"})
      BY <2>2 DEF ExecInv, Types
    <2>5. caller' \in [Callers -> Live \cup {"idle", "entered"}]
      BY <2>1 DEF ExecInv, Types
    <2> HIDE DEF Check
    <2> QED BY <2>1, <2>3, <2>4, <2>5, IdleStepExec
  <1> QED BY <1>1, <1>2

\* A worker writes its own row of the live call, once, from that call's job.
LEMMA DecodeRowExec ==
  ASSUME ExecInv, NEW w \in Workers, DecodeRow(w)
  PROVE  ExecInv'
  <1> USE DEF ExecInv, DecodeRow
  <1>1. Unfinished(w)
    BY DEF Unfinished
  <1>2. PICK c \in Callers : /\ caller[c] \in Live /\ job = Job(c) /\ Job(c) \in Jobs
                             /\ \A d \in Callers : d # c => caller[d] = "idle"
    BY <1>1, LiveCaller
  <1>3. held[w] = Job(c) /\ observed[w] = generation /\ Job(c)[1] = c /\ Job(c)' = Job(c)
    BY <1>2 DEF WorkersHold, Job
  <1>4. Workers \subseteq Rows /\ OwnRow \in Rows /\ w # OwnRow
    BY Constants DEF Rows
  <1>5. written[c][w] = <<>>
    BY <1>2 DEF RowsWritten, Unwritten
  <1>6. written' = [written EXCEPT ![c][w] = <<Job(c)>>]
    BY <1>2, <1>3, <1>4, <1>5, FirstWrite DEF Write, Types
  <1>7. /\ worker'[w] = "reporting" /\ \A v \in Workers : v # w => worker'[v] = worker[v]
        /\ worker' \in [Workers -> {"checking", "asleep", "decoding", "reporting", "exited"}]
    BY DEF Types
  <1>8. Types'
    <2>1. written' \in [Callers -> [Rows -> Seq(Jobs)]]
      BY <1>2, <1>4, <1>6 DEF Types
    <2> QED BY <1>7, <2>1 DEF Types
  <1>9. \A v \in Workers : Unfinished(v)' <=> Unfinished(v)
    BY <1>7 DEF Unfinished
  <1>10. ~Unwritten(w)' /\ \A v \in Workers : v # w => (Unwritten(v)' <=> Unwritten(v))
    BY <1>3, <1>7 DEF Unwritten
  <1>11. OneCaller' /\ JobPublished' /\ QuietWithoutCall'
    BY <1>9 DEF OneCaller, JobPublished, QuietWithoutCall, Job
  <1>12. WorkersHold'
    BY <1>7 DEF WorkersHold
  <1>13. PendingExact'
    BY <1>9 DEF PendingExact
  <1>14. RowsWritten'
    <2>1. written'[c][w] = <<Job(c)>>
      BY <1>4, <1>6 DEF Types
    <2>2. \A r \in Rows : r # w => written'[c][r] = written[c][r]
      BY <1>4, <1>6 DEF Types
    <2>3. \A v \in Workers : written'[c][v] = IF Unwritten(v)' THEN <<>> ELSE <<Job(c)'>>
      BY <2>1, <2>2, <1>2, <1>3, <1>4, <1>10 DEF RowsWritten
    <2>4. written'[c][OwnRow] = written[c][OwnRow]
      BY <2>2, <1>4
    <2>5. caller' = caller /\ caller[c] # "entered"
      BY <1>2 DEF Live
    <2>6. \A d \in Callers : d # c => caller'[d] \notin Live /\ caller'[d] # "entered"
      BY <1>2, <2>5 DEF Live
    <2> QED BY <1>2, <1>3, <2>3, <2>4, <2>5, <2>6 DEF RowsWritten
  <1> QED BY <1>8, <1>11, <1>12, <1>13, <1>14
\* A worker reports: one worker less owes its row, and the count says so.
LEMMA ReportExec ==
  ASSUME ExecInv, NEW w \in Workers, Report(w)
  PROVE  ExecInv'
  <1> USE DEF ExecInv, Report
  <1> DEFINE owing == {v \in Workers : Unfinished(v)}
  <1>1. Unfinished(w)
    BY DEF Unfinished
  <1>2. PICK c \in Callers : caller[c] \in Live
    BY <1>1, LiveCaller
  <1>3. observed[w] = generation /\ worker'[w] = "checking" /\ held'[w] = Idle
    BY DEF WorkersHold, Types
  <1>4. \A v \in Workers : v # w => worker'[v] = worker[v] /\ held'[v] = held[v]
    BY DEF Types
  <1>5. /\ ~Unfinished(w)' /\ ~Unwritten(w)' /\ ~Unwritten(w)
        /\ \A v \in Workers : v # w => (Unfinished(v)' <=> Unfinished(v)) /\ (Unwritten(v)' <=> Unwritten(v))
    BY <1>3, <1>4 DEF Unfinished, Unwritten
  <1>6. {v \in Workers : Unfinished(v)'} = owing \ {w}
    BY <1>5
  <1>7. Cardinality(owing \ {w}) = Cardinality(owing) - 1 /\ Cardinality(owing) \in Nat /\ Cardinality(owing \ {w}) \in Nat
    <2>1. IsFiniteSet(owing) /\ Cardinality(owing) \in Nat
      BY OwingFinite
    <2>2. w \in owing
      BY <1>1
    <2>3. IsFiniteSet(owing \ {w})
      BY <2>1, FS_Subset
    <2> HIDE DEF owing
    <2> QED BY <2>1, <2>2, <2>3, FS_RemoveElement, FS_CardinalityType
  <1>8. pending = Cardinality(owing)
    BY <1>2 DEF PendingExact
  <1>9. \A d \in Callers : caller'[d] = IF pending' = 0 /\ caller[d] = "asleep" THEN "checking" ELSE caller[d]
    OBVIOUS
  <1>10. \A d \in Callers :
           /\ (caller'[d] \in Live) <=> (caller[d] \in Live)
           /\ (caller'[d] = "idle") <=> (caller[d] = "idle")
           /\ (caller'[d] = "entered") <=> (caller[d] = "entered")
           /\ (caller'[d] \in {"posted", "decoding"}) <=> (caller[d] \in {"posted", "decoding"})
    BY <1>9 DEF Live
  <1>11. caller' \in [Callers -> Live \cup {"idle", "entered"}]
    BY DEF Types, Live
  <1>12. PendingExact'
    <2>1. pending' = Cardinality(owing \ {w})
      BY <1>7, <1>8
    <2>2. \E d \in Callers : caller'[d] \in Live
      BY <1>2, <1>10
    <2> QED BY <1>6, <2>1, <2>2 DEF PendingExact
  <1>13. Types'
    <2>1. pending' \in Nat
      BY <1>7, <1>8
    <2>2. worker' \in [Workers -> {"checking", "asleep", "decoding", "reporting", "exited"}]
      BY DEF Types
    <2>3. held' \in [Workers -> Jobs \cup {Idle}]
      BY DEF Types
    <2> QED BY <1>11, <2>1, <2>2, <2>3 DEF Types
  <1>14. OneCaller' /\ JobPublished'
    BY <1>10 DEF OneCaller, JobPublished, Job
  <1>15. QuietWithoutCall'
    BY <1>2, <1>10 DEF QuietWithoutCall
  <1>16. WorkersHold'
    BY <1>3, <1>4 DEF WorkersHold
  <1>17. RowsWritten'
    BY <1>5, <1>10 DEF RowsWritten, Job
  <1> QED BY <1>12, <1>13, <1>14, <1>15, <1>16, <1>17

-----------------------------------------------------------------------------
\* Every step of the executor preserves the invariant.
LEMMA NextExec ==
  ASSUME ExecInv, [Next]_vars
  PROVE  ExecInv'
  <1> DEFINE WorkerStates == {"checking", "asleep", "decoding", "reporting", "exited"}
  <1> USE DEF callerVars, workerVars
  <1>0. worker \in [Workers -> WorkerStates] /\ caller \in [Callers -> Live \cup {"idle", "entered"}]
    BY DEF ExecInv, Types
  <1>a. ASSUME Wake
        PROVE  /\ worker' \in [Workers -> WorkerStates]
               /\ \A w \in Workers : worker'[w] = worker[w] \/
                    (worker[w] \notin {"decoding", "reporting"} /\ worker'[w] \notin {"decoding", "reporting"})
    BY <1>a, <1>0 DEF Wake
  <1>1. ASSUME NEW c \in Callers, NotifyWorkers(c) PROVE ExecInv'
    <2>1. /\ caller' \in [Callers -> Live \cup {"idle", "entered"}]
          /\ \A d \in Callers : caller'[d] = caller[d] \/ (caller[d] = "posted" /\ caller'[d] = "decoding")
      BY <1>0, <1>1 DEF NotifyWorkers, Live
    <2> QED BY <1>1, <1>a, <2>1, IdleStepExec DEF NotifyWorkers
  <1>2. ASSUME NEW c \in Callers, AwaitWorkers(c) PROVE ExecInv'
    <2>1. /\ caller' \in [Callers -> Live \cup {"idle", "entered"}]
          /\ \A d \in Callers : caller'[d] = caller[d] \/
               (caller[d] \in {"checking", "asleep"} /\ caller'[d] \in {"checking", "asleep"})
      BY <1>0, <1>2 DEF AwaitWorkers, Live
    <2> QED BY <1>0, <1>2, <2>1, IdleStepExec DEF AwaitWorkers
  <1>3. ASSUME NEW w \in Workers, worker[w] = "asleep", worker' = [worker EXCEPT ![w] = "checking"],
               UNCHANGED <<caller, calls, written, callMutex, job, generation, pending, observed, held>>
        PROVE ExecInv'
    <2>1. /\ worker' \in [Workers -> WorkerStates]
          /\ \A v \in Workers : worker'[v] = worker[v] \/
               (worker[v] \notin {"decoding", "reporting"} /\ worker'[v] \notin {"decoding", "reporting"})
      BY <1>0, <1>3
    <2> QED BY <1>0, <1>3, <2>1, IdleStepExec
  <1>4. ASSUME NEW c \in Callers, caller[c] = "asleep", caller' = [caller EXCEPT ![c] = "checking"],
               UNCHANGED <<calls, written, callMutex, job, generation, pending, workerVars>>
        PROVE ExecInv'
    <2>1. /\ caller' \in [Callers -> Live \cup {"idle", "entered"}]
          /\ \A d \in Callers : caller'[d] = caller[d] \/
               (caller[d] \in {"checking", "asleep"} /\ caller'[d] \in {"checking", "asleep"})
      BY <1>0, <1>4 DEF Live
    <2> QED BY <1>0, <1>4, <2>1, IdleStepExec
  <1>5. ASSUME UNCHANGED <<callerVars, job, generation, pending, observed, held>>,
               worker' = worker \/ Wake
        PROVE ExecInv'
    <2>1. CASE Wake
      BY <1>0, <1>5, <1>a, <2>1, IdleStepExec
    <2>2. CASE worker' = worker
      BY <1>0, <1>5, <2>2, IdleStepExec
    <2> QED BY <1>5, <2>1, <2>2
  <1>6. CASE SpuriousWake
    BY <1>3, <1>4, <1>6 DEF SpuriousWake
  <1>7. CASE Stop \/ NotifyStop \/ Joined \/ UNCHANGED vars
    BY <1>5, <1>7 DEF Stop, NotifyStop, Joined, vars
  <1>8. ASSUME NEW c \in Callers, CallerStep(c) PROVE ExecInv'
    BY <1>1, <1>2, <1>8, EnterExec, PostExec, DecodeOwnRowExec, ReturnExec DEF CallerStep
  <1>9. ASSUME NEW w \in Workers, WorkerStep(w) PROVE ExecInv'
    BY <1>9, CheckExec, DecodeRowExec, ReportExec DEF WorkerStep
  <1> QED BY <1>6, <1>7, <1>8, <1>9 DEF Next

\* ExecInv holds throughout every behaviour.
LEMMA ExecInvariant == Spec => []ExecInv
  <1>1. Init => ExecInv
    BY InitExec
  <1>2. ExecInv /\ [Next]_vars => ExecInv'
    BY NextExec
  <1> QED BY <1>1, <1>2, PTL DEF Spec

\* The variables stay in their ranges: the count never exceeds the workers.
THEOREM ExecutorTypeCorrect == Spec => []TypeOK
  <1> DEFINE CallsBounded == calls \in [Callers -> 0 .. MaxCalls] /\ stopping \in BOOLEAN
  <1>1. Init => CallsBounded
    <2>1. 0 \in 0 .. MaxCalls
      BY ExecutorAssumption DEF ExecutorAssumption
    <2>2. Init => calls \in [Callers -> 0 .. MaxCalls]
      BY <2>1 DEF Init
    <2>3. Init => stopping \in BOOLEAN
      BY DEF Init
    <2> QED BY <2>2, <2>3
  <1>2. CallsBounded /\ [Next]_vars => CallsBounded'
    <2> SUFFICES ASSUME CallsBounded, [Next]_vars PROVE CallsBounded'
      OBVIOUS
    <2>1. ASSUME NEW c \in Callers, Enter(c) PROVE CallsBounded'
      BY <2>1, ExecutorAssumption DEF Enter, ExecutorAssumption
    <2>2. \/ \E c \in Callers : Enter(c)
          \/ UNCHANGED calls /\ (stopping' = stopping \/ stopping' = TRUE)
      BY DEF Next, CallerStep, WorkerStep, Post, NotifyWorkers, DecodeOwnRow, AwaitWorkers, Return,
             Check, DecodeRow, Report, SpuriousWake, Stop, NotifyStop, Joined, callerVars, vars
    <2> QED BY <2>1, <2>2
  <1>3. ExecInv /\ CallsBounded => TypeOK
    <2> SUFFICES ASSUME ExecInv, CallsBounded PROVE TypeOK
      OBVIOUS
    <2>1. pending <= Cardinality(Workers)
      BY OwingFinite, Constants DEF ExecInv, Types, PendingExact
    <2>2. pending \in 0 .. Cardinality(Workers)
      BY <2>1, Constants DEF ExecInv, Types
    <2> QED BY <2>2 DEF ExecInv, Types, TypeOK
  <1> QED BY <1>1, <1>2, <1>3, ExecInvariant, PTL DEF Spec

\* The count of pending workers is exact, for any number of workers and callers.
THEOREM PendingCountExact == Spec => []PendingExact
  <1>1. ExecInv => PendingExact
    BY DEF ExecInv
  <1> QED BY <1>1, ExecInvariant, PTL

\* No worker ever holds the arguments of a call that has returned.
THEOREM JobsOutliveTheirUse == Spec => []HeldJobLive
  <1>1. ExecInv => HeldJobLive
    <2> SUFFICES ASSUME ExecInv, NEW w \in Workers, worker[w] \in {"decoding", "reporting"}
                 PROVE  \E c \in Callers : caller[c] \in Live /\ callMutex = c /\ held[w] = Job(c) /\ job = Job(c)
      BY DEF HeldJobLive
    <2>1. Unfinished(w) /\ held[w] = job
      BY DEF Unfinished, ExecInv, WorkersHold
    <2> QED BY <2>1, LiveCaller
  <1> QED BY <1>1, ExecInvariant, PTL

\* Only Return makes a busy caller idle.
LEMMA OnlyReturnEnds ==
  ASSUME ExecInv, [Next]_vars, NEW c \in Callers, caller[c] # "idle", caller'[c] = "idle"
  PROVE  Return(c)
  <1> USE DEF ExecInv, Types
  <1>1. CASE UNCHANGED vars
    BY <1>1 DEF vars
  <1>2. CASE \E d \in Callers : CallerStep(d)
    <2>1. PICK d \in Callers : CallerStep(d)
      BY <1>2
    <2>2. d = c
      BY <2>1 DEF CallerStep, Enter, Post, NotifyWorkers, DecodeOwnRow, AwaitWorkers, Return
    <2> QED BY <2>1, <2>2 DEF CallerStep, Enter, Post, NotifyWorkers, DecodeOwnRow, AwaitWorkers
  <1>3. CASE \E w \in Workers : WorkerStep(w)
    BY <1>3 DEF WorkerStep, Check, DecodeRow, Report, callerVars
  <1>4. CASE SpuriousWake
    BY <1>4 DEF SpuriousWake
  <1>5. CASE Stop \/ NotifyStop \/ Joined
    BY <1>5 DEF Stop, NotifyStop, Joined, callerVars, vars
  <1> QED BY <1>1, <1>2, <1>3, <1>4, <1>5 DEF Next

\* A call returns only when each of its rows was written once from its own job.
THEOREM EveryRowDecodedOnce == Spec => RowsDecodedOnce
  <1>1. ASSUME ExecInv, [Next]_vars, NEW c \in Callers, caller[c] # "idle", caller'[c] = "idle",
               NEW r \in Rows
        PROVE  written[c][r] = <<Job(c)>>
    <2>1. caller[c] = "checking" /\ pending = 0
      BY <1>1, OnlyReturnEnds DEF Return
    <2>2. caller[c] \in Live
      BY <2>1 DEF Live
    <2>3. \A w \in Workers : ~Unwritten(w)
      BY <1>1, <2>1, <2>2, NobodyOwes DEF Unfinished, Unwritten
    <2> QED BY <1>1, <2>1, <2>2, <2>3 DEF ExecInv, RowsWritten, Rows
  <1>2. ExecInv /\ [Next]_vars =>
          [\A c \in Callers : caller[c] # "idle" /\ caller'[c] = "idle" =>
             \A r \in Rows : written[c][r] = <<Job(c)>>]_vars
    BY <1>1
  <1> QED BY <1>2, ExecInvariant, PTL DEF Spec, RowsDecodedOnce

\* No thread writes into the results of a call that has returned.
THEOREM ResultsStayReturned == Spec => ReturnedResultsStay
  <1>1. ASSUME ExecInv, [Next]_vars, NEW c \in Callers, caller[c] = "idle", caller'[c] = "idle"
        PROVE  written'[c] = written[c]
    <2> USE DEF ExecInv, Types
    <2>1. CASE UNCHANGED vars
      BY <2>1 DEF vars
    <2>2. CASE \E d \in Callers : CallerStep(d)
      <3>1. PICK d \in Callers : CallerStep(d)
        BY <2>2
      <3>2. ASSUME d = c PROVE FALSE
        BY <1>1, <3>1, <3>2 DEF CallerStep, Enter, Post, NotifyWorkers, DecodeOwnRow, AwaitWorkers, Return
      <3> QED BY <1>1, <3>1, <3>2 DEF CallerStep, Enter, Post, NotifyWorkers, DecodeOwnRow,
                AwaitWorkers, Return, Write, Job
    <2>3. CASE \E w \in Workers : WorkerStep(w)
      <3>1. PICK w \in Workers : WorkerStep(w)
        BY <2>3
      <3>2. CASE DecodeRow(w)
        <4>1. PICK d \in Callers : caller[d] \in Live /\ job = Job(d)
          BY <3>2, <1>1, LiveCaller DEF DecodeRow, Unfinished
        <4>2. held[w][1] = d /\ d # c
          BY <3>2, <4>1, <1>1 DEF DecodeRow, WorkersHold, Job, Live
        <4> QED BY <3>2, <4>2, <1>1 DEF DecodeRow, Write
      <3> QED BY <3>1, <3>2 DEF WorkerStep, Check, Report, callerVars
    <2>4. CASE SpuriousWake
      BY <2>4 DEF SpuriousWake
    <2>5. CASE Stop \/ NotifyStop \/ Joined
      BY <2>5 DEF Stop, NotifyStop, Joined, callerVars, vars
    <2> QED BY <1>1, <2>1, <2>2, <2>3, <2>4, <2>5 DEF Next
  <1>2. ExecInv /\ [Next]_vars =>
          [\A c \in Callers : caller[c] = "idle" /\ caller'[c] = "idle" => written'[c] = written[c]]_vars
    BY <1>1
  <1> QED BY <1>2, ExecInvariant, PTL DEF Spec, ReturnedResultsStay
=============================================================================
