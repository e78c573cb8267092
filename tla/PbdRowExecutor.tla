--------------------------- MODULE PbdRowExecutor ---------------------------
(***************************************************************************)
(* The process-wide executor that decodes the six rows of a PBD window:    *)
(* one row per worker thread and the last one on the calling thread.       *)
(*                                                                         *)
(* A call holds call_mutex throughout.  It publishes its arguments (logits,*)
(* history, results: pointers into the caller's frame, here the job) under *)
(* job_mutex with a new generation, wakes the workers, decodes its own row *)
(* and waits until pending_workers_ is zero.  A worker waits for a         *)
(* generation it has not seen, copies the job, decodes its row without the *)
(* mutex and reports.  The sections under job_mutex are single steps; a    *)
(* wait on a condition variable is a check of its predicate that either    *)
(* goes on or falls asleep, and a sleeper may also wake for no reason.     *)
(***************************************************************************)
EXTENDS Integers, FiniteSets, Sequences

CONSTANTS
  Workers,     \* worker threads, each with a row of its own: five of them
  Callers,     \* threads that may call Decode
  MaxCalls,    \* calls each of them makes (bound of the model)
  Generations, \* values generation_ runs through: 2^64
  Idle         \* no job, no caller

OwnRow == "own"
Rows == Workers \cup {OwnRow}

ASSUME ExecutorAssumption ==
  /\ IsFiniteSet(Workers) /\ OwnRow \notin Workers
  /\ Idle \notin Callers
  /\ MaxCalls \in Nat
  /\ Generations \in Nat /\ Generations >= 2

VARIABLES
  caller,     \* what each caller is doing
  calls,      \* calls it has begun: the latest is the live one
  written,    \* results of its latest call: the jobs that wrote each row
  callMutex,  \* holder of call_mutex_, or Idle
  job,        \* the published arguments, or Idle
  generation, \* generation_
  pending,    \* pending_workers_
  stopping,   \* stopping_
  worker,     \* what each worker is doing
  observed,   \* its observed_generation
  held        \* its copy of the job

vars == <<caller, calls, written, callMutex, job, generation, pending, stopping,
          worker, observed, held>>

callerVars == <<caller, calls, written, callMutex>>
workerVars == <<worker, observed, held>>

-----------------------------------------------------------------------------
Init ==
  /\ caller = [c \in Callers |-> "idle"]
  /\ calls = [c \in Callers |-> 0]
  /\ written = [c \in Callers |-> [r \in Rows |-> <<>>]]
  /\ callMutex = Idle /\ job = Idle
  /\ generation = 0 /\ pending = 0 /\ stopping = FALSE
  /\ worker = [w \in Workers |-> "checking"]
  /\ observed = [w \in Workers |-> 0]
  /\ held = [w \in Workers |-> Idle]

Job(c) == <<c, calls[c]>>
Write(j, r) == written' = [written EXCEPT ![j[1]][r] = Append(@, j)]

\* Decode: take call_mutex_.
Enter(c) ==
  /\ caller[c] = "idle" /\ calls[c] < MaxCalls /\ ~stopping
  /\ callMutex = Idle /\ callMutex' = c
  /\ caller' = [caller EXCEPT ![c] = "entered"]
  /\ calls' = [calls EXCEPT ![c] = @ + 1]
  /\ written' = [written EXCEPT ![c] = [r \in Rows |-> <<>>]]
  /\ UNCHANGED <<job, generation, pending, stopping, workerVars>>

\* Publish the job.
Post(c) ==
  /\ caller[c] = "entered"
  /\ job' = Job(c)
  /\ pending' = Cardinality(Workers)
  /\ generation' = (generation + 1) % Generations
  /\ caller' = [caller EXCEPT ![c] = "posted"]
  /\ UNCHANGED <<calls, written, callMutex, stopping, workerVars>>

\* job_ready_.notify_all().
Wake == worker' = [w \in Workers |-> IF worker[w] = "asleep" THEN "checking" ELSE worker[w]]

NotifyWorkers(c) ==
  /\ caller[c] = "posted"
  /\ Wake
  /\ caller' = [caller EXCEPT ![c] = "decoding"]
  /\ UNCHANGED <<calls, written, callMutex, job, generation, pending, stopping,
                 observed, held>>

DecodeOwnRow(c) ==
  /\ caller[c] = "decoding"
  /\ Write(Job(c), OwnRow)
  /\ caller' = [caller EXCEPT ![c] = "checking"]
  /\ UNCHANGED <<calls, callMutex, job, generation, pending, stopping, workerVars>>

\* job_done_.wait: sleep while a worker is pending.
AwaitWorkers(c) ==
  /\ caller[c] = "checking" /\ pending # 0
  /\ caller' = [caller EXCEPT ![c] = "asleep"]
  /\ UNCHANGED <<calls, written, callMutex, job, generation, pending, stopping, workerVars>>

\* Mutant: the call neither waits nor withdraws its job.
ReturnEarly(c) ==
  /\ caller[c] = "checking"
  /\ callMutex' = Idle
  /\ caller' = [caller EXCEPT ![c] = "idle"]
  /\ UNCHANGED <<calls, written, job, generation, pending, stopping, workerVars>>

\* All rows are there: withdraw the job and return.
Return(c) ==
  /\ caller[c] = "checking" /\ pending = 0
  /\ job' = Idle /\ callMutex' = Idle
  /\ caller' = [caller EXCEPT ![c] = "idle"]
  /\ UNCHANGED <<calls, written, generation, pending, stopping, workerVars>>

-----------------------------------------------------------------------------

\* Mutant: the generation is not remembered.
CheckForgets(w) ==
  /\ worker[w] = "checking" /\ ~stopping /\ generation # observed[w]
  /\ worker' = [worker EXCEPT ![w] = "decoding"]
  /\ held' = [held EXCEPT ![w] = job]
  /\ UNCHANGED <<callerVars, job, generation, pending, stopping, observed>>

\* job_ready_.wait: stop, take the job of an unseen generation, or sleep.
Check(w) ==
  /\ worker[w] = "checking"
  /\ \/ /\ stopping
        /\ worker' = [worker EXCEPT ![w] = "exited"]
        /\ UNCHANGED <<observed, held>>
     \/ /\ ~stopping /\ generation # observed[w]
        /\ worker' = [worker EXCEPT ![w] = "decoding"]
        /\ observed' = [observed EXCEPT ![w] = generation]
        /\ held' = [held EXCEPT ![w] = job]
     \/ /\ ~stopping /\ generation = observed[w]
        /\ worker' = [worker EXCEPT ![w] = "asleep"]
        /\ UNCHANGED <<observed, held>>
  /\ UNCHANGED <<callerVars, job, generation, pending, stopping>>

DecodeRow(w) ==
  /\ worker[w] = "decoding"
  /\ Write(held[w], w)
  /\ worker' = [worker EXCEPT ![w] = "reporting"]
  /\ UNCHANGED <<caller, calls, callMutex, job, generation, pending, stopping,
                 observed, held>>

\* --pending_workers_; the last one wakes the caller.
Report(w) ==
  /\ worker[w] = "reporting"
  /\ pending' = pending - 1
  /\ caller' = [c \in Callers |->
       IF pending' = 0 /\ caller[c] = "asleep" THEN "checking" ELSE caller[c]]
  /\ worker' = [worker EXCEPT ![w] = "checking"]
  /\ held' = [held EXCEPT ![w] = Idle]
  /\ UNCHANGED <<calls, written, callMutex, job, generation, stopping, observed>>

\* A condition variable may wake a sleeper without a notification.
SpuriousWake ==
  \/ /\ \E w \in Workers : worker[w] = "asleep" /\ worker' = [worker EXCEPT ![w] = "checking"]
     /\ UNCHANGED <<caller, calls, written, callMutex, job, generation, pending,
                    stopping, observed, held>>
  \/ /\ \E c \in Callers : caller[c] = "asleep" /\ caller' = [caller EXCEPT ![c] = "checking"]
     /\ UNCHANGED <<calls, written, callMutex, job, generation, pending, stopping, workerVars>>

-----------------------------------------------------------------------------
\* The destructor runs at process exit, when no call is under way.
AllReturned == \A c \in Callers : caller[c] = "idle"

Stop ==
  /\ AllReturned /\ ~stopping /\ stopping' = TRUE
  /\ UNCHANGED <<callerVars, job, generation, pending, workerVars>>

\* Its notify_all; join() then waits for every worker.
NotifyStop ==
  /\ stopping /\ \E w \in Workers : worker[w] = "asleep"
  /\ Wake
  /\ UNCHANGED <<callerVars, job, generation, pending, stopping, observed, held>>

Joined == stopping /\ (\A w \in Workers : worker[w] = "exited") /\ UNCHANGED vars

CallerStep(c) ==
  Enter(c) \/ Post(c) \/ NotifyWorkers(c) \/ DecodeOwnRow(c) \/ AwaitWorkers(c) \/ Return(c)
WorkerStep(w) == Check(w) \/ DecodeRow(w) \/ Report(w)

Next ==
  \/ \E c \in Callers : CallerStep(c)
  \/ \E w \in Workers : WorkerStep(w)
  \/ SpuriousWake
  \/ Stop
  \/ NotifyStop
  \/ Joined

Spec == Init /\ [][Next]_vars

-----------------------------------------------------------------------------
Live == {"posted", "decoding", "checking", "asleep"}

\* A worker that has the current job ahead of it, or in its hands.
Unfinished(w) == worker[w] \in {"decoding", "reporting"} \/ observed[w] # generation

TypeOK ==
  /\ caller \in [Callers -> Live \cup {"idle", "entered"}]
  /\ calls \in [Callers -> 0 .. MaxCalls]
  /\ callMutex \in Callers \cup {Idle}
  /\ generation \in 0 .. Generations - 1
  /\ pending \in 0 .. Cardinality(Workers)
  /\ stopping \in BOOLEAN
  /\ worker \in [Workers -> {"checking", "asleep", "decoding", "reporting", "exited"}]
  /\ observed \in [Workers -> 0 .. Generations - 1]

\* pending_workers_ counts exactly the workers that still owe their row.
PendingExact ==
  pending = IF \E c \in Callers : caller[c] \in Live
            THEN Cardinality({w \in Workers : Unfinished(w)}) ELSE 0

\* The pointers a worker decodes through belong to a call that has not
\* returned, and to its latest one.
HeldJobLive ==
  \A w \in Workers : worker[w] \in {"decoding", "reporting"} =>
    \E c \in Callers : caller[c] \in Live /\ callMutex = c /\ held[w] = Job(c) /\ job = Job(c)

\* When Decode returns every one of its rows has been written, once, from its
\* own arguments.
RowsDecodedOnce ==
  [][\A c \in Callers : caller[c] # "idle" /\ caller'[c] = "idle" =>
       \A r \in Rows : written[c][r] = <<Job(c)>>]_vars

\* Nobody writes into the results of a call that has returned.
ReturnedResultsStay ==
  [][\A c \in Callers : caller[c] = "idle" /\ caller'[c] = "idle" =>
       written'[c] = written[c]]_vars

\* A call that took the mutex returns; a stop is followed by every worker's exit.
CallsReturn == \A c \in Callers : caller[c] = "entered" ~> caller[c] = "idle"
StopJoins == stopping ~> \A w \in Workers : worker[w] = "exited"

\* No wake-up is lost.
EveryWaitEnds == CallsReturn /\ StopJoins
=============================================================================
