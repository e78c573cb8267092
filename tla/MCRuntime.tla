------------------------------ MODULE MCRuntime ------------------------------
(* The concurrent side of the runtime, part by part: the row executor         *)
(* (PbdRowExecutor), threads sharing a session and its graphs                 *)
(* (InferenceSession), and the console with its renderer (Console).  part     *)
(* says which of them a behaviour explores, the others rest.                  *)
EXTENDS PbdRowExecutor, Console, InferenceSession

VARIABLE part

(* Two threads over two images: one request of two queries that may be        *)
(* restarted, one of a single query, one of none.                             *)
MCRequests ==
  {[image |-> <<"A">>, queries |-> <<<<"q1">>, <<"q2">>>>, protect |-> TRUE],
   [image |-> <<"B">>, queries |-> <<<<"q1">>>>, protect |-> FALSE],
   [image |-> <<"B">>, queries |-> <<>>, protect |-> FALSE]}

(* Two images and a video that share one output directory.                    *)
MCImages == {[stem |-> "a", ext |-> "jpg"], [stem |-> "a", ext |-> "png"]}
MCVideos == {[stem |-> "a", ext |-> "mp4"]}

------------------------------------------------------------------------------
RuntimeStarts ==
  /\ part \in {"executor", "session", "console"}
  /\ Init /\ SessionInit /\ ConsoleInit

ExecutorStep == part = "executor" /\ Next /\ UNCHANGED <<part, sessionVars, consoleVars>>
SessionStep == part = "session" /\ SessionNext /\ UNCHANGED <<part, vars, consoleVars>>
ConsoleStep == part = "console" /\ ConsoleNext /\ UNCHANGED <<part, vars, sessionVars>>

RuntimeNext == ExecutorStep \/ SessionStep \/ ConsoleStep

(* Every thread the scheduler can run is run; a caller of Decode need not     *)
(* call again and a sleeping worker need not wake by itself.  Loading a model *)
(* returns or throws, and the renderer's 100 ms pass.                         *)
Fairness ==
  /\ \A c \in Callers : WF_vars(part = "executor" /\ caller[c] # "idle" /\ CallerStep(c))
  /\ \A w \in Workers : WF_vars(part = "executor" /\ WorkerStep(w))
  /\ WF_vars(part = "executor" /\ NotifyStop)
  /\ WF_consoleVars(part = "console" /\ MainLoads)
  /\ WF_consoleVars(part = "console" /\ Renders)

RuntimeSpec ==
  RuntimeStarts /\ [][RuntimeNext]_<<part, vars, sessionVars, consoleVars>> /\ Fairness

------------------------------------------------------------------------------
(* Nobody waits for ever: callers and workers of the row executor, its        *)
(* destructor, and the console for its renderer.                              *)
WaitsEnd == EveryWaitEnds /\ LoadingEnds
==============================================================================
