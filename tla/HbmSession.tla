----------------------------- MODULE HbmSession -----------------------------
(***************************************************************************)
(* The two sessions of the runtime (Vision and Language, one HBM each) and *)
(* the graphs they execute.  Every buffer is cacheable memory the CPU and  *)
(* the BPU see each through its own view (hbUCPMallocCached): what the CPU *)
(* wrote reaches the BPU by a CLEAN, what the BPU wrote reaches the CPU by *)
(* an INVALIDATE.  A graph keeps its buffers from one execution to the     *)
(* next, until its session executes another graph.                         *)
(*                                                                         *)
(* A graph takes one Host input, packed into its own buffer, and one       *)
(* resident input, bound where it lies for this execution only; its output *)
(* is a term over what the BPU read.  Every step may fail and leaves what  *)
(* the code leaves.  A wait that fails is taken to mean the task ended.    *)
(***************************************************************************)
EXTENDS Sequences

VARIABLES
  active,    \* active_graph_ of each session
  buffers,   \* PersistentBuffers of each graph
  execution  \* the Execute under way in each session, or Nothing

hbmVars == <<active, buffers, execution>>

Graphs == {"visual", "prefill", "decode", "decode_ar"}
SessionOf(graph) == IF graph = "visual" THEN "vision" ELSE "language"
Sessions == {SessionOf(graph) : graph \in Graphs}

Nothing == [at |-> "nothing"]

-----------------------------------------------------------------------------
\* Contents are tuples.  Fresh memory holds anything: a term no graph returns.
Junk == <<>>
Fresh == [cpu |-> Junk, bpu |-> Junk]

Written(memory, content) == [memory EXCEPT !.cpu = content]

Cleaned(memory) == [memory EXCEPT !.bpu = memory.cpu]

Invalidated(memory) == [memory EXCEPT !.cpu = memory.bpu]

Computed(graph, host, resident) == <<graph, host, resident>>

\* AllocateDeviceBuffer zeroes a cache, WriteDeviceBuffer adds rows to one.
ZeroCache == Cleaned(Written(Fresh, <<"zero">>))
Appended(cache, rows) == Cleaned(Written(cache, <<"rows", cache.cpu, rows>>))

-----------------------------------------------------------------------------
HbmInit ==
  /\ active = [s \in Sessions |-> "none"]
  /\ buffers = [g \in Graphs |-> Nothing]
  /\ execution = [s \in Sessions |-> Nothing]

Answered(session, at) == execution' = [execution EXCEPT ![session].at = at]

\* ExecuteGraphByName is called; the caller waits for "done" or "failed".
Call(graph, host, resident) ==
  /\ execution[SessionOf(graph)] = Nothing
  /\ execution' = [execution EXCEPT ![SessionOf(graph)] =
       [at |-> "bind", graph |-> graph, host |-> host, resident |-> resident, output |-> Junk]]
  /\ UNCHANGED <<active, buffers>>

\* A switch of graphs releases the buffers of the one before.
Released(session, graph) ==
  IF active[session] \in {"none", graph} THEN buffers
  ELSE [buffers EXCEPT ![active[session]] = Nothing]

\* GetGraph, the switch, and EnsurePersistentBuffers.
Bind(session) ==
  LET graph == execution[session].graph
      released == Released(session, graph)
  IN /\ execution[session].at = "bind"
     /\ \/ /\ Answered(session, "failed") /\ UNCHANGED <<active, buffers>>
        \/ /\ active' = [active EXCEPT ![session] = graph]
           /\ IF released[graph] # Nothing
              THEN buffers' = released /\ Answered(session, "pack")
              ELSE \/ /\ buffers' = [released EXCEPT ![graph] =
                                       [at |-> "held", input |-> Fresh, output |-> Fresh]]
                      /\ Answered(session, "pack")
                   \/ buffers' = released /\ Answered(session, "failed")

\* The Host input is packed and cleaned; a failing flush leaves it unclean.
Pack(session) ==
  LET graph == execution[session].graph
      packed == Written(buffers[graph].input, execution[session].host)
  IN /\ execution[session].at = "pack"
     /\ \/ /\ buffers' = [buffers EXCEPT ![graph].input = Cleaned(packed)]
           /\ Answered(session, "run")
        \/ /\ buffers' = [buffers EXCEPT ![graph].input = packed]
           /\ Answered(session, "failed")
     /\ UNCHANGED active

\* Create the task, submit it, and wait until it is done.
Run(session) ==
  LET graph == execution[session].graph
      ran == [buffers EXCEPT ![graph].output.bpu =
                Computed(graph, buffers[graph].input.bpu, execution[session].resident)]
  IN /\ execution[session].at = "run"
     /\ \/ buffers' = ran /\ Answered(session, "unpack")
        \/ buffers' \in {buffers, ran} /\ Answered(session, "failed")
     /\ UNCHANGED active

Unpack(session) ==
  LET graph == execution[session].graph
      read == Invalidated(buffers[graph].output)
  IN /\ execution[session].at = "unpack"
     /\ \/ /\ buffers' = [buffers EXCEPT ![graph].output = read]
           /\ execution' = [execution EXCEPT ![session].at = "done", ![session].output = read.cpu]
        \/ Answered(session, "failed") /\ UNCHANGED buffers
     /\ UNCHANGED active

Executes == \E session \in Sessions :
  Bind(session) \/ Pack(session) \/ Run(session) \/ Unpack(session)

\* The caller takes the Result.
Taken(session) == execution' = [execution EXCEPT ![session] = Nothing] /\ UNCHANGED <<active, buffers>>

-----------------------------------------------------------------------------
\* Only the graph executed last holds buffers in its session, whatever failed,
\* and an execution past its binding has them.
OnlyActiveHoldsBuffers ==
  \A g \in Graphs :
    /\ buffers[g] # Nothing => active[SessionOf(g)] = g
    /\ execution[SessionOf(g)].at \in {"pack", "run", "unpack"} /\ execution[SessionOf(g)].graph = g
         => buffers[g] # Nothing
=============================================================================
