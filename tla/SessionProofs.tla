---------------------------- MODULE SessionProofs ----------------------------
(***************************************************************************)
(* For any threads, requests and number of calls, with a failure at every  *)
(* step: a call that returns has answers of its own image and queries (the *)
(* first part), and the files the console names for a request are of the   *)
(* run it reports (the last part).                                         *)
(*                                                                         *)
(* Answers are compared with what the graphs give on memory of their own.  *)
(* The invariant follows a call through the buffers it shares with those   *)
(* before it: what the BPU is about to read is what this execution packed, *)
(* what it has written is computed from that, and the loop has the seed,   *)
(* the caches and the outputs of so many graphs of this query.             *)
(***************************************************************************)
EXTENDS InferenceSession, Console, TLAPS, SequenceTheorems

IsMemory(m) == m = [cpu |-> m.cpu, bpu |-> m.bpu]
IsHeld(b) ==
  /\ b = [at |-> "held", input |-> b.input, output |-> b.output]
  /\ IsMemory(b.input) /\ IsMemory(b.output)

BuffersTyped ==
  /\ active \in [Sessions -> Graphs \cup {"none"}]
  /\ \A s \in Sessions : active[s] = "none" \/ SessionOf(active[s]) = s
  /\ buffers = [g \in Graphs |-> buffers[g]]
  /\ \A g \in Graphs : buffers[g] = Nothing \/ IsHeld(buffers[g])

Steps == {"bind", "pack", "run", "unpack", "done", "failed"}

\* The execution under way in a session, if there is one.
Executing(s) ==
  LET e == execution[s]
  IN /\ e = [at |-> e.at, graph |-> e.graph, host |-> e.host, resident |-> e.resident,
             output |-> e.output]
     /\ e.at \in Steps /\ e.graph \in Graphs /\ SessionOf(e.graph) = s
     /\ e.at \in {"pack", "run", "unpack"} => IsHeld(buffers[e.graph])
     /\ e.at = "run" => buffers[e.graph].input.bpu = e.host
     /\ e.at = "unpack" => buffers[e.graph].output.bpu = Computed(e.graph, e.host, e.resident)
     /\ e.at = "done" => e.output = Computed(e.graph, e.host, e.resident)

ExecutionsSound ==
  /\ execution = [s \in Sessions |-> execution[s]]
  /\ \A s \in Sessions : execution[s] = Nothing \/ Executing(s)

OthersReleased == \A g \in Graphs : buffers[g] # Nothing => active[SessionOf(g)] = g

HbmInv == BuffersTyped /\ ExecutionsSound /\ OthersReleased

\* What a step inside the sessions leaves alone: which graph is executed there
\* and what it was given.
SameExecutions ==
  \A s \in Sessions :
    /\ execution'[s] = Nothing <=> execution[s] = Nothing
    /\ execution[s] # Nothing =>
         /\ execution'[s].graph = execution[s].graph
         /\ execution'[s].host = execution[s].host
         /\ execution'[s].resident = execution[s].resident

-----------------------------------------------------------------------------
LEMMA SessionsAre == Sessions = {"vision", "language"}
  BY DEF Sessions, Graphs, SessionOf

LEMMA GraphsHaveSessions == \A g \in Graphs : SessionOf(g) \in Sessions
  BY DEF Sessions

\* An execution is not the absence of one.
LEMMA ExecutingSomething == \A s \in Sessions : Executing(s) => execution[s] # Nothing
  BY DEF Executing, Nothing, Steps

LEMMA HeldSomething == \A b : IsHeld(b) => b # Nothing
  BY DEF IsHeld, Nothing

-----------------------------------------------------------------------------
(***************************************************************************)
(* One step of one session: the other session's graphs are its own.        *)
(***************************************************************************)
LEMMA OneSession ==
  ASSUME HbmInv, NEW s \in Sessions,
         execution' = [t \in Sessions |-> execution'[t]],
         \A t \in Sessions \ {s} : execution'[t] = execution[t],
         execution[s] # Nothing,
         Executing(s)',
         execution'[s].graph = execution[s].graph,
         execution'[s].host = execution[s].host,
         execution'[s].resident = execution[s].resident,
         active' \in [Sessions -> Graphs \cup {"none"}],
         active'[s] = "none" \/ SessionOf(active'[s]) = s,
         \A t \in Sessions \ {s} : active'[t] = active[t],
         buffers' = [g \in Graphs |-> buffers'[g]],
         \A g \in Graphs : SessionOf(g) # s => buffers'[g] = buffers[g],
         \A g \in Graphs : SessionOf(g) = s =>
           buffers'[g] = Nothing \/ (IsHeld(buffers'[g]) /\ active'[s] = g)
  PROVE  HbmInv' /\ SameExecutions
  <1>1. BuffersTyped'
    BY DEF HbmInv, BuffersTyped
  <1>2. OthersReleased'
    BY GraphsHaveSessions DEF HbmInv, OthersReleased
  <1>3. ASSUME NEW t \in Sessions \ {s} PROVE (execution[t] = Nothing \/ Executing(t))'
    <2>1. CASE execution[t] = Nothing
      BY <2>1
    <2>2. CASE Executing(t)
      <3>1. execution'[t] = execution[t]
        OBVIOUS
      <3>2. buffers'[execution[t].graph] = buffers[execution[t].graph]
        BY <2>2 DEF Executing
      <3> QED BY <2>2, <3>1, <3>2 DEF Executing
    <2> QED BY <2>1, <2>2 DEF HbmInv, ExecutionsSound
  <1>4. ExecutionsSound'
    BY <1>3 DEF ExecutionsSound
  <1>5. SameExecutions
    BY ExecutingSomething DEF SameExecutions, HbmInv, ExecutionsSound, Executing, Nothing, Steps
  <1> QED BY <1>1, <1>2, <1>4, <1>5 DEF HbmInv

\* The execution of a session that is at a step.
LEMMA AtStep ==
  ASSUME HbmInv, NEW s \in Sessions, execution[s].at \in Steps
  PROVE  Executing(s) /\ execution[s] # Nothing
  BY DEF HbmInv, ExecutionsSound, Nothing, Steps

\* The caller is told that the execution failed.
LEMMA AnsweredTo ==
  ASSUME HbmInv, NEW s \in Sessions, NEW at, execution[s].at \in Steps, Answered(s, at)
  PROVE  /\ execution' = [t \in Sessions |-> execution'[t]]
         /\ \A t \in Sessions \ {s} : execution'[t] = execution[t]
         /\ execution'[s] = [at |-> at, graph |-> execution[s].graph, host |-> execution[s].host,
              resident |-> execution[s].resident, output |-> execution[s].output]
  <1>1. Executing(s)
    BY AtStep
  <1>2. execution = [t \in Sessions |-> execution[t]]
    BY DEF HbmInv, ExecutionsSound
  <1>3. /\ execution' = [t \in Sessions |-> execution'[t]]
        /\ \A t \in Sessions \ {s} : execution'[t] = execution[t]
        /\ execution'[s] = [execution[s] EXCEPT !.at = at]
    BY <1>2 DEF Answered
  <1>4. [execution[s] EXCEPT !.at = at] = [at |-> at, graph |-> execution[s].graph,
           host |-> execution[s].host, resident |-> execution[s].resident,
           output |-> execution[s].output]
    BY <1>1 DEF Executing
  <1> QED BY <1>3, <1>4

\* A step that ends an execution as failed, whatever it did to the buffers of
\* its own session.
LEMMA FailsInSession ==
  ASSUME HbmInv, NEW s \in Sessions, execution[s].at \in Steps, Answered(s, "failed"),
         active' \in [Sessions -> Graphs \cup {"none"}],
         active'[s] = "none" \/ SessionOf(active'[s]) = s,
         \A t \in Sessions \ {s} : active'[t] = active[t],
         buffers' = [g \in Graphs |-> buffers'[g]],
         \A g \in Graphs : SessionOf(g) # s => buffers'[g] = buffers[g],
         \A g \in Graphs : SessionOf(g) = s =>
           buffers'[g] = Nothing \/ (IsHeld(buffers'[g]) /\ active'[s] = g)
  PROVE  HbmInv' /\ SameExecutions
  <1>1. Executing(s) /\ execution[s] # Nothing
    BY AtStep
  <1>2. /\ execution' = [t \in Sessions |-> execution'[t]]
        /\ \A t \in Sessions \ {s} : execution'[t] = execution[t]
        /\ execution'[s] = [at |-> "failed", graph |-> execution[s].graph,
             host |-> execution[s].host, resident |-> execution[s].resident,
             output |-> execution[s].output]
    BY AnsweredTo
  <1>3. Executing(s)'
    BY <1>1, <1>2 DEF Executing, Steps
  <1> QED BY <1>1, <1>2, <1>3, OneSession

LEMMA BindKeeps ==
  ASSUME HbmInv, NEW s \in Sessions, Bind(s)
  PROVE  HbmInv' /\ SameExecutions
  <1> DEFINE graph == execution[s].graph
             released == Released(s, graph)
             new == [at |-> "held", input |-> Fresh, output |-> Fresh]
  <1>1. execution[s].at \in Steps
    BY DEF Bind, Steps
  <1>2. Executing(s) /\ execution[s] # Nothing /\ graph \in Graphs /\ SessionOf(graph) = s
    BY <1>1, AtStep DEF Executing
  <1>3. /\ released = [g \in Graphs |-> released[g]]
        /\ \A g \in Graphs : SessionOf(g) # s => released[g] = buffers[g]
        /\ \A g \in Graphs \ {graph} : SessionOf(g) = s => released[g] = Nothing
        /\ released[graph] = buffers[graph]
    <2>0. buffers = [g \in Graphs |-> buffers[g]]
      BY DEF HbmInv, BuffersTyped
    <2>1. CASE active[s] \in {"none", graph}
      <3>1. released = buffers
        BY <2>1 DEF Released
      <3>2. \A g \in Graphs \ {graph} : SessionOf(g) = s => buffers[g] = Nothing
        BY <2>1 DEF HbmInv, OthersReleased, Graphs
      <3> QED BY <2>0, <3>1, <3>2
    <2>2. CASE active[s] \notin {"none", graph}
      <3>1. released = [buffers EXCEPT ![active[s]] = Nothing]
        BY <2>2 DEF Released
      <3>2. active[s] \in Graphs
        BY <2>2 DEF HbmInv, BuffersTyped
      <3>3. \A g \in Graphs : g # active[s] => SessionOf(g) # s \/ buffers[g] = Nothing
        BY DEF HbmInv, OthersReleased
      <3>4. SessionOf(active[s]) = s
        BY <2>2 DEF HbmInv, BuffersTyped
      <3> QED BY <2>0, <2>2, <3>1, <3>2, <3>3, <3>4
    <2> QED BY <2>1, <2>2
  <1>4. \A g \in Graphs : released[g] = Nothing \/ IsHeld(released[g])
    BY <1>2, <1>3 DEF HbmInv, BuffersTyped
  <1>5. IsHeld(new)
    BY DEF IsHeld, IsMemory, Fresh
  <1>6. active \in [Sessions -> Graphs \cup {"none"}]
    BY DEF HbmInv, BuffersTyped
  <1>7. CASE Answered(s, "failed") /\ UNCHANGED <<active, buffers>>
    BY <1>1, <1>6, <1>7, FailsInSession DEF HbmInv, BuffersTyped, OthersReleased
  <1>8. ASSUME active' = [active EXCEPT ![s] = graph],
               (released[graph] # Nothing /\ buffers' = released)
               \/ buffers' = [released EXCEPT ![graph] = new],
               Answered(s, "pack")
        PROVE  HbmInv' /\ SameExecutions
    <2>1. /\ execution' = [t \in Sessions |-> execution'[t]]
          /\ \A t \in Sessions \ {s} : execution'[t] = execution[t]
          /\ execution'[s] = [at |-> "pack", graph |-> graph, host |-> execution[s].host,
               resident |-> execution[s].resident, output |-> execution[s].output]
      BY <1>1, <1>8, AnsweredTo
    <2>2. /\ active' \in [Sessions -> Graphs \cup {"none"}] /\ active'[s] = graph
          /\ active'[s] = "none" \/ SessionOf(active'[s]) = s
          /\ \A t \in Sessions \ {s} : active'[t] = active[t]
      BY <1>2, <1>6, <1>8
    <2>3. /\ buffers' = [g \in Graphs |-> buffers'[g]]
          /\ \A g \in Graphs : SessionOf(g) # s => buffers'[g] = buffers[g]
          /\ \A g \in Graphs \ {graph} : SessionOf(g) = s => buffers'[g] = Nothing
          /\ IsHeld(buffers'[graph])
      <3>1. CASE released[graph] # Nothing /\ buffers' = released
        BY <1>2, <1>3, <1>4, <3>1
      <3>2. CASE buffers' = [released EXCEPT ![graph] = new]
        BY <1>2, <1>3, <1>5, <3>2
      <3> QED BY <1>8, <3>1, <3>2
    <2>4. Executing(s)'
      BY <1>2, <2>1, <2>3 DEF Executing, Steps
    <2> QED BY <1>2, <2>1, <2>2, <2>3, <2>4, OneSession
  <1>9. ASSUME active' = [active EXCEPT ![s] = graph], buffers' = released,
               ~(released[graph] # Nothing), Answered(s, "failed")
        PROVE  HbmInv' /\ SameExecutions
    <2>1. /\ active' \in [Sessions -> Graphs \cup {"none"}]
          /\ active'[s] = "none" \/ SessionOf(active'[s]) = s
          /\ \A t \in Sessions \ {s} : active'[t] = active[t]
      BY <1>2, <1>6, <1>9
    <2>2. \A g \in Graphs : SessionOf(g) = s => buffers'[g] = Nothing
      BY <1>3, <1>9
    <2> QED BY <1>1, <1>3, <1>9, <2>1, <2>2, FailsInSession
  <1> QED BY <1>7, <1>8, <1>9 DEF Bind

\* Past its binding the buffers of the graph are there, and no others of the
\* session; an update of them is what the steps below do.
LEMMA OwnBuffer ==
  ASSUME HbmInv, NEW s \in Sessions, execution[s].at \in {"pack", "run", "unpack"},
         NEW b, IsHeld(b),
         buffers' = [buffers EXCEPT ![execution[s].graph] = b], active' = active
  PROVE  /\ active' \in [Sessions -> Graphs \cup {"none"}]
         /\ active'[s] = "none" \/ SessionOf(active'[s]) = s
         /\ \A t \in Sessions \ {s} : active'[t] = active[t]
         /\ buffers' = [g \in Graphs |-> buffers'[g]]
         /\ \A g \in Graphs : SessionOf(g) # s => buffers'[g] = buffers[g]
         /\ \A g \in Graphs : SessionOf(g) = s =>
              buffers'[g] = Nothing \/ (IsHeld(buffers'[g]) /\ active'[s] = g)
         /\ buffers'[execution[s].graph] = b
  <1> DEFINE graph == execution[s].graph
  <1>1. /\ graph \in Graphs /\ SessionOf(graph) = s
        /\ IsHeld(buffers[graph])
    BY AtStep DEF Executing, Steps
  <1>2. active[s] = graph
    BY <1>1, HeldSomething DEF HbmInv, OthersReleased
  <1>3. buffers = [g \in Graphs |-> buffers[g]]
    BY DEF HbmInv, BuffersTyped
  <1>4. /\ buffers' = [g \in Graphs |-> buffers'[g]]
        /\ buffers'[graph] = b
        /\ \A g \in Graphs \ {graph} : buffers'[g] = buffers[g]
    BY <1>1, <1>3
  <1>5. \A g \in Graphs : SessionOf(g) = s => buffers'[g] = Nothing \/ (IsHeld(buffers'[g]) /\ active'[s] = g)
    BY <1>2, <1>4 DEF HbmInv, OthersReleased, BuffersTyped
  <1> QED BY <1>1, <1>4, <1>5 DEF HbmInv, BuffersTyped

\* The two updates of held buffers the steps make.
LEMMA HeldUpdates ==
  ASSUME NEW b, IsHeld(b), NEW m, NEW content
  PROVE  /\ [b EXCEPT !.input = m] = [at |-> "held", input |-> m, output |-> b.output]
         /\ [b EXCEPT !.output = m] = [at |-> "held", input |-> b.input, output |-> m]
         /\ [b EXCEPT !.output.bpu = content] =
              [at |-> "held", input |-> b.input, output |-> [cpu |-> b.output.cpu, bpu |-> content]]
  BY DEF IsHeld, IsMemory

LEMMA MemoryUpdates ==
  ASSUME NEW m, IsMemory(m), NEW content
  PROVE  /\ Written(m, content) = [cpu |-> content, bpu |-> m.bpu]
         /\ Cleaned(m) = [cpu |-> m.cpu, bpu |-> m.cpu]
         /\ Invalidated(m) = [cpu |-> m.bpu, bpu |-> m.bpu]
  BY DEF IsMemory, Written, Cleaned, Invalidated

LEMMA PackKeeps ==
  ASSUME HbmInv, NEW s \in Sessions, Pack(s)
  PROVE  HbmInv' /\ SameExecutions
  <1> DEFINE graph == execution[s].graph
             host == execution[s].host
             packed == Written(buffers[graph].input, host)
  <1>1. execution[s].at = "pack" /\ active' = active
    BY DEF Pack
  <1>2. Executing(s) /\ execution[s] # Nothing /\ IsHeld(buffers[graph])
    BY <1>1, AtStep DEF Executing, Steps
  <1>3. /\ IsMemory(packed) /\ Cleaned(packed) = [cpu |-> host, bpu |-> host]
    <2>1. packed = [cpu |-> host, bpu |-> buffers[graph].input.bpu]
      BY <1>2, MemoryUpdates DEF IsHeld
    <2>2. IsMemory(packed)
      BY <2>1 DEF IsMemory
    <2> QED BY <2>1, <2>2, MemoryUpdates
  <1> DEFINE Holding(m) == [at |-> "held", input |-> m, output |-> buffers[graph].output]
  <1>4. \A m : IsMemory(m) => IsHeld(Holding(m)) /\ Holding(m).input = m
    BY <1>2 DEF IsHeld
  <1>5. buffers = [g \in Graphs |-> buffers[g]] /\ graph \in Graphs
    BY <1>2 DEF HbmInv, BuffersTyped, Executing
  <1>6. CASE buffers' = [buffers EXCEPT ![graph].input = Cleaned(packed)] /\ Answered(s, "run")
    <2>1. buffers' = [buffers EXCEPT ![graph] = Holding(Cleaned(packed))]
      BY <1>2, <1>5, <1>6, HeldUpdates
    <2>2. IsMemory(Cleaned(packed)) /\ Cleaned(packed).bpu = host
      BY <1>3 DEF IsMemory
    <2>3. IsHeld(Holding(Cleaned(packed))) /\ Holding(Cleaned(packed)).input.bpu = host
      BY <1>4, <2>2
    <2>4. /\ active' \in [Sessions -> Graphs \cup {"none"}]
          /\ active'[s] = "none" \/ SessionOf(active'[s]) = s
          /\ \A t \in Sessions \ {s} : active'[t] = active[t]
          /\ buffers' = [g \in Graphs |-> buffers'[g]]
          /\ \A g \in Graphs : SessionOf(g) # s => buffers'[g] = buffers[g]
          /\ \A g \in Graphs : SessionOf(g) = s =>
               buffers'[g] = Nothing \/ (IsHeld(buffers'[g]) /\ active'[s] = g)
          /\ buffers'[graph] = Holding(Cleaned(packed))
      <3> HIDE DEF Holding, packed
      <3> QED BY <1>1, <2>1, <2>3, OwnBuffer
    <2>5. /\ execution' = [t \in Sessions |-> execution'[t]]
          /\ \A t \in Sessions \ {s} : execution'[t] = execution[t]
          /\ execution'[s] = [at |-> "run", graph |-> graph, host |-> host,
               resident |-> execution[s].resident, output |-> execution[s].output]
      BY <1>1, <1>6, AnsweredTo DEF Steps
    <2>6. Executing(s)'
      <3> HIDE DEF Holding, packed
      <3> QED BY <1>2, <2>3, <2>4, <2>5 DEF Executing, Steps
    <2> QED BY <1>2, <2>4, <2>5, <2>6, OneSession
  <1>7. CASE buffers' = [buffers EXCEPT ![graph].input = packed] /\ Answered(s, "failed")
    <2>1. buffers' = [buffers EXCEPT ![graph] = Holding(packed)]
      BY <1>2, <1>5, <1>7, HeldUpdates
    <2>2. IsHeld(Holding(packed))
      BY <1>3, <1>4
    <2> HIDE DEF Holding, packed
    <2>3. /\ active' \in [Sessions -> Graphs \cup {"none"}]
          /\ active'[s] = "none" \/ SessionOf(active'[s]) = s
          /\ \A t \in Sessions \ {s} : active'[t] = active[t]
          /\ buffers' = [g \in Graphs |-> buffers'[g]]
          /\ \A g \in Graphs : SessionOf(g) # s => buffers'[g] = buffers[g]
          /\ \A g \in Graphs : SessionOf(g) = s =>
               buffers'[g] = Nothing \/ (IsHeld(buffers'[g]) /\ active'[s] = g)
      BY <1>1, <2>1, <2>2, OwnBuffer
    <2> QED BY <1>1, <1>7, <2>3, FailsInSession DEF Steps
  <1> QED BY <1>6, <1>7 DEF Pack

LEMMA RunKeeps ==
  ASSUME HbmInv, NEW s \in Sessions, Run(s)
  PROVE  HbmInv' /\ SameExecutions
  <1> DEFINE graph == execution[s].graph
             b == buffers[graph]
             term == Computed(graph, b.input.bpu, execution[s].resident)
             after == [at |-> "held", input |-> b.input, output |-> [cpu |-> b.output.cpu, bpu |-> term]]
             ran == [buffers EXCEPT ![graph].output.bpu = term]
  <1>1. execution[s].at = "run" /\ active' = active
    BY DEF Run
  <1>2. Executing(s) /\ execution[s] # Nothing /\ IsHeld(b) /\ b.input.bpu = execution[s].host
    BY <1>1, AtStep DEF Executing, Steps
  <1>3. buffers = [g \in Graphs |-> buffers[g]] /\ graph \in Graphs
    BY <1>2 DEF HbmInv, BuffersTyped, Executing
  <1>4. ran = [buffers EXCEPT ![graph] = after]
    BY <1>2, <1>3, HeldUpdates
  <1>5. IsHeld(after) /\ after.output.bpu = Computed(graph, execution[s].host, execution[s].resident)
    BY <1>2 DEF IsHeld, IsMemory
  <1>9. \/ buffers' = ran /\ Answered(s, "unpack")
        \/ buffers' \in {buffers, ran} /\ Answered(s, "failed")
    BY DEF Run
  <1> HIDE DEF after, term
  <1>6. ASSUME NEW held, IsHeld(held), buffers' = [buffers EXCEPT ![graph] = held]
        PROVE  /\ active' \in [Sessions -> Graphs \cup {"none"}]
               /\ active'[s] = "none" \/ SessionOf(active'[s]) = s
               /\ \A t \in Sessions \ {s} : active'[t] = active[t]
               /\ buffers' = [g \in Graphs |-> buffers'[g]]
               /\ \A g \in Graphs : SessionOf(g) # s => buffers'[g] = buffers[g]
               /\ \A g \in Graphs : SessionOf(g) = s =>
                    buffers'[g] = Nothing \/ (IsHeld(buffers'[g]) /\ active'[s] = g)
               /\ buffers'[graph] = held
    BY <1>1, <1>6, OwnBuffer
  <1>7. CASE buffers' = ran /\ Answered(s, "unpack")
    <2>1. /\ execution' = [t \in Sessions |-> execution'[t]]
          /\ \A t \in Sessions \ {s} : execution'[t] = execution[t]
          /\ execution'[s] = [at |-> "unpack", graph |-> graph, host |-> execution[s].host,
               resident |-> execution[s].resident, output |-> execution[s].output]
      BY <1>1, <1>7, AnsweredTo DEF Steps
    <2>2. buffers' = [buffers EXCEPT ![graph] = after]
      BY <1>4, <1>7
    <2>3. /\ active' \in [Sessions -> Graphs \cup {"none"}]
          /\ active'[s] = "none" \/ SessionOf(active'[s]) = s
          /\ \A t \in Sessions \ {s} : active'[t] = active[t]
          /\ buffers' = [g \in Graphs |-> buffers'[g]]
          /\ \A g \in Graphs : SessionOf(g) # s => buffers'[g] = buffers[g]
          /\ \A g \in Graphs : SessionOf(g) = s =>
               buffers'[g] = Nothing \/ (IsHeld(buffers'[g]) /\ active'[s] = g)
          /\ buffers'[graph] = after
      BY <1>5, <1>6, <2>2
    <2>4. Executing(s)'
      BY <1>2, <1>5, <2>1, <2>3 DEF Executing, Steps
    <2> QED BY <1>2, <2>1, <2>3, <2>4, OneSession
  <1>8. CASE buffers' \in {buffers, ran} /\ Answered(s, "failed")
    <2>1. \E held : IsHeld(held) /\ buffers' = [buffers EXCEPT ![graph] = held]
      <3>1. CASE buffers' = buffers
        BY <1>2, <1>3, <3>1
      <3>2. CASE buffers' = ran
        BY <1>4, <1>5, <3>2
      <3> QED BY <1>8, <3>1, <3>2
    <2>2. PICK held : IsHeld(held) /\ buffers' = [buffers EXCEPT ![graph] = held]
      BY <2>1
    <2>3. /\ active' \in [Sessions -> Graphs \cup {"none"}]
          /\ active'[s] = "none" \/ SessionOf(active'[s]) = s
          /\ \A t \in Sessions \ {s} : active'[t] = active[t]
          /\ buffers' = [g \in Graphs |-> buffers'[g]]
          /\ \A g \in Graphs : SessionOf(g) # s => buffers'[g] = buffers[g]
          /\ \A g \in Graphs : SessionOf(g) = s =>
               buffers'[g] = Nothing \/ (IsHeld(buffers'[g]) /\ active'[s] = g)
      BY <1>6, <2>2
    <2> QED BY <1>1, <1>8, <2>3, FailsInSession DEF Steps
  <1> QED BY <1>7, <1>8, <1>9

\* The caller is handed the output.
LEMMA DoneUpdate ==
  ASSUME NEW e, NEW content,
         e = [at |-> e.at, graph |-> e.graph, host |-> e.host, resident |-> e.resident,
              output |-> e.output]
  PROVE  [[e EXCEPT !.at = "done"] EXCEPT !.output = content] =
           [at |-> "done", graph |-> e.graph, host |-> e.host, resident |-> e.resident,
            output |-> content]
  <1>1. [e EXCEPT !.at = "done"] = [at |-> "done", graph |-> e.graph, host |-> e.host,
          resident |-> e.resident, output |-> e.output]
    OBVIOUS
  <1>2. [[at |-> "done", graph |-> e.graph, host |-> e.host, resident |-> e.resident,
          output |-> e.output] EXCEPT !.output = content] =
          [at |-> "done", graph |-> e.graph, host |-> e.host, resident |-> e.resident,
           output |-> content]
    OBVIOUS
  <1> QED BY <1>1, <1>2

LEMMA UnpackKeeps ==
  ASSUME HbmInv, NEW s \in Sessions, Unpack(s)
  PROVE  HbmInv' /\ SameExecutions
  <1> DEFINE graph == execution[s].graph
             b == buffers[graph]
             read == Invalidated(b.output)
             after == [at |-> "held", input |-> b.input, output |-> read]
  <1>1. execution[s].at = "unpack" /\ active' = active
    BY DEF Unpack
  <1>2. /\ Executing(s) /\ execution[s] # Nothing /\ IsHeld(b)
        /\ b.output.bpu = Computed(graph, execution[s].host, execution[s].resident)
    BY <1>1, AtStep DEF Executing, Steps
  <1>3. buffers = [g \in Graphs |-> buffers[g]] /\ graph \in Graphs
    BY <1>2 DEF HbmInv, BuffersTyped, Executing
  <1>4. read = [cpu |-> b.output.bpu, bpu |-> b.output.bpu]
    BY <1>2, MemoryUpdates DEF IsHeld
  <1>5. IsHeld(after)
    BY <1>2, <1>4 DEF IsHeld, IsMemory
  <1>6. CASE /\ buffers' = [buffers EXCEPT ![graph].output = read]
             /\ execution' = [execution EXCEPT ![s].at = "done", ![s].output = read.cpu]
    <2>1. buffers' = [buffers EXCEPT ![graph] = after]
      BY <1>2, <1>3, <1>6, HeldUpdates
    <2>2. execution = [t \in Sessions |-> execution[t]]
      BY DEF HbmInv, ExecutionsSound
    <2>3. /\ execution' = [t \in Sessions |-> execution'[t]]
          /\ \A t \in Sessions \ {s} : execution'[t] = execution[t]
          /\ execution'[s] = [[execution[s] EXCEPT !.at = "done"] EXCEPT !.output = read.cpu]
      BY <1>6, <2>2
    <2>4. [[execution[s] EXCEPT !.at = "done"] EXCEPT !.output = read.cpu] =
            [at |-> "done", graph |-> graph, host |-> execution[s].host,
             resident |-> execution[s].resident, output |-> read.cpu]
      <3>1. execution[s] = [at |-> execution[s].at, graph |-> execution[s].graph,
              host |-> execution[s].host, resident |-> execution[s].resident,
              output |-> execution[s].output]
        BY <1>2 DEF Executing
      <3> HIDE DEF read
      <3> QED BY <3>1, DoneUpdate
    <2>5. Executing(s)'
      BY <1>2, <1>4, <2>3, <2>4 DEF Executing, Steps
    <2> HIDE DEF after
    <2> QED BY <1>1, <1>2, <1>5, <2>1, <2>3, <2>4, <2>5, OwnBuffer, OneSession
  <1>7. CASE Answered(s, "failed") /\ UNCHANGED buffers
    <2>1. buffers' = [buffers EXCEPT ![graph] = b]
      BY <1>3, <1>7
    <2> HIDE DEF b
    <2> QED BY <1>1, <1>2, <1>7, <2>1, OwnBuffer, FailsInSession DEF Steps
  <1> QED BY <1>6, <1>7 DEF Unpack

LEMMA ExecutesKeeps ==
  ASSUME HbmInv, Executes
  PROVE  HbmInv' /\ SameExecutions
  BY BindKeeps, PackKeeps, RunKeeps, UnpackKeeps DEF Executes

LEMMA HbmInitInv == HbmInit => HbmInv
  BY DEF HbmInit, HbmInv, BuffersTyped, ExecutionsSound, OthersReleased

LEMMA CallKeeps ==
  ASSUME HbmInv, NEW graph \in Graphs, NEW host, NEW resident, Call(graph, host, resident)
  PROVE  /\ HbmInv'
         /\ \A t \in Sessions \ {SessionOf(graph)} : execution'[t] = execution[t]
         /\ execution'[SessionOf(graph)] # Nothing
         /\ execution'[SessionOf(graph)].graph = graph
         /\ execution'[SessionOf(graph)].host = host
         /\ execution'[SessionOf(graph)].resident = resident
  <1> DEFINE s == SessionOf(graph)
             e == [at |-> "bind", graph |-> graph, host |-> host, resident |-> resident,
                   output |-> Junk]
  <1>1. s \in Sessions
    BY GraphsHaveSessions
  <1>2. execution = [t \in Sessions |-> execution[t]]
    BY DEF HbmInv, ExecutionsSound
  <1>3. execution' = [t \in Sessions |-> IF t = s THEN e ELSE execution[t]]
    BY <1>1, <1>2 DEF Call
  <1>4. /\ execution' = [t \in Sessions |-> execution'[t]]
        /\ execution'[s] = e
        /\ \A t \in Sessions \ {s} : execution'[t] = execution[t]
    BY <1>1, <1>3
  <1>5. e.at = "bind" /\ e.graph = graph /\ e.host = host /\ e.resident = resident /\ e # Nothing
    BY DEF Nothing
  <1>6. Executing(s)'
    BY <1>4 DEF Executing, Steps
  <1>7. buffers' = buffers /\ active' = active
    BY DEF Call
  <1>8. \A t \in Sessions \ {s} : (execution[t] = Nothing \/ Executing(t))'
    BY <1>4, <1>7 DEF HbmInv, ExecutionsSound, Executing
  <1>9. HbmInv'
    BY <1>4, <1>6, <1>7, <1>8 DEF HbmInv, ExecutionsSound, BuffersTyped, OthersReleased
  <1> HIDE DEF e
  <1> QED BY <1>4, <1>5, <1>9

LEMMA TakenKeeps ==
  ASSUME HbmInv, NEW s \in Sessions, Taken(s)
  PROVE  /\ HbmInv'
         /\ execution'[s] = Nothing
         /\ \A t \in Sessions \ {s} : execution'[t] = execution[t]
  <1>1. execution = [t \in Sessions |-> execution[t]]
    BY DEF HbmInv, ExecutionsSound
  <1>2. /\ execution' = [t \in Sessions |-> execution'[t]]
        /\ execution'[s] = Nothing
        /\ \A t \in Sessions \ {s} : execution'[t] = execution[t]
    BY <1>1 DEF Taken
  <1>3. buffers' = buffers /\ active' = active
    BY DEF Taken
  <1>4. \A t \in Sessions \ {s} : (execution[t] = Nothing \/ Executing(t))'
    BY <1>2, <1>3 DEF HbmInv, ExecutionsSound, Executing
  <1> QED BY <1>2, <1>3, <1>4 DEF HbmInv, ExecutionsSound, BuffersTyped, OthersReleased

-----------------------------------------------------------------------------
(***************************************************************************)
(* What the graphs give for one query: the outputs of the two schedules    *)
(* one after the other, with the rows they find in the caches.             *)
(***************************************************************************)
FirstRows(image, query) == <<"rows", <<"zero">>, SeedOf(image, query)>>
Step(graph, latest, rows) == Computed(graph, <<"tokens", latest>>, rows)

Hybrid1(i, q) == Step("decode", SeedOf(i, q), FirstRows(i, q))
Hybrid2(i, q) == Step("decode_ar", Hybrid1(i, q), FirstRows(i, q))
HybridRows(i, q) == <<"rows", FirstRows(i, q), Hybrid2(i, q)>>
Hybrid3(i, q) == Step("decode", Hybrid2(i, q), HybridRows(i, q))
Slow1(i, q) == Step("decode_ar", SeedOf(i, q), FirstRows(i, q))
SlowRows(i, q) == <<"rows", FirstRows(i, q), Slow1(i, q)>>
Slow2(i, q) == Step("decode_ar", Slow1(i, q), SlowRows(i, q))
SlowRows2(i, q) == <<"rows", SlowRows(i, q), Slow2(i, q)>>

\* The loop in mode m has these outputs and, in the caches, these rows.
Reached(i, q, m, outs, rows) ==
  \/ /\ m = "hybrid"
     /\ \/ outs = <<>> /\ rows = FirstRows(i, q)
        \/ outs = <<Hybrid1(i, q)>> /\ rows = FirstRows(i, q)
        \/ outs = <<Hybrid1(i, q), Hybrid2(i, q)>> /\ rows = HybridRows(i, q)
        \/ outs = <<Hybrid1(i, q), Hybrid2(i, q), Hybrid3(i, q)>> /\ rows = HybridRows(i, q)
  \/ /\ m = "slow"
     /\ \/ outs = <<>> /\ rows = FirstRows(i, q)
        \/ outs = <<Slow1(i, q)>> /\ rows = SlowRows(i, q)
        \/ outs = <<Slow1(i, q), Slow2(i, q)>> /\ rows = SlowRows2(i, q)

LEMMA SchedulesAre ==
  /\ Schedule["hybrid"] = <<"decode", "decode_ar", "decode">>
  /\ Schedule["slow"] = <<"decode_ar", "decode_ar">>
  BY DEF Schedule

LEMMA Appends ==
  ASSUME NEW a, NEW b, NEW c
  PROVE  Append(<<a>>, b) = <<a, b>> /\ Append(<<a, b>>, c) = <<a, b, c>>
  <1> DEFINE S == {a, b, c}
             two == Append(<<a>>, b)
             three == Append(<<a, b>>, c)
  <1>1. <<a>> \in Seq(S) /\ Len(<<a>>) = 1 /\ <<a>>[1] = a /\ b \in S
    OBVIOUS
  <1>2. two \in Seq(S) /\ Len(two) = 2 /\ two[1] = a /\ two[2] = b
    <2>1. two \in Seq(S) /\ Len(two) = Len(<<a>>) + 1 /\ two[Len(<<a>>) + 1] = b
          /\ \A i \in 1 .. Len(<<a>>) : two[i] = <<a>>[i]
      BY <1>1, AppendProperties
    <2> QED BY <1>1, <2>1
  <1>3. <<a, b>> \in Seq(S) /\ Len(<<a, b>>) = 2 /\ <<a, b>>[1] = a /\ <<a, b>>[2] = b /\ c \in S
    OBVIOUS
  <1>4. two = <<a, b>>
    <2> HIDE DEF two, S
    <2>1. \A i \in 1 .. Len(two) : two[i] = <<a, b>>[i]
      BY <1>2
    <2> QED BY <1>2, <1>3, <2>1, SeqEqual
  <1>5. three \in Seq(S) /\ Len(three) = 3 /\ three[1] = a /\ three[2] = b /\ three[3] = c
    <2>1. three \in Seq(S) /\ Len(three) = Len(<<a, b>>) + 1 /\ three[Len(<<a, b>>) + 1] = c
          /\ \A i \in 1 .. Len(<<a, b>>) : three[i] = <<a, b>>[i]
      BY <1>3, AppendProperties
    <2> QED BY <1>3, <2>1
  <1>6. <<a, b, c>> \in Seq(S) /\ Len(<<a, b, c>>) = 3
    OBVIOUS
  <1>7. three = <<a, b, c>>
    <2> HIDE DEF three, S
    <2>1. \A i \in 1 .. Len(three) : three[i] = <<a, b, c>>[i]
      BY <1>5
    <2> QED BY <1>5, <1>6, <2>1, SeqEqual
  <1> QED BY <1>4, <1>7

\* One graph more.
LEMMA ReachedNext ==
  ASSUME NEW i, NEW q, NEW m, NEW outs, NEW rows, Reached(i, q, m, outs, rows),
         Len(outs) < Len(Schedule[m]),
         NEW latest, latest = IF outs = <<>> THEN SeedOf(i, q) ELSE outs[Len(outs)],
         NEW graph, graph = Schedule[m][Len(outs) + 1],
         NEW output, output = Computed(graph, <<"tokens", latest>>, rows)
  PROVE  /\ graph \in {"decode", "decode_ar"}
         /\ Reached(i, q, m, Append(outs, output),
              IF graph = "decode" THEN rows ELSE <<"rows", rows, output>>)
  <1>1. CASE m = "hybrid" /\ outs = <<>> /\ rows = FirstRows(i, q)
    <2>1. graph = "decode" /\ latest = SeedOf(i, q)
      BY <1>1, SchedulesAre
    <2>2. output = Hybrid1(i, q) /\ Append(outs, output) = <<Hybrid1(i, q)>>
      BY <1>1, <2>1 DEF Hybrid1, Step
    <2> QED BY <1>1, <2>1, <2>2 DEF Reached
  <1>2. CASE m = "hybrid" /\ outs = <<Hybrid1(i, q)>> /\ rows = FirstRows(i, q)
    <2>1. graph = "decode_ar" /\ latest = Hybrid1(i, q)
      BY <1>2, SchedulesAre
    <2>2. output = Hybrid2(i, q) /\ Append(outs, output) = <<Hybrid1(i, q), Hybrid2(i, q)>>
      BY <1>2, <2>1, Appends DEF Hybrid2, Step
    <2>3. <<"rows", rows, output>> = HybridRows(i, q)
      BY <1>2, <2>2 DEF HybridRows
    <2> QED BY <1>2, <2>1, <2>2, <2>3 DEF Reached
  <1>3. CASE /\ m = "hybrid" /\ outs = <<Hybrid1(i, q), Hybrid2(i, q)>>
             /\ rows = HybridRows(i, q)
    <2>1. graph = "decode" /\ latest = Hybrid2(i, q)
      BY <1>3, SchedulesAre
    <2>2. output = Hybrid3(i, q)
      BY <1>3, <2>1 DEF Hybrid3, Step
    <2>3. Append(<<Hybrid1(i, q), Hybrid2(i, q)>>, output)
            = <<Hybrid1(i, q), Hybrid2(i, q), output>>
      BY Appends
    <2>4. Append(outs, output) = <<Hybrid1(i, q), Hybrid2(i, q), Hybrid3(i, q)>>
      BY <1>3, <2>2, <2>3, Zenon
    <2> QED BY <1>3, <2>1, <2>4 DEF Reached
  <1>4. CASE /\ m = "hybrid"
             /\ outs = <<Hybrid1(i, q), Hybrid2(i, q), Hybrid3(i, q)>>
    BY <1>4, SchedulesAre
  <1>5. CASE m = "slow" /\ outs = <<>> /\ rows = FirstRows(i, q)
    <2>1. graph = "decode_ar" /\ latest = SeedOf(i, q)
      BY <1>5, SchedulesAre
    <2>2. output = Slow1(i, q) /\ Append(outs, output) = <<Slow1(i, q)>>
      BY <1>5, <2>1 DEF Slow1, Step
    <2>3. <<"rows", rows, output>> = SlowRows(i, q)
      BY <1>5, <2>2 DEF SlowRows
    <2> QED BY <1>5, <2>1, <2>2, <2>3 DEF Reached
  <1>6. CASE m = "slow" /\ outs = <<Slow1(i, q)>> /\ rows = SlowRows(i, q)
    <2>1. graph = "decode_ar" /\ latest = Slow1(i, q)
      BY <1>6, SchedulesAre
    <2>2. output = Slow2(i, q) /\ Append(outs, output) = <<Slow1(i, q), Slow2(i, q)>>
      BY <1>6, <2>1, Appends DEF Slow2, Step
    <2>3. <<"rows", rows, output>> = SlowRows2(i, q)
      BY <1>6, <2>2 DEF SlowRows2
    <2> QED BY <1>6, <2>1, <2>2, <2>3 DEF Reached
  <1>7. CASE m = "slow" /\ outs = <<Slow1(i, q), Slow2(i, q)>>
    BY <1>7, SchedulesAre
  <1> QED BY <1>1, <1>2, <1>3, <1>4, <1>5, <1>6, <1>7 DEF Reached

\* The loop of the specification, state by state.
Before(i, q) == [last |-> SeedOf(i, q), outputs |-> <<>>,
                 rows |-> <<"rows", <<"zero">>, SeedOf(i, q)>>]

Grown(graph, before) ==
  LET output == Computed(graph, <<"tokens", before.last>>, before.rows)
  IN [last |-> output, outputs |-> Append(before.outputs, output),
      rows |-> IF graph = "decode" THEN before.rows ELSE <<"rows", before.rows, output>>]

LEMMA LoopUnfolds ==
  ASSUME NEW i, NEW q, NEW graphs, Len(graphs) \in {2, 3},
         NEW s0, s0 = Before(i, q), NEW s1, s1 = Grown(graphs[1], s0),
         NEW s2, s2 = Grown(graphs[2], s1), NEW s3, s3 = Grown(graphs[3], s2)
  PROVE  OutputsOf(i, q, graphs) = IF Len(graphs) = 2 THEN s2.outputs ELSE s3.outputs
  <1> DEFINE Body(f) ==
               [n \in 0 .. Len(graphs) |->
                  IF n = 0
                  THEN [last |-> SeedOf(i, q), outputs |-> <<>>,
                        rows |-> <<"rows", <<"zero">>, SeedOf(i, q)>>]
                  ELSE LET before == f[n - 1]
                           output == Computed(graphs[n], <<"tokens", before.last>>, before.rows)
                       IN [last |-> output, outputs |-> Append(before.outputs, output),
                           rows |-> IF graphs[n] = "decode" THEN before.rows
                                    ELSE <<"rows", before.rows, output>>]]
             After == CHOOSE f : f = Body(f)
             w == [n \in 0 .. Len(graphs) |->
                     IF n = 0 THEN s0 ELSE IF n = 1 THEN s1 ELSE IF n = 2 THEN s2 ELSE s3]
  <1>1. \A f : Body(f) = [n \in 0 .. Len(graphs) |->
                            IF n = 0 THEN Before(i, q) ELSE Grown(graphs[n], f[n - 1])]
    BY DEF Before, Grown
  <1>2. OutputsOf(i, q, graphs) = After[Len(graphs)].outputs
    BY DEF OutputsOf
  <1> HIDE DEF Body
  <1>3. w = Body(w)
    <2>1. ASSUME NEW n \in 0 .. Len(graphs)
          PROVE  w[n] = IF n = 0 THEN Before(i, q) ELSE Grown(graphs[n], w[n - 1])
      <3>1. CASE n = 0
        BY <3>1
      <3>2. CASE n = 1
        <4>1. w[1] = s1 /\ w[0] = s0
          BY <3>2
        <4> QED BY <3>2, <4>1
      <3>3. CASE n = 2
        <4>1. w[2] = s2 /\ w[1] = s1
          BY <3>3
        <4> QED BY <3>3, <4>1
      <3>4. CASE n = 3
        <4>1. w[3] = s3 /\ w[2] = s2
          BY <3>4
        <4> QED BY <3>4, <4>1
      <3> QED BY <3>1, <3>2, <3>3, <3>4
    <2>2. w = [n \in 0 .. Len(graphs) |-> w[n]]
      OBVIOUS
    <2> HIDE DEF w
    <2>3. w = [n \in 0 .. Len(graphs) |->
                 IF n = 0 THEN Before(i, q) ELSE Grown(graphs[n], w[n - 1])]
      BY <2>1, <2>2
    <2> QED BY <1>1, <2>3
  <1>4. After = Body(After)
    <2> HIDE DEF w
    <2> QED BY <1>3
  <1> HIDE DEF After
  <1>5. \A n \in 0 .. Len(graphs) :
          After[n] = IF n = 0 THEN Before(i, q) ELSE Grown(graphs[n], After[n - 1])
    <2>1. After = [n \in 0 .. Len(graphs) |->
                     IF n = 0 THEN Before(i, q) ELSE Grown(graphs[n], After[n - 1])]
      BY <1>1, <1>4
    <2> QED BY <2>1
  <1>6. After[0] = s0 /\ After[1] = s1 /\ After[2] = s2
    <2>1. After[0] = s0
      BY <1>5
    <2>2. After[1] = s1
      BY <1>5, <2>1
    <2>3. After[2] = s2
      BY <1>5, <2>2
    <2> QED BY <2>1, <2>2, <2>3
  <1>7. CASE Len(graphs) = 2
    BY <1>2, <1>6, <1>7
  <1>8. CASE Len(graphs) = 3
    <2>1. After[3] = s3
      BY <1>5, <1>6, <1>8
    <2> QED BY <1>2, <1>8, <2>1
  <1> QED BY <1>7, <1>8

LEMMA Lengths ==
  /\ Len(<<>>) = 0
  /\ \A a : Len(<<a>>) = 1
  /\ \A a, b : Len(<<a, b>>) = 2
  /\ \A a, b, c : Len(<<a, b, c>>) = 3
  OBVIOUS

\* When the schedule is done the outputs are those of the query.
LEMMA ReachedAll ==
  ASSUME NEW i, NEW q, NEW m, NEW outs, NEW rows, Reached(i, q, m, outs, rows),
         Len(outs) = Len(Schedule[m])
  PROVE  outs = OutputsOf(i, q, Schedule[m])
  <1> DEFINE s0 == Before(i, q)
  <1>0. s0.last = SeedOf(i, q) /\ s0.outputs = <<>> /\ s0.rows = FirstRows(i, q)
    BY DEF Before, FirstRows
  <1>1. CASE m = "hybrid"
    <2> DEFINE s1 == Grown("decode", s0)
               s2 == Grown("decode_ar", s1)
               s3 == Grown("decode", s2)
    <2>1. /\ s1.last = Hybrid1(i, q) /\ s1.outputs = Append(<<>>, Hybrid1(i, q))
          /\ s1.rows = FirstRows(i, q)
      BY <1>0 DEF Grown, Hybrid1, Step
    <2> HIDE DEF s0, s1
    <2>2. /\ s2.last = Hybrid2(i, q) /\ s2.outputs = Append(s1.outputs, Hybrid2(i, q))
          /\ s2.rows = HybridRows(i, q)
      BY <2>1 DEF Grown, Hybrid2, HybridRows, Step
    <2> HIDE DEF s2
    <2>3. s3.outputs = Append(s2.outputs, Hybrid3(i, q))
      BY <2>2 DEF Grown, Hybrid3, Step
    <2> HIDE DEF s3
    <2>4. s1.outputs = <<Hybrid1(i, q)>>
      BY <2>1
    <2>5. s3.outputs = <<Hybrid1(i, q), Hybrid2(i, q), Hybrid3(i, q)>>
      <3>1. Append(<<Hybrid1(i, q)>>, Hybrid2(i, q)) = <<Hybrid1(i, q), Hybrid2(i, q)>>
        BY Appends
      <3>2. Append(<<Hybrid1(i, q), Hybrid2(i, q)>>, Hybrid3(i, q))
              = <<Hybrid1(i, q), Hybrid2(i, q), Hybrid3(i, q)>>
        BY Appends
      <3> QED BY <2>2, <2>3, <2>4, <3>1, <3>2, Zenon
    <2>6. OutputsOf(i, q, Schedule[m]) = s3.outputs
      <3>1. /\ Len(Schedule[m]) = 3 /\ Schedule[m][1] = "decode"
            /\ Schedule[m][2] = "decode_ar" /\ Schedule[m][3] = "decode"
        BY <1>1, SchedulesAre
      <3>2. /\ s1 = Grown(Schedule[m][1], s0) /\ s2 = Grown(Schedule[m][2], s1)
            /\ s3 = Grown(Schedule[m][3], s2) /\ s0 = Before(i, q)
        BY <3>1 DEF s0, s1, s2, s3
      <3> QED BY <3>1, <3>2, LoopUnfolds
    <2>7. outs = <<Hybrid1(i, q), Hybrid2(i, q), Hybrid3(i, q)>>
      <3>1. Len(outs) = 3
        BY <1>1, SchedulesAre
      <3>2. Len(outs) # 0 /\ Len(outs) # 1 /\ Len(outs) # 2
        BY <3>1
      <3>3. m # "slow"
        BY <1>1
      <3> QED BY <3>2, <3>3, Lengths, Zenon DEF Reached
    <2> QED BY <2>5, <2>6, <2>7
  <1>2. CASE m = "slow"
    <2> DEFINE s1 == Grown("decode_ar", s0)
               s2 == Grown("decode_ar", s1)
               s3 == Grown(Schedule[m][3], s2)
    <2>1. /\ s1.last = Slow1(i, q) /\ s1.outputs = Append(<<>>, Slow1(i, q))
          /\ s1.rows = SlowRows(i, q)
      BY <1>0 DEF Grown, Slow1, SlowRows, Step
    <2> HIDE DEF s0, s1
    <2>2. s2.outputs = Append(s1.outputs, Slow2(i, q))
      BY <2>1 DEF Grown, Slow2, Step
    <2> HIDE DEF s2, s3
    <2>3. s1.outputs = <<Slow1(i, q)>>
      BY <2>1
    <2>4. s2.outputs = <<Slow1(i, q), Slow2(i, q)>>
      BY <2>2, <2>3, Appends, Zenon
    <2>5. OutputsOf(i, q, Schedule[m]) = s2.outputs
      <3>1. Len(Schedule[m]) = 2 /\ Schedule[m][1] = "decode_ar" /\ Schedule[m][2] = "decode_ar"
        BY <1>2, SchedulesAre
      <3>2. /\ s1 = Grown(Schedule[m][1], s0) /\ s2 = Grown(Schedule[m][2], s1)
            /\ s3 = Grown(Schedule[m][3], s2) /\ s0 = Before(i, q)
        BY <3>1 DEF s0, s1, s2, s3
      <3> QED BY <3>1, <3>2, LoopUnfolds
    <2>6. outs = <<Slow1(i, q), Slow2(i, q)>>
      <3>1. Len(outs) = 2
        BY <1>2, SchedulesAre
      <3>2. Len(outs) # 0 /\ Len(outs) # 1
        BY <3>1
      <3>3. m # "hybrid"
        BY <1>2
      <3> QED BY <3>2, <3>3, Lengths, Zenon DEF Reached
    <2> QED BY <2>4, <2>5, <2>6
  <1> QED BY <1>1, <1>2 DEF Reached

-----------------------------------------------------------------------------
(***************************************************************************)
(* The invariant of the session.                                           *)
(***************************************************************************)
Generating == {"generate", "prefill", "decode", "decoding"}
Inferring == {"infer", "visual"} \cup Generating

\* The mutex, and who asked what.
HolderInv ==
  /\ stage \in {"none", "initialize"} \cup Inferring
  /\ holder \in Threads \cup {Nobody} /\ (holder = Nobody <=> stage = "none")
  /\ asked = [c \in Threads |-> asked[c]] /\ returned = [c \in Threads |-> returned[c]]
  /\ stage \in Inferring => Request \in Requests

\* An engine executes the graph the call waits for, on what the call gave it.
GraphCallsInv ==
  /\ execution["vision"] # Nothing <=> stage = "visual"
  /\ execution["language"] # Nothing <=> stage \in {"prefill", "decoding"}
  /\ stage = "visual" =>
       /\ execution["vision"].graph = "visual" /\ execution["vision"].resident = Junk
       /\ execution["vision"].host = <<"patches", Request.image>>
  /\ stage = "prefill" =>
       /\ execution["language"].graph = "prefill"
       /\ execution["language"].host = <<"prompt", Query, features>>
       /\ execution["language"].resident = <<"zero">>
  /\ stage = "decoding" =>
       /\ execution["language"].graph = NextGraph
       /\ execution["language"].host = <<"tokens", Last>>
       /\ execution["language"].resident = cache.bpu

\* What the call may be given for its q-th query.
AnswerSound(req, q, answer) ==
  /\ answer.mode = "slow" => SlowAllowed(req)
  /\ answer.outputs = OutputsOf(req.image, req.queries[q], Schedule[answer.mode])

AnswersTo(req) ==
  {[mode |-> m, outputs |-> OutputsOf(req.image, req.queries[q], Schedule[m])] :
     m \in {"hybrid", "slow"}, q \in DOMAIN req.queries}

\* The answers there are, one query short at least.
AnswersInv ==
  /\ stage = "visual" => answers = <<>> /\ Request.queries # <<>>
  /\ stage \in Generating =>
       /\ features = FeaturesOf(Request.image)
       /\ answers \in Seq(AnswersTo(Request)) /\ Len(answers) < Len(Request.queries)
       /\ \A q \in 1 .. Len(answers) : AnswerSound(Request, q, answers[q])

\* The Generate under way.
LoopInv ==
  /\ stage = "prefill" => mode = GenerationMode /\ outputs = <<>>
  /\ stage \in {"decode", "decoding"} =>
       /\ seed = SeedOf(Request.image, Query)
       /\ mode = "slow" => SlowAllowed(Request)
       /\ cache = [cpu |-> cache.cpu, bpu |-> cache.cpu]
       /\ Reached(Request.image, Query, mode, outputs, cache.cpu)
  /\ stage = "decoding" => Len(outputs) < Len(Schedule[mode])

CallInv == HolderInv /\ GraphCallsInv /\ AnswersInv /\ LoopInv

SessionInv == HbmInv /\ CallInv /\ AnswersOwnRequest

-----------------------------------------------------------------------------
LEMMA SessionInitInv == SessionInit => SessionInv
  <1> SUFFICES ASSUME SessionInit PROVE SessionInv
    OBVIOUS
  <1>1. HbmInv
    BY HbmInitInv DEF SessionInit
  <1>2. HolderInv
    BY DEF SessionInit, HolderInv, Inferring, Generating
  <1>3. GraphCallsInv
    BY SessionsAre DEF SessionInit, HbmInit, GraphCallsInv
  <1>4. AnswersInv /\ LoopInv
    BY DEF SessionInit, AnswersInv, LoopInv, Generating
  <1>5. AnswersOwnRequest
    BY DEF SessionInit, AnswersOwnRequest
  <1> QED BY <1>1, <1>2, <1>3, <1>4, <1>5 DEF SessionInv, CallInv

\* A result a call may return.
ResultSound(req, result) ==
  /\ Len(result) = Len(req.queries)
  /\ \A q \in DOMAIN result : AnswerSound(req, q, result[q])

LEMMA OwnRequest ==
  AnswersOwnRequest <=>
    \A c \in Threads : holder # c /\ returned[c] # Failed => ResultSound(asked[c], returned[c])
  BY DEF AnswersOwnRequest, ResultSound, AnswerSound

LEMMA OwnRequestNext ==
  AnswersOwnRequest' <=>
    \A c \in Threads : holder' # c /\ returned'[c] # Failed => ResultSound(asked'[c], returned'[c])
  BY DEF AnswersOwnRequest, ResultSound, AnswerSound

\* A call ends, and its engines are idle.
LEMMA LeaveKeeps ==
  ASSUME SessionInv, HbmInv', stage # "none", NEW result, Leave(result), asked' = asked,
         execution'["vision"] = Nothing, execution'["language"] = Nothing,
         result # Failed => ResultSound(Request, result)
  PROVE  SessionInv'
  <1>1. holder \in Threads /\ holder # Nobody
    BY DEF SessionInv, CallInv, HolderInv
  <1>2. stage' = "none" /\ holder' = Nobody
    BY DEF Leave
  <1>3. returned' = [returned EXCEPT ![holder] = result]
    BY DEF Leave
  <1>4. /\ returned' = [c \in Threads |-> returned'[c]] /\ returned'[holder] = result
        /\ \A c \in Threads \ {holder} : returned'[c] = returned[c]
    BY <1>1, <1>3 DEF SessionInv, CallInv, HolderInv
  <1>5. HolderInv'
    BY <1>2, <1>4 DEF SessionInv, CallInv, HolderInv, Inferring, Generating
  <1>6. GraphCallsInv' /\ AnswersInv' /\ LoopInv'
    BY <1>2 DEF GraphCallsInv, AnswersInv, LoopInv, Generating
  <1>7. ASSUME NEW c \in Threads, returned'[c] # Failed
        PROVE  ResultSound(asked'[c], returned'[c])
    <2>1. CASE c = holder
      BY <1>4, <1>7, <2>1 DEF Request
    <2>2. CASE c # holder
      <3>1. returned'[c] = returned[c]
        BY <1>4, <2>2
      <3> QED BY <1>7, <2>2, <3>1, OwnRequest DEF SessionInv
    <2> QED BY <2>1, <2>2
  <1>8. AnswersOwnRequest'
    BY <1>7, OwnRequestNext
  <1> QED BY <1>5, <1>6, <1>8 DEF SessionInv, CallInv

\* A call goes on: nobody returns anything.
LEMMA GotoKeeps ==
  ASSUME SessionInv, stage \in Inferring, NEW there \in Inferring, Goto(there), asked' = asked
  PROVE  HolderInv' /\ AnswersOwnRequest' /\ Request' = Request
  <1>1. stage' = there /\ holder' = holder /\ returned' = returned
    BY DEF Goto
  <1>2. Request' = Request
    BY <1>1 DEF Request
  <1>3. HolderInv'
    BY <1>1, <1>2 DEF SessionInv, CallInv, HolderInv, Inferring, Generating
  <1>4. AnswersOwnRequest'
    BY <1>1, OwnRequest, OwnRequestNext DEF SessionInv
  <1> QED BY <1>2, <1>3, <1>4

-----------------------------------------------------------------------------
(***************************************************************************)
(* The steps.                                                              *)
(***************************************************************************)
LEMMA BeginKeeps ==
  ASSUME SessionInv, NEW c \in Threads, NEW there, NEW req, Begin(c, there, req),
         there = "initialize" \/ (there = "infer" /\ req \in Requests)
  PROVE  SessionInv'
  <1>1. /\ holder = Nobody /\ holder' = c /\ stage' = there
        /\ asked' = [asked EXCEPT ![c] = req]
        /\ returned' = [returned EXCEPT ![c] = Failed]
        /\ UNCHANGED <<hbmVars, callState>>
    BY DEF Begin
  <1>2. c # Nobody /\ stage = "none"
    BY <1>1, SessionAssumption DEF SessionAssumption, SessionInv, CallInv, HolderInv
  <1>3. HbmInv'
    BY <1>1 DEF SessionInv, HbmInv, BuffersTyped, ExecutionsSound, OthersReleased, Executing,
                hbmVars
  <1>4. /\ asked' = [t \in Threads |-> asked'[t]] /\ asked'[c] = req
        /\ \A t \in Threads \ {c} : asked'[t] = asked[t]
    BY <1>1 DEF SessionInv, CallInv, HolderInv
  <1>5. /\ returned' = [t \in Threads |-> returned'[t]] /\ returned'[c] = Failed
        /\ \A t \in Threads \ {c} : returned'[t] = returned[t]
    BY <1>1 DEF SessionInv, CallInv, HolderInv
  <1>6. HolderInv'
    BY <1>1, <1>2, <1>4, <1>5 DEF HolderInv, Inferring, Generating, Request
  <1>7. execution'["vision"] = Nothing /\ execution'["language"] = Nothing
    BY <1>1, <1>2 DEF SessionInv, CallInv, GraphCallsInv, hbmVars
  <1>8. GraphCallsInv' /\ AnswersInv' /\ LoopInv'
    BY <1>1, <1>7 DEF GraphCallsInv, AnswersInv, LoopInv, Generating
  <1>9. AnswersOwnRequest'
    <2>1. ASSUME NEW t \in Threads, holder' # t, returned'[t] # Failed
          PROVE  ResultSound(asked'[t], returned'[t])
      <3>1. t # c /\ t # Nobody
        BY <1>1, <2>1, SessionAssumption DEF SessionAssumption
      <3>2. asked'[t] = asked[t] /\ returned'[t] = returned[t]
        BY <1>4, <1>5, <3>1
      <3>3. holder # t /\ returned[t] # Failed
        BY <1>1, <2>1, <3>1, <3>2
      <3> QED BY <3>2, <3>3, OwnRequest DEF SessionInv
    <2> QED BY <2>1, OwnRequestNext
  <1> QED BY <1>3, <1>6, <1>8, <1>9 DEF SessionInv, CallInv

\* The engines as they are.
LEMMA SameEngines ==
  ASSUME HbmInv, UNCHANGED hbmVars
  PROVE  HbmInv' /\ execution' = execution
  BY DEF HbmInv, BuffersTyped, ExecutionsSound, OthersReleased, Executing, hbmVars

\* A call that is not waiting for an engine ends with an exception.
LEMMA RaiseKeeps ==
  ASSUME SessionInv, UNCHANGED hbmVars, Raise, asked' = asked,
         stage \notin {"none", "visual", "prefill", "decoding"}
  PROVE  SessionInv'
  <1>1. HbmInv' /\ execution' = execution
    BY SameEngines DEF SessionInv
  <1>2. execution'["vision"] = Nothing /\ execution'["language"] = Nothing
    BY <1>1 DEF SessionInv, CallInv, GraphCallsInv
  <1> QED BY <1>1, <1>2, LeaveKeeps DEF Raise

LEMMA InitializeKeeps ==
  ASSUME SessionInv, Initialize \/ AlreadyInitialized
  PROVE  SessionInv'
  <1>1. stage = "initialize" /\ asked' = asked /\ UNCHANGED <<hbmVars, callState>>
    BY DEF Initialize, AlreadyInitialized
  <1>2. CASE Leave(Failed)
    BY <1>1, <1>2, RaiseKeeps DEF Raise
  <1>3. CASE Goto("initialize")
    <2>1. stage' = stage /\ holder' = holder /\ returned' = returned
      BY <1>1, <1>3 DEF Goto
    <2>2. HbmInv' /\ execution' = execution
      BY <1>1, SameEngines DEF SessionInv
    <2>3. HolderInv'
      BY <1>1, <2>1 DEF SessionInv, CallInv, HolderInv, Inferring, Generating
    <2>4. GraphCallsInv' /\ AnswersInv' /\ LoopInv'
      BY <1>1, <2>1, <2>2 DEF SessionInv, CallInv, GraphCallsInv, AnswersInv, LoopInv, Generating
    <2>5. AnswersOwnRequest'
      BY <1>1, <2>1, OwnRequest, OwnRequestNext DEF SessionInv
    <2> QED BY <2>2, <2>3, <2>4, <2>5 DEF SessionInv, CallInv
  <1> QED BY <1>2, <1>3 DEF Initialize, AlreadyInitialized, Raise

LEMMA PrepareKeeps ==
  ASSUME SessionInv, Prepare
  PROVE  SessionInv'
  <1>1. stage = "infer" /\ asked' = asked
    BY DEF Prepare
  <1>2. CASE Raise /\ UNCHANGED hbmVars
    BY <1>1, <1>2, RaiseKeeps
  <1>3. CASE /\ Request.queries # <<>> /\ Goto("visual")
             /\ Call("visual", <<"patches", Request.image>>, Junk)
    <2>1. HolderInv' /\ AnswersOwnRequest' /\ Request' = Request
      BY <1>1, <1>3, GotoKeeps DEF Inferring
    <2>2. "visual" \in Graphs /\ SessionOf("visual") = "vision"
      BY DEF Graphs, SessionOf
    <2>3. /\ HbmInv'
          /\ execution'["language"] = execution["language"]
          /\ execution'["vision"] # Nothing
          /\ execution'["vision"].graph = "visual"
          /\ execution'["vision"].host = <<"patches", Request.image>>
          /\ execution'["vision"].resident = Junk
      BY <1>3, <2>2, CallKeeps, SessionsAre DEF SessionInv
    <2>4. stage' = "visual" /\ answers' = <<>>
      BY <1>3 DEF Goto, Prepare
    <2>5. execution["language"] = Nothing
      BY <1>1 DEF SessionInv, CallInv, GraphCallsInv
    <2>6. GraphCallsInv'
      BY <2>1, <2>3, <2>4, <2>5 DEF GraphCallsInv
    <2>7. AnswersInv' /\ LoopInv'
      BY <1>3, <2>1, <2>4 DEF AnswersInv, LoopInv, Generating
    <2> QED BY <2>1, <2>3, <2>6, <2>7 DEF SessionInv, CallInv
  <1> QED BY <1>2, <1>3 DEF Prepare

\* An engine has answered, well or not.
LEMMA TakenAnswer ==
  ASSUME SessionInv, NEW s \in Sessions, execution[s].at \in {"done", "failed"}, Taken(s)
  PROVE  /\ HbmInv' /\ execution'[s] = Nothing
         /\ \A t \in Sessions \ {s} : execution'[t] = execution[t]
         /\ execution[s].at = "done" =>
              execution[s].output =
                Computed(execution[s].graph, execution[s].host, execution[s].resident)
  <1>1. Executing(s)
    BY AtStep DEF SessionInv, Steps
  <1> QED BY <1>1, TakenKeeps DEF SessionInv, Executing

LEMMA VisionKeeps ==
  ASSUME SessionInv, Vision
  PROVE  SessionInv'
  <1>1. stage = "visual" /\ asked' = asked /\ UNCHANGED <<answers, seed, cache, mode, outputs>>
    BY DEF Vision
  <1>2. "vision" \in Sessions /\ "language" \in Sessions
    BY SessionsAre
  <1>3. /\ HbmInv' /\ execution'["vision"] = Nothing
        /\ execution'["language"] = execution["language"]
        /\ execution["vision"].at = "done" => execution["vision"].output =
             Computed(execution["vision"].graph, execution["vision"].host,
                      execution["vision"].resident)
    BY <1>2, TakenAnswer DEF Vision
  <1>4. execution'["language"] = Nothing
    BY <1>1, <1>3 DEF SessionInv, CallInv, GraphCallsInv
  <1>5. CASE Raise
    BY <1>1, <1>3, <1>4, <1>5, LeaveKeeps DEF Raise
  <1>6. CASE /\ execution["vision"].at = "done"
             /\ features' = execution["vision"].output /\ Goto("generate")
    <2>1. HolderInv' /\ AnswersOwnRequest' /\ Request' = Request
      BY <1>1, <1>6, GotoKeeps DEF Inferring, Generating
    <2>2. features' = FeaturesOf(Request.image)
      BY <1>1, <1>3, <1>6 DEF SessionInv, CallInv, GraphCallsInv, FeaturesOf
    <2>3. stage' = "generate" /\ answers' = <<>>
      BY <1>1, <1>6 DEF Goto, SessionInv, CallInv, AnswersInv
    <2>4. 0 < Len(Request.queries)
      <3>1. Request.queries # <<>> /\ Request \in Requests
        BY <1>1 DEF SessionInv, CallInv, AnswersInv, HolderInv, Inferring
      <3>2. PICK S : Request.queries \in Seq(S)
        BY <3>1, SessionAssumption DEF SessionAssumption
      <3> QED BY <3>1, <3>2
    <2>5. AnswersInv'
      BY <2>1, <2>2, <2>3, <2>4 DEF AnswersInv, Generating
    <2>6. GraphCallsInv' /\ LoopInv'
      BY <1>3, <1>4, <2>3 DEF GraphCallsInv, LoopInv
    <2> QED BY <1>3, <2>1, <2>5, <2>6 DEF SessionInv, CallInv
  <1> QED BY <1>5, <1>6 DEF Vision

LEMMA PrefillKeeps ==
  ASSUME SessionInv, Prefill
  PROVE  SessionInv'
  <1>1. /\ stage = "generate" /\ asked' = asked /\ mode' = GenerationMode /\ outputs' = <<>>
        /\ answers' = answers /\ features' = features
    BY DEF Prefill
  <1>2. CASE Raise /\ UNCHANGED hbmVars
    BY <1>1, <1>2, RaiseKeeps
  <1>3. CASE Call("prefill", <<"prompt", Query, features>>, ZeroCache.bpu) /\ Goto("prefill")
    <2>1. HolderInv' /\ AnswersOwnRequest' /\ Request' = Request
      BY <1>1, <1>3, GotoKeeps DEF Inferring, Generating
    <2>2. "prefill" \in Graphs /\ SessionOf("prefill") = "language"
      BY DEF Graphs, SessionOf
    <2>3. ZeroCache.bpu = <<"zero">>
      BY DEF ZeroCache, Cleaned, Written, Fresh
    <2>4. /\ HbmInv'
          /\ execution'["vision"] = execution["vision"]
          /\ execution'["language"] # Nothing
          /\ execution'["language"].graph = "prefill"
          /\ execution'["language"].host = <<"prompt", Query, features>>
          /\ execution'["language"].resident = <<"zero">>
      BY <1>3, <2>2, <2>3, CallKeeps, SessionsAre DEF SessionInv
    <2>5. stage' = "prefill" /\ Query' = Query
      BY <1>1, <1>3, <2>1 DEF Goto, Query
    <2>6. execution["vision"] = Nothing
      BY <1>1 DEF SessionInv, CallInv, GraphCallsInv
    <2>7. GraphCallsInv'
      BY <1>1, <2>1, <2>4, <2>5, <2>6 DEF GraphCallsInv
    <2>8. AnswersInv'
      BY <1>1, <2>1, <2>5 DEF SessionInv, CallInv, AnswersInv, Generating
    <2>9. LoopInv'
      BY <1>1, <2>5 DEF LoopInv
    <2> QED BY <2>1, <2>4, <2>7, <2>8, <2>9 DEF SessionInv, CallInv
  <1> QED BY <1>2, <1>3 DEF Prefill

\* The caches a Generate starts with.
LEMMA SeededRows ==
  ASSUME NEW rows
  PROVE  Seeded(rows) = [cpu |-> <<"rows", <<"zero">>, rows>>, bpu |-> <<"rows", <<"zero">>, rows>>]
  <1> DEFINE content == <<"rows", <<"zero">>, rows>>
  <1>1. ZeroCache = [cpu |-> <<"zero">>, bpu |-> <<"zero">>]
    <2>1. Written(Fresh, <<"zero">>) = [cpu |-> <<"zero">>, bpu |-> Junk]
      BY DEF Written, Fresh
    <2>2. Cleaned([cpu |-> <<"zero">>, bpu |-> Junk]) = [cpu |-> <<"zero">>, bpu |-> <<"zero">>]
      BY DEF Cleaned
    <2> QED BY <2>1, <2>2 DEF ZeroCache
  <1>2. ZeroCache.cpu = <<"zero">> /\ IsMemory(ZeroCache)
    BY <1>1 DEF IsMemory
  <1>3. Written(ZeroCache, content) = [cpu |-> content, bpu |-> ZeroCache.bpu]
    BY <1>2, MemoryUpdates
  <1>4. IsMemory(Written(ZeroCache, content)) /\ Written(ZeroCache, content).cpu = content
    BY <1>3 DEF IsMemory
  <1>5. Cleaned(Written(ZeroCache, content)) = [cpu |-> content, bpu |-> content]
    BY <1>4, MemoryUpdates
  <1>6. Seeded(rows) = Cleaned(Written(ZeroCache, content))
    BY <1>2 DEF Seeded, Appended
  <1> QED BY <1>5, <1>6

\* A loop starts, in either mode.
LEMMA LoopStarts ==
  ASSUME NEW i, NEW q, NEW m \in {"hybrid", "slow"}, NEW memory,
         memory = Seeded(SeedOf(i, q))
  PROVE  /\ memory = [cpu |-> memory.cpu, bpu |-> memory.cpu]
         /\ Reached(i, q, m, <<>>, memory.cpu)
  <1>1. memory = [cpu |-> FirstRows(i, q), bpu |-> FirstRows(i, q)]
    BY SeededRows DEF FirstRows
  <1> QED BY <1>1 DEF Reached

LEMMA PrefilledKeeps ==
  ASSUME SessionInv, Prefilled
  PROVE  SessionInv'
  <1>1. /\ stage = "prefill" /\ asked' = asked
        /\ UNCHANGED <<answers, features, mode, outputs>>
    BY DEF Prefilled
  <1>2. "vision" \in Sessions /\ "language" \in Sessions
    BY SessionsAre
  <1>3. /\ HbmInv' /\ execution'["language"] = Nothing
        /\ execution'["vision"] = execution["vision"]
        /\ execution["language"].at = "done" => execution["language"].output =
             Computed(execution["language"].graph, execution["language"].host,
                      execution["language"].resident)
    BY <1>2, TakenAnswer DEF Prefilled
  <1>4. execution'["vision"] = Nothing
    BY <1>1, <1>3 DEF SessionInv, CallInv, GraphCallsInv
  <1>5. CASE Raise
    BY <1>1, <1>3, <1>4, <1>5, LeaveKeeps DEF Raise
  <1>6. CASE /\ execution["language"].at = "done"
             /\ seed' = execution["language"].output
             /\ cache' = Seeded(seed') /\ Goto("decode")
    <2>1. HolderInv' /\ AnswersOwnRequest' /\ Request' = Request
      BY <1>1, <1>6, GotoKeeps DEF Inferring, Generating
    <2>2. stage' = "decode" /\ Query' = Query
      BY <1>1, <1>6, <2>1 DEF Goto, Query
    <2>3. seed' = SeedOf(Request.image, Query)
      BY <1>1, <1>3, <1>6
      DEF SessionInv, CallInv, GraphCallsInv, AnswersInv, Generating, SeedOf
    <2>4. /\ mode' = GenerationMode /\ outputs' = <<>>
          /\ mode' \in {"hybrid", "slow"} /\ (mode' = "slow" => SlowAllowed(Request))
      BY <1>1, SessionAssumption DEF SessionInv, CallInv, LoopInv, SlowAllowed
    <2>5. LoopInv'
      <3>1. /\ cache' = [cpu |-> cache'.cpu, bpu |-> cache'.cpu]
            /\ Reached(Request.image, Query, mode', <<>>, cache'.cpu)
        BY <1>6, <2>3, <2>4, LoopStarts
      <3> QED BY <2>1, <2>2, <2>3, <2>4, <3>1 DEF LoopInv
    <2>6. AnswersInv'
      BY <1>1, <2>1, <2>2 DEF SessionInv, CallInv, AnswersInv, Generating
    <2>7. GraphCallsInv'
      BY <1>3, <1>4, <2>2 DEF GraphCallsInv
    <2> QED BY <1>3, <2>1, <2>5, <2>6, <2>7 DEF SessionInv, CallInv
  <1> QED BY <1>5, <1>6 DEF Prefilled

\* The last of a sequence that was appended to.
LEMMA AppendedLast ==
  ASSUME NEW i, NEW q, NEW m, NEW outs, NEW rows, Reached(i, q, m, outs, rows), NEW output
  PROVE  Append(outs, output)[Len(Append(outs, output))] = output
  <1> DEFINE S == {Hybrid1(i, q), Hybrid2(i, q), Hybrid3(i, q), Slow1(i, q), Slow2(i, q), output}
  <1>1. outs \in Seq(S)
    <2>1. /\ Hybrid1(i, q) \in S /\ Hybrid2(i, q) \in S /\ Hybrid3(i, q) \in S
          /\ Slow1(i, q) \in S /\ Slow2(i, q) \in S
      OBVIOUS
    <2> HIDE DEF S
    <2>2. /\ <<>> \in Seq(S)
          /\ \A a \in S : <<a>> \in Seq(S)
          /\ \A a, b \in S : <<a, b>> \in Seq(S)
          /\ \A a, b, c \in S : <<a, b, c>> \in Seq(S)
      OBVIOUS
    <2> QED BY <2>1, <2>2, Zenon DEF Reached
  <1>2. Len(outs) \in Nat /\ Len(Append(outs, output)) = Len(outs) + 1
        /\ Append(outs, output)[Len(outs) + 1] = output
    <2>1. output \in S
      OBVIOUS
    <2> HIDE DEF S
    <2> QED BY <1>1, <2>1, AppendProperties
  <1> QED BY <1>2

\* The graph that comes next, and the loop after it.
LEMMA LoopGoesOn ==
  ASSUME SessionInv, stage \in {"decode", "decoding"}, Len(outputs) < Len(Schedule[mode]),
         NEW output, output = Computed(NextGraph, <<"tokens", Last>>, cache.bpu),
         NEW after, after = IF NextGraph = "decode" THEN cache
                            ELSE Appended(cache, Append(outputs, output)[Len(Append(outputs, output))])
  PROVE  /\ NextGraph \in {"decode", "decode_ar"}
         /\ after = [cpu |-> after.cpu, bpu |-> after.cpu]
         /\ Reached(Request.image, Query, mode, Append(outputs, output), after.cpu)
  <1> DEFINE i == Request.image
             rows == cache.cpu
             next == IF NextGraph = "decode" THEN rows ELSE <<"rows", rows, output>>
  <1>1. /\ seed = SeedOf(i, Query) /\ Reached(i, Query, mode, outputs, rows)
        /\ cache = [cpu |-> rows, bpu |-> rows]
    BY DEF SessionInv, CallInv, LoopInv
  <1>2. /\ Last = IF outputs = <<>> THEN SeedOf(i, Query) ELSE outputs[Len(outputs)]
        /\ NextGraph = Schedule[mode][Len(outputs) + 1]
    BY <1>1 DEF Last, NextGraph
  <1>3. output = Computed(NextGraph, <<"tokens", Last>>, rows)
    BY <1>1
  <1>4. NextGraph \in {"decode", "decode_ar"}
        /\ Reached(i, Query, mode, Append(outputs, output), next)
    <2> HIDE DEF i, rows
    <2> QED BY <1>1, <1>2, <1>3, ReachedNext
  <1>5. after = [cpu |-> next, bpu |-> next]
    <2>1. CASE NextGraph = "decode"
      BY <1>1, <2>1
    <2>2. CASE NextGraph # "decode"
      <3>1. after = Cleaned(Written(cache, <<"rows", rows, output>>))
        <4>1. Append(outputs, output)[Len(Append(outputs, output))] = output
          BY <1>1, AppendedLast
        <4> QED BY <2>2, <4>1 DEF Appended
      <3>2. Written(cache, <<"rows", rows, output>>) =
              [cpu |-> <<"rows", rows, output>>, bpu |-> cache.bpu]
        BY <1>1, MemoryUpdates DEF IsMemory
      <3>3. Cleaned([cpu |-> <<"rows", rows, output>>, bpu |-> cache.bpu]) =
              [cpu |-> <<"rows", rows, output>>, bpu |-> <<"rows", rows, output>>]
        BY DEF Cleaned
      <3> QED BY <2>2, <3>1, <3>2, <3>3
    <2> QED BY <2>1, <2>2
  <1> HIDE DEF next
  <1>6. after.cpu = next /\ after.bpu = next
    BY <1>5
  <1> QED BY <1>4, <1>5, <1>6

LEMMA DecodeKeeps ==
  ASSUME SessionInv, Decode
  PROVE  SessionInv'
  <1>1. /\ stage = "decode" /\ asked' = asked /\ Len(outputs) < Len(Schedule[mode])
        /\ UNCHANGED callState
        /\ Call(NextGraph, <<"tokens", Last>>, cache.bpu) /\ Goto("decoding")
    BY DEF Decode
  <1>2. HolderInv' /\ AnswersOwnRequest' /\ Request' = Request
    BY <1>1, GotoKeeps DEF Inferring, Generating
  <1>3. NextGraph \in Graphs /\ SessionOf(NextGraph) = "language"
    <2>1. NextGraph \in {"decode", "decode_ar"}
      BY <1>1, LoopGoesOn
    <2> QED BY <2>1 DEF Graphs, SessionOf
  <1>4. /\ HbmInv'
        /\ execution'["vision"] = execution["vision"]
        /\ execution'["language"] # Nothing
        /\ execution'["language"].graph = NextGraph
        /\ execution'["language"].host = <<"tokens", Last>>
        /\ execution'["language"].resident = cache.bpu
    BY <1>1, <1>3, CallKeeps, SessionsAre DEF SessionInv
  <1>5. /\ stage' = "decoding" /\ Query' = Query /\ NextGraph' = NextGraph /\ Last' = Last
        /\ features' = features /\ seed' = seed /\ cache' = cache /\ mode' = mode
        /\ outputs' = outputs /\ answers' = answers
    BY <1>1, <1>2 DEF Goto, Query, NextGraph, Last, callState
  <1>6. execution["vision"] = Nothing
    BY <1>1 DEF SessionInv, CallInv, GraphCallsInv
  <1>7. GraphCallsInv'
    BY <1>4, <1>5, <1>6 DEF GraphCallsInv
  <1>8. AnswersInv'
    BY <1>1, <1>2, <1>5 DEF SessionInv, CallInv, AnswersInv, Generating
  <1>9. LoopInv'
    BY <1>1, <1>2, <1>5 DEF SessionInv, CallInv, LoopInv
  <1> QED BY <1>2, <1>4, <1>7, <1>8, <1>9 DEF SessionInv, CallInv

\* The slow restart: an empty loop from the prefill rows.
LEMMA FallBackKeeps ==
  ASSUME SessionInv, HbmInv', stage \in {"decode", "decoding"}, FallBack,
         asked' = asked, answers' = answers, features' = features, seed' = seed,
         execution'["vision"] = Nothing, execution'["language"] = Nothing
  PROVE  SessionInv'
  <1>1. /\ Request.protect /\ mode' = "slow" /\ outputs' = <<>>
        /\ cache' = Seeded(seed) /\ Goto("decode")
    BY DEF FallBack
  <1>2. HolderInv' /\ AnswersOwnRequest' /\ Request' = Request
    BY <1>1, GotoKeeps DEF Inferring, Generating
  <1>3. stage' = "decode" /\ Query' = Query
    BY <1>1, <1>2 DEF Goto, Query
  <1>4. seed' = SeedOf(Request.image, Query)
    BY DEF SessionInv, CallInv, LoopInv
  <1>5. /\ cache' = [cpu |-> cache'.cpu, bpu |-> cache'.cpu]
        /\ Reached(Request.image, Query, "slow", <<>>, cache'.cpu)
    BY <1>1, <1>4, LoopStarts
  <1>6. LoopInv'
    BY <1>1, <1>2, <1>3, <1>4, <1>5 DEF LoopInv, SlowAllowed
  <1>7. AnswersInv'
    BY <1>2, <1>3 DEF SessionInv, CallInv, AnswersInv, Generating
  <1>8. GraphCallsInv'
    BY <1>3 DEF GraphCallsInv
  <1> QED BY <1>2, <1>6, <1>7, <1>8 DEF SessionInv, CallInv

LEMMA DecodedKeeps ==
  ASSUME SessionInv, Decoded
  PROVE  SessionInv'
  <1>1. stage = "decoding" /\ asked' = asked /\ UNCHANGED <<answers, features, seed>>
    BY DEF Decoded
  <1>2. "vision" \in Sessions /\ "language" \in Sessions
    BY SessionsAre
  <1>3. /\ HbmInv' /\ execution'["language"] = Nothing
        /\ execution'["vision"] = execution["vision"]
        /\ execution["language"].at = "done" => execution["language"].output =
             Computed(execution["language"].graph, execution["language"].host,
                      execution["language"].resident)
    BY <1>2, TakenAnswer DEF Decoded
  <1>4. execution'["vision"] = Nothing
    BY <1>1, <1>3 DEF SessionInv, CallInv, GraphCallsInv
  <1>5. CASE Raise
    BY <1>1, <1>3, <1>4, <1>5, LeaveKeeps DEF Raise
  <1>6. CASE FallBack
    BY <1>1, <1>3, <1>4, <1>6, FallBackKeeps
  <1>7. CASE /\ execution["language"].at = "done"
             /\ outputs' = Append(outputs, execution["language"].output)
             /\ cache' = IF NextGraph = "decode" THEN cache
                         ELSE Appended(cache, outputs'[Len(outputs')])
             /\ Goto("decode") /\ UNCHANGED mode
    <2> DEFINE output == execution["language"].output
    <2>1. HolderInv' /\ AnswersOwnRequest' /\ Request' = Request
      BY <1>1, <1>7, GotoKeeps DEF Inferring, Generating
    <2>2. stage' = "decode" /\ Query' = Query
      BY <1>1, <1>7, <2>1 DEF Goto, Query
    <2>3. output = Computed(NextGraph, <<"tokens", Last>>, cache.bpu)
      BY <1>1, <1>3, <1>7 DEF SessionInv, CallInv, GraphCallsInv
    <2>4. cache' = IF NextGraph = "decode" THEN cache
                   ELSE Appended(cache, Append(outputs, output)[Len(Append(outputs, output))])
      BY <1>7
    <2>5. /\ cache' = [cpu |-> cache'.cpu, bpu |-> cache'.cpu]
          /\ Reached(Request.image, Query, mode, Append(outputs, output), cache'.cpu)
      <3>1. Len(outputs) < Len(Schedule[mode])
        BY <1>1 DEF SessionInv, CallInv, LoopInv
      <3> HIDE DEF output
      <3> QED BY <1>1, <2>3, <2>4, <3>1, LoopGoesOn
    <2>6. LoopInv'
      <3>1. outputs' = Append(outputs, output) /\ mode' = mode /\ seed' = seed
        BY <1>1, <1>7
      <3>2. seed = SeedOf(Request.image, Query) /\ (mode = "slow" => SlowAllowed(Request))
        BY <1>1 DEF SessionInv, CallInv, LoopInv
      <3> HIDE DEF output
      <3> QED BY <2>1, <2>2, <2>5, <3>1, <3>2 DEF LoopInv
    <2>7. AnswersInv'
      BY <1>1, <2>1, <2>2 DEF SessionInv, CallInv, AnswersInv, Generating
    <2>8. GraphCallsInv'
      BY <1>3, <1>4, <2>2 DEF GraphCallsInv
    <2> QED BY <1>3, <2>1, <2>6, <2>7, <2>8 DEF SessionInv, CallInv
  <1> QED BY <1>5, <1>6, <1>7 DEF Decoded

LEMMA GeneratedKeeps ==
  ASSUME SessionInv, Generated
  PROVE  SessionInv'
  <1>1. /\ stage = "decode" /\ Len(outputs) = Len(Schedule[mode]) /\ asked' = asked
        /\ UNCHANGED <<hbmVars, features, seed>>
    BY DEF Generated
  <1>2. HbmInv' /\ execution' = execution
    BY <1>1, SameEngines DEF SessionInv
  <1>3. execution'["vision"] = Nothing /\ execution'["language"] = Nothing
    BY <1>1, <1>2 DEF SessionInv, CallInv, GraphCallsInv
  <1>4. CASE FallBack /\ UNCHANGED answers
    BY <1>1, <1>2, <1>3, <1>4, FallBackKeeps
  <1>5. CASE /\ answers' = Append(answers, [mode |-> mode, outputs |-> outputs])
             /\ IF Len(answers') = Len(Request.queries) THEN Leave(answers') \/ Raise
                                                         ELSE Goto("generate")
    <2> DEFINE answer == [mode |-> mode, outputs |-> outputs]
               n == Len(answers)
    <2>1. outputs = OutputsOf(Request.image, Query, Schedule[mode])
          /\ (mode = "slow" => SlowAllowed(Request)) /\ mode \in {"hybrid", "slow"}
      <3>1. Reached(Request.image, Query, mode, outputs, cache.cpu)
            /\ (mode = "slow" => SlowAllowed(Request))
        BY <1>1 DEF SessionInv, CallInv, LoopInv
      <3>2. mode \in {"hybrid", "slow"}
        BY <3>1 DEF Reached
      <3> QED BY <1>1, <3>1, <3>2, ReachedAll
    <2>2. /\ answers \in Seq(AnswersTo(Request)) /\ n \in Nat /\ n < Len(Request.queries)
          /\ \A q \in 1 .. n : AnswerSound(Request, q, answers[q])
          /\ Len(Request.queries) \in Nat /\ DOMAIN Request.queries = 1 .. Len(Request.queries)
      <3>1. Request \in Requests
        BY <1>1 DEF SessionInv, CallInv, HolderInv, Inferring, Generating
      <3>2. PICK S : Request.queries \in Seq(S)
        BY <3>1, SessionAssumption DEF SessionAssumption
      <3>3. /\ answers \in Seq(AnswersTo(Request)) /\ n < Len(Request.queries)
            /\ \A q \in 1 .. n : AnswerSound(Request, q, answers[q])
        BY <1>1 DEF SessionInv, CallInv, AnswersInv, Generating
      <3> QED BY <3>2, <3>3
    <2>3. answer \in AnswersTo(Request)
      <3>1. n + 1 \in DOMAIN Request.queries /\ Query = Request.queries[n + 1]
        BY <2>2 DEF Query
      <3> QED BY <2>1, <3>1 DEF AnswersTo
    <2>4. AnswerSound(Request, n + 1, answer)
      BY <2>1 DEF AnswerSound, Query
    <2>5. /\ answers' \in Seq(AnswersTo(Request)) /\ Len(answers') = n + 1
          /\ \A q \in 1 .. n : answers'[q] = answers[q]
          /\ answers'[n + 1] = answer
      <3> HIDE DEF answer
      <3> QED BY <1>5, <2>2, <2>3, AppendProperties DEF answer
    <2>6. \A q \in 1 .. Len(answers') : AnswerSound(Request, q, answers'[q])
      <3> SUFFICES ASSUME NEW q \in 1 .. Len(answers') PROVE AnswerSound(Request, q, answers'[q])
        OBVIOUS
      <3>1. q \in 1 .. n \/ q = n + 1
        BY <2>2, <2>5
      <3> HIDE DEF answer, n
      <3> QED BY <2>2, <2>4, <2>5, <3>1
    <2>7. CASE Len(answers') = Len(Request.queries) /\ Leave(answers')
      <3>1. DOMAIN answers' = 1 .. Len(answers')
        BY <2>5
      <3>2. ResultSound(Request, answers')
        BY <2>6, <2>7, <3>1 DEF ResultSound
      <3> QED BY <1>1, <1>2, <1>3, <2>7, <3>2, LeaveKeeps
    <2>8. CASE Len(answers') # Len(Request.queries) /\ Goto("generate")
      <3>1. HolderInv' /\ AnswersOwnRequest' /\ Request' = Request
        BY <1>1, <2>8, GotoKeeps DEF Inferring, Generating
      <3>2. stage' = "generate"
        BY <2>8 DEF Goto
      <3>3. Len(answers') < Len(Request.queries)
        BY <2>2, <2>5, <2>8
      <3>4. features' = FeaturesOf(Request.image)
        BY <1>1 DEF SessionInv, CallInv, AnswersInv, Generating
      <3>5. AnswersInv'
        BY <2>5, <2>6, <3>1, <3>2, <3>3, <3>4 DEF AnswersInv
      <3>6. GraphCallsInv' /\ LoopInv'
        BY <1>3, <3>2 DEF GraphCallsInv, LoopInv
      <3> QED BY <1>2, <3>1, <3>5, <3>6 DEF SessionInv, CallInv
    <2>9. CASE Raise
      BY <1>1, <1>2, <1>3, <2>9, RaiseKeeps
    <2> QED BY <1>5, <2>7, <2>8, <2>9
  <1> QED BY <1>4, <1>5 DEF Generated

LEMMA EnginesKeep ==
  ASSUME SessionInv, Executes,
         UNCHANGED <<holder, stage, ready, asked, returned, callState, begun>>
  PROVE  SessionInv'
  <1>1. /\ UNCHANGED <<holder, stage, asked, returned, features, seed, cache, mode, outputs, answers>>
        /\ Request' = Request /\ Query' = Query /\ NextGraph' = NextGraph /\ Last' = Last
    BY DEF callState, Request, Query, NextGraph, Last
  <1>2. HbmInv' /\ SameExecutions
    BY ExecutesKeeps DEF SessionInv
  <1>3. HolderInv' /\ AnswersInv' /\ LoopInv'
    BY <1>1 DEF SessionInv, CallInv, HolderInv, AnswersInv, LoopInv
  <1>4. GraphCallsInv'
    BY <1>1, <1>2, SessionsAre DEF SessionInv, CallInv, GraphCallsInv, SameExecutions
  <1>5. AnswersOwnRequest'
    BY <1>1, OwnRequest, OwnRequestNext DEF SessionInv
  <1> QED BY <1>2, <1>3, <1>4, <1>5 DEF SessionInv, CallInv

LEMMA SessionRests ==
  ASSUME SessionInv, UNCHANGED sessionVars
  PROVE  SessionInv'
  <1>1. /\ UNCHANGED hbmVars
        /\ UNCHANGED <<holder, stage, asked, returned, features, seed, cache, mode, outputs, answers>>
        /\ Request' = Request /\ Query' = Query /\ NextGraph' = NextGraph /\ Last' = Last
    BY DEF sessionVars, callState, Request, Query, NextGraph, Last
  <1>2. HbmInv' /\ execution' = execution
    BY <1>1, SameEngines DEF SessionInv
  <1>3. HolderInv' /\ AnswersInv' /\ LoopInv' /\ GraphCallsInv'
    BY <1>1, <1>2 DEF SessionInv, CallInv, HolderInv, AnswersInv, LoopInv, GraphCallsInv
  <1>4. AnswersOwnRequest'
    BY <1>1, OwnRequest, OwnRequestNext DEF SessionInv
  <1> QED BY <1>2, <1>3, <1>4 DEF SessionInv, CallInv

LEMMA SessionNextInv == SessionInv /\ [SessionNext]_sessionVars => SessionInv'
  <1> SUFFICES ASSUME SessionInv, [SessionNext]_sessionVars PROVE SessionInv'
    OBVIOUS
  <1>1. CASE \E c \in Threads : Begin(c, "initialize", Failed)
                                \/ \E r \in Requests : Begin(c, "infer", r)
    BY <1>1, BeginKeeps
  <1>2. CASE Initialize \/ AlreadyInitialized
    BY <1>2, InitializeKeeps
  <1>3. CASE Prepare
    BY <1>3, PrepareKeeps
  <1>4. CASE Vision
    BY <1>4, VisionKeeps
  <1>5. CASE Prefill
    BY <1>5, PrefillKeeps
  <1>6. CASE Prefilled
    BY <1>6, PrefilledKeeps
  <1>7. CASE Decode
    BY <1>7, DecodeKeeps
  <1>8. CASE Decoded
    BY <1>8, DecodedKeeps
  <1>9. CASE Generated
    BY <1>9, GeneratedKeeps
  <1>10. CASE Executes /\ UNCHANGED <<holder, stage, ready, asked, returned, callState, begun>>
    BY <1>10, EnginesKeep
  <1>11. CASE AllCalled \/ UNCHANGED sessionVars
    BY <1>11, SessionRests DEF AllCalled
  <1> QED BY <1>1, <1>2, <1>3, <1>4, <1>5, <1>6, <1>7, <1>8, <1>9, <1>10, <1>11 DEF SessionNext

-----------------------------------------------------------------------------
\* Whatever failed before in buffers and caches it shares with other calls, a
\* call that returns has answers of its own image, one for each of its queries
\* in order, slow ones only for a protected request; and only the graph
\* executed last holds memory in its session (InferQueries, Generate,
\* ExecuteGraphByName).
THEOREM SessionsAnswerTheirCallers == SessionSpec => []SessionSound
  <1>1. SessionInv => SessionSound
    <2> SUFFICES ASSUME SessionInv PROVE OnlyActiveHoldsBuffers
      BY DEF SessionInv, SessionSound
    <2> SUFFICES ASSUME NEW g \in Graphs
                 PROVE  /\ buffers[g] # Nothing => active[SessionOf(g)] = g
                        /\ execution[SessionOf(g)].at \in {"pack", "run", "unpack"}
                             /\ execution[SessionOf(g)].graph = g => buffers[g] # Nothing
      BY DEF OnlyActiveHoldsBuffers
    <2>1. buffers[g] # Nothing => active[SessionOf(g)] = g
      BY DEF SessionInv, HbmInv, OthersReleased
    <2>2. ASSUME execution[SessionOf(g)].at \in {"pack", "run", "unpack"},
                 execution[SessionOf(g)].graph = g
          PROVE  buffers[g] # Nothing
      <3>1. Executing(SessionOf(g))
        BY <2>2, GraphsHaveSessions, AtStep DEF SessionInv, Steps
      <3>2. IsHeld(buffers[g])
        BY <2>2, <3>1 DEF Executing
      <3> QED BY <3>2, HeldSomething
    <2> QED BY <2>1, <2>2
  <1> QED BY <1>1, SessionInitInv, SessionNextInv, PTL DEF SessionSpec

-----------------------------------------------------------------------------
(***************************************************************************)
(* The console in front of the session.  Whatever media, frames, commands  *)
(* and lines there are, and whatever fails: the files it names are of the  *)
(* run it reports, but for those of which a write failed unnoticed.        *)
(*                                                                         *)
(* The property speaks of the prompt alone.  The invariant says what a     *)
(* request under way has already made its own: from the moment a file is   *)
(* opened until the report, only this run has written to it.               *)
(***************************************************************************)
Media == Images \cup Videos
Asked == [media : Media, command : Commands]

MainStates == {"initializing", "notifying", "ended", "joining", "exited", "prompt", "closed",
               "reading", "image", "json", "video", "frames", "summary"}

Requesting == {"image", "json", "video", "frames", "summary"}

ConsoleTypeOK ==
  /\ main \in MainStates
  /\ media \in {None} \cup Media
  /\ last \in {None} \cup Asked
  /\ request \in {None} \cup Asked
  /\ disk = [f \in Files |-> disk[f]]
  /\ main \in Requesting => request \in Asked

\* The files a report may name at this point are this run's.
OwnFiles ==
  /\ main \in {"initializing", "notifying", "ended", "joining", "image", "json", "video"}
       => report = {}
  /\ main = "video" => done = 0
  /\ main = "json" => done = 1 /\ disk[File("annotated.jpg")] = Content(1)
  /\ main \in {"frames", "summary"} =>
       /\ report \in {{File("annotated.mp4")}, {File("annotated.avi")}}
       /\ \A f \in {Video, Log} \ silent : disk[f] = Content(done)

ConsoleInv == ConsoleTypeOK /\ OwnFiles /\ OutputsOfOneRun

-----------------------------------------------------------------------------
Names == {"annotated.jpg", "prediction.json", "annotated.mp4", "annotated.avi",
          "predictions.jsonl", "summary.json"}

\* The files of a request are among those the model keeps.
LEMMA FilesOfRequest ==
  ASSUME request \in Asked, NEW name \in Names
  PROVE  File(name) \in Files
  BY DEF File, Files, Asked, Media, Names

LEMMA ConsoleInitInv == ConsoleInit => ConsoleInv
  <1> SUFFICES ASSUME ConsoleInit PROVE ConsoleInv
    OBVIOUS
  <1>1. disk = [f \in Files |-> disk[f]]
    BY DEF ConsoleInit
  <1>2. ConsoleTypeOK
    BY <1>1 DEF ConsoleInit, ConsoleTypeOK, MainStates, Requesting
  <1>3. OwnFiles /\ OutputsOfOneRun
    BY DEF ConsoleInit, OwnFiles, OutputsOfOneRun, Reported
  <1> QED BY <1>2, <1>3 DEF ConsoleInv

-----------------------------------------------------------------------------
\* The loading phase, the renderer and a signal leave requests alone.
LEMMA QuietSteps ==
  ASSUME ConsoleInv, MainLoads \/ Renders \/ Signal \/ UNCHANGED consoleVars
  PROVE  ConsoleInv'
  <1>1. UNCHANGED runVars
    BY DEF MainLoads, Renders, Signal, consoleVars
  <1>2. \/ main' = main
        \/ /\ main \in {"initializing", "notifying", "ended", "joining"}
           /\ main' \in {"initializing", "notifying", "ended", "joining", "exited", "prompt"}
    BY DEF MainLoads, EnterStage, NotifyStage, Throw, Loaded, NotifyEnd, Join, Renders,
           TestLoading, Draw, Await, Timeout, Signal, consoleVars
  <1>3. ConsoleTypeOK'
    BY <1>1, <1>2 DEF ConsoleInv, ConsoleTypeOK, MainStates, Requesting, runVars
  <1>4. report = {} \/ main' = main
    BY <1>2 DEF ConsoleInv, OwnFiles
  <1>5. OwnFiles'
    BY <1>1, <1>2, <1>4 DEF ConsoleInv, OwnFiles, runVars, File, Content, Video, Log
  <1>6. OutputsOfOneRun'
    BY <1>1, <1>2, <1>4 DEF ConsoleInv, OutputsOfOneRun, Reported, runVars, Content
  <1> QED BY <1>3, <1>5, <1>6 DEF ConsoleInv

\* What the user enters: nothing is reported of the line before.
LEMMA LineSteps ==
  ASSUME ConsoleInv, Prompt \/ ReadLine
  PROVE  ConsoleInv'
  <1>1. CASE Prompt
    <2>1. main' \in {"closed", "reading"} /\ UNCHANGED runVars
      BY <1>1 DEF Prompt
    <2>2. ConsoleTypeOK'
      BY <2>1 DEF ConsoleInv, ConsoleTypeOK, MainStates, Requesting, runVars
    <2> QED BY <2>1, <2>2 DEF ConsoleInv, OwnFiles, OutputsOfOneRun, Reported
  <1>2. CASE ReadLine
    <2>1. disk' = disk /\ media' \in {None} \cup Media /\ last' \in {None} \cup Asked
      BY <1>2 DEF ReadLine, Back, Execute, ConsoleInv, ConsoleTypeOK, Asked, Media
    <2>2. \/ main' = "closed" /\ UNCHANGED request
          \/ main' = "prompt" /\ report' = {} /\ UNCHANGED request
          \/ /\ main' \in {"image", "video"} /\ report' = {} /\ done' = 0
             /\ request' \in Asked
      BY <1>2 DEF ReadLine, Back, Execute, ConsoleInv, ConsoleTypeOK, Asked, Media
    <2>3. ConsoleTypeOK'
      BY <2>1, <2>2 DEF ConsoleInv, ConsoleTypeOK, MainStates, Requesting
    <2> QED BY <2>2, <2>3 DEF ConsoleInv, OwnFiles, OutputsOfOneRun, Reported
  <1> QED BY <1>1, <1>2

-----------------------------------------------------------------------------
\* A step of a request that ends it reports nothing.
LEMMA FailureIsQuiet ==
  ASSUME ConsoleInv, main \in Requesting, Fails, disk' = [f \in Files |-> disk'[f]]
  PROVE  ConsoleInv'
  <1>1. ConsoleTypeOK'
    BY DEF Fails, ConsoleInv, ConsoleTypeOK, MainStates, Requesting
  <1> QED BY <1>1 DEF Fails, ConsoleInv, OwnFiles, OutputsOfOneRun, Reported

\* Statements that write without asking touch one file and say when they fail.
LEMMA UncheckedWrite ==
  ASSUME ConsoleTypeOK, NEW file \in Files, NEW content, Unchecked(file, content)
  PROVE  /\ disk' = [f \in Files |-> disk'[f]]
         /\ \A f \in Files \ {file} : disk'[f] = disk[f]
         /\ silent \subseteq silent'
         /\ file \notin silent' => disk'[file] = content
  BY DEF ConsoleTypeOK, Unchecked

LEMMA ImageSteps ==
  ASSUME ConsoleInv, RunImage \/ SaveJson
  PROVE  ConsoleInv'
  <1> USE DEF ConsoleInv
  <1>1. request \in Asked /\ main \in Requesting
    BY DEF ConsoleTypeOK, RunImage, SaveJson, Requesting
  <1>2. File("annotated.jpg") \in Files /\ File("prediction.json") \in Files
    BY <1>1, FilesOfRequest DEF Names
  <1>3. File("annotated.jpg") # File("prediction.json")
    BY DEF File
  <1>4. CASE RunImage /\ Fails
    <2>1. disk' = [f \in Files |-> disk'[f]]
      BY <1>4 DEF RunImage, Fails, ConsoleTypeOK
    <2> QED BY <1>1, <1>4, <2>1, FailureIsQuiet
  <1>5. CASE RunImage /\ ~Fails
    <2>1. /\ main' = "json" /\ done' = 1
          /\ disk' = [disk EXCEPT ![File("annotated.jpg")] = Content(1)]
          /\ UNCHANGED <<media, last, lines, request, silent, report>>
      BY <1>5 DEF RunImage
    <2>2. ConsoleTypeOK'
      BY <1>1, <2>1 DEF ConsoleTypeOK, MainStates, Requesting
    <2>3. Content(1)' = Content(1) /\ File("annotated.jpg")' = File("annotated.jpg")
      BY <2>1 DEF Content, File
    <2>4. disk'[File("annotated.jpg")] = Content(1)
      BY <1>2, <2>1 DEF ConsoleTypeOK
    <2>5. report' = {}
      BY <1>5, <2>1 DEF OwnFiles, RunImage
    <2>6. OwnFiles'
      BY <2>1, <2>3, <2>4, <2>5 DEF OwnFiles
    <2> QED BY <2>1, <2>2, <2>6 DEF OutputsOfOneRun, Reported
  <1>6. CASE SaveJson
    <2>1. /\ main' = "prompt" /\ Unchecked(File("prediction.json"), Content(1))
          /\ report' = {File("annotated.jpg"), File("prediction.json")}
          /\ UNCHANGED <<media, last, lines, request, done>>
      BY <1>6 DEF SaveJson
    <2>2. done = 1 /\ disk[File("annotated.jpg")] = Content(1)
      BY <1>6 DEF OwnFiles, SaveJson
    <2>3. /\ disk' = [f \in Files |-> disk'[f]]
          /\ disk'[File("annotated.jpg")] = Content(1)
          /\ File("prediction.json") \notin silent' => disk'[File("prediction.json")] = Content(1)
      BY <1>2, <1>3, <2>1, <2>2, UncheckedWrite
    <2>4. Content(done)' = Content(1)
      BY <2>1, <2>2 DEF Content
    <2>5. ConsoleTypeOK'
      BY <1>1, <2>1, <2>3 DEF ConsoleTypeOK, MainStates, Requesting
    <2>6. OutputsOfOneRun'
      BY <2>1, <2>3, <2>4 DEF OutputsOfOneRun
    <2> QED BY <2>1, <2>5, <2>6 DEF OwnFiles
  <1> QED BY <1>4, <1>5, <1>6

LEMMA OpenVideoStep ==
  ASSUME ConsoleInv, OpenVideo
  PROVE  ConsoleInv'
  <1> USE DEF ConsoleInv
  <1>1. request \in Asked /\ main \in Requesting /\ done = 0
    BY DEF ConsoleTypeOK, OwnFiles, OpenVideo, Requesting
  <1>2. /\ File("annotated.mp4") \in Files /\ File("annotated.avi") \in Files
        /\ Log \in Files
    BY <1>1, FilesOfRequest DEF Names, Log
  <1>3. CASE Fails
    <2>1. main' = "prompt"
      BY <1>3 DEF Fails
    <2>2. \/ disk' = disk
          \/ \E container \in {"annotated.mp4", "annotated.avi"} :
               disk' = [disk EXCEPT ![File(container)] = Content(0)]
      BY <2>1 DEF OpenVideo
    <2>3. disk' = [f \in Files |-> disk'[f]]
      BY <2>2 DEF ConsoleTypeOK
    <2> QED BY <1>1, <1>3, <2>3, FailureIsQuiet
  <1>4. CASE ~Fails
    <2>1. PICK container \in {"annotated.mp4", "annotated.avi"} :
            /\ disk' = [Opened(Log) EXCEPT ![File(container)] = Content(0)]
            /\ report' = {File(container)} /\ main' = "frames"
            /\ UNCHANGED <<media, last, lines, request, done, silent>>
      BY <1>4 DEF OpenVideo
    <2>2. Video' = File(container) /\ Log' = Log /\ Content(done)' = Content(0)
      BY <1>1, <2>1 DEF Video, Log, File, Content
    <2>3. /\ disk' = [f \in Files |-> disk'[f]]
          /\ disk'[File(container)] = Content(0)
          /\ disk'[Log] = Content(0)
      BY <1>2, <2>1 DEF Opened, ConsoleTypeOK
    <2>4. ConsoleTypeOK'
      BY <1>1, <2>1, <2>3 DEF ConsoleTypeOK, MainStates, Requesting
    <2>5. report' \in {{File("annotated.mp4")}, {File("annotated.avi")}}'
      BY <2>1 DEF File
    <2>6. OwnFiles'
      BY <2>1, <2>2, <2>3, <2>5 DEF OwnFiles
    <2> QED BY <2>1, <2>4, <2>6 DEF OutputsOfOneRun, Reported
  <1> QED BY <1>3, <1>4

LEMMA FrameSteps ==
  ASSUME ConsoleInv, NextFrame \/ EndOfVideo
  PROVE  ConsoleInv'
  <1> USE DEF ConsoleInv
  <1>1. request \in Asked /\ main \in Requesting
    BY DEF ConsoleTypeOK, NextFrame, EndOfVideo, Requesting
  <1>2. CASE EndOfVideo
    <2>1. main = "frames" /\ main' = "summary" /\ UNCHANGED runVars
      BY <1>2 DEF EndOfVideo
    <2>2. ConsoleTypeOK'
      BY <2>1 DEF ConsoleTypeOK, MainStates, Requesting, runVars
    <2>3. OwnFiles'
      BY <2>1 DEF OwnFiles, runVars, File, Video, Log, Content
    <2> QED BY <2>1, <2>2, <2>3 DEF OutputsOfOneRun, Reported
  <1>3. CASE NextFrame /\ Fails
    <2>1. disk' = [f \in Files |-> disk'[f]]
      BY <1>3 DEF NextFrame, Fails, ConsoleTypeOK
    <2> QED BY <1>1, <1>3, <2>1, FailureIsQuiet
  <1>4. CASE NextFrame /\ ~Fails
    <2>1. /\ main = "frames" /\ done' = done + 1 /\ silent \subseteq silent'
          /\ disk' = [f \in Files |-> IF f \in {Video, Log} \ silent'
                                      THEN OneMore(disk[f]) ELSE disk[f]]
          /\ UNCHANGED <<main, media, last, lines, request, report>>
      BY <1>4 DEF NextFrame
    <2>2. Video' = Video /\ Log' = Log
      BY <2>1 DEF Video, Log, File
    <2>3. Video \in Files /\ Log \in Files
      BY <1>1, FilesOfRequest DEF Names, Video, Log
    <2>4. \A f \in {Video, Log} \ silent : disk[f] = Content(done)
      BY <2>1 DEF OwnFiles
    <2>5. OneMore(Content(done)) = Content(done)'
      BY <2>1 DEF Content, OneMore
    <2>6. \A f \in {Video, Log} \ silent' : disk'[f] = Content(done)'
      BY <2>1, <2>3, <2>4, <2>5
    <2>7. ConsoleTypeOK'
      BY <1>1, <2>1 DEF ConsoleTypeOK, MainStates, Requesting
    <2>8. OwnFiles'
      BY <2>1, <2>2, <2>6 DEF OwnFiles, File
    <2> QED BY <2>1, <2>7, <2>8 DEF OutputsOfOneRun, Reported
  <1> QED BY <1>2, <1>3, <1>4

LEMMA SummarizeStep ==
  ASSUME ConsoleInv, Summarize
  PROVE  ConsoleInv'
  <1> USE DEF ConsoleInv
  <1>1. /\ main = "summary" /\ main' = "prompt"
        /\ Unchecked(File("summary.json"), Content(done))
        /\ report' = {Video, Log, File("summary.json")}
        /\ UNCHANGED <<media, last, lines, request, done>>
    BY DEF Summarize
  <1>2. request \in Asked
    BY <1>1 DEF ConsoleTypeOK, Requesting
  <1>3. File("summary.json") \in Files /\ Video \in Files /\ Log \in Files
    BY <1>2, FilesOfRequest DEF Names, Video, Log
  <1>4. File("summary.json") # Video /\ File("summary.json") # Log
    BY DEF File, Video, Log
  <1>5. \A f \in {Video, Log} \ silent : disk[f] = Content(done)
    BY <1>1 DEF OwnFiles
  <1>6. /\ disk' = [f \in Files |-> disk'[f]]
        /\ \A f \in Files \ {File("summary.json")} : disk'[f] = disk[f]
        /\ silent \subseteq silent'
        /\ File("summary.json") \notin silent' => disk'[File("summary.json")] = Content(done)
    BY <1>1, <1>3, UncheckedWrite
  <1>7. \A f \in report' \ silent' : disk'[f] = Content(done)
    BY <1>1, <1>3, <1>4, <1>5, <1>6
  <1>8. Content(done)' = Content(done)
    BY <1>1 DEF Content
  <1>9. ConsoleTypeOK'
    BY <1>1, <1>2, <1>6 DEF ConsoleTypeOK, MainStates, Requesting
  <1>10. OutputsOfOneRun'
    BY <1>7, <1>8 DEF OutputsOfOneRun
  <1> QED BY <1>1, <1>9, <1>10 DEF OwnFiles

-----------------------------------------------------------------------------
LEMMA ConsoleNextInv == ConsoleInv /\ [ConsoleNext]_consoleVars => ConsoleInv'
  <1> SUFFICES ASSUME ConsoleInv, [ConsoleNext]_consoleVars PROVE ConsoleInv'
    OBVIOUS
  <1>1. CASE MainLoads \/ Renders \/ Signal \/ UNCHANGED consoleVars
    BY <1>1, QuietSteps
  <1>2. CASE Prompt \/ ReadLine
    BY <1>2, LineSteps
  <1>3. CASE RunImage \/ SaveJson
    BY <1>3, ImageSteps
  <1>4. CASE OpenVideo
    BY <1>4, OpenVideoStep
  <1>5. CASE NextFrame \/ EndOfVideo
    BY <1>5, FrameSteps
  <1>6. CASE Summarize
    BY <1>6, SummarizeStep
  <1>7. CASE Closed
    BY <1>7, QuietSteps DEF Closed
  <1> QED BY <1>1, <1>2, <1>3, <1>4, <1>5, <1>6, <1>7 DEF ConsoleNext, Runs

(* When the console names the files of a request (cli.cpp, RunImage and      *)
(* RunVideo), those whose writes went through hold this run's results, of    *)
(* all frames inferred: for every set of media that share directories, every *)
(* number of frames and every sequence of lines, failures and signals.       *)
THEOREM NamedFilesAreOfOneRun == ConsoleInit /\ [][ConsoleNext]_consoleVars => []OutputsOfOneRun
  <1>1. ConsoleInv => OutputsOfOneRun
    BY DEF ConsoleInv
  <1> QED BY <1>1, ConsoleInitInv, ConsoleNextInv, PTL
=============================================================================
