------------------------------ MODULE MCWindows ------------------------------
(* Everything about a window of query rows, in one run: what its rows see     *)
(* (AttentionWindow for the runtime, ReplayAttention for calibration), the    *)
(* ring they are read from (KVRing as the engine keeps it in "log", and       *)
(* KVRingAppends for any caller in "ring"), and how a window is decided       *)
(* (HybridDecoder for the runtime, CoordinateDecoding, Nucleus and            *)
(* CoordinateProbes for the audit).  The components share no state: part says *)
(* which of them a behaviour explores, the others rest.                       *)
EXTENDS AttentionWindow, KVRing, CoordinateDecoding

VARIABLES
  part,
  context, replayCall, tokens, replayPositions, replayMask, caches,
  slots, origin, committed, seed, writing, stage,
  step, rows, width, keep,
  response, promptLen, probes, inputs, decisions

replayState == <<context, replayCall, tokens, replayPositions, replayMask, caches>>
callerRing == <<slots, origin, committed, seed, writing, stage>>
rings == <<ringVars, callerRing>>
fallbackState == <<pc, audit, resolved, fed, cached, termination>>
nucleusState == <<rows, width, keep>>
probesState == <<response, promptLen, probes, inputs, decisions>>

------------------------------------------------------------------------------
Replay == INSTANCE ReplayAttention
            WITH ChunkSize <- 8, CacheLen <- 21, call <- replayCall,
                 positions <- replayPositions, mask <- replayMask

ASSUME Replay!ReplayAssumption

(* Distinct letters tell rows apart.  An append that fits behind the history  *)
(* never crosses the end of the ring; those of any caller do, and fill a ring *)
(* of four rows.                                                              *)
MCValues == {"a", "b", "c", "d", "p"}
MCPrompts == {<<"p">>, <<"p", "p", "c">>}
MCUpdates == {<<"a">>, <<"b", "a">>, <<"a", "b", "c">>, <<"a", "b", "c", "d">>}

Ring == INSTANCE KVRingAppends
          WITH Rows <- 4, storage <- slots, start <- origin, history <- committed,
               prompt <- seed, append <- writing, phase <- stage

DecoderInputs == INSTANCE MCDecoderWindows
MCDecodedWindows == DecoderInputs!DecoderWindows \cup DecoderInputs!FallbackWindows
MCChoices == DecoderInputs!FallbackChoices

(* Every way to share out ten units among seven tokens.                       *)
Falling[n \in 0 .. 7] ==
  IF n = 0 THEN {[mass |-> 0, row |-> <<>>]}
  ELSE UNION {{[mass |-> head.mass + next, row |-> Append(head.row, next)] :
                 next \in 0 .. (IF n = 1 THEN 10
                                ELSE IF head.row[n - 1] < 10 - head.mass THEN head.row[n - 1]
                                ELSE 10 - head.mass)} :
              head \in Falling[n - 1]}

NucleusRows == {shared.row : shared \in {all \in Falling[7] : all.mass = 10}}

Nucleus == INSTANCE Nucleus
             WITH pc <- step, Rows <- NucleusRows, Batch <- 2, TopP <- 9, InitialWidth <- 2, MaxWidth <- 4

ProbeInputs == INSTANCE MCProbeResponses
Probes == INSTANCE CoordinateProbes
            WITH pc <- step, Responses <- ProbeInputs!Responses, Outcomes <- ProbeInputs!Outcomes,
                 Prompts <- {2, 4}, LastOfPrompt <- 198, QueryLen <- 6, CacheLen <- 18,
                 BatchSize <- 2, PositionBase <- 1000

------------------------------------------------------------------------------
(* At rest a component has no values, except where a property of it is stated *)
(* under its own name.                                                        *)
RestingCall == CHOOSE c \in Calls : c.kind = "ar"

AttentionStarts == (part # "attention" => call = RestingCall) /\ Init

ReplayStarts ==
  IF part = "replay" THEN Replay!Init
  ELSE /\ context = 0 /\ replayCall = 0 /\ tokens = 0 /\ replayPositions = 0
       /\ replayMask = 0 /\ caches = 0

LogStarts == (part # "log" => prompt = <<"p">>) /\ RingInit

CallerRingStarts ==
  IF part = "ring" THEN Ring!RingInit
  ELSE /\ slots = 0 /\ origin = 0 /\ committed = 0 /\ seed = 0
       /\ writing = NoAppend /\ stage = "idle"

DecodingStarts ==
  IF part \in {"decoder", "fallback"}
  THEN /\ AuditInit
       /\ part = "fallback" =>
            \A row \in 0 .. 5 : window[row] \in DecoderInputs!FallbackRows[row + 1]
  ELSE /\ window = [row \in 0 .. 5 |-> <<>>] /\ decision = <<>> /\ pc = "decode"
       /\ audit = NoDecision /\ resolved = <<>> /\ fed = <<>> /\ cached = Past
       /\ termination = ""

NucleusStarts ==
  IF part = "nucleus" THEN Nucleus!Init ELSE rows = 0 /\ width = 0 /\ keep = 0

ProbesStart ==
  IF part = "probes" THEN Probes!Init
  ELSE response = 0 /\ promptLen = 0 /\ probes = 0 /\ inputs = 0 /\ decisions = 0

PartsStart ==
  /\ part \in {"attention", "replay", "log", "ring", "decoder", "fallback", "nucleus", "probes"}
  /\ AttentionStarts /\ ReplayStarts /\ LogStarts /\ CallerRingStarts
  /\ DecodingStarts /\ NucleusStarts /\ ProbesStart
  /\ IF part \in {"nucleus", "probes"} THEN TRUE ELSE step = "none"

AttentionStep ==
  /\ part = "attention" /\ Next
  /\ UNCHANGED <<part, replayState, rings, decoderVars, fallbackState, step, nucleusState,
                 probesState>>

ReplayStep ==
  /\ part = "replay" /\ Replay!Next
  /\ UNCHANGED <<part, vars, rings, decoderVars, fallbackState, step, nucleusState,
                 probesState>>

LogStep ==
  /\ part = "log" /\ RingNext
  /\ UNCHANGED <<part, vars, replayState, callerRing, decoderVars, fallbackState, step,
                 nucleusState, probesState>>

CallerRingStep ==
  /\ part = "ring" /\ Ring!ContractNext
  /\ UNCHANGED <<part, vars, replayState, ringVars, decoderVars, fallbackState, step, nucleusState,
                 probesState>>

DecoderStep ==
  /\ part = "decoder" /\ Decide
  /\ UNCHANGED <<part, vars, replayState, rings, fallbackState, step, nucleusState,
                 probesState>>

FallbackStep ==
  /\ part = "fallback" /\ AuditNext
  /\ UNCHANGED <<part, vars, replayState, rings, step, nucleusState, probesState>>

NucleusStep ==
  /\ part = "nucleus" /\ Nucleus!Next
  /\ UNCHANGED <<part, vars, replayState, rings, decoderVars, fallbackState, probesState>>

ProbesStep ==
  /\ part = "probes" /\ Probes!Next
  /\ UNCHANGED <<part, vars, replayState, rings, decoderVars, fallbackState, nucleusState>>

PartsNext ==
  \/ AttentionStep \/ ReplayStep \/ LogStep \/ CallerRingStep \/ DecoderStep
  \/ FallbackStep \/ NucleusStep \/ ProbesStep

PartsSpec ==
  PartsStart /\ [][PartsNext]_<<part, vars, replayState, rings, decoderVars,
                                fallbackState, step, nucleusState, probesState>>

------------------------------------------------------------------------------
(* Replayed calls show the model what the runtime's calls would.              *)
ReplayFaithful == part = "replay" => Replay!ReplayFaithful

(* An append slides the view of the ring by its rows.                         *)
WindowSlides == Ring!WindowSlides

(* The audit's nucleus and evidence are the runtime's.                        *)
NucleusLikeRuntime == part = "nucleus" => Nucleus!NucleusLikeRuntime

(* Boxes are found, shown and compared one by one.                            *)
ProbesFaithful == part = "probes" => Probes!ProbesFaithful
==============================================================================
