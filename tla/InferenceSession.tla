-------------------------- MODULE InferenceSession --------------------------
(***************************************************************************)
(* One InferenceSession shared by the threads of a process.  Initialize    *)
(* and Infer hold inference_mutex throughout (the mutexes inside the two   *)
(* engines are then free whenever they are taken, and left out).  An Infer *)
(* runs Vision once and one Generate per query: prefill, caches seeded     *)
(* from it, and decode graphs, with the slow restart of protected          *)
(* requests.  Whatever fails ends the call with an exception and the       *)
(* mutex free; the caller may try again.                                   *)
(*                                                                         *)
(* What is generated is a term over the image and the query; the loop is   *)
(* LanguageGeneration's, here only the graphs it executes: a PBD window    *)
(* ("decode", whose KV rows are not fetched) and AR tokens, which commit.  *)
(***************************************************************************)
EXTENDS HbmSession, Integers

CONSTANTS
  Threads,   \* threads that share the session
  Requests,  \* [image, queries, protect]: what they ask
  Nobody,    \* no thread
  GenerationMode,  \* of the session's options
  MaxBegun   \* calls of all threads together (bound of the model)

ASSUME SessionAssumption ==
  /\ Nobody \notin Threads
  /\ GenerationMode \in {"hybrid", "slow"}
  /\ \A r \in Requests : r.queries \in Seq({r.queries[q] : q \in DOMAIN r.queries})

VARIABLES
  holder,     \* holder of inference_mutex, or Nobody
  stage,      \* where the call under way stands
  ready,      \* what is initialized: engines, session
  asked,      \* request of each caller's latest call
  returned,   \* what it returned: a sequence of answers, one per query
  features,   \* visual_features_fp16
  seed,       \* prefill outputs
  cache,      \* KV caches of the Generate under way
  mode,       \* selected_mode
  outputs,    \* graph outputs of the Generate under way
  answers,    \* language_results
  begun       \* calls begun

callState == <<features, seed, cache, mode, outputs, answers>>
sessionVars == <<hbmVars, holder, stage, ready, asked, returned, callState, begun>>

-----------------------------------------------------------------------------
Failed == <<>>
Schedule == [hybrid |-> <<"decode", "decode_ar", "decode">>, slow |-> <<"decode_ar", "decode_ar">>]

SessionInit ==
  /\ HbmInit
  /\ holder = Nobody /\ stage = "none" /\ ready = {}
  /\ asked = [c \in Threads |-> Failed] /\ returned = [c \in Threads |-> Failed]
  /\ features = Junk /\ seed = Junk /\ cache = Fresh /\ mode = "hybrid"
  /\ outputs = <<>> /\ answers = <<>>
  /\ begun = 0

Request == asked[holder]
Query == Request.queries[Len(answers) + 1]
Last == IF outputs = <<>> THEN seed ELSE outputs[Len(outputs)]
NextGraph == Schedule[mode][Len(outputs) + 1]

Goto(there) == stage' = there /\ UNCHANGED <<holder, returned>>
Leave(result) ==
  /\ stage' = "none" /\ holder' = Nobody
  /\ returned' = [returned EXCEPT ![holder] = result]
Raise == Leave(Failed)

-----------------------------------------------------------------------------
\* lock_guard on inference_mutex.
Begin(caller, there, request) ==
  /\ holder = Nobody /\ begun < MaxBegun
  /\ holder' = caller /\ stage' = there
  /\ begun' = begun + 1
  /\ asked' = [asked EXCEPT ![caller] = request]
  /\ returned' = [returned EXCEPT ![caller] = Failed]
  /\ UNCHANGED <<hbmVars, ready, callState>>

\* The engines that are not yet initialized are, one after the other.
Initialize ==
  /\ stage = "initialize"
  /\ \E engine \in {"vision", "language", "session"} \ ready :
       /\ engine = "session" => Sessions \subseteq ready
       /\ engine = "language" => "vision" \in ready
       /\ \/ /\ ready' = ready \cup {engine}
             /\ IF engine = "session" THEN Leave(Failed) ELSE Goto("initialize")
          \/ engine # "session" /\ Raise /\ UNCHANGED ready
  /\ UNCHANGED <<hbmVars, asked, callState, begun>>

\* A second Initialize returns at once.
AlreadyInitialized ==
  /\ stage = "initialize" /\ "session" \in ready
  /\ Leave(Failed)
  /\ UNCHANGED <<hbmVars, ready, asked, callState, begun>>

\* Prompts and patches.  No queries, queries of several tasks, a prompt that
\* lacks its image and an uninitialized session throw.
Prepare ==
  /\ stage = "infer"
  /\ answers' = <<>>
  /\ \/ /\ "session" \in ready /\ Request.queries # <<>>
        /\ Goto("visual") /\ Call("visual", <<"patches", Request.image>>, Junk)
     \/ Raise /\ UNCHANGED hbmVars
  /\ UNCHANGED <<ready, asked, features, seed, cache, mode, outputs, begun>>

Vision ==
  /\ stage = "visual" /\ execution["vision"].at \in {"done", "failed"}
  /\ Taken("vision")
  /\ IF execution["vision"].at = "done"
     THEN features' = execution["vision"].output /\ Goto("generate")
     ELSE Raise /\ UNCHANGED features
  /\ UNCHANGED <<ready, asked, seed, cache, mode, outputs, answers, begun>>

\* RunPayload: zero caches, then prefill.
Prefill ==
  /\ stage = "generate"
  /\ mode' = GenerationMode /\ outputs' = <<>>
  /\ \/ /\ Call("prefill", <<"prompt", Query, features>>, ZeroCache.bpu)
        /\ Goto("prefill")
     \/ Raise /\ UNCHANGED hbmVars
  /\ UNCHANGED <<ready, asked, features, seed, cache, answers, begun>>

\* BuildFullCaches from the prefill rows.
Seeded(rows) == Appended(ZeroCache, rows)

Prefilled ==
  /\ stage = "prefill" /\ execution["language"].at \in {"done", "failed"}
  /\ Taken("language")
  /\ \/ /\ execution["language"].at = "done"
        /\ seed' = execution["language"].output
        /\ cache' = Seeded(seed')
        /\ Goto("decode")
     \/ Raise /\ UNCHANGED <<seed, cache>>
  /\ UNCHANGED <<ready, asked, features, mode, outputs, answers, begun>>

Decode ==
  /\ stage = "decode" /\ Len(outputs) < Len(Schedule[mode])
  /\ Call(NextGraph, <<"tokens", Last>>, cache.bpu)
  /\ Goto("decoding")
  /\ UNCHANGED <<ready, asked, callState, begun>>

\* Mutant: the restart keeps the caches as the hybrid attempt left them.
FallBackOnTheSpot ==
  /\ Request.protect /\ mode = "hybrid"
  /\ mode' = "slow" /\ outputs' = <<>>
  /\ UNCHANGED cache /\ Goto("decode")

\* A protected hybrid attempt failed or did not end the answer: slow decoding
\* from the prefill rows.
FallBack ==
  /\ Request.protect /\ mode = "hybrid"
  /\ mode' = "slow" /\ outputs' = <<>>
  /\ cache' = Seeded(seed) /\ Goto("decode")

Decoded ==
  /\ stage = "decoding" /\ execution["language"].at \in {"done", "failed"}
  /\ Taken("language")
  /\ \/ /\ execution["language"].at = "done"
        /\ outputs' = Append(outputs, execution["language"].output)
        /\ cache' = IF NextGraph = "decode" THEN cache
                    ELSE Appended(cache, outputs'[Len(outputs')])
        /\ Goto("decode") /\ UNCHANGED mode
     \* The graph, or the commit of its rows to the caches, failed.
     \/ FallBack
     \/ ~(Request.protect /\ mode = "hybrid") /\ Raise /\ UNCHANGED <<mode, outputs, cache>>
     \* The caches cannot be built again.
     \/ Request.protect /\ mode = "hybrid" /\ Raise /\ UNCHANGED <<mode, outputs, cache>>
  /\ UNCHANGED <<ready, asked, features, seed, answers, begun>>

\* After the last answer they are all parsed and written out, which may throw.
Generated ==
  /\ stage = "decode" /\ Len(outputs) = Len(Schedule[mode])
  /\ \/ /\ answers' = Append(answers, [mode |-> mode, outputs |-> outputs])
        /\ IF Len(answers') = Len(Request.queries) THEN Leave(answers') \/ Raise
                                                    ELSE Goto("generate")
        /\ UNCHANGED <<cache, mode, outputs>>
     \* The stop reason was not im_end.
     \/ FallBack /\ UNCHANGED answers
  /\ UNCHANGED <<hbmVars, ready, asked, features, seed, begun>>

\* No call is left to make.
AllCalled == holder = Nobody /\ begun = MaxBegun /\ UNCHANGED sessionVars

SessionNext ==
  \/ \E c \in Threads : Begin(c, "initialize", Failed) \/ \E r \in Requests : Begin(c, "infer", r)
  \/ Initialize \/ AlreadyInitialized \/ Prepare \/ Vision \/ Prefill \/ Prefilled
  \/ Decode \/ Decoded \/ Generated
  \/ Executes /\ UNCHANGED <<holder, stage, ready, asked, returned, callState, begun>>
  \/ AllCalled

SessionSpec == SessionInit /\ [][SessionNext]_sessionVars

-----------------------------------------------------------------------------
\* The outputs the graphs give for one query of an image, on memory of its own.
FeaturesOf(image) == Computed("visual", <<"patches", image>>, Junk)
SeedOf(image, query) ==
  Computed("prefill", <<"prompt", query, FeaturesOf(image)>>, <<"zero">>)

OutputsOf(image, query, graphs) ==
  LET After[n \in 0 .. Len(graphs)] ==
        IF n = 0
        THEN [last |-> SeedOf(image, query), outputs |-> <<>>,
              rows |-> <<"rows", <<"zero">>, SeedOf(image, query)>>]
        ELSE LET before == After[n - 1]
                 output == Computed(graphs[n], <<"tokens", before.last>>, before.rows)
             IN [last |-> output, outputs |-> Append(before.outputs, output),
                 rows |-> IF graphs[n] = "decode" THEN before.rows
                          ELSE <<"rows", before.rows, output>>]
  IN After[Len(graphs)].outputs

SlowAllowed(request) == request.protect \/ GenerationMode = "slow"

\* A call that returns has answers of its own image and of each of its queries
\* in order, slow ones only if asked for or protected: nothing of another call,
\* of another query, or of an attempt that failed is in them, whatever buffers
\* and caches those left behind.
AnswersOwnRequest ==
  \A c \in Threads : holder # c /\ returned[c] # Failed =>
    /\ Len(returned[c]) = Len(asked[c].queries)
    /\ \A q \in DOMAIN returned[c] :
         LET answer == returned[c][q]
         IN /\ answer.mode = "slow" => SlowAllowed(asked[c])
            /\ answer.outputs = OutputsOf(asked[c].image, asked[c].queries[q], Schedule[answer.mode])

\* The session is there for the next call, and the graphs' memory is bounded.
SessionSound == AnswersOwnRequest /\ OnlyActiveHoldsBuffers
=============================================================================
