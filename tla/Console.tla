------------------------------- MODULE Console -------------------------------
(***************************************************************************)
(* The command line console: loading, with a second thread that draws the  *)
(* progress, and then one line of the user after the other, with SIGINT at *)
(* any time.  Any step of a request may throw: the line ends, and the      *)
(* console goes on with the files the request left.  Writing text and      *)
(* video frames reports nothing when it fails.                             *)
(***************************************************************************)
EXTENDS Integers, Sequences

CONSTANTS
  Images, Videos,  \* paths of media: [stem, ext]
  Frames,          \* frames a video has
  Commands,        \* task commands
  MaxLines         \* lines the user enters (bound of the model)

VARIABLES
  main,           \* what the main thread does
  loading, loadStage, thrown, stagesLeft,
  renderer,       \* what the renderer thread does
  shown,          \* its current_stage
  media, last,    \* media_ and last_request_
  lines,          \* lines entered, the number of a run
  request,        \* the request under way or last run
  done,           \* frame_index
  disk,           \* files below the output root and whose they are
  silent,         \* files of this run of which a write failed unnoticed
  report,         \* files named by "Saved" or "Video complete", or none
  stopRequested   \* stop_requested

loadVars == <<loading, loadStage, thrown, stagesLeft, renderer, shown>>
runVars == <<media, last, lines, request, done, disk, silent, report>>
consoleVars == <<main, loadVars, runVars, stopRequested>>

None == [media |-> "none"]

\* A file that is absent or torn.
Unusable == [run |-> 0, request |-> None, frames |-> 0]
Files == {<<path.stem, name>> : path \in Images \cup Videos,
            name \in {"annotated.jpg", "prediction.json", "annotated.mp4", "annotated.avi",
                      "predictions.jsonl", "summary.json"}}

ConsoleInit ==
  /\ main = "initializing" /\ thrown = FALSE /\ stagesLeft = <<"Vision HBM", "Language HBM">>
  /\ loading = TRUE /\ loadStage = "Starting" /\ renderer = "testing" /\ shown = "none"
  /\ media = None /\ last = None /\ lines = 0 /\ request = None /\ done = 0
  /\ disk = [f \in Files |-> Unusable] /\ silent = {} /\ report = {} /\ stopRequested = FALSE

-----------------------------------------------------------------------------
\* InitializeSession.  What is done under state_mutex is one step.
Notified == renderer' = IF renderer = "asleep" THEN "drawn" ELSE renderer

EnterStage ==
  /\ main = "initializing" /\ stagesLeft # <<>>
  /\ loadStage' = Head(stagesLeft) /\ stagesLeft' = Tail(stagesLeft)
  /\ main' = "notifying"
  /\ UNCHANGED <<loading, thrown, renderer, shown>>

NotifyStage ==
  /\ main = "notifying" /\ main' = "initializing" /\ Notified
  /\ UNCHANGED <<loading, loadStage, thrown, stagesLeft, shown>>

\* Mutant: the handler passes the exception on without ending the loading.
ThrowOn ==
  /\ main = "initializing"
  /\ thrown' = TRUE /\ main' = "ended"
  /\ UNCHANGED <<loading, loadStage, stagesLeft, renderer, shown>>

Throw ==
  /\ main = "initializing"
  /\ thrown' = TRUE /\ loading' = FALSE /\ main' = "ended"
  /\ UNCHANGED <<loadStage, stagesLeft, renderer, shown>>

Loaded ==
  /\ main = "initializing" /\ stagesLeft = <<>>
  /\ loading' = FALSE /\ main' = "ended"
  /\ UNCHANGED <<thrown, loadStage, stagesLeft, renderer, shown>>

NotifyEnd ==
  /\ main = "ended" /\ main' = "joining" /\ Notified
  /\ UNCHANGED <<loading, loadStage, thrown, stagesLeft, shown>>

Join ==
  /\ main = "joining" /\ renderer = "ended"
  /\ main' = IF thrown THEN "exited" ELSE "prompt"
  /\ UNCHANGED loadVars

MainLoads ==
  /\ EnterStage \/ NotifyStage \/ Throw \/ Loaded \/ NotifyEnd \/ Join
  /\ UNCHANGED <<runVars, stopRequested>>

\* while (loading): copy the stage under the mutex, draw it outside.
TestLoading ==
  /\ renderer = "testing"
  /\ IF loading THEN renderer' = "drawing" /\ shown' = loadStage
     ELSE renderer' = "ended" /\ UNCHANGED shown
  /\ UNCHANGED <<main, loading, loadStage, thrown, stagesLeft>>

Draw ==
  /\ renderer = "drawing" /\ renderer' = "drawn"
  /\ UNCHANGED <<main, loading, loadStage, thrown, stagesLeft, shown>>

\* wait_for: test the predicate, and sleep until a notification or 100 ms.
Await ==
  /\ renderer = "drawn"
  /\ renderer' = IF ~loading \/ loadStage # shown THEN "testing" ELSE "asleep"
  /\ UNCHANGED <<main, loading, loadStage, thrown, stagesLeft, shown>>

Timeout ==
  /\ renderer = "asleep" /\ renderer' = "testing"
  /\ UNCHANGED <<main, loading, loadStage, thrown, stagesLeft, shown>>

Renders ==
  /\ TestLoading \/ Draw \/ Await \/ Timeout
  /\ UNCHANGED <<runVars, stopRequested>>

-----------------------------------------------------------------------------
File(name) == <<request.media.stem, name>>
Video == IF File("annotated.avi") \in report THEN File("annotated.avi") ELSE File("annotated.mp4")
Log == File("predictions.jsonl")

\* What a file holds: whose frames, and how many.
Content(frames) == [run |-> lines, request |-> request, frames |-> frames]

OneMore(content) ==
  [run |-> content.run, request |-> content.request, frames |-> content.frames + 1]

\* Statements that write without asking: the file is written, is left torn, or
\* was not even opened.
Unchecked(file, content) ==
  \/ disk' = [disk EXCEPT ![file] = content] /\ UNCHANGED silent
  \/ disk' \in {[disk EXCEPT ![file] = Unusable], disk} /\ silent' = silent \cup {file}

\* "Request failed": back to the prompt.
Fails == main' = "prompt" /\ report' = {} /\ UNCHANGED <<media, last, lines, request, done, silent>>

Execute(asked) ==
  /\ request' = asked /\ done' = 0 /\ silent' = {} /\ report' = {}
  /\ main' = IF asked.media \in Images THEN "image" ELSE "video"
  /\ UNCHANGED <<media, disk>>

\* while (!stop_requested) getline: a line already awaited is still carried out.
Prompt ==
  /\ main = "prompt"
  /\ main' = IF stopRequested \/ lines = MaxLines THEN "closed" ELSE "reading"
  /\ UNCHANGED runVars

Back == main' = "prompt" /\ report' = {} /\ UNCHANGED <<request, done, disk, silent>>

ReadLine ==
  /\ main = "reading" /\ lines' = lines + 1
  /\ \/ main' = "closed" /\ UNCHANGED <<media, last, request, done, disk, silent, report>>
     \* reset
     \/ media' = None /\ last' = None /\ Back
     \* /image and /video remember what they could open
     \/ media' \in {media} \cup Images \cup Videos /\ UNCHANGED last /\ Back
     \* regen
     \/ IF last = None THEN Back /\ UNCHANGED <<media, last>> ELSE Execute(last) /\ UNCHANGED last
     \* a task
     \/ \E command \in Commands :
          IF media = None THEN Back /\ UNCHANGED <<media, last>>
          ELSE last' = [media |-> media, command |-> command] /\ Execute(last')

\* imread, Infer and OutputPath; then imwrite, which is asked.
RunImage ==
  /\ main = "image"
  /\ \/ Fails /\ disk' \in {disk, [disk EXCEPT ![File("annotated.jpg")] = Unusable]}
     \/ /\ done' = 1 /\ main' = "json"
        /\ disk' = [disk EXCEPT ![File("annotated.jpg")] = Content(1)]
        /\ UNCHANGED <<media, last, lines, request, silent, report>>

SaveJson ==
  /\ main = "json" /\ main' = "prompt"
  /\ Unchecked(File("prediction.json"), Content(1))
  /\ report' = {File("annotated.jpg"), File("prediction.json")}
  /\ UNCHANGED <<media, last, lines, request, done>>

\* Mutant: the log is opened for appending.
OpenedAppending(file) == disk

\* A stream opened for writing empties its file.
Opened(file) == [disk EXCEPT ![file] = Content(0)]

\* The writer, as MP4 or as AVI, and the log; report holds the video's name.
OpenVideo ==
  /\ main = "video"
  /\ \/ Fails /\ UNCHANGED disk
     \/ \E container \in {"annotated.mp4", "annotated.avi"} :
          /\ disk' = [Opened(Log) EXCEPT ![File(container)] = Content(0)]
          /\ report' = {File(container)} /\ main' = "frames"
          /\ UNCHANGED <<media, last, lines, request, done, silent>>
     \/ \E container \in {"annotated.mp4", "annotated.avi"} :
          Fails /\ disk' = [disk EXCEPT ![File(container)] = Content(0)]

\* One frame: Infer, the frame and its line; a stream that failed stays failed.
NextFrame ==
  /\ main = "frames" /\ ~stopRequested /\ done < Frames
  /\ \/ Fails /\ UNCHANGED disk
     \/ /\ done' = done + 1
        /\ \E failing \in SUBSET {Video, Log} :
             /\ silent' = silent \cup failing
             /\ disk' = [f \in Files |-> IF f \in {Video, Log} \ silent'
                                         THEN OneMore(disk[f]) ELSE disk[f]]
        /\ UNCHANGED <<main, media, last, lines, request, report>>

\* No frame is left or can be read, or a signal came: both end the same way.
EndOfVideo ==
  /\ main = "frames" /\ main' = "summary"
  /\ UNCHANGED runVars

Summarize ==
  /\ main = "summary" /\ main' = "prompt"
  /\ Unchecked(File("summary.json"), Content(done))
  /\ report' = {Video, Log, File("summary.json")}
  /\ UNCHANGED <<media, last, lines, request, done>>

Runs == Prompt \/ ReadLine \/ RunImage \/ SaveJson \/ OpenVideo \/ NextFrame \/ EndOfVideo \/ Summarize

Signal == ~stopRequested /\ stopRequested' = TRUE /\ UNCHANGED <<main, loadVars, runVars>>

Closed == main \in {"closed", "exited"} /\ UNCHANGED consoleVars

ConsoleNext ==
  \/ MainLoads
  \/ Renders
  \/ Runs /\ UNCHANGED <<loadVars, stopRequested>>
  \/ Signal
  \/ Closed

-----------------------------------------------------------------------------
Reported == main = "prompt" /\ report # {}

\* When the console names the files of a request, those whose writes went
\* through are all of that request's run and of all the frames it inferred,
\* whatever earlier runs, failed ones included, left in the same directory.
OutputsOfOneRun ==
  Reported => \A file \in report \ silent : disk[file] = Content(done)

\* "Run one local image and save annotated image and JSON result" (cli.cpp:624):
\* when the console says "Saved", or "Video complete", the files it names are
\* there.
SavedIsOnDisk ==
  Reported => \A file \in report : disk[file] = Content(done)

\* Once Initialize has returned or thrown, the renderer stops and the console
\* goes on or exits.
LoadingEnds == main = "ended" ~> main \in {"prompt", "exited"}
=============================================================================
