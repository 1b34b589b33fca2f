---------------------------- MODULE AsyncProcess ----------------------------
(***************************************************************************)
(* AsyncProcess: a child process of the portal (a chooser, slurp, an       *)
(* external screenshot tool) that is fed its standard input, read to the   *)
(* end of its standard output, reaped by polling, and reported once.  The  *)
(* callbacks of the event loop interleave with the child, which reads,     *)
(* writes, closes and exits as it likes, and with its descendants, which   *)
(* may hold its standard output open.  Data is counted in units.           *)
(***************************************************************************)
EXTENDS Naturals, FiniteSetsExt

CONSTANTS
    Input,          \* units of input
    PipeSize,       \* units a pipe holds
    MaxOutput,      \* bound: units the child writes
    SigtermBlocked  \* TRUE: the child keeps the mask it inherits, with SIGTERM in it

ASSUME AsyncProcessAssumption ==
    /\ Input \in Nat /\ PipeSize \in Nat \ {0} /\ MaxOutput \in Nat
    /\ SigtermBlocked \in BOOLEAN

VARIABLES
    \* AsyncProcess::Impl
    object,       \* "new" before start(), "alive", or "gone" after destroy()
    hasPid,       \* pid > 0
    callback,     \* the callback is set
    finished,
    stdinOpen,    \* stdinFd with its watch
    stdoutOpen,   \* stdoutFd with its watch
    waitTimer,    \* a pollExit timer is armed
    inputOffset,
    output,       \* units read
    result,       \* what the callback was given, or "none"
    resultOutput, \* and the output with it
    terminated,   \* terminate() was called
    \* the child
    child,        \* "none", "running", "zombie" or "reaped"
    status,       \* how it ended
    sigterm,      \* SIGTERM is pending
    inPipe, readEnd,          \* its stdin: units in the pipe, and its end is open
    outPipe, writeEnds,       \* its stdout: units in the pipe, and some end is open
    written                   \* units it wrote

implVars == <<object, hasPid, callback, finished, stdinOpen, stdoutOpen, waitTimer,
              inputOffset, output, result, resultOutput, terminated>>
childVars == <<child, status, sigterm, inPipe, readEnd, outPipe, writeEnds, written>>
processVars == <<implVars, childVars>>

Statuses == {"ok", "notfound", "failed", "signaled"}

ProcessTypeOK ==
    /\ {hasPid, callback, finished, stdinOpen, stdoutOpen, waitTimer, terminated,
        sigterm, readEnd, writeEnds} \subseteq BOOLEAN
    /\ object \in {"new", "alive", "gone"}
    /\ inputOffset \in 0..Input
    /\ output \in 0..MaxOutput /\ resultOutput \in 0..MaxOutput /\ written \in 0..MaxOutput
    /\ inPipe \in 0..PipeSize /\ outPipe \in 0..PipeSize
    /\ result \in {"none", "lost"} \cup Statuses
    /\ child \in {"none", "running", "zombie", "reaped"}
    /\ status \in {"none"} \cup Statuses
    /\ hasPid => child \in {"running", "zombie"}

ProcessInit ==
    /\ object = "new" /\ hasPid = FALSE /\ callback = TRUE /\ finished = FALSE
    /\ stdinOpen = FALSE /\ stdoutOpen = FALSE /\ waitTimer = FALSE
    /\ inputOffset = 0 /\ output = 0 /\ result = "none" /\ resultOutput = 0
    /\ terminated = FALSE
    /\ child = "none" /\ status = "none" /\ sigterm = FALSE
    /\ inPipe = 0 /\ readEnd = FALSE /\ outPipe = 0 /\ writeEnds = FALSE /\ written = 0

-----------------------------------------------------------------------------
(* What the callbacks are made of. *)

\* Impl::finish with result r: closes everything and calls back, once.
Finish(r) ==
    /\ finished' = TRUE
    /\ stdinOpen' = FALSE /\ stdoutOpen' = FALSE /\ waitTimer' = FALSE
    /\ result' = IF callback THEN r ELSE result
    /\ resultOutput' = IF callback THEN output ELSE resultOutput
    /\ callback' = FALSE

\* kill(pid, SIGTERM) stays pending while it is blocked, and for a zombie is lost.
Kill == sigterm' = (sigterm \/ (hasPid /\ child = "running"))

-----------------------------------------------------------------------------
(* start(): pipes, fork, and the two watches. *)

StartFails ==
    /\ object = "new" /\ object' = "alive"
    /\ Finish("lost")
    /\ UNCHANGED <<hasPid, inputOffset, output, terminated, childVars>>

Spawn ==
    /\ object = "new" /\ object' = "alive"
    /\ hasPid' = TRUE
    /\ child' = "running" /\ readEnd' = TRUE /\ writeEnds' = TRUE
    /\ stdoutOpen' = TRUE
    /\ stdinOpen' = (Input > 0)
    /\ UNCHANGED <<callback, finished, waitTimer, inputOffset, output, result, resultOutput,
                   terminated, status, sigterm, inPipe, outPipe, written>>

\* install() when stdout cannot be watched: the child is killed and forgotten.
SpawnUnwatched ==
    /\ object = "new" /\ object' = "alive"
    /\ hasPid' = TRUE
    /\ child' = "running" /\ sigterm' = TRUE /\ readEnd' = TRUE /\ writeEnds' = TRUE
    /\ Finish("lost")
    /\ UNCHANGED <<inputOffset, output, terminated, status, inPipe, outPipe, written>>

-----------------------------------------------------------------------------
(* The event loop's callbacks. *)

\* writeReady: writes what fits; closes stdin when all is written or nobody reads.
WriteReady ==
    /\ stdinOpen
    /\ inPipe < PipeSize \/ ~readEnd
    /\ IF readEnd
       THEN LET n == Min({Input - inputOffset, PipeSize - inPipe})
            IN /\ inputOffset' = inputOffset + n
               /\ inPipe' = inPipe + n
               /\ stdinOpen' = (inputOffset' < Input)
       ELSE stdinOpen' = FALSE /\ UNCHANGED <<inputOffset, inPipe>>
    /\ UNCHANGED <<object, hasPid, callback, finished, stdoutOpen, waitTimer, output, result,
                   resultOutput, terminated, child, status, sigterm, readEnd, outPipe, writeEnds, written>>

\* Mutant: EPOLLHUP is looked at before the data is read.
ReadHangsUpFirst ==
    /\ stdoutOpen
    /\ outPipe > 0 \/ ~writeEnds
    /\ IF writeEnds
       THEN output' = output + outPipe /\ outPipe' = 0 /\ UNCHANGED <<stdoutOpen, waitTimer>>
       ELSE stdoutOpen' = FALSE /\ waitTimer' = TRUE /\ UNCHANGED <<output, outPipe>>
    /\ UNCHANGED <<object, hasPid, callback, finished, stdinOpen, inputOffset, result, resultOutput,
                   terminated, child, status, sigterm, inPipe, readEnd, writeEnds, written>>

\* readReady: drains the pipe; at its end closes stdout and begins to poll.
ReadReady ==
    /\ stdoutOpen
    /\ outPipe > 0 \/ ~writeEnds
    /\ output' = output + outPipe /\ outPipe' = 0
    /\ stdoutOpen' = writeEnds
    /\ waitTimer' = (waitTimer \/ ~writeEnds)
    /\ UNCHANGED <<object, hasPid, callback, finished, stdinOpen, inputOffset, result, resultOutput,
                   terminated, child, status, sigterm, inPipe, readEnd, writeEnds, written>>

\* Mutant: pollExit does not arm itself again.
PollOnce ==
    /\ waitTimer
    /\ IF child = "running"
       THEN waitTimer' = FALSE
            /\ UNCHANGED <<hasPid, child, finished, callback, stdinOpen, stdoutOpen, result, resultOutput>>
       ELSE /\ child' = "reaped" /\ hasPid' = FALSE
            /\ Finish(status)
    /\ UNCHANGED <<object, inputOffset, output, terminated, status, sigterm, inPipe, readEnd,
                   outPipe, writeEnds, written>>

\* pollExit: waitpid without waiting; polls again after 25 ms, or finishes.
PollExit ==
    /\ waitTimer
    /\ IF child = "running"
       THEN UNCHANGED <<hasPid, child, finished, callback, stdinOpen, stdoutOpen, waitTimer,
                        result, resultOutput>>
       ELSE /\ child' = "reaped" /\ hasPid' = FALSE
            /\ Finish(status)
    /\ UNCHANGED <<object, inputOffset, output, terminated, status, sigterm, inPipe, readEnd,
                   outPipe, writeEnds, written>>

\* Mutant: terminate() leaves the callback set.
TerminateKeepingCallback ==
    /\ object = "alive" /\ ~finished
    /\ terminated' = TRUE
    /\ stdinOpen' = FALSE /\ stdoutOpen' = FALSE
    /\ waitTimer' = (waitTimer \/ hasPid)
    /\ Kill
    /\ UNCHANGED <<object, hasPid, callback, finished, inputOffset, output, result, resultOutput,
                   child, status, inPipe, readEnd, outPipe, writeEnds, written>>

\* terminate(), from a cancelled operation: forgets the callback, closes both
\* pipes, sends SIGTERM and polls.  Nothing when it has finished.
Terminate ==
    /\ object = "alive" /\ ~finished
    /\ terminated' = TRUE
    /\ callback' = FALSE
    /\ stdinOpen' = FALSE /\ stdoutOpen' = FALSE
    /\ waitTimer' = (waitTimer \/ hasPid)
    /\ Kill
    /\ UNCHANGED <<object, hasPid, finished, inputOffset, output, result, resultOutput,
                   child, status, inPipe, readEnd, outPipe, writeEnds, written>>

\* destroy(): a terminated process is held by its timer alone, which goes with the
\* event loop; one that was never watched goes with its operation.  One more
\* SIGTERM, one waitpid that does not wait, and the pid is forgotten.
Destroy ==
    /\ object = "alive" /\ hasPid /\ (terminated \/ finished)
    /\ object' = "gone"
    /\ callback' = FALSE
    /\ stdinOpen' = FALSE /\ stdoutOpen' = FALSE /\ waitTimer' = FALSE
    /\ hasPid' = FALSE
    /\ child' = IF child = "zombie" THEN "reaped" ELSE child
    /\ Kill
    /\ UNCHANGED <<finished, inputOffset, output, result, resultOutput, terminated, status,
                   inPipe, readEnd, outPipe, writeEnds, written>>

-----------------------------------------------------------------------------
(* The child and its descendants. *)

ChildReads ==
    /\ child = "running" /\ readEnd /\ inPipe > 0
    /\ inPipe' = inPipe - 1
    /\ UNCHANGED <<implVars, child, status, sigterm, readEnd, outPipe, writeEnds, written>>

ChildStopsReading ==
    /\ child = "running" /\ readEnd
    /\ readEnd' = FALSE
    /\ inPipe' = 0
    /\ UNCHANGED <<implVars, child, status, sigterm, outPipe, writeEnds, written>>

ChildWrites ==
    /\ writeEnds /\ stdoutOpen
    /\ outPipe < PipeSize /\ written < MaxOutput
    /\ outPipe' = outPipe + 1 /\ written' = written + 1
    /\ UNCHANGED <<implVars, child, status, sigterm, inPipe, readEnd, writeEnds>>

\* It exits by itself, or of a SIGTERM that is not blocked; its descendants may
\* keep its standard output open.
ChildEnds(st) ==
    /\ child = "running"
    /\ child' = "zombie"
    /\ status' = st
    /\ readEnd' = FALSE /\ inPipe' = 0
    /\ writeEnds' \in {FALSE, writeEnds}
    /\ UNCHANGED <<implVars, sigterm, outPipe, written>>

ChildExits == \E st \in {"ok", "notfound", "failed"} : ChildEnds(st)
ChildKilled == sigterm /\ ~SigtermBlocked /\ ChildEnds("signaled")

StdoutCloses ==
    /\ writeEnds
    /\ writeEnds' = FALSE
    /\ UNCHANGED <<implVars, child, status, sigterm, inPipe, readEnd, outPipe, written>>

-----------------------------------------------------------------------------
ProcessNext ==
    \/ StartFails \/ Spawn \/ SpawnUnwatched
    \/ WriteReady \/ ReadReady \/ PollExit
    \/ Terminate \/ Destroy
    \/ ChildReads \/ ChildStopsReading \/ ChildWrites \/ ChildExits \/ ChildKilled \/ StdoutCloses

ProcessSpec == ProcessInit /\ [][ProcessNext]_processVars

\* The event loop calls what is ready; a signal that is delivered kills.  Of the
\* child nothing is assumed: the user may leave the dialog open for ever.
Fairness ==
    /\ WF_processVars(WriteReady) /\ WF_processVars(ReadReady) /\ WF_processVars(PollExit)
    /\ WF_processVars(ChildKilled)
ProcessFairSpec == ProcessSpec /\ Fairness

-----------------------------------------------------------------------------
(* Properties. *)

\* Well typed; and the callback gets all the child wrote, and how it ended: stdout is read to its
\* end before the child is reaped (readReady, pollExit).
ResultIsWhole ==
    /\ ProcessTypeOK
    /\ result \in Statuses => resultOutput = written /\ result = status /\ child = "reaped"

\* An operation that terminated its process never hears of it again, and none hears
\* of its process twice: after finish() nothing is left that could call back, its
\* pipes and its timer being closed (terminate, finish, and callbacks of the loop
\* that come after them).
TerminatedIsSilent ==
    [][/\ terminated \/ finished => UNCHANGED <<result, resultOutput>>
       /\ finished => ~stdinOpen /\ ~stdoutOpen /\ ~waitTimer]_processVars

\* While the event loop runs, a child that has ended, and whose output is closed or
\* no longer read, is reaped and reported (readReady, terminate, pollExit).
EndIsReported ==
    (child = "zombie" /\ ~finished /\ (~writeEnds \/ terminated)) ~> (finished \/ object = "gone")

\* Request.xml, Close: "Dialogs and other UIs related to the request should be
\* closed": a terminated chooser ends (terminate).
TerminatedChildEnds == (terminated /\ child = "running") ~> child # "running"
=============================================================================
