----------------------------- MODULE Screenshot -----------------------------
(***************************************************************************)
(* The org.freedesktop.impl.portal.Screenshot backend: Screenshot and      *)
(* PickColor calls, each an Operation that may run an external tool, the   *)
(* chooser or slurp, wait for a zero-delay timer, and capture one frame of *)
(* an output into a buffer of its own.  Calls share the connection to the  *)
(* compositor, whose loss ends the process and with it all of them.  Every *)
(* action is one callback of the event loop.                               *)
(***************************************************************************)
EXTENDS Naturals

CONSTANTS
    Calls,      \* the calls the frontend may make
    MaxDones    \* bound: how often a capture session sends its constraints

ASSUME ScreenshotAssumption == MaxDones \in Nat \ {0}

VARIABLES
    kind,       \* what the call is and how the configuration has it served
    phase,      \* what the Operation waits for
    child,      \* its child process
    kick,       \* the zero-delay captureFirstOutput timer is pending
    timer,      \* Operation::timeoutId is armed
    session,    \* CaptureState::session exists
    held,       \* CaptureState::buffer, with its memory, exists
    frame,      \* CaptureState::frame is outstanding
    intact,     \* the completion callback still holds what it captured
    dones,      \* how often the capture's constraints came
    request,    \* the Request object
    reply,      \* what returnResults sent
    leaked,     \* buffers no CaptureState knows any more
    connected,  \* the connection to the compositor
    ended       \* the process is gone: its loop has quit, or it has crashed

callVars == <<kind, phase, child, kick, timer, session, held, frame, intact, dones, request, reply>>
vars == <<callVars, leaked, connected, ended>>

Picks == {"pickTool", "slurp"}
Kinds == {"tool", "chooser", "direct"} \cup Picks

TypeOK ==
    /\ kind \in [Calls -> Kinds \cup {"none"}]
    /\ phase \in [Calls -> {"idle", "child", "kick", "capture", "done"}]
    /\ child \in [Calls -> {"none", "running", "terminated"}]
    /\ kick \in [Calls -> BOOLEAN] /\ timer \in [Calls -> BOOLEAN]
    /\ session \in [Calls -> BOOLEAN] /\ held \in [Calls -> BOOLEAN]
    /\ frame \in [Calls -> BOOLEAN] /\ intact \in [Calls -> BOOLEAN]
    /\ dones \in [Calls -> 0..MaxDones]
    /\ request \in [Calls -> {"none", "exported", "doomed", "removed"}]
    /\ reply \in [Calls -> {"none", "success", "cancelled", "other"}]
    /\ leaked \in Nat
    /\ connected \in BOOLEAN /\ ended \in BOOLEAN

Init ==
    /\ kind = [c \in Calls |-> "none"]
    /\ phase = [c \in Calls |-> "idle"]
    /\ child = [c \in Calls |-> "none"]
    /\ kick = [c \in Calls |-> FALSE] /\ timer = [c \in Calls |-> FALSE]
    /\ session = [c \in Calls |-> FALSE] /\ held = [c \in Calls |-> FALSE]
    /\ frame = [c \in Calls |-> FALSE] /\ intact = [c \in Calls |-> TRUE]
    /\ dones = [c \in Calls |-> 0]
    /\ request = [c \in Calls |-> "none"]
    /\ reply = [c \in Calls |-> "none"]
    /\ leaked = 0
    /\ connected = TRUE /\ ended = FALSE

-----------------------------------------------------------------------------
(* What the callbacks are made of. *)

\* ~CaptureState: the frame, the session and the buffer it knows, with its memory.
DestroyCapture(c) ==
    /\ frame' = [frame EXCEPT ![c] = FALSE]
    /\ session' = [session EXCEPT ![c] = FALSE]
    /\ held' = [held EXCEPT ![c] = FALSE]

\* Operation::finish for an operation not done yet: answers, leaves the Request to
\* a zero-delay timer and destroys the CaptureState.
Finish(c, answer) ==
    /\ phase' = [phase EXCEPT ![c] = "done"]
    /\ timer' = [timer EXCEPT ![c] = FALSE]
    /\ reply' = [reply EXCEPT ![c] = answer]
    /\ request' = [request EXCEPT ![c] = "doomed"]
    /\ DestroyCapture(c)

\* The answer to a capture that failed: PickColor calls it cancelled.
Failure(c) == IF kind[c] \in Picks THEN "cancelled" ELSE "other"

\* Mutant: the capture does not arm its timer.
StartUntimedCapture(c) ==
    \/ Finish(c, Failure(c))
    \/ /\ phase' = [phase EXCEPT ![c] = "capture"]
       /\ session' = [session EXCEPT ![c] = TRUE]
       /\ UNCHANGED <<timer, held, frame, request, reply>>

\* startCapture: fails when the output or the protocols are gone, else waits for
\* the constraints with a 5 s timer.
StartCapture(c) ==
    \/ Finish(c, Failure(c))
    \/ /\ phase' = [phase EXCEPT ![c] = "capture"]
       /\ session' = [session EXCEPT ![c] = TRUE]
       /\ timer' = [timer EXCEPT ![c] = TRUE]
       /\ UNCHANGED <<held, frame, request, reply>>

captureKeeps == <<kind, kick, intact, dones>>
world == <<leaked, connected, ended>>

-----------------------------------------------------------------------------
(* The calls. *)

\* attachRequest: the Request is exported for as long as the call waits.
Await(c, what) ==
    /\ phase' = [phase EXCEPT ![c] = what]
    /\ request' = [request EXCEPT ![c] = "exported"]
    /\ UNCHANGED <<timer, session, held, frame, reply>>

\* AsyncProcess::start: a process that cannot be spawned has failed at once, and
\* so has a chooser that is not configured.
RunProcess(c, failure) ==
    /\ \/ child' = [child EXCEPT ![c] = "running"] /\ Await(c, "child")
       \/ Finish(c, failure) /\ UNCHANGED child
    /\ UNCHANGED kick

\* ScreenshotOperation::start: the configured tool comes first, then the chooser
\* if the caller wants one, else a zero-delay timer.
TakeScreenshot(c, k) ==
    \/ k = "tool" /\ RunProcess(c, "other")
    \/ k = "chooser" /\ RunProcess(c, "cancelled")
    \/ /\ k = "direct"
       /\ kick' = [kick EXCEPT ![c] = TRUE]
       /\ Await(c, "kick")
       /\ UNCHANGED child

\* PickColorOperation::start: the configured tool, else slurp.
PickColor(c, k) == k \in Picks /\ RunProcess(c, "cancelled")

\* A call arrives.
Receive(c, k) ==
    /\ ~ended
    /\ phase[c] = "idle"
    /\ kind' = [kind EXCEPT ![c] = k]
    /\ TakeScreenshot(c, k) \/ PickColor(c, k)
    /\ UNCHANGED <<intact, dones, world>>

\* A child's callback, which every process but a terminated one gets.
Exits(c, tools) ==
    /\ ~ended
    /\ phase[c] = "child" /\ child[c] = "running" /\ kind[c] \in tools
    /\ child' = [child EXCEPT ![c] = "none"]
    /\ UNCHANGED <<captureKeeps, world>>

\* The configured tool has made the screenshot, or failed or printed no path.
ScreenshotToolExits(c) ==
    /\ Exits(c, {"tool"})
    /\ \E answer \in {"success", "other"} : Finish(c, answer)

\* parseColorTriplet: a color, or not three numbers from 0 to 1.
ColorAnswers == {"success", "cancelled"}

\* The configured tool has picked a color, or not.
ColorToolExits(c) ==
    /\ Exits(c, {"pickTool"})
    /\ \E answer \in ColorAnswers : Finish(c, answer)

\* The chooser has chosen an output, or nothing; one whose command is not there
\* falls back to the first output.
ChooserExits(c) ==
    /\ Exits(c, {"chooser"})
    /\ Finish(c, "cancelled") \/ StartCapture(c)

\* captureAndSample: no output to capture, or the capture begins.
CaptureAndSample(c) == StartCapture(c)

\* slurp has picked a point, or its line is none (parseSlurpPoint).
SlurpExits(c) ==
    /\ Exits(c, {"slurp"})
    /\ Finish(c, "cancelled") \/ CaptureAndSample(c)

\* The zero-delay timer of a screenshot: captureFirstOutput, if it is not done.
CaptureFirstOutput(c) ==
    /\ ~ended
    /\ kick[c]
    /\ kick' = [kick EXCEPT ![c] = FALSE]
    /\ IF phase[c] = "done"
       THEN UNCHANGED <<phase, timer, session, held, frame, request, reply>>
       ELSE StartCapture(c)
    /\ UNCHANGED <<kind, child, intact, dones, world>>

\* Mutant: cancel() leaves the tool running with its callback.
CloseWithoutTerminate(c) ==
    /\ request[c] = "exported"
    /\ Finish(c, "cancelled")
    /\ UNCHANGED <<child, captureKeeps, world>>

\* Request.Close: cancel() terminates the child, whose callback is dropped, and
\* answers 1.
RequestClose(c) ==
    /\ ~ended
    /\ request[c] = "exported"
    /\ child' = [child EXCEPT ![c] = IF @ = "running" THEN "terminated" ELSE @]
    /\ Finish(c, "cancelled")
    /\ UNCHANGED <<captureKeeps, world>>

\* Mutant: the Request goes before its call is answered.
RequestRemovedEarly(c) ==
    /\ request[c] \in {"exported", "doomed"}
    /\ request' = [request EXCEPT ![c] = "removed"]
    /\ UNCHANGED <<kind, phase, child, kick, timer, session, held, frame, intact, dones, reply, world>>

\* The deferRequestDestroy timer.
RequestRemoved(c) ==
    /\ ~ended
    /\ request[c] = "doomed"
    /\ request' = [request EXCEPT ![c] = "removed"]
    /\ UNCHANGED <<kind, phase, child, kick, timer, session, held, frame, intact, dones, reply, world>>

\* The terminated child is reaped; nobody hears of it.
ChildReaped(c) ==
    /\ ~ended
    /\ child[c] = "terminated"
    /\ child' = [child EXCEPT ![c] = "none"]
    /\ UNCHANGED <<kind, phase, kick, timer, session, held, frame, intact, dones, request, reply, world>>

-----------------------------------------------------------------------------
(* The capture. *)

\* Mutant: the frame is asked for although no buffer could be kept.
KeepAcrossDones(c) ==
    /\ phase[c] = "capture" /\ connected /\ dones[c] < MaxDones
    /\ dones' = [dones EXCEPT ![c] = @ + 1]
    /\ frame' = [frame EXCEPT ![c] = TRUE]
    /\ UNCHANGED <<kind, phase, child, kick, timer, session, held, intact, request, reply, world>>

\* The constraints come (again): onCaptureConstraints puts a new buffer in the
\* place of the old one, which nobody frees, and asks for a frame into it, with a
\* callback the first time moved out of the session.  The new frame is created
\* before the old one is destroyed, which the compositor may call an error and
\* drop the connection for.
Constraints(c) ==
    /\ ~ended
    /\ phase[c] = "capture" /\ connected /\ dones[c] < MaxDones
    /\ dones' = [dones EXCEPT ![c] = @ + 1]
    /\ \/ /\ leaked' = leaked
          /\ Finish(c, Failure(c))               \* empty size or no format
          /\ UNCHANGED <<intact, connected>>
       \/ /\ leaked' = leaked + (IF held[c] THEN 1 ELSE 0)
          /\ Finish(c, Failure(c))               \* the allocation fails
          /\ UNCHANGED <<intact, connected>>
       \/ /\ leaked' = leaked + (IF held[c] THEN 1 ELSE 0)
          /\ held' = [held EXCEPT ![c] = TRUE]
          /\ frame' = [frame EXCEPT ![c] = TRUE]
          /\ intact' = [intact EXCEPT ![c] = (dones[c] = 0)]
          /\ connected' \in IF frame[c] THEN BOOLEAN ELSE {connected}
          /\ UNCHANGED <<phase, timer, session, request, reply>>
    /\ UNCHANGED <<kind, child, kick, ended>>

\* savePng: the picture is written, or its format, the runtime directory or the
\* file is not to be had.
Saved == {"success", "other"}

\* sampleColor: the pixel under the point, unless the format or the size is wrong.
Sampled == {"success", "cancelled"}

\* The frame is ready and its callback writes the picture or samples the pixel.
\* PickColor's callback that was moved from has no operation to answer.
FrameReady(c) ==
    /\ ~ended
    /\ frame[c] /\ connected
    /\ IF kind[c] \in Picks /\ ~intact[c]
       THEN /\ ended' = TRUE
            /\ frame' = [frame EXCEPT ![c] = FALSE]
            /\ UNCHANGED <<phase, timer, session, held, request, reply>>
       ELSE /\ \E answer \in IF kind[c] \in Picks THEN Sampled ELSE Saved : Finish(c, answer)
            /\ UNCHANGED ended
    /\ UNCHANGED <<child, captureKeeps, leaked, connected>>

\* The frame fails, for whatever reason.
FrameFailed(c) ==
    /\ ~ended
    /\ frame[c] /\ connected
    /\ Finish(c, Failure(c))
    /\ UNCHANGED <<child, captureKeeps, world>>

\* Five seconds after the capture began.
CaptureTimeout(c) ==
    /\ ~ended
    /\ timer[c]
    /\ Finish(c, Failure(c))
    /\ UNCHANGED <<child, captureKeeps, world>>

\* The compositor hangs up.
Disconnect ==
    /\ ~ended
    /\ connected
    /\ connected' = FALSE
    /\ UNCHANGED <<callVars, leaked, ended>>

\* The connection's watch notices: markDisconnected() quits the loop and main
\* returns, with the calls unanswered that no callback before it has answered.
QuitDisconnected ==
    /\ ~ended
    /\ ~connected
    /\ ended' = TRUE
    /\ UNCHANGED <<callVars, leaked, connected>>

-----------------------------------------------------------------------------
Step(c) ==
    \/ \E k \in Kinds : Receive(c, k)
    \/ ScreenshotToolExits(c) \/ ColorToolExits(c) \/ ChooserExits(c) \/ SlurpExits(c)
    \/ CaptureFirstOutput(c) \/ RequestClose(c)
    \/ RequestRemoved(c) \/ ChildReaped(c)
    \/ Constraints(c) \/ FrameReady(c) \/ FrameFailed(c) \/ CaptureTimeout(c)

Next == Disconnect \/ QuitDisconnected \/ \E c \in Calls : Step(c)

\* As long as it runs, the event loop fires every timer that has expired, and it
\* quits when the compositor has hung up.  Nothing is assumed of the compositor, the
\* frontend or the user.
Fairness ==
    /\ WF_vars(QuitDisconnected)
    /\ \A c \in Calls :
        /\ WF_vars(CaptureFirstOutput(c))
        /\ WF_vars(CaptureTimeout(c))
        /\ WF_vars(RequestRemoved(c))

Spec == Init /\ [][Next]_vars
FairSpec == Spec /\ Fairness

-----------------------------------------------------------------------------
(* Properties. *)

\* An operation that has answered holds nothing any more: no timer, no child still
\* wired to it, no capture, and its Request is on its way out (finish, cancel).
FinishedHoldsNothing ==
    \A c \in Calls : phase[c] = "done" =>
        /\ ~timer[c] /\ child[c] # "running"
        /\ ~session[c] /\ ~held[c] /\ ~frame[c]
        /\ reply[c] # "none" /\ request[c] \in {"doomed", "removed"}

\* Well typed; a frame is outstanding only within a capture that has the session
\* and the buffer it refers to and a timer to end it (startCapture,
\* onCaptureConstraints); and as long as constraints come once per capture, no
\* buffer is left behind on any path (CaptureState: "destroyed when the operation
\* completes").
FrameHasItsBuffer ==
    /\ TypeOK
    /\ \A c \in Calls :
          /\ frame[c] => phase[c] = "capture" /\ held[c]
          /\ phase[c] = "capture" => session[c] /\ timer[c]
    /\ (\A c \in Calls : dones[c] <= 1) => leaked = 0

\* A call that needs no user any more is answered, even when the compositor is silent
\* (the zero-delay and the 5 s timers); only the end of the process, which a
\* compositor that hangs up brings about, leaves it without an answer.
CaptureIsAnswered ==
    \A c \in Calls : phase[c] \in {"kick", "capture"} ~> phase[c] = "done" \/ ended

\* The call as PortalRequest sees it.
callStatus == [c \in Calls |->
    CASE phase[c] = "idle" -> "idle"
      [] phase[c] \in {"child", "kick", "capture"} -> "pending"
      [] phase[c] = "done" -> "answered"]
callObject == [c \in Calls |-> IF request[c] \in {"exported", "doomed"} THEN "exported" ELSE "absent"]

Call == INSTANCE PortalRequest WITH status <- callStatus, object <- callObject, alive <- ~ended

\* Every Screenshot and PickColor call implements the promise of a portal call.
CallIsPortalRequest == Call!Spec

\* startCapture: "onComplete is called on success": the callback of an outstanding
\* frame can be called.
FrameHasItsCallback ==
    \A c \in Calls : frame[c] /\ kind[c] \in Picks => intact[c]
=============================================================================
