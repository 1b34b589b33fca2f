--------------------------- MODULE ScreenshotProofs ---------------------------
(***************************************************************************)
(* Proofs about Screenshot for every set of calls and any number of        *)
(* constraints events: what an operation holds when it has answered, what  *)
(* an outstanding frame rests on, and that every step of a call is a step  *)
(* of PortalRequest.                                                       *)
(***************************************************************************)
EXTENDS Screenshot, TLAPS

Waiting(c) == phase[c] \in {"child", "kick", "capture"}

\* A call that has not arrived yet has no child, no Request and no answer.
UnreceivedHasNothing ==
    \A c \in Calls : phase[c] = "idle" =>
        /\ child[c] = "none" /\ request[c] = "none" /\ reply[c] = "none"

\* What each phase is waiting for is there, and nothing of another phase is: the
\* running child, the captureFirstOutput timer, the session with its 5 s timer.
PhaseShape ==
    \A c \in Calls :
        /\ child[c] = "running" => phase[c] = "child"
        /\ kick[c] => phase[c] \in {"kick", "done"}
        /\ timer[c] <=> phase[c] = "capture"
        /\ session[c] <=> phase[c] = "capture"
        /\ held[c] => phase[c] = "capture" /\ dones[c] > 0
        /\ frame[c] => held[c]

\* The Request is exported as long as the call waits, and dropped after the answer.
RequestShape ==
    \A c \in Calls :
        /\ request[c] = "exported" <=> Waiting(c)
        /\ request[c] \in {"doomed", "removed"} <=> phase[c] = "done"
        /\ reply[c] = "none" <=> phase[c] # "done"

\* No buffer is left behind unless a capture's constraints come twice.
LeaksNeedTwoDones == (\A c \in Calls : dones[c] <= 1) => leaked = 0

IInv ==
    /\ TypeOK
    /\ UnreceivedHasNothing
    /\ PhaseShape
    /\ RequestShape
    /\ LeaksNeedTwoDones

-----------------------------------------------------------------------------
(* What the callbacks are made of. *)

Answers == {"success", "cancelled", "other"}

\* The answer to a failed capture is an answer.
LEMMA FailureAnswers == \A c \in Calls : Failure(c) \in Answers
    BY DEF Failure, Answers

\* Operation::finish keeps the types of what it changes, and leaves the operation
\* with nothing but its Request, whatever its child and its kick were.
LEMMA FinishEffect ==
    ASSUME IInv, NEW c \in Calls, NEW answer \in Answers, Finish(c, answer),
           child'[c] # "running",
           \A d \in Calls : d # c => child'[d] = child[d] /\ dones'[d] = dones[d] /\ (kick'[d] => kick[d]),
           kick'[c] => kick[c]
    PROVE  /\ phase' \in [Calls -> {"idle", "child", "kick", "capture", "done"}]
           /\ timer' \in [Calls -> BOOLEAN]
           /\ session' \in [Calls -> BOOLEAN]
           /\ held' \in [Calls -> BOOLEAN]
           /\ frame' \in [Calls -> BOOLEAN]
           /\ request' \in [Calls -> {"none", "exported", "doomed", "removed"}]
           /\ reply' \in [Calls -> {"none", "success", "cancelled", "other"}]
           /\ UnreceivedHasNothing'
           /\ PhaseShape'
           /\ RequestShape'
<1> USE DEF IInv, TypeOK, Finish, DestroyCapture
<1>1. /\ phase' \in [Calls -> {"idle", "child", "kick", "capture", "done"}]
      /\ timer' \in [Calls -> BOOLEAN]
      /\ session' \in [Calls -> BOOLEAN]
      /\ held' \in [Calls -> BOOLEAN]
      /\ frame' \in [Calls -> BOOLEAN]
    OBVIOUS
<1>2. /\ request' \in [Calls -> {"none", "exported", "doomed", "removed"}]
      /\ reply' \in [Calls -> {"none", "success", "cancelled", "other"}]
    BY DEF Answers
<1>3. UnreceivedHasNothing'
    BY DEF UnreceivedHasNothing
<1>4. PhaseShape'
    <2>1. ~kick'[c] \/ phase'[c] = "done"
        OBVIOUS
    <2> QED BY <2>1 DEF PhaseShape
<1>5. RequestShape'
    BY DEF RequestShape, Waiting, Answers
<1> QED BY <1>1, <1>2, <1>3, <1>4, <1>5

\* startCapture, from the phase of a call whose child, if it had one, is gone.
LEMMA CaptureEffect ==
    ASSUME IInv, NEW c \in Calls, StartCapture(c), Waiting(c), phase[c] # "capture",
           UNCHANGED dones, child'[c] # "running",
           \A d \in Calls : d # c => child'[d] = child[d] /\ (kick'[d] => kick[d]),
           ~kick'[c]
    PROVE  /\ phase' \in [Calls -> {"idle", "child", "kick", "capture", "done"}]
           /\ timer' \in [Calls -> BOOLEAN]
           /\ session' \in [Calls -> BOOLEAN]
           /\ held' \in [Calls -> BOOLEAN]
           /\ frame' \in [Calls -> BOOLEAN]
           /\ request' \in [Calls -> {"none", "exported", "doomed", "removed"}]
           /\ reply' \in [Calls -> {"none", "success", "cancelled", "other"}]
           /\ UnreceivedHasNothing'
           /\ PhaseShape'
           /\ RequestShape'
<1>1. CASE Finish(c, Failure(c))
    BY <1>1, FailureAnswers, FinishEffect
<1>2. CASE ~Finish(c, Failure(c))
    <2> USE <1>2 DEF IInv, TypeOK, StartCapture
    <2>1. UnreceivedHasNothing'
        BY DEF UnreceivedHasNothing
    <2>2. PhaseShape'
        BY DEF PhaseShape
    <2>3. RequestShape'
        BY DEF RequestShape, Waiting
    <2> QED BY <2>1, <2>2, <2>3
<1> QED BY <1>1, <1>2

\* A call that begins to wait for its tool, its chooser or its timer.
LEMMA AwaitEffect ==
    ASSUME IInv, NEW c \in Calls, NEW what \in {"child", "kick"}, Await(c, what), phase[c] = "idle",
           UNCHANGED dones,
           child'[c] = "running" => what = "child", kick'[c] => what = "kick",
           \A d \in Calls : d # c => child'[d] = child[d] /\ kick'[d] = kick[d]
    PROVE  /\ phase' \in [Calls -> {"idle", "child", "kick", "capture", "done"}]
           /\ request' \in [Calls -> {"none", "exported", "doomed", "removed"}]
           /\ UnreceivedHasNothing'
           /\ PhaseShape'
           /\ RequestShape'
<1> USE DEF IInv, TypeOK, Await
<1>1. UnreceivedHasNothing'
    BY DEF UnreceivedHasNothing
<1>2. PhaseShape'
    BY DEF PhaseShape
<1>3. RequestShape'
    BY DEF RequestShape, UnreceivedHasNothing, Waiting
<1> QED BY <1>1, <1>2, <1>3

-----------------------------------------------------------------------------
(* One callback. *)

\* Leaks stay away as long as neither they nor the constraints counts change.
LEMMA LeaksKept ==
    ASSUME LeaksNeedTwoDones, UNCHANGED <<leaked, dones>>
    PROVE  LeaksNeedTwoDones'
    BY DEF LeaksNeedTwoDones

\* A call arrives.
LEMMA ReceiveInductive ==
    ASSUME IInv, NEW c \in Calls, NEW k \in Kinds, Receive(c, k)
    PROVE  IInv'
<1>0. TypeOK /\ phase[c] = "idle" /\ child[c] = "none" /\ ~kick[c] /\ LeaksNeedTwoDones'
    <2>1. LeaksNeedTwoDones'
        BY LeaksKept DEF IInv, Receive, world
    <2> QED BY <2>1 DEF IInv, Receive, UnreceivedHasNothing, PhaseShape, TypeOK
<1>1. /\ kind' \in [Calls -> Kinds \cup {"none"}]
      /\ UNCHANGED <<intact, dones, leaked, connected, ended>>
    BY <1>0 DEF Receive, world, TypeOK
<1>2. ASSUME NEW failure \in {"other", "cancelled"}, RunProcess(c, failure)
      PROVE  IInv'
    <2>1. UNCHANGED kick /\ child' \in [Calls -> {"none", "running", "terminated"}]
        BY <1>0, <1>2 DEF RunProcess, TypeOK
    <2>2. CASE child' = [child EXCEPT ![c] = "running"] /\ Await(c, "child")
        <3>1. /\ phase' \in [Calls -> {"idle", "child", "kick", "capture", "done"}]
              /\ request' \in [Calls -> {"none", "exported", "doomed", "removed"}]
              /\ UnreceivedHasNothing' /\ PhaseShape' /\ RequestShape'
            BY <1>0, <1>1, <2>1, <2>2, AwaitEffect DEF TypeOK
        <3>2. UNCHANGED <<timer, session, held, frame, reply>>
            BY <2>2 DEF Await
        <3> QED BY <1>0, <1>1, <2>1, <3>1, <3>2 DEF IInv, TypeOK
    <2>3. CASE Finish(c, failure) /\ UNCHANGED child
        <3>1. failure \in Answers
            BY DEF Answers
        <3> QED BY <1>0, <1>1, <2>1, <2>3, <3>1, FinishEffect DEF IInv, TypeOK
    <2> QED BY <1>2, <2>2, <2>3 DEF RunProcess
<1>3. CASE kick' = [kick EXCEPT ![c] = TRUE] /\ Await(c, "kick") /\ UNCHANGED child
    <2>1. /\ phase' \in [Calls -> {"idle", "child", "kick", "capture", "done"}]
          /\ request' \in [Calls -> {"none", "exported", "doomed", "removed"}]
          /\ UnreceivedHasNothing' /\ PhaseShape' /\ RequestShape'
        BY <1>0, <1>1, <1>3, AwaitEffect DEF TypeOK
    <2>2. UNCHANGED <<timer, session, held, frame, reply>>
        BY <1>3 DEF Await
    <2> QED BY <1>0, <1>1, <1>3, <2>1, <2>2 DEF IInv, TypeOK
<1> QED BY <1>2, <1>3 DEF Receive, TakeScreenshot, PickColor

\* A child has exited and its callback answers, or starts the capture.
LEMMA ExitInductive ==
    ASSUME IInv, NEW c \in Calls, NEW tools \in SUBSET Kinds, Exits(c, tools),
           (\E answer \in Answers : Finish(c, answer)) \/ StartCapture(c)
    PROVE  IInv'
<1>0. TypeOK /\ Waiting(c) /\ phase[c] = "child" /\ LeaksNeedTwoDones' /\ ~kick[c]
    <2>1. LeaksNeedTwoDones'
        BY LeaksKept DEF IInv, Exits, captureKeeps, world
    <2> QED BY <2>1 DEF IInv, Exits, Waiting, PhaseShape
<1>1. /\ child' = [child EXCEPT ![c] = "none"]
      /\ child' \in [Calls -> {"none", "running", "terminated"}]
      /\ UNCHANGED <<kind, kick, intact, dones, leaked, connected, ended>>
    BY <1>0 DEF Exits, captureKeeps, world, TypeOK
<1>2. /\ child'[c] = "none"
      /\ \A d \in Calls : d # c => child'[d] = child[d]
    BY <1>0, <1>1 DEF TypeOK
<1>3. CASE \E answer \in Answers : Finish(c, answer)
    BY <1>0, <1>1, <1>2, <1>3, FinishEffect DEF IInv, TypeOK
<1>4. CASE StartCapture(c)
    BY <1>0, <1>1, <1>2, <1>4, CaptureEffect DEF IInv, TypeOK
<1> QED BY <1>3, <1>4

\* An operation that finishes from one of its other callbacks.
LEMMA FinishInductive ==
    ASSUME IInv, NEW c \in Calls, NEW answer \in Answers, Finish(c, answer),
           child' \in [Calls -> {"none", "running", "terminated"}], child'[c] # "running",
           \A d \in Calls : d # c => child'[d] = child[d],
           UNCHANGED <<captureKeeps, world>>
    PROVE  IInv'
<1>0. TypeOK /\ LeaksNeedTwoDones'
    BY LeaksKept DEF IInv, captureKeeps, world
<1>1. UNCHANGED <<kind, kick, intact, dones, leaked, connected, ended>>
    BY DEF captureKeeps, world
<1> QED BY <1>0, <1>1, FinishEffect DEF IInv, TypeOK

\* The captureFirstOutput timer.
LEMMA KickInductive ==
    ASSUME IInv, NEW c \in Calls, CaptureFirstOutput(c)
    PROVE  IInv'
<1>0. TypeOK /\ LeaksNeedTwoDones'
    BY LeaksKept DEF IInv, CaptureFirstOutput, world
<1>1. /\ kick' = [kick EXCEPT ![c] = FALSE]
      /\ kick' \in [Calls -> BOOLEAN]
      /\ UNCHANGED <<kind, child, intact, dones, leaked, connected, ended>>
      /\ phase[c] \in {"kick", "done"}
    BY <1>0 DEF CaptureFirstOutput, world, TypeOK, IInv, PhaseShape
<1>2. ~kick'[c] /\ \A d \in Calls : kick'[d] => kick[d]
    BY <1>0, <1>1 DEF TypeOK
<1>3. CASE phase[c] = "done"
    <2>1. UNCHANGED <<phase, timer, session, held, frame, request, reply>>
        BY <1>3 DEF CaptureFirstOutput
    <2> QED BY <1>0, <1>1, <1>2, <2>1
            DEF IInv, TypeOK, UnreceivedHasNothing, PhaseShape, RequestShape, Waiting
<1>4. CASE phase[c] = "kick"
    <2>1. StartCapture(c) /\ Waiting(c) /\ phase[c] # "capture" /\ child[c] # "running"
        BY <1>4 DEF CaptureFirstOutput, Waiting, IInv, PhaseShape
    <2> QED BY <1>0, <1>1, <1>2, <2>1, CaptureEffect DEF IInv, TypeOK
<1> QED BY <1>1, <1>3, <1>4

\* The constraints come: the operation finishes, or a new buffer takes the place of
\* the old one, which only a capture that has had constraints before can have.
LEMMA ConstraintsInductive ==
    ASSUME IInv, NEW c \in Calls, Constraints(c)
    PROVE  IInv'
<1>0. TypeOK /\ PhaseShape /\ LeaksNeedTwoDones
    BY DEF IInv
<1>1. /\ phase[c] = "capture" /\ dones[c] \in 0..MaxDones /\ dones[c] < MaxDones
      /\ dones' = [dones EXCEPT ![c] = @ + 1]
      /\ UNCHANGED <<kind, child, kick, ended>>
    BY <1>0 DEF Constraints, TypeOK
<1>2. /\ dones' \in [Calls -> 0..MaxDones]
      /\ dones'[c] = dones[c] + 1
      /\ \A d \in Calls : d # c => dones'[d] = dones[d]
    <2>1. dones[c] + 1 \in 0..MaxDones
        BY <1>1, ScreenshotAssumption
    <2> QED BY <1>0, <1>1, <2>1 DEF TypeOK
<1>3. child[c] # "running" /\ Waiting(c)
    BY <1>0, <1>1 DEF PhaseShape, Waiting
<1>4. leaked' \in Nat /\ leaked' \in {leaked, leaked + (IF held[c] THEN 1 ELSE 0)}
    <2>1. leaked' = leaked \/ leaked' = leaked + (IF held[c] THEN 1 ELSE 0)
        BY DEF Constraints
    <2> QED BY <1>0, <2>1 DEF TypeOK
<1>5. LeaksNeedTwoDones'
    <2> SUFFICES ASSUME \A d \in Calls : dones'[d] <= 1
                 PROVE  leaked' = 0
        BY DEF LeaksNeedTwoDones
    <2>1. dones[c] = 0 /\ \A d \in Calls : dones[d] <= 1
        BY <1>0, <1>1, <1>2 DEF TypeOK
    <2>2. leaked = 0 /\ ~held[c]
        BY <1>0, <2>1 DEF LeaksNeedTwoDones, PhaseShape
    <2> QED BY <1>4, <2>2
<1>6. CASE Finish(c, Failure(c)) /\ UNCHANGED <<intact, connected>>
    BY <1>0, <1>1, <1>2, <1>3, <1>4, <1>5, <1>6, FailureAnswers, FinishEffect DEF IInv, TypeOK
<1>7. CASE /\ held' = [held EXCEPT ![c] = TRUE]
           /\ frame' = [frame EXCEPT ![c] = TRUE]
           /\ intact' = [intact EXCEPT ![c] = (dones[c] = 0)]
           /\ connected' \in IF frame[c] THEN BOOLEAN ELSE {connected}
           /\ UNCHANGED <<phase, timer, session, request, reply>>
    <2>1. TypeOK'
        <3>1. connected' \in BOOLEAN /\ (dones[c] = 0) \in BOOLEAN
            BY <1>0, <1>7 DEF TypeOK
        <3>2. intact' \in [Calls -> BOOLEAN]
            BY <1>0, <1>7, <3>1 DEF TypeOK
        <3> QED BY <1>0, <1>1, <1>2, <1>4, <1>7, <3>1, <3>2 DEF TypeOK
    <2>2. UnreceivedHasNothing' /\ RequestShape'
        BY <1>0, <1>1, <1>7 DEF IInv, UnreceivedHasNothing, RequestShape, Waiting, TypeOK
    <2>3. PhaseShape'
        BY <1>0, <1>1, <1>2, <1>7 DEF PhaseShape, TypeOK
    <2> QED BY <1>5, <2>1, <2>2, <2>3 DEF IInv
<1> QED BY <1>6, <1>7 DEF Constraints

\* The frame is ready: the picture is answered, or PickColor's empty callback is
\* called and takes the process with it.
LEMMA ReadyInductive ==
    ASSUME IInv, NEW c \in Calls, FrameReady(c)
    PROVE  IInv'
<1>0. TypeOK /\ LeaksNeedTwoDones' /\ phase[c] = "capture"
    BY LeaksKept DEF IInv, FrameReady, captureKeeps, PhaseShape
<1>1. UNCHANGED <<kind, child, kick, intact, dones, leaked, connected>>
    BY DEF FrameReady, captureKeeps
<1>2. CASE /\ ended' = TRUE
           /\ frame' = [frame EXCEPT ![c] = FALSE]
           /\ UNCHANGED <<phase, timer, session, held, request, reply>>
    BY <1>0, <1>1, <1>2 DEF IInv, TypeOK, UnreceivedHasNothing, PhaseShape, RequestShape, Waiting
<1>3. CASE (\E answer \in Answers : Finish(c, answer)) /\ UNCHANGED ended
    <2>1. child' \in [Calls -> {"none", "running", "terminated"}] /\ child'[c] # "running"
        BY <1>0, <1>1 DEF IInv, PhaseShape, TypeOK
    <2> QED BY <1>1, <1>3, <2>1, FinishInductive DEF captureKeeps, world
<1> QED BY <1>2, <1>3 DEF FrameReady, Sampled, Saved, Answers

\* Every callback keeps the invariant.
LEMMA NextInductive == IInv /\ [Next]_vars => IInv'
<1> SUFFICES ASSUME IInv, [Next]_vars PROVE IInv'
    OBVIOUS
<1>1. ASSUME NEW c \in Calls, Step(c) PROVE IInv'
    <2>1. ASSUME NEW k \in Kinds, Receive(c, k) PROVE IInv'
        BY <2>1, ReceiveInductive
    <2>2. CASE ScreenshotToolExits(c)
        BY <2>2, ExitInductive DEF ScreenshotToolExits, Kinds, Picks, Answers
    <2>3. CASE ColorToolExits(c)
        BY <2>3, ExitInductive DEF ColorToolExits, ColorAnswers, Kinds, Picks, Answers
    <2>4. CASE ChooserExits(c)
        BY <2>4, ExitInductive DEF ChooserExits, Kinds, Picks, Answers
    <2>5. CASE SlurpExits(c)
        BY <2>5, ExitInductive DEF SlurpExits, CaptureAndSample, Kinds, Picks, Answers
    <2>6. CASE CaptureFirstOutput(c)
        BY <2>6, KickInductive
    <2>7. CASE RequestClose(c)
        <3>1. /\ child' \in [Calls -> {"none", "running", "terminated"}]
              /\ child'[c] # "running"
              /\ \A d \in Calls : d # c => child'[d] = child[d]
            BY <2>7 DEF RequestClose, IInv, TypeOK
        <3> QED BY <2>7, <3>1, FinishInductive DEF RequestClose, Answers
    <2>8. CASE RequestRemoved(c)
        <3>1. LeaksNeedTwoDones'
            BY <2>8, LeaksKept DEF IInv, RequestRemoved, world
        <3> QED BY <2>8, <3>1
                DEF RequestRemoved, world, IInv, TypeOK, UnreceivedHasNothing, PhaseShape, RequestShape, Waiting
    <2>9. CASE ChildReaped(c)
        <3>1. LeaksNeedTwoDones'
            BY <2>9, LeaksKept DEF IInv, ChildReaped, world
        <3> QED BY <2>9, <3>1
                DEF ChildReaped, world, IInv, TypeOK, UnreceivedHasNothing, PhaseShape, RequestShape, Waiting
    <2>10. CASE Constraints(c)
        BY <2>10, ConstraintsInductive
    <2>11. CASE FrameReady(c)
        BY <2>11, ReadyInductive
    <2>12. CASE FrameFailed(c)
        <3>1. child' \in [Calls -> {"none", "running", "terminated"}] /\ child'[c] # "running" /\ UNCHANGED child
            BY <2>12 DEF FrameFailed, IInv, PhaseShape, TypeOK
        <3> QED BY <2>12, <3>1, FinishInductive, FailureAnswers DEF FrameFailed, captureKeeps
    <2>13. CASE CaptureTimeout(c)
        <3>1. child' \in [Calls -> {"none", "running", "terminated"}] /\ child'[c] # "running" /\ UNCHANGED child
            BY <2>13 DEF CaptureTimeout, IInv, PhaseShape, TypeOK
        <3> QED BY <2>13, <3>1, FinishInductive, FailureAnswers DEF CaptureTimeout, captureKeeps
    <2> QED BY <1>1, <2>1, <2>2, <2>3, <2>4, <2>5, <2>6, <2>7, <2>8, <2>9, <2>10, <2>11, <2>12, <2>13
            DEF Step
<1>2. CASE Disconnect
    BY <1>2 DEF Disconnect, callVars, IInv, TypeOK, UnreceivedHasNothing, PhaseShape, RequestShape,
                Waiting, LeaksNeedTwoDones
<1>4. CASE QuitDisconnected
    BY <1>4 DEF QuitDisconnected, callVars, IInv, TypeOK, UnreceivedHasNothing, PhaseShape, RequestShape,
                Waiting, LeaksNeedTwoDones
<1>3. CASE UNCHANGED vars
    BY <1>3 DEF vars, callVars, IInv, TypeOK, UnreceivedHasNothing, PhaseShape, RequestShape,
                Waiting, LeaksNeedTwoDones
<1> QED BY <1>1, <1>2, <1>4, <1>3 DEF Next

\* Nothing has arrived at first.
LEMMA InitInductive == Init => IInv
<1> SUFFICES ASSUME Init PROVE IInv
    OBVIOUS
<1>0. 0 \in 0..MaxDones
    BY ScreenshotAssumption
<1>1. TypeOK
    BY <1>0 DEF Init, TypeOK
<1>2. UnreceivedHasNothing /\ PhaseShape /\ RequestShape /\ LeaksNeedTwoDones
    BY DEF Init, UnreceivedHasNothing, PhaseShape, RequestShape, Waiting, LeaksNeedTwoDones
<1> QED BY <1>1, <1>2 DEF IInv

-----------------------------------------------------------------------------
(* What follows. *)

\* The inductive invariant: every phase has exactly what it waits for, the Request
\* goes with the answer, and only a second set of constraints leaks a buffer.
THEOREM SpecIInv == Spec => []IInv
    BY InitInductive, NextInductive, PTL DEF Spec

\* A Screenshot or PickColor call that has answered has no timer, no child that
\* could still call it, no session, buffer or frame, and a Request that goes
\* (Operation::finish, cancel).
THEOREM ScreenshotFinishedHoldsNothing == Spec => []FinishedHoldsNothing
<1>1. IInv => FinishedHoldsNothing
    BY DEF IInv, PhaseShape, RequestShape, FinishedHoldsNothing, TypeOK
<1> QED BY <1>1, SpecIInv, PTL

\* An outstanding frame has its session, its buffer and a timer to end it, and no
\* buffer leaks on any path while constraints come once per capture.
THEOREM ScreenshotFrameHasItsBuffer == Spec => []FrameHasItsBuffer
<1>1. IInv => FrameHasItsBuffer
    BY DEF IInv, PhaseShape, LeaksNeedTwoDones, FrameHasItsBuffer
<1> QED BY <1>1, SpecIInv, PTL

-----------------------------------------------------------------------------
(* A call is a portal request. *)

\* How PortalRequest sees a call, by its phase and its Request.
StatusOf(p) == CASE p = "idle" -> "idle"
                 [] p \in {"child", "kick", "capture"} -> "pending"
                 [] p = "done" -> "answered"
ObjectOf(r) == IF r \in {"exported", "doomed"} THEN "exported" ELSE "absent"

\* A call that goes from waiting to waiting, or stays as it is, has not moved.
LEMMA Stutters ==
    ASSUME TypeOK, TypeOK', NEW c \in Calls,
           \A d \in Calls : d # c => phase'[d] = phase[d] /\ request'[d] = request[d],
           StatusOf(phase'[c]) = StatusOf(phase[c]), ObjectOf(request'[c]) = ObjectOf(request[c])
    PROVE  UNCHANGED <<callStatus, callObject>>
<1>1. \A d \in Calls : StatusOf(phase'[d]) = StatusOf(phase[d]) /\ ObjectOf(request'[d]) = ObjectOf(request[d])
    OBVIOUS
<1>2. /\ callStatus = [d \in Calls |-> StatusOf(phase[d])]
      /\ callObject = [d \in Calls |-> ObjectOf(request[d])]
      /\ callStatus' = [d \in Calls |-> StatusOf(phase'[d])]
      /\ callObject' = [d \in Calls |-> ObjectOf(request'[d])]
    BY DEF callStatus, callObject, StatusOf, ObjectOf
<1> HIDE DEF StatusOf, ObjectOf
<1> QED BY <1>1, <1>2

\* A call that moves is a call that moves in PortalRequest, and no other does.
LEMMA Moves ==
    ASSUME TypeOK, TypeOK', NEW c \in Calls,
           \A d \in Calls : d # c => phase'[d] = phase[d] /\ request'[d] = request[d]
    PROVE  /\ callStatus' = [callStatus EXCEPT ![c] = StatusOf(phase'[c])]
           /\ callObject' = [callObject EXCEPT ![c] = ObjectOf(request'[c])]
           /\ callStatus[c] = StatusOf(phase[c])
           /\ callObject[c] = ObjectOf(request[c])
<1>1. /\ callStatus = [d \in Calls |-> StatusOf(phase[d])]
      /\ callObject = [d \in Calls |-> ObjectOf(request[d])]
      /\ callStatus' = [d \in Calls |-> StatusOf(phase'[d])]
      /\ callObject' = [d \in Calls |-> ObjectOf(request'[d])]
    BY DEF callStatus, callObject, StatusOf, ObjectOf
<1> HIDE DEF StatusOf, ObjectOf
<1> QED BY <1>1

\* The steps of one call, as PortalRequest names them: arriving, being answered,
\* waiting on, being withdrawn.
LEMMA CallStep ==
    ASSUME IInv, IInv', NEW c \in Calls, ~ended,
           \A d \in Calls : d # c => phase'[d] = phase[d] /\ request'[d] = request[d],
           UNCHANGED ended,
           \/ phase[c] = "idle" /\ phase'[c] # "idle" /\ request'[c] \in {"exported", "doomed"}
           \/ Waiting(c) /\ phase'[c] = "done" /\ request'[c] = "doomed"
           \/ StatusOf(phase'[c]) = StatusOf(phase[c]) /\ ObjectOf(request'[c]) = ObjectOf(request[c])
           \/ phase'[c] = phase[c] /\ request[c] = "doomed" /\ request'[c] = "removed"
    PROVE  [Call!Next]_(Call!vars)
<1>0. TypeOK /\ TypeOK' /\ RequestShape /\ phase[c] \in {"idle", "child", "kick", "capture", "done"}
      /\ phase'[c] \in {"idle", "child", "kick", "capture", "done"}
    BY DEF IInv, TypeOK
<1>1. /\ callStatus' = [callStatus EXCEPT ![c] = StatusOf(phase'[c])]
      /\ callObject' = [callObject EXCEPT ![c] = ObjectOf(request'[c])]
      /\ callStatus[c] = StatusOf(phase[c])
      /\ callObject[c] = ObjectOf(request[c])
    BY <1>0, Moves
<1>2. CASE phase[c] = "idle" /\ phase'[c] # "idle" /\ request'[c] \in {"exported", "doomed"}
    <2>1. callStatus[c] = "idle" /\ StatusOf(phase'[c]) \in {"pending", "answered"}
        BY <1>0, <1>1, <1>2 DEF StatusOf
    <2>2. ObjectOf(request'[c]) = "exported"
        BY <1>2 DEF ObjectOf
    <2> QED BY <1>1, <2>1, <2>2 DEF Call!Next, Call!Receive
<1>3. CASE Waiting(c) /\ phase'[c] = "done" /\ request'[c] = "doomed"
    <2>1. callStatus[c] = "pending" /\ StatusOf(phase'[c]) = "answered"
        BY <1>1, <1>3 DEF StatusOf, Waiting
    <2>2. ObjectOf(request'[c]) = ObjectOf(request[c])
        BY <1>0, <1>3 DEF ObjectOf, RequestShape
    <2>3. callObject' = callObject
        BY <1>1, <2>2 DEF callObject
    <2> QED BY <1>1, <2>1, <2>3 DEF Call!Next, Call!Answer
<1>4. CASE StatusOf(phase'[c]) = StatusOf(phase[c]) /\ ObjectOf(request'[c]) = ObjectOf(request[c])
    BY <1>0, <1>4, Stutters DEF Call!vars
<1>5. CASE phase'[c] = phase[c] /\ request[c] = "doomed" /\ request'[c] = "removed"
    <2>1. callStatus[c] = "answered" /\ callObject[c] = "exported" /\ ObjectOf(request'[c]) = "absent"
        BY <1>0, <1>1, <1>5 DEF StatusOf, ObjectOf, RequestShape
    <2>2. callStatus' = callStatus
        BY <1>1, <1>5 DEF callStatus
    <2> QED BY <1>1, <2>1, <2>2 DEF Call!Next, Call!Withdraw
<1> QED BY <1>2, <1>3, <1>4, <1>5

\* What finishing, awaiting and capturing do to a call's phase and Request.
LEMMA FinishMoves ==
    ASSUME TypeOK, NEW c \in Calls, NEW answer, Finish(c, answer)
    PROVE  /\ phase'[c] = "done" /\ request'[c] = "doomed"
           /\ \A d \in Calls : d # c => phase'[d] = phase[d] /\ request'[d] = request[d]
    BY DEF Finish, TypeOK

LEMMA CaptureMoves ==
    ASSUME TypeOK, NEW c \in Calls, StartCapture(c)
    PROVE  /\ \A d \in Calls : d # c => phase'[d] = phase[d] /\ request'[d] = request[d]
           /\ \/ phase'[c] = "done" /\ request'[c] = "doomed"
              \/ phase'[c] = "capture" /\ request'[c] = request[c]
    BY DEF StartCapture, Finish, TypeOK

LEMMA AwaitMoves ==
    ASSUME TypeOK, NEW c \in Calls, NEW what, Await(c, what)
    PROVE  /\ phase'[c] = what /\ request'[c] = "exported"
           /\ \A d \in Calls : d # c => phase'[d] = phase[d] /\ request'[d] = request[d]
    BY DEF Await, TypeOK

\* Every callback is at most one step of PortalRequest: a call is answered once,
\* while its Request is exported, and the Request goes after the answer.
LEMMA CallSteps == IInv /\ [Next]_vars => [Call!Next]_(Call!vars)
<1> SUFFICES ASSUME IInv, [Next]_vars PROVE [Call!Next]_(Call!vars)
    OBVIOUS
<1>0. TypeOK /\ IInv'
    BY NextInductive DEF IInv
<1>1. ASSUME NEW c \in Calls, Step(c) PROVE [Call!Next]_(Call!vars)
    <2>1. ASSUME NEW k \in Kinds, Receive(c, k) PROVE [Call!Next]_(Call!vars)
        <3>1. ~ended /\ phase[c] = "idle" /\ UNCHANGED ended
            BY <2>1 DEF Receive, world
        <3>2. \/ \E answer : Finish(c, answer)
              \/ \E what \in {"child", "kick"} : Await(c, what)
            BY <2>1 DEF Receive, TakeScreenshot, PickColor, RunProcess
        <3>3. CASE \E answer : Finish(c, answer)
            BY <1>0, <3>1, <3>3, FinishMoves, CallStep
        <3>4. CASE \E what \in {"child", "kick"} : Await(c, what)
            BY <1>0, <3>1, <3>4, AwaitMoves, CallStep
        <3> QED BY <3>2, <3>3, <3>4
    <2>2. ASSUME Waiting(c), ~ended, UNCHANGED ended, NEW answer, Finish(c, answer)
          PROVE  [Call!Next]_(Call!vars)
        BY <1>0, <2>2, FinishMoves, CallStep
    <2>3. ASSUME Waiting(c), ~ended, UNCHANGED ended, StartCapture(c) PROVE [Call!Next]_(Call!vars)
        <3>1. \/ phase'[c] = "done" /\ request'[c] = "doomed"
              \/ StatusOf(phase'[c]) = StatusOf(phase[c]) /\ ObjectOf(request'[c]) = ObjectOf(request[c])
            BY <1>0, <2>3, CaptureMoves DEF StatusOf, Waiting
        <3> QED BY <1>0, <2>3, <3>1, CaptureMoves, CallStep
    <2>4. ASSUME NEW tools, Exits(c, tools)
          PROVE  Waiting(c) /\ ~ended /\ UNCHANGED ended
        BY <2>4 DEF Exits, Waiting, world
    <2>5. CASE ScreenshotToolExits(c) \/ ColorToolExits(c) \/ ChooserExits(c) \/ SlurpExits(c)
        BY <2>2, <2>3, <2>4, <2>5
           DEF ScreenshotToolExits, ColorToolExits, ChooserExits, SlurpExits, CaptureAndSample
    <2>6. CASE CaptureFirstOutput(c)
        <3>1. ~ended /\ UNCHANGED ended /\ phase[c] \in {"kick", "done"}
            BY <2>6 DEF CaptureFirstOutput, world, IInv, PhaseShape
        <3>2. CASE phase[c] = "done"
            <4>1. UNCHANGED <<phase, request>>
                BY <2>6, <3>2 DEF CaptureFirstOutput
            <4> QED BY <3>1, <4>1 DEF Call!vars, callStatus, callObject
        <3>3. CASE phase[c] = "kick"
            BY <2>3, <2>6, <3>1, <3>3 DEF CaptureFirstOutput, Waiting
        <3> QED BY <3>1, <3>2, <3>3
    <2>7. CASE RequestClose(c)
        BY <2>2, <2>7 DEF RequestClose, world, IInv, RequestShape
    <2>8. CASE RequestRemoved(c)
        <3>1. ~ended /\ UNCHANGED <<ended, phase>> /\ request[c] = "doomed"
              /\ request' = [request EXCEPT ![c] = "removed"]
            BY <2>8 DEF RequestRemoved, world
        <3>2. /\ request'[c] = "removed"
              /\ \A d \in Calls : d # c => request'[d] = request[d]
            BY <1>0, <3>1 DEF TypeOK
        <3> QED BY <1>0, <3>1, <3>2, CallStep
    <2>9. CASE ChildReaped(c)
        BY <2>9 DEF ChildReaped, world, Call!vars, callStatus, callObject
    <2>10. CASE Constraints(c)
        <3>1. ~ended /\ UNCHANGED ended /\ Waiting(c)
            BY <2>10 DEF Constraints, Waiting
        <3>2. CASE UNCHANGED <<phase, request>>
            BY <3>1, <3>2 DEF Call!vars, callStatus, callObject
        <3> QED BY <2>2, <2>10, <3>1, <3>2 DEF Constraints
    <2>11. CASE FrameReady(c)
        <3>1. ~ended /\ Waiting(c)
            BY <2>11 DEF FrameReady, Waiting, IInv, PhaseShape
        <3>2. CASE ended' = TRUE /\ UNCHANGED <<phase, request>>
            BY <3>1, <3>2 DEF Call!Next, Call!Die, callStatus, callObject
        <3> QED BY <2>2, <2>11, <3>1, <3>2 DEF FrameReady
    <2>12. CASE FrameFailed(c) \/ CaptureTimeout(c)
        BY <2>2, <2>12 DEF FrameFailed, CaptureTimeout, world, Waiting, IInv, PhaseShape
    <2> QED BY <1>1, <2>1, <2>5, <2>6, <2>7, <2>8, <2>9, <2>10, <2>11, <2>12 DEF Step
<1>2. CASE Disconnect \/ UNCHANGED vars
    <2>1. UNCHANGED <<phase, request, ended>>
        BY <1>2 DEF Disconnect, vars, callVars
    <2> QED BY <2>1 DEF Call!vars, callStatus, callObject
<1>3. CASE QuitDisconnected
    BY <1>3 DEF QuitDisconnected, callVars, Call!Next, Call!Die, callStatus, callObject
<1> QED BY <1>1, <1>2, <1>3 DEF Next

\* Every Screenshot and PickColor call is a portal call: at most one answer, a
\* Request exported from the call until after the answer, nothing after the process ended.
\* (The safety part of CallIsPortalRequest.)
THEOREM ScreenshotIsPortalRequest == Spec => Call!Init /\ [][Call!Next]_(Call!vars)
<1>1. Init => Call!Init
    BY DEF Init, Call!Init, callStatus, callObject
<1> QED BY <1>1, CallSteps, SpecIInv, PTL DEF Spec
=============================================================================
