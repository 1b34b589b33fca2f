---------------------------- MODULE CursorCapture ----------------------------
(***************************************************************************)
(* The cursor of a captured source, over the connection: a cursor session  *)
(* with a capture session of its own, whose constraints, frames and buffer *)
(* a small state machine in wayland.cpp keeps, driven by the cursor's      *)
(* events and by the frames of the stream it is shown with.                *)
(***************************************************************************)
EXTENDS WaylandDisplay, SequencesExt, FiniteSets

CONSTANTS
    Pictures,       \* what the cursor may look like
    SizeOf,         \* their sizes
    Nothing,        \* no size, no picture
    MaxChanges,     \* bound: changes of the cursor and other events
    MaxRetries,     \* bound: frames that fail without a reason
    MaxStalls       \* bound: times the compositor stops reading

Sizes == {SizeOf[p] : p \in Pictures}

ASSUME CursorAssumption ==
    /\ Nothing \notin Pictures \cup Sizes
    /\ MaxChanges \in Nat /\ MaxRetries \in Nat /\ MaxStalls \in Nat
    /\ Requests = {"session", "frame", "stream", "destroy"}

VARIABLES
    picture,        \* compositor: the cursor's picture
    announced,      \* compositor: the size the session's constraints name, or Nothing
    changes, retries, stalls,   \* history: how many so far
    gone,           \* compositor: what is captured has gone
    open,           \* CaptureSession::cursor is there
    constraints,    \* imageCapture->constraints: a size, or Nothing
    stopped,        \* imageCapture->stopped
    buffer,         \* CursorCapture::buffer: its size, or Nothing
    drawn,          \* the picture in the buffer, or Nothing
    frame,          \* pendingFrame: the size of its buffer, or Nothing
    requestPending,
    metadata        \* size and picture last copied, and visible

cursorVars == <<open, constraints, stopped, buffer, drawn, frame, requestPending, metadata>>
externalVars == <<picture, announced, gone, changes, retries, stalls>>
vars == <<displayVars, cursorVars, externalVars>>

Event == ({"done"} \X Sizes) \cup ({"failed"} \X {"retry", "constraints", "stopped"})
            \cup {<<"ready">>, <<"stopped">>, <<"enter">>, <<"leave">>, <<"moved">>, <<"other">>}
FrameEvent(e) == e[1] \in {"ready", "failed"}

NoMetadata == [visible |-> FALSE, size |-> Nothing, picture |-> Nothing]

TypeOK ==
    /\ DisplayTypeOK
    /\ inbound \in Seq(Event) /\ queue \in Seq(Event)
    /\ picture \in Pictures /\ announced \in Sizes \cup {Nothing} /\ gone \in BOOLEAN
    /\ changes \in 0..MaxChanges /\ retries \in 0..MaxRetries /\ stalls \in 0..MaxStalls
    /\ open \in BOOLEAN /\ stopped \in BOOLEAN /\ requestPending \in BOOLEAN
    /\ constraints \in Sizes \cup {Nothing} /\ buffer \in Sizes \cup {Nothing}
    /\ frame \in Sizes \cup {Nothing} /\ drawn \in Pictures \cup {Nothing}
    /\ metadata \in [visible : BOOLEAN, size : Sizes \cup {Nothing}, picture : Pictures \cup {Nothing}]

NoCursor ==
    /\ open' = FALSE /\ constraints' = Nothing /\ stopped' = FALSE /\ buffer' = Nothing /\ drawn' = Nothing
    /\ frame' = Nothing /\ requestPending' = FALSE /\ metadata' = NoMetadata

Init ==
    /\ DisplayInit
    /\ picture \in Pictures /\ announced = Nothing /\ gone = FALSE /\ changes = 0 /\ retries = 0 /\ stalls = 0
    /\ open = FALSE /\ constraints = Nothing /\ stopped = FALSE /\ buffer = Nothing /\ drawn = Nothing
    /\ frame = Nothing /\ requestPending = FALSE /\ metadata = NoMetadata

-----------------------------------------------------------------------------
(* The state machine.  requestCursorFrame, configureCursorBuffer: what they   *)
(* leave in frame, requestPending and the display's variables.                *)

\* Events of a destroyed object are dropped by libwayland; of a frame there is at
\* most one on its way.
Purge(events) ==
    IF \E i \in DOMAIN events : FrameEvent(events[i])
    THEN RemoveAt(events, CHOOSE i \in DOMAIN events : FrameEvent(events[i]))
    ELSE events

\* The requests waiting once the pending frame is destroyed.
WithoutFrame == IF frame = Nothing THEN unsent ELSE (unsent \ {"frame"}) \cup {"destroy"}

CanRequest(pending) == ~stopped /\ buffer # Nothing /\ pending = Nothing

\* requestCursorFrame when this frame is pending and these requests wait: one
\* frame at a time, a request in between is kept for later.
RequestCursorFrame(pending, out) ==
    IF CanRequest(pending)
    THEN frame' = buffer /\ requestPending' = FALSE /\ Flushed(out \cup {"frame"})
    ELSE frame' = pending /\ requestPending' = TRUE /\ Unflushed(out)

\* After a frame: only if there was a request meanwhile.
RequestAgain ==
    IF requestPending THEN RequestCursorFrame(Nothing, WithoutFrame)
    ELSE frame' = Nothing /\ Unflushed(WithoutFrame) /\ UNCHANGED requestPending

\* Mutant: the frame of the old buffer stays pending.
ConfigureKeepingFrame(size) ==
    /\ drawn' = Nothing /\ buffer' = size
    /\ inbound' = inbound /\ queue' = Tail(queue)
    /\ frame' = (IF frame = Nothing THEN size ELSE frame) /\ requestPending' = (frame # Nothing)
    /\ Flushed(unsent \cup {"frame"})

\* configureCursorBuffer: the old buffer and its frame go; a new buffer of this
\* size is used at once, unless there is none to be had.
ConfigureCursorBuffer(size) ==
    /\ drawn' = Nothing
    /\ inbound' = Purge(inbound) /\ queue' = Purge(Tail(queue))
    /\ \/ /\ size # Nothing /\ buffer' = size
          /\ frame' = (IF stopped THEN Nothing ELSE size) /\ requestPending' = stopped
          /\ Flushed(WithoutFrame \cup (IF stopped THEN {} ELSE {"frame"}))
       \/ /\ buffer' = Nothing /\ frame' = Nothing
          /\ Unflushed(WithoutFrame) /\ UNCHANGED requestPending

-----------------------------------------------------------------------------
(* Handlers of events. *)

Handle(event) ==
    /\ dispatching /\ queue # <<>> /\ Head(queue) = event
    /\ UNCHANGED <<socketVars, watched, phase, dispatching, open, externalVars>>

Consume == queue' = Tail(queue) /\ UNCHANGED inbound

OnSessionDone(size) ==
    /\ Handle(<<"done", size>>)
    /\ constraints' = size
    /\ ConfigureCursorBuffer(size)
    /\ UNCHANGED <<stopped, metadata>>

OnSessionStopped ==
    /\ Handle(<<"stopped">>) /\ Consume
    /\ stopped' = TRUE /\ metadata' = [metadata EXCEPT !.visible = FALSE]
    /\ UNCHANGED <<constraints, buffer, drawn, frame, requestPending, writeVars, readVars>>

\* cursorFrameReady: the picture is taken with the size of the constraints.
OnFrameReady ==
    /\ Handle(<<"ready">>) /\ Consume
    /\ metadata' = [metadata EXCEPT !.size = constraints, !.picture = drawn]
    /\ RequestAgain
    /\ UNCHANGED <<constraints, stopped, buffer, drawn>>

\* Mutant: a frame that failed is not asked for again.
FailedAndForgotten(reason) ==
    /\ Handle(<<"failed", reason>>) /\ Consume
    /\ frame' = Nothing /\ Unflushed(WithoutFrame)
    /\ UNCHANGED <<constraints, stopped, buffer, drawn, requestPending, metadata>>

\* cursorFrameFailed: with the constraints as they are now, new or not.
OnFrameFailed(reason) ==
    /\ Handle(<<"failed", reason>>)
    /\ \/ /\ reason = "stopped" /\ Consume
          /\ metadata' = [metadata EXCEPT !.visible = FALSE]
          /\ frame' = Nothing /\ Unflushed(WithoutFrame)
          /\ UNCHANGED <<buffer, drawn, requestPending>>
       \/ /\ reason = "constraints" /\ ConfigureCursorBuffer(constraints)
          /\ UNCHANGED metadata
       \/ /\ reason = "retry" /\ Consume /\ RequestAgain
          /\ UNCHANGED <<buffer, drawn, metadata>>
    /\ UNCHANGED <<constraints, stopped>>

OnCursorEnter ==
    /\ Handle(<<"enter">>) /\ Consume
    /\ metadata' = [metadata EXCEPT !.visible = TRUE]
    /\ RequestCursorFrame(frame, unsent)
    /\ UNCHANGED <<constraints, stopped, buffer, drawn>>

OnCursorLeave ==
    /\ Handle(<<"leave">>) /\ Consume
    /\ metadata' = [metadata EXCEPT !.visible = FALSE]
    /\ UNCHANGED <<constraints, stopped, buffer, drawn, frame, requestPending, writeVars, readVars>>

\* position and hotspot
OnCursorMoved ==
    /\ Handle(<<"moved">>) /\ Consume
    /\ RequestCursorFrame(frame, unsent)
    /\ UNCHANGED <<constraints, stopped, buffer, drawn, metadata>>

\* Any event of the registry, an output or a window: Sources says what they do.
OnOther ==
    /\ Handle(<<"other">>) /\ Consume
    /\ UNCHANGED <<constraints, stopped, buffer, drawn, frame, requestPending, metadata, writeVars, readVars>>

HandleEvent ==
    \/ \E size \in Sizes : OnSessionDone(size)
    \/ OnSessionStopped \/ OnFrameReady
    \/ \E reason \in {"retry", "constraints", "stopped"} : OnFrameFailed(reason)
    \/ OnCursorEnter \/ OnCursorLeave \/ OnCursorMoved \/ OnOther

-----------------------------------------------------------------------------
(* Calls from the portals, which DbusPortal may make before the loop runs.    *)

Called ==
    /\ phase = "serving" \/ Idle
    /\ UNCHANGED <<socketVars, queue, watched, phase, dispatching>>

\* makeCaptureSession with setupCursorCapture.
OpenCapture ==
    /\ Called /\ ~open /\ open' = TRUE
    /\ Flushed(unsent \cup {"session"})
    /\ announced' = Nothing /\ gone' = FALSE
    /\ UNCHANGED <<inbound, constraints, stopped, buffer, drawn, frame, requestPending, metadata, picture, changes, retries, stalls>>

\* The events that are left when every object of the capture is destroyed.
OtherEvents(events) == [i \in 1..Cardinality({j \in DOMAIN events : events[j] = <<"other">>}) |-> <<"other">>]

\* ~CaptureSession: the objects are destroyed, and nothing is flushed.
CloseCapture ==
    /\ Called /\ open /\ NoCursor
    /\ inbound' = OtherEvents(inbound)
    /\ Unflushed((unsent \ {"session", "frame", "stream"}) \cup {"destroy"})
    /\ UNCHANGED externalVars

\* Mutant: the stream asks for its own frame only.
StreamFrameAlone ==
    /\ Called /\ Idle /\ open
    /\ Flushed(unsent \cup {"stream"})
    /\ UNCHANGED <<inbound, cursorVars, externalVars>>

\* StreamState::requestFrame asks for the cursor, then for its own frame.
StreamFrame ==
    /\ Called /\ Idle /\ open
    /\ frame' = (IF CanRequest(frame) THEN buffer ELSE frame)
    /\ requestPending' = ~CanRequest(frame)
    /\ Flushed(unsent \cup {"stream"} \cup (IF CanRequest(frame) THEN {"frame"} ELSE {}))
    /\ UNCHANGED <<inbound, open, constraints, stopped, buffer, drawn, metadata, externalVars>>

-----------------------------------------------------------------------------
(* The compositor. *)

Reached == open /\ "session" \notin unsent /\ ~gone
Asked ==
    /\ Reached /\ frame # Nothing /\ "frame" \notin unsent
    /\ \A i \in DOMAIN inbound : ~FrameEvent(inbound[i])
    /\ \A i \in DOMAIN queue : ~FrameEvent(queue[i])

Change ==
    /\ changes < MaxChanges /\ changes' = changes + 1
    /\ UNCHANGED <<cursorVars, announced, retries, stalls>>

ChangePicture(p) ==
    /\ Change /\ p # picture /\ picture' = p
    /\ UNCHANGED <<displayVars, gone>>

\* Cursor events go to a session there is, others to anybody.
Tell(e) ==
    /\ Change /\ (e # <<"other">> => Reached)
    /\ Send(<<e>>)
    /\ UNCHANGED <<picture, gone>>

\* What is captured goes: a pending frame fails, before or after.
Withdraw ==
    /\ Change /\ Reached /\ gone' = TRUE
    /\ IF Asked
       THEN Send(<<<<"stopped">>, <<"failed", "stopped">>>>) \/ Send(<<<<"failed", "stopped">>, <<"stopped">>>>)
       ELSE Send(<<<<"stopped">>>>)
    /\ UNCHANGED picture

AnnounceConstraints ==
    /\ Reached /\ announced # SizeOf[picture]
    /\ announced' = SizeOf[picture]
    /\ Send(<<<<"done", SizeOf[picture]>>>>)
    /\ UNCHANGED <<cursorVars, picture, gone, changes, retries, stalls>>

\* A frame is answered by whether its buffer fits the picture of the moment.
AnswerFrame ==
    /\ Asked
    /\ IF frame = SizeOf[picture]
       THEN drawn' = (IF frame = buffer THEN picture ELSE drawn) /\ Send(<<<<"ready">>>>)
       ELSE UNCHANGED drawn /\ Send(<<<<"failed", "constraints">>>>)
    /\ UNCHANGED <<open, constraints, stopped, buffer, frame, requestPending, metadata, externalVars>>

RefuseFrame ==
    /\ Asked /\ retries < MaxRetries /\ retries' = retries + 1
    /\ Send(<<<<"failed", "retry">>>>)
    /\ UNCHANGED <<cursorVars, picture, announced, gone, changes, stalls>>

StallOnce ==
    /\ stalls < MaxStalls /\ stalls' = stalls + 1 /\ Stall
    /\ UNCHANGED <<cursorVars, picture, announced, gone, changes, retries>>

Others == UNCHANGED <<cursorVars, externalVars>>

Next ==
    \/ StartStep /\ Others
    \/ LoopStep /\ Others
    \/ (DispatchFails \/ Signal \/ Resume \/ Break) /\ Others
    \/ HandleEvent
    \/ OpenCapture \/ CloseCapture \/ StreamFrame
    \/ \E p \in Pictures : ChangePicture(p)
    \/ \E e \in {<<"enter">>, <<"leave">>, <<"moved">>, <<"other">>} : Tell(e)
    \/ Withdraw \/ AnnounceConstraints \/ AnswerFrame \/ RefuseFrame \/ StallOnce

Spec == Init /\ [][Next]_vars

\* The process runs, the stream keeps asking, the compositor answers.
Fairness ==
    /\ WF_vars(StartStep /\ Others) /\ WF_vars((LoopStep /\ Others) \/ HandleEvent) /\ WF_vars(StreamFrame)
    /\ WF_vars(AnnounceConstraints) /\ WF_vars(AnswerFrame) /\ WF_vars(Resume /\ Others)

FairSpec == Spec /\ Fairness

-----------------------------------------------------------------------------
(* Properties. *)

\* Well typed; and the portal never waits in the loop with an event read and not
\* dispatched, or without the one prepared read that lets the next be read
\* (handleDisplayEvents, prepareRead, cancelPreparedRead).
IdleListens ==
    /\ TypeOK
    /\ readers = 1 <=> preparedRead
    /\ Idle /\ ~disconnected => preparedRead /\ queue = <<>>

\* Requests that did not fit into the socket are sent when it has room again:
\* the loop waits for that.  Only the destruction of objects may wait for the
\* next flush (flushDisplay, updateDisplayFdEvents).
RequestsGoOut == Idle /\ ~disconnected /\ unsent \ {"destroy"} # {} => wantsWrite /\ interest

\* The cursor's picture is always shown in its own size, also while its size and
\* the buffers change (configureCursorBuffer, cursorFrameReady).
CursorIsWhole == metadata.size # Nothing => metadata.picture # Nothing /\ SizeOf[metadata.picture] = metadata.size

\* A request for the cursor that was put off has something to wait for: a frame,
\* a buffer, or nothing any more (requestCursorFrame, cursorFrameFailed).
RequestsAreKept == open /\ requestPending => frame # Nothing \/ buffer = Nothing \/ stopped \/ gone

\* The process is never stuck on its connection: the constructor's round trips come
\* to an end if the compositor answers or hangs up, and later a compositor that is
\* lost ends the process, unless that is noticed while DbusPortal serves its first
\* calls (roundtrip, markDisconnected, Loop::quit before run).
NeverStuck ==
    /\ <>(phase \in {"running", "ended"})
    /\ broken ~> phase = "ended" \/ early

\* A cursor that does not change any more is shown as it is, as long as there is a
\* buffer for it and the stream asks (requestCursorFrame, StreamState::requestFrame).
CursorSettles ==
    <>[](phase = "running" /\ ~broken /\ open /\ ~gone /\ buffer # Nothing) => <>[](metadata.picture = picture)
=============================================================================
