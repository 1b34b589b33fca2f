----------------------------- MODULE StreamPump -----------------------------
(***************************************************************************)
(* One stream of a screen cast session: the StreamState that pumps frames  *)
(* from a Wayland capture session into the buffers of a PipeWire stream.   *)
(* Three parties interleave: the compositor, whose events arrive in order, *)
(* PipeWire, which negotiates formats and adds and removes buffers at the  *)
(* addresses in Slots, and the frame timer of the event loop.  A slot is   *)
(* the address of a pw_buffer, the only thing by which the code knows it.  *)
(***************************************************************************)
EXTENDS Naturals, Sequences, SequencesExt

CONSTANTS
    Slots,        \* addresses at which PipeWire places its buffers
    NoSlot,       \* no buffer
    Sizes,        \* buffer sizes
    MaxResizes,   \* bound: how often the captured source changes size
    MaxRelinks    \* bound: how often a consumer makes PipeWire negotiate anew

None == "none"

ASSUME StreamPumpAssumption ==
    /\ NoSlot \notin Slots /\ None \notin Sizes
    /\ MaxResizes \in Nat /\ MaxRelinks \in Nat

VARIABLES
    \* StreamState
    stopped, frameInFlight, inSlot, fpsTimer,
    constraints, constraintsDirty, waitingForConstraints, reconfiguring, target,
    \* PipeWireStream
    pw,           \* the pw_stream's state
    slot,         \* where each buffer is: absent, free to dequeue, dequeued, with the consumer
    owned,        \* PipeWireStream::Impl::buffers
    size,         \* the size of the allocation behind each slot
    width,        \* PipeWireStream::Impl::width, the size of new allocations
    offer,        \* the size the stream offers since connect or update_params
    fresh,        \* PipeWire has not taken up the offer yet
    seen,         \* the offer it works with
    toAdd,        \* the slots PipeWire is about to add
    \* the compositor
    want,         \* the size of the captured source
    owes,         \* a change of size it has not announced with "done"
    attached,     \* the size of the buffer of the outstanding frame, or "none"
    events,       \* Wayland events on their way
    \* what happened
    allBacked,    \* every negotiation so far has backed every slot
    mismatched,   \* the newest frame went into a buffer of another size than the constraints
    resizes, relinks

pumpVars == <<stopped, frameInFlight, inSlot, fpsTimer, constraints, constraintsDirty,
              waitingForConstraints, reconfiguring, target>>
pipewireVars == <<pw, slot, owned, size, width, offer, fresh, seen, toAdd>>
compositorVars == <<want, owes, attached, events>>
vars == <<pumpVars, pipewireVars, compositorVars, allBacked, mismatched, resizes, relinks>>

FrameEvents == {"ready", "retry", "misfit"}
Event == ({"done"} \X Sizes) \cup ((FrameEvents \cup {"stopped"}) \X {None})

TypeOK ==
    /\ stopped \in BOOLEAN /\ frameInFlight \in BOOLEAN /\ fpsTimer \in BOOLEAN
    /\ inSlot \in Slots \cup {NoSlot} /\ (inSlot \in Slots <=> frameInFlight)
    /\ constraints \in Sizes /\ target \in Sizes
    /\ constraintsDirty \in BOOLEAN /\ waitingForConstraints \in BOOLEAN /\ reconfiguring \in BOOLEAN
    /\ pw \in {"connecting", "paused", "streaming", "unconnected"}
    /\ slot \in [Slots -> {"absent", "free", "dequeued", "consumer"}]
    /\ owned \in SUBSET Slots /\ toAdd \in SUBSET Slots
    /\ size \in [Slots -> Sizes]
    /\ width \in Sizes /\ offer \in Sizes /\ seen \in Sizes
    /\ want \in Sizes /\ owes \in BOOLEAN
    /\ attached \in Sizes \cup {None}
    /\ events \in Seq(Event)
    /\ allBacked \in BOOLEAN /\ mismatched \in BOOLEAN /\ fresh \in BOOLEAN
    /\ resizes \in 0..MaxResizes /\ relinks \in 0..MaxRelinks

\* addStream, with the callbacks installed: the stream is connecting and its
\* processRequest finds it so.
Init ==
    /\ stopped = FALSE /\ frameInFlight = FALSE /\ inSlot = NoSlot /\ fpsTimer = FALSE
    /\ \E z \in Sizes : /\ constraints = z /\ target = z /\ width = z /\ offer = z /\ seen = z
                        /\ want = z
                        /\ size = [b \in Slots |-> z]
    /\ constraintsDirty = FALSE /\ waitingForConstraints = FALSE /\ reconfiguring = FALSE
    /\ pw = "connecting"
    /\ slot = [b \in Slots |-> "absent"]
    /\ owned = {} /\ toAdd = {} /\ fresh = FALSE
    /\ owes = FALSE /\ attached = None /\ events = <<>>
    /\ allBacked = TRUE /\ mismatched = FALSE
    /\ resizes = 0 /\ relinks = 0

-----------------------------------------------------------------------------
(* The steps StreamState's callbacks are made of.  Each takes the slots as the
   callback has left them ("now") and says what becomes of them. *)

Connected(state) == state \in {"paused", "streaming"}

\* Mutant: a buffer is not given back after its frame.
KeptBack(b) == slot

\* PipeWireStream::queueBuffer: refused for a buffer the stream does not own, and
\* PipeWire refuses one that was not dequeued.
Queued(b) ==
    IF Connected(pw) /\ b \in owned /\ slot[b] = "dequeued"
    THEN [slot EXCEPT ![b] = "consumer"] ELSE slot

NoFrame == frameInFlight' = FALSE /\ inSlot' = NoSlot

\* WaylandContext::captureFrame into the buffer at b: from here the compositor has
\* its allocation.
CaptureFrame(b) ==
    /\ frameInFlight' = TRUE /\ inSlot' = b
    /\ attached' = size[b]
    /\ mismatched' = (size[b] # constraints)

\* requestFrame: a timer when no buffer is free or the free one was never backed
\* (it is dequeued and not taken back), else a frame of the captured source.
RequestFrame(now, armed) ==
    \/ /\ \A b \in Slots : now[b] # "free"
       /\ slot' = now /\ fpsTimer' = TRUE
       /\ NoFrame /\ UNCHANGED <<attached, mismatched>>
    \/ \E b \in Slots :
          /\ now[b] = "free"
          /\ slot' = [now EXCEPT ![b] = "dequeued"]
          /\ IF b \in owned
             THEN CaptureFrame(b) /\ fpsTimer' = armed
             ELSE /\ fpsTimer' = TRUE
                  /\ NoFrame /\ UNCHANGED <<attached, mismatched>>

\* processRequest with no frame in flight: nothing while constraints or a
\* reconfiguration are awaited; a timer when it is too early for maxFps, which it
\* is not any more ("due") once that timer has run.
ProcessRequest(state, now, armed, due) ==
    \/ /\ ~Connected(state) \/ waitingForConstraints \/ reconfiguring
       /\ slot' = now /\ fpsTimer' = armed
       /\ NoFrame /\ UNCHANGED <<attached, mismatched>>
    \/ /\ Connected(state) /\ ~waitingForConstraints /\ ~reconfiguring
       /\ \/ /\ ~due
             /\ slot' = now /\ fpsTimer' = TRUE
             /\ NoFrame /\ UNCHANGED <<attached, mismatched>>
          \/ RequestFrame(now, armed)

\* onStreamRemoveBuffer for every buffer: no address is backed any more.
RemoveBuffers ==
    /\ slot' = [b \in Slots |-> "absent"]
    /\ owned' = {}

\* stop(): the timer, the frame proxy and the PipeWire stream go, and the owner
\* drops the capture session with the events it had coming.
Stop ==
    /\ stopped' = TRUE /\ fpsTimer' = FALSE
    /\ NoFrame
    /\ pw' = "unconnected"
    /\ RemoveBuffers /\ toAdd' = {}
    /\ attached' = None /\ events' = <<>> /\ mismatched' = FALSE

\* PipeWireStream::reconfigure: the stream offers size z and allocates at it from
\* now on.  It refuses, with nothing changed, when no format fits the constraints
\* or PipeWire takes no new parameters.
Offer(z) == offer' = z /\ width' = z /\ fresh' = TRUE
RefusesOffer == UNCHANGED <<offer, width, fresh>>

\* reconfigureStream towards z: offers the new size, or stops the stream when no
\* format fits or PipeWire refuses.
Reconfigure(z, now, armed, rest) ==
    /\ reconfiguring' = TRUE /\ target' = z
    /\ constraintsDirty' = FALSE
    /\ \/ /\ Offer(z)
          /\ slot' = now /\ fpsTimer' = armed /\ events' = rest
          /\ NoFrame /\ UNCHANGED <<stopped, pw, owned, toAdd, attached, mismatched>>
       \/ Stop /\ RefusesOffer

-----------------------------------------------------------------------------
(* The event loop: the frame timer, the compositor's events, and the session. *)

compositorSays == <<want, owes, allBacked, resizes, relinks>>

FpsTimer ==
    /\ fpsTimer
    /\ IF frameInFlight
       THEN fpsTimer' = FALSE /\ UNCHANGED <<slot, frameInFlight, inSlot, attached, mismatched>>
       ELSE ProcessRequest(pw, slot, FALSE, TRUE)
    /\ UNCHANGED <<stopped, constraints, constraintsDirty, waitingForConstraints, reconfiguring,
                   target, pw, owned, size, width, offer, fresh, seen, toAdd, events, compositorSays>>

\* The listeners of the capture session (onSessionDone, onSessionStopped) hand the
\* event on, whatever frame is outstanding.
Receive(e) == events # <<>> /\ Head(events) = e

\* The listeners of the frame (onFrameReady, onFrameFailed) destroy its proxy and
\* call back once, with Retry for every reason they do not know.
FrameEnds(how) == Receive(<<how, None>>)

\* Mutant: new constraints applied during a frame.
ConstraintsNeverDeferred(z) ==
    /\ Receive(<<"done", z>>)
    /\ constraints' = z /\ target' = z /\ offer' = z /\ width' = z
    /\ reconfiguring' = TRUE /\ fresh' = TRUE
    /\ waitingForConstraints' = FALSE
    /\ events' = Tail(events)
    /\ UNCHANGED <<constraintsDirty, stopped, fpsTimer, frameInFlight, inSlot,
                   pw, slot, owned, toAdd, attached, mismatched, size, seen, compositorSays>>

\* Mutant: constraintsDirty is not set during a frame.
ConstraintsUnmarked(z) ==
    /\ Receive(<<"done", z>>)
    /\ constraints' = z
    /\ waitingForConstraints' = FALSE
    /\ IF frameInFlight \/ reconfiguring
       THEN /\ events' = Tail(events)
            /\ UNCHANGED <<constraintsDirty, reconfiguring, target, stopped, fpsTimer, frameInFlight, inSlot,
                           pw, slot, owned, toAdd, width, offer, fresh, attached, mismatched>>
       ELSE Reconfigure(z, slot, fpsTimer, Tail(events))
    /\ UNCHANGED <<size, seen, compositorSays>>

\* constraintsChanged: reconfigures at once unless a frame or another
\* reconfiguration is under way.
ConstraintsChanged(z) ==
    /\ Receive(<<"done", z>>)
    /\ constraints' = z
    /\ waitingForConstraints' = FALSE
    /\ IF frameInFlight \/ reconfiguring
       THEN /\ constraintsDirty' = TRUE
            /\ events' = Tail(events)
            /\ UNCHANGED <<reconfiguring, target, stopped, fpsTimer, frameInFlight, inSlot,
                           pw, slot, owned, toAdd, width, offer, fresh, attached, mismatched>>
       ELSE Reconfigure(z, slot, fpsTimer, Tail(events))
    /\ UNCHANGED <<size, seen, compositorSays>>

\* frameReady: the buffer goes to the consumer and the next frame is asked for,
\* unless the stream does not know the buffer any more.
FrameReady ==
    /\ FrameEnds("ready")
    /\ events' = Tail(events)
    /\ IF inSlot \in owned /\ Connected(pw)
       THEN ProcessRequest(pw, Queued(inSlot), fpsTimer, FALSE)
       ELSE NoFrame /\ UNCHANGED <<slot, fpsTimer, attached, mismatched>>
    /\ UNCHANGED <<stopped, constraints, constraintsDirty, waitingForConstraints, reconfiguring,
                   target, pw, owned, size, width, offer, fresh, seen, toAdd, compositorSays>>

\* frameFailed for an unknown reason: try again.
FrameRetry ==
    /\ FrameEnds("retry")
    /\ events' = Tail(events)
    /\ ProcessRequest(pw, Queued(inSlot), fpsTimer, FALSE)
    /\ UNCHANGED <<stopped, constraints, constraintsDirty, waitingForConstraints, reconfiguring,
                   target, pw, owned, size, width, offer, fresh, seen, toAdd, compositorSays>>

\* frameFailed because the buffer does not fit the constraints: the new ones are
\* used if they are here already, and waited for if not.
FrameMisfit ==
    /\ FrameEnds("misfit")
    /\ IF constraintsDirty
       THEN Reconfigure(constraints, Queued(inSlot), fpsTimer, Tail(events)) /\ UNCHANGED waitingForConstraints
       ELSE /\ waitingForConstraints' = TRUE
            /\ slot' = Queued(inSlot)
            /\ events' = Tail(events)
            /\ NoFrame
            /\ UNCHANGED <<constraintsDirty, reconfiguring, target, stopped, fpsTimer,
                           pw, owned, toAdd, width, offer, fresh, attached, mismatched>>
    /\ UNCHANGED <<constraints, size, seen, compositorSays>>

stopLeaves == <<constraints, constraintsDirty, waitingForConstraints, reconfiguring, target,
                size, width, offer, fresh, seen, compositorSays>>

\* captureStopped, for the capture session or its frame.
CaptureStopped ==
    /\ Receive(<<"stopped", None>>)
    /\ Stop
    /\ UNCHANGED stopLeaves

\* The session is closed or its streams are cleared.
SessionClears ==
    /\ ~stopped
    /\ Stop
    /\ UNCHANGED stopLeaves

-----------------------------------------------------------------------------
(* PipeWire. *)

pumpKeeps == <<stopped, constraints, constraintsDirty, waitingForConstraints, reconfiguring, target>>

\* The node is bound: the stream pauses and has no buffers yet.
Bind ==
    /\ pw = "connecting"
    /\ pw' = "paused"
    /\ UNCHANGED <<pumpVars, slot, owned, size, width, offer, fresh, seen, toAdd, compositorVars,
                   allBacked, mismatched, resizes, relinks>>

Linked == toAdd # {} \/ \E b \in Slots : slot[b] # "absent"

\* Every buffer is removed (onStreamRemoveBuffer), the format of size z is set
\* (onStreamParamChanged), and "next" are the slots to be added.
Negotiate(z, next) ==
    /\ pw' = "paused"
    /\ RemoveBuffers
    /\ width' = z
    /\ toAdd' = next
    /\ allBacked' = (allBacked /\ next \in {{}, Slots})

Backings == SUBSET Slots \ {{}}

\* A consumer links, or the link is made anew, with the offer PipeWire knows.
Relink ==
    /\ Connected(pw) /\ relinks < MaxRelinks
    /\ relinks' = relinks + 1
    /\ \E next \in Backings : Negotiate(seen, next)
    /\ UNCHANGED <<pumpVars, size, offer, fresh, seen, compositorVars, mismatched, resizes>>

\* The consumer leaves.
Unlink ==
    /\ Connected(pw) /\ Linked /\ relinks < MaxRelinks
    /\ relinks' = relinks + 1
    /\ Negotiate(width, {})
    /\ UNCHANGED <<pumpVars, size, offer, fresh, seen, compositorVars, mismatched, resizes>>

\* PipeWire takes up the new offer, renegotiating the link if there is one.
TakeOffer ==
    /\ Connected(pw) /\ fresh
    /\ fresh' = FALSE
    /\ seen' = offer
    /\ IF Linked THEN \E next \in Backings : Negotiate(offer, next)
                 ELSE UNCHANGED <<pw, slot, owned, width, toAdd, allBacked>>
    /\ UNCHANGED <<pumpVars, size, offer, compositorVars, mismatched, resizes, relinks>>

addLeaves == <<constraints, waitingForConstraints, seen, want, owes, resizes, relinks>>

\* bufferAdded: only a buffer of the size being reconfigured to ends the wait.
Awaited(z) == reconfiguring /\ z = target

\* allocateDmabuf and allocateShm: which of the addresses get an allocation, any of
\* their system calls and the compositor being able to refuse one.
Allocatable(addresses) == SUBSET addresses

\* PipeWire adds the negotiated buffers in one message, calling onStreamAddBuffer
\* and bufferAdded for each whose allocation succeeds ("backed"), "first" before
\* the others.  A buffer of the awaited size ends the reconfiguration; if the
\* constraints are dirty it begins the next one, and the buffers after it are
\* allocated at the new size and end that one.
BuffersAdded(backed, first) ==
    LET matches == backed # {} /\ Awaited(width)
        restart == matches /\ constraintsDirty
        later == IF restart THEN constraints ELSE width
        added == /\ slot' = [b \in Slots |-> IF b \in toAdd THEN "free" ELSE slot[b]]
                 /\ owned' = owned \cup backed
                 /\ toAdd' = {}
                 /\ UNCHANGED <<stopped, frameInFlight, inSlot, pw, attached, mismatched, events>>
    IN /\ allBacked' = (allBacked /\ backed = toAdd)
       /\ size' = [b \in Slots |-> IF b \notin backed THEN size[b]
                                   ELSE IF b = first THEN width ELSE later]
       /\ constraintsDirty' = (constraintsDirty /\ ~restart)
       /\ \/ /\ ~restart /\ added
             /\ reconfiguring' = (reconfiguring /\ ~matches)
             /\ fpsTimer' = (fpsTimer \/ matches)
             /\ UNCHANGED <<target, offer, width, fresh>>
          \/ /\ restart /\ added
             /\ target' = constraints /\ Offer(constraints)
             /\ reconfiguring' = (backed = {first})
             /\ fpsTimer' = (fpsTimer \/ backed # {first})
          \/ /\ restart /\ Stop
             /\ target' = constraints /\ reconfiguring' = TRUE
             /\ RefusesOffer

AddBuffers ==
    /\ toAdd # {}
    /\ \E backed \in Allocatable(toAdd) :
       \E first \in IF backed = {} THEN {NoSlot} ELSE backed : BuffersAdded(backed, first)
    /\ UNCHANGED addLeaves

\* processRequest called by PipeWire, the slots being as "now".
Wake(state, now) ==
    IF frameInFlight
    THEN slot' = now /\ UNCHANGED <<fpsTimer, frameInFlight, inSlot, attached, mismatched>>
    ELSE ProcessRequest(state, now, fpsTimer, FALSE)

\* Mutant: no graph trigger when the stream starts streaming.
StartUnprompted ==
    /\ pw = "paused" /\ toAdd = {} /\ Linked
    /\ pw' = "streaming"
    /\ UNCHANGED <<slot, fpsTimer, frameInFlight, inSlot, attached, mismatched>>
    /\ UNCHANGED <<pumpKeeps, owned, size, width, offer, fresh, seen, toAdd, events, compositorSays>>

\* The link starts: onStreamStateChanged asks for the first frame.
StartStreaming ==
    /\ pw = "paused" /\ toAdd = {} /\ Linked
    /\ pw' = "streaming"
    /\ Wake("streaming", slot)
    /\ UNCHANGED <<pumpKeeps, owned, size, width, offer, fresh, seen, toAdd, events, compositorSays>>

\* The consumer is done with a buffer: onStreamProcess.
Recycle(b) ==
    /\ pw = "streaming" /\ slot[b] = "consumer"
    /\ Wake(pw, [slot EXCEPT ![b] = "free"])
    /\ UNCHANGED <<pumpKeeps, pw, owned, size, width, offer, fresh, seen, toAdd, events, compositorSays>>

-----------------------------------------------------------------------------
(* The compositor, bounded to three events on their way. *)

compositorLeaves == <<pumpVars, pipewireVars, allBacked, mismatched, relinks>>
CanSend == ~stopped /\ Len(events) < 3 /\ ~Contains(events, <<"stopped", None>>)

Resize(z) ==
    /\ ~stopped /\ z # want /\ resizes < MaxResizes
    /\ want' = z
    /\ resizes' = resizes + 1
    /\ owes' = TRUE
    /\ UNCHANGED <<attached, events, compositorLeaves>>

Announce ==
    /\ CanSend /\ owes
    /\ owes' = FALSE
    /\ events' = Append(events, <<"done", want>>)
    /\ UNCHANGED <<want, attached, resizes, compositorLeaves>>

\* A frame is answered once; one whose buffer has another size than the source
\* fails for its constraints.
Answer ==
    /\ CanSend /\ attached # None
    /\ \E kind \in IF attached = want THEN {"ready", "retry"} ELSE {"misfit"} :
          events' = Append(events, <<kind, None>>)
    /\ attached' = None
    /\ UNCHANGED <<want, owes, resizes, compositorLeaves>>

Withdraw ==
    /\ CanSend
    /\ events' = Append(events, <<"stopped", None>>)
    /\ attached' = None
    /\ UNCHANGED <<want, owes, resizes, compositorLeaves>>

-----------------------------------------------------------------------------
Dispatch ==
    \/ FrameReady \/ FrameRetry \/ FrameMisfit \/ CaptureStopped
    \/ \E z \in Sizes : ConstraintsChanged(z)

Next ==
    \/ FpsTimer \/ Dispatch \/ SessionClears
    \/ Bind \/ Relink \/ Unlink \/ TakeOffer \/ StartStreaming
    \/ AddBuffers \/ \E b \in Slots : Recycle(b)
    \/ Announce \/ Answer \/ Withdraw \/ \E z \in Sizes : Resize(z)

Spec == Init /\ [][Next]_vars

\* The event loop fires the timer and dispatches Wayland events; the compositor
\* announces a change and answers frames; PipeWire takes up offers, adds the
\* buffers it announced and starts the link.
Fairness ==
    /\ WF_vars(FpsTimer) /\ WF_vars(Dispatch)
    /\ WF_vars(Announce) /\ WF_vars(Answer)
    /\ WF_vars(Bind) /\ WF_vars(TakeOffer) /\ WF_vars(AddBuffers) /\ WF_vars(StartStreaming)
    /\ \A b \in Slots : WF_vars(Recycle(b))

FairSpec == Spec /\ Fairness

-----------------------------------------------------------------------------
(* Properties. *)

\* Well typed; and a backed buffer is away from PipeWire only while its frame is
\* in flight: frameReady and frameFailed give back what requestFrame dequeued.
BuffersComeBack ==
    /\ TypeOK
    /\ \A b \in owned : slot[b] = "dequeued" => frameInFlight /\ inSlot = b

\* No frame is asked for while buffers are being replaced, and a frame in flight
\* is always answered: the compositor or an event has it (reconfigureStream's and
\* processRequest's guards).
FramesExcludeReconfiguration ==
    /\ reconfiguring => ~frameInFlight
    /\ frameInFlight => \/ attached # None
                        \/ \E k \in FrameEvents \cup {"stopped"} : Contains(events, <<k, None>>)

\* What the stream offers is the newest constraints, unless they are marked dirty
\* for a later reconfigureStream.
OfferIsCurrent == ~stopped /\ ~constraintsDirty => offer = constraints

\* New constraints are on their way to the stream.
Announcing == owes \/ \E z \in Sizes : Contains(events, <<"done", z>>)

\* While every address is backed, a stream that is streaming has something that will
\* ask for the next frame: a frame, a timer, a reconfiguration, a buffer with the
\* consumer, or constraints that really are coming when it waits for some.  The early
\* returns of processRequest and frameReady leave one of them behind.  Set aside is a
\* wait that began with a buffer of another size than the constraints it had: nothing
\* need end that one, also when the stream starts streaming again.
PumpIsDriven ==
    pw = "streaming" /\ allBacked =>
        \/ frameInFlight \/ fpsTimer \/ reconfiguring
        \/ waitingForConstraints /\ (Announcing \/ mismatched)
        \/ \E b \in Slots : slot[b] = "consumer"

\* When the source settles at a size and every negotiation backs every address, the
\* buffers a linked consumer gets settle at that size (reconfigureStream, however the
\* frames, the negotiations and further changes interleave).
SizeSettles ==
    \A z \in Sizes :
        <>[](want = z /\ Linked) /\ []allBacked => <>[](\A b \in owned : size[b] = z)
=============================================================================
