-------------------------- MODULE StreamPumpProofs --------------------------
(***************************************************************************)
(* Proofs about StreamPump for any number of buffers, sizes, changes of    *)
(* size and negotiations: buffers come back from their frames, frames and  *)
(* reconfigurations exclude each other, the offer is the newest, and a     *)
(* stream whose buffers are all backed never waits for nothing.            *)
(***************************************************************************)
EXTENDS StreamPump, SequenceTheorems, TLAPS

Places == {"absent", "free", "dequeued", "consumer"}

\* A backed buffer is dequeued only for the frame in flight.
DequeuedForFrame == \A b \in owned : slot[b] = "dequeued" => frameInFlight /\ inSlot = b

\* Buffers are there and are announced only while the stream is connected, and
\* streaming means that none is still to be added.
LinkShape ==
    /\ pw \in {"connecting", "unconnected"} => owned = {} /\ toAdd = {}
    /\ pw = "streaming" => toAdd = {}

\* While every negotiation has backed every slot, either all the slots are backed, or
\* none is and there is no buffer yet.
BackedTogether ==
    allBacked => \/ owned = Slots /\ toAdd = {}
                 \/ /\ owned = {} /\ toAdd \in {{}, Slots} /\ pw # "streaming"
                    /\ \A b \in Slots : slot[b] = "absent"

\* A stream that is streaming has something that drives it, or waits for constraints.
SomethingDrives ==
    pw = "streaming" /\ allBacked =>
        \/ frameInFlight \/ fpsTimer \/ reconfiguring \/ waitingForConstraints
        \/ \E b \in Slots : slot[b] = "consumer"

IInv ==
    /\ TypeOK
    /\ DequeuedForFrame
    /\ LinkShape
    /\ BackedTogether
    /\ FramesExcludeReconfiguration
    /\ OfferIsCurrent
    /\ SomethingDrives

-----------------------------------------------------------------------------
(* Events on their way. *)

Answers == FrameEvents \cup {"stopped"}
AnswerComing(es) == \E k \in Answers : Contains(es, <<k, None>>)

\* What is left of the events once the first is taken; an answer stays on its way
\* while another event is taken.
LEMMA TakeEvent ==
    ASSUME NEW es \in Seq(Event), es # <<>>
    PROVE  /\ Tail(es) \in Seq(Event)
           /\ AnswerComing(es) /\ (\A k \in Answers : Head(es) # <<k, None>>) => AnswerComing(Tail(es))
<1>1. /\ Tail(es) \in Seq(Event) /\ Len(Tail(es)) = Len(es) - 1 /\ Len(es) \in Nat
      /\ \A i \in 1..Len(Tail(es)) : Tail(es)[i] = es[i + 1]
    BY HeadTailProperties, LenProperties
<1>2. ASSUME AnswerComing(es), \A k \in Answers : Head(es) # <<k, None>> PROVE AnswerComing(Tail(es))
    <2>1. PICK k \in Answers, i \in 1..Len(es) : es[i] = <<k, None>>
        BY <1>2 DEF AnswerComing, Contains
    <2>2. Head(es) = es[1]
        BY HeadTailProperties
    <2>3. i # 1
        BY <1>2, <2>1, <2>2
    <2>4. i - 1 \in 1..Len(Tail(es)) /\ (i - 1) + 1 = i
        BY <1>1, <2>3
    <2>5. Tail(es)[i - 1] = <<k, None>>
        BY <1>1, <2>1, <2>4
    <2>6. Contains(Tail(es), <<k, None>>)
        BY <2>4, <2>5 DEF Contains
    <2> QED BY <2>6 DEF AnswerComing
<1> QED BY <1>1, <1>2

\* An event that is sent comes after the others.
LEMMA SendEvent ==
    ASSUME NEW es \in Seq(Event), NEW e \in Event
    PROVE  /\ Append(es, e) \in Seq(Event)
           /\ AnswerComing(es) => AnswerComing(Append(es, e))
           /\ \A k \in Answers : e = <<k, None>> => AnswerComing(Append(es, e))
<1>1. /\ Append(es, e) \in Seq(Event) /\ Len(Append(es, e)) = Len(es) + 1 /\ Len(es) \in Nat
      /\ \A i \in 1..Len(es) : Append(es, e)[i] = es[i]
      /\ Append(es, e)[Len(es) + 1] = e
    BY AppendProperties, LenProperties
<1>2. ASSUME AnswerComing(es) PROVE AnswerComing(Append(es, e))
    <2>1. PICK k \in Answers, i \in 1..Len(es) : es[i] = <<k, None>>
        BY <1>2 DEF AnswerComing, Contains
    <2>2. i \in 1..Len(Append(es, e)) /\ Append(es, e)[i] = <<k, None>>
        BY <1>1, <2>1
    <2> QED BY <2>2 DEF AnswerComing, Contains
<1>3. ASSUME NEW k \in Answers, e = <<k, None>> PROVE AnswerComing(Append(es, e))
    <2>1. Len(es) + 1 \in 1..Len(Append(es, e))
        BY <1>1
    <2> QED BY <1>1, <1>3, <2>1 DEF AnswerComing, Contains
<1> QED BY <1>1, <1>2, <1>3

-----------------------------------------------------------------------------
(* What the steps of the callbacks do. *)

\* What processRequest leaves: a frame is asked for only into a backed buffer and
\* while nothing is reconfigured, and a connected stream has what drives it.
Pumped(state, now) ==
    /\ slot' \in [Slots -> Places] /\ fpsTimer' \in BOOLEAN
    /\ frameInFlight' \in BOOLEAN /\ inSlot' \in Slots \cup {NoSlot}
    /\ inSlot' \in Slots <=> frameInFlight'
    /\ attached' \in Sizes \cup {None} /\ mismatched' \in BOOLEAN
    /\ \A b \in owned : slot'[b] = "dequeued" => frameInFlight' /\ inSlot' = b
    /\ frameInFlight' => ~reconfiguring /\ attached' # None
    /\ Connected(state) => frameInFlight' \/ fpsTimer' \/ reconfiguring \/ waitingForConstraints
    /\ \A b \in Slots : now[b] = "absent" => slot'[b] = "absent"

\* processRequest, when no backed buffer is dequeued.
LEMMA ProcessRequestPumps ==
    ASSUME TypeOK, NEW state, NEW now \in [Slots -> Places], NEW armed \in BOOLEAN, NEW due \in BOOLEAN,
           \A b \in owned : now[b] # "dequeued",
           ProcessRequest(state, now, armed, due)
    PROVE  Pumped(state, now)
<1>1. CASE slot' = now /\ fpsTimer' \in BOOLEAN /\ NoFrame /\ UNCHANGED <<attached, mismatched>>
           /\ (Connected(state) => fpsTimer' \/ reconfiguring \/ waitingForConstraints)
    <2>1. frameInFlight' = FALSE /\ inSlot' = NoSlot /\ NoSlot \notin Slots
        BY <1>1, StreamPumpAssumption DEF NoFrame
    <2> QED BY <1>1, <2>1 DEF Pumped, TypeOK
<1>2. CASE ~waitingForConstraints /\ ~reconfiguring /\ RequestFrame(now, armed)
    <2>1. CASE slot' = now /\ fpsTimer' = TRUE /\ NoFrame /\ UNCHANGED <<attached, mismatched>>
        BY <1>1, <2>1
    <2>2. CASE \E b \in Slots :
                  /\ now[b] = "free"
                  /\ slot' = [now EXCEPT ![b] = "dequeued"]
                  /\ IF b \in owned
                     THEN CaptureFrame(b) /\ fpsTimer' = armed
                     ELSE fpsTimer' = TRUE /\ NoFrame /\ UNCHANGED <<attached, mismatched>>
        <3>1. PICK b \in Slots :
                  /\ now[b] = "free"
                  /\ slot' = [now EXCEPT ![b] = "dequeued"]
                  /\ IF b \in owned
                     THEN CaptureFrame(b) /\ fpsTimer' = armed
                     ELSE fpsTimer' = TRUE /\ NoFrame /\ UNCHANGED <<attached, mismatched>>
            BY <2>2
        <3>2. /\ slot' \in [Slots -> Places] /\ slot'[b] = "dequeued"
              /\ \A c \in Slots : c # b => slot'[c] = now[c]
            BY <3>1 DEF Places
        <3>3. \A c \in Slots : now[c] = "absent" => slot'[c] = "absent"
            BY <3>1, <3>2
        <3>4. \A c \in owned : slot'[c] = "dequeued" => c = b
            BY <3>2 DEF TypeOK
        <3>5. CASE b \in owned
            <4>1. /\ frameInFlight' = TRUE /\ inSlot' = b /\ attached' = size[b] /\ fpsTimer' = armed
                  /\ mismatched' = (size[b] # constraints)
                BY <3>1, <3>5 DEF CaptureFrame
            <4>2. attached' \in Sizes /\ attached' # None
                BY <4>1, StreamPumpAssumption DEF TypeOK
            <4> QED BY <1>2, <3>2, <3>3, <3>4, <4>1, <4>2 DEF Pumped
        <3>6. CASE b \notin owned
            <4>1. frameInFlight' = FALSE /\ inSlot' = NoSlot /\ NoSlot \notin Slots
                  /\ fpsTimer' = TRUE /\ attached' = attached /\ mismatched' = mismatched
                BY <3>1, <3>6, StreamPumpAssumption DEF NoFrame
            <4>2. \A c \in owned : slot'[c] # "dequeued"
                BY <3>4, <3>6
            <4> QED BY <3>2, <3>3, <4>1, <4>2 DEF Pumped, TypeOK
        <3> QED BY <3>5, <3>6
    <2> QED BY <1>2, <2>1, <2>2 DEF RequestFrame
<1> QED BY <1>1, <1>2 DEF ProcessRequest

\* The buffer of the frame in flight, given back, leaves none dequeued that is backed.
LEMMA QueuedReturns ==
    ASSUME IInv
    PROVE  /\ Queued(inSlot) \in [Slots -> Places]
           /\ \A b \in owned : Queued(inSlot)[b] # "dequeued"
           /\ \A b \in Slots : slot[b] = "absent" => Queued(inSlot)[b] = "absent"
<1> DEFINE now == Queued(inSlot)
<1>0. slot \in [Slots -> Places] /\ owned \subseteq Slots /\ NoSlot \notin Slots
    BY StreamPumpAssumption DEF IInv, TypeOK, Places
<1>1. CASE Connected(pw) /\ inSlot \in owned /\ slot[inSlot] = "dequeued"
    <2>1. now = [slot EXCEPT ![inSlot] = "consumer"]
        BY <1>1 DEF Queued
    <2>2. /\ now \in [Slots -> Places] /\ now[inSlot] = "consumer"
          /\ \A b \in Slots : b # inSlot => now[b] = slot[b]
        BY <1>0, <1>1, <2>1 DEF Places
    <2>3. \A b \in owned : now[b] # "dequeued"
        BY <1>0, <2>2 DEF IInv, DequeuedForFrame
    <2>4. \A b \in Slots : slot[b] = "absent" => now[b] = "absent"
        BY <1>1, <2>2
    <2> QED BY <2>2, <2>3, <2>4
<1>2. CASE ~(Connected(pw) /\ inSlot \in owned /\ slot[inSlot] = "dequeued")
    <2>1. now = slot
        BY <1>2 DEF Queued
    <2>2. \A b \in owned : slot[b] # "dequeued"
        <3> SUFFICES ASSUME NEW b \in owned, slot[b] = "dequeued" PROVE FALSE
            OBVIOUS
        <3>1. inSlot = b
            BY DEF IInv, DequeuedForFrame
        <3>2. Connected(pw)
            BY DEF IInv, LinkShape, TypeOK, Connected
        <3> QED BY <1>2, <3>1, <3>2
    <2> QED BY <1>0, <2>1, <2>2
<1> QED BY <1>1, <1>2
-----------------------------------------------------------------------------
(* The steps that only pump. *)

\* A step that leaves everything else alone and pumps keeps the invariant, and so
\* does the one in which the link starts.
LEMMA PumpedKeeps ==
    ASSUME IInv, NEW now, Pumped(pw', now),
           \A b \in Slots : slot[b] = "absent" => now[b] = "absent",
           UNCHANGED <<pumpKeeps, owned, size, width, offer, fresh, seen, toAdd, compositorSays>>,
           events' \in Seq(Event),
           pw' = pw \/ (pw = "paused" /\ pw' = "streaming" /\ toAdd = {} /\ Linked)
    PROVE  IInv'
<1>1. TypeOK'
    BY DEF IInv, TypeOK, Pumped, Places, pumpKeeps, compositorSays
<1>2. DequeuedForFrame'
    BY DEF Pumped, DequeuedForFrame
<1>3. LinkShape'
    BY DEF IInv, LinkShape
<1>4. BackedTogether'
    <2>1. \A b \in Slots : slot[b] = "absent" => slot'[b] = "absent"
        BY DEF Pumped
    <2>2. allBacked' = allBacked /\ owned' = owned /\ toAdd' = toAdd
        BY DEF compositorSays
    <2>3. CASE pw' = pw
        BY <2>1, <2>2, <2>3 DEF IInv, BackedTogether
    <2>4. CASE toAdd = {} /\ Linked
        <3>1. \E b \in Slots : slot[b] # "absent"
            BY <2>4 DEF Linked
        <3> QED BY <2>2, <3>1 DEF IInv, BackedTogether
    <2> QED BY <2>3, <2>4
<1>5. FramesExcludeReconfiguration'
    BY DEF Pumped, FramesExcludeReconfiguration, pumpKeeps
<1>6. OfferIsCurrent'
    BY DEF IInv, OfferIsCurrent, pumpKeeps
<1>7. SomethingDrives'
    <2>1. Connected(pw') => frameInFlight' \/ fpsTimer' \/ reconfiguring \/ waitingForConstraints
        BY DEF Pumped
    <2>2. reconfiguring' = reconfiguring /\ waitingForConstraints' = waitingForConstraints
        BY DEF pumpKeeps
    <2> QED BY <2>1, <2>2 DEF SomethingDrives, Connected
<1> QED BY <1>1, <1>2, <1>3, <1>4, <1>5, <1>6, <1>7 DEF IInv

\* While a frame is in flight the timer and PipeWire's calls do nothing more than
\* to pass, or to give a buffer of the consumer back to PipeWire.
LEMMA InFlightKeeps ==
    ASSUME IInv, frameInFlight,
           slot' \in [Slots -> Places],
           \A b \in Slots : slot'[b] = slot[b] \/ (slot[b] = "consumer" /\ slot'[b] = "free"),
           fpsTimer' \in BOOLEAN,
           UNCHANGED <<pumpKeeps, frameInFlight, inSlot, attached, mismatched, events, owned, size, width, offer, fresh,
                       seen, toAdd, compositorSays>>,
           pw' = pw \/ (pw = "paused" /\ pw' = "streaming" /\ toAdd = {} /\ Linked)
    PROVE  IInv'
<1>1. TypeOK'
    BY DEF IInv, TypeOK, Places, pumpKeeps, compositorSays
<1>2. DequeuedForFrame'
    BY DEF IInv, DequeuedForFrame, TypeOK
<1>3. LinkShape'
    BY DEF IInv, LinkShape
<1>4. BackedTogether'
    <2>1. \A b \in Slots : slot[b] = "absent" => slot'[b] = "absent"
        OBVIOUS
    <2>2. allBacked' = allBacked /\ owned' = owned /\ toAdd' = toAdd
        BY DEF compositorSays
    <2>3. CASE pw' = pw
        BY <2>1, <2>2, <2>3 DEF IInv, BackedTogether
    <2>4. CASE toAdd = {} /\ Linked
        <3>1. \E b \in Slots : slot[b] # "absent"
            BY <2>4 DEF Linked
        <3> QED BY <2>2, <3>1 DEF IInv, BackedTogether
    <2> QED BY <2>3, <2>4
<1>5. FramesExcludeReconfiguration'
    BY DEF IInv, FramesExcludeReconfiguration, pumpKeeps
<1>6. OfferIsCurrent'
    BY DEF IInv, OfferIsCurrent, pumpKeeps
<1>7. SomethingDrives'
    BY DEF SomethingDrives
<1> QED BY <1>1, <1>2, <1>3, <1>4, <1>5, <1>6, <1>7 DEF IInv

\* The timer runs.
LEMMA FpsTimerStep == ASSUME IInv, FpsTimer PROVE IInv'
<1>0. /\ UNCHANGED <<pumpKeeps, pw, owned, size, width, offer, fresh, seen, toAdd, events, compositorSays>>
      /\ slot \in [Slots -> Places] /\ events \in Seq(Event)
    BY DEF FpsTimer, pumpKeeps, IInv, TypeOK, Places
<1>1. CASE frameInFlight
    <2>1. fpsTimer' = FALSE /\ UNCHANGED <<slot, frameInFlight, inSlot, attached, mismatched>>
        BY <1>1 DEF FpsTimer
    <2> QED BY <1>0, <1>1, <2>1, InFlightKeeps
<1>2. CASE ~frameInFlight
    <2>1. ProcessRequest(pw, slot, FALSE, TRUE)
        BY <1>2 DEF FpsTimer
    <2>2. \A b \in owned : slot[b] # "dequeued"
        BY <1>2 DEF IInv, DequeuedForFrame
    <2>3. Pumped(pw, slot)
        BY <1>0, <2>1, <2>2, ProcessRequestPumps DEF IInv
    <2>4. Pumped(pw', slot)
        BY <1>0, <2>3
    <2> QED BY <1>0, <2>4, PumpedKeeps
<1> QED BY <1>1, <1>2

\* PipeWire calls processRequest, having perhaps got a buffer back.
LEMMA WakeKeeps ==
    ASSUME IInv, NEW now \in [Slots -> Places],
           \A b \in Slots : now[b] = slot[b] \/ (slot[b] = "consumer" /\ now[b] = "free"),
           Wake(pw', now),
           UNCHANGED <<pumpKeeps, owned, size, width, offer, fresh, seen, toAdd, events, compositorSays>>,
           pw' = pw \/ (pw = "paused" /\ pw' = "streaming" /\ toAdd = {} /\ Linked)
    PROVE  IInv'
<1>0. events \in Seq(Event) /\ fpsTimer \in BOOLEAN /\ owned \subseteq Slots
    BY DEF IInv, TypeOK
<1>1. CASE frameInFlight
    <2>1. slot' = now /\ UNCHANGED <<fpsTimer, frameInFlight, inSlot, attached, mismatched>>
        BY <1>1 DEF Wake
    <2> QED BY <1>0, <1>1, <2>1, InFlightKeeps
<1>2. CASE ~frameInFlight
    <2>1. ProcessRequest(pw', now, fpsTimer, FALSE)
        BY <1>2 DEF Wake
    <2>2. \A b \in owned : now[b] # "dequeued"
        BY <1>0, <1>2 DEF IInv, DequeuedForFrame
    <2>3. Pumped(pw', now)
        BY <1>0, <2>1, <2>2, ProcessRequestPumps DEF IInv
    <2>4. \A b \in Slots : slot[b] = "absent" => now[b] = "absent"
        OBVIOUS
    <2> QED BY <1>0, <2>3, <2>4, PumpedKeeps
<1> QED BY <1>1, <1>2

\* The link starts.
LEMMA StartStreamingStep == ASSUME IInv, StartStreaming PROVE IInv'
<1>1. /\ pw = "paused" /\ pw' = "streaming" /\ toAdd = {} /\ Linked
      /\ Wake(pw', slot)
      /\ UNCHANGED <<pumpKeeps, owned, size, width, offer, fresh, seen, toAdd, events, compositorSays>>
    BY DEF StartStreaming
<1>2. slot \in [Slots -> Places]
    BY DEF IInv, TypeOK, Places
<1> QED BY <1>1, <1>2, WakeKeeps

\* The consumer gives a buffer back.
LEMMA RecycleStep == ASSUME IInv, NEW c \in Slots, Recycle(c) PROVE IInv'
<1> DEFINE now == [slot EXCEPT ![c] = "free"]
<1>1. /\ slot[c] = "consumer" /\ pw' = pw
      /\ Wake(pw', now)
      /\ UNCHANGED <<pumpKeeps, owned, size, width, offer, fresh, seen, toAdd, events, compositorSays>>
    BY DEF Recycle
<1>2. now \in [Slots -> Places] /\ \A b \in Slots : now[b] = slot[b] \/ (slot[b] = "consumer" /\ now[b] = "free")
    BY <1>1 DEF IInv, TypeOK, Places
<1> HIDE DEF now
<1> QED BY <1>1, <1>2, WakeKeeps

\* The frame is answered: its buffer goes to the consumer and the next is asked for.
LEMMA FrameEndKeeps ==
    ASSUME IInv, events # <<>>, events' = Tail(events),
           ProcessRequest(pw, Queued(inSlot), fpsTimer, FALSE),
           UNCHANGED <<pumpKeeps, pw, owned, size, width, offer, fresh, seen, toAdd, compositorSays>>
    PROVE  IInv'
<1>1. fpsTimer \in BOOLEAN /\ Tail(events) \in Seq(Event)
    BY TakeEvent DEF IInv, TypeOK
<1>2. Pumped(pw, Queued(inSlot))
    BY <1>1, QueuedReturns, ProcessRequestPumps DEF IInv
<1>3. Pumped(pw', Queued(inSlot))
    BY <1>2
<1> QED BY <1>1, <1>3, QueuedReturns, PumpedKeeps

\* The frame is ready.
LEMMA FrameReadyStep == ASSUME IInv, FrameReady PROVE IInv'
<1>0. /\ events # <<>> /\ events' = Tail(events)
      /\ UNCHANGED <<pumpKeeps, pw, owned, size, width, offer, fresh, seen, toAdd, compositorSays>>
    BY DEF FrameReady, FrameEnds, Receive, pumpKeeps
<1>1. CASE inSlot \in owned /\ Connected(pw)
    <2>1. ProcessRequest(pw, Queued(inSlot), fpsTimer, FALSE)
        BY <1>1 DEF FrameReady
    <2> QED BY <1>0, <2>1, FrameEndKeeps
<1>2. CASE ~(inSlot \in owned /\ Connected(pw))
    <2>1. NoFrame /\ UNCHANGED <<slot, fpsTimer, attached, mismatched>>
        BY <1>2 DEF FrameReady
    <2>2. inSlot \notin owned
        BY <1>2 DEF IInv, LinkShape, TypeOK, Connected
    <2>3. /\ frameInFlight' = FALSE /\ inSlot' = NoSlot /\ NoSlot \notin Slots
          /\ slot' = slot /\ fpsTimer' = fpsTimer /\ attached' = attached
          /\ mismatched' = mismatched
        BY <2>1, StreamPumpAssumption DEF NoFrame
    <2>4. Tail(events) \in Seq(Event)
        BY <1>0, TakeEvent DEF IInv, TypeOK
    <2>5. TypeOK'
        <3>1. mismatched' \in BOOLEAN /\ attached' \in Sizes \cup {None} /\ fpsTimer' \in BOOLEAN
            BY <2>3 DEF IInv, TypeOK
        <3>2. /\ UNCHANGED <<stopped, constraints, constraintsDirty, waitingForConstraints, reconfiguring, target>>
              /\ UNCHANGED <<want, owes, allBacked, resizes, relinks>>
            BY <1>0 DEF pumpKeeps, compositorSays
        <3> QED BY <1>0, <2>3, <2>4, <3>1, <3>2 DEF IInv, TypeOK
    <2>6. DequeuedForFrame'
        BY <1>0, <2>2, <2>3 DEF IInv, DequeuedForFrame
    <2>7. LinkShape' /\ BackedTogether'
        BY <1>0, <2>3 DEF IInv, LinkShape, BackedTogether, compositorSays
    <2>8. FramesExcludeReconfiguration' /\ OfferIsCurrent'
        BY <1>0, <2>3 DEF IInv, FramesExcludeReconfiguration, OfferIsCurrent, pumpKeeps
    <2>9. SomethingDrives'
        <3> SUFFICES ASSUME pw = "streaming", allBacked
                     PROVE  \/ fpsTimer \/ reconfiguring \/ waitingForConstraints
                            \/ \E b \in Slots : slot[b] = "consumer"
            BY <1>0, <2>3 DEF SomethingDrives, pumpKeeps, compositorSays
        <3>1. owned = Slots
            BY DEF IInv, BackedTogether
        <3>2. ~frameInFlight
            BY <2>2, <3>1 DEF IInv, TypeOK
        <3> QED BY <3>2 DEF IInv, SomethingDrives
    <2> QED BY <2>5, <2>6, <2>7, <2>8, <2>9 DEF IInv
<1> QED BY <1>1, <1>2

\* The frame is tried again.
LEMMA FrameRetryStep == ASSUME IInv, FrameRetry PROVE IInv'
<1>1. /\ events # <<>> /\ events' = Tail(events)
      /\ ProcessRequest(pw, Queued(inSlot), fpsTimer, FALSE)
      /\ UNCHANGED <<pumpKeeps, pw, owned, size, width, offer, fresh, seen, toAdd, compositorSays>>
    BY DEF FrameRetry, FrameEnds, Receive, pumpKeeps
<1> QED BY <1>1, FrameEndKeeps
-----------------------------------------------------------------------------
(* The steps that stop or reconfigure. *)

\* A stopped stream has nothing that could break the invariant.
LEMMA StopKeeps ==
    ASSUME IInv, Stop,
           constraints' \in Sizes, target' \in Sizes, size' \in [Slots -> Sizes],
           constraintsDirty' \in BOOLEAN, waitingForConstraints' \in BOOLEAN, reconfiguring' \in BOOLEAN,
           allBacked' \in BOOLEAN,
           UNCHANGED <<width, offer, fresh, seen, want, owes, resizes, relinks>>
    PROVE  IInv'
<1>1. /\ stopped' = TRUE /\ fpsTimer' = FALSE /\ frameInFlight' = FALSE /\ inSlot' = NoSlot
      /\ pw' = "unconnected" /\ slot' = [b \in Slots |-> "absent"] /\ owned' = {} /\ toAdd' = {}
      /\ attached' = None /\ events' = <<>> /\ mismatched' = FALSE /\ NoSlot \notin Slots
    BY StreamPumpAssumption DEF Stop, NoFrame, RemoveBuffers
<1>2. TypeOK'
    <2>1. events' \in Seq(Event)
        BY <1>1, EmptySeq
    <2>2. slot' \in [Slots -> {"absent", "free", "dequeued", "consumer"}]
        BY <1>1
    <2> QED BY <1>1, <2>1, <2>2 DEF IInv, TypeOK
<1>3. DequeuedForFrame' /\ LinkShape' /\ BackedTogether'
    BY <1>1 DEF DequeuedForFrame, LinkShape, BackedTogether
<1>4. FramesExcludeReconfiguration' /\ OfferIsCurrent' /\ SomethingDrives'
    BY <1>1 DEF FramesExcludeReconfiguration, OfferIsCurrent, SomethingDrives
<1> QED BY <1>2, <1>3, <1>4 DEF IInv

\* reconfigureStream, with no backed buffer dequeued: the offer is that of the
\* constraints, which are not dirty any more, or the stream stops.
LEMMA ReconfigureKeeps ==
    ASSUME IInv, NEW z \in Sizes, NEW now \in [Slots -> Places], NEW rest \in Seq(Event),
           \A b \in owned : now[b] # "dequeued",
           \A b \in Slots : slot[b] = "absent" => now[b] = "absent",
           Reconfigure(z, now, fpsTimer, rest),
           constraints' = z, waitingForConstraints' \in BOOLEAN,
           UNCHANGED <<size, seen, compositorSays>>
    PROVE  IInv'
<1>1. reconfiguring' = TRUE /\ target' = z /\ constraintsDirty' = FALSE
    BY DEF Reconfigure
<1>2. CASE Stop /\ RefusesOffer
    <2>1. UNCHANGED <<width, offer, fresh, seen, want, owes, resizes, relinks>> /\ allBacked' \in BOOLEAN
          /\ size' \in [Slots -> Sizes]
        BY <1>2 DEF RefusesOffer, compositorSays, IInv, TypeOK
    <2> QED BY <1>1, <1>2, <2>1, StopKeeps
<1>3. CASE /\ Offer(z)
           /\ slot' = now /\ fpsTimer' = fpsTimer /\ events' = rest
           /\ NoFrame /\ UNCHANGED <<stopped, pw, owned, toAdd, attached, mismatched>>
    <2>1. /\ offer' = z /\ width' = z /\ fresh' = TRUE
          /\ frameInFlight' = FALSE /\ inSlot' = NoSlot /\ NoSlot \notin Slots
        BY <1>3, StreamPumpAssumption DEF Offer, NoFrame
    <2>2. TypeOK'
        BY <1>1, <1>3, <2>1 DEF IInv, TypeOK, Places, compositorSays
    <2>3. DequeuedForFrame'
        BY <1>3 DEF DequeuedForFrame
    <2>4. LinkShape' /\ BackedTogether'
        <3>1. LinkShape'
            BY <1>3 DEF IInv, LinkShape
        <3>2. allBacked' = allBacked
            BY DEF compositorSays
        <3> QED BY <1>3, <3>1, <3>2 DEF IInv, BackedTogether
    <2>5. FramesExcludeReconfiguration' /\ OfferIsCurrent' /\ SomethingDrives'
        BY <1>1, <2>1 DEF FramesExcludeReconfiguration, OfferIsCurrent, SomethingDrives
    <2> QED BY <2>2, <2>3, <2>4, <2>5 DEF IInv
<1> QED BY <1>2, <1>3 DEF Reconfigure

\* The constraints are announced.
LEMMA ConstraintsChangedStep == ASSUME IInv, NEW z \in Sizes, ConstraintsChanged(z) PROVE IInv'
<1>0. /\ events # <<>> /\ Head(events) = <<"done", z>>
      /\ constraints' = z /\ waitingForConstraints' = FALSE
      /\ UNCHANGED <<size, seen, compositorSays>>
    BY DEF ConstraintsChanged, Receive
<1>1. Tail(events) \in Seq(Event) /\ (AnswerComing(events) => AnswerComing(Tail(events)))
    <2>1. \A k \in Answers : Head(events) # <<k, None>>
        BY <1>0 DEF Answers, FrameEvents
    <2> QED BY <1>0, <2>1, TakeEvent DEF IInv, TypeOK
<1>2. CASE frameInFlight \/ reconfiguring
    <2>1. /\ constraintsDirty' = TRUE /\ events' = Tail(events)
          /\ UNCHANGED <<reconfiguring, target, stopped, fpsTimer, frameInFlight, inSlot,
                         pw, slot, owned, toAdd, width, offer, fresh, attached, mismatched>>
        BY <1>2 DEF ConstraintsChanged
    <2>2. TypeOK'
        BY <1>0, <1>1, <2>1 DEF IInv, TypeOK, compositorSays
    <2>3. DequeuedForFrame' /\ LinkShape'
        BY <2>1 DEF IInv, DequeuedForFrame, LinkShape
    <2>4. BackedTogether'
        BY <1>0, <2>1 DEF IInv, BackedTogether, compositorSays
    <2>5. FramesExcludeReconfiguration'
        BY <1>1, <2>1 DEF IInv, FramesExcludeReconfiguration, AnswerComing, Answers
    <2>6. OfferIsCurrent' /\ SomethingDrives'
        BY <1>2, <2>1 DEF OfferIsCurrent, SomethingDrives
    <2> QED BY <2>2, <2>3, <2>4, <2>5, <2>6 DEF IInv
<1>3. CASE ~(frameInFlight \/ reconfiguring)
    <2>1. Reconfigure(z, slot, fpsTimer, Tail(events))
        BY <1>3 DEF ConstraintsChanged
    <2>2. slot \in [Slots -> Places] /\ \A b \in owned : slot[b] # "dequeued"
        BY <1>3 DEF IInv, TypeOK, DequeuedForFrame, Places
    <2> QED BY <1>0, <1>1, <2>1, <2>2, ReconfigureKeeps
<1> QED BY <1>2, <1>3

\* The buffer does not fit the constraints.
LEMMA FrameMisfitStep == ASSUME IInv, FrameMisfit PROVE IInv'
<1>0. /\ events # <<>> /\ Tail(events) \in Seq(Event) /\ constraints \in Sizes
      /\ constraints' = constraints /\ UNCHANGED <<size, seen, compositorSays>>
    BY TakeEvent DEF FrameMisfit, FrameEnds, Receive, IInv, TypeOK
<1>1. CASE constraintsDirty
    <2>1. /\ Reconfigure(constraints, Queued(inSlot), fpsTimer, Tail(events))
          /\ waitingForConstraints' = waitingForConstraints /\ waitingForConstraints \in BOOLEAN
        BY <1>1 DEF FrameMisfit, IInv, TypeOK
    <2> QED BY <1>0, <2>1, QueuedReturns, ReconfigureKeeps
<1>2. CASE ~constraintsDirty
    <2> DEFINE now == Queued(inSlot)
    <2>1. /\ waitingForConstraints' = TRUE /\ slot' = now /\ events' = Tail(events)
          /\ frameInFlight' = FALSE /\ inSlot' = NoSlot /\ NoSlot \notin Slots
          /\ UNCHANGED <<constraintsDirty, reconfiguring, target, stopped, fpsTimer,
                         pw, owned, toAdd, width, offer, fresh, attached, mismatched>>
        BY <1>2, StreamPumpAssumption DEF FrameMisfit, NoFrame
    <2>2. /\ now \in [Slots -> Places] /\ \A b \in owned : now[b] # "dequeued"
          /\ \A b \in Slots : slot[b] = "absent" => now[b] = "absent"
        BY QueuedReturns
    <2> HIDE DEF now
    <2>3. TypeOK'
        BY <1>0, <2>1, <2>2 DEF IInv, TypeOK, Places, compositorSays
    <2>4. DequeuedForFrame' /\ LinkShape'
        BY <2>1, <2>2 DEF IInv, DequeuedForFrame, LinkShape
    <2>5. BackedTogether'
        BY <1>0, <2>1, <2>2 DEF IInv, BackedTogether, compositorSays
    <2>6. FramesExcludeReconfiguration' /\ SomethingDrives'
        BY <2>1 DEF FramesExcludeReconfiguration, SomethingDrives
    <2>7. OfferIsCurrent'
        BY <1>0, <2>1 DEF IInv, OfferIsCurrent
    <2> QED BY <2>3, <2>4, <2>5, <2>6, <2>7 DEF IInv
<1> QED BY <1>1, <1>2

\* The capture ends, or the session lets the stream go.
LEMMA StopStep == ASSUME IInv, CaptureStopped \/ SessionClears PROVE IInv'
<1>1. Stop /\ UNCHANGED stopLeaves
    BY DEF CaptureStopped, SessionClears
<1>2. /\ UNCHANGED <<width, offer, fresh, seen, want, owes, resizes, relinks>>
      /\ constraints' = constraints /\ target' = target /\ size' = size /\ allBacked' = allBacked
      /\ constraintsDirty' = constraintsDirty /\ waitingForConstraints' = waitingForConstraints
      /\ reconfiguring' = reconfiguring
    BY <1>1 DEF stopLeaves, compositorSays
<1> QED BY <1>1, <1>2, StopKeeps DEF IInv, TypeOK

-----------------------------------------------------------------------------
(* PipeWire. *)

\* The node is bound.
LEMMA BindStep == ASSUME IInv, Bind PROVE IInv'
<1>1. /\ pw = "connecting" /\ pw' = "paused"
      /\ UNCHANGED <<pumpVars, slot, owned, size, width, offer, fresh, seen, toAdd, compositorVars,
                     allBacked, mismatched, resizes, relinks>>
    BY DEF Bind
<1>2. TypeOK'
    BY <1>1 DEF IInv, TypeOK, pumpVars, compositorVars
<1>3. DequeuedForFrame' /\ LinkShape' /\ BackedTogether'
    BY <1>1 DEF IInv, DequeuedForFrame, LinkShape, BackedTogether, pumpVars
<1>4. FramesExcludeReconfiguration' /\ OfferIsCurrent' /\ SomethingDrives'
    BY <1>1 DEF IInv, FramesExcludeReconfiguration, OfferIsCurrent, SomethingDrives, pumpVars, compositorVars
<1> QED BY <1>2, <1>3, <1>4 DEF IInv

\* Buffers are removed and others announced, for a format of some size.
LEMMA NegotiateKeeps ==
    ASSUME IInv, NEW z \in Sizes, NEW next \in SUBSET Slots, Negotiate(z, next),
           UNCHANGED <<pumpVars, size, offer, compositorVars, mismatched, resizes>>,
           fresh' \in BOOLEAN, seen' \in Sizes, relinks' \in 0..MaxRelinks
    PROVE  IInv'
<1>1. /\ pw' = "paused" /\ slot' = [b \in Slots |-> "absent"] /\ owned' = {}
      /\ width' = z /\ toAdd' = next
      /\ allBacked' = (allBacked /\ next \in {{}, Slots})
    BY DEF Negotiate, RemoveBuffers
<1>2. TypeOK'
    <2>1. slot' \in [Slots -> {"absent", "free", "dequeued", "consumer"}] /\ allBacked' \in BOOLEAN
        BY <1>1
    <2> QED BY <1>1, <2>1 DEF IInv, TypeOK, pumpVars, compositorVars
<1>3. DequeuedForFrame' /\ LinkShape' /\ BackedTogether'
    BY <1>1 DEF DequeuedForFrame, LinkShape, BackedTogether
<1>4. FramesExcludeReconfiguration' /\ OfferIsCurrent' /\ SomethingDrives'
    BY <1>1 DEF IInv, FramesExcludeReconfiguration, OfferIsCurrent, SomethingDrives, pumpVars, compositorVars
<1> QED BY <1>2, <1>3, <1>4 DEF IInv

\* A consumer links anew or leaves.
LEMMA LinkStep == ASSUME IInv, Relink \/ Unlink PROVE IInv'
<1>1. relinks' \in 0..MaxRelinks
    <2>1. relinks \in 0..MaxRelinks /\ relinks < MaxRelinks /\ relinks' = relinks + 1 /\ MaxRelinks \in Nat
        BY StreamPumpAssumption DEF Relink, Unlink, IInv, TypeOK
    <2> QED BY <2>1
<1>2. UNCHANGED <<pumpVars, size, offer, fresh, seen, compositorVars, mismatched, resizes>>
    BY DEF Relink, Unlink
<1>3. fresh' \in BOOLEAN /\ seen' \in Sizes /\ seen \in Sizes /\ width \in Sizes
    BY <1>2 DEF IInv, TypeOK
<1>4. CASE Relink
    <2>1. PICK next \in Backings : Negotiate(seen, next)
        BY <1>4 DEF Relink
    <2>2. next \in SUBSET Slots
        BY DEF Backings
    <2> QED BY <1>1, <1>2, <1>3, <2>1, <2>2, NegotiateKeeps
<1>5. CASE Unlink
    <2>1. Negotiate(width, {}) /\ {} \in SUBSET Slots
        BY <1>5 DEF Unlink
    <2> QED BY <1>1, <1>2, <1>3, <2>1, NegotiateKeeps
<1> QED BY <1>4, <1>5

\* PipeWire takes up the offer.
LEMMA TakeOfferStep == ASSUME IInv, TakeOffer PROVE IInv'
<1>1. /\ fresh' = FALSE /\ seen' = offer /\ offer \in Sizes
      /\ UNCHANGED <<pumpVars, size, offer, compositorVars, mismatched, resizes, relinks>>
      /\ relinks' \in 0..MaxRelinks
    BY DEF TakeOffer, IInv, TypeOK
<1>2. CASE Linked
    <2>1. PICK next \in Backings : Negotiate(offer, next)
        BY <1>2 DEF TakeOffer
    <2>2. next \in SUBSET Slots
        BY DEF Backings
    <2> QED BY <1>1, <2>1, <2>2, NegotiateKeeps
<1>3. CASE ~Linked
    <2>1. UNCHANGED <<pw, slot, owned, width, toAdd, allBacked>>
        BY <1>3 DEF TakeOffer
    <2>2. TypeOK'
        <3>1. fresh' \in BOOLEAN /\ seen' \in Sizes
            BY <1>1
        <3>2. UNCHANGED <<pumpVars, size, offer, compositorVars, mismatched, resizes, relinks>>
            BY <1>1
        <3> QED BY <2>1, <3>1, <3>2 DEF IInv, TypeOK, pumpVars, compositorVars
    <2>3. DequeuedForFrame' /\ LinkShape' /\ BackedTogether'
        BY <1>1, <2>1 DEF IInv, DequeuedForFrame, LinkShape, BackedTogether, pumpVars
    <2>4. FramesExcludeReconfiguration' /\ OfferIsCurrent' /\ SomethingDrives'
        BY <1>1, <2>1 DEF IInv, FramesExcludeReconfiguration, OfferIsCurrent, SomethingDrives, pumpVars, compositorVars
    <2> QED BY <2>2, <2>3, <2>4 DEF IInv
<1> QED BY <1>2, <1>3

\* The buffers are added, those whose allocation succeeds being backed.
LEMMA AddBuffersStep == ASSUME IInv, AddBuffers PROVE IInv'
<1>0. toAdd # {} /\ toAdd \subseteq Slots /\ pw # "streaming" /\ UNCHANGED addLeaves
    BY DEF AddBuffers, IInv, TypeOK, LinkShape
<1>1. PICK backed \in Allocatable(toAdd) :
            \E first \in IF backed = {} THEN {NoSlot} ELSE backed : BuffersAdded(backed, first)
    BY DEF AddBuffers
<1>2. PICK first : BuffersAdded(backed, first)
    BY <1>1
<1> DEFINE matches == backed # {} /\ Awaited(width)
           restart == matches /\ constraintsDirty
           added == /\ slot' = [b \in Slots |-> IF b \in toAdd THEN "free" ELSE slot[b]]
                    /\ owned' = owned \cup backed
                    /\ toAdd' = {}
                    /\ UNCHANGED <<stopped, frameInFlight, inSlot, pw, attached, mismatched, events>>
<1>3. backed \subseteq toAdd
    BY DEF Allocatable
<1>4. /\ allBacked' = (allBacked /\ backed = toAdd)
      /\ constraintsDirty' = (constraintsDirty /\ ~restart)
      /\ size' \in [Slots -> Sizes] /\ allBacked' \in BOOLEAN /\ constraintsDirty' \in BOOLEAN
      /\ constraints \in Sizes
    BY <1>2 DEF BuffersAdded, IInv, TypeOK
<1>5. matches => reconfiguring
    BY DEF Awaited
<1>6. \/ /\ ~restart /\ added
         /\ reconfiguring' = (reconfiguring /\ ~matches)
         /\ fpsTimer' = (fpsTimer \/ matches)
         /\ UNCHANGED <<target, offer, width, fresh>>
      \/ /\ restart /\ added
         /\ target' = constraints /\ Offer(constraints)
         /\ reconfiguring' = (backed = {first})
         /\ fpsTimer' = (fpsTimer \/ backed # {first})
      \/ /\ restart /\ Stop
         /\ target' = constraints /\ reconfiguring' = TRUE
         /\ RefusesOffer
    BY <1>2 DEF BuffersAdded
<1>7. restart => matches /\ constraintsDirty
    OBVIOUS
<1> HIDE DEF matches, restart
<1>8. ASSUME added,
             target' \in Sizes, offer' \in Sizes, width' \in Sizes, fresh' \in BOOLEAN,
             reconfiguring' \in BOOLEAN, fpsTimer' \in BOOLEAN,
             reconfiguring' => reconfiguring,
             \/ offer' = constraints
             \/ offer' = offer /\ constraintsDirty' = constraintsDirty
      PROVE  IInv'
    <2>1. slot' \in [Slots -> Places]
        BY <1>8 DEF IInv, TypeOK, Places
    <2>2. TypeOK'
        BY <1>0, <1>3, <1>4, <1>8, <2>1 DEF IInv, TypeOK, Places, addLeaves
    <2>3. DequeuedForFrame'
        BY <1>0, <1>3, <1>8 DEF IInv, DequeuedForFrame, TypeOK
    <2>4. LinkShape'
        BY <1>0, <1>8 DEF IInv, LinkShape
    <2>5. BackedTogether'
        <3> SUFFICES ASSUME allBacked' PROVE owned' = Slots /\ toAdd' = {}
            BY DEF BackedTogether
        <3>1. allBacked /\ backed = toAdd
            BY <1>4
        <3>2. toAdd = Slots
            BY <1>0, <3>1 DEF IInv, BackedTogether
        <3> QED BY <1>8, <3>1, <3>2 DEF IInv, TypeOK
    <2>6. FramesExcludeReconfiguration'
        BY <1>8 DEF IInv, FramesExcludeReconfiguration
    <2>7. OfferIsCurrent'
        BY <1>0, <1>8 DEF IInv, OfferIsCurrent, addLeaves
    <2>8. SomethingDrives'
        BY <1>0, <1>8 DEF SomethingDrives
    <2> QED BY <2>2, <2>3, <2>4, <2>5, <2>6, <2>7, <2>8 DEF IInv
<1>9. reconfiguring \in BOOLEAN /\ fpsTimer \in BOOLEAN /\ target \in Sizes /\ offer \in Sizes /\ width \in Sizes
      /\ fresh \in BOOLEAN
    BY DEF IInv, TypeOK
<1>10. CASE /\ ~restart /\ added
           /\ reconfiguring' = (reconfiguring /\ ~matches)
           /\ fpsTimer' = (fpsTimer \/ matches)
           /\ UNCHANGED <<target, offer, width, fresh>>
    <2>1. constraintsDirty' = constraintsDirty
        BY <1>4, <1>10 DEF IInv, TypeOK
    <2>2. reconfiguring' \in BOOLEAN /\ fpsTimer' \in BOOLEAN /\ (reconfiguring' => reconfiguring)
        BY <1>10
    <2> QED BY <1>8, <1>9, <1>10, <2>1, <2>2
<1>11. CASE /\ restart /\ added
            /\ target' = constraints /\ Offer(constraints)
            /\ reconfiguring' = (backed = {first})
            /\ fpsTimer' = (fpsTimer \/ backed # {first})
    <2>1. offer' = constraints /\ width' = constraints /\ fresh' = TRUE
        BY <1>11 DEF Offer
    <2>2. reconfiguring' \in BOOLEAN /\ fpsTimer' \in BOOLEAN /\ reconfiguring
        BY <1>5, <1>7, <1>11
    <2> QED BY <1>4, <1>8, <1>11, <2>1, <2>2
<1>12. CASE /\ restart /\ Stop
            /\ target' = constraints /\ reconfiguring' = TRUE
            /\ RefusesOffer
    <2>1. /\ UNCHANGED <<width, offer, fresh, seen, want, owes, resizes, relinks>>
          /\ constraints' = constraints /\ waitingForConstraints' = waitingForConstraints
        BY <1>0, <1>12 DEF RefusesOffer, addLeaves
    <2>2. waitingForConstraints' \in BOOLEAN
        BY <2>1 DEF IInv, TypeOK
    <2> QED BY <1>4, <1>12, <2>1, <2>2, StopKeeps
<1> QED BY <1>6, <1>10, <1>11, <1>12

-----------------------------------------------------------------------------
(* The compositor. *)

\* The compositor sends an event or changes its mind; an outstanding frame it gives
\* up it answers.
LEMMA CompositorKeeps ==
    ASSUME IInv, UNCHANGED compositorLeaves,
           want' \in Sizes, owes' \in BOOLEAN, resizes' \in 0..MaxResizes,
           attached' \in Sizes \cup {None}, events' \in Seq(Event),
           AnswerComing(events) => AnswerComing(events'),
           attached # None => attached' # None \/ AnswerComing(events')
    PROVE  IInv'
<1>1. UNCHANGED <<pumpVars, pipewireVars, allBacked, mismatched, relinks>>
    BY DEF compositorLeaves
<1>2. TypeOK'
    BY <1>1 DEF IInv, TypeOK, pumpVars, pipewireVars
<1>3. DequeuedForFrame' /\ LinkShape' /\ BackedTogether'
    BY <1>1 DEF IInv, DequeuedForFrame, LinkShape, BackedTogether, pumpVars, pipewireVars
<1>4. FramesExcludeReconfiguration'
    BY <1>1 DEF IInv, FramesExcludeReconfiguration, AnswerComing, Answers, pumpVars
<1>5. OfferIsCurrent' /\ SomethingDrives'
    BY <1>1 DEF IInv, OfferIsCurrent, SomethingDrives, pumpVars, pipewireVars
<1> QED BY <1>2, <1>3, <1>4, <1>5 DEF IInv

\* The source changes size.
LEMMA ResizeStep == ASSUME IInv, NEW z \in Sizes, Resize(z) PROVE IInv'
<1>1. /\ want' = z /\ owes' = TRUE /\ attached' = attached /\ events' = events
      /\ resizes < MaxResizes /\ resizes' = resizes + 1 /\ UNCHANGED compositorLeaves
    BY DEF Resize
<1>2. resizes' \in 0..MaxResizes
    BY <1>1, StreamPumpAssumption DEF IInv, TypeOK
<1> QED BY <1>1, <1>2, CompositorKeeps DEF IInv, TypeOK

\* The change of size is announced.
LEMMA AnnounceStep == ASSUME IInv, Announce PROVE IInv'
<1>1. /\ owes' = FALSE /\ events' = Append(events, <<"done", want>>)
      /\ want' = want /\ attached' = attached /\ resizes' = resizes /\ UNCHANGED compositorLeaves
    BY DEF Announce
<1>2. <<"done", want>> \in Event /\ events \in Seq(Event)
    BY DEF IInv, TypeOK, Event
<1>3. events' \in Seq(Event) /\ (AnswerComing(events) => AnswerComing(events'))
    BY <1>1, <1>2, SendEvent
<1> QED BY <1>1, <1>3, CompositorKeeps DEF IInv, TypeOK

\* The frame is answered, or the capture withdrawn.
LEMMA AnswerStep == ASSUME IInv, Answer \/ Withdraw PROVE IInv'
<1>1. /\ attached' = None /\ want' = want /\ owes' = owes /\ resizes' = resizes
      /\ UNCHANGED compositorLeaves
    BY DEF Answer, Withdraw
<1>2. PICK k \in Answers : events' = Append(events, <<k, None>>)
    BY DEF Answer, Withdraw, Answers, FrameEvents
<1>3. <<k, None>> \in Event /\ events \in Seq(Event)
    BY DEF IInv, TypeOK, Event, Answers
<1>4. events' \in Seq(Event) /\ AnswerComing(events')
    BY <1>2, <1>3, SendEvent
<1> QED BY <1>1, <1>4, CompositorKeeps DEF IInv, TypeOK

-----------------------------------------------------------------------------
(* The inductive invariant. *)

\* Every step keeps it.
LEMMA NextInductive == IInv /\ [Next]_vars => IInv'
<1> SUFFICES ASSUME IInv, [Next]_vars PROVE IInv'
    OBVIOUS
<1>1. CASE FpsTimer
    BY <1>1, FpsTimerStep
<1>2. CASE Dispatch
    BY <1>2, FrameReadyStep, FrameRetryStep, FrameMisfitStep, StopStep, ConstraintsChangedStep DEF Dispatch
<1>3. CASE SessionClears
    BY <1>3, StopStep
<1>4. CASE Bind \/ Relink \/ Unlink \/ TakeOffer \/ StartStreaming
    BY <1>4, BindStep, LinkStep, TakeOfferStep, StartStreamingStep
<1>5. CASE AddBuffers \/ \E b \in Slots : Recycle(b)
    BY <1>5, AddBuffersStep, RecycleStep
<1>6. CASE Announce \/ Answer \/ Withdraw \/ \E z \in Sizes : Resize(z)
    BY <1>6, AnnounceStep, AnswerStep, ResizeStep
<1>7. CASE UNCHANGED vars
    <2>1. UNCHANGED <<pumpVars, pipewireVars, compositorVars, allBacked, mismatched, resizes, relinks>>
        BY <1>7 DEF vars
    <2>2. TypeOK'
        BY <2>1 DEF IInv, TypeOK, pumpVars, pipewireVars, compositorVars
    <2>3. DequeuedForFrame' /\ LinkShape' /\ BackedTogether'
        BY <2>1 DEF IInv, DequeuedForFrame, LinkShape, BackedTogether, pumpVars, pipewireVars
    <2>4. FramesExcludeReconfiguration' /\ OfferIsCurrent' /\ SomethingDrives'
        BY <2>1 DEF IInv, FramesExcludeReconfiguration, OfferIsCurrent, SomethingDrives, pumpVars, pipewireVars,
                    compositorVars
    <2> QED BY <2>2, <2>3, <2>4 DEF IInv
<1> QED BY <1>1, <1>2, <1>3, <1>4, <1>5, <1>6, <1>7 DEF Next

\* It holds of a stream that is connecting.
LEMMA InitInductive == Init => IInv
<1> SUFFICES ASSUME Init PROVE IInv
    OBVIOUS
<1>1. PICK z \in Sizes : /\ constraints = z /\ target = z /\ width = z /\ offer = z /\ seen = z
                         /\ want = z
                         /\ size = [b \in Slots |-> z]
    BY DEF Init
<1>2. TypeOK
    <2>1. events \in Seq(Event)
        BY EmptySeq DEF Init
    <2>2. 0 \in 0..MaxResizes /\ 0 \in 0..MaxRelinks /\ NoSlot \notin Slots
        BY StreamPumpAssumption
    <2> QED BY <1>1, <2>1, <2>2 DEF Init, TypeOK
<1>3. DequeuedForFrame /\ LinkShape /\ BackedTogether
    BY DEF Init, DequeuedForFrame, LinkShape, BackedTogether
<1>4. FramesExcludeReconfiguration /\ OfferIsCurrent /\ SomethingDrives
    BY <1>1 DEF Init, FramesExcludeReconfiguration, OfferIsCurrent, SomethingDrives
<1> QED BY <1>2, <1>3, <1>4 DEF IInv

-----------------------------------------------------------------------------
(* What follows. *)

\* The inductive invariant: beyond the properties below, that the buffers are there
\* only while the stream is connected, and are backed all or not at all for as long
\* as no negotiation has left one out.
THEOREM SpecIInv == Spec => []IInv
    BY InitInductive, NextInductive, PTL DEF Spec

\* A backed buffer is dequeued only for the frame in flight: whatever becomes of a
\* frame, the buffer it had is given back.
THEOREM StreamPumpBuffersComeBack == Spec => []BuffersComeBack
<1>1. IInv => BuffersComeBack
    BY DEF IInv, DequeuedForFrame, BuffersComeBack
<1> QED BY <1>1, SpecIInv, PTL

\* A frame and a reconfiguration exclude each other, and a frame is always answered.
THEOREM StreamPumpFramesExcludeReconfiguration == Spec => []FramesExcludeReconfiguration
<1>1. IInv => FramesExcludeReconfiguration
    BY DEF IInv
<1> QED BY <1>1, SpecIInv, PTL

\* The stream offers the newest constraints, or has marked them for later.
THEOREM StreamPumpOfferIsCurrent == Spec => []OfferIsCurrent
<1>1. IInv => OfferIsCurrent
    BY DEF IInv
<1> QED BY <1>1, SpecIInv, PTL

-----------------------------------------------------------------------------
(* What a stream that waits for constraints waits for: the announcements of the *)
(* compositor, and the one answer a frame gets.                              *)

OfFrame(e) == e \in FrameEvents \X {None}
Quiet(es) == \A i \in 1..Len(es) : ~OfFrame(es[i])
Single(es) == \A i, j \in 1..Len(es) : OfFrame(es[i]) /\ OfFrame(es[j]) => i = j

Misfit == <<"misfit", None>>
DoneComing(es) == \E z \in Sizes : Contains(es, <<"done", z>>)
LastDone(es, w) ==
    \E i \in 1..Len(es) : es[i] = <<"done", w>> /\ \A j \in 1..Len(es) : j > i => es[j][1] # "done"

\* Once the events have come, the constraints c are those of the size w.
Settled(es, c, w) == LastDone(es, w) \/ (c = w /\ ~DoneComing(es))

\* The newest frame and the constraints the stream knows belong together.
Known == ~constraintsDirty /\ ~mismatched

\* The newest announcement is the size of the source; a frame whose buffer has the
\* size of the constraints fails, and the stream waits, only if it owes or sent others.
Told ==
    /\ ~owes => Settled(events, constraints, want)
    /\ Known /\ attached # None => attached = constraints
    /\ Known /\ Contains(events, Misfit) => Announcing
    /\ waitingForConstraints /\ ~mismatched => Announcing

WaitInv ==
    /\ stopped => pw = "unconnected" /\ events = <<>>
    /\ Single(events)
    /\ ~Quiet(events) => frameInFlight /\ attached = None
    /\ attached # None => frameInFlight
    /\ ~stopped => Told

\* Taking an event leaves the others, and the newest announcement or its outcome.
LEMMA TakeWaits ==
    ASSUME NEW es \in Seq(Event), es # <<>>, NEW c, NEW w \in Sizes
    PROVE  /\ Single(es) => Single(Tail(es))
           /\ Quiet(es) => Quiet(Tail(es))
           /\ Single(es) /\ OfFrame(Head(es)) => Quiet(Tail(es))
           /\ Contains(Tail(es), Misfit) => Contains(es, Misfit)
           /\ Head(es)[1] # "done" /\ DoneComing(es) => DoneComing(Tail(es))
           /\ Head(es)[1] # "done" /\ Settled(es, c, w) => Settled(Tail(es), c, w)
           /\ \A z \in Sizes : Head(es) = <<"done", z>> /\ Settled(es, c, w) => Settled(Tail(es), z, w)
<1> DEFINE rest == Tail(es)
<1>1. /\ Len(rest) = Len(es) - 1 /\ Len(es) \in Nat /\ Len(es) > 0 /\ Head(es) = es[1]
      /\ \A i \in 1..Len(rest) : rest[i] = es[i + 1] /\ i + 1 \in 1..Len(es)
      /\ \A i \in 1..Len(es) : i # 1 => i - 1 \in 1..Len(rest) /\ rest[i - 1] = es[i]
    <2>1. /\ Len(rest) = Len(es) - 1 /\ Len(es) \in Nat /\ Head(es) = es[1]
          /\ \A i \in 1..Len(rest) : rest[i] = es[i + 1]
        BY HeadTailProperties, LenProperties
    <2>2. Len(es) > 0
        BY <2>1, EmptySeq, LenProperties
    <2>3. \A i \in 1..Len(es) : i # 1 => i - 1 \in 1..Len(rest) /\ (i - 1) + 1 = i
        BY <2>1, <2>2
    <2> QED BY <2>1, <2>2, <2>3
<1> HIDE DEF rest
<1>2. Single(es) => Single(rest)
    BY <1>1 DEF Single
<1>3. Quiet(es) => Quiet(rest)
    BY <1>1 DEF Quiet
<1>4. Single(es) /\ OfFrame(Head(es)) => Quiet(rest)
    <2> SUFFICES ASSUME Single(es), OfFrame(Head(es)), NEW i \in 1..Len(rest), OfFrame(rest[i]) PROVE FALSE
        BY DEF Quiet
    <2>1. 1 \in 1..Len(es) /\ i + 1 \in 1..Len(es) /\ OfFrame(es[1]) /\ OfFrame(es[i + 1])
        BY <1>1
    <2>2. i + 1 = 1
        BY <2>1 DEF Single
    <2> QED BY <2>2
<1>5. ASSUME NEW e, Contains(rest, e) PROVE Contains(es, e)
    BY <1>1, <1>5 DEF Contains
<1>6. ASSUME Head(es)[1] # "done", DoneComing(es) PROVE DoneComing(rest)
    <2>1. PICK z \in Sizes, i \in 1..Len(es) : es[i] = <<"done", z>>
        BY <1>6 DEF DoneComing, Contains
    <2>2. i # 1
        BY <1>1, <1>6, <2>1
    <2> QED BY <1>1, <2>1, <2>2 DEF DoneComing, Contains
<1>7. ASSUME LastDone(es, w), Head(es) # <<"done", w>> PROVE LastDone(rest, w)
    <2>1. PICK i \in 1..Len(es) : es[i] = <<"done", w>> /\ \A j \in 1..Len(es) : j > i => es[j][1] # "done"
        BY <1>7 DEF LastDone
    <2>2. i # 1
        BY <1>1, <1>7, <2>1
    <2>3. i - 1 \in 1..Len(rest) /\ rest[i - 1] = <<"done", w>>
        BY <1>1, <2>1, <2>2
    <2>4. \A j \in 1..Len(rest) : j > i - 1 => rest[j][1] # "done"
        BY <1>1, <2>1
    <2> QED BY <2>3, <2>4 DEF LastDone
<1>8. ASSUME Head(es)[1] # "done", Settled(es, c, w) PROVE Settled(rest, c, w)
    <2>1. CASE LastDone(es, w)
        BY <1>7, <1>8, <2>1 DEF Settled
    <2>2. CASE c = w /\ ~DoneComing(es)
        BY <1>5, <2>2 DEF Settled, DoneComing
    <2> QED BY <1>8, <2>1, <2>2 DEF Settled
<1>9. ASSUME NEW z \in Sizes, Head(es) = <<"done", z>>, Settled(es, c, w) PROVE Settled(rest, z, w)
    <2>1. DoneComing(es)
        BY <1>1, <1>9 DEF DoneComing, Contains
    <2>2. LastDone(es, w)
        BY <1>9, <2>1 DEF Settled
    <2>3. CASE LastDone(rest, w)
        BY <2>3 DEF Settled
    <2>4. CASE ~LastDone(rest, w)
        <3>1. PICK i \in 1..Len(es) : es[i] = <<"done", w>> /\ \A j \in 1..Len(es) : j > i => es[j][1] # "done"
            BY <2>2 DEF LastDone
        <3>2. i = 1
            <4> SUFFICES ASSUME i # 1 PROVE FALSE
                OBVIOUS
            <4>1. i - 1 \in 1..Len(rest) /\ rest[i - 1] = <<"done", w>>
                BY <1>1, <3>1
            <4>2. \A j \in 1..Len(rest) : j > i - 1 => rest[j][1] # "done"
                BY <1>1, <3>1
            <4> QED BY <2>4, <4>1, <4>2 DEF LastDone
        <3>3. z = w
            BY <1>1, <1>9, <3>1, <3>2
        <3>4. \A j \in 1..Len(rest) : rest[j][1] # "done"
            BY <1>1, <3>1, <3>2
        <3>5. ~DoneComing(rest)
            BY <3>4 DEF DoneComing, Contains
        <3> QED BY <3>3, <3>5 DEF Settled
    <2> QED BY <2>3, <2>4
<1> QED BY <1>2, <1>3, <1>4, <1>5, <1>6, <1>8, <1>9 DEF rest

\* An event that is sent comes after the others.
LEMMA SendWaits ==
    ASSUME NEW es \in Seq(Event), NEW e \in Event, NEW c, NEW w \in Sizes
    PROVE  LET sent == Append(es, e)
           IN /\ ~OfFrame(e) => (Single(es) => Single(sent)) /\ (Quiet(es) => Quiet(sent))
              /\ Quiet(es) => Single(sent)
              /\ DoneComing(es) => DoneComing(sent)
              /\ e[1] # "done" /\ Settled(es, c, w) => Settled(sent, c, w)
              /\ e = <<"done", w>> => Settled(sent, c, w) /\ DoneComing(sent)
              /\ Contains(sent, Misfit) => Contains(es, Misfit) \/ e = Misfit
<1> DEFINE sent == Append(es, e)
           last == Len(es) + 1
<1>1. /\ Len(sent) = last /\ Len(es) \in Nat /\ last \in 1..Len(sent) /\ sent[last] = e
      /\ \A i \in 1..Len(es) : sent[i] = es[i] /\ i \in 1..Len(sent) /\ i < last
      /\ \A i \in 1..Len(sent) : i = last \/ i \in 1..Len(es)
    <2>1. /\ Len(sent) = last /\ Len(es) \in Nat /\ sent[last] = e
          /\ \A i \in 1..Len(es) : sent[i] = es[i]
        BY AppendProperties, LenProperties
    <2> QED BY <2>1
<1> HIDE DEF sent, last
<1>2. ~OfFrame(e) => (Single(es) => Single(sent)) /\ (Quiet(es) => Quiet(sent))
    BY <1>1 DEF Single, Quiet
<1>3. Quiet(es) => Single(sent)
    BY <1>1 DEF Single, Quiet
<1>4. DoneComing(es) => DoneComing(sent)
    BY <1>1 DEF DoneComing, Contains
<1>5. ASSUME e[1] # "done", Settled(es, c, w) PROVE Settled(sent, c, w)
    <2>1. CASE LastDone(es, w)
        <3>1. PICK i \in 1..Len(es) : es[i] = <<"done", w>> /\ \A j \in 1..Len(es) : j > i => es[j][1] # "done"
            BY <2>1 DEF LastDone
        <3>2. \A j \in 1..Len(sent) : j > i => sent[j][1] # "done"
            BY <1>1, <1>5, <3>1
        <3> QED BY <1>1, <3>1, <3>2 DEF LastDone, Settled
    <2>2. CASE c = w /\ ~DoneComing(es)
        <3>1. ~DoneComing(sent)
            BY <1>1, <1>5, <2>2 DEF DoneComing, Contains
        <3> QED BY <2>2, <3>1 DEF Settled
    <2> QED BY <1>5, <2>1, <2>2 DEF Settled
<1>6. ASSUME e = <<"done", w>> PROVE Settled(sent, c, w) /\ DoneComing(sent)
    <2>1. \A j \in 1..Len(sent) : ~(j > last)
        BY <1>1
    <2>2. LastDone(sent, w)
        BY <1>1, <1>6, <2>1 DEF LastDone
    <2> QED BY <1>1, <1>6, <2>2 DEF Settled, DoneComing, Contains
<1>7. Contains(sent, Misfit) => Contains(es, Misfit) \/ e = Misfit
    BY <1>1 DEF Contains
<1> QED BY <1>2, <1>3, <1>4, <1>5, <1>6, <1>7 DEF sent

\* Nothing an event could bring is missing once all have come.
LEMMA SettledIsKnown ==
    ASSUME NEW es, NEW c, NEW w \in Sizes, Settled(es, c, w), ~DoneComing(es)
    PROVE  c = w
    BY DEF Settled, LastDone, DoneComing, Contains

-----------------------------------------------------------------------------
(* No step makes the stream wait for constraints nobody announces. *)

listened == <<stopped, constraints, constraintsDirty, waitingForConstraints, owes, want>>

\* Without a frame in flight there is none outstanding.
LEMMA NoFrameQuiet == ASSUME WaitInv, ~frameInFlight PROVE Quiet(events) /\ attached = None
    BY DEF WaitInv

\* Without an answer on its way, none is one of two or one of a misfit.
LEMMA QuietHasNone == ASSUME NEW es, Quiet(es) PROVE Single(es) /\ ~Contains(es, Misfit)
<1>1. OfFrame(Misfit)
    BY DEF OfFrame, FrameEvents, Misfit
<1> QED BY <1>1 DEF Quiet, Single, Contains

\* Steps that leave events and frames alone.
LEMMA StillWaits ==
    ASSUME WaitInv, UNCHANGED <<listened, events, frameInFlight, attached, mismatched>>,
           stopped => pw' = "unconnected"
    PROVE  WaitInv'
<1>1. UNCHANGED <<stopped, constraints, constraintsDirty, waitingForConstraints, owes, want, events>>
    BY DEF listened
<1>2. Told => Told'
    BY <1>1 DEF Told, Known, Announcing
<1> QED BY <1>1, <1>2 DEF WaitInv

\* Steps that ask for a frame or leave it, with none outstanding.
Asked ==
    \/ ~frameInFlight' /\ UNCHANGED <<attached, mismatched>>
    \/ ~waitingForConstraints /\ frameInFlight' /\ (~mismatched' => attached' = constraints)

LEMMA ProcessRequestAsks ==
    ASSUME NEW state, NEW now, NEW armed, NEW due, ProcessRequest(state, now, armed, due)
    PROVE  Asked
<1>1. CASE NoFrame /\ UNCHANGED <<attached, mismatched>>
    BY <1>1 DEF NoFrame, Asked
<1>2. CASE ~waitingForConstraints /\ \E b \in Slots : CaptureFrame(b)
    BY <1>2 DEF CaptureFrame, Asked
<1> QED BY <1>1, <1>2 DEF ProcessRequest, RequestFrame

LEMMA AskWaits ==
    ASSUME WaitInv, attached = None, Quiet(events'), Asked, UNCHANGED listened,
           DoneComing(events) => DoneComing(events'),
           ~stopped /\ ~owes => Settled(events', constraints, want),
           stopped => pw' = "unconnected" /\ events' = <<>>
    PROVE  WaitInv'
<1>1. UNCHANGED <<stopped, constraints, constraintsDirty, waitingForConstraints, owes, want>>
    BY DEF listened
<1>2. Single(events') /\ ~Contains(events', Misfit)
    BY QuietHasNone
<1>3. ASSUME ~stopped PROVE Told'
    <2>1. Announcing => Announcing'
        BY <1>1 DEF Announcing, DoneComing
    <2>2. Known' /\ attached' # None => attached' = constraints
        BY DEF Asked, Known
    <2>3. waitingForConstraints /\ ~mismatched' => Announcing'
        BY <1>3, <2>1 DEF Asked, WaitInv, Told
    <2> QED BY <1>1, <1>2, <1>3, <2>2, <2>3 DEF Told
<1>4. attached' # None => frameInFlight'
    BY DEF Asked
<1> QED BY <1>1, <1>2, <1>3, <1>4 DEF WaitInv

\* The stream stops.
LEMMA StopWaits == ASSUME Stop PROVE WaitInv'
<1>1. stopped' = TRUE /\ pw' = "unconnected" /\ events' = <<>> /\ attached' = None
    BY DEF Stop
<1>2. Len(<<>>) = 0
    BY EmptySeq
<1>3. 1..Len(events') = {}
    BY <1>1, <1>2
<1> QED BY <1>1, <1>3 DEF WaitInv, Single, Quiet

\* Steps after which no frame is outstanding.
LEMMA FramelessWaits ==
    ASSUME ~stopped', ~frameInFlight', attached' = None, Quiet(events'),
           ~owes' => Settled(events', constraints', want'),
           waitingForConstraints' /\ ~mismatched' => Announcing'
    PROVE  WaitInv'
<1>1. Single(events') /\ ~Contains(events', Misfit)
    BY QuietHasNone
<1> QED BY <1>1 DEF WaitInv, Told

\* An answer is taken, and with it the frame it was for.
LEMMA AnswerTaken ==
    ASSUME TypeOK, WaitInv, NEW how \in FrameEvents, FrameEnds(how)
    PROVE  /\ attached = None /\ Quiet(Tail(events)) /\ ~stopped
           /\ DoneComing(events) => DoneComing(Tail(events))
           /\ ~owes => Settled(Tail(events), constraints, want)
<1>1. events # <<>> /\ Head(events) = <<how, None>> /\ events \in Seq(Event) /\ want \in Sizes
    BY DEF FrameEnds, Receive, TypeOK
<1>2. OfFrame(Head(events)) /\ Head(events)[1] # "done"
    BY <1>1 DEF OfFrame, FrameEvents
<1>3. 1 \in 1..Len(events) /\ Head(events) = events[1]
    <2>1. Len(events) \in Nat /\ Len(events) # 0
        BY <1>1, EmptySeq, LenProperties
    <2> QED BY <1>1, <2>1, HeadTailProperties
<1>4. ~Quiet(events)
    BY <1>2, <1>3 DEF Quiet
<1>5. attached = None /\ ~stopped /\ Single(events) /\ Told
    BY <1>1, <1>4 DEF WaitInv
<1> QED BY <1>1, <1>2, <1>5, TakeWaits DEF Told

\* The frame ends and the next one is asked for, or not.
LEMMA AnswerWaits ==
    ASSUME TypeOK, WaitInv, FrameReady \/ FrameRetry
    PROVE  WaitInv'
<1>1. PICK how \in FrameEvents : FrameEnds(how)
    BY DEF FrameReady, FrameRetry, FrameEnds, FrameEvents
<1>2. events' = Tail(events) /\ UNCHANGED listened
    BY DEF FrameReady, FrameRetry, listened, compositorSays
<1>3. CASE FrameReady
    <2>1. Asked
        BY <1>3, ProcessRequestAsks DEF FrameReady, NoFrame, Asked
    <2> QED BY <1>1, <1>2, <2>1, AnswerTaken, AskWaits
<1>4. CASE FrameRetry
    <2>1. Asked
        BY <1>4, ProcessRequestAsks DEF FrameRetry
    <2> QED BY <1>1, <1>2, <2>1, AnswerTaken, AskWaits
<1> QED BY <1>3, <1>4

\* The buffer does not fit: unless that buffer had another size than the constraints,
\* those that do not fit it are still to come.
LEMMA MisfitWaits == ASSUME TypeOK, WaitInv, FrameMisfit PROVE WaitInv'
<1>0. FrameEnds("misfit") /\ "misfit" \in FrameEvents /\ events \in Seq(Event)
      /\ events # <<>> /\ Head(events) = Misfit
    BY DEF FrameMisfit, FrameEnds, Receive, FrameEvents, Misfit, TypeOK
<1>1. /\ attached = None /\ Quiet(Tail(events)) /\ ~stopped
      /\ DoneComing(events) => DoneComing(Tail(events))
      /\ ~owes => Settled(Tail(events), constraints, want)
    BY <1>0, AnswerTaken
<1>2. constraints' = constraints /\ owes' = owes /\ want' = want
    BY DEF FrameMisfit, compositorSays
<1>3. Contains(events, Misfit)
    <2>1. Len(events) \in Nat /\ Len(events) # 0 /\ events[1] = Misfit
        BY <1>0, EmptySeq, LenProperties, HeadTailProperties
    <2> QED BY <2>1 DEF Contains
<1>4. Told /\ (Announcing /\ events' = Tail(events) => Announcing')
    BY <1>1, <1>2 DEF WaitInv, Announcing, DoneComing
<1>5. CASE constraintsDirty
    <2>1. Reconfigure(constraints, Queued(inSlot), fpsTimer, Tail(events)) /\ UNCHANGED waitingForConstraints
        BY <1>5 DEF FrameMisfit
    <2>2. CASE Stop
        BY <2>2, StopWaits
    <2>3. CASE ~Stop
        <3>1. /\ ~frameInFlight' /\ events' = Tail(events)
              /\ stopped' = stopped /\ attached' = attached /\ mismatched' = mismatched
            BY <2>1, <2>3 DEF Reconfigure, NoFrame
        <3>2. waitingForConstraints' /\ ~mismatched' => Announcing'
            BY <1>4, <2>1, <3>1 DEF Told
        <3> QED BY <1>1, <1>2, <3>1, <3>2, FramelessWaits
    <2> QED BY <2>2, <2>3
<1>6. CASE ~constraintsDirty
    <2>1. /\ ~frameInFlight' /\ events' = Tail(events)
          /\ stopped' = stopped /\ attached' = attached /\ mismatched' = mismatched
        BY <1>6 DEF FrameMisfit, NoFrame
    <2>2. ~mismatched' => Announcing'
        BY <1>3, <1>4, <1>6, <2>1 DEF Told, Known
    <2> QED BY <1>1, <1>2, <2>1, <2>2, FramelessWaits
<1> QED BY <1>5, <1>6

\* The constraints are announced, which ends the wait.
LEMMA DoneWaits == ASSUME TypeOK, WaitInv, NEW z \in Sizes, ConstraintsChanged(z) PROVE WaitInv'
<1>0. /\ events # <<>> /\ Head(events) = <<"done", z>> /\ events \in Seq(Event) /\ want \in Sizes
      /\ constraints' = z /\ waitingForConstraints' = FALSE /\ owes' = owes /\ want' = want
    BY DEF ConstraintsChanged, Receive, compositorSays, TypeOK
<1>1. ~stopped /\ Told /\ Single(events)
    BY <1>0 DEF WaitInv
<1>2. /\ ~owes => Settled(Tail(events), z, want)
      /\ Single(Tail(events)) /\ (Quiet(events) => Quiet(Tail(events)))
    BY <1>0, <1>1, TakeWaits DEF Told
<1>3. CASE frameInFlight \/ reconfiguring
    <2>1. /\ constraintsDirty' = TRUE /\ events' = Tail(events)
          /\ UNCHANGED <<stopped, frameInFlight, attached>>
        BY <1>3 DEF ConstraintsChanged
    <2>2. Told'
        BY <1>0, <1>2, <2>1 DEF Told, Known
    <2> QED BY <1>1, <1>2, <2>1, <2>2 DEF WaitInv
<1>4. CASE ~(frameInFlight \/ reconfiguring)
    <2>1. Reconfigure(z, slot, fpsTimer, Tail(events))
        BY <1>4 DEF ConstraintsChanged
    <2>2. CASE Stop
        BY <2>2, StopWaits
    <2>3. CASE ~Stop
        <3>1. ~frameInFlight' /\ events' = Tail(events) /\ stopped' = stopped /\ attached' = attached
            BY <2>1, <2>3 DEF Reconfigure, NoFrame
        <3> QED BY <1>0, <1>1, <1>2, <1>4, <3>1, NoFrameQuiet, FramelessWaits
    <2> QED BY <2>2, <2>3
<1> QED BY <1>3, <1>4

\* The timer, and PipeWire when a link starts or a buffer is done with, ask for frames.
LEMMA WakeWaits ==
    ASSUME TypeOK, WaitInv, FpsTimer \/ StartStreaming \/ \E b \in Slots : Recycle(b)
    PROVE  WaitInv'
<1>1. UNCHANGED <<listened, events>> /\ (stopped => pw' = "unconnected")
    BY DEF WaitInv, FpsTimer, StartStreaming, Recycle, listened, pumpKeeps, compositorSays
<1>2. CASE frameInFlight
    <2>1. UNCHANGED <<frameInFlight, attached, mismatched>>
        BY <1>2 DEF FpsTimer, StartStreaming, Recycle, Wake
    <2> QED BY <1>1, <2>1, StillWaits
<1>3. CASE ~frameInFlight
    <2>1. Asked
        BY <1>3, ProcessRequestAsks DEF FpsTimer, StartStreaming, Recycle, Wake
    <2>2. attached = None /\ Quiet(events) /\ events' = events /\ UNCHANGED listened
        BY <1>1, <1>3, NoFrameQuiet
    <2> QED BY <1>1, <2>1, <2>2, AskWaits DEF WaitInv, Told
<1> QED BY <1>2, <1>3

\* PipeWire's negotiations leave events and frames alone.
LEMMA LinkWaits == ASSUME WaitInv, Bind \/ Relink \/ Unlink \/ TakeOffer PROVE WaitInv'
<1>1. ~stopped
    BY DEF WaitInv, Bind, Relink, Unlink, TakeOffer, Connected
<1>2. UNCHANGED <<pumpVars, compositorVars, mismatched>>
    BY DEF Bind, Relink, Unlink, TakeOffer
<1> QED BY <1>1, <1>2, StillWaits DEF pumpVars, compositorVars, listened

\* The buffers are added; the next reconfiguration begins while no frame is out.
LEMMA AddWaits == ASSUME IInv, WaitInv, AddBuffers PROVE WaitInv'
<1>1. UNCHANGED <<constraints, waitingForConstraints, want, owes>> /\ ~stopped
    BY DEF AddBuffers, addLeaves, WaitInv, IInv, LinkShape
<1>2. PICK backed, first : BuffersAdded(backed, first)
    BY DEF AddBuffers
<1> DEFINE restart == (backed # {} /\ Awaited(width)) /\ constraintsDirty
<1>3. \/ Stop
      \/ UNCHANGED <<stopped, frameInFlight, pw, attached, mismatched, events>>
    BY <1>2 DEF BuffersAdded
<1>4. constraintsDirty' = (constraintsDirty /\ ~restart)
    BY <1>2 DEF BuffersAdded
<1>5. restart => reconfiguring
    BY DEF Awaited
<1> HIDE DEF restart
<1>6. CASE Stop
    BY <1>6, StopWaits
<1>7. CASE UNCHANGED <<stopped, frameInFlight, pw, attached, mismatched, events>> /\ ~restart
    <2>1. constraintsDirty' = constraintsDirty
        BY <1>4, <1>7 DEF IInv, TypeOK
    <2> QED BY <1>1, <1>7, <2>1, StillWaits DEF listened
<1>8. CASE UNCHANGED <<stopped, frameInFlight, pw, attached, mismatched, events>> /\ restart
    <2>1. ~frameInFlight
        BY <1>5, <1>8 DEF IInv, FramesExcludeReconfiguration
    <2>2. Quiet(events) /\ attached = None /\ Told
        BY <1>1, <2>1, NoFrameQuiet DEF WaitInv
    <2>3. Announcing' = Announcing
        BY <1>1, <1>8 DEF Announcing
    <2> QED BY <1>1, <1>8, <2>1, <2>2, <2>3, FramelessWaits DEF Told
<1> QED BY <1>3, <1>6, <1>7, <1>8

\* The source changes, which the compositor owes to say.
LEMMA ResizeWaits == ASSUME WaitInv, NEW z \in Sizes, Resize(z) PROVE WaitInv'
<1>1. owes' = TRUE /\ ~stopped /\ UNCHANGED <<attached, events, pumpVars, pw, mismatched>>
    BY DEF Resize, compositorLeaves, pipewireVars
<1>2. UNCHANGED <<stopped, frameInFlight, constraints, constraintsDirty, waitingForConstraints>>
    BY <1>1 DEF pumpVars
<1>3. Told'
    BY <1>1, <1>2 DEF Told, Known, Announcing, WaitInv
<1> QED BY <1>1, <1>2, <1>3 DEF WaitInv

\* It says so.
LEMMA AnnounceWaits == ASSUME TypeOK, WaitInv, Announce PROVE WaitInv'
<1>1. /\ ~stopped /\ events' = Append(events, <<"done", want>>) /\ want' = want /\ want \in Sizes
      /\ UNCHANGED <<attached, pumpVars, pw, mismatched>> /\ events \in Seq(Event)
    BY DEF Announce, CanSend, compositorLeaves, pipewireVars, TypeOK
<1>2. UNCHANGED <<stopped, frameInFlight, constraints, constraintsDirty, waitingForConstraints>>
    BY <1>1 DEF pumpVars
<1>3. <<"done", want>> \in Event /\ ~OfFrame(<<"done", want>>)
    BY <1>1 DEF Event, OfFrame, FrameEvents
<1>4. /\ Single(events) => Single(events')
      /\ Quiet(events) => Quiet(events')
      /\ Settled(events', constraints, want) /\ DoneComing(events')
    BY <1>1, <1>3, SendWaits
<1>5. Told'
    BY <1>1, <1>2, <1>4 DEF Told, Known, Announcing, DoneComing, WaitInv
<1> QED BY <1>1, <1>2, <1>4, <1>5 DEF WaitInv

\* It answers a frame: one that does not fit, and had the size of the constraints,
\* fails for others that are still to come.
LEMMA ReplyWaits == ASSUME TypeOK, WaitInv, Answer PROVE WaitInv'
<1>1. /\ ~stopped /\ attached # None /\ attached' = None /\ want' = want /\ owes' = owes /\ want \in Sizes
      /\ UNCHANGED <<pumpVars, pw, mismatched>> /\ events \in Seq(Event)
    BY DEF Answer, CanSend, compositorLeaves, pipewireVars, TypeOK
<1>2. UNCHANGED <<stopped, frameInFlight, constraints, constraintsDirty, waitingForConstraints>>
    BY <1>1 DEF pumpVars
<1>3. PICK k \in FrameEvents : events' = Append(events, <<k, None>>) /\ (k = "misfit" => attached # want)
    BY DEF Answer, FrameEvents
<1>4. <<k, None>> \in Event /\ k # "done" /\ (<<k, None>> = Misfit => k = "misfit")
    BY DEF Event, FrameEvents, Misfit
<1>5. frameInFlight /\ Quiet(events) /\ Told
    BY <1>1 DEF WaitInv
<1>6. /\ Single(events')
      /\ DoneComing(events) => DoneComing(events')
      /\ Settled(events, constraints, want) => Settled(events', constraints, want)
      /\ Contains(events', Misfit) => Contains(events, Misfit) \/ k = "misfit"
    BY <1>1, <1>3, <1>4, <1>5, SendWaits
<1>7. Announcing => Announcing'
    BY <1>1, <1>6 DEF Announcing, DoneComing
<1>8. Known /\ k = "misfit" => Announcing
    <2> SUFFICES ASSUME Known, k = "misfit", ~Announcing PROVE FALSE
        OBVIOUS
    <2>1. ~owes /\ ~DoneComing(events) /\ Settled(events, constraints, want) /\ attached = constraints
        BY <1>1, <1>5 DEF Announcing, DoneComing, Told
    <2> QED BY <1>1, <1>3, <2>1, SettledIsKnown
<1>9. Told'
    BY <1>1, <1>2, <1>5, <1>6, <1>7, <1>8 DEF Told, Known
<1> QED BY <1>1, <1>2, <1>5, <1>6, <1>9 DEF WaitInv

\* It withdraws the capture.
LEMMA WithdrawWaits == ASSUME TypeOK, WaitInv, Withdraw PROVE WaitInv'
<1>1. /\ ~stopped /\ attached' = None /\ want' = want /\ owes' = owes /\ want \in Sizes
      /\ events' = Append(events, <<"stopped", None>>)
      /\ UNCHANGED <<pumpVars, pw, mismatched>> /\ events \in Seq(Event)
    BY DEF Withdraw, CanSend, compositorLeaves, pipewireVars, TypeOK
<1>2. UNCHANGED <<stopped, frameInFlight, constraints, constraintsDirty, waitingForConstraints>>
    BY <1>1 DEF pumpVars
<1>3. <<"stopped", None>> \in Event /\ ~OfFrame(<<"stopped", None>>) /\ <<"stopped", None>> # Misfit
    BY DEF Event, OfFrame, FrameEvents, Misfit
<1>4. /\ Single(events) => Single(events')
      /\ Quiet(events) => Quiet(events')
      /\ DoneComing(events) => DoneComing(events')
      /\ Settled(events, constraints, want) => Settled(events', constraints, want)
      /\ Contains(events', Misfit) => Contains(events, Misfit)
    BY <1>1, <1>3, SendWaits
<1>5. Announcing => Announcing'
    BY <1>1, <1>4 DEF Announcing, DoneComing
<1>6. Told'
    BY <1>1, <1>2, <1>4, <1>5 DEF Told, Known, WaitInv
<1> QED BY <1>1, <1>2, <1>4, <1>6 DEF WaitInv

\* Every step keeps it.
LEMMA WaitInductive == IInv /\ WaitInv /\ [Next]_vars => WaitInv'
<1> SUFFICES ASSUME IInv, WaitInv, [Next]_vars PROVE WaitInv'
    OBVIOUS
<1>0. TypeOK
    BY DEF IInv
<1>1. CASE FpsTimer \/ StartStreaming \/ \E b \in Slots : Recycle(b)
    BY <1>0, <1>1, WakeWaits
<1>2. CASE Dispatch
    BY <1>0, <1>2, AnswerWaits, MisfitWaits, DoneWaits, StopWaits DEF Dispatch, CaptureStopped
<1>3. CASE SessionClears
    BY <1>3, StopWaits DEF SessionClears
<1>4. CASE Bind \/ Relink \/ Unlink \/ TakeOffer
    BY <1>4, LinkWaits
<1>5. CASE AddBuffers
    BY <1>5, AddWaits
<1>6. CASE Announce \/ Answer \/ Withdraw \/ \E z \in Sizes : Resize(z)
    BY <1>0, <1>6, AnnounceWaits, ReplyWaits, WithdrawWaits, ResizeWaits
<1>7. CASE UNCHANGED vars
    BY <1>7, StillWaits DEF vars, pumpVars, pipewireVars, compositorVars, listened, WaitInv
<1> QED BY <1>1, <1>2, <1>3, <1>4, <1>5, <1>6, <1>7 DEF Next

\* A stream that is connecting has no frame and knows the size of its source.
LEMMA InitWaits == Init => WaitInv
<1> SUFFICES ASSUME Init PROVE WaitInv
    OBVIOUS
<1>1. /\ ~stopped /\ events = <<>> /\ attached = None /\ ~waitingForConstraints
      /\ constraints = want /\ 1..Len(events) = {}
    BY EmptySeq DEF Init
<1>2. Quiet(events) /\ Single(events) /\ ~DoneComing(events) /\ ~Contains(events, Misfit)
    BY <1>1 DEF Quiet, Single, DoneComing, Contains
<1> QED BY <1>1, <1>2 DEF WaitInv, Told, Settled

\* A stream whose every buffer was backed never streams without something that asks
\* for the next frame; when that is the wait for constraints, the compositor owes or
\* sent them, or the newest frame went into a buffer of another size than those it had.
THEOREM StreamPumpIsDriven == Spec => []PumpIsDriven
<1>1. IInv /\ WaitInv => PumpIsDriven
    BY DEF IInv, SomethingDrives, PumpIsDriven, WaitInv, Told
<1> QED BY <1>1, SpecIInv, InitWaits, WaitInductive, PTL DEF Spec
=============================================================================
