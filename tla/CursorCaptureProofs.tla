------------------------- MODULE CursorCaptureProofs -------------------------
(***************************************************************************)
(* Proofs about the connection and the cursor capture, for any pictures    *)
(* and any number of changes, retries and stalls: the portal always        *)
(* listens when it waits, requests go out, the cursor is shown whole, and  *)
(* a request for it is not forgotten.                                      *)
(***************************************************************************)
EXTENDS CursorCapture, SequenceTheorems, FiniteSetTheorems, TLAPS

\* A read is prepared exactly while libwayland counts one, and always while the
\* connection is there and no events are being dispatched; events that were read
\* are left only while they are dispatched or when the process ends.
Listens ==
    /\ readers = 1 <=> preparedRead
    /\ phase \in {"second", "checking", "serving", "running"} /\ ~disconnected /\ ~dispatching => preparedRead
    /\ dispatching => phase = "running" /\ ~early
    /\ early => disconnected /\ queue = <<>>
    /\ phase \notin {"running", "ended"} => queue = <<>>
    /\ Idle => queue = <<>>
    /\ phase \in {"serving", "running"} /\ disconnected => quit \/ early

\* What waits and is more than the destruction of objects waits for the socket, which
\* only fills up once the loop runs.
Flushes ==
    /\ ~disconnected /\ unsent \ {"destroy"} # {} => wantsWrite /\ interest
    /\ stalled => phase \in {"running", "ended"}
    /\ phase \in {"serving", "running"} => watched

DisplayInv ==
    /\ DisplayTypeOK
    /\ Listens
    /\ Flushes

CursorTypeOK ==
    /\ inbound \in Seq(Event) /\ queue \in Seq(Event)
    /\ picture \in Pictures /\ announced \in Sizes \cup {Nothing} /\ gone \in BOOLEAN
    /\ changes \in 0..MaxChanges /\ retries \in 0..MaxRetries /\ stalls \in 0..MaxStalls
    /\ open \in BOOLEAN /\ stopped \in BOOLEAN /\ requestPending \in BOOLEAN
    /\ constraints \in Sizes \cup {Nothing} /\ buffer \in Sizes \cup {Nothing}
    /\ frame \in Sizes \cup {Nothing} /\ drawn \in Pictures \cup {Nothing}
    /\ metadata \in [visible : BOOLEAN, size : Sizes \cup {Nothing}, picture : Pictures \cup {Nothing}]

\* A buffer is of the size of the constraints, and a frame is of the buffer.
BuffersFit ==
    /\ buffer # Nothing => buffer = constraints
    /\ frame # Nothing => frame = buffer
    /\ ~open => buffer = Nothing

\* A frame that is ready has drawn a picture of the constraints' size; a frame
\* fails because the session ended only when it did; and no event comes for a
\* session that was destroyed.
Fits(e) ==
    /\ e = <<"ready">> => drawn # Nothing /\ SizeOf[drawn] = constraints
    /\ e = <<"failed", "stopped">> => gone
    /\ ~open => e = <<"other">>
EventsFit == \A e \in Range(inbound) \cup Range(queue) : Fits(e)

\* At most one answer to a frame is on its way.
Quiet(events) == \A e \in Range(events) : ~FrameEvent(e)
Single(events) == \A i, j \in DOMAIN events : FrameEvent(events[i]) /\ FrameEvent(events[j]) => i = j
OneAnswer ==
    /\ Single(inbound) /\ Single(queue)
    /\ Quiet(inbound) \/ Quiet(queue)

CursorInv ==
    /\ CursorTypeOK
    /\ BuffersFit
    /\ EventsFit
    /\ OneAnswer
    /\ CursorIsWhole
    /\ RequestsAreKept

IInv == DisplayInv /\ CursorInv

-----------------------------------------------------------------------------
(* Sequences of events. *)

\* What is left once the first event is taken.
LEMMA TakeEvent ==
    ASSUME NEW es \in Seq(Event), es # <<>>
    PROVE  /\ Head(es) \in Event /\ Head(es) \in Range(es)
           /\ Tail(es) \in Seq(Event) /\ Range(Tail(es)) \subseteq Range(es)
           /\ Single(es) => Single(Tail(es))
<1>1. /\ Tail(es) \in Seq(Event) /\ Head(es) = es[1] /\ Head(es) \in Event
      /\ Len(es) \in Nat /\ Len(es) # 0 /\ DOMAIN es = 1..Len(es)
      /\ Len(Tail(es)) = Len(es) - 1 /\ \A i \in 1..Len(Tail(es)) : Tail(es)[i] = es[i + 1]
    BY HeadTailProperties, LenProperties, EmptySeq
<1>2. DOMAIN Tail(es) = 1..(Len(es) - 1)
    BY <1>1, LenProperties
<1>3. \A i \in DOMAIN Tail(es) : i \in Nat /\ i + 1 \in DOMAIN es /\ Tail(es)[i] = es[i + 1]
    BY <1>1, <1>2
<1>4. 1 \in DOMAIN es
    BY <1>1
<1>5. Range(Tail(es)) \subseteq Range(es) /\ Head(es) \in Range(es)
    BY <1>1, <1>3, <1>4 DEF Range
<1>6. Single(es) => Single(Tail(es))
    <2> SUFFICES ASSUME Single(es), NEW i \in DOMAIN Tail(es), NEW j \in DOMAIN Tail(es),
                        FrameEvent(Tail(es)[i]), FrameEvent(Tail(es)[j])
                 PROVE  i = j
        BY DEF Single
    <2>1. i + 1 = j + 1
        BY <1>3 DEF Single
    <2> QED BY <1>3, <2>1
<1> QED BY <1>1, <1>5, <1>6

\* Events one after the other.
LEMMA JoinEvents ==
    ASSUME NEW es \in Seq(Event), NEW more \in Seq(Event)
    PROVE  /\ es \o more \in Seq(Event)
           /\ Range(es \o more) \subseteq Range(es) \cup Range(more)
           /\ Single(es) /\ Single(more) /\ (Quiet(es) \/ Quiet(more)) => Single(es \o more)
<1>1. /\ es \o more \in Seq(Event) /\ Len(es \o more) = Len(es) + Len(more)
      /\ Len(es) \in Nat /\ Len(more) \in Nat
      /\ DOMAIN es = 1..Len(es) /\ DOMAIN more = 1..Len(more)
      /\ \A i \in 1..(Len(es) + Len(more)) :
            (es \o more)[i] = IF i <= Len(es) THEN es[i] ELSE more[i - Len(es)]
    BY ConcatProperties, LenProperties
<1>2. DOMAIN (es \o more) = 1..(Len(es) + Len(more))
    BY <1>1, LenProperties
<1>3. \A i \in DOMAIN (es \o more) :
         /\ i \in Nat
         /\ \/ i \in DOMAIN es /\ (es \o more)[i] = es[i]
            \/ i - Len(es) \in DOMAIN more /\ (es \o more)[i] = more[i - Len(es)]
    <2> SUFFICES ASSUME NEW i \in 1..(Len(es) + Len(more))
                 PROVE  /\ i \in Nat
                        /\ \/ i \in 1..Len(es) /\ (es \o more)[i] = es[i]
                           \/ i - Len(es) \in 1..Len(more) /\ (es \o more)[i] = more[i - Len(es)]
        BY <1>1, <1>2
    <2>1. CASE i <= Len(es)
        BY <1>1, <2>1
    <2>2. CASE ~(i <= Len(es))
        BY <1>1, <2>2
    <2> QED BY <2>1, <2>2
<1>4. Range(es \o more) \subseteq Range(es) \cup Range(more)
    BY <1>3 DEF Range
<1>5. ASSUME Single(es), Single(more), Quiet(es) \/ Quiet(more) PROVE Single(es \o more)
    <2> SUFFICES ASSUME NEW i \in DOMAIN (es \o more), NEW j \in DOMAIN (es \o more),
                        FrameEvent((es \o more)[i]), FrameEvent((es \o more)[j])
                 PROVE  i = j
        BY DEF Single
    <2>1. /\ \A k \in DOMAIN es : FrameEvent(es[k]) => ~Quiet(es)
          /\ \A k \in DOMAIN more : FrameEvent(more[k]) => ~Quiet(more)
        BY DEF Quiet, Range
    <2>2. CASE i \in DOMAIN es /\ (es \o more)[i] = es[i]
        <3>1. j \in DOMAIN es /\ (es \o more)[j] = es[j]
            BY <1>3, <1>5, <2>1, <2>2
        <3> QED BY <1>5, <2>2, <3>1 DEF Single
    <2>3. CASE i - Len(es) \in DOMAIN more /\ (es \o more)[i] = more[i - Len(es)]
        <3>1. j - Len(es) \in DOMAIN more /\ (es \o more)[j] = more[j - Len(es)]
            BY <1>3, <1>5, <2>1, <2>3
        <3>2. i - Len(es) = j - Len(es)
            BY <1>5, <2>3, <3>1 DEF Single
        <3> QED BY <1>1, <1>3, <3>2
    <2> QED BY <1>3, <2>2, <2>3
<1> QED BY <1>1, <1>4, <1>5

\* The events left when the frame is destroyed have no answer to it.
LEMMA PurgeDrops ==
    ASSUME NEW es \in Seq(Event), Single(es)
    PROVE  Purge(es) \in Seq(Event) /\ Range(Purge(es)) \subseteq Range(es) /\ Quiet(Purge(es)) /\ Single(Purge(es))
<1>1. Len(es) \in Nat /\ DOMAIN es = 1..Len(es)
    BY LenProperties
<1>2. CASE \E i \in DOMAIN es : FrameEvent(es[i])
    <2> DEFINE k == CHOOSE i \in DOMAIN es : FrameEvent(es[i])
               before == SubSeq(es, 1, k - 1)
               after == SubSeq(es, k + 1, Len(es))
    <2>1. k \in DOMAIN es /\ FrameEvent(es[k]) /\ k \in 1..Len(es)
        BY <1>1, <1>2
    <2>2. Purge(es) = before \o after
        BY <1>2 DEF Purge, RemoveAt
    <2> HIDE DEF k
    <2>3. /\ before \in Seq(Event) /\ Len(before) = k - 1
          /\ \A i \in 1..(k - 1) : before[i] = es[i]
        <3>1. \A i \in 1..(k - 1) : i \in 1..Len(es)
            BY <1>1, <2>1
        <3>2. \A i \in 1..(k - 1) : es[i] \in Event
            BY <3>1, ElementOfSeq
        <3> QED BY <1>1, <2>1, <3>1, <3>2, SubSeqProperties
    <2>4. /\ after \in Seq(Event) /\ Len(after) = Len(es) - k
          /\ \A i \in 1..(Len(es) - k) : after[i] = es[k + i]
        <3>1. \A i \in (k + 1)..Len(es) : i \in 1..Len(es)
            BY <1>1, <2>1
        <3>2. \A i \in (k + 1)..Len(es) : es[i] \in Event
            BY <3>1, ElementOfSeq
        <3>3. after \in Seq(Event) /\ Len(after) = (IF k + 1 <= Len(es) THEN Len(es) - (k + 1) + 1 ELSE 0)
              /\ \A i \in 1..Len(after) : after[i] = es[(k + 1) + i - 1]
            BY <1>1, <2>1, <3>2, SubSeqProperties
        <3>4. Len(after) = Len(es) - k
            BY <1>1, <2>1, <3>3
        <3>5. \A i \in 1..(Len(es) - k) : (k + 1) + i - 1 = k + i
            BY <1>1, <2>1
        <3> QED BY <3>3, <3>4, <3>5
    <2>5. DOMAIN before = 1..(k - 1) /\ DOMAIN after = 1..(Len(es) - k)
        BY <2>3, <2>4, LenProperties
    <2>6. \A i \in DOMAIN before : i \in DOMAIN es /\ i # k /\ before[i] = es[i]
        BY <1>1, <2>1, <2>3, <2>5
    <2>7. \A i \in DOMAIN after : k + i \in DOMAIN es /\ k + i # k /\ after[i] = es[k + i]
        BY <1>1, <2>1, <2>4, <2>5
    <2> HIDE DEF before, after
    <2>8. \A i \in DOMAIN es : i # k => ~FrameEvent(es[i])
        BY <2>1 DEF Single
    <2>9. /\ \A e \in Range(before) : e \in Range(es) /\ ~FrameEvent(e)
          /\ \A e \in Range(after) : e \in Range(es) /\ ~FrameEvent(e)
        BY <2>6, <2>7, <2>8 DEF Range
    <2>10. Single(before) /\ Single(after)
        BY <2>6, <2>7, <2>8 DEF Single
    <2>11. /\ before \o after \in Seq(Event) /\ Single(before \o after)
           /\ Range(before \o after) \subseteq Range(before) \cup Range(after)
        BY <2>3, <2>4, <2>9, <2>10, JoinEvents DEF Quiet
    <2> QED BY <2>2, <2>9, <2>11 DEF Quiet
<1>3. CASE ~\E i \in DOMAIN es : FrameEvent(es[i])
    <2>1. Purge(es) = es
        BY <1>3 DEF Purge
    <2> QED BY <1>3, <2>1 DEF Quiet, Range
<1> QED BY <1>2, <1>3

\* The events left when all the objects of a capture are destroyed.
LEMMA OthersAreLeft ==
    ASSUME NEW es \in Seq(Event)
    PROVE  /\ OtherEvents(es) \in Seq(Event)
           /\ \A e \in Range(OtherEvents(es)) : e = <<"other">>
           /\ Quiet(OtherEvents(es)) /\ Single(OtherEvents(es))
<1> DEFINE n == Cardinality({j \in DOMAIN es : es[j] = <<"other">>})
<1>1. Len(es) \in Nat /\ DOMAIN es = 1..Len(es)
    BY LenProperties
<1>2. n \in Nat
    <2>1. IsFiniteSet(1..Len(es))
        BY <1>1, FS_Interval
    <2>2. IsFiniteSet({j \in DOMAIN es : es[j] = <<"other">>})
        BY <1>1, <2>1, FS_Subset
    <2> QED BY <2>2, FS_CardinalityType
<1>3. OtherEvents(es) = [i \in 1..n |-> <<"other">>]
    BY DEF OtherEvents
<1> HIDE DEF n
<1>4. <<"other">> \in Event /\ ~FrameEvent(<<"other">>)
    BY DEF Event, FrameEvent
<1>5. OtherEvents(es) \in [1..n -> Event]
    BY <1>3, <1>4
<1>6. OtherEvents(es) \in Seq(Event)
    BY <1>2, <1>5
<1>7. \A e \in Range(OtherEvents(es)) : e = <<"other">>
    BY <1>3 DEF Range
<1>8. Single(OtherEvents(es))
    BY <1>3, <1>4 DEF Single
<1> QED BY <1>4, <1>6, <1>7, <1>8 DEF Quiet

-----------------------------------------------------------------------------
(* The connection. *)

\* What becomes of the connection when a read is prepared or not, as p says, and
\* something is flushed or the connection found lost.
Written(p) ==
    /\ unsent' \in SUBSET Requests /\ wantsWrite' \in BOOLEAN /\ interest' \in BOOLEAN
    /\ readers' \in 0..1 /\ preparedRead' \in BOOLEAN /\ disconnected' \in BOOLEAN
    /\ quit' \in BOOLEAN /\ early' \in BOOLEAN
    /\ readers' = 1 <=> preparedRead'
    /\ ~disconnected' => preparedRead' = p /\ ~disconnected
    /\ quit => quit'
    /\ early => early'
    /\ disconnected => disconnected' /\ (early' <=> early)
    /\ disconnected' /\ ~disconnected => (phase = "running" => quit') /\ (early' <=> early \/ phase = "serving")
    /\ ~disconnected' => (early' <=> early)

\* What is then still waiting waits for the socket.
Waits == ~disconnected' /\ unsent' \ {"destroy"} # {} => stalled /\ wantsWrite' /\ (watched => interest')

\* The values of the connection's flags.
LEMMA DisplayFlags ==
    ASSUME DisplayTypeOK
    PROVE  /\ stalled \in BOOLEAN /\ broken \in BOOLEAN /\ preparedRead \in BOOLEAN /\ wantsWrite \in BOOLEAN
           /\ disconnected \in BOOLEAN /\ watched \in BOOLEAN /\ interest \in BOOLEAN /\ quit \in BOOLEAN
           /\ early \in BOOLEAN /\ dispatching \in BOOLEAN
BY DEF DisplayTypeOK

\* The connection is found lost, which the loop is told while it runs.
LEMMA MarkWrites ==
    ASSUME DisplayTypeOK, NEW p \in BOOLEAN, NEW n \in 0..1, n = 1 <=> p,
           MarkDisconnected(p, n),
           unsent' \in SUBSET Requests, wantsWrite' \in BOOLEAN, interest' \in BOOLEAN
    PROVE  Written(p) /\ disconnected'
<1>1. CASE disconnected
    <2>1. preparedRead' = p /\ readers' = n /\ disconnected' = disconnected /\ quit' = quit /\ early' = early
        BY <1>1 DEF MarkDisconnected, Keep
    <2> QED BY <1>1, <2>1, DisplayFlags DEF Written
<1>2. CASE ~disconnected
    <2>1. /\ disconnected' = TRUE /\ preparedRead' = FALSE /\ readers' = Cancelled(p, n)
          /\ quit' = (quit \/ phase = "running") /\ early' = (early \/ phase = "serving")
        BY <1>2 DEF MarkDisconnected
    <2>2. readers' = 0
        BY <2>1 DEF Cancelled
    <2>3. readers' \in 0..1 /\ (readers' = 1 <=> preparedRead')
        BY <2>1, <2>2
    <2>4. quit' \in BOOLEAN /\ (quit => quit') /\ (phase = "running" => quit')
        BY <2>1, DisplayFlags
    <2>5. early' \in BOOLEAN /\ (early' <=> early \/ phase = "serving")
        BY <2>1, DisplayFlags
    <2> QED BY <1>2, <2>1, <2>3, <2>4, <2>5 DEF Written
<1> QED BY <1>1, <1>2

\* What is flushed is sent, or waits for the socket, or is lost with the connection.
LEMMA FlushWrites ==
    ASSUME DisplayTypeOK, NEW p \in BOOLEAN, NEW n \in 0..1, n = 1 <=> p,
           NEW out \in SUBSET Requests, FlushDisplay(out, p, n)
    PROVE  Written(p) /\ Waits
<1>1. CASE /\ unsent' = {} /\ wantsWrite' = FALSE
           /\ UpdateDisplayFdEvents(FALSE) /\ Keep(p, n)
    <2>1. preparedRead' = p /\ readers' = n /\ disconnected' = disconnected /\ quit' = quit /\ early' = early
        BY <1>1 DEF Keep
    <2>2. interest' \in BOOLEAN
        BY <1>1, DisplayFlags DEF UpdateDisplayFdEvents
    <2> QED BY <1>1, <2>1, <2>2, DisplayFlags DEF Written, Waits
<1>2. CASE /\ out # {} /\ stalled /\ ~broken
           /\ unsent' = out /\ wantsWrite' = TRUE
           /\ UpdateDisplayFdEvents(TRUE) /\ Keep(p, n)
    <2>1. preparedRead' = p /\ readers' = n /\ disconnected' = disconnected /\ quit' = quit /\ early' = early
        BY <1>2 DEF Keep
    <2>2. interest' \in BOOLEAN /\ (watched /\ ~disconnected => interest')
        BY <1>2, DisplayFlags DEF UpdateDisplayFdEvents
    <2> QED BY <1>2, <2>1, <2>2, DisplayFlags DEF Written, Waits
<1>3. CASE /\ out # {} /\ broken
           /\ unsent' = out /\ MarkDisconnected(p, n)
           /\ UNCHANGED <<wantsWrite, interest>>
    <2>1. unsent' \in SUBSET Requests /\ wantsWrite' \in BOOLEAN /\ interest' \in BOOLEAN
        BY <1>3, DisplayFlags
    <2> QED BY <1>3, <2>1, MarkWrites DEF Waits
<1> QED BY <1>1, <1>2, <1>3 DEF FlushDisplay

\* A call or a handler flushes, or leaves the destruction of objects waiting.
LEMMA CallKeepsDisplay ==
    ASSUME DisplayInv, NEW out \in SUBSET Requests,
           Flushed(out) \/ (Unflushed(out) /\ out \ {"destroy"} \subseteq unsent),
           UNCHANGED <<socketVars, watched, phase, dispatching>>,
           queue' = queue \/ dispatching, phase \in {"serving", "running"}
    PROVE  DisplayInv'
<1>0. UNCHANGED <<stalled, broken, watched, phase, dispatching>>
    BY DEF socketVars
<1>1. CASE Flushed(out)
    <2>1. preparedRead \in BOOLEAN /\ readers \in 0..1 /\ (readers = 1 <=> preparedRead)
        BY DisplayFlags DEF DisplayInv, DisplayTypeOK, Listens
    <2>2. Written(preparedRead) /\ Waits
        BY <1>1, <2>1, FlushWrites DEF Flushed, DisplayInv
    <2>3. DisplayTypeOK'
        BY <1>0, <2>2, DisplayFlags DEF DisplayInv, DisplayTypeOK, Written
    <2>4. Listens'
        <3>1. dispatching => ~early'
            BY <2>2 DEF DisplayInv, Listens, Written
        <3>2. phase \notin {"running", "ended"} => queue' = <<>>
            BY DEF DisplayInv, Listens
        <3>3. Idle' => queue' = <<>>
            BY <1>0, <2>2 DEF DisplayInv, Listens, Idle, Written
        <3>4. early' => disconnected' /\ queue' = <<>>
            BY <2>2, <3>1, <3>2, DisplayFlags DEF DisplayInv, Listens, Written
        <3>5. phase \in {"serving", "running"} /\ disconnected' => quit' \/ early'
            BY <2>2 DEF DisplayInv, Listens, Written
        <3> QED BY <1>0, <2>2, <3>1, <3>2, <3>3, <3>4, <3>5 DEF DisplayInv, Listens, Written
    <2>5. Flushes'
        BY <1>0, <2>2 DEF DisplayInv, Flushes, Waits
    <2> QED BY <2>3, <2>4, <2>5 DEF DisplayInv
<1>2. CASE Unflushed(out) /\ out \ {"destroy"} \subseteq unsent
    <2>1. /\ unsent' = out
          /\ UNCHANGED <<wantsWrite, interest, readers, preparedRead, disconnected, quit, early>>
        BY <1>2 DEF Unflushed, readVars
    <2>2. DisplayTypeOK'
        BY <1>0, <2>1, DisplayFlags DEF DisplayInv, DisplayTypeOK
    <2>3. Listens'
        BY <1>0, <2>1 DEF DisplayInv, Listens, Idle
    <2>4. Flushes'
        BY <1>0, <1>2, <2>1 DEF DisplayInv, Flushes
    <2> QED BY <2>2, <2>3, <2>4 DEF DisplayInv
<1> QED BY <1>1, <1>2

\* One of the constructor's round trips.
LEMMA RoundtripKeepsDisplay ==
    ASSUME DisplayInv, phase \in {"first", "second"}, NEW next \in {"second", "checking"}, Roundtrip(next)
    PROVE  DisplayInv'
<1> DEFINE n == Cancelled(preparedRead, readers)
<1>0. /\ phase' = next /\ next \in Phases /\ UNCHANGED <<stalled, broken, queue, watched, dispatching>>
      /\ phase \notin {"running", "ended", "serving"}
    BY DEF Roundtrip, socketVars, Phases
<1>1. ~dispatching /\ queue = <<>> /\ ~stalled
    BY <1>0 DEF DisplayInv, Listens, Flushes
<1>2. n = 0
    BY DEF DisplayInv, DisplayTypeOK, Listens, Cancelled
<1>3. /\ Written(preparedRead) \/ (Written(FALSE) /\ disconnected') \/ Written(TRUE)
      /\ ~disconnected' => preparedRead'
      /\ Waits \/ (unsent' = unsent /\ wantsWrite' = wantsWrite /\ interest' = interest /\ disconnected' = disconnected)
    <2>1. CASE disconnected
        <3>1. /\ preparedRead' = preparedRead /\ readers' = readers /\ disconnected' = disconnected
              /\ quit' = quit /\ early' = early
              /\ unsent' = unsent /\ wantsWrite' = wantsWrite /\ interest' = interest
            BY <2>1 DEF Roundtrip, Keep, writeVars
        <3>2. Written(preparedRead)
            BY <2>1, <3>1, DisplayFlags DEF Written, DisplayInv, DisplayTypeOK, Listens
        <3> QED BY <2>1, <3>1, <3>2
    <2>2. CASE ~disconnected /\ broken
        <3>1. MarkDisconnected(FALSE, n) /\ unsent' = unsent /\ wantsWrite' = wantsWrite /\ interest' = interest
            BY <2>2 DEF Roundtrip, writeVars
        <3>2. unsent' \in SUBSET Requests /\ wantsWrite' \in BOOLEAN /\ interest' \in BOOLEAN
            BY <3>1, DisplayFlags DEF DisplayInv, DisplayTypeOK
        <3>3. n \in 0..1 /\ FALSE \in BOOLEAN /\ (n = 1 <=> FALSE)
            BY <1>2
        <3> HIDE DEF n
        <3>4. Written(FALSE) /\ disconnected'
            BY <3>3, <3>1, <3>2, MarkWrites DEF DisplayInv
        <3> QED BY <3>4 DEF Waits
    <2>3. CASE ~disconnected /\ ~broken
        <3>1. FlushDisplay(unsent, TRUE, 1)
            BY <2>3 DEF Roundtrip
        <3>2. unsent \in SUBSET Requests
            BY DEF DisplayInv, DisplayTypeOK
        <3>3. 1 \in 0..1 /\ TRUE \in BOOLEAN /\ (1 = 1 <=> TRUE)
            OBVIOUS
        <3>4. Written(TRUE) /\ Waits
            BY <3>1, <3>2, <3>3, FlushWrites DEF DisplayInv
        <3> QED BY <3>4 DEF Written
    <2> QED BY <2>1, <2>2, <2>3
<1>4. /\ unsent' \in SUBSET Requests /\ wantsWrite' \in BOOLEAN /\ interest' \in BOOLEAN
      /\ readers' \in 0..1 /\ preparedRead' \in BOOLEAN /\ disconnected' \in BOOLEAN
      /\ quit' \in BOOLEAN /\ early' \in BOOLEAN
      /\ readers' = 1 <=> preparedRead'
      /\ early' => early
      /\ disconnected => disconnected'
    BY <1>0, <1>3 DEF Written
<1>5. DisplayTypeOK'
    BY <1>0, <1>4, DisplayFlags DEF DisplayInv, DisplayTypeOK
<1>6. Listens'
    BY <1>0, <1>1, <1>3, <1>4 DEF DisplayInv, Listens, Idle
<1>7. Flushes'
    BY <1>0, <1>1, <1>3 DEF DisplayInv, Flushes, Waits
<1> QED BY <1>5, <1>6, <1>7 DEF DisplayInv

\* The process starts.
LEMMA StartKeepsDisplay == ASSUME DisplayInv, StartStep PROVE DisplayInv'
<1>1. CASE FirstRoundtrip
    BY <1>1, RoundtripKeepsDisplay DEF FirstRoundtrip
<1>2. CASE SecondRoundtrip
    BY <1>2, RoundtripKeepsDisplay DEF SecondRoundtrip
<1>3. CASE CheckConnected
    <2>1. /\ phase = "checking" /\ watched' = TRUE /\ phase' = IF disconnected THEN "ended" ELSE "serving"
          /\ UNCHANGED <<stalled, broken, inbound, queue, unsent, wantsWrite, interest, readers, preparedRead,
                         disconnected, quit, early, dispatching>>
        BY <1>3 DEF CheckConnected, socketVars, wireVars, writeVars, readVars
    <2>2. DisplayTypeOK'
        BY <2>1, DisplayFlags DEF DisplayInv, DisplayTypeOK, Phases
    <2>3. Listens'
        BY <2>1 DEF DisplayInv, Listens, Idle
    <2>4. Flushes'
        BY <2>1 DEF DisplayInv, Flushes
    <2> QED BY <2>2, <2>3, <2>4 DEF DisplayInv
<1>4. CASE Run
    <2>1. /\ phase = "serving" /\ phase' = "running"
          /\ UNCHANGED <<stalled, broken, inbound, queue, unsent, wantsWrite, interest, readers, preparedRead,
                         disconnected, quit, early, dispatching, watched>>
        BY <1>4 DEF Run, socketVars, wireVars, writeVars, readVars
    <2>2. DisplayTypeOK'
        BY <2>1, DisplayFlags DEF DisplayInv, DisplayTypeOK, Phases
    <2>3. Listens'
        BY <2>1 DEF DisplayInv, Listens, Idle
    <2>4. Flushes'
        BY <2>1 DEF DisplayInv, Flushes
    <2> QED BY <2>2, <2>3, <2>4 DEF DisplayInv
<1> QED BY <1>1, <1>2, <1>3, <1>4 DEF StartStep

\* The loop notices the loss, reads, prepares the next read, and ends.
LEMMA LoopKeepsDisplay == ASSUME DisplayInv, LoopStep PROVE DisplayInv'
<1>0. preparedRead \in BOOLEAN /\ readers \in 0..1 /\ (readers = 1 <=> preparedRead) /\ unsent \in SUBSET Requests
    BY DisplayFlags DEF DisplayInv, DisplayTypeOK, Listens
<1>1. CASE HangUp
    <2>1. /\ Idle /\ ~disconnected /\ MarkDisconnected(preparedRead, readers)
          /\ UNCHANGED <<stalled, broken, inbound, queue, unsent, wantsWrite, interest, watched, phase, dispatching>>
        BY <1>1 DEF HangUp, socketVars, wireVars, writeVars
    <2>2. unsent' \in SUBSET Requests /\ wantsWrite' \in BOOLEAN /\ interest' \in BOOLEAN
        BY <1>0, <2>1, DisplayFlags DEF DisplayInv
    <2>3. Written(preparedRead) /\ disconnected'
        BY <1>0, <2>1, <2>2, MarkWrites DEF DisplayInv
    <2>4. DisplayTypeOK'
        BY <2>1, <2>3, DisplayFlags DEF DisplayInv, DisplayTypeOK, Written
    <2>5. Listens'
        BY <2>1, <2>3 DEF DisplayInv, Listens, Idle, Written
    <2>6. Flushes'
        BY <2>1, <2>3 DEF DisplayInv, Flushes
    <2> QED BY <2>4, <2>5, <2>6 DEF DisplayInv
<1>2. CASE HandleDisplayEvents
    <2> DEFINE read == inbound # <<>> /\ preparedRead
               p == IF read THEN FALSE ELSE preparedRead
               n == Cancelled(read, readers)
    <2>1. /\ Idle /\ ~disconnected /\ dispatching' = TRUE
          /\ UNCHANGED <<stalled, broken, watched, phase>>
          /\ FlushDisplay(unsent, p, n) \/ (Keep(p, n) /\ UNCHANGED writeVars)
        BY <1>2 DEF HandleDisplayEvents, socketVars
    <2>2. p \in BOOLEAN /\ n \in 0..1 /\ (n = 1 <=> p)
        <3>1. CASE read
            <4>1. p = FALSE /\ n = 0
                BY <1>0, <3>1 DEF Cancelled
            <4> HIDE DEF p, n
            <4>2. p \in BOOLEAN /\ ~p
                BY <4>1
            <4>3. n \in 0..1 /\ n # 1
                BY <4>1
            <4> QED BY <4>2, <4>3
        <3>2. CASE ~read
            <4>1. p = preparedRead /\ n = readers
                BY <3>2 DEF Cancelled
            <4> HIDE DEF p, n
            <4> QED BY <1>0, <4>1
        <3> HIDE DEF read, p, n
        <3> QED BY <3>1, <3>2
    <2> HIDE DEF read, p, n
    <2>3. Written(p) /\ (Waits \/ (~disconnected /\ unsent' = unsent /\ wantsWrite' = wantsWrite /\ interest' = interest))
        <3>1. CASE FlushDisplay(unsent, p, n)
            BY <1>0, <2>2, <3>1, FlushWrites DEF DisplayInv
        <3>2. CASE Keep(p, n) /\ UNCHANGED writeVars
            <4>1. /\ preparedRead' = p /\ readers' = n /\ disconnected' = disconnected
                  /\ quit' = quit /\ early' = early
                  /\ unsent' = unsent /\ wantsWrite' = wantsWrite /\ interest' = interest
                BY <3>2 DEF Keep, writeVars
            <4> QED BY <1>0, <2>1, <2>2, <4>1, DisplayFlags DEF Written, DisplayInv
        <3> QED BY <2>1, <3>1, <3>2
    <2>4. DisplayTypeOK'
        BY <2>1, <2>3, DisplayFlags DEF DisplayInv, DisplayTypeOK, Written
    <2>5. phase = "running" /\ ~early /\ ~early'
        BY <2>1, <2>3 DEF DisplayInv, Listens, Idle, Written
    <2>6. Listens'
        BY <2>1, <2>3, <2>5 DEF DisplayInv, Listens, Idle, Written
    <2>7. Flushes'
        BY <2>1, <2>3, <2>5 DEF DisplayInv, Flushes, Waits
    <2> QED BY <2>4, <2>6, <2>7 DEF DisplayInv
<1>3. CASE PrepareRead
    <2>1. /\ dispatching /\ queue = <<>> /\ dispatching' = FALSE
          /\ UNCHANGED <<stalled, broken, inbound, queue, watched, phase>>
        BY <1>3 DEF PrepareRead, socketVars, wireVars
    <2>2. phase = "running" /\ ~early
        BY <2>1 DEF DisplayInv, Listens
    <2>3. CASE disconnected \/ preparedRead
        <3>1. UNCHANGED <<readers, preparedRead, disconnected, quit, early, unsent, wantsWrite, interest>>
            BY <1>3, <2>3 DEF PrepareRead, Keep, writeVars
        <3>2. DisplayTypeOK'
            BY <2>1, <3>1, DisplayFlags DEF DisplayInv, DisplayTypeOK
        <3>3. Listens'
            BY <2>1, <2>2, <2>3, <3>1 DEF DisplayInv, Listens, Idle
        <3>4. Flushes'
            BY <2>1, <3>1 DEF DisplayInv, Flushes
        <3> QED BY <3>2, <3>3, <3>4 DEF DisplayInv
    <2>4. CASE ~(disconnected \/ preparedRead)
        <3>1. FlushDisplay(unsent, TRUE, readers + 1)
            BY <1>3, <2>4 DEF PrepareRead
        <3>2. readers + 1 \in 0..1 /\ TRUE \in BOOLEAN /\ (readers + 1 = 1 <=> TRUE)
            BY <1>0, <2>4
        <3>3. Written(TRUE) /\ Waits
            BY <1>0, <3>1, <3>2, FlushWrites DEF DisplayInv
        <3>4. DisplayTypeOK'
            BY <2>1, <3>3, DisplayFlags DEF DisplayInv, DisplayTypeOK, Written
        <3>5. Listens'
            BY <2>1, <2>2, <2>4, <3>3 DEF DisplayInv, Listens, Idle, Written
        <3>6. Flushes'
            BY <2>1, <2>2, <3>3 DEF DisplayInv, Flushes, Waits
        <3> QED BY <3>4, <3>5, <3>6 DEF DisplayInv
    <2> QED BY <2>3, <2>4
<1>4. CASE End
    <2>1. /\ ~dispatching /\ phase = "running" /\ quit
          /\ phase' = "ended" /\ watched' = FALSE
          /\ preparedRead' = FALSE /\ readers' = Cancelled(preparedRead, readers)
          /\ UNCHANGED <<stalled, broken, inbound, queue, unsent, wantsWrite, interest, disconnected, quit, early,
                         dispatching>>
        BY <1>4 DEF End, socketVars, wireVars, writeVars
    <2>2. readers' = 0
        BY <1>0, <2>1 DEF Cancelled
    <2>3. DisplayTypeOK'
        <3>1. readers' \in 0..1 /\ unsent' \subseteq Requests /\ phase' \in Phases
            BY <1>0, <2>1, <2>2 DEF Phases
        <3>2. /\ stalled' \in BOOLEAN /\ broken' \in BOOLEAN /\ preparedRead' \in BOOLEAN /\ wantsWrite' \in BOOLEAN
              /\ disconnected' \in BOOLEAN /\ watched' \in BOOLEAN /\ interest' \in BOOLEAN /\ quit' \in BOOLEAN
              /\ early' \in BOOLEAN /\ dispatching' \in BOOLEAN
            BY <2>1, DisplayFlags DEF DisplayInv
        <3> QED BY <3>1, <3>2 DEF DisplayTypeOK
    <2>4. Listens'
        BY <2>1, <2>2 DEF DisplayInv, Listens, Idle
    <2>5. Flushes'
        BY <2>1 DEF DisplayInv, Flushes
    <2> QED BY <2>3, <2>4, <2>5 DEF DisplayInv
<1> QED BY <1>1, <1>2, <1>3, <1>4 DEF LoopStep

\* A dispatch finds the connection lost; a signal; the socket has room, or fills up
\* or breaks.
LEMMA OutsideKeepsDisplay == ASSUME DisplayInv, DispatchFails \/ Signal \/ Resume \/ Break \/ Stall PROVE DisplayInv'
<1>0. preparedRead \in BOOLEAN /\ readers \in 0..1 /\ (readers = 1 <=> preparedRead) /\ unsent \in SUBSET Requests
    BY DisplayFlags DEF DisplayInv, DisplayTypeOK, Listens
<1>1. CASE DispatchFails
    <2>1. /\ dispatching /\ dispatching' = FALSE /\ MarkDisconnected(preparedRead, readers)
          /\ UNCHANGED <<stalled, broken, inbound, queue, unsent, wantsWrite, interest, watched, phase>>
        BY <1>1 DEF DispatchFails, socketVars, wireVars, writeVars
    <2>2. unsent' \in SUBSET Requests /\ wantsWrite' \in BOOLEAN /\ interest' \in BOOLEAN
        BY <1>0, <2>1, DisplayFlags DEF DisplayInv
    <2>3. Written(preparedRead) /\ disconnected'
        BY <1>0, <2>1, <2>2, MarkWrites DEF DisplayInv
    <2>4. DisplayTypeOK'
        BY <2>1, <2>3, DisplayFlags DEF DisplayInv, DisplayTypeOK, Written
    <2>5. phase = "running" /\ ~early /\ quit' /\ ~early'
        BY <2>1, <2>3, DisplayFlags DEF DisplayInv, Listens, Written
    <2>6. Listens'
        BY <2>1, <2>3, <2>5 DEF DisplayInv, Listens, Idle, Written
    <2>7. Flushes'
        BY <2>1, <2>3 DEF DisplayInv, Flushes
    <2> QED BY <2>4, <2>6, <2>7 DEF DisplayInv
<1>2. CASE Signal
    <2>1. /\ quit' = TRUE
          /\ UNCHANGED <<stalled, broken, inbound, queue, unsent, wantsWrite, interest, readers, preparedRead,
                         disconnected, watched, phase, early, dispatching>>
        BY <1>2 DEF Signal, socketVars, wireVars, writeVars
    <2>2. DisplayTypeOK'
        BY <2>1, DisplayFlags DEF DisplayInv, DisplayTypeOK
    <2>3. Listens' /\ Flushes'
        BY <2>1 DEF DisplayInv, Listens, Flushes, Idle
    <2> QED BY <2>2, <2>3 DEF DisplayInv
<1>3. CASE Resume \/ Break \/ Stall
    <2>1. /\ stalled' \in BOOLEAN /\ broken' \in BOOLEAN
          /\ stalled' => stalled \/ phase = "running"
          /\ UNCHANGED <<inbound, queue, unsent, wantsWrite, interest, readers, preparedRead,
                         disconnected, quit, watched, phase, early, dispatching>>
        <3>0. stalled \in BOOLEAN /\ broken \in BOOLEAN
            BY DisplayFlags DEF DisplayInv
        <3>1. CASE Resume
            BY <3>0, <3>1 DEF Resume, wireVars, writeVars, readVars
        <3>2. CASE Break
            BY <3>0, <3>2 DEF Break, wireVars, writeVars, readVars
        <3>3. CASE Stall
            BY <3>0, <3>3 DEF Stall, wireVars, writeVars, readVars
        <3> QED BY <1>3, <3>1, <3>2, <3>3
    <2>2. DisplayTypeOK'
        BY <2>1, DisplayFlags DEF DisplayInv, DisplayTypeOK
    <2>3. Listens' /\ Flushes'
        BY <2>1 DEF DisplayInv, Listens, Flushes, Idle
    <2> QED BY <2>2, <2>3 DEF DisplayInv
<1> QED BY <1>1, <1>2, <1>3

\* Nothing of the connection changes but what is in the socket.
LEMMA InboundKeepsDisplay ==
    ASSUME DisplayInv, UNCHANGED <<socketVars, writeVars, readVars, queue, watched, phase, dispatching>>
    PROVE  DisplayInv'
<1>1. UNCHANGED <<stalled, broken, queue, unsent, wantsWrite, interest, readers, preparedRead,
                  disconnected, quit, watched, phase, early, dispatching>>
    BY DEF socketVars, writeVars, readVars
<1>2. DisplayTypeOK'
    BY <1>1, DisplayFlags DEF DisplayInv, DisplayTypeOK
<1>3. Listens' /\ Flushes'
    BY <1>1 DEF DisplayInv, Listens, Flushes, Idle
<1> QED BY <1>2, <1>3 DEF DisplayInv

-----------------------------------------------------------------------------
(* The cursor: events on their way. *)

\* A step that moves events and leaves the cursor alone.
LEMMA EventsMove ==
    ASSUME CursorInv, UNCHANGED <<cursorVars, externalVars>>,
           inbound' \in Seq(Event), queue' \in Seq(Event),
           Range(inbound') \cup Range(queue') \subseteq Range(inbound) \cup Range(queue),
           OneAnswer'
    PROVE  CursorInv'
<1>1. UNCHANGED <<open, constraints, stopped, buffer, drawn, frame, requestPending, metadata,
                  picture, announced, gone, changes, retries, stalls>>
    BY DEF cursorVars, externalVars
<1>2. CursorTypeOK'
    BY <1>1 DEF CursorInv, CursorTypeOK
<1>3. EventsFit'
    BY <1>1 DEF CursorInv, EventsFit, Fits
<1>4. BuffersFit' /\ CursorIsWhole' /\ RequestsAreKept'
    BY <1>1 DEF CursorInv, BuffersFit, CursorIsWhole, RequestsAreKept
<1> QED BY <1>2, <1>3, <1>4 DEF CursorInv

\* The socket is emptied by a round trip, or read into the queue.
LEMMA ReadKeepsCursor ==
    ASSUME CursorInv, UNCHANGED <<cursorVars, externalVars>>,
           \/ UNCHANGED wireVars
           \/ inbound' = <<>> /\ queue' = queue
           \/ inbound' = <<>> /\ queue' = queue \o inbound
    PROVE  CursorInv'
<1>1. inbound \in Seq(Event) /\ queue \in Seq(Event) /\ OneAnswer
    BY DEF CursorInv, CursorTypeOK
<1>2. <<>> \in Seq(Event) /\ Range(<<>>) = {} /\ Quiet(<<>>) /\ Single(<<>>)
    BY EmptySeq DEF Range, Quiet, Single
<1>3. CASE UNCHANGED wireVars
    <2>1. inbound' = inbound /\ queue' = queue
        BY <1>3 DEF wireVars
    <2> QED BY <1>1, <2>1, EventsMove DEF OneAnswer
<1>4. CASE inbound' = <<>> /\ queue' = queue
    BY <1>1, <1>2, <1>4, EventsMove DEF OneAnswer
<1>5. CASE inbound' = <<>> /\ queue' = queue \o inbound
    <2>1. /\ queue \o inbound \in Seq(Event) /\ Range(queue \o inbound) \subseteq Range(queue) \cup Range(inbound)
          /\ Single(queue \o inbound)
        BY <1>1, JoinEvents DEF OneAnswer
    <2> QED BY <1>1, <1>2, <1>5, <2>1, EventsMove DEF OneAnswer
<1> QED BY <1>3, <1>4, <1>5

-----------------------------------------------------------------------------
(* The cursor: handlers. *)

\* What a handler or a call leaves for the compositor.
Sent == \E out \in SUBSET Requests : Flushed(out) \/ (Unflushed(out) /\ out \ {"destroy"} \subseteq unsent)

\* The requests waiting once the pending frame is destroyed.
LEMMA FrameDestroyed ==
    ASSUME DisplayInv
    PROVE  WithoutFrame \in SUBSET Requests /\ WithoutFrame \ {"destroy"} \subseteq unsent
BY CursorAssumption DEF WithoutFrame, DisplayInv, DisplayTypeOK

\* A request for a frame is sent, or has a frame or a buffer to wait for.
LEMMA RequestEffect ==
    ASSUME DisplayInv, NEW pending, NEW out \in SUBSET Requests, out \ {"destroy"} \subseteq unsent,
           RequestCursorFrame(pending, out)
    PROVE  /\ Sent /\ frame' \in {pending, buffer} /\ requestPending' \in BOOLEAN
           /\ requestPending' => frame' # Nothing \/ buffer = Nothing \/ stopped
<1>1. out \cup {"frame"} \in SUBSET Requests
    BY CursorAssumption
<1> QED BY <1>1 DEF RequestCursorFrame, CanRequest, Sent

\* After a frame, whatever became of it.
LEMMA AgainEffect ==
    ASSUME DisplayInv, CursorTypeOK, RequestAgain
    PROVE  /\ Sent /\ frame' \in {Nothing, buffer} /\ requestPending' \in BOOLEAN
           /\ requestPending' => frame' # Nothing \/ buffer = Nothing \/ stopped
<1>1. CASE requestPending
    BY <1>1, FrameDestroyed, RequestEffect DEF RequestAgain
<1>2. CASE ~requestPending
    BY <1>2, FrameDestroyed DEF RequestAgain, Sent, CursorTypeOK
<1> QED BY <1>1, <1>2

\* What a handler starts from.
LEMMA HandleFacts ==
    ASSUME IInv, NEW event, Handle(event)
    PROVE  /\ phase = "running" /\ dispatching /\ event \in Event /\ Fits(event)
           /\ UNCHANGED <<socketVars, watched, phase, dispatching, open, picture, announced, gone, changes, retries, stalls>>
           /\ Tail(queue) \in Seq(Event) /\ Range(Tail(queue)) \subseteq Range(queue) /\ Single(Tail(queue))
<1>1. /\ dispatching /\ queue # <<>> /\ Head(queue) = event
      /\ UNCHANGED <<socketVars, watched, phase, dispatching, open, picture, announced, gone, changes, retries, stalls>>
    BY DEF Handle, externalVars
<1>2. phase = "running"
    BY <1>1 DEF IInv, DisplayInv, Listens
<1>3. queue \in Seq(Event) /\ Single(queue) /\ EventsFit
    BY DEF IInv, CursorInv, CursorTypeOK, OneAnswer
<1>4. /\ event \in Event /\ event \in Range(queue)
      /\ Tail(queue) \in Seq(Event) /\ Range(Tail(queue)) \subseteq Range(queue) /\ Single(Tail(queue))
    BY <1>1, <1>3, TakeEvent
<1>5. Fits(event)
    BY <1>3, <1>4 DEF EventsFit
<1> QED BY <1>1, <1>2, <1>4, <1>5

\* The event that is handled is gone, the others stay.
LEMMA ConsumeEffect ==
    ASSUME IInv, NEW event, Handle(event), Consume
    PROVE  /\ inbound' \in Seq(Event) /\ queue' \in Seq(Event) /\ OneAnswer'
           /\ Range(inbound') \cup Range(queue') \subseteq Range(inbound) \cup Range(queue)
<1>1. inbound' = inbound /\ queue' = Tail(queue)
    BY DEF Consume
<1>2. inbound \in Seq(Event) /\ OneAnswer
    BY DEF IInv, CursorInv, CursorTypeOK
<1>3. Tail(queue) \in Seq(Event) /\ Range(Tail(queue)) \subseteq Range(queue) /\ Single(Tail(queue))
    BY HandleFacts
<1> QED BY <1>1, <1>2, <1>3 DEF OneAnswer, Quiet

\* A handler keeps the invariant, if what it leaves of the cursor does.
LEMMA HandlerKeeps ==
    ASSUME IInv, NEW event, Handle(event), Sent,
           inbound' \in Seq(Event), queue' \in Seq(Event), OneAnswer',
           Range(inbound') \cup Range(queue') \subseteq Range(inbound) \cup Range(queue),
           constraints' \in Sizes \cup {Nothing}, stopped' \in BOOLEAN, requestPending' \in BOOLEAN,
           metadata' \in [visible : BOOLEAN, size : Sizes \cup {Nothing}, picture : Pictures \cup {Nothing}],
           drawn' \in Pictures \cup {Nothing},
           UNCHANGED <<drawn, constraints>> \/ (Quiet(inbound') /\ Quiet(queue')),
           buffer' = Nothing \/ (open /\ buffer' = constraints'), frame' = Nothing \/ frame' = buffer',
           CursorIsWhole',
           requestPending' => frame' # Nothing \/ buffer' = Nothing \/ stopped' \/ gone
    PROVE  IInv'
<1>1. /\ phase = "running" /\ dispatching
      /\ UNCHANGED <<socketVars, watched, phase, dispatching, open, picture, announced, gone, changes, retries, stalls>>
    BY HandleFacts
<1>2. DisplayInv'
    BY <1>1, CallKeepsDisplay DEF Sent, IInv
<1>3. CursorTypeOK'
    BY <1>1 DEF IInv, CursorInv, CursorTypeOK
<1>4. BuffersFit' /\ RequestsAreKept'
    BY <1>1 DEF BuffersFit, RequestsAreKept
<1>5. EventsFit'
    <2> SUFFICES ASSUME NEW e \in Range(inbound') \cup Range(queue') PROVE Fits(e)'
        BY DEF EventsFit
    <2>1. Fits(e)
        BY DEF IInv, CursorInv, EventsFit
    <2>2. CASE UNCHANGED <<drawn, constraints>>
        BY <1>1, <2>1, <2>2 DEF Fits
    <2>3. CASE Quiet(inbound') /\ Quiet(queue')
        <3>1. e # <<"ready">>
            BY <2>3 DEF Quiet, FrameEvent
        <3> QED BY <1>1, <2>1, <3>1 DEF Fits
    <2> QED BY <2>2, <2>3
<1> QED BY <1>2, <1>3, <1>4, <1>5 DEF IInv, CursorInv

\* configureCursorBuffer leaves no frame but one of the new buffer, and no answer to
\* the old one.
LEMMA ConfigureEffect ==
    ASSUME IInv, NEW event, Handle(event), NEW size \in Sizes \cup {Nothing}, ConfigureCursorBuffer(size)
    PROVE  /\ Sent /\ drawn' = Nothing /\ requestPending' \in BOOLEAN
           /\ buffer' = Nothing \/ buffer' = size
           /\ frame' = Nothing \/ frame' = buffer'
           /\ requestPending' => frame' # Nothing \/ buffer' = Nothing \/ stopped
           /\ inbound' \in Seq(Event) /\ queue' \in Seq(Event) /\ OneAnswer'
           /\ Range(inbound') \cup Range(queue') \subseteq Range(inbound) \cup Range(queue)
           /\ Quiet(inbound') /\ Quiet(queue')
<1>1. drawn' = Nothing /\ inbound' = Purge(inbound) /\ queue' = Purge(Tail(queue))
    BY DEF ConfigureCursorBuffer
<1>2. inbound \in Seq(Event) /\ Single(inbound)
    BY DEF IInv, CursorInv, CursorTypeOK, OneAnswer
<1>3. Tail(queue) \in Seq(Event) /\ Range(Tail(queue)) \subseteq Range(queue) /\ Single(Tail(queue))
    BY HandleFacts
<1>4. /\ inbound' \in Seq(Event) /\ Range(inbound') \subseteq Range(inbound) /\ Quiet(inbound') /\ Single(inbound')
      /\ queue' \in Seq(Event) /\ Range(queue') \subseteq Range(queue) /\ Quiet(queue') /\ Single(queue')
    BY <1>1, <1>2, <1>3, PurgeDrops
<1>5. DisplayInv /\ stopped \in BOOLEAN /\ requestPending \in BOOLEAN
    BY DEF IInv, CursorInv, CursorTypeOK
<1>6. CASE /\ size # Nothing /\ buffer' = size
           /\ frame' = (IF stopped THEN Nothing ELSE size) /\ requestPending' = stopped
           /\ Flushed(WithoutFrame \cup (IF stopped THEN {} ELSE {"frame"}))
    <2>1. WithoutFrame \cup (IF stopped THEN {} ELSE {"frame"}) \in SUBSET Requests
        BY <1>5, FrameDestroyed, CursorAssumption
    <2>2. Sent
        BY <1>6, <2>1 DEF Sent
    <2> QED BY <1>1, <1>4, <1>5, <1>6, <2>2 DEF OneAnswer
<1>7. CASE /\ buffer' = Nothing /\ frame' = Nothing
           /\ Unflushed(WithoutFrame) /\ UNCHANGED requestPending
    <2>1. Sent
        BY <1>5, <1>7, FrameDestroyed DEF Sent
    <2> QED BY <1>1, <1>4, <1>5, <1>7, <2>1 DEF OneAnswer
<1> QED BY <1>6, <1>7 DEF ConfigureCursorBuffer

\* What the invariant says of the cursor, for the handlers.
LEMMA CursorFacts ==
    ASSUME IInv
    PROVE  /\ DisplayInv /\ CursorTypeOK /\ unsent \in SUBSET Requests
           /\ buffer # Nothing => buffer = constraints /\ open
           /\ frame # Nothing => frame = buffer
           /\ CursorIsWhole
           /\ open /\ requestPending => frame # Nothing \/ buffer = Nothing \/ stopped \/ gone
BY DEF IInv, DisplayInv, DisplayTypeOK, CursorInv, BuffersFit, RequestsAreKept

\* Nothing is left for the compositor.
LEMMA NothingSent == ASSUME DisplayInv, UNCHANGED <<writeVars, readVars>> PROVE Sent
<1>1. unsent' = unsent /\ UNCHANGED <<wantsWrite, interest, readVars>>
    BY DEF writeVars
<1>2. unsent \in SUBSET Requests
    BY DEF DisplayInv, DisplayTypeOK
<1> QED BY <1>1, <1>2 DEF Sent, Unflushed

\* New constraints: a new buffer.
LEMMA SessionDoneKeeps == ASSUME IInv, NEW size \in Sizes, OnSessionDone(size) PROVE IInv'
<1>1. /\ Handle(<<"done", size>>) /\ constraints' = size /\ ConfigureCursorBuffer(size)
      /\ stopped' = stopped /\ metadata' = metadata
    BY DEF OnSessionDone
<1>2. Fits(<<"done", size>>)
    BY <1>1, HandleFacts
<1>3. open
    BY <1>2 DEF Fits
<1>4. CursorIsWhole'
    BY <1>1, CursorFacts DEF CursorIsWhole
<1> QED BY <1>1, <1>3, <1>4, CursorFacts, ConfigureEffect, HandlerKeeps DEF CursorTypeOK

\* The session stops: the cursor is no longer shown.
LEMMA SessionStoppedKeeps == ASSUME IInv, OnSessionStopped PROVE IInv'
<1>1. /\ Handle(<<"stopped">>) /\ Consume
      /\ stopped' = TRUE /\ metadata' = [metadata EXCEPT !.visible = FALSE]
      /\ UNCHANGED <<constraints, buffer, drawn, frame, requestPending, writeVars, readVars>>
    BY DEF OnSessionStopped
<1>2. Sent
    BY <1>1, CursorFacts, NothingSent
<1>3. metadata' \in [visible : BOOLEAN, size : Sizes \cup {Nothing}, picture : Pictures \cup {Nothing}] /\ CursorIsWhole'
    BY <1>1, CursorFacts DEF CursorTypeOK, CursorIsWhole
<1> QED BY <1>1, <1>2, <1>3, CursorFacts, ConsumeEffect, HandlerKeeps DEF CursorTypeOK

\* The frame is taken with the size of the constraints, which is its picture's.
LEMMA FrameReadyKeeps == ASSUME IInv, OnFrameReady PROVE IInv'
<1>1. /\ Handle(<<"ready">>) /\ Consume /\ RequestAgain
      /\ metadata' = [metadata EXCEPT !.size = constraints, !.picture = drawn]
      /\ UNCHANGED <<constraints, stopped, buffer, drawn>>
    BY DEF OnFrameReady
<1>2. drawn # Nothing /\ SizeOf[drawn] = constraints
    BY <1>1, HandleFacts DEF Fits
<1>3. metadata' \in [visible : BOOLEAN, size : Sizes \cup {Nothing}, picture : Pictures \cup {Nothing}] /\ CursorIsWhole'
    BY <1>1, <1>2, CursorFacts DEF CursorTypeOK, CursorIsWhole
<1> QED BY <1>1, <1>3, CursorFacts, AgainEffect, ConsumeEffect, HandlerKeeps DEF CursorTypeOK

\* A frame that failed is asked for again, with a new buffer or not, unless the
\* session ended.
LEMMA FrameFailedKeeps ==
    ASSUME IInv, NEW reason \in {"retry", "constraints", "stopped"}, OnFrameFailed(reason) PROVE IInv'
<1>1. Handle(<<"failed", reason>>) /\ UNCHANGED <<constraints, stopped>>
    BY DEF OnFrameFailed
<1>2. open /\ (reason = "stopped" => gone)
    BY <1>1, HandleFacts DEF Fits
<1>3. CASE /\ reason = "stopped" /\ Consume
           /\ metadata' = [metadata EXCEPT !.visible = FALSE]
           /\ frame' = Nothing /\ Unflushed(WithoutFrame)
           /\ UNCHANGED <<buffer, drawn, requestPending>>
    <2>1. Sent
        BY <1>3, CursorFacts, FrameDestroyed DEF Sent
    <2>2. metadata' \in [visible : BOOLEAN, size : Sizes \cup {Nothing}, picture : Pictures \cup {Nothing}] /\ CursorIsWhole'
        BY <1>3, CursorFacts DEF CursorTypeOK, CursorIsWhole
    <2> QED BY <1>1, <1>2, <1>3, <2>1, <2>2, CursorFacts, ConsumeEffect, HandlerKeeps DEF CursorTypeOK
<1>4. CASE reason = "constraints" /\ ConfigureCursorBuffer(constraints) /\ UNCHANGED metadata
    <2>1. CursorIsWhole' /\ constraints \in Sizes \cup {Nothing}
        BY <1>4, CursorFacts DEF CursorIsWhole, CursorTypeOK
    <2> QED BY <1>1, <1>2, <1>4, <2>1, CursorFacts, ConfigureEffect, HandlerKeeps DEF CursorTypeOK
<1>5. CASE reason = "retry" /\ Consume /\ RequestAgain /\ UNCHANGED <<buffer, drawn, metadata>>
    <2>1. CursorIsWhole'
        BY <1>5, CursorFacts DEF CursorIsWhole
    <2> QED BY <1>1, <1>5, <2>1, CursorFacts, AgainEffect, ConsumeEffect, HandlerKeeps DEF CursorTypeOK
<1> QED BY <1>3, <1>4, <1>5 DEF OnFrameFailed

\* The cursor comes or moves: a frame is asked for; it leaves: it is not shown.
LEMMA CursorEventKeeps == ASSUME IInv, OnCursorEnter \/ OnCursorLeave \/ OnCursorMoved \/ OnOther PROVE IInv'
<1>1. CASE OnCursorEnter
    <2>1. /\ Handle(<<"enter">>) /\ Consume /\ RequestCursorFrame(frame, unsent)
          /\ metadata' = [metadata EXCEPT !.visible = TRUE]
          /\ UNCHANGED <<constraints, stopped, buffer, drawn>>
        BY <1>1 DEF OnCursorEnter
    <2>2. metadata' \in [visible : BOOLEAN, size : Sizes \cup {Nothing}, picture : Pictures \cup {Nothing}] /\ CursorIsWhole'
        BY <2>1, CursorFacts DEF CursorTypeOK, CursorIsWhole
    <2> QED BY <2>1, <2>2, CursorFacts, RequestEffect, ConsumeEffect, HandlerKeeps DEF CursorTypeOK
<1>2. CASE OnCursorMoved
    <2>1. /\ Handle(<<"moved">>) /\ Consume /\ RequestCursorFrame(frame, unsent)
          /\ UNCHANGED <<constraints, stopped, buffer, drawn, metadata>>
        BY <1>2 DEF OnCursorMoved
    <2>2. CursorIsWhole'
        BY <2>1, CursorFacts DEF CursorIsWhole
    <2> QED BY <2>1, <2>2, CursorFacts, RequestEffect, ConsumeEffect, HandlerKeeps DEF CursorTypeOK
<1>3. CASE OnCursorLeave
    <2>1. /\ Handle(<<"leave">>) /\ Consume
          /\ metadata' = [metadata EXCEPT !.visible = FALSE]
          /\ UNCHANGED <<constraints, stopped, buffer, drawn, frame, requestPending, writeVars, readVars>>
        BY <1>3 DEF OnCursorLeave
    <2>2. metadata' \in [visible : BOOLEAN, size : Sizes \cup {Nothing}, picture : Pictures \cup {Nothing}] /\ CursorIsWhole'
        BY <2>1, CursorFacts DEF CursorTypeOK, CursorIsWhole
    <2>3. Fits(<<"leave">>)
        BY <2>1, HandleFacts
    <2>4. open
        BY <2>3 DEF Fits
    <2> QED BY <2>1, <2>2, <2>4, CursorFacts, NothingSent, ConsumeEffect, HandlerKeeps DEF CursorTypeOK
<1>4. CASE OnOther
    <2>1. /\ Handle(<<"other">>) /\ Consume
          /\ UNCHANGED <<constraints, stopped, buffer, drawn, frame, requestPending, metadata, writeVars, readVars>>
        BY <1>4 DEF OnOther
    <2>2. CursorIsWhole'
        BY <2>1, CursorFacts DEF CursorIsWhole
    <2>3. requestPending' => frame' # Nothing \/ buffer' = Nothing \/ stopped' \/ gone
        BY <2>1, CursorFacts
    <2> QED BY <2>1, <2>2, <2>3, CursorFacts, NothingSent, ConsumeEffect, HandlerKeeps DEF CursorTypeOK
<1> QED BY <1>1, <1>2, <1>3, <1>4

-----------------------------------------------------------------------------
(* Calls from the portals. *)

\* What a call starts from.
LEMMA CallFacts ==
    ASSUME IInv, Called
    PROVE  /\ phase \in {"serving", "running"} /\ queue = <<>>
           /\ UNCHANGED <<socketVars, queue, watched, phase, dispatching>>
BY DEF Called, Idle, IInv, DisplayInv, Listens

\* A capture is opened: what is on its way is for nobody in particular.
LEMMA OpenKeeps == ASSUME IInv, OpenCapture PROVE IInv'
<1>1. /\ Called /\ ~open /\ open' = TRUE /\ Flushed(unsent \cup {"session"})
      /\ announced' = Nothing /\ gone' = FALSE
      /\ UNCHANGED <<inbound, constraints, stopped, buffer, drawn, frame, requestPending, metadata, picture, changes, retries, stalls>>
    BY DEF OpenCapture
<1>2. unsent \cup {"session"} \in SUBSET Requests
    BY CursorFacts, CursorAssumption
<1>3. DisplayInv'
    BY <1>1, <1>2, CursorFacts, CallFacts, CallKeepsDisplay
<1>4. queue' = queue
    BY <1>1, CallFacts
<1>5. CursorTypeOK'
    BY <1>1, <1>4, CursorFacts DEF CursorTypeOK
<1>6. EventsFit'
    <2> SUFFICES ASSUME NEW e \in Range(inbound') \cup Range(queue') PROVE Fits(e)'
        BY DEF EventsFit
    <2>1. e = <<"other">>
        BY <1>1, <1>4 DEF IInv, CursorInv, EventsFit, Fits
    <2>2. e # <<"ready">> /\ e # <<"failed", "stopped">>
        BY <2>1
    <2> QED BY <1>1, <2>1, <2>2 DEF Fits
<1>7. OneAnswer'
    BY <1>1, <1>4 DEF IInv, CursorInv, OneAnswer
<1>8. BuffersFit' /\ CursorIsWhole' /\ RequestsAreKept'
    BY <1>1, CursorFacts DEF BuffersFit, CursorIsWhole, RequestsAreKept
<1> QED BY <1>3, <1>5, <1>6, <1>7, <1>8 DEF IInv, CursorInv

\* A capture is closed, and its events are gone with it.
LEMMA CloseKeeps == ASSUME IInv, CloseCapture PROVE IInv'
<1> DEFINE out == (unsent \ {"session", "frame", "stream"}) \cup {"destroy"}
<1>1. /\ Called /\ NoCursor /\ inbound' = OtherEvents(inbound) /\ Unflushed(out)
      /\ UNCHANGED <<picture, announced, gone, changes, retries, stalls>>
    BY DEF CloseCapture, externalVars
<1>2. out \in SUBSET Requests /\ out \ {"destroy"} \subseteq unsent
    BY CursorFacts, CursorAssumption
<1> HIDE DEF out
<1>3. DisplayInv'
    BY <1>1, <1>2, CursorFacts, CallFacts, CallKeepsDisplay
<1>4. queue' = queue /\ queue = <<>> /\ queue \in Seq(Event) /\ inbound \in Seq(Event) /\ Single(queue)
    BY <1>1, CursorFacts, CallFacts DEF CursorTypeOK, IInv, CursorInv, OneAnswer
<1>5. /\ inbound' \in Seq(Event) /\ Quiet(inbound') /\ Single(inbound')
      /\ \A e \in Range(inbound') : e = <<"other">>
    BY <1>1, <1>4, OthersAreLeft
<1>6. Range(queue') = {}
    BY <1>4 DEF Range
<1>7. CursorTypeOK'
    BY <1>1, <1>4, <1>5, CursorFacts DEF CursorTypeOK, NoCursor, NoMetadata
<1>8. EventsFit'
    <2> SUFFICES ASSUME NEW e \in Range(inbound') \cup Range(queue') PROVE Fits(e)'
        BY DEF EventsFit
    <2>1. e = <<"other">>
        BY <1>5, <1>6
    <2>2. e # <<"ready">> /\ e # <<"failed", "stopped">>
        BY <2>1
    <2> QED BY <2>1, <2>2 DEF Fits
<1>9. OneAnswer'
    BY <1>4, <1>5 DEF OneAnswer
<1>10. BuffersFit' /\ CursorIsWhole' /\ RequestsAreKept'
    BY <1>1 DEF BuffersFit, CursorIsWhole, RequestsAreKept, NoCursor, NoMetadata
<1> QED BY <1>3, <1>7, <1>8, <1>9, <1>10 DEF IInv, CursorInv

\* The stream asks for its frame and the cursor's.
LEMMA StreamFrameKeeps == ASSUME IInv, StreamFrame PROVE IInv'
<1> DEFINE out == unsent \cup {"stream"} \cup (IF CanRequest(frame) THEN {"frame"} ELSE {})
<1>1. /\ Called /\ open /\ Flushed(out)
      /\ frame' = (IF CanRequest(frame) THEN buffer ELSE frame)
      /\ requestPending' = ~CanRequest(frame)
      /\ UNCHANGED <<inbound, open, constraints, stopped, buffer, drawn, metadata, picture, announced, gone, changes, retries, stalls>>
    BY DEF StreamFrame, externalVars
<1>2. out \in SUBSET Requests
    BY CursorFacts, CursorAssumption
<1> HIDE DEF out
<1>3. DisplayInv'
    BY <1>1, <1>2, CursorFacts, CallFacts, CallKeepsDisplay
<1>4. queue' = queue
    BY <1>1, CallFacts
<1>5. frame' \in {frame, buffer} /\ requestPending' \in BOOLEAN
    BY <1>1 DEF CanRequest
<1>6. CursorTypeOK'
    BY <1>1, <1>4, <1>5, CursorFacts DEF CursorTypeOK
<1>7. EventsFit'
    BY <1>1, <1>4 DEF IInv, CursorInv, EventsFit, Fits
<1>8. OneAnswer'
    BY <1>1, <1>4 DEF IInv, CursorInv, OneAnswer
<1>9. BuffersFit' /\ CursorIsWhole'
    BY <1>1, <1>5, CursorFacts DEF BuffersFit, CursorIsWhole
<1>10. RequestsAreKept'
    BY <1>1 DEF RequestsAreKept, CanRequest
<1> QED BY <1>3, <1>6, <1>7, <1>8, <1>9, <1>10 DEF IInv, CursorInv

-----------------------------------------------------------------------------
(* The compositor. *)

\* The compositor sends events that fit what the cursor and its session are then; a
\* picture is only drawn while no answer is on its way.
LEMMA SendKeeps ==
    ASSUME IInv, NEW es \in Seq(Event), Send(es), Single(es),
           Quiet(es) \/ (Quiet(inbound) /\ Quiet(queue)),
           UNCHANGED <<open, constraints, stopped, buffer, frame, requestPending, metadata>>,
           drawn' \in Pictures \cup {Nothing},
           drawn' = drawn \/ (Quiet(inbound) /\ Quiet(queue)),
           picture' \in Pictures, announced' \in Sizes \cup {Nothing}, gone' \in BOOLEAN,
           changes' \in 0..MaxChanges, retries' \in 0..MaxRetries, stalls' \in 0..MaxStalls,
           gone => gone', \A e \in Range(es) : Fits(e)'
    PROVE  IInv'
<1>1. /\ inbound' = inbound \o es /\ queue' = queue
      /\ UNCHANGED <<socketVars, writeVars, readVars, queue, watched, phase, dispatching>>
    BY DEF Send
<1>2. DisplayInv'
    BY <1>1, CursorFacts, InboundKeepsDisplay
<1>3. inbound \in Seq(Event) /\ queue \in Seq(Event) /\ OneAnswer /\ EventsFit
    BY DEF IInv, CursorInv, CursorTypeOK
<1>4. /\ inbound' \in Seq(Event) /\ Range(inbound') \subseteq Range(inbound) \cup Range(es)
      /\ Single(es) /\ Single(inbound) /\ (Quiet(inbound) \/ Quiet(es)) => Single(inbound')
    BY <1>1, <1>3, JoinEvents
<1>5. OneAnswer'
    BY <1>1, <1>3, <1>4 DEF OneAnswer, Quiet
<1>6. CursorTypeOK'
    BY <1>1, <1>3, <1>4, CursorFacts DEF CursorTypeOK
<1>7. EventsFit'
    <2> SUFFICES ASSUME NEW e \in Range(inbound') \cup Range(queue') PROVE Fits(e)'
        BY DEF EventsFit
    <2>1. CASE e \in Range(es)
        BY <2>1
    <2>2. CASE e \in Range(inbound) \cup Range(queue)
        <3>1. Fits(e)
            BY <1>3, <2>2 DEF EventsFit
        <3>2. CASE drawn' = drawn
            BY <3>1, <3>2 DEF Fits
        <3>3. CASE Quiet(inbound) /\ Quiet(queue)
            <4>1. e # <<"ready">>
                BY <2>2, <3>3 DEF Quiet, FrameEvent
            <4> QED BY <3>1, <4>1 DEF Fits
        <3> QED BY <3>2, <3>3
    <2> QED BY <1>1, <1>4, <2>1, <2>2
<1>8. BuffersFit' /\ CursorIsWhole' /\ RequestsAreKept'
    BY CursorFacts DEF BuffersFit, CursorIsWhole, RequestsAreKept
<1> QED BY <1>2, <1>5, <1>6, <1>7, <1>8 DEF IInv, CursorInv

\* One event, or two with one answer among them.
LEMMA FewEvents ==
    ASSUME NEW a \in Event, NEW b \in Event
    PROVE  /\ <<a>> \in Seq(Event) /\ Range(<<a>>) = {a} /\ Single(<<a>>)
           /\ <<a, b>> \in Seq(Event) /\ Range(<<a, b>>) = {a, b}
           /\ ~(FrameEvent(a) /\ FrameEvent(b)) => Single(<<a, b>>)
<1>1. <<a>> \in Seq(Event) /\ DOMAIN <<a>> = {1}
    OBVIOUS
<1>2. <<a, b>> \in Seq(Event) /\ DOMAIN <<a, b>> = {1, 2} /\ <<a, b>>[1] = a /\ <<a, b>>[2] = b
    OBVIOUS
<1> QED BY <1>1, <1>2 DEF Range, Single

\* A frame that is asked for has no answer on its way, and a buffer of the
\* constraints' size.
LEMMA AskedFacts == ASSUME IInv, Asked PROVE Quiet(inbound) /\ Quiet(queue) /\ open /\ ~gone /\ frame = constraints
BY CursorFacts DEF Asked, Reached, Quiet, Range

\* The picture changes, or the compositor has something to tell.
LEMMA ChangeKeeps ==
    ASSUME IInv,
           \/ \E p \in Pictures : ChangePicture(p)
           \/ \E e \in {<<"enter">>, <<"leave">>, <<"moved">>, <<"other">>} : Tell(e)
    PROVE  IInv'
<1>0. Change
    BY DEF ChangePicture, Tell
<1>1. /\ changes' \in 0..MaxChanges
      /\ UNCHANGED <<open, constraints, stopped, buffer, drawn, frame, requestPending, metadata, announced, retries, stalls>>
    <2>1. changes \in Nat /\ changes < MaxChanges /\ changes' = changes + 1
        BY <1>0, CursorFacts, CursorAssumption DEF Change, CursorTypeOK
    <2>2. changes' \in 0..MaxChanges
        BY <2>1, CursorAssumption
    <2> QED BY <1>0, <2>2 DEF Change, cursorVars
<1>2. ASSUME NEW p \in Pictures, ChangePicture(p) PROVE IInv'
    <2>1. picture' = p /\ UNCHANGED <<displayVars, gone>>
        BY <1>2 DEF ChangePicture
    <2>2. inbound' = inbound /\ queue' = queue /\ DisplayInv'
        BY <2>1, CursorFacts, InboundKeepsDisplay DEF displayVars, wireVars
    <2>3. CursorTypeOK'
        BY <1>1, <2>1, <2>2, CursorFacts DEF CursorTypeOK
    <2>4. EventsFit'
        BY <1>1, <2>1, <2>2 DEF IInv, CursorInv, EventsFit, Fits
    <2>5. OneAnswer'
        BY <2>2 DEF IInv, CursorInv, OneAnswer
    <2>6. BuffersFit' /\ CursorIsWhole' /\ RequestsAreKept'
        BY <1>1, <2>1, CursorFacts DEF BuffersFit, CursorIsWhole, RequestsAreKept
    <2> QED BY <2>2, <2>3, <2>4, <2>5, <2>6 DEF IInv, CursorInv
<1>3. ASSUME NEW e \in {<<"enter">>, <<"leave">>, <<"moved">>, <<"other">>}, Tell(e) PROVE IInv'
    <2>1. (e # <<"other">> => open) /\ Send(<<e>>) /\ UNCHANGED <<picture, gone>>
        BY <1>3 DEF Tell, Reached
    <2>2. e \in Event /\ ~FrameEvent(e) /\ e # <<"ready">> /\ e # <<"failed", "stopped">>
        BY DEF Event, FrameEvent
    <2>3. <<e>> \in Seq(Event) /\ Range(<<e>>) = {e} /\ Single(<<e>>) /\ Quiet(<<e>>)
        BY <2>2, FewEvents DEF Quiet
    <2>4. \A f \in Range(<<e>>) : Fits(f)'
        BY <1>1, <2>1, <2>2, <2>3 DEF Fits
    <2> QED BY <1>1, <2>1, <2>3, <2>4, CursorFacts, SendKeeps DEF CursorTypeOK
<1> QED BY <1>2, <1>3

\* What is captured goes, and a frame that is asked for fails with it.
LEMMA WithdrawKeeps == ASSUME IInv, Withdraw PROVE IInv'
<1>1. /\ open /\ gone' = TRUE /\ picture' = picture
      /\ UNCHANGED <<open, constraints, stopped, buffer, drawn, frame, requestPending, metadata, announced, retries, stalls>>
    BY DEF Withdraw, Change, cursorVars, Reached
<1>2. changes' \in 0..MaxChanges
    <2>1. changes \in Nat /\ changes < MaxChanges /\ changes' = changes + 1
        BY CursorFacts, CursorAssumption DEF Withdraw, Change, CursorTypeOK
    <2> QED BY <2>1, CursorAssumption
<1> DEFINE stop == <<"stopped">>
           fail == <<"failed", "stopped">>
<1>3. stop \in Event /\ fail \in Event /\ ~FrameEvent(stop) /\ FrameEvent(fail) /\ stop # <<"ready">> /\ fail # <<"ready">>
    BY DEF Event, FrameEvent
<1>4. Fits(stop)' /\ Fits(fail)'
    BY <1>1, <1>3 DEF Fits
<1>5. \/ Send(<<stop>>)
      \/ Asked /\ (Send(<<stop, fail>>) \/ Send(<<fail, stop>>))
    BY DEF Withdraw
<1> HIDE DEF stop, fail
<1>6. CASE Send(<<stop>>)
    <2>1. <<stop>> \in Seq(Event) /\ Range(<<stop>>) = {stop} /\ Single(<<stop>>) /\ Quiet(<<stop>>)
        BY <1>3, FewEvents DEF Quiet
    <2>2. \A f \in Range(<<stop>>) : Fits(f)'
        BY <1>4, <2>1
    <2> QED BY <1>1, <1>2, <1>6, <2>1, <2>2, CursorFacts, SendKeeps DEF CursorTypeOK
<1>7. ASSUME NEW es \in {<<stop, fail>>, <<fail, stop>>}, Asked, Send(es) PROVE IInv'
    <2>1. es \in Seq(Event) /\ Range(es) = {stop, fail} /\ Single(es)
        <3>1. CASE es = <<stop, fail>>
            BY <1>3, <3>1, FewEvents
        <3>2. CASE es = <<fail, stop>>
            <4>1. <<fail, stop>> \in Seq(Event) /\ Range(<<fail, stop>>) = {fail, stop} /\ Single(<<fail, stop>>)
                BY <1>3, FewEvents
            <4>2. {fail, stop} = {stop, fail}
                OBVIOUS
            <4> QED BY <3>2, <4>1, <4>2
        <3> QED BY <3>1, <3>2
    <2>2. \A f \in Range(es) : Fits(f)'
        BY <1>4, <2>1
    <2> QED BY <1>1, <1>2, <1>7, <2>1, <2>2, AskedFacts, CursorFacts, SendKeeps DEF CursorTypeOK
<1> QED BY <1>5, <1>6, <1>7

\* The session's constraints are told.
LEMMA AnnounceKeeps == ASSUME IInv, AnnounceConstraints PROVE IInv'
<1> DEFINE e == <<"done", SizeOf[picture]>>
<1>1. /\ open /\ announced' = SizeOf[picture] /\ Send(<<e>>)
      /\ UNCHANGED <<open, constraints, stopped, buffer, drawn, frame, requestPending, metadata, picture, gone, changes, retries, stalls>>
    BY DEF AnnounceConstraints, Reached, cursorVars
<1>2. SizeOf[picture] \in Sizes
    BY CursorFacts DEF CursorTypeOK, Sizes
<1>3. e \in Event /\ ~FrameEvent(e) /\ e # <<"ready">> /\ e # <<"failed", "stopped">>
    BY <1>2 DEF Event, FrameEvent
<1> HIDE DEF e
<1>4. <<e>> \in Seq(Event) /\ Range(<<e>>) = {e} /\ Single(<<e>>) /\ Quiet(<<e>>)
    BY <1>3, FewEvents DEF Quiet
<1>5. \A f \in Range(<<e>>) : Fits(f)'
    BY <1>1, <1>3, <1>4 DEF Fits
<1> QED BY <1>1, <1>2, <1>4, <1>5, CursorFacts, SendKeeps DEF CursorTypeOK

\* A frame is answered: ready with a picture of the constraints' size, or failed.
LEMMA AnswerKeeps == ASSUME IInv, AnswerFrame \/ RefuseFrame PROVE IInv'
<1>1. Quiet(inbound) /\ Quiet(queue) /\ open /\ ~gone /\ frame = constraints /\ frame # Nothing /\ frame = buffer
    BY AskedFacts, CursorFacts DEF AnswerFrame, RefuseFrame, Asked
<1>2. CASE AnswerFrame /\ frame = SizeOf[picture]
    <2>1. /\ drawn' = picture /\ Send(<<<<"ready">>>>)
          /\ UNCHANGED <<open, constraints, stopped, buffer, frame, requestPending, metadata, picture, announced, gone, changes, retries, stalls>>
        BY <1>1, <1>2 DEF AnswerFrame, externalVars
    <2>2. <<"ready">> \in Event /\ <<"ready">> # <<"failed", "stopped">>
        BY DEF Event
    <2>3. <<<<"ready">>>> \in Seq(Event) /\ Range(<<<<"ready">>>>) = {<<"ready">>} /\ Single(<<<<"ready">>>>)
        BY <2>2, FewEvents
    <2>4. picture \in Pictures /\ picture # Nothing
        BY CursorFacts, CursorAssumption DEF CursorTypeOK
    <2>5. \A f \in Range(<<<<"ready">>>>) : Fits(f)'
        BY <1>1, <1>2, <2>1, <2>2, <2>3, <2>4 DEF Fits
    <2> QED BY <1>1, <2>1, <2>3, <2>4, <2>5, CursorFacts, SendKeeps DEF CursorTypeOK
<1>3. CASE (AnswerFrame /\ frame # SizeOf[picture]) \/ RefuseFrame
    <2>1. PICK reason \in {"constraints", "retry"} :
              /\ Send(<<<<"failed", reason>>>>)
              /\ UNCHANGED <<open, constraints, stopped, buffer, drawn, frame, requestPending, metadata, picture, announced, gone, changes, stalls>>
              /\ retries' \in 0..MaxRetries
        <3>1. CASE AnswerFrame /\ frame # SizeOf[picture]
            BY <3>1, CursorFacts DEF AnswerFrame, externalVars, CursorTypeOK
        <3>2. CASE RefuseFrame
            <4>1. retries \in Nat /\ retries < MaxRetries /\ retries' = retries + 1
                BY <3>2, CursorFacts, CursorAssumption DEF RefuseFrame, CursorTypeOK
            <4>2. retries' \in 0..MaxRetries
                BY <4>1, CursorAssumption
            <4> QED BY <3>2, <4>2 DEF RefuseFrame, cursorVars
        <3> QED BY <1>3, <3>1, <3>2
    <2> DEFINE e == <<"failed", reason>>
    <2>2. e \in Event /\ e # <<"ready">> /\ e # <<"failed", "stopped">>
        BY DEF Event
    <2> HIDE DEF e
    <2>3. <<e>> \in Seq(Event) /\ Range(<<e>>) = {e} /\ Single(<<e>>)
        BY <2>2, FewEvents
    <2>4. \A f \in Range(<<e>>) : Fits(f)'
        BY <1>1, <2>1, <2>2, <2>3 DEF Fits
    <2>5. Send(<<e>>)
        BY <2>1 DEF e
    <2> QED BY <1>1, <2>1, <2>3, <2>4, <2>5, CursorFacts, SendKeeps DEF CursorTypeOK
<1> QED BY <1>2, <1>3

-----------------------------------------------------------------------------
(* The whole. *)

\* The process starts, runs its loop and ends, and the socket comes and goes: the
\* cursor is left alone, and its events are only read.
LEMMA ProcessKeeps ==
    ASSUME IInv,
           \/ StartStep /\ Others
           \/ LoopStep /\ Others
           \/ (DispatchFails \/ Signal \/ Resume \/ Break) /\ Others
    PROVE  IInv'
<1>1. UNCHANGED <<cursorVars, externalVars>>
    BY DEF Others
<1>2. DisplayInv'
    BY CursorFacts, StartKeepsDisplay, LoopKeepsDisplay, OutsideKeepsDisplay
<1>3. \/ UNCHANGED wireVars
      \/ inbound' = <<>> /\ queue' = queue
      \/ inbound' = <<>> /\ queue' = queue \o inbound
    <2>1. CASE StartStep
        BY <2>1 DEF StartStep, FirstRoundtrip, SecondRoundtrip, Roundtrip, CheckConnected, Run, wireVars
    <2>2. CASE LoopStep
        BY <2>2 DEF LoopStep, HangUp, HandleDisplayEvents, PrepareRead, End, wireVars
    <2>3. CASE DispatchFails \/ Signal \/ Resume \/ Break
        BY <2>3 DEF DispatchFails, Signal, Resume, Break
    <2> QED BY <2>1, <2>2, <2>3
<1> QED BY <1>1, <1>2, <1>3, ReadKeepsCursor DEF IInv

\* The socket fills up.
LEMMA StallKeeps == ASSUME IInv, StallOnce PROVE IInv'
<1>1. /\ Stall /\ stalls < MaxStalls /\ stalls' = stalls + 1
      /\ UNCHANGED <<open, constraints, stopped, buffer, drawn, frame, requestPending, metadata, picture, announced, gone, changes, retries>>
    BY DEF StallOnce, cursorVars
<1>2. DisplayInv' /\ inbound' = inbound /\ queue' = queue
    BY <1>1, CursorFacts, OutsideKeepsDisplay DEF Stall, wireVars
<1>3. stalls' \in 0..MaxStalls
    <2>1. stalls \in Nat /\ MaxStalls \in Nat
        BY CursorFacts, CursorAssumption DEF CursorTypeOK
    <2> QED BY <1>1, <2>1
<1>4. CursorTypeOK'
    BY <1>1, <1>2, <1>3, CursorFacts DEF CursorTypeOK
<1>5. EventsFit' /\ OneAnswer'
    BY <1>1, <1>2 DEF IInv, CursorInv, EventsFit, Fits, OneAnswer
<1>6. BuffersFit' /\ CursorIsWhole' /\ RequestsAreKept'
    BY <1>1, CursorFacts DEF BuffersFit, CursorIsWhole, RequestsAreKept
<1> QED BY <1>2, <1>4, <1>5, <1>6 DEF IInv, CursorInv

\* Every step keeps the invariant.
LEMMA NextInductive == IInv /\ [Next]_vars => IInv'
<1> SUFFICES ASSUME IInv, [Next]_vars PROVE IInv'
    OBVIOUS
<1>1. CASE HandleEvent
    BY <1>1, SessionDoneKeeps, SessionStoppedKeeps, FrameReadyKeeps, FrameFailedKeeps, CursorEventKeeps DEF HandleEvent
<1>2. CASE UNCHANGED vars
    <2>1. UNCHANGED <<cursorVars, externalVars, wireVars, displayVars>>
        BY <1>2 DEF vars, displayVars
    <2>2. DisplayInv'
        BY <2>1, CursorFacts, InboundKeepsDisplay DEF displayVars, wireVars
    <2> QED BY <2>1, <2>2, ReadKeepsCursor DEF IInv
<1> QED BY <1>1, <1>2, ProcessKeeps, OpenKeeps, CloseKeeps, StreamFrameKeeps, ChangeKeeps, WithdrawKeeps,
           AnnounceKeeps, AnswerKeeps, StallKeeps DEF Next

\* The connection that is made, with no capture, satisfies it.
LEMMA InitInductive == Init => IInv
<1> SUFFICES ASSUME Init PROVE IInv
    OBVIOUS
<1>1. /\ stalled = FALSE /\ broken = FALSE /\ inbound = <<>> /\ queue = <<>> /\ unsent = {} /\ readers = 0
      /\ preparedRead = FALSE /\ wantsWrite = FALSE /\ disconnected = FALSE
      /\ watched = FALSE /\ interest = FALSE
      /\ phase = "first" /\ quit = FALSE /\ early = FALSE /\ dispatching = FALSE
    BY DEF Init, DisplayInit
<1>2. DisplayInv
    <2>1. DisplayTypeOK
        <3>1. readers \in 0..1 /\ unsent \subseteq Requests /\ phase \in Phases
            BY <1>1 DEF Phases
        <3>2. {stalled, broken, preparedRead, wantsWrite, disconnected, watched, interest, quit, early, dispatching}
                 \subseteq {FALSE}
            BY <1>1
        <3> QED BY <3>1, <3>2 DEF DisplayTypeOK
    <2>2. Listens
        BY <1>1 DEF Listens, Idle
    <2>3. Flushes
        BY <1>1 DEF Flushes
    <2> QED BY <2>1, <2>2, <2>3 DEF DisplayInv
<1>3. CursorTypeOK
    <2>1. inbound \in Seq(Event) /\ queue \in Seq(Event)
        BY <1>1, EmptySeq
    <2>2. NoMetadata \in [visible : BOOLEAN, size : Sizes \cup {Nothing}, picture : Pictures \cup {Nothing}]
        BY DEF NoMetadata
    <2>3. 0 \in 0..MaxChanges /\ 0 \in 0..MaxRetries /\ 0 \in 0..MaxStalls
        BY CursorAssumption
    <2> QED BY <2>1, <2>2, <2>3 DEF Init, CursorTypeOK
<1>4. Range(<<>>) = {} /\ DOMAIN <<>> = {}
    BY EmptySeq DEF Range
<1>5. EventsFit /\ OneAnswer
    BY <1>1, <1>4 DEF EventsFit, OneAnswer, Single, Quiet
<1>6. BuffersFit /\ CursorIsWhole /\ RequestsAreKept
    BY DEF Init, BuffersFit, CursorIsWhole, RequestsAreKept, NoMetadata
<1> QED BY <1>2, <1>3, <1>5, <1>6 DEF IInv, CursorInv

\* The inductive invariant of the connection and the capture holds.
THEOREM SpecIInv == Spec => []IInv
BY InitInductive, NextInductive, PTL DEF Spec

\* The portal never waits in its loop with an event read and not dispatched, or
\* without the prepared read that lets the next be read (handleDisplayEvents,
\* prepareRead, cancelPreparedRead).
THEOREM CursorCaptureIdleListens == Spec => []IdleListens
<1>1. IInv => IdleListens
    BY DEF IInv, DisplayInv, Listens, CursorInv, CursorTypeOK, IdleListens, TypeOK, Idle
<1> QED BY <1>1, SpecIInv, PTL

\* Requests that did not fit into the socket are waited for (flushDisplay,
\* updateDisplayFdEvents).
THEOREM CursorCaptureRequestsGoOut == Spec => []RequestsGoOut
<1>1. IInv => RequestsGoOut
    BY DEF IInv, DisplayInv, Flushes, RequestsGoOut
<1> QED BY <1>1, SpecIInv, PTL

\* The cursor's picture is always shown in its own size (configureCursorBuffer,
\* cursorFrameReady).
THEOREM CursorCaptureCursorIsWhole == Spec => []CursorIsWhole
<1>1. IInv => CursorIsWhole
    BY DEF IInv, CursorInv
<1> QED BY <1>1, SpecIInv, PTL

\* A request for the cursor that was put off has something to wait for
\* (requestCursorFrame, cursorFrameFailed).
THEOREM CursorCaptureRequestsAreKept == Spec => []RequestsAreKept
<1>1. IInv => RequestsAreKept
    BY DEF IInv, CursorInv
<1> QED BY <1>1, SpecIInv, PTL

=============================================================================
