---------------------------- MODULE WaylandDisplay ----------------------------
(***************************************************************************)
(* The connection to the compositor as WaylandContext drives it: the       *)
(* prepare / read / cancel protocol of libwayland around the event loop,   *)
(* flushing what does not fit into the socket, and noticing its loss while *)
(* the process starts, serves or ends.  What the events and requests say   *)
(* is up to the module that extends this one.                              *)
(***************************************************************************)
EXTENDS Naturals, Sequences

CONSTANT Requests   \* kinds of requests the portal may have waiting

VARIABLES
    stalled,        \* the compositor does not read: the socket takes no more
    broken,         \* the compositor hung up
    inbound,        \* events in the socket
    queue,          \* events libwayland has read and not dispatched
    unsent,         \* kinds of requests in libwayland's buffer
    readers,        \* prepared reads libwayland counts
    preparedRead, wantsWrite, disconnected,     \* WaylandContext::Impl
    watched,        \* displayFdId # 0
    interest,       \* the loop waits for EPOLLOUT too
    phase,          \* of the process
    quit,           \* Loop::quit was called while the loop runs
    early,          \* history: the loss was noticed after main checked and before the loop ran
    dispatching     \* in wl_display_dispatch_pending

socketVars == <<stalled, broken>>
wireVars == <<inbound, queue>>
writeVars == <<unsent, wantsWrite, interest>>
readVars == <<readers, preparedRead, disconnected, quit, early>>
displayVars == <<socketVars, wireVars, writeVars, readVars, watched, phase, dispatching>>

\* "first", "second": before the round trips of the constructor; "checking": before
\* main's check; "serving": DbusPortal answers its first calls; then Loop::run.
Phases == {"first", "second", "checking", "serving", "running", "ended"}

DisplayTypeOK ==
    /\ unsent \subseteq Requests /\ readers \in 0..1 /\ phase \in Phases
    /\ \A b \in {stalled, broken, preparedRead, wantsWrite, disconnected, watched, interest, quit, early, dispatching} :
          b \in BOOLEAN

DisplayInit ==
    /\ stalled = FALSE /\ broken = FALSE /\ inbound = <<>> /\ queue = <<>> /\ unsent = {} /\ readers = 0
    /\ preparedRead = FALSE /\ wantsWrite = FALSE /\ disconnected = FALSE
    /\ watched = FALSE /\ interest = FALSE
    /\ phase = "first" /\ quit = FALSE /\ early = FALSE /\ dispatching = FALSE

-----------------------------------------------------------------------------
(* Each operator below says what becomes of preparedRead, readers,            *)
(* disconnected, quit and early, when preparedRead is p and there are n readers. *)

Keep(p, n) ==
    /\ preparedRead' = p /\ readers' = n
    /\ UNCHANGED <<disconnected, quit, early>>

\* cancelPreparedRead
Cancelled(p, n) == IF p THEN n - 1 ELSE n

\* Mutant: the loop is not told.
MarkWithoutQuit(p, n) ==
    /\ disconnected' = TRUE /\ preparedRead' = FALSE /\ readers' = Cancelled(p, n)
    /\ UNCHANGED <<quit, early>>

\* Loop::quit does nothing to a loop that does not run yet.
MarkDisconnected(p, n) ==
    IF disconnected THEN Keep(p, n)
    ELSE /\ disconnected' = TRUE
         /\ preparedRead' = FALSE /\ readers' = Cancelled(p, n)
         /\ quit' = (quit \/ phase = "running")
         /\ early' = (early \/ phase = "serving")

\* updateDisplayFdEvents
UpdateDisplayFdEvents(wants) == interest' = IF watched /\ ~disconnected THEN wants ELSE interest

\* Mutant: what did not fit waits for the next flush somebody makes.
FlushOnce(out, p, n) ==
    /\ unsent' = IF stalled \/ broken THEN out ELSE {}
    /\ UNCHANGED <<wantsWrite, interest>>
    /\ IF broken THEN MarkDisconnected(p, n) ELSE Keep(p, n)

\* flushDisplay, with these requests waiting.
FlushDisplay(out, p, n) ==
    \/ /\ out = {} \/ ~(stalled \/ broken)
       /\ unsent' = {} /\ wantsWrite' = FALSE
       /\ UpdateDisplayFdEvents(FALSE) /\ Keep(p, n)
    \/ /\ out # {} /\ stalled /\ ~broken
       /\ unsent' = out /\ wantsWrite' = TRUE
       /\ UpdateDisplayFdEvents(TRUE) /\ Keep(p, n)
    \/ /\ out # {} /\ broken
       /\ unsent' = out /\ MarkDisconnected(p, n)
       /\ UNCHANGED <<wantsWrite, interest>>

\* A call or a handler that leaves these requests waiting and flushes them, or not.
Flushed(out) == FlushDisplay(out, preparedRead, readers)
Unflushed(out) == unsent' = out /\ UNCHANGED <<wantsWrite, interest, readVars>>

-----------------------------------------------------------------------------
(* The constructor and main. *)

\* Mutant: the read that was prepared stays so during the round trip.
RoundtripKeepingRead(next) ==
    /\ ~broken /\ ~disconnected /\ readers = 0
    /\ inbound' = <<>> /\ phase' = next
    /\ FlushDisplay(unsent, TRUE, 1)
    /\ UNCHANGED <<socketVars, queue, watched, dispatching>>

\* roundtrip: libwayland reads and dispatches until the answer comes, which it
\* never does while another read is prepared; then prepareRead.
Roundtrip(next) ==
    LET n == Cancelled(preparedRead, readers) IN
    /\ phase' = next
    /\ IF disconnected THEN UNCHANGED <<writeVars, inbound>> /\ Keep(preparedRead, readers)
       ELSE IF broken
       THEN MarkDisconnected(FALSE, n) /\ UNCHANGED <<writeVars, inbound>>
       ELSE n = 0 /\ inbound' = <<>> /\ FlushDisplay(unsent, TRUE, 1)
    /\ UNCHANGED <<socketVars, queue, watched, dispatching>>

FirstRoundtrip == phase = "first" /\ Roundtrip("second")
SecondRoundtrip == phase = "second" /\ Roundtrip("checking")

\* addFd, prepareRead with a read prepared already, and main's check.
CheckConnected ==
    /\ phase = "checking"
    /\ watched' = TRUE
    /\ phase' = IF disconnected THEN "ended" ELSE "serving"
    /\ UNCHANGED <<socketVars, wireVars, writeVars, readVars, dispatching>>

\* run() sets running, whatever quit() said before.
Run ==
    /\ phase = "serving" /\ phase' = "running"
    /\ UNCHANGED <<socketVars, wireVars, writeVars, readVars, watched, dispatching>>

\* A signal asks the loop to end.
Signal ==
    /\ phase = "running" /\ ~dispatching /\ quit' = TRUE
    /\ UNCHANGED <<socketVars, wireVars, writeVars, readers, preparedRead, disconnected, watched, phase, early, dispatching>>

\* The loop ends, and ~WaylandContext cancels the read.
End ==
    /\ phase = "running" /\ quit /\ ~dispatching
    /\ phase' = "ended" /\ watched' = FALSE
    /\ preparedRead' = FALSE /\ readers' = Cancelled(preparedRead, readers)
    /\ UNCHANGED <<socketVars, wireVars, writeVars, disconnected, quit, early, dispatching>>

-----------------------------------------------------------------------------
(* The loop. *)

Idle == phase = "running" /\ ~quit /\ ~dispatching

HangUp ==
    /\ Idle /\ broken /\ ~disconnected
    /\ MarkDisconnected(preparedRead, readers)
    /\ UNCHANGED <<socketVars, wireVars, writeVars, watched, phase, dispatching>>

\* handleDisplayEvents up to its prepareRead: EPOLLOUT flushes, EPOLLIN reads.
HandleDisplayEvents ==
    LET in == inbound # <<>>
        out == interest /\ ~stalled
        read == in /\ preparedRead
    IN /\ Idle /\ ~broken /\ ~disconnected
       /\ in \/ out
       /\ queue' = IF read THEN queue \o inbound ELSE queue
       /\ inbound' = IF read THEN <<>> ELSE inbound
       /\ LET p == IF read THEN FALSE ELSE preparedRead
              n == Cancelled(read, readers)
          IN IF out THEN FlushDisplay(unsent, p, n) ELSE Keep(p, n) /\ UNCHANGED writeVars
       /\ dispatching' = TRUE
       /\ UNCHANGED <<socketVars, watched, phase>>

\* An error the compositor sent before it hung up is found first.
DispatchFails ==
    /\ dispatching /\ broken
    /\ MarkDisconnected(preparedRead, readers)
    /\ dispatching' = FALSE
    /\ UNCHANGED <<socketVars, wireVars, writeVars, watched, phase>>

\* Mutant: nothing is prepared after a dispatch.
PrepareReadNever ==
    /\ dispatching /\ queue = <<>> /\ dispatching' = FALSE
    /\ Keep(preparedRead, readers)
    /\ UNCHANGED <<socketVars, wireVars, writeVars, watched, phase>>

\* prepareRead: libwayland prepares a read when it has nothing to dispatch.
PrepareRead ==
    /\ dispatching /\ queue = <<>> /\ dispatching' = FALSE
    /\ IF disconnected \/ preparedRead
       THEN Keep(preparedRead, readers) /\ UNCHANGED writeVars
       ELSE FlushDisplay(unsent, TRUE, readers + 1)
    /\ UNCHANGED <<socketVars, wireVars, watched, phase>>

-----------------------------------------------------------------------------
(* The compositor. *)

Stall ==
    /\ phase = "running" /\ ~stalled /\ stalled' = TRUE
    /\ UNCHANGED <<wireVars, writeVars, readVars, broken, watched, phase, dispatching>>

Resume ==
    /\ stalled /\ stalled' = FALSE
    /\ UNCHANGED <<wireVars, writeVars, readVars, broken, watched, phase, dispatching>>

Break ==
    /\ phase # "ended" /\ ~broken /\ broken' = TRUE
    /\ UNCHANGED <<wireVars, writeVars, readVars, stalled, watched, phase, dispatching>>

Send(events) ==
    /\ ~broken /\ ~stalled /\ phase # "ended"
    /\ inbound' = inbound \o events
    /\ UNCHANGED <<socketVars, writeVars, readVars, queue, watched, phase, dispatching>>

StartStep == FirstRoundtrip \/ SecondRoundtrip \/ CheckConnected \/ Run
LoopStep == HangUp \/ HandleDisplayEvents \/ PrepareRead \/ End
=============================================================================
