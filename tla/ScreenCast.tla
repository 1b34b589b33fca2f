----------------------------- MODULE ScreenCast -----------------------------
(***************************************************************************)
(* The org.freedesktop.impl.portal.ScreenCast backend: the session table,  *)
(* the zero-delay timers that erase sessions and drop Request objects, and *)
(* the Start operations that run a chooser, wait for capture constraints   *)
(* and hand streams to a session.  Every action is one callback of the     *)
(* single-threaded event loop: a D-Bus method, a timer, a Wayland event or *)
(* the exit of the chooser.                                                *)
(***************************************************************************)
EXTENDS Naturals, FiniteSets

CONSTANTS
    Paths,          \* D-Bus object paths the frontend uses for sessions
    NoPath,         \* the path of a session not created yet
    Starts,         \* the Start calls the frontend may make
    MaxSessions,    \* bound: how many Session objects are ever created
    MaxCaptures,    \* bound: how many sources one Start may select
    Several         \* bound: the Starts that may select more than one

ASSUME ScreenCastAssumption ==
    /\ NoPath \notin Paths
    /\ MaxSessions \in Nat
    /\ MaxCaptures \in Nat \ {0}

VARIABLES
    sessions,   \* Impl::sessions: path -> session id, or None
    created,    \* sessions created so far; ids are given in order
    pathOf,     \* Session::path of each session
    closed,     \* Session::Impl::isClosed
    told,       \* sessions that emitted the Closed signal
    multiple,   \* Session::Impl::allowMultiple
    restore,    \* how many restore selections the session holds
    streams,    \* Session::Impl::streams, as <<start, index>> pairs
    stopped,    \* streams whose StreamState is stopped but still listed
    erasures,   \* pending deferEraseSession timers of each path
    phase,      \* where each StartOperation is
    owner,      \* StartOperation::session
    count,      \* size of StartOperation::pending
    ready,      \* indices with hasConstraints
    lost,       \* indices whose CaptureSession got the stopped event
    timer,      \* StartOperation::timeoutTimer is armed
    child,      \* the chooser process
    request,    \* the Request object of the call
    reply,      \* what returnResults sent
    announced   \* the streams of a successful reply

sessionVars == <<sessions, created, pathOf, closed, told, multiple, restore, streams, stopped, erasures>>
startVars == <<phase, owner, count, ready, lost, timer, child, request, reply, announced>>
vars == <<sessionVars, startVars>>

None == 0
Sids == 1..MaxSessions
Indices == 1..MaxCaptures
StreamIds == Starts \X Indices

TypeOK ==
    /\ sessions \in [Paths -> Sids \cup {None}]
    /\ created \in 0..MaxSessions
    /\ pathOf \in [Sids -> Paths \cup {NoPath}]
    /\ closed \in [Sids -> BOOLEAN]
    /\ told \in SUBSET Sids
    /\ multiple \in [Sids -> BOOLEAN]
    /\ restore \in [Sids -> 0..MaxCaptures]
    /\ streams \in [Sids -> SUBSET StreamIds]
    /\ stopped \in SUBSET StreamIds
    /\ erasures \in [Paths -> Nat]
    /\ phase \in [Starts -> {"idle", "chooser", "capturing", "done"}]
    /\ owner \in [Starts -> Sids \cup {None}]
    /\ count \in [Starts -> 0..MaxCaptures]
    /\ ready \in [Starts -> SUBSET Indices]
    /\ lost \in [Starts -> SUBSET Indices]
    /\ timer \in [Starts -> BOOLEAN]
    /\ child \in [Starts -> {"none", "running", "terminated"}]
    /\ request \in [Starts -> {"none", "exported", "doomed", "removed"}]
    /\ reply \in [Starts -> {"none", "success", "cancelled", "other"}]
    /\ announced \in [Starts -> SUBSET StreamIds]

Init ==
    /\ sessions = [p \in Paths |-> None]
    /\ created = 0
    /\ pathOf = [s \in Sids |-> NoPath]
    /\ closed = [s \in Sids |-> FALSE]
    /\ told = {}
    /\ multiple = [s \in Sids |-> FALSE]
    /\ restore = [s \in Sids |-> 0]
    /\ streams = [s \in Sids |-> {}]
    /\ stopped = {}
    /\ erasures = [p \in Paths |-> 0]
    /\ phase = [o \in Starts |-> "idle"]
    /\ owner = [o \in Starts |-> None]
    /\ count = [o \in Starts |-> 0]
    /\ ready = [o \in Starts |-> {}]
    /\ lost = [o \in Starts |-> {}]
    /\ timer = [o \in Starts |-> FALSE]
    /\ child = [o \in Starts |-> "none"]
    /\ request = [o \in Starts |-> "none"]
    /\ reply = [o \in Starts |-> "none"]
    /\ announced = [o \in Starts |-> {}]

-----------------------------------------------------------------------------
(* Who keeps a Session object alive: the table, and the operations in flight. *)

InFlight(o) == phase[o] \in {"chooser", "capturing"}

Held(s) == \E o \in Starts : InFlight(o) /\ owner[o] = s
Alive(s) == Held(s) \/ \E p \in Paths : sessions[p] = s

\* Streams die with their Session: ~StreamState calls stop().
LiveStreams(s) == IF Alive(s) THEN streams[s] \ stopped ELSE {}

-----------------------------------------------------------------------------
(* Sessions. *)

\* Mutant: no closed handler is installed.
CloseWithoutErase(s, byBackend) ==
    IF closed[s] THEN UNCHANGED <<closed, told, streams, erasures>>
    ELSE /\ closed' = [closed EXCEPT ![s] = TRUE]
         /\ told' = IF byBackend THEN told \cup {s} ELSE told
         /\ streams' = [streams EXCEPT ![s] = {}]
         /\ UNCHANGED erasures

\* Session::Impl::close: once; drops the streams, emits Closed when the backend
\* closes, and the closed handler schedules the erase of the path.
CloseSession(s, byBackend) ==
    IF closed[s] THEN UNCHANGED <<closed, told, streams, erasures>>
    ELSE /\ closed' = [closed EXCEPT ![s] = TRUE]
         /\ told' = IF byBackend THEN told \cup {s} ELSE told
         /\ streams' = [streams EXCEPT ![s] = {}]
         /\ erasures' = [erasures EXCEPT ![pathOf[s]] = @ + 1]

\* An object is exported at p by a session that only a Start still holds.
Occupied(p) == \E o \in Starts : InFlight(o) /\ owner[o] # None /\ pathOf[owner[o]] = p

\* The table has an open session at p, which SelectSources and Start insist on.
Usable(p) == sessions[p] # None /\ ~closed[sessions[p]]

\* Mutant: CreateSession replaces what is at the path without closing it.
CreateWithoutClose(p) ==
    /\ created < MaxSessions /\ ~Occupied(p)
    /\ created' = created + 1
    /\ sessions' = [sessions EXCEPT ![p] = created + 1]
    /\ pathOf' = [pathOf EXCEPT ![created + 1] = p]
    /\ UNCHANGED <<closed, told, streams, erasures, multiple, restore, stopped, startVars>>

\* Mutant: CreateSession emplaces a new object beside the one that is there.
CreateBeside(p) ==
    /\ created < MaxSessions
    /\ created' = created + 1
    /\ sessions' = [sessions EXCEPT ![p] = created + 1]
    /\ pathOf' = [pathOf EXCEPT ![created + 1] = p]
    /\ UNCHANGED <<closed, told, streams, erasures, multiple, restore, stopped, startVars>>

\* CreateSession closes and erases what is at the path.  Exporting the new object
\* throws when the path is taken, which the caller gets as a D-Bus error.
CreateSession(p) ==
    /\ created < MaxSessions
    /\ IF sessions[p] = None
       THEN UNCHANGED <<closed, told, streams, erasures>>
       ELSE CloseSession(sessions[p], FALSE)
    /\ IF Occupied(p)
       THEN /\ sessions' = [sessions EXCEPT ![p] = None]
            /\ UNCHANGED <<created, pathOf>>
       ELSE /\ created' = created + 1
            /\ sessions' = [sessions EXCEPT ![p] = created + 1]
            /\ pathOf' = [pathOf EXCEPT ![created + 1] = p]
    /\ UNCHANGED <<multiple, restore, stopped, startVars>>

\* parseRestoreData: restore_data that is missing, foreign or malformed restores no
\* selection, and so does an entry without a kind or a name.  Else there are selections,
\* of which any number may match later: fewer of them is fewer that match.
Restorable == {0, MaxCaptures}

\* SelectSources on an open session; a missing or closed one is answered 2 and
\* nothing changes.
SelectSources(p) ==
    LET s == sessions[p] IN
    /\ Usable(p)
    /\ \E m \in BOOLEAN : multiple' = [multiple EXCEPT ![s] = m]
    /\ \E n \in Restorable : restore' = [restore EXCEPT ![s] = n]
    /\ UNCHANGED <<sessions, created, pathOf, closed, told, streams, stopped, erasures, startVars>>

\* An unsupported cursor_mode closes the session from the backend side.
SelectBadCursorMode(p) ==
    LET s == sessions[p] IN
    /\ Usable(p)
    /\ CloseSession(s, TRUE)
    /\ UNCHANGED <<sessions, created, pathOf, multiple, restore, stopped, startVars>>

\* org.freedesktop.impl.portal.Session.Close from the frontend, which reaches the
\* object as long as it exists.
SessionClose(s) ==
    /\ Alive(s)
    /\ CloseSession(s, FALSE)
    /\ UNCHANGED <<sessions, created, pathOf, multiple, restore, stopped, startVars>>

\* Mutant: a timer that erases again and again.
EraseUnguarded(p) ==
    /\ erasures' = [erasures EXCEPT ![p] = @ - 1]
    /\ sessions' = [sessions EXCEPT ![p] = None]
    /\ UNCHANGED <<created, pathOf, closed, told, multiple, restore, streams, stopped, startVars>>

\* The deferEraseSession timer: erases whatever session is at the path by now.
EraseSession(p) ==
    /\ erasures[p] > 0
    /\ erasures' = [erasures EXCEPT ![p] = @ - 1]
    /\ sessions' = [sessions EXCEPT ![p] = None]
    /\ UNCHANGED <<created, pathOf, closed, told, multiple, restore, streams, stopped, startVars>>

\* The compositor stops the capture of a live stream: StreamState::captureStopped
\* stops it and its handler closes whatever session the path names.
StreamStops(s, x) ==
    /\ x \in LiveStreams(s)
    /\ stopped' = stopped \cup {x}
    /\ LET t == sessions[pathOf[s]] IN
       IF t = None
       THEN UNCHANGED <<closed, told, streams, erasures>>
       ELSE CloseSession(t, TRUE)
    /\ UNCHANGED <<sessions, created, pathOf, multiple, restore, startVars>>

-----------------------------------------------------------------------------
(* Start operations. *)

\* Mutant: finish() that does not clear the streams of a failed call.
FinishKeepingStreams(o, s, answer, now) ==
    /\ phase' = [phase EXCEPT ![o] = "done"]
    /\ timer' = [timer EXCEPT ![o] = FALSE]
    /\ streams' = [streams EXCEPT ![s] = now]
    /\ reply' = [reply EXCEPT ![o] = answer]
    /\ announced' = [announced EXCEPT ![o] = IF answer = "success" THEN now ELSE {}]
    /\ request' = [request EXCEPT ![o] = "doomed"]
    /\ count' = [count EXCEPT ![o] = 0]
    /\ ready' = [ready EXCEPT ![o] = {}]
    /\ lost' = [lost EXCEPT ![o] = {}]

\* StartOperation::finish for an operation not done yet, on session s holding the
\* streams "now": a failure clears them all, a success announces them all; the
\* Request is left to a zero-delay timer and the operation leaves inflight.
Finish(o, s, answer, now) ==
    /\ phase' = [phase EXCEPT ![o] = "done"]
    /\ timer' = [timer EXCEPT ![o] = FALSE]
    /\ streams' = [streams EXCEPT ![s] = IF answer = "success" THEN now ELSE {}]
    /\ reply' = [reply EXCEPT ![o] = answer]
    /\ announced' = [announced EXCEPT ![o] = IF answer = "success" THEN now ELSE {}]
    /\ request' = [request EXCEPT ![o] = "doomed"]
    /\ count' = [count EXCEPT ![o] = 0]
    /\ ready' = [ready EXCEPT ![o] = {}]
    /\ lost' = [lost EXCEPT ![o] = {}]

\* Mutant: startCaptures that does not arm its timer.
BeginUntimed(o, s, n) ==
    \/ /\ n > 1 => o \in Several
       /\ phase' = [phase EXCEPT ![o] = "capturing"]
       /\ count' = [count EXCEPT ![o] = IF multiple[s] THEN n ELSE 1]
       /\ request' = [request EXCEPT ![o] = "exported"]
       /\ UNCHANGED <<timer, ready, lost, reply, announced, streams>>
    \/ Finish(o, s, "other", streams[s])

\* createOutputCapture or createToplevelCapture yields no capture: the source or a
\* manager is gone, or the compositor refuses the session.
NoCapture(o, s) == Finish(o, s, "other", streams[s])

\* startCaptures with n selections: one when the session is not "multiple"; a
\* capture that cannot be created fails the call, else the 5 s timer is armed.
BeginCaptures(o, s, n) ==
    \/ /\ n > 1 => o \in Several
       /\ phase' = [phase EXCEPT ![o] = "capturing"]
       /\ count' = [count EXCEPT ![o] = IF multiple[s] THEN n ELSE 1]
       /\ timer' = [timer EXCEPT ![o] = TRUE]
       /\ request' = [request EXCEPT ![o] = "exported"]
       /\ UNCHANGED <<ready, lost, reply, announced, streams>>
    \/ NoCapture(o, s)

\* runChooser: no chooser command, or one that cannot be spawned, cancels.
RunChooser(o, s) ==
    \/ /\ phase' = [phase EXCEPT ![o] = "chooser"]
       /\ child' = [child EXCEPT ![o] = "running"]
       /\ request' = [request EXCEPT ![o] = "exported"]
       /\ UNCHANGED <<count, ready, lost, timer, reply, announced, streams>>
    \/ Finish(o, s, "cancelled", streams[s]) /\ UNCHANGED child

sessionsButStreams == <<sessions, created, pathOf, closed, told, multiple, restore, stopped, erasures>>

\* Start on a missing or closed session is answered 2 without an operation.
RejectStart(o, p) ==
    /\ phase[o] = "idle"
    /\ ~Usable(p)
    /\ phase' = [phase EXCEPT ![o] = "done"]
    /\ reply' = [reply EXCEPT ![o] = "other"]
    /\ request' = [request EXCEPT ![o] = "doomed"]
    /\ UNCHANGED <<owner, count, ready, lost, timer, child, announced, sessionVars>>

\* matchRestoreSelections: how many of the stored selections may still name an
\* output or an application that is there; with none the chooser is asked.
Matching(s) == 1..restore[s]

\* Start on an open session: straight to the captures when stored selections
\* match the current sources, else through the chooser.
StartOn(o, p) ==
    LET s == sessions[p] IN
    /\ phase[o] = "idle"
    /\ Usable(p)
    /\ owner' = [owner EXCEPT ![o] = s]
    /\ \/ \E n \in Matching(s) : BeginCaptures(o, s, n) /\ UNCHANGED child
       \/ RunChooser(o, s)
    /\ UNCHANGED sessionsButStreams

\* parseChooserSelections: how many sources a chooser's answer may name; an answer
\* that is no JSON or names none that is there is an empty choice.
Choosable == Indices

\* The chooser exits and its callback runs: a failure or an empty choice cancels,
\* an unknown command falls back to the first output, and with no output fails.
ChooserExits(o) ==
    /\ phase[o] = "chooser" /\ child[o] = "running"
    /\ child' = [child EXCEPT ![o] = "none"]
    /\ \/ \E answer \in {"cancelled", "other"} : Finish(o, owner[o], answer, streams[owner[o]])
       \/ \E n \in Choosable : BeginCaptures(o, owner[o], n)
    /\ UNCHANGED <<owner, sessionsButStreams>>

\* Mutant: cancel() that leaves the chooser running with its callback.
CloseWithoutTerminate(o) ==
    /\ request[o] = "exported"
    /\ Finish(o, owner[o], "cancelled", {})
    /\ UNCHANGED <<owner, child, sessionsButStreams>>

\* Request.Close while the operation runs: cancel() terminates the chooser, whose
\* callback is dropped, clears the streams and answers 1.  On a doomed Request
\* the handler finds the operation done.
RequestClose(o) ==
    /\ request[o] = "exported"
    /\ child' = [child EXCEPT ![o] = IF @ = "running" THEN "terminated" ELSE @]
    /\ Finish(o, owner[o], "cancelled", {})
    /\ UNCHANGED <<owner, sessionsButStreams>>

\* The terminated chooser is reaped by pollExit; nobody hears of it.
ChooserReaped(o) ==
    /\ child[o] = "terminated"
    /\ child' = [child EXCEPT ![o] = "none"]
    /\ UNCHANGED <<phase, owner, count, ready, lost, timer, request, reply, announced, sessionVars>>

\* maybeCompleteCaptures once every capture has constraints: streams are created
\* and added in order; an empty size, a stream that cannot be created or a
\* stopped capture at j fails the call after j - 1 streams were added.
CompleteCaptures(o) ==
    LET s == owner[o]
        added(k) == streams[s] \cup {<<o, i>> : i \in 1..k}
    IN \/ lost[o] = {} /\ Finish(o, s, "success", added(count[o]))
       \/ \E j \in 1..count[o] :
             /\ \A i \in lost[o] : i >= j
             /\ Finish(o, s, "other", added(j - 1))

\* Mutant: constraintsReady without maybeCompleteCaptures.
ConstraintsNeverComplete(o, i) ==
    /\ phase[o] = "capturing"
    /\ i \in (1..count[o]) \ (lost[o] \cup ready[o])
    /\ ready' = [ready EXCEPT ![o] = @ \cup {i}]
    /\ UNCHANGED <<phase, count, lost, timer, request, reply, announced, streams>>
    /\ UNCHANGED <<owner, child, sessionsButStreams>>

\* A capture session sends "done" (constraintsReady); the last one completes.
ConstraintsReady(o, i) ==
    /\ phase[o] = "capturing"
    /\ i \in (1..count[o]) \ (lost[o] \cup ready[o])
    /\ IF ready[o] \cup {i} = 1..count[o]
       THEN CompleteCaptures(o)
       ELSE /\ ready' = [ready EXCEPT ![o] = @ \cup {i}]
            /\ UNCHANGED <<phase, count, lost, timer, request, reply, announced, streams>>
    /\ UNCHANGED <<owner, child, sessionsButStreams>>

\* The compositor stops a capture that is still pending; only its flag is set.
CaptureLost(o, i) ==
    /\ phase[o] = "capturing"
    /\ i \in (1..count[o]) \ lost[o]
    /\ lost' = [lost EXCEPT ![o] = @ \cup {i}]
    /\ UNCHANGED <<phase, owner, count, ready, timer, child, request, reply, announced, sessionVars>>

\* Five seconds after the captures began.
CaptureTimeout(o) ==
    /\ timer[o]
    /\ Finish(o, owner[o], "other", streams[owner[o]])
    /\ UNCHANGED <<owner, child, sessionsButStreams>>

\* Mutant: the Request goes before its call is answered.
RequestRemovedEarly(o) ==
    /\ request[o] \in {"exported", "doomed"}
    /\ request' = [request EXCEPT ![o] = "removed"]
    /\ UNCHANGED <<phase, owner, count, ready, lost, timer, child, reply, announced, sessionVars>>

\* The deferRequestDestroy timer unexports the Request.
RequestRemoved(o) ==
    /\ request[o] = "doomed"
    /\ request' = [request EXCEPT ![o] = "removed"]
    /\ UNCHANGED <<phase, owner, count, ready, lost, timer, child, reply, announced, sessionVars>>

-----------------------------------------------------------------------------
Next ==
    \/ \E p \in Paths : CreateSession(p) \/ SelectSources(p) \/ SelectBadCursorMode(p) \/ EraseSession(p)
    \/ \E s \in Sids : SessionClose(s) \/ \E x \in StreamIds : StreamStops(s, x)
    \/ \E o \in Starts, p \in Paths : RejectStart(o, p) \/ StartOn(o, p)
    \/ \E o \in Starts : \/ ChooserExits(o) \/ RequestClose(o) \/ ChooserReaped(o)
                         \/ CaptureTimeout(o) \/ RequestRemoved(o)
    \/ \E o \in Starts, i \in Indices : ConstraintsReady(o, i) \/ CaptureLost(o, i)

\* The event loop fires every timer that has expired.  Nothing is assumed of the
\* frontend, the compositor or the user in front of the chooser.
Fairness ==
    /\ \A p \in Paths : WF_vars(EraseSession(p))
    /\ \A o \in Starts : WF_vars(CaptureTimeout(o)) /\ WF_vars(RequestRemoved(o))

Spec == Init /\ [][Next]_vars
FairSpec == Spec /\ Fairness

-----------------------------------------------------------------------------
(* Properties. *)

\* An operation that has answered holds nothing any more: no timer, no chooser
\* still wired to it, no captures, and its Request is on its way out
\* (StartOperation::finish and cancel on every path).
FinishedHoldsNothing ==
    \A o \in Starts : phase[o] = "done" =>
        /\ ~timer[o] /\ count[o] = 0 /\ child[o] # "running"
        /\ reply[o] # "none"
        /\ request[o] \in {"doomed", "removed"}

\* An operation waiting for constraints can always end: its 5 s timer is armed
\* and it never sits on a complete set of constraints (maybeCompleteCaptures).
CapturingCanEnd ==
    \A o \in Starts : phase[o] = "capturing" =>
        /\ timer[o]
        /\ count[o] > 0 /\ ready[o] # 1..count[o]

\* A closed session never stays in the table for good: an erase timer of its path
\* is pending as long as it is there (Session::Impl::close, deferEraseSession).
ClosedSessionsGetErased ==
    \A p \in Paths : sessions[p] # None /\ closed[sessions[p]] => erasures[p] > 0

\* No stream outlives a Start that failed, and none exists that its Start did not
\* announce: what a session holds was put there by a Start on it that answered 0.
StreamsWereAnnounced ==
    \A s \in Sids : \A x \in streams[s] :
        /\ owner[x[1]] = s
        /\ reply[x[1]] = "success"
        /\ x \in announced[x[1]]

\* A capture that stops never closes somebody else's session: the session its
\* handler finds by path is the stream's own, or there is none at the path any more
\* and nothing is closed (captureStopped, backendClosedHandler).  Starts overlap, and
\* a session may be out of the table while a Start still holds it and its streams.
StopClosesOwnSession ==
    \A s \in Sids : LiveStreams(s) # {} => sessions[pathOf[s]] \in {s, None}

\* A Start that waits for constraints is answered, whatever the
\* compositor answers or leaves unanswered, short of hanging up, which ends the program.
CapturingIsAnswered ==
    \A o \in Starts : phase[o] = "capturing" ~> phase[o] = "done"

\* The call as PortalRequest sees it.
callStatus == [o \in Starts |->
    CASE phase[o] = "idle" -> "idle"
      [] phase[o] \in {"chooser", "capturing"} -> "pending"
      [] phase[o] = "done" -> "answered"]
callObject == [o \in Starts |-> IF request[o] \in {"exported", "doomed"} THEN "exported" ELSE "absent"]

Call == INSTANCE PortalRequest WITH Calls <- Starts, status <- callStatus, object <- callObject,
                                    alive <- TRUE

\* Every Start implements the promise of a portal call.
StartIsPortalRequest == Call!Spec

\* An open session leaves the table only as an erase of its path fires, and none is
\* scheduled while it is there: the erases that endanger it were pending when it came.
\* A session that closes late, held only by a Start, never schedules one against another
\* that is open (deferEraseSession in closedHandler).  That the pending ones do take it
\* is a defect this allows: a handle used again before they fire loses its session.
OnlyOldErases ==
    [][\A p \in Paths : Usable(p) =>
          \/ closed'[sessions[p]]
          \/ sessions'[p] = sessions[p] /\ erasures'[p] = erasures[p]
          \/ erasures'[p] < erasures[p]]_vars

\* Session.xml: "The portal can abort the interaction by calling Session.Close()":
\* a Start does not succeed on a session closed before it was answered.
CloseAbortsStart ==
    [][\A o \in Starts : reply[o] = "none" /\ reply'[o] = "success" => ~closed[owner[o]]]_vars
=============================================================================
