-------------------------- MODULE ScreenCastProofs --------------------------
(***************************************************************************)
(* Proofs about ScreenCast for every set of paths and calls and any        *)
(* frontend.  The safety properties follow from one inductive invariant.   *)
(***************************************************************************)
EXTENDS ScreenCast, TLAPS

\* What an operation holds in each phase.
OperationShape ==
    \A o \in Starts :
        /\ phase[o] = "idle" => /\ ~timer[o] /\ child[o] = "none" /\ count[o] = 0
                                /\ ready[o] = {} /\ request[o] = "none" /\ reply[o] = "none"
        /\ phase[o] = "chooser" => ~timer[o] /\ count[o] = 0 /\ ready[o] = {}
        /\ phase[o] = "capturing" => timer[o] /\ child[o] # "running" /\ count[o] > 0
        /\ InFlight(o) => owner[o] \in 1..created /\ reply[o] = "none"
        /\ request[o] = "exported" <=> InFlight(o)
        /\ phase[o] = "done" => ready[o] = {}

\* The table names created sessions, each at its own path.
TableAgrees ==
    \A p \in Paths : sessions[p] # None => sessions[p] <= created /\ pathOf[sessions[p]] = p

\* A session that does not exist yet is open.
UncreatedOpen == \A s \in Sids : closed[s] => s <= created

\* A created session has a path, and only created sessions were started.
HoldersCreated ==
    /\ \A s \in Sids : s <= created => pathOf[s] \in Paths
    /\ \A o \in Starts : owner[o] <= created

IInv ==
    /\ TypeOK
    /\ HoldersCreated
    /\ OperationShape
    /\ TableAgrees
    /\ UncreatedOpen
    /\ FinishedHoldsNothing
    /\ CapturingCanEnd
    /\ ClosedSessionsGetErased
    /\ StreamsWereAnnounced

-----------------------------------------------------------------------------
(* Types. *)

\* Session::Impl::close keeps the types of what it changes.
LEMMA CloseTypes ==
    ASSUME TypeOK, NEW s \in Sids, NEW byBackend \in BOOLEAN, CloseSession(s, byBackend)
    PROVE  /\ closed' \in [Sids -> BOOLEAN]
           /\ told' \in SUBSET Sids
           /\ streams' \in [Sids -> SUBSET StreamIds]
           /\ erasures' \in [Paths -> Nat]
<1> USE DEF TypeOK, CloseSession
<1>1. CASE closed[s]
    BY <1>1
<1>2. CASE ~closed[s]
    <2>1. closed' \in [Sids -> BOOLEAN]
        BY <1>2
    <2>4. told' \in SUBSET Sids
        BY <1>2
    <2>2. streams' \in [Sids -> SUBSET StreamIds]
        BY <1>2
    <2>3. erasures' \in [Paths -> Nat]
        <3>1. erasures' = [erasures EXCEPT ![pathOf[s]] = @ + 1]
            BY <1>2
        <3>2. CASE pathOf[s] \in Paths
            BY <3>1, <3>2
        <3>3. CASE pathOf[s] \notin Paths
            BY <3>1, <3>3
        <3> QED BY <3>2, <3>3
    <2> QED BY <2>1, <2>2, <2>3, <2>4
<1> QED BY <1>1, <1>2

Answers == {"success", "cancelled", "other"}

\* StartOperation::finish keeps the types of what it changes.
LEMMA FinishTypes ==
    ASSUME TypeOK, NEW o \in Starts, NEW s \in Sids, NEW answer \in Answers,
           NEW now \in SUBSET StreamIds, Finish(o, s, answer, now)
    PROVE  /\ phase' \in [Starts -> {"idle", "chooser", "capturing", "done"}]
           /\ timer' \in [Starts -> BOOLEAN]
           /\ streams' \in [Sids -> SUBSET StreamIds]
           /\ reply' \in [Starts -> {"none", "success", "cancelled", "other"}]
           /\ announced' \in [Starts -> SUBSET StreamIds]
           /\ request' \in [Starts -> {"none", "exported", "doomed", "removed"}]
           /\ count' \in [Starts -> 0..MaxCaptures]
           /\ ready' \in [Starts -> SUBSET Indices]
           /\ lost' \in [Starts -> SUBSET Indices]
<1> USE DEF TypeOK, Finish, Answers
<1>1. phase' \in [Starts -> {"idle", "chooser", "capturing", "done"}]
    OBVIOUS
<1>2. timer' \in [Starts -> BOOLEAN]
    OBVIOUS
<1>3. streams' \in [Sids -> SUBSET StreamIds]
    <2>1. (IF answer = "success" THEN now ELSE {}) \in SUBSET StreamIds
        OBVIOUS
    <2> QED BY <2>1
<1>4. reply' \in [Starts -> {"none", "success", "cancelled", "other"}]
    OBVIOUS
<1>5. announced' \in [Starts -> SUBSET StreamIds]
    OBVIOUS
<1>6. request' \in [Starts -> {"none", "exported", "doomed", "removed"}]
    OBVIOUS
<1>7. count' \in [Starts -> 0..MaxCaptures]
    BY ScreenCastAssumption
<1>8. ready' \in [Starts -> SUBSET Indices] /\ lost' \in [Starts -> SUBSET Indices]
    OBVIOUS
<1> QED BY <1>1, <1>2, <1>3, <1>4, <1>5, <1>6, <1>7, <1>8

\* So does startCaptures.
LEMMA BeginTypes ==
    ASSUME TypeOK, NEW o \in Starts, NEW s \in Sids, NEW n \in Indices, BeginCaptures(o, s, n)
    PROVE  /\ phase' \in [Starts -> {"idle", "chooser", "capturing", "done"}]
           /\ timer' \in [Starts -> BOOLEAN]
           /\ streams' \in [Sids -> SUBSET StreamIds]
           /\ reply' \in [Starts -> {"none", "success", "cancelled", "other"}]
           /\ announced' \in [Starts -> SUBSET StreamIds]
           /\ request' \in [Starts -> {"none", "exported", "doomed", "removed"}]
           /\ count' \in [Starts -> 0..MaxCaptures]
           /\ ready' \in [Starts -> SUBSET Indices]
           /\ lost' \in [Starts -> SUBSET Indices]
<1>1. streams[s] \in SUBSET StreamIds
    BY DEF TypeOK
<1>2. CASE Finish(o, s, "other", streams[s])
    BY <1>1, <1>2, FinishTypes DEF Answers
<1>3. CASE ~Finish(o, s, "other", streams[s])
    <2>1. (IF multiple[s] THEN n ELSE 1) \in 0..MaxCaptures
        BY ScreenCastAssumption DEF Indices
    <2>2. /\ phase' \in [Starts -> {"idle", "chooser", "capturing", "done"}]
          /\ timer' \in [Starts -> BOOLEAN]
        BY <1>3 DEF BeginCaptures, NoCapture, TypeOK
    <2>3. count' \in [Starts -> 0..MaxCaptures]
        BY <1>3, <2>1 DEF BeginCaptures, NoCapture, TypeOK
    <2>4. request' \in [Starts -> {"none", "exported", "doomed", "removed"}]
        BY <1>3 DEF BeginCaptures, NoCapture, TypeOK
    <2> QED BY <1>3, <2>2, <2>3, <2>4 DEF BeginCaptures, NoCapture, TypeOK
<1> QED BY <1>2, <1>3

\* Operations in flight hold a created session.
LEMMA InFlightOwner ==
    ASSUME IInv, NEW o \in Starts, InFlight(o)
    PROVE  owner[o] \in Sids /\ streams[owner[o]] \in SUBSET StreamIds
    BY ScreenCastAssumption DEF IInv, TypeOK, OperationShape, Sids

\* A session that holds a stream was created: it has a path.
LEMMA StreamPath ==
    ASSUME IInv, NEW s \in Sids, streams[s] # {}
    PROVE  pathOf[s] \in Paths
<1>1. PICK x \in streams[s] : TRUE
    OBVIOUS
<1>2. x[1] \in Starts /\ owner[x[1]] = s
    BY <1>1 DEF IInv, StreamsWereAnnounced, TypeOK, StreamIds
<1> QED BY <1>2 DEF IInv, HoldersCreated, TypeOK

\* A timer and an exported Request belong to an operation in flight.
LEMMA ArmedInFlight ==
    ASSUME IInv, NEW o \in Starts
    PROVE  (timer[o] => phase[o] = "capturing") /\ (request[o] = "exported" => InFlight(o))
    BY DEF IInv, TypeOK, OperationShape, FinishedHoldsNothing, InFlight

\* Every action keeps every variable in its type.
LEMMA TypeInductive == IInv /\ [Next]_vars => TypeOK'
<1> SUFFICES ASSUME IInv, [Next]_vars PROVE TypeOK'
    OBVIOUS
<1>0. TypeOK
    BY DEF IInv
<1>1. ASSUME NEW p \in Paths, CreateSession(p) PROVE TypeOK'
    <2> USE <1>0, <1>1 DEF CreateSession
    <2>1. /\ closed' \in [Sids -> BOOLEAN] /\ told' \in SUBSET Sids
          /\ streams' \in [Sids -> SUBSET StreamIds] /\ erasures' \in [Paths -> Nat]
        <3>1. CASE sessions[p] = None
            BY <3>1 DEF TypeOK
        <3>2. CASE sessions[p] # None
            <4>1. sessions[p] \in Sids
                BY <3>2 DEF TypeOK
            <4> QED BY <3>2, <4>1, CloseTypes
        <3> QED BY <3>1, <3>2
    <2>2. created \in Nat /\ MaxSessions \in Nat /\ created + 1 \in Sids
        BY ScreenCastAssumption DEF TypeOK, Sids
    <2>3. sessions' \in [Paths -> Sids \cup {None}]
        BY <2>2 DEF TypeOK
    <2>4. created' \in 0..MaxSessions
        BY <2>2 DEF TypeOK
    <2>5. pathOf' \in [Sids -> Paths \cup {NoPath}]
        BY <2>2 DEF TypeOK
    <2> QED BY <2>1, <2>3, <2>4, <2>5 DEF TypeOK, startVars
<1>2. ASSUME NEW p \in Paths, SelectSources(p) PROVE TypeOK'
    <2>1. multiple' \in [Sids -> BOOLEAN]
        BY <1>0, <1>2 DEF SelectSources, TypeOK
    <2>0. Restorable \subseteq 0..MaxCaptures
        BY ScreenCastAssumption DEF Restorable
    <2>2. restore' \in [Sids -> 0..MaxCaptures]
        BY <1>0, <1>2, <2>0 DEF SelectSources, TypeOK
    <2> QED BY <1>0, <1>2, <2>1, <2>2 DEF SelectSources, TypeOK, startVars
<1>3. ASSUME NEW p \in Paths, SelectBadCursorMode(p) PROVE TypeOK'
    <2>1. sessions[p] \in Sids /\ CloseSession(sessions[p], TRUE)
        BY <1>0, <1>3 DEF SelectBadCursorMode, Usable, TypeOK
    <2> HIDE DEF CloseSession
    <2> QED BY <1>0, <1>3, <2>1, CloseTypes DEF SelectBadCursorMode, TypeOK, startVars
<1>4. ASSUME NEW p \in Paths, EraseSession(p) PROVE TypeOK'
    <2>1. erasures' \in [Paths -> Nat]
        BY <1>0, <1>4 DEF EraseSession, TypeOK
    <2>2. sessions' \in [Paths -> Sids \cup {None}]
        BY <1>0, <1>4 DEF EraseSession, TypeOK
    <2> QED BY <1>0, <1>4, <2>1, <2>2 DEF EraseSession, TypeOK, startVars
<1>5. ASSUME NEW s \in Sids, SessionClose(s) PROVE TypeOK'
    BY <1>0, <1>5, CloseTypes DEF SessionClose, TypeOK, startVars
<1>6. ASSUME NEW s \in Sids, NEW x \in StreamIds, StreamStops(s, x) PROVE TypeOK'
    <2> DEFINE t == sessions[pathOf[s]]
    <2>1. /\ closed' \in [Sids -> BOOLEAN] /\ told' \in SUBSET Sids
          /\ streams' \in [Sids -> SUBSET StreamIds] /\ erasures' \in [Paths -> Nat]
        <3>1. CASE t = None
            BY <1>0, <1>6, <3>1 DEF StreamStops, TypeOK
        <3>2. CASE t \in Sids
            <4>1. t # None
                BY <3>2, ScreenCastAssumption DEF Sids, None
            <4>2. CloseSession(t, TRUE)
                BY <1>6, <4>1 DEF StreamStops
            <4> QED BY <1>0, <3>2, <4>2, CloseTypes
        <3>3. pathOf[s] \in Paths
            BY <1>6, StreamPath DEF StreamStops, LiveStreams
        <3> QED BY <1>0, <3>1, <3>2, <3>3 DEF TypeOK
    <2>2. stopped' \in SUBSET StreamIds
        BY <1>0, <1>6 DEF StreamStops, TypeOK
    <2> QED BY <1>0, <1>6, <2>1, <2>2 DEF StreamStops, TypeOK, startVars
<1>7. ASSUME NEW o \in Starts, NEW p \in Paths, RejectStart(o, p) PROVE TypeOK'
    BY <1>0, <1>7 DEF RejectStart, TypeOK, sessionVars
<1>8. ASSUME NEW o \in Starts, NEW p \in Paths, StartOn(o, p) PROVE TypeOK'
    <2> DEFINE s == sessions[p]
    <2>1. s \in Sids /\ streams[s] \in SUBSET StreamIds
        BY <1>0, <1>8 DEF StartOn, Usable, TypeOK
    <2>2. owner' \in [Starts -> Sids \cup {None}]
        BY <1>0, <1>8, <2>1 DEF StartOn, TypeOK
    <2> HIDE DEF s
    <2>3. CASE \E n \in Matching(s) : BeginCaptures(o, s, n) /\ UNCHANGED child
        <3>1. PICK n \in Matching(s) : BeginCaptures(o, s, n) /\ UNCHANGED child
            BY <2>3
        <3>2. n \in Indices
            BY <1>0, <2>1, ScreenCastAssumption DEF TypeOK, Indices, Matching
        <3> QED BY <1>0, <1>8, <2>1, <2>2, <3>1, <3>2, BeginTypes DEF StartOn, TypeOK, sessionsButStreams
    <2>4. CASE RunChooser(o, s)
        <3>1. CASE Finish(o, s, "cancelled", streams[s]) /\ UNCHANGED child
            BY <1>0, <1>8, <2>1, <2>2, <3>1, FinishTypes DEF StartOn, TypeOK, sessionsButStreams, Answers
        <3>2. CASE ~(Finish(o, s, "cancelled", streams[s]) /\ UNCHANGED child)
            BY <1>0, <1>8, <2>2, <2>4, <3>2 DEF StartOn, RunChooser, TypeOK, sessionsButStreams
        <3> QED BY <3>1, <3>2
    <2> QED BY <1>8, <2>3, <2>4 DEF StartOn, s
<1>9. ASSUME NEW o \in Starts, ChooserExits(o) PROVE TypeOK'
    <2>1. owner[o] \in Sids /\ streams[owner[o]] \in SUBSET StreamIds
        BY <1>9, InFlightOwner DEF ChooserExits, InFlight
    <2>2. child' \in [Starts -> {"none", "running", "terminated"}]
        BY <1>0, <1>9 DEF ChooserExits, TypeOK
    <2>3. CASE \E answer \in {"cancelled", "other"} : Finish(o, owner[o], answer, streams[owner[o]])
        BY <1>0, <1>9, <2>1, <2>2, <2>3, FinishTypes DEF ChooserExits, TypeOK, sessionsButStreams, Answers
    <2>4. CASE \E n \in Choosable : BeginCaptures(o, owner[o], n)
        BY <1>0, <1>9, <2>1, <2>2, <2>4, BeginTypes DEF Choosable, ChooserExits, TypeOK, sessionsButStreams
    <2> QED BY <1>9, <2>3, <2>4 DEF ChooserExits
<1>10. ASSUME NEW o \in Starts, RequestClose(o) PROVE TypeOK'
    <2>1. owner[o] \in Sids
        BY <1>10, ArmedInFlight, InFlightOwner DEF RequestClose
    <2>2. child' \in [Starts -> {"none", "running", "terminated"}]
        BY <1>0, <1>10 DEF RequestClose, TypeOK
    <2> QED BY <1>0, <1>10, <2>1, <2>2, FinishTypes DEF RequestClose, TypeOK, sessionsButStreams, Answers
<1>11. ASSUME NEW o \in Starts, ChooserReaped(o) PROVE TypeOK'
    BY <1>0, <1>11 DEF ChooserReaped, TypeOK, sessionVars
<1>12. ASSUME NEW o \in Starts, CaptureTimeout(o) PROVE TypeOK'
    <2>1. owner[o] \in Sids /\ streams[owner[o]] \in SUBSET StreamIds
        BY <1>12, ArmedInFlight, InFlightOwner DEF CaptureTimeout, InFlight
    <2> QED BY <1>0, <1>12, <2>1, FinishTypes DEF CaptureTimeout, TypeOK, sessionsButStreams, Answers
<1>13. ASSUME NEW o \in Starts, RequestRemoved(o) PROVE TypeOK'
    BY <1>0, <1>13 DEF RequestRemoved, TypeOK, sessionVars
<1>14. ASSUME NEW o \in Starts, NEW i \in Indices, ConstraintsReady(o, i) PROVE TypeOK'
    <2> DEFINE added(k) == streams[owner[o]] \cup {<<o, j>> : j \in 1..k}
    <2>1. owner[o] \in Sids /\ streams[owner[o]] \in SUBSET StreamIds
        BY <1>14, InFlightOwner DEF ConstraintsReady, InFlight
    <2>2. ASSUME NEW k \in 0..MaxCaptures PROVE added(k) \in SUBSET StreamIds
        BY <2>1, ScreenCastAssumption DEF StreamIds, Indices
    <2> HIDE DEF added
    <2>3. count[o] \in 0..MaxCaptures
        BY <1>0 DEF TypeOK
    <2>u. UNCHANGED <<owner, child, sessionsButStreams>>
        BY <1>14 DEF ConstraintsReady
    <2>4. CASE ready[o] \cup {i} = 1..count[o] /\ lost[o] = {} /\ Finish(o, owner[o], "success", added(count[o]))
        BY <1>0, <2>u, <2>1, <2>2, <2>3, <2>4, FinishTypes DEF TypeOK, sessionsButStreams, Answers
    <2>5. CASE \E j \in 1..count[o] : Finish(o, owner[o], "other", added(j - 1))
        <3>1. PICK j \in 1..count[o] : Finish(o, owner[o], "other", added(j - 1))
            BY <2>5
        <3>2. j - 1 \in 0..MaxCaptures
            BY <2>3, ScreenCastAssumption
        <3>3. added(j - 1) \in SUBSET StreamIds
            BY <2>2, <3>2
        <3> QED BY <1>0, <2>u, <2>1, <3>1, <3>3, FinishTypes DEF TypeOK, sessionsButStreams, Answers
    <2>6. CASE ready[o] \cup {i} # 1..count[o]
        BY <1>0, <1>14, <2>6 DEF ConstraintsReady, TypeOK, sessionsButStreams
    <2> QED BY <1>14, <2>4, <2>5, <2>6 DEF ConstraintsReady, CompleteCaptures, added
<1>15. ASSUME NEW o \in Starts, NEW i \in Indices, CaptureLost(o, i) PROVE TypeOK'
    BY <1>0, <1>15 DEF CaptureLost, TypeOK, sessionVars
<1>16. CASE UNCHANGED vars
    BY <1>0, <1>16 DEF vars, sessionVars, startVars, TypeOK
<1> QED
    BY <1>1, <1>2, <1>3, <1>4, <1>5, <1>6, <1>7, <1>8, <1>9, <1>10, <1>11, <1>12,
       <1>13, <1>14, <1>15, <1>16 DEF Next

-----------------------------------------------------------------------------
(* What the shared steps do to the invariant. *)

\* The table names a created session, at its own path.
LEMMA TablePath ==
    ASSUME IInv, NEW p \in Paths, sessions[p] # None
    PROVE  sessions[p] \in Sids /\ sessions[p] <= created /\ pathOf[sessions[p]] = p
    BY DEF IInv, TypeOK, TableAgrees

\* Closing a session leaves the other ones open and schedules an erase of its path.
LEMMA CloseEffect ==
    ASSUME TypeOK, NEW s \in Sids, pathOf[s] \in Paths,
           NEW byBackend \in BOOLEAN, CloseSession(s, byBackend)
    PROVE  /\ \A t \in Sids : closed'[t] => closed[t] \/ t = s
           /\ \A q \in Paths : erasures[q] > 0 => erasures'[q] > 0
           /\ closed[s] \/ erasures'[pathOf[s]] > 0
           /\ \A t \in Sids : streams'[t] \subseteq streams[t]
<1> USE DEF TypeOK, CloseSession
<1>1. CASE closed[s]
    BY <1>1
<1>2. CASE ~closed[s]
    <2>1. \A t \in Sids : closed'[t] => closed[t] \/ t = s
        BY <1>2
    <2>2. erasures' = [erasures EXCEPT ![pathOf[s]] = @ + 1]
        BY <1>2
    <2>3. \A q \in Paths : erasures[q] > 0 => erasures'[q] > 0
        BY <2>2
    <2>4. erasures'[pathOf[s]] > 0
        BY <2>2
    <2>5. \A t \in Sids : streams'[t] \subseteq streams[t]
        BY <1>2
    <2> QED BY <2>1, <2>3, <2>4, <2>5
<1> QED BY <1>1, <1>2

\* An operation that finishes without leaving a chooser behind.
LEMMA FinishEffect ==
    ASSUME IInv, NEW o \in Starts, NEW s \in Sids, NEW answer \in Answers, NEW now \in SUBSET StreamIds,
           Finish(o, s, answer, now), child'[o] # "running",
           \A q \in Starts : q # o => child'[q] = child[q] /\ owner'[q] = owner[q],
           created' = created
    PROVE  OperationShape' /\ FinishedHoldsNothing' /\ CapturingCanEnd'
<1>1. TypeOK /\ OperationShape /\ FinishedHoldsNothing /\ CapturingCanEnd
    BY DEF IInv
<1>2. OperationShape'
    BY <1>1 DEF Finish, TypeOK, OperationShape, InFlight
<1>3. FinishedHoldsNothing'
    BY <1>1 DEF Finish, TypeOK, OperationShape, FinishedHoldsNothing, Answers
<1>4. CapturingCanEnd'
    BY <1>1 DEF Finish, TypeOK, CapturingCanEnd
<1> QED BY <1>2, <1>3, <1>4

\* An operation that begins its captures, or fails to.
LEMMA BeginEffect ==
    ASSUME IInv, NEW o \in Starts, NEW s \in Sids, NEW n \in Indices, BeginCaptures(o, s, n),
           phase[o] \in {"idle", "chooser"}, child'[o] # "running",
           \A q \in Starts : q # o => child'[q] = child[q] /\ owner'[q] = owner[q],
           owner'[o] \in 1..created, created' = created
    PROVE  OperationShape' /\ FinishedHoldsNothing' /\ CapturingCanEnd'
<1>1. TypeOK /\ OperationShape /\ FinishedHoldsNothing /\ CapturingCanEnd
    BY DEF IInv
<1>2. CASE Finish(o, s, "other", streams[s])
    <2>1. streams[s] \in SUBSET StreamIds
        BY <1>1 DEF TypeOK
    <2> QED BY <1>2, <2>1, FinishEffect DEF Answers
<1>3. CASE ~Finish(o, s, "other", streams[s])
    <2> DEFINE c == IF multiple[s] THEN n ELSE 1
    <2>1. c \in Nat /\ c > 0
        BY DEF Indices
    <2> HIDE DEF c
    <2>2. /\ phase' = [phase EXCEPT ![o] = "capturing"]
          /\ count' = [count EXCEPT ![o] = c]
          /\ timer' = [timer EXCEPT ![o] = TRUE]
          /\ request' = [request EXCEPT ![o] = "exported"]
          /\ UNCHANGED <<ready, reply>>
        BY <1>3 DEF BeginCaptures, NoCapture, c
    <2>3. OperationShape'
        BY <1>1, <2>1, <2>2 DEF TypeOK, OperationShape, InFlight
    <2>4. FinishedHoldsNothing'
        BY <1>1, <2>2 DEF TypeOK, FinishedHoldsNothing
    <2>5. CapturingCanEnd'
        <3>1. ready[o] = {} /\ 1 \in 1..c
            BY <1>1, <2>1 DEF OperationShape
        <3> QED BY <1>1, <2>1, <2>2, <3>1 DEF TypeOK, CapturingCanEnd
    <2> QED BY <2>3, <2>4, <2>5
<1> QED BY <1>2, <1>3

\* Finishing an operation that had not answered leaves only announced streams.
LEMMA FinishStreams ==
    ASSUME IInv, NEW o \in Starts, NEW s \in Sids, NEW answer \in Answers, NEW now \in SUBSET StreamIds,
           Finish(o, s, answer, now), reply[o] = "none", owner'[o] = s,
           \A q \in Starts : q # o => owner'[q] = owner[q],
           answer = "success" => \A x \in now : x \in streams[s] \/ x[1] = o
    PROVE  StreamsWereAnnounced'
<1>1. TypeOK /\ StreamsWereAnnounced
    BY DEF IInv
<1>2. ASSUME NEW t \in Sids, NEW x \in streams[t]
      PROVE  x[1] \in Starts \ {o}
    BY <1>1 DEF TypeOK, StreamsWereAnnounced, StreamIds
<1>3. ASSUME NEW q \in Starts \ {o}
      PROVE  owner'[q] = owner[q] /\ reply'[q] = reply[q] /\ announced'[q] = announced[q]
    BY <1>1 DEF Finish, TypeOK
<1>4. ASSUME NEW t \in Sids \ {s}, NEW x \in streams'[t]
      PROVE  owner'[x[1]] = t /\ reply'[x[1]] = "success" /\ x \in announced'[x[1]]
    <2>1. x \in streams[t]
        BY <1>1, <1>4 DEF Finish, TypeOK
    <2> QED BY <1>1, <1>2, <1>3, <2>1 DEF StreamsWereAnnounced
<1>5. ASSUME NEW x \in streams'[s]
      PROVE  owner'[x[1]] = s /\ reply'[x[1]] = "success" /\ x \in announced'[x[1]]
    <2>1. answer = "success" /\ x \in now
        BY <1>1, <1>5 DEF Finish, TypeOK
    <2>2. reply'[o] = "success" /\ announced'[o] = now
        BY <1>1, <2>1 DEF Finish, TypeOK
    <2>3. CASE x[1] = o
        BY <2>1, <2>2, <2>3
    <2>4. CASE x \in streams[s]
        BY <1>1, <1>2, <1>3, <2>4 DEF StreamsWereAnnounced
    <2> QED BY <2>1, <2>3, <2>4
<1> QED BY <1>4, <1>5 DEF StreamsWereAnnounced

\* An operation that adds no stream and has not answered may be given its session.
LEMMA OwnerStreams ==
    ASSUME IInv, NEW o \in Starts, reply[o] = "none", UNCHANGED <<streams, reply, announced>>,
           \A q \in Starts : q # o => owner'[q] = owner[q]
    PROVE  StreamsWereAnnounced'
    BY DEF IInv, TypeOK, StreamsWereAnnounced, StreamIds

\* What an operation holds goes with its phase.
LEMMA ShapeInductive == IInv /\ [Next]_vars => OperationShape'
<1> SUFFICES ASSUME IInv, [Next]_vars PROVE OperationShape'
    OBVIOUS
<1>0. TypeOK /\ TypeOK' /\ OperationShape /\ FinishedHoldsNothing /\ CapturingCanEnd
    BY TypeInductive DEF IInv
<1>1. ASSUME NEW p \in Paths, CreateSession(p) PROVE OperationShape'
    BY <1>0, <1>1 DEF CreateSession, startVars, TypeOK, OperationShape, InFlight
<1>2. ASSUME NEW p \in Paths, SelectSources(p) PROVE OperationShape'
    BY <1>0, <1>2 DEF SelectSources, startVars, TypeOK, OperationShape, InFlight
<1>3. ASSUME NEW p \in Paths, SelectBadCursorMode(p) PROVE OperationShape'
    BY <1>0, <1>3 DEF SelectBadCursorMode, startVars, TypeOK, OperationShape, InFlight
<1>4. ASSUME NEW p \in Paths, EraseSession(p) PROVE OperationShape'
    BY <1>0, <1>4 DEF EraseSession, startVars, TypeOK, OperationShape, InFlight
<1>5. ASSUME NEW s \in Sids, SessionClose(s) PROVE OperationShape'
    BY <1>0, <1>5 DEF SessionClose, startVars, TypeOK, OperationShape, InFlight
<1>6. ASSUME NEW s \in Sids, NEW x \in StreamIds, StreamStops(s, x) PROVE OperationShape'
    BY <1>0, <1>6 DEF StreamStops, startVars, TypeOK, OperationShape, InFlight
<1>7. ASSUME NEW o \in Starts, NEW p \in Paths, RejectStart(o, p) PROVE OperationShape'
    BY <1>0, <1>7 DEF RejectStart, sessionVars, TypeOK, OperationShape, InFlight
<1>8. ASSUME NEW o \in Starts, NEW p \in Paths, StartOn(o, p) PROVE OperationShape'
    <2> DEFINE s == sessions[p]
    <2>1. s \in Sids /\ s \in 1..created /\ streams[s] \in SUBSET StreamIds
        BY <1>0, <1>8, ScreenCastAssumption DEF StartOn, Usable, TypeOK, TableAgrees, IInv, Sids, None
    <2>2. /\ phase[o] = "idle" /\ child[o] = "none" /\ created' = created
          /\ owner' = [owner EXCEPT ![o] = s]
        BY <1>0, <1>8 DEF StartOn, TypeOK, OperationShape, sessionsButStreams
    <2>3. owner'[o] \in 1..created /\ \A q \in Starts : q # o => owner'[q] = owner[q]
        BY <1>0, <2>1, <2>2 DEF TypeOK
    <2> HIDE DEF s
    <2>4. CASE \E n \in Matching(s) : BeginCaptures(o, s, n) /\ UNCHANGED child
        <3>1. PICK n \in Matching(s) : BeginCaptures(o, s, n) /\ UNCHANGED child
            BY <2>4
        <3>2. n \in Indices
            BY <1>0, <2>1, ScreenCastAssumption DEF TypeOK, Indices, Matching
        <3> QED BY <2>1, <2>2, <2>3, <3>1, <3>2, BeginEffect
    <2>5. CASE Finish(o, s, "cancelled", streams[s]) /\ UNCHANGED child
        BY <2>1, <2>2, <2>3, <2>5, FinishEffect DEF Answers
    <2>6. CASE /\ phase' = [phase EXCEPT ![o] = "chooser"]
               /\ child' = [child EXCEPT ![o] = "running"]
               /\ request' = [request EXCEPT ![o] = "exported"]
               /\ UNCHANGED <<count, ready, lost, timer, reply, announced, streams>>
        BY <1>0, <2>2, <2>3, <2>6 DEF TypeOK, OperationShape, InFlight
    <2> QED BY <1>8, <2>4, <2>5, <2>6 DEF StartOn, RunChooser, s
<1>9. ASSUME NEW o \in Starts, ChooserExits(o) PROVE OperationShape'
    <2>1. owner[o] \in Sids /\ owner[o] \in 1..created /\ streams[owner[o]] \in SUBSET StreamIds
        BY <1>0, <1>9, InFlightOwner DEF ChooserExits, InFlight, OperationShape
    <2>2. /\ phase[o] = "chooser" /\ child'[o] = "none" /\ created' = created /\ owner' = owner
          /\ \A q \in Starts : q # o => child'[q] = child[q]
        BY <1>0, <1>9 DEF ChooserExits, TypeOK, sessionsButStreams
    <2>3. CASE \E answer \in {"cancelled", "other"} : Finish(o, owner[o], answer, streams[owner[o]])
        BY <2>1, <2>2, <2>3, FinishEffect DEF Answers
    <2>4. CASE \E n \in Choosable : BeginCaptures(o, owner[o], n)
        BY <2>1, <2>2, <2>4, BeginEffect DEF Choosable
    <2> QED BY <1>9, <2>3, <2>4 DEF ChooserExits
<1>10. ASSUME NEW o \in Starts, RequestClose(o) PROVE OperationShape'
    BY <1>0, <1>10 DEF RequestClose, Finish, sessionsButStreams, TypeOK, OperationShape, InFlight
<1>11. ASSUME NEW o \in Starts, ChooserReaped(o) PROVE OperationShape'
    BY <1>0, <1>11 DEF ChooserReaped, sessionVars, TypeOK, OperationShape, InFlight
<1>12. ASSUME NEW o \in Starts, CaptureTimeout(o) PROVE OperationShape'
    BY <1>0, <1>12 DEF CaptureTimeout, Finish, sessionsButStreams, TypeOK, OperationShape, InFlight
<1>13. ASSUME NEW o \in Starts, RequestRemoved(o) PROVE OperationShape'
    BY <1>0, <1>13 DEF RequestRemoved, sessionVars, TypeOK, OperationShape, InFlight
<1>14. ASSUME NEW o \in Starts, NEW i \in Indices, ConstraintsReady(o, i) PROVE OperationShape'
    BY <1>0, <1>14 DEF ConstraintsReady, CompleteCaptures, Finish, sessionsButStreams, TypeOK, OperationShape, InFlight
<1>15. ASSUME NEW o \in Starts, NEW i \in Indices, CaptureLost(o, i) PROVE OperationShape'
    BY <1>0, <1>15 DEF CaptureLost, sessionVars, TypeOK, OperationShape, InFlight
<1>16. CASE UNCHANGED vars
    BY <1>0, <1>16 DEF vars, sessionVars, startVars, TypeOK, OperationShape, InFlight
<1> QED
    BY <1>1, <1>2, <1>3, <1>4, <1>5, <1>6, <1>7, <1>8, <1>9, <1>10, <1>11, <1>12,
       <1>13, <1>14, <1>15, <1>16 DEF Next

\* A finished operation holds nothing.
LEMMA FinishedInductive == IInv /\ [Next]_vars => FinishedHoldsNothing'
<1> SUFFICES ASSUME IInv, [Next]_vars PROVE FinishedHoldsNothing'
    OBVIOUS
<1>0. TypeOK /\ TypeOK' /\ OperationShape /\ FinishedHoldsNothing /\ CapturingCanEnd
    BY TypeInductive DEF IInv
<1>1. ASSUME NEW p \in Paths, CreateSession(p) PROVE FinishedHoldsNothing'
    BY <1>0, <1>1 DEF CreateSession, startVars, TypeOK, OperationShape, FinishedHoldsNothing
<1>2. ASSUME NEW p \in Paths, SelectSources(p) PROVE FinishedHoldsNothing'
    BY <1>0, <1>2 DEF SelectSources, startVars, TypeOK, OperationShape, FinishedHoldsNothing
<1>3. ASSUME NEW p \in Paths, SelectBadCursorMode(p) PROVE FinishedHoldsNothing'
    BY <1>0, <1>3 DEF SelectBadCursorMode, startVars, TypeOK, OperationShape, FinishedHoldsNothing
<1>4. ASSUME NEW p \in Paths, EraseSession(p) PROVE FinishedHoldsNothing'
    BY <1>0, <1>4 DEF EraseSession, startVars, TypeOK, OperationShape, FinishedHoldsNothing
<1>5. ASSUME NEW s \in Sids, SessionClose(s) PROVE FinishedHoldsNothing'
    BY <1>0, <1>5 DEF SessionClose, startVars, TypeOK, OperationShape, FinishedHoldsNothing
<1>6. ASSUME NEW s \in Sids, NEW x \in StreamIds, StreamStops(s, x) PROVE FinishedHoldsNothing'
    BY <1>0, <1>6 DEF StreamStops, startVars, TypeOK, OperationShape, FinishedHoldsNothing
<1>7. ASSUME NEW o \in Starts, NEW p \in Paths, RejectStart(o, p) PROVE FinishedHoldsNothing'
    BY <1>0, <1>7 DEF RejectStart, sessionVars, TypeOK, OperationShape, FinishedHoldsNothing
<1>8. ASSUME NEW o \in Starts, NEW p \in Paths, StartOn(o, p) PROVE FinishedHoldsNothing'
    BY <1>0, <1>8 DEF StartOn, BeginCaptures, NoCapture, RunChooser, Finish, sessionsButStreams, Usable, TypeOK, OperationShape, FinishedHoldsNothing
<1>9. ASSUME NEW o \in Starts, ChooserExits(o) PROVE FinishedHoldsNothing'
    BY <1>0, <1>9 DEF ChooserExits, BeginCaptures, NoCapture, Finish, sessionsButStreams, TypeOK, OperationShape, FinishedHoldsNothing
<1>10. ASSUME NEW o \in Starts, RequestClose(o) PROVE FinishedHoldsNothing'
    BY <1>0, <1>10 DEF RequestClose, Finish, sessionsButStreams, TypeOK, OperationShape, FinishedHoldsNothing
<1>11. ASSUME NEW o \in Starts, ChooserReaped(o) PROVE FinishedHoldsNothing'
    BY <1>0, <1>11 DEF ChooserReaped, sessionVars, TypeOK, OperationShape, FinishedHoldsNothing
<1>12. ASSUME NEW o \in Starts, CaptureTimeout(o) PROVE FinishedHoldsNothing'
    BY <1>0, <1>12 DEF CaptureTimeout, Finish, sessionsButStreams, TypeOK, OperationShape, FinishedHoldsNothing
<1>13. ASSUME NEW o \in Starts, RequestRemoved(o) PROVE FinishedHoldsNothing'
    BY <1>0, <1>13 DEF RequestRemoved, sessionVars, TypeOK, OperationShape, FinishedHoldsNothing
<1>14. ASSUME NEW o \in Starts, NEW i \in Indices, ConstraintsReady(o, i) PROVE FinishedHoldsNothing'
    BY <1>0, <1>14 DEF ConstraintsReady, CompleteCaptures, Finish, sessionsButStreams, TypeOK, OperationShape, FinishedHoldsNothing
<1>15. ASSUME NEW o \in Starts, NEW i \in Indices, CaptureLost(o, i) PROVE FinishedHoldsNothing'
    BY <1>0, <1>15 DEF CaptureLost, sessionVars, TypeOK, OperationShape, FinishedHoldsNothing
<1>16. CASE UNCHANGED vars
    BY <1>0, <1>16 DEF vars, sessionVars, startVars, TypeOK, OperationShape, FinishedHoldsNothing
<1> QED
    BY <1>1, <1>2, <1>3, <1>4, <1>5, <1>6, <1>7, <1>8, <1>9, <1>10, <1>11, <1>12,
       <1>13, <1>14, <1>15, <1>16 DEF Next

\* A capturing operation can end.
LEMMA CapturingInductive == IInv /\ [Next]_vars => CapturingCanEnd'
<1> SUFFICES ASSUME IInv, [Next]_vars PROVE CapturingCanEnd'
    OBVIOUS
<1>0. TypeOK /\ TypeOK' /\ OperationShape /\ FinishedHoldsNothing /\ CapturingCanEnd
    BY TypeInductive DEF IInv
<1>1. ASSUME NEW p \in Paths, CreateSession(p) PROVE CapturingCanEnd'
    BY <1>0, <1>1 DEF CreateSession, startVars, TypeOK, OperationShape, CapturingCanEnd
<1>2. ASSUME NEW p \in Paths, SelectSources(p) PROVE CapturingCanEnd'
    BY <1>0, <1>2 DEF SelectSources, startVars, TypeOK, OperationShape, CapturingCanEnd
<1>3. ASSUME NEW p \in Paths, SelectBadCursorMode(p) PROVE CapturingCanEnd'
    BY <1>0, <1>3 DEF SelectBadCursorMode, startVars, TypeOK, OperationShape, CapturingCanEnd
<1>4. ASSUME NEW p \in Paths, EraseSession(p) PROVE CapturingCanEnd'
    BY <1>0, <1>4 DEF EraseSession, startVars, TypeOK, OperationShape, CapturingCanEnd
<1>5. ASSUME NEW s \in Sids, SessionClose(s) PROVE CapturingCanEnd'
    BY <1>0, <1>5 DEF SessionClose, startVars, TypeOK, OperationShape, CapturingCanEnd
<1>6. ASSUME NEW s \in Sids, NEW x \in StreamIds, StreamStops(s, x) PROVE CapturingCanEnd'
    BY <1>0, <1>6 DEF StreamStops, startVars, TypeOK, OperationShape, CapturingCanEnd
<1>7. ASSUME NEW o \in Starts, NEW p \in Paths, RejectStart(o, p) PROVE CapturingCanEnd'
    BY <1>0, <1>7 DEF RejectStart, sessionVars, TypeOK, OperationShape, CapturingCanEnd
<1>8. ASSUME NEW o \in Starts, NEW p \in Paths, StartOn(o, p) PROVE CapturingCanEnd'
    <2> DEFINE s == sessions[p]
    <2>1. s \in Sids /\ s \in 1..created /\ streams[s] \in SUBSET StreamIds
        BY <1>0, <1>8, ScreenCastAssumption DEF StartOn, Usable, TypeOK, TableAgrees, IInv, Sids, None
    <2>2. /\ phase[o] = "idle" /\ child[o] = "none" /\ created' = created
          /\ owner' = [owner EXCEPT ![o] = s]
        BY <1>0, <1>8 DEF StartOn, TypeOK, OperationShape, sessionsButStreams
    <2>3. owner'[o] \in 1..created /\ \A q \in Starts : q # o => owner'[q] = owner[q]
        BY <1>0, <2>1, <2>2 DEF TypeOK
    <2> HIDE DEF s
    <2>4. CASE \E n \in Matching(s) : BeginCaptures(o, s, n) /\ UNCHANGED child
        <3>1. PICK n \in Matching(s) : BeginCaptures(o, s, n) /\ UNCHANGED child
            BY <2>4
        <3>2. n \in Indices
            BY <1>0, <2>1, ScreenCastAssumption DEF TypeOK, Indices, Matching
        <3> QED BY <2>1, <2>2, <2>3, <3>1, <3>2, BeginEffect
    <2>5. CASE Finish(o, s, "cancelled", streams[s]) /\ UNCHANGED child
        BY <2>1, <2>2, <2>3, <2>5, FinishEffect DEF Answers
    <2>6. CASE /\ phase' = [phase EXCEPT ![o] = "chooser"]
               /\ child' = [child EXCEPT ![o] = "running"]
               /\ request' = [request EXCEPT ![o] = "exported"]
               /\ UNCHANGED <<count, ready, lost, timer, reply, announced, streams>>
        BY <1>0, <2>2, <2>3, <2>6 DEF TypeOK, CapturingCanEnd
    <2> QED BY <1>8, <2>4, <2>5, <2>6 DEF StartOn, RunChooser, s
<1>9. ASSUME NEW o \in Starts, ChooserExits(o) PROVE CapturingCanEnd'
    <2>1. owner[o] \in Sids /\ owner[o] \in 1..created /\ streams[owner[o]] \in SUBSET StreamIds
        BY <1>0, <1>9, InFlightOwner DEF ChooserExits, InFlight, OperationShape
    <2>2. /\ phase[o] = "chooser" /\ child'[o] = "none" /\ created' = created /\ owner' = owner
          /\ \A q \in Starts : q # o => child'[q] = child[q]
        BY <1>0, <1>9 DEF ChooserExits, TypeOK, sessionsButStreams
    <2>3. CASE \E answer \in {"cancelled", "other"} : Finish(o, owner[o], answer, streams[owner[o]])
        BY <2>1, <2>2, <2>3, FinishEffect DEF Answers
    <2>4. CASE \E n \in Choosable : BeginCaptures(o, owner[o], n)
        BY <2>1, <2>2, <2>4, BeginEffect DEF Choosable
    <2> QED BY <1>9, <2>3, <2>4 DEF ChooserExits
<1>10. ASSUME NEW o \in Starts, RequestClose(o) PROVE CapturingCanEnd'
    BY <1>0, <1>10 DEF RequestClose, Finish, sessionsButStreams, TypeOK, OperationShape, CapturingCanEnd
<1>11. ASSUME NEW o \in Starts, ChooserReaped(o) PROVE CapturingCanEnd'
    BY <1>0, <1>11 DEF ChooserReaped, sessionVars, TypeOK, OperationShape, CapturingCanEnd
<1>12. ASSUME NEW o \in Starts, CaptureTimeout(o) PROVE CapturingCanEnd'
    BY <1>0, <1>12 DEF CaptureTimeout, Finish, sessionsButStreams, TypeOK, OperationShape, CapturingCanEnd
<1>13. ASSUME NEW o \in Starts, RequestRemoved(o) PROVE CapturingCanEnd'
    BY <1>0, <1>13 DEF RequestRemoved, sessionVars, TypeOK, OperationShape, CapturingCanEnd
<1>14. ASSUME NEW o \in Starts, NEW i \in Indices, ConstraintsReady(o, i) PROVE CapturingCanEnd'
    <2> DEFINE added(k) == streams[owner[o]] \cup {<<o, j>> : j \in 1..k}
    <2>1. owner[o] \in Sids /\ streams[owner[o]] \in SUBSET StreamIds
        BY <1>14, InFlightOwner DEF ConstraintsReady, InFlight
    <2>2. ASSUME NEW k \in 0..MaxCaptures PROVE added(k) \in SUBSET StreamIds
        BY <2>1, ScreenCastAssumption DEF StreamIds, Indices
    <2> HIDE DEF added
    <2>3. count[o] \in 0..MaxCaptures
        BY <1>0 DEF TypeOK
    <2>4. /\ created' = created /\ child' = child /\ owner' = owner
          /\ phase[o] = "capturing" /\ child[o] # "running"
        BY <1>0, <1>14 DEF ConstraintsReady, sessionsButStreams, OperationShape
    <2>5. CASE Finish(o, owner[o], "success", added(count[o]))
        BY <2>1, <2>2, <2>3, <2>4, <2>5, FinishEffect DEF Answers
    <2>6. CASE \E j \in 1..count[o] : Finish(o, owner[o], "other", added(j - 1))
        <3>1. PICK j \in 1..count[o] : Finish(o, owner[o], "other", added(j - 1))
            BY <2>6
        <3>2. j - 1 \in 0..MaxCaptures
            BY <2>3, ScreenCastAssumption
        <3>3. added(j - 1) \in SUBSET StreamIds
            BY <2>2, <3>2
        <3> QED BY <2>1, <2>4, <3>1, <3>3, FinishEffect DEF Answers
    <2>7. CASE /\ ready[o] \cup {i} # 1..count[o]
               /\ ready' = [ready EXCEPT ![o] = @ \cup {i}]
               /\ UNCHANGED <<phase, count, timer>>
        BY <1>0, <2>7 DEF TypeOK, CapturingCanEnd
    <2> QED BY <1>14, <2>5, <2>6, <2>7 DEF ConstraintsReady, CompleteCaptures, added
<1>15. ASSUME NEW o \in Starts, NEW i \in Indices, CaptureLost(o, i) PROVE CapturingCanEnd'
    BY <1>0, <1>15 DEF CaptureLost, sessionVars, TypeOK, OperationShape, CapturingCanEnd
<1>16. CASE UNCHANGED vars
    BY <1>0, <1>16 DEF vars, sessionVars, startVars, TypeOK, OperationShape, CapturingCanEnd
<1> QED
    BY <1>1, <1>2, <1>3, <1>4, <1>5, <1>6, <1>7, <1>8, <1>9, <1>10, <1>11, <1>12,
       <1>13, <1>14, <1>15, <1>16 DEF Next

\* Sessions that are started exist.
LEMMA HoldersInductive == IInv /\ [Next]_vars => HoldersCreated'
<1> SUFFICES ASSUME IInv, [Next]_vars PROVE HoldersCreated'
    OBVIOUS
<1>0. TypeOK /\ TypeOK' /\ HoldersCreated /\ TableAgrees /\ UncreatedOpen /\ ClosedSessionsGetErased
    BY TypeInductive DEF IInv
<1> USE ScreenCastAssumption
<1>1. ASSUME NEW p \in Paths, CreateSession(p) PROVE HoldersCreated'
    <2>1. created \in Nat /\ owner' = owner
        BY <1>0, <1>1 DEF CreateSession, startVars, TypeOK
    <2>2. CASE UNCHANGED <<created, pathOf>>
        BY <1>0, <2>1, <2>2 DEF HoldersCreated
    <2>3. CASE created' = created + 1 /\ pathOf' = [pathOf EXCEPT ![created + 1] = p]
        <3>1. \A s \in Sids : s <= created' => s <= created \/ s = created + 1
            BY <2>1, <2>3 DEF Sids
        <3>2. \A s \in Sids : s <= created' => pathOf'[s] \in Paths
            BY <1>0, <2>3, <3>1 DEF TypeOK, HoldersCreated
        <3>3. \A o \in Starts : owner[o] \in Nat /\ owner[o] <= created + 1
            BY <1>0, <2>1 DEF TypeOK, HoldersCreated, Sids, None
        <3> QED BY <2>1, <2>3, <3>2, <3>3 DEF HoldersCreated
    <2> QED BY <1>1, <2>2, <2>3 DEF CreateSession
<1>2. ASSUME NEW p \in Paths, SelectSources(p) PROVE HoldersCreated'
    BY <1>0, <1>2 DEF SelectSources, startVars, TypeOK, HoldersCreated, TableAgrees, Sids, None
<1>3. ASSUME NEW p \in Paths, SelectBadCursorMode(p) PROVE HoldersCreated'
    BY <1>0, <1>3 DEF SelectBadCursorMode, startVars, TypeOK, HoldersCreated, TableAgrees, Sids, None
<1>4. ASSUME NEW p \in Paths, EraseSession(p) PROVE HoldersCreated'
    BY <1>0, <1>4 DEF EraseSession, startVars, TypeOK, HoldersCreated, TableAgrees, Sids, None
<1>5. ASSUME NEW s \in Sids, SessionClose(s) PROVE HoldersCreated'
    BY <1>0, <1>5 DEF SessionClose, startVars, TypeOK, HoldersCreated, TableAgrees, Sids, None
<1>6. ASSUME NEW s \in Sids, NEW x \in StreamIds, StreamStops(s, x) PROVE HoldersCreated'
    BY <1>0, <1>6 DEF StreamStops, startVars, TypeOK, HoldersCreated, TableAgrees, Sids, None
<1>7. ASSUME NEW o \in Starts, NEW p \in Paths, RejectStart(o, p) PROVE HoldersCreated'
    BY <1>0, <1>7 DEF RejectStart, sessionVars, TypeOK, HoldersCreated, TableAgrees, Sids, None
<1>8. ASSUME NEW o \in Starts, NEW p \in Paths, StartOn(o, p) PROVE HoldersCreated'
    BY <1>0, <1>8 DEF StartOn, BeginCaptures, NoCapture, RunChooser, Finish, sessionsButStreams, Usable, TypeOK, HoldersCreated, TableAgrees, Sids, None
<1>9. ASSUME NEW o \in Starts, ChooserExits(o) PROVE HoldersCreated'
    BY <1>0, <1>9 DEF ChooserExits, BeginCaptures, NoCapture, Finish, sessionsButStreams, TypeOK, HoldersCreated, TableAgrees, Sids, None
<1>10. ASSUME NEW o \in Starts, RequestClose(o) PROVE HoldersCreated'
    BY <1>0, <1>10 DEF RequestClose, Finish, sessionsButStreams, TypeOK, HoldersCreated, TableAgrees, Sids, None
<1>11. ASSUME NEW o \in Starts, ChooserReaped(o) PROVE HoldersCreated'
    BY <1>0, <1>11 DEF ChooserReaped, sessionVars, TypeOK, HoldersCreated, TableAgrees, Sids, None
<1>12. ASSUME NEW o \in Starts, CaptureTimeout(o) PROVE HoldersCreated'
    BY <1>0, <1>12 DEF CaptureTimeout, Finish, sessionsButStreams, TypeOK, HoldersCreated, TableAgrees, Sids, None
<1>13. ASSUME NEW o \in Starts, RequestRemoved(o) PROVE HoldersCreated'
    BY <1>0, <1>13 DEF RequestRemoved, sessionVars, TypeOK, HoldersCreated, TableAgrees, Sids, None
<1>14. ASSUME NEW o \in Starts, NEW i \in Indices, ConstraintsReady(o, i) PROVE HoldersCreated'
    BY <1>0, <1>14 DEF ConstraintsReady, CompleteCaptures, Finish, sessionsButStreams, TypeOK, HoldersCreated, TableAgrees, Sids, None
<1>15. ASSUME NEW o \in Starts, NEW i \in Indices, CaptureLost(o, i) PROVE HoldersCreated'
    BY <1>0, <1>15 DEF CaptureLost, sessionVars, TypeOK, HoldersCreated, TableAgrees, Sids, None
<1>16. CASE UNCHANGED vars
    BY <1>0, <1>16 DEF vars, sessionVars, startVars, TypeOK, HoldersCreated, TableAgrees, Sids, None
<1> QED
    BY <1>1, <1>2, <1>3, <1>4, <1>5, <1>6, <1>7, <1>8, <1>9, <1>10, <1>11, <1>12,
       <1>13, <1>14, <1>15, <1>16 DEF Next

\* The table keeps naming sessions at their own path.
LEMMA TableInductive == IInv /\ [Next]_vars => TableAgrees'
<1> SUFFICES ASSUME IInv, [Next]_vars PROVE TableAgrees'
    OBVIOUS
<1>0. TypeOK /\ TypeOK' /\ HoldersCreated /\ TableAgrees /\ UncreatedOpen /\ ClosedSessionsGetErased
    BY TypeInductive DEF IInv
<1> USE ScreenCastAssumption
<1>1. ASSUME NEW p \in Paths, CreateSession(p) PROVE TableAgrees'
    <2>1. created \in Nat /\ created' \in Nat /\ created' >= created
        BY <1>0, <1>1 DEF CreateSession, TypeOK
    <2>2. CASE Occupied(p)
        BY <1>0, <1>1, <2>1, <2>2 DEF CreateSession, TypeOK, TableAgrees, None
    <2>3. CASE ~Occupied(p)
        <3>1. /\ created' = created + 1 /\ created + 1 \in Sids
              /\ sessions' = [sessions EXCEPT ![p] = created + 1]
              /\ pathOf' = [pathOf EXCEPT ![created + 1] = p]
            BY <1>0, <1>1, <2>3 DEF CreateSession, TypeOK, Sids
        <3>2. \A q \in Paths : q # p => sessions'[q] = sessions[q]
            BY <1>0, <3>1 DEF TypeOK
        <3>3. \A t \in Sids : t <= created => pathOf'[t] = pathOf[t]
            BY <1>0, <2>1, <3>1 DEF TypeOK, Sids
        <3>4. sessions'[p] = created + 1 /\ pathOf'[created + 1] = p
            BY <1>0, <3>1 DEF TypeOK
        <3>5. \A q \in Paths : sessions[q] # None => sessions[q] \in Sids
            BY <1>0 DEF TypeOK
        <3>6. ASSUME NEW q \in Paths, sessions'[q] # None
              PROVE  sessions'[q] <= created' /\ pathOf'[sessions'[q]] = q
            <4>1. CASE q = p
                BY <2>1, <3>1, <3>4, <4>1
            <4>2. CASE q # p
                <5>1. sessions'[q] \in Sids /\ sessions[q] # None /\ sessions'[q] = sessions[q]
                    BY <3>2, <3>5, <3>6, <4>2
                <5>2. sessions[q] <= created /\ pathOf[sessions[q]] = q
                    BY <1>0, <5>1 DEF TableAgrees
                <5> QED BY <2>1, <3>1, <3>3, <5>1, <5>2 DEF Sids
            <4> QED BY <4>1, <4>2
        <3> QED BY <3>6 DEF TableAgrees
    <2> QED BY <2>2, <2>3
<1>2. ASSUME NEW p \in Paths, SelectSources(p) PROVE TableAgrees'
    BY <1>0, <1>2 DEF SelectSources, startVars, TypeOK, TableAgrees, Sids, None
<1>3. ASSUME NEW p \in Paths, SelectBadCursorMode(p) PROVE TableAgrees'
    BY <1>0, <1>3 DEF SelectBadCursorMode, startVars, TypeOK, TableAgrees, Sids, None
<1>4. ASSUME NEW p \in Paths, EraseSession(p) PROVE TableAgrees'
    BY <1>0, <1>4 DEF EraseSession, startVars, TypeOK, TableAgrees, Sids, None
<1>5. ASSUME NEW s \in Sids, SessionClose(s) PROVE TableAgrees'
    BY <1>0, <1>5 DEF SessionClose, startVars, TypeOK, TableAgrees, Sids, None
<1>6. ASSUME NEW s \in Sids, NEW x \in StreamIds, StreamStops(s, x) PROVE TableAgrees'
    BY <1>0, <1>6 DEF StreamStops, startVars, TypeOK, TableAgrees, Sids, None
<1>7. ASSUME NEW o \in Starts, NEW p \in Paths, RejectStart(o, p) PROVE TableAgrees'
    BY <1>0, <1>7 DEF RejectStart, sessionVars, TypeOK, TableAgrees, Sids, None
<1>8. ASSUME NEW o \in Starts, NEW p \in Paths, StartOn(o, p) PROVE TableAgrees'
    BY <1>0, <1>8 DEF StartOn, BeginCaptures, NoCapture, RunChooser, Finish, sessionsButStreams, Usable, TypeOK, TableAgrees, Sids, None
<1>9. ASSUME NEW o \in Starts, ChooserExits(o) PROVE TableAgrees'
    BY <1>0, <1>9 DEF ChooserExits, BeginCaptures, NoCapture, Finish, sessionsButStreams, TypeOK, TableAgrees, Sids, None
<1>10. ASSUME NEW o \in Starts, RequestClose(o) PROVE TableAgrees'
    BY <1>0, <1>10 DEF RequestClose, Finish, sessionsButStreams, TypeOK, TableAgrees, Sids, None
<1>11. ASSUME NEW o \in Starts, ChooserReaped(o) PROVE TableAgrees'
    BY <1>0, <1>11 DEF ChooserReaped, sessionVars, TypeOK, TableAgrees, Sids, None
<1>12. ASSUME NEW o \in Starts, CaptureTimeout(o) PROVE TableAgrees'
    BY <1>0, <1>12 DEF CaptureTimeout, Finish, sessionsButStreams, TypeOK, TableAgrees, Sids, None
<1>13. ASSUME NEW o \in Starts, RequestRemoved(o) PROVE TableAgrees'
    BY <1>0, <1>13 DEF RequestRemoved, sessionVars, TypeOK, TableAgrees, Sids, None
<1>14. ASSUME NEW o \in Starts, NEW i \in Indices, ConstraintsReady(o, i) PROVE TableAgrees'
    BY <1>0, <1>14 DEF ConstraintsReady, CompleteCaptures, Finish, sessionsButStreams, TypeOK, TableAgrees, Sids, None
<1>15. ASSUME NEW o \in Starts, NEW i \in Indices, CaptureLost(o, i) PROVE TableAgrees'
    BY <1>0, <1>15 DEF CaptureLost, sessionVars, TypeOK, TableAgrees, Sids, None
<1>16. CASE UNCHANGED vars
    BY <1>0, <1>16 DEF vars, sessionVars, startVars, TypeOK, TableAgrees, Sids, None
<1> QED
    BY <1>1, <1>2, <1>3, <1>4, <1>5, <1>6, <1>7, <1>8, <1>9, <1>10, <1>11, <1>12,
       <1>13, <1>14, <1>15, <1>16 DEF Next

\* A session is created open.
LEMMA OpenInductive == IInv /\ [Next]_vars => UncreatedOpen'
<1> SUFFICES ASSUME IInv, [Next]_vars PROVE UncreatedOpen'
    OBVIOUS
<1>0. TypeOK /\ TypeOK' /\ HoldersCreated /\ TableAgrees /\ UncreatedOpen /\ ClosedSessionsGetErased
    BY TypeInductive DEF IInv
<1> USE ScreenCastAssumption
<1>1. ASSUME NEW p \in Paths, CreateSession(p) PROVE UncreatedOpen'
    BY <1>0, <1>1 DEF CreateSession, startVars, CloseSession, TypeOK, TableAgrees, UncreatedOpen, HoldersCreated, Alive, Held, InFlight, Sids, None
<1>2. ASSUME NEW p \in Paths, SelectSources(p) PROVE UncreatedOpen'
    BY <1>0, <1>2 DEF SelectSources, startVars, TypeOK, TableAgrees, UncreatedOpen, HoldersCreated, Alive, Held, InFlight, Sids, None
<1>3. ASSUME NEW p \in Paths, SelectBadCursorMode(p) PROVE UncreatedOpen'
    BY <1>0, <1>3 DEF SelectBadCursorMode, startVars, CloseSession, TypeOK, TableAgrees, UncreatedOpen, HoldersCreated, Alive, Held, InFlight, Sids, None
<1>4. ASSUME NEW p \in Paths, EraseSession(p) PROVE UncreatedOpen'
    BY <1>0, <1>4 DEF EraseSession, startVars, TypeOK, TableAgrees, UncreatedOpen, HoldersCreated, Alive, Held, InFlight, Sids, None
<1>5. ASSUME NEW s \in Sids, SessionClose(s) PROVE UncreatedOpen'
    <2>1. s <= created
        <3>1. CASE Held(s)
            BY <1>0, <3>1 DEF Held, HoldersCreated
        <3>2. CASE \E p \in Paths : sessions[p] = s
            BY <1>0, <3>2 DEF TableAgrees, Sids, None
        <3> QED BY <1>5, <3>1, <3>2 DEF SessionClose, Alive
    <2>2. pathOf[s] \in Paths /\ CloseSession(s, FALSE) /\ created' = created
        BY <1>0, <1>5, <2>1 DEF HoldersCreated, SessionClose
    <2> QED BY <1>0, <2>1, <2>2, CloseEffect DEF UncreatedOpen
<1>6. ASSUME NEW s \in Sids, NEW x \in StreamIds, StreamStops(s, x) PROVE UncreatedOpen'
    <2> DEFINE t == sessions[pathOf[s]]
    <2>1. pathOf[s] \in Paths
        BY <1>6, StreamPath DEF StreamStops, LiveStreams
    <2>2. UNCHANGED <<sessions, created, pathOf>>
        BY <1>6 DEF StreamStops
    <2>3. CASE t = None
        <3>1. UNCHANGED <<closed, erasures>>
            BY <1>6, <2>3 DEF StreamStops
        <3> QED BY <1>0, <2>2, <3>1 DEF UncreatedOpen
    <2>4. CASE t # None
        <3>1. t \in Sids /\ t <= created /\ pathOf[t] = pathOf[s]
            BY <1>0, <2>1, <2>4 DEF TypeOK, TableAgrees
        <3>2. CloseSession(t, TRUE)
            BY <1>6, <2>4 DEF StreamStops
        <3> HIDE DEF t
        <3> QED BY <1>0, <2>1, <2>2, <3>1, <3>2, CloseEffect DEF UncreatedOpen
    <2> QED BY <2>3, <2>4
<1>7. ASSUME NEW o \in Starts, NEW p \in Paths, RejectStart(o, p) PROVE UncreatedOpen'
    BY <1>0, <1>7 DEF RejectStart, sessionVars, TypeOK, TableAgrees, UncreatedOpen, HoldersCreated, Alive, Held, InFlight, Sids, None
<1>8. ASSUME NEW o \in Starts, NEW p \in Paths, StartOn(o, p) PROVE UncreatedOpen'
    BY <1>0, <1>8 DEF StartOn, BeginCaptures, NoCapture, RunChooser, Finish, sessionsButStreams, Usable, TypeOK, TableAgrees, UncreatedOpen, HoldersCreated, Alive, Held, InFlight, Sids, None
<1>9. ASSUME NEW o \in Starts, ChooserExits(o) PROVE UncreatedOpen'
    BY <1>0, <1>9 DEF ChooserExits, BeginCaptures, NoCapture, Finish, sessionsButStreams, TypeOK, TableAgrees, UncreatedOpen, HoldersCreated, Alive, Held, InFlight, Sids, None
<1>10. ASSUME NEW o \in Starts, RequestClose(o) PROVE UncreatedOpen'
    BY <1>0, <1>10 DEF RequestClose, Finish, sessionsButStreams, TypeOK, TableAgrees, UncreatedOpen, HoldersCreated, Alive, Held, InFlight, Sids, None
<1>11. ASSUME NEW o \in Starts, ChooserReaped(o) PROVE UncreatedOpen'
    BY <1>0, <1>11 DEF ChooserReaped, sessionVars, TypeOK, TableAgrees, UncreatedOpen, HoldersCreated, Alive, Held, InFlight, Sids, None
<1>12. ASSUME NEW o \in Starts, CaptureTimeout(o) PROVE UncreatedOpen'
    BY <1>0, <1>12 DEF CaptureTimeout, Finish, sessionsButStreams, TypeOK, TableAgrees, UncreatedOpen, HoldersCreated, Alive, Held, InFlight, Sids, None
<1>13. ASSUME NEW o \in Starts, RequestRemoved(o) PROVE UncreatedOpen'
    BY <1>0, <1>13 DEF RequestRemoved, sessionVars, TypeOK, TableAgrees, UncreatedOpen, HoldersCreated, Alive, Held, InFlight, Sids, None
<1>14. ASSUME NEW o \in Starts, NEW i \in Indices, ConstraintsReady(o, i) PROVE UncreatedOpen'
    BY <1>0, <1>14 DEF ConstraintsReady, CompleteCaptures, Finish, sessionsButStreams, TypeOK, TableAgrees, UncreatedOpen, HoldersCreated, Alive, Held, InFlight, Sids, None
<1>15. ASSUME NEW o \in Starts, NEW i \in Indices, CaptureLost(o, i) PROVE UncreatedOpen'
    BY <1>0, <1>15 DEF CaptureLost, sessionVars, TypeOK, TableAgrees, UncreatedOpen, HoldersCreated, Alive, Held, InFlight, Sids, None
<1>16. CASE UNCHANGED vars
    BY <1>0, <1>16 DEF vars, sessionVars, startVars, TypeOK, TableAgrees, UncreatedOpen, HoldersCreated, Alive, Held, InFlight, Sids, None
<1> QED
    BY <1>1, <1>2, <1>3, <1>4, <1>5, <1>6, <1>7, <1>8, <1>9, <1>10, <1>11, <1>12,
       <1>13, <1>14, <1>15, <1>16 DEF Next

\* A closed session in the table has a timer.
LEMMA ErasesInductive == IInv /\ [Next]_vars => ClosedSessionsGetErased'
<1> SUFFICES ASSUME IInv, [Next]_vars PROVE ClosedSessionsGetErased'
    OBVIOUS
<1>0. TypeOK /\ TypeOK' /\ HoldersCreated /\ TableAgrees /\ UncreatedOpen /\ ClosedSessionsGetErased
    BY TypeInductive DEF IInv
<1> USE ScreenCastAssumption
<1>1. ASSUME NEW p \in Paths, CreateSession(p) PROVE ClosedSessionsGetErased'
    <2>1. \A q \in Paths \ {p} : sessions'[q] = sessions[q]
        BY <1>0, <1>1 DEF CreateSession, TypeOK
    <2>2. \A q \in Paths \ {p} :
             sessions[q] # None /\ closed'[sessions[q]] => closed[sessions[q]]
        <3>1. CASE sessions[p] = None
            BY <1>1, <3>1 DEF CreateSession
        <3>2. CASE sessions[p] # None
            <4>1. sessions[p] \in Sids /\ pathOf[sessions[p]] = p
                BY <3>2, TablePath
            <4>2. CloseSession(sessions[p], FALSE)
                BY <1>1, <3>2 DEF CreateSession
            <4>3. \A t \in Sids : closed'[t] => closed[t] \/ t = sessions[p]
                BY <1>0, <4>1, <4>2, CloseEffect
            <4>4. \A q \in Paths : erasures[q] > 0 => erasures'[q] > 0
                BY <1>0, <4>1, <4>2, CloseEffect
            <4> QED BY <4>1, <4>3, TablePath
        <3> QED BY <3>1, <3>2
    <2>3. \A q \in Paths : erasures[q] > 0 => erasures'[q] > 0
        <3>1. CASE sessions[p] = None
            BY <1>1, <3>1 DEF CreateSession
        <3>2. CASE sessions[p] # None
            <4>1. sessions[p] \in Sids /\ pathOf[sessions[p]] = p
                BY <3>2, TablePath
            <4>2. CloseSession(sessions[p], FALSE)
                BY <1>1, <3>2 DEF CreateSession
            <4>3. \A t \in Sids : closed'[t] => closed[t] \/ t = sessions[p]
                BY <1>0, <4>1, <4>2, CloseEffect
            <4>4. \A q \in Paths : erasures[q] > 0 => erasures'[q] > 0
                BY <1>0, <4>1, <4>2, CloseEffect
            <4> QED BY <4>1, <4>3, <4>4, TablePath
        <3> QED BY <3>1, <3>2
    <2>4. sessions'[p] # None => sessions'[p] = created + 1 /\ ~closed'[created + 1]
        <3>1. created \in Nat /\ created + 1 \in Sids
            BY <1>0, <1>1 DEF CreateSession, TypeOK, Sids
        <3>2. sessions'[p] # None => sessions'[p] = created + 1
            BY <1>0, <1>1 DEF CreateSession, TypeOK
        <3>3. ~closed'[created + 1]
            <4>2. ~closed[created + 1]
                BY <1>0, <3>1 DEF UncreatedOpen
            <4>3. CASE sessions[p] = None
                BY <1>1, <4>2, <4>3 DEF CreateSession
            <4>4. CASE sessions[p] # None
                <5>1. sessions[p] \in Sids /\ sessions[p] <= created /\ pathOf[sessions[p]] = p
                    BY <1>0, <4>4 DEF TypeOK, TableAgrees
                <5>2. CloseSession(sessions[p], FALSE)
                    BY <1>1, <4>4 DEF CreateSession
                <5>3. created + 1 # sessions[p]
                    BY <3>1, <5>1 DEF Sids
                <5> QED BY <1>0, <3>1, <4>2, <5>1, <5>2, <5>3, CloseEffect
            <4> QED BY <4>3, <4>4
        <3> QED BY <3>2, <3>3
    <2> QED BY <1>0, <2>1, <2>2, <2>3, <2>4 DEF ClosedSessionsGetErased
<1>2. ASSUME NEW p \in Paths, SelectSources(p) PROVE ClosedSessionsGetErased'
    BY <1>0, <1>2 DEF SelectSources, startVars, TypeOK, TableAgrees, UncreatedOpen, ClosedSessionsGetErased, Sids, None
<1>3. ASSUME NEW p \in Paths, SelectBadCursorMode(p) PROVE ClosedSessionsGetErased'
    <2>1. UNCHANGED sessions /\ CloseSession(sessions[p], TRUE) /\ sessions[p] # None
        BY <1>3 DEF SelectBadCursorMode, Usable
    <2>2. sessions[p] \in Sids /\ pathOf[sessions[p]] = p
        BY <2>1, TablePath
    <2>3. /\ \A t \in Sids : closed'[t] => closed[t] \/ t = sessions[p]
          /\ \A q \in Paths : erasures[q] > 0 => erasures'[q] > 0
          /\ closed[sessions[p]] \/ erasures'[p] > 0
        BY <1>0, <2>1, <2>2, CloseEffect
    <2> QED BY <1>0, <2>1, <2>3, TablePath DEF ClosedSessionsGetErased
<1>4. ASSUME NEW p \in Paths, EraseSession(p) PROVE ClosedSessionsGetErased'
    BY <1>0, <1>4 DEF EraseSession, startVars, TypeOK, TableAgrees, UncreatedOpen, ClosedSessionsGetErased, Sids, None
<1>5. ASSUME NEW s \in Sids, SessionClose(s) PROVE ClosedSessionsGetErased'
    BY <1>0, <1>5 DEF SessionClose, startVars, CloseSession, TypeOK, TableAgrees, UncreatedOpen, ClosedSessionsGetErased, Sids, None
<1>6. ASSUME NEW s \in Sids, NEW x \in StreamIds, StreamStops(s, x) PROVE ClosedSessionsGetErased'
    <2> DEFINE t == sessions[pathOf[s]]
    <2>1. pathOf[s] \in Paths
        BY <1>6, StreamPath DEF StreamStops, LiveStreams
    <2>2. UNCHANGED <<sessions, created, pathOf>>
        BY <1>6 DEF StreamStops
    <2>3. CASE t = None
        <3>1. UNCHANGED <<closed, erasures>>
            BY <1>6, <2>3 DEF StreamStops
        <3> QED BY <1>0, <2>2, <3>1 DEF ClosedSessionsGetErased, TableAgrees, TypeOK
    <2>4. CASE t # None
        <3>1. t \in Sids /\ t <= created /\ pathOf[t] = pathOf[s]
            BY <1>0, <2>1, <2>4 DEF TypeOK, TableAgrees
        <3>2. CloseSession(t, TRUE)
            BY <1>6, <2>4 DEF StreamStops
        <3> HIDE DEF t
        <3>3. /\ \A u \in Sids : closed'[u] => closed[u] \/ u = t
              /\ \A q \in Paths : erasures[q] > 0 => erasures'[q] > 0
              /\ closed[t] \/ erasures'[pathOf[s]] > 0
            BY <1>0, <2>1, <3>1, <3>2, CloseEffect
        <3>4. ASSUME NEW q \in Paths, sessions[q] = t PROVE q = pathOf[s]
            BY <3>1, <3>4, TablePath, ScreenCastAssumption DEF Sids, None
        <3> QED BY <1>0, <2>1, <2>2, <3>1, <3>3, <3>4, TablePath DEF ClosedSessionsGetErased
    <2> QED BY <2>3, <2>4
<1>7. ASSUME NEW o \in Starts, NEW p \in Paths, RejectStart(o, p) PROVE ClosedSessionsGetErased'
    BY <1>0, <1>7 DEF RejectStart, sessionVars, TypeOK, TableAgrees, UncreatedOpen, ClosedSessionsGetErased, Sids, None
<1>8. ASSUME NEW o \in Starts, NEW p \in Paths, StartOn(o, p) PROVE ClosedSessionsGetErased'
    BY <1>0, <1>8 DEF StartOn, BeginCaptures, NoCapture, RunChooser, Finish, sessionsButStreams, Usable, TypeOK, TableAgrees, UncreatedOpen, ClosedSessionsGetErased, Sids, None
<1>9. ASSUME NEW o \in Starts, ChooserExits(o) PROVE ClosedSessionsGetErased'
    BY <1>0, <1>9 DEF ChooserExits, BeginCaptures, NoCapture, Finish, sessionsButStreams, TypeOK, TableAgrees, UncreatedOpen, ClosedSessionsGetErased, Sids, None
<1>10. ASSUME NEW o \in Starts, RequestClose(o) PROVE ClosedSessionsGetErased'
    BY <1>0, <1>10 DEF RequestClose, Finish, sessionsButStreams, TypeOK, TableAgrees, UncreatedOpen, ClosedSessionsGetErased, Sids, None
<1>11. ASSUME NEW o \in Starts, ChooserReaped(o) PROVE ClosedSessionsGetErased'
    BY <1>0, <1>11 DEF ChooserReaped, sessionVars, TypeOK, TableAgrees, UncreatedOpen, ClosedSessionsGetErased, Sids, None
<1>12. ASSUME NEW o \in Starts, CaptureTimeout(o) PROVE ClosedSessionsGetErased'
    BY <1>0, <1>12 DEF CaptureTimeout, Finish, sessionsButStreams, TypeOK, TableAgrees, UncreatedOpen, ClosedSessionsGetErased, Sids, None
<1>13. ASSUME NEW o \in Starts, RequestRemoved(o) PROVE ClosedSessionsGetErased'
    BY <1>0, <1>13 DEF RequestRemoved, sessionVars, TypeOK, TableAgrees, UncreatedOpen, ClosedSessionsGetErased, Sids, None
<1>14. ASSUME NEW o \in Starts, NEW i \in Indices, ConstraintsReady(o, i) PROVE ClosedSessionsGetErased'
    BY <1>0, <1>14 DEF ConstraintsReady, CompleteCaptures, Finish, sessionsButStreams, TypeOK, TableAgrees, UncreatedOpen, ClosedSessionsGetErased, Sids, None
<1>15. ASSUME NEW o \in Starts, NEW i \in Indices, CaptureLost(o, i) PROVE ClosedSessionsGetErased'
    BY <1>0, <1>15 DEF CaptureLost, sessionVars, TypeOK, TableAgrees, UncreatedOpen, ClosedSessionsGetErased, Sids, None
<1>16. CASE UNCHANGED vars
    BY <1>0, <1>16 DEF vars, sessionVars, startVars, TypeOK, TableAgrees, UncreatedOpen, ClosedSessionsGetErased, Sids, None
<1> QED
    BY <1>1, <1>2, <1>3, <1>4, <1>5, <1>6, <1>7, <1>8, <1>9, <1>10, <1>11, <1>12,
       <1>13, <1>14, <1>15, <1>16 DEF Next

\* Streams are announced.
LEMMA StreamsInductive == IInv /\ [Next]_vars => StreamsWereAnnounced'
<1> SUFFICES ASSUME IInv, [Next]_vars PROVE StreamsWereAnnounced'
    OBVIOUS
<1>0. TypeOK /\ TypeOK' /\ OperationShape /\ StreamsWereAnnounced
    BY TypeInductive DEF IInv
<1>1. ASSUME NEW p \in Paths, CreateSession(p) PROVE StreamsWereAnnounced'
    BY <1>0, <1>1 DEF CreateSession, startVars, CloseSession, TypeOK, OperationShape, StreamsWereAnnounced, InFlight
<1>2. ASSUME NEW p \in Paths, SelectSources(p) PROVE StreamsWereAnnounced'
    BY <1>0, <1>2 DEF SelectSources, startVars, TypeOK, OperationShape, StreamsWereAnnounced, InFlight
<1>3. ASSUME NEW p \in Paths, SelectBadCursorMode(p) PROVE StreamsWereAnnounced'
    BY <1>0, <1>3 DEF SelectBadCursorMode, startVars, CloseSession, TypeOK, OperationShape, StreamsWereAnnounced, InFlight
<1>4. ASSUME NEW p \in Paths, EraseSession(p) PROVE StreamsWereAnnounced'
    BY <1>0, <1>4 DEF EraseSession, startVars, TypeOK, OperationShape, StreamsWereAnnounced, InFlight
<1>5. ASSUME NEW s \in Sids, SessionClose(s) PROVE StreamsWereAnnounced'
    BY <1>0, <1>5 DEF SessionClose, startVars, CloseSession, TypeOK, OperationShape, StreamsWereAnnounced, InFlight
<1>6. ASSUME NEW s \in Sids, NEW x \in StreamIds, StreamStops(s, x) PROVE StreamsWereAnnounced'
    BY <1>0, <1>6 DEF StreamStops, startVars, CloseSession, TypeOK, OperationShape, StreamsWereAnnounced, InFlight
<1>7. ASSUME NEW o \in Starts, NEW p \in Paths, RejectStart(o, p) PROVE StreamsWereAnnounced'
    BY <1>0, <1>7 DEF RejectStart, sessionVars, TypeOK, OperationShape, StreamsWereAnnounced, InFlight
<1>8. ASSUME NEW o \in Starts, NEW p \in Paths, StartOn(o, p) PROVE StreamsWereAnnounced'
    <2> DEFINE s == sessions[p]
    <2>1. s \in Sids /\ streams[s] \in SUBSET StreamIds
        BY <1>0, <1>8 DEF StartOn, Usable, TypeOK
    <2>2. phase[o] = "idle" /\ reply[o] = "none" /\ owner' = [owner EXCEPT ![o] = s]
        BY <1>0, <1>8 DEF StartOn, OperationShape
    <2>3. owner'[o] = s /\ \A q \in Starts : q # o => owner'[q] = owner[q]
        BY <1>0, <2>2 DEF TypeOK
    <2> HIDE DEF s
    <2>4. CASE \E answer \in {"cancelled", "other"} : Finish(o, s, answer, streams[s])
        BY <2>1, <2>2, <2>3, <2>4, FinishStreams DEF Answers
    <2>5. CASE UNCHANGED <<streams, reply, announced>>
        BY <2>2, <2>3, <2>5, OwnerStreams
    <2> QED BY <1>8, <2>4, <2>5 DEF StartOn, BeginCaptures, NoCapture, RunChooser, s
<1>9. ASSUME NEW o \in Starts, ChooserExits(o) PROVE StreamsWereAnnounced'
    <2>1. owner[o] \in Sids /\ streams[owner[o]] \in SUBSET StreamIds
        BY <1>9, InFlightOwner DEF ChooserExits, InFlight
    <2>2. reply[o] = "none" /\ owner' = owner
        BY <1>0, <1>9 DEF ChooserExits, OperationShape, InFlight
    <2>3. CASE \E answer \in {"cancelled", "other"} : Finish(o, owner[o], answer, streams[owner[o]])
        BY <2>1, <2>2, <2>3, FinishStreams DEF Answers
    <2>4. CASE UNCHANGED <<streams, reply, announced>>
        BY <2>2, <2>4, OwnerStreams
    <2> QED BY <1>9, <2>3, <2>4 DEF ChooserExits, BeginCaptures, NoCapture
<1>10. ASSUME NEW o \in Starts, RequestClose(o) PROVE StreamsWereAnnounced'
    BY <1>0, <1>10 DEF RequestClose, Finish, sessionsButStreams, TypeOK, OperationShape, StreamsWereAnnounced, InFlight
<1>11. ASSUME NEW o \in Starts, ChooserReaped(o) PROVE StreamsWereAnnounced'
    BY <1>0, <1>11 DEF ChooserReaped, sessionVars, TypeOK, OperationShape, StreamsWereAnnounced, InFlight
<1>12. ASSUME NEW o \in Starts, CaptureTimeout(o) PROVE StreamsWereAnnounced'
    BY <1>0, <1>12 DEF CaptureTimeout, Finish, sessionsButStreams, TypeOK, OperationShape, StreamsWereAnnounced, InFlight
<1>13. ASSUME NEW o \in Starts, RequestRemoved(o) PROVE StreamsWereAnnounced'
    BY <1>0, <1>13 DEF RequestRemoved, sessionVars, TypeOK, OperationShape, StreamsWereAnnounced, InFlight
<1>14. ASSUME NEW o \in Starts, NEW i \in Indices, ConstraintsReady(o, i) PROVE StreamsWereAnnounced'
    <2> DEFINE added(k) == streams[owner[o]] \cup {<<o, j>> : j \in 1..k}
    <2>1. owner[o] \in Sids /\ streams[owner[o]] \in SUBSET StreamIds
        BY <1>14, InFlightOwner DEF ConstraintsReady, InFlight
    <2>2. ASSUME NEW k \in 0..MaxCaptures
          PROVE  added(k) \in SUBSET StreamIds /\ \A x \in added(k) : x \in streams[owner[o]] \/ x[1] = o
        BY <2>1, ScreenCastAssumption DEF StreamIds, Indices
    <2> HIDE DEF added
    <2>3. count[o] \in 0..MaxCaptures
        BY <1>0 DEF TypeOK
    <2>4. owner' = owner /\ reply[o] = "none"
        BY <1>0, <1>14 DEF ConstraintsReady, OperationShape, InFlight
    <2>5. CASE Finish(o, owner[o], "success", added(count[o]))
        BY <2>1, <2>2, <2>3, <2>4, <2>5, FinishStreams DEF Answers
    <2>6. CASE \E j \in 1..count[o] : Finish(o, owner[o], "other", added(j - 1))
        <3>1. PICK j \in 1..count[o] : Finish(o, owner[o], "other", added(j - 1))
            BY <2>6
        <3>2. j - 1 \in 0..MaxCaptures
            BY <2>3, ScreenCastAssumption
        <3>3. added(j - 1) \in SUBSET StreamIds
            BY <2>2, <3>2
        <3> QED BY <2>1, <2>4, <3>1, <3>3, FinishStreams DEF Answers
    <2>7. CASE UNCHANGED <<streams, reply, announced>>
        BY <2>4, <2>7, OwnerStreams
    <2> QED BY <1>14, <2>5, <2>6, <2>7 DEF ConstraintsReady, CompleteCaptures, added
<1>15. ASSUME NEW o \in Starts, NEW i \in Indices, CaptureLost(o, i) PROVE StreamsWereAnnounced'
    BY <1>0, <1>15 DEF CaptureLost, sessionVars, TypeOK, OperationShape, StreamsWereAnnounced, InFlight
<1>16. CASE UNCHANGED vars
    BY <1>0, <1>16 DEF vars, sessionVars, startVars, TypeOK, OperationShape, StreamsWereAnnounced, InFlight
<1> QED
    BY <1>1, <1>2, <1>3, <1>4, <1>5, <1>6, <1>7, <1>8, <1>9, <1>10, <1>11, <1>12,
       <1>13, <1>14, <1>15, <1>16 DEF Next

-----------------------------------------------------------------------------
(* The invariant, and what follows from it. *)

\* Nothing is exported, started or closed at first.
LEMMA InitIInv == Init => IInv
    BY ScreenCastAssumption
    DEF Init, IInv, TypeOK, HoldersCreated, OperationShape, TableAgrees, UncreatedOpen,
        FinishedHoldsNothing, CapturingCanEnd, ClosedSessionsGetErased, StreamsWereAnnounced,
        InFlight, Sids, None

\* IInv is inductive.
LEMMA NextIInv == IInv /\ [Next]_vars => IInv'
    BY TypeInductive, ShapeInductive, FinishedInductive, CapturingInductive, HoldersInductive,
       TableInductive, OpenInductive, ErasesInductive, StreamsInductive DEF IInv

\* The inductive invariant: types, and how the session table, the deferred erases,
\* the operations in flight and the announced streams agree after every callback.
THEOREM SpecIInv == Spec => []IInv
    BY InitIInv, NextIInv, PTL DEF Spec

\* Every variable of the session table and of the operations keeps its type.
THEOREM ScreenCastTypeOK == Spec => []TypeOK
<1>1. IInv => TypeOK
    BY DEF IInv
<1> QED BY <1>1, SpecIInv, PTL

\* Whatever ends a Start (answer, Request.Close, timeout, a chooser that fails),
\* it leaves no timer, no pending capture, no chooser wired to it, and a Request
\* that is withdrawn (StartOperation::finish).
THEOREM ScreenCastFinishedHoldsNothing == Spec => []FinishedHoldsNothing
<1>1. IInv => FinishedHoldsNothing
    BY DEF IInv
<1> QED BY <1>1, SpecIInv, PTL

\* A Start waiting for constraints always has its timer and is never complete.
THEOREM ScreenCastCapturingCanEnd == Spec => []CapturingCanEnd
<1>1. IInv => CapturingCanEnd
    BY DEF IInv
<1> QED BY <1>1, SpecIInv, PTL

\* A closed session in the table has an erase timer pending at its path,
\* whoever closed it (Session::Impl::close through closedHandler).
THEOREM ScreenCastClosedSessionsGetErased == Spec => []ClosedSessionsGetErased
<1>1. IInv => ClosedSessionsGetErased
    BY DEF IInv
<1> QED BY <1>1, SpecIInv, PTL

\* Every stream a session holds was announced by a successful Start on it, even
\* with concurrent Starts on one session (StartOperation::finish clears on failure).
THEOREM ScreenCastStreamsWereAnnounced == Spec => []StreamsWereAnnounced
<1>1. IInv => StreamsWereAnnounced
    BY DEF IInv
<1> QED BY <1>1, SpecIInv, PTL

-----------------------------------------------------------------------------
(* What the table has at the path of a session that is kept alive. *)

\* A session a Start still holds keeps its path: the table has it there, or nothing.
HeldKeepTheirPath ==
    \A o \in Starts : InFlight(o) => sessions[pathOf[owner[o]]] \in {owner[o], None}

\* Only Start puts an operation in flight, and it keeps its session while it is.
LEMMA HoldsOn ==
    ASSUME IInv, [Next]_vars, NEW o \in Starts, InFlight(o)'
    PROVE  \/ InFlight(o) /\ owner'[o] = owner[o]
           \/ \E p \in Paths : StartOn(o, p)
<1>0. TypeOK
    BY DEF IInv
<1>1. ASSUME NEW q \in Starts, NEW s, NEW answer, NEW now, Finish(q, s, answer, now)
      PROVE  InFlight(o)
    BY <1>0, <1>1 DEF Finish, TypeOK, InFlight
<1>2. ASSUME NEW q \in Starts, NEW s, NEW n, BeginCaptures(q, s, n)
      PROVE  InFlight(o) \/ q = o
    BY <1>0, <1>1, <1>2 DEF BeginCaptures, NoCapture, TypeOK, InFlight
<1>3. ASSUME NEW q \in Starts, NEW p \in Paths, RejectStart(q, p)
      PROVE  InFlight(o) /\ owner'[o] = owner[o]
    BY <1>0, <1>3 DEF RejectStart, TypeOK, InFlight
<1>4. ASSUME NEW q \in Starts, q # o, NEW p \in Paths, StartOn(q, p)
      PROVE  InFlight(o) /\ owner'[o] = owner[o]
    <2> DEFINE s == sessions[p]
    <2>1. owner'[o] = owner[o]
        BY <1>0, <1>4 DEF StartOn, TypeOK
    <2>2. (\E n \in Matching(s) : BeginCaptures(q, s, n)) \/ RunChooser(q, s)
        BY <1>4 DEF StartOn
    <2> HIDE DEF s
    <2>3. CASE \E n \in Matching(s) : BeginCaptures(q, s, n)
        BY <1>2, <1>4, <2>1, <2>3
    <2>4. CASE RunChooser(q, s)
        BY <1>0, <1>1, <1>4, <2>1, <2>4 DEF RunChooser, TypeOK, InFlight
    <2> QED BY <2>2, <2>3, <2>4
<1>5. ASSUME NEW q \in Starts, ChooserExits(q)
      PROVE  InFlight(o) /\ owner'[o] = owner[o]
    BY <1>1, <1>2, <1>5 DEF ChooserExits, InFlight
<1>6. ASSUME NEW q \in Starts, RequestClose(q) \/ CaptureTimeout(q)
      PROVE  InFlight(o) /\ owner'[o] = owner[o]
    BY <1>1, <1>6 DEF RequestClose, CaptureTimeout
<1>7. ASSUME NEW q \in Starts, NEW i \in Indices, ConstraintsReady(q, i)
      PROVE  InFlight(o) /\ owner'[o] = owner[o]
    <2>1. CASE CompleteCaptures(q)
        BY <1>1, <1>7, <2>1 DEF CompleteCaptures, ConstraintsReady
    <2>2. CASE UNCHANGED phase
        BY <1>7, <2>2 DEF ConstraintsReady, InFlight
    <2> QED BY <1>7, <2>1, <2>2 DEF ConstraintsReady
<1>8. CASE UNCHANGED <<phase, owner>>
    BY <1>8 DEF InFlight
<1> QED
    BY <1>3, <1>4, <1>5, <1>6, <1>7, <1>8
    DEF Next, CreateSession, SelectSources, SelectBadCursorMode, EraseSession, SessionClose, StreamStops,
        ChooserReaped, RequestRemoved, CaptureLost, startVars, vars

\* The table only loses what it has, or gains a session at a path nobody holds.
LEMMA TableStep ==
    ASSUME IInv, [Next]_vars, NEW p \in Paths
    PROVE  \/ sessions'[p] \in {sessions[p], None}
           \/ CreateSession(p) /\ ~Occupied(p)
<1>0. TypeOK
    BY DEF IInv
<1>1. ASSUME NEW q \in Paths, CreateSession(q)
      PROVE  \/ sessions'[p] \in {sessions[p], None}
             \/ CreateSession(p) /\ ~Occupied(p)
    BY <1>0, <1>1 DEF CreateSession, TypeOK
<1>2. ASSUME NEW q \in Paths, EraseSession(q)
      PROVE  sessions'[p] \in {sessions[p], None}
    BY <1>0, <1>2 DEF EraseSession, TypeOK
<1>3. CASE UNCHANGED sessions
    BY <1>3
<1> QED
    BY <1>1, <1>2, <1>3
    DEF Next, SelectSources, SelectBadCursorMode, SessionClose, StreamStops, RejectStart, StartOn, ChooserExits,
        RequestClose, ChooserReaped, CaptureTimeout, RequestRemoved, ConstraintsReady, CaptureLost,
        sessionsButStreams, sessionVars, vars

\* A created session keeps its path.
LEMMA PathsStay ==
    ASSUME IInv, [Next]_vars, NEW s \in Sids, s <= created
    PROVE  pathOf'[s] = pathOf[s]
<1>0. TypeOK /\ s # created + 1
    BY DEF IInv, Sids, TypeOK
<1>1. ASSUME NEW q \in Paths, CreateSession(q) PROVE pathOf'[s] = pathOf[s]
    <2>1. CASE UNCHANGED pathOf
        BY <2>1
    <2>2. CASE pathOf' = [pathOf EXCEPT ![created + 1] = q]
        BY <1>0, <2>2 DEF TypeOK
    <2> QED BY <1>1, <2>1, <2>2 DEF CreateSession
<1>2. CASE UNCHANGED pathOf
    BY <1>2
<1> QED
    BY <1>1, <1>2
    DEF Next, EraseSession, SelectSources, SelectBadCursorMode, SessionClose, StreamStops, RejectStart, StartOn,
        ChooserExits, RequestClose, ChooserReaped, CaptureTimeout, RequestRemoved, ConstraintsReady, CaptureLost,
        sessionsButStreams, sessionVars, vars

\* A new session is never given a path that is held, and a Start takes its session
\* from the table.
LEMMA HeldInductive == IInv /\ HeldKeepTheirPath /\ [Next]_vars => HeldKeepTheirPath'
<1> SUFFICES ASSUME IInv, HeldKeepTheirPath, [Next]_vars, NEW o \in Starts, InFlight(o)'
             PROVE  sessions'[pathOf'[owner'[o]]] \in {owner'[o], None}
    BY DEF HeldKeepTheirPath
<1>1. ASSUME NEW p \in Paths, StartOn(o, p)
      PROVE  sessions'[pathOf'[owner'[o]]] \in {owner'[o], None}
    <2>1. owner'[o] = sessions[p] /\ sessions[p] # None /\ UNCHANGED <<sessions, pathOf>>
        BY <1>1 DEF StartOn, Usable, sessionsButStreams, IInv, TypeOK
    <2> QED BY <2>1, TablePath
<1>2. CASE InFlight(o) /\ owner'[o] = owner[o]
    <2> DEFINE s == owner[o]
               p == pathOf[s]
    <2>1. s \in Sids /\ s # None /\ s <= created /\ p \in Paths
        BY <1>2, InFlightOwner, ScreenCastAssumption DEF IInv, HoldersCreated, Sids, None
    <2>2. sessions[p] \in {s, None} /\ pathOf'[s] = p /\ Occupied(p)
        BY <1>2, <2>1, PathsStay DEF HeldKeepTheirPath, Occupied
    <2> HIDE DEF s, p
    <2>3. sessions'[p] \in {sessions[p], None}
        BY <2>1, <2>2, TableStep
    <2> QED BY <1>2, <2>2, <2>3 DEF s
<1> QED BY <1>1, <1>2, HoldsOn

\* A session that is kept alive is the one the table has at its path, if any.
LEMMA AliveKeepsItsPath ==
    ASSUME IInv, HeldKeepTheirPath, NEW s \in Sids, Alive(s)
    PROVE  sessions[pathOf[s]] \in {s, None} /\ s <= created /\ pathOf[s] \in Paths
<1>0. s # None
    BY ScreenCastAssumption DEF Sids, None
<1>1. CASE Held(s)
    BY <1>1, InFlightOwner DEF Held, HeldKeepTheirPath, IInv, HoldersCreated
<1>2. CASE \E p \in Paths : sessions[p] = s
    BY <1>0, <1>2, TablePath
<1> QED BY <1>1, <1>2 DEF Alive

THEOREM SpecHeld == Spec => [](IInv /\ HeldKeepTheirPath)
<1>1. Init => HeldKeepTheirPath
    BY DEF Init, HeldKeepTheirPath, InFlight
<1> QED BY <1>1, InitIInv, NextIInv, HeldInductive, PTL DEF Spec

\* The session a stopped capture closes by path is the stream's own, or none: also
\* when Starts overlap on it, and when an erase took it from the table while a later
\* Start holds it (captureStopped, backendClosedHandler).
THEOREM ScreenCastStopClosesOwnSession == Spec => []StopClosesOwnSession
<1>1. IInv /\ HeldKeepTheirPath => StopClosesOwnSession
    BY AliveKeepsItsPath DEF StopClosesOwnSession, LiveStreams
<1> QED BY <1>1, SpecHeld, PTL

-----------------------------------------------------------------------------
(* How an open session leaves the table. *)

Untouched(p) == sessions'[p] = sessions[p] /\ erasures'[p] = erasures[p]

\* A session that closes puts an erase at its own path and nowhere else: the open
\* session the table has at a path is the one that closes, or nothing happens there.
LEMMA CloseLeavesOthers ==
    ASSUME IInv, HeldKeepTheirPath, NEW p \in Paths, Usable(p), NEW s \in Sids, Alive(s),
           NEW byBackend \in BOOLEAN, CloseSession(s, byBackend), sessions' = sessions
    PROVE  closed'[sessions[p]] \/ Untouched(p)
<1>0. TypeOK /\ sessions[pathOf[s]] \in {s, None} /\ pathOf[s] \in Paths
    BY AliveKeepsItsPath DEF IInv
<1>1. CASE closed[s]
    BY <1>1 DEF CloseSession, Untouched
<1>2. CASE ~closed[s]
    <2>1. closed' = [closed EXCEPT ![s] = TRUE] /\ erasures' = [erasures EXCEPT ![pathOf[s]] = @ + 1]
        BY <1>2 DEF CloseSession
    <2>2. CASE pathOf[s] = p
        BY <1>0, <2>1, <2>2 DEF Usable, TypeOK
    <2>3. CASE pathOf[s] # p
        BY <1>0, <2>1, <2>3 DEF TypeOK, Untouched
    <2> QED BY <2>2, <2>3
<1> QED BY <1>1, <1>2

\* The steps that touch the table or the erases, at a path that has an open session.
LEMMA UsableStep ==
    ASSUME IInv, HeldKeepTheirPath, [Next]_vars, NEW p \in Paths, Usable(p)
    PROVE  closed'[sessions[p]] \/ Untouched(p) \/ erasures'[p] < erasures[p]
<1>0. TypeOK /\ sessions[p] \in Sids /\ sessions[p] # None /\ pathOf[sessions[p]] = p
    BY TablePath DEF IInv, Usable
<1>1. ASSUME NEW q \in Paths, CreateSession(q) PROVE closed'[sessions[p]] \/ Untouched(p)
    <2>1. CASE q = p
        <3>1. closed' = [closed EXCEPT ![sessions[p]] = TRUE]
            BY <1>0, <1>1, <2>1 DEF CreateSession, CloseSession, Usable
        <3> QED BY <1>0, <3>1 DEF TypeOK
    <2>2. CASE q # p
        <3>1. sessions'[p] = sessions[p]
            BY <1>0, <1>1, <2>2 DEF CreateSession, TypeOK
        <3>2. CASE sessions[q] = None
            BY <1>1, <3>1, <3>2 DEF CreateSession, Untouched
        <3>3. CASE sessions[q] # None
            <4>1. pathOf[sessions[q]] = q /\ CloseSession(sessions[q], FALSE)
                BY <1>1, <3>3, TablePath DEF CreateSession
            <4>2. erasures' = erasures \/ erasures' = [erasures EXCEPT ![q] = @ + 1]
                BY <4>1 DEF CloseSession
            <4> QED BY <1>0, <2>2, <3>1, <4>2 DEF TypeOK, Untouched
        <3> QED BY <3>2, <3>3
    <2> QED BY <2>1, <2>2
<1>2. ASSUME NEW q \in Paths, EraseSession(q) PROVE Untouched(p) \/ erasures'[p] < erasures[p]
    <2>1. /\ erasures' = [erasures EXCEPT ![q] = @ - 1]
          /\ sessions' = [sessions EXCEPT ![q] = None]
        BY <1>2 DEF EraseSession
    <2>2. erasures[p] \in Nat /\ erasures[p] - 1 < erasures[p]
        BY <1>0 DEF TypeOK
    <2> QED BY <1>0, <2>1, <2>2 DEF TypeOK, Untouched
<1>3. ASSUME NEW q \in Paths, SelectBadCursorMode(q) PROVE closed'[sessions[p]] \/ Untouched(p)
    <2>1. /\ sessions[q] \in Sids /\ Alive(sessions[q])
          /\ CloseSession(sessions[q], TRUE) /\ UNCHANGED sessions
        BY <1>3, TablePath DEF SelectBadCursorMode, Usable, Alive
    <2> QED BY <2>1, CloseLeavesOthers
<1>4. ASSUME NEW s \in Sids, SessionClose(s) PROVE closed'[sessions[p]] \/ Untouched(p)
    BY <1>4, CloseLeavesOthers DEF SessionClose
<1>5. ASSUME NEW s \in Sids, NEW x \in StreamIds, StreamStops(s, x)
      PROVE  closed'[sessions[p]] \/ Untouched(p)
    <2> DEFINE t == sessions[pathOf[s]]
    <2>1. pathOf[s] \in Paths /\ UNCHANGED sessions
        BY <1>5, StreamPath DEF StreamStops, LiveStreams
    <2>2. CASE t = None
        BY <1>5, <2>1, <2>2 DEF StreamStops, Untouched
    <2>3. CASE t # None
        <3>1. t \in Sids /\ Alive(t) /\ CloseSession(t, TRUE)
            BY <1>5, <2>1, <2>3, TablePath DEF StreamStops, Alive
        <3> HIDE DEF t
        <3> QED BY <2>1, <3>1, CloseLeavesOthers
    <2> QED BY <2>2, <2>3
<1>6. CASE UNCHANGED <<sessions, erasures>>
    BY <1>6 DEF Untouched
<1> QED
    BY <1>1, <1>2, <1>3, <1>4, <1>5, <1>6
    DEF Next, SelectSources, RejectStart, StartOn, ChooserExits, RequestClose, ChooserReaped, CaptureTimeout,
        RequestRemoved, ConstraintsReady, CaptureLost, sessionsButStreams, sessionVars, vars

\* An open session leaves the table only as an erase of its path fires that was
\* pending when it came: none is scheduled against it while it is there, by any
\* session that closes (deferEraseSession).
THEOREM ScreenCastOnlyOldErases == Spec => OnlyOldErases
<1>1. IInv /\ HeldKeepTheirPath /\ [Next]_vars
      => [\A p \in Paths : Usable(p) =>
             \/ closed'[sessions[p]]
             \/ sessions'[p] = sessions[p] /\ erasures'[p] = erasures[p]
             \/ erasures'[p] < erasures[p]]_vars
    BY UsableStep DEF Untouched
<1> QED BY <1>1, SpecHeld, PTL DEF Spec, OnlyOldErases

-----------------------------------------------------------------------------
(* A Start is a portal request. *)

\* How PortalRequest sees a Start, by its phase and its Request.
StatusOf(ph) == CASE ph = "idle" -> "idle"
                  [] ph \in {"chooser", "capturing"} -> "pending"
                  [] ph = "done" -> "answered"
ObjectOf(r) == IF r \in {"exported", "doomed"} THEN "exported" ELSE "absent"

\* A Start that moves is a call that moves in PortalRequest, and no other does.
LEMMA Moves ==
    ASSUME NEW o \in Starts,
           \A q \in Starts : q # o => phase'[q] = phase[q] /\ request'[q] = request[q]
    PROVE  /\ callStatus' = [callStatus EXCEPT ![o] = StatusOf(phase'[o])]
           /\ callObject' = [callObject EXCEPT ![o] = ObjectOf(request'[o])]
           /\ callStatus[o] = StatusOf(phase[o])
           /\ callObject[o] = ObjectOf(request[o])
<1>1. /\ callStatus = [q \in Starts |-> StatusOf(phase[q])]
      /\ callObject = [q \in Starts |-> ObjectOf(request[q])]
      /\ callStatus' = [q \in Starts |-> StatusOf(phase'[q])]
      /\ callObject' = [q \in Starts |-> ObjectOf(request'[q])]
    BY DEF callStatus, callObject, StatusOf, ObjectOf
<1> HIDE DEF StatusOf, ObjectOf
<1> QED BY <1>1

\* The steps of one Start, as PortalRequest names them: arriving, being answered,
\* waiting on, being withdrawn.
LEMMA CallStep ==
    ASSUME IInv, IInv', NEW o \in Starts,
           \A q \in Starts : q # o => phase'[q] = phase[q] /\ request'[q] = request[q],
           \/ phase[o] = "idle" /\ phase'[o] # "idle" /\ request'[o] \in {"exported", "doomed"}
           \/ InFlight(o) /\ phase'[o] = "done" /\ request'[o] = "doomed"
           \/ InFlight(o) /\ InFlight(o)' /\ request'[o] = "exported"
           \/ phase'[o] = phase[o] /\ request[o] = "doomed" /\ request'[o] = "removed"
    PROVE  [Call!Next]_(Call!vars)
<1>0. TypeOK /\ TypeOK' /\ OperationShape /\ FinishedHoldsNothing
    BY DEF IInv
<1>1. /\ callStatus' = [callStatus EXCEPT ![o] = StatusOf(phase'[o])]
      /\ callObject' = [callObject EXCEPT ![o] = ObjectOf(request'[o])]
      /\ callStatus[o] = StatusOf(phase[o])
      /\ callObject[o] = ObjectOf(request[o])
    BY Moves
<1>p. phase[o] \in {"idle", "chooser", "capturing", "done"} /\ phase'[o] \in {"idle", "chooser", "capturing", "done"}
    BY <1>0 DEF TypeOK
<1>2. CASE phase[o] = "idle" /\ phase'[o] # "idle" /\ request'[o] \in {"exported", "doomed"}
    <2>1. callStatus[o] = "idle" /\ StatusOf(phase'[o]) \in {"pending", "answered"}
        BY <1>p, <1>1, <1>2 DEF StatusOf
    <2>2. ObjectOf(request'[o]) = "exported"
        BY <1>2 DEF ObjectOf
    <2> QED BY <1>1, <2>1, <2>2 DEF Call!Next, Call!Receive
<1>3. CASE InFlight(o) /\ phase'[o] = "done" /\ request'[o] = "doomed"
    <2>1. callStatus[o] = "pending" /\ StatusOf(phase'[o]) = "answered"
        BY <1>1, <1>3 DEF StatusOf, InFlight
    <2>2. ObjectOf(request'[o]) = ObjectOf(request[o])
        BY <1>0, <1>3 DEF ObjectOf, OperationShape
    <2>3. callObject' = callObject
        BY <1>1, <2>2 DEF callObject
    <2> QED BY <1>1, <2>1, <2>3 DEF Call!Next, Call!Answer
<1>4. CASE InFlight(o) /\ InFlight(o)' /\ request'[o] = "exported"
    <2>1. StatusOf(phase'[o]) = StatusOf(phase[o])
        BY <1>4 DEF StatusOf, InFlight
    <2>2. request'[o] = request[o]
        BY <1>0, <1>4 DEF OperationShape
    <2> QED BY <1>1, <2>1, <2>2 DEF Call!vars, callStatus, callObject
<1>5. CASE phase'[o] = phase[o] /\ request[o] = "doomed" /\ request'[o] = "removed"
    <2>1. phase[o] = "done"
        BY <1>p, <1>0, <1>5 DEF OperationShape, InFlight
    <2>2. callStatus[o] = "answered" /\ callObject[o] = "exported" /\ ObjectOf(request'[o]) = "absent"
        BY <1>1, <1>5, <2>1 DEF StatusOf, ObjectOf
    <2>3. callStatus' = callStatus
        BY <1>1, <1>5 DEF callStatus
    <2> QED BY <1>1, <2>2, <2>3 DEF Call!Next, Call!Withdraw
<1> QED BY <1>2, <1>3, <1>4, <1>5

\* What finishing, and beginning the captures, do to a Start's phase and Request.
LEMMA FinishMoves ==
    ASSUME TypeOK, NEW o \in Starts, NEW s, NEW answer, NEW now, Finish(o, s, answer, now)
    PROVE  /\ phase'[o] = "done" /\ request'[o] = "doomed"
           /\ \A q \in Starts : q # o => phase'[q] = phase[q] /\ request'[q] = request[q]
    BY DEF Finish, TypeOK

LEMMA BeginMoves ==
    ASSUME TypeOK, NEW o \in Starts, NEW s, NEW n, BeginCaptures(o, s, n)
    PROVE  /\ \A q \in Starts : q # o => phase'[q] = phase[q] /\ request'[q] = request[q]
           /\ \/ phase'[o] = "done" /\ request'[o] = "doomed"
              \/ InFlight(o)' /\ request'[o] = "exported"
    BY DEF BeginCaptures, NoCapture, Finish, TypeOK, InFlight

\* Every callback is at most one step of PortalRequest: a Start is answered once,
\* while its Request is exported, and the Request goes after the answer.
LEMMA CallSteps == IInv /\ [Next]_vars => [Call!Next]_(Call!vars)
<1> SUFFICES ASSUME IInv, [Next]_vars PROVE [Call!Next]_(Call!vars)
    OBVIOUS
<1>0. TypeOK /\ IInv'
    BY NextIInv DEF IInv
<1>1. ASSUME NEW o \in Starts, InFlight(o), NEW s, NEW answer, NEW now, Finish(o, s, answer, now)
      PROVE  [Call!Next]_(Call!vars)
    BY <1>0, <1>1, FinishMoves, CallStep
<1>2. ASSUME NEW o \in Starts, InFlight(o), NEW s, NEW n, BeginCaptures(o, s, n)
      PROVE  [Call!Next]_(Call!vars)
    BY <1>0, <1>2, BeginMoves, CallStep
<1>3. ASSUME NEW o \in Starts, NEW p \in Paths, RejectStart(o, p) PROVE [Call!Next]_(Call!vars)
    <2>1. /\ phase[o] = "idle" /\ phase'[o] = "done" /\ request'[o] = "doomed"
          /\ \A q \in Starts : q # o => phase'[q] = phase[q] /\ request'[q] = request[q]
        BY <1>0, <1>3 DEF RejectStart, TypeOK
    <2> QED BY <1>0, <2>1, CallStep
<1>4. ASSUME NEW o \in Starts, NEW p \in Paths, StartOn(o, p) PROVE [Call!Next]_(Call!vars)
    <2> DEFINE s == sessions[p]
    <2>1. phase[o] = "idle"
        BY <1>4 DEF StartOn
    <2>2. \/ \E n \in Matching(s) : BeginCaptures(o, s, n)
          \/ RunChooser(o, s)
        BY <1>4 DEF StartOn
    <2> HIDE DEF s
    <2>3. /\ phase'[o] # "idle" /\ request'[o] \in {"exported", "doomed"}
          /\ \A q \in Starts : q # o => phase'[q] = phase[q] /\ request'[q] = request[q]
        <3>1. CASE \E n \in Matching(s) : BeginCaptures(o, s, n)
            BY <1>0, <3>1, BeginMoves DEF InFlight
        <3>2. CASE RunChooser(o, s)
            <4>1. CASE Finish(o, s, "cancelled", streams[s])
                BY <1>0, <4>1, FinishMoves
            <4>2. CASE ~Finish(o, s, "cancelled", streams[s])
                BY <1>0, <3>2, <4>2 DEF RunChooser, TypeOK
            <4> QED BY <4>1, <4>2
        <3> QED BY <2>2, <3>1, <3>2
    <2> QED BY <1>0, <2>1, <2>3, CallStep
<1>5. ASSUME NEW o \in Starts, ChooserExits(o) PROVE [Call!Next]_(Call!vars)
    BY <1>1, <1>2, <1>5 DEF ChooserExits, InFlight
<1>6. ASSUME NEW o \in Starts, RequestClose(o) \/ CaptureTimeout(o) PROVE [Call!Next]_(Call!vars)
    BY <1>1, <1>6, ArmedInFlight DEF RequestClose, CaptureTimeout, InFlight
<1>7. ASSUME NEW o \in Starts, RequestRemoved(o) PROVE [Call!Next]_(Call!vars)
    <2>1. /\ UNCHANGED phase /\ request[o] = "doomed" /\ request'[o] = "removed"
          /\ \A q \in Starts : q # o => request'[q] = request[q]
        BY <1>0, <1>7 DEF RequestRemoved, TypeOK
    <2> QED BY <1>0, <2>1, CallStep
<1>8. ASSUME NEW o \in Starts, NEW i \in Indices, ConstraintsReady(o, i) PROVE [Call!Next]_(Call!vars)
    <2>1. InFlight(o)
        BY <1>8 DEF ConstraintsReady, InFlight
    <2>2. CASE UNCHANGED <<phase, request>>
        BY <2>2 DEF Call!vars, callStatus, callObject
    <2>3. CASE CompleteCaptures(o)
        BY <1>1, <2>1, <2>3 DEF CompleteCaptures
    <2> QED BY <1>8, <2>2, <2>3 DEF ConstraintsReady
<1>9. CASE UNCHANGED <<phase, request>>
    BY <1>9 DEF Call!vars, callStatus, callObject
<1> QED
    BY <1>3, <1>4, <1>5, <1>6, <1>7, <1>8, <1>9
    DEF Next, CreateSession, SelectSources, SelectBadCursorMode, EraseSession, SessionClose, StreamStops,
        ChooserReaped, CaptureLost, startVars, vars

\* Every Start is a portal call, however it ends and whatever the frontend calls
\* meanwhile.  (The safety part of StartIsPortalRequest.)
THEOREM ScreenCastIsPortalRequest == Spec => Call!Init /\ [][Call!Next]_(Call!vars)
<1>1. Init => Call!Init
    BY DEF Init, Call!Init, callStatus, callObject
<1> QED BY <1>1, CallSteps, SpecIInv, PTL DEF Spec
=============================================================================
