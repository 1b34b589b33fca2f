------------------------------ MODULE Previews ------------------------------
(***************************************************************************)
(* Previews: the thumbnails of the share picker.  A worker thread takes    *)
(* one card at a time from a queue shared with the user interface, opens a *)
(* Wayland connection of its own, captures the card within a deadline,     *)
(* drains the connection, and posts the result.  The user scrolls, takes   *)
(* results and answers meanwhile; the picker ends by joining the worker.   *)
(***************************************************************************)
EXTENDS Naturals, FiniteSets, SequencesExt

CONSTANT Cards      \* the indices of the cards

ASSUME PreviewsAssumption == Cards \subseteq Nat /\ IsFiniteSet(Cards)

VARIABLES
    \* shared, under the mutex
    pending,     \* indices to capture, in order
    started,     \* indices the worker ever took
    results,     \* results not taken yet
    \* the worker
    phase,       \* where it is in run()
    index,       \* the card it works on, a set of at most one
    texture,     \* it holds a thumbnail
    link,        \* its WaylandContext: "none", "up", or "dead" (set but not connected)
    late,        \* the deadline of the capture has passed
    stopAsked,   \* its stop token
    \* the user interface
    visible,     \* the cards in view
    shown,       \* what each card shows
    idle,        \* onPreviewResults callbacks queued with g_idle_add
    main         \* "running", "quitting" (g_application_quit), "done"

shared == <<pending, started, results>>
worker == <<phase, index, texture, link, late, stopAsked>>
ui == <<visible, shown, idle, main>>
vars == <<shared, worker, ui>>

Results == [card: Cards, image: BOOLEAN]

\* The captures in flight and the results are bounded by the cards, so is idle.
TypeOK ==
    /\ pending \in SeqOf(Cards, Cardinality(Cards)) /\ IsInjective(pending)
    /\ started \subseteq Cards /\ ToSet(pending) \cap started = {}
    /\ ToSet(results) \subseteq Results
    /\ phase \in {"taking", "asleep", "connecting", "capturing", "draining",
                  "publishing", "notifying", "exited"}
    /\ index \subseteq started /\ Cardinality(index) <= 1
    /\ {texture, late, stopAsked} \subseteq BOOLEAN
    /\ link \in {"none", "up", "dead"}
    /\ visible \subseteq Cards
    /\ shown \in [Cards -> {"loading", "image", "unavailable"}]
    /\ idle \in 0..Cardinality(Cards)
    /\ main \in {"running", "quitting", "done"}

Init ==
    /\ pending = <<>> /\ started = {} /\ results = <<>>
    /\ phase = "taking" /\ index = {} /\ texture = FALSE /\ link = "none"
    /\ late = FALSE /\ stopAsked = FALSE
    /\ visible = {} /\ shown = [c \in Cards |-> "loading"] /\ idle = 0 /\ main = "running"

-----------------------------------------------------------------------------
\* The user interface.

InOrder(S) == CHOOSE s \in [1..Cardinality(S) -> S] : \A i, j \in DOMAIN s : i < j => s[i] < s[j]

\* request(): what is in view and was never taken replaces the queue; a
\* sleeping worker is woken.
Request(inView) ==
    LET wanted == inView \ started IN
    /\ pending' = InOrder(wanted)
    /\ phase' = IF wanted # {} /\ phase = "asleep" THEN "taking" ELSE phase

\* A scroll, a resize or a change of tab: other cards are in view.
View ==
    /\ main = "running"
    /\ \E inView \in SUBSET Cards :
        /\ visible' = inView
        /\ Request(inView)
    /\ UNCHANGED <<started, results, index, texture, link, late, stopAsked, shown, idle, main>>

\* onPreviewResults: every queued result goes to its card, and the worker is
\* given what is in view now.
OnPreviewResults ==
    /\ idle > 0 /\ main # "done"
    /\ idle' = idle - 1
    /\ results' = <<>>
    /\ shown' = [c \in Cards |->
                   IF \E r \in ToSet(results) : r.card = c
                   THEN IF [card |-> c, image |-> TRUE] \in ToSet(results)
                        THEN "image" ELSE "unavailable"
                   ELSE shown[c]]
    /\ Request(visible)
    /\ UNCHANGED <<started, index, texture, link, late, stopAsked, visible, main>>

\* Mutant: a flag instead of the stop token, which wakes nobody.
StopUnnoticed ==
    /\ stopAsked' = TRUE
    /\ UNCHANGED phase

\* quitAfterResponse: the stop token is set, which wakes a sleeping worker,
\* the window goes, and the application leaves its main loop.
StopWorker ==
    /\ stopAsked' = TRUE
    /\ phase' = IF phase = "asleep" THEN "taking" ELSE phase

Respond ==
    /\ main = "running"
    /\ main' = "quitting"
    /\ visible' = {}
    /\ StopWorker
    /\ UNCHANGED <<shared, index, texture, link, late, shown, idle>>

\* previews.reset() at the end of main(): join, then free what nobody took.
Destroy ==
    /\ main = "quitting" /\ phase = "exited"
    /\ main' = "done"
    /\ results' = <<>> /\ pending' = <<>>
    /\ UNCHANGED <<started, worker, visible, shown, idle>>

-----------------------------------------------------------------------------
\* The worker.

\* Mutant: the worker does not mark the card it takes.
TakeUnmarked ==
    /\ phase = "taking"
    /\ \/ /\ stopAsked
          /\ phase' = "exited"
          /\ UNCHANGED <<pending, index, late>>
       \/ /\ pending = <<>> /\ ~stopAsked
          /\ phase' = "asleep"
          /\ UNCHANGED <<pending, index, late>>
       \/ /\ pending # <<>>
          /\ index' = {Head(pending)}
          /\ pending' = Tail(pending)
          /\ late' = FALSE
          /\ phase' = "connecting"
    /\ UNCHANGED <<started, results, texture, link, stopAsked, ui>>

\* The head of the loop, under the mutex.  A stop seen after the test of the
\* loop still takes a card when one is queued.
Take ==
    /\ phase = "taking"
    /\ \/ /\ stopAsked
          /\ phase' = "exited"
          /\ UNCHANGED <<pending, started, index, late>>
       \/ /\ pending = <<>> /\ ~stopAsked
          /\ phase' = "asleep"
          /\ UNCHANGED <<pending, started, index, late>>
       \/ /\ pending # <<>>
          /\ index' = {Head(pending)}
          /\ started' = started \cup {Head(pending)}
          /\ pending' = Tail(pending)
          /\ late' = FALSE
          /\ phase' = "connecting"
    /\ UNCHANGED <<results, texture, link, stopAsked, ui>>

\* The connection is made for the first card and after one that was given up.
\* One that cannot be made stays set and dead; a constructor that throws leaves
\* none.
Connect ==
    /\ phase = "connecting"
    /\ link' \in (IF link = "none" THEN {"none", "up", "dead"} ELSE {link})
    /\ phase' = IF link' = "up" /\ ~stopAsked THEN "capturing" ELSE "publishing"
    /\ UNCHANGED <<shared, index, texture, late, stopAsked, ui>>

\* captureSource: the compositor answers with a frame; or it refuses, stops the
\* session, announces other constraints or goes away.
FrameReady ==
    /\ phase = "capturing"
    /\ texture' = TRUE
    /\ phase' = "draining"
    /\ UNCHANGED <<shared, index, link, late, stopAsked, ui>>

CaptureFails ==
    /\ phase = "capturing"
    /\ link' \in {"up", "dead"}
    /\ phase' = "draining"
    /\ UNCHANGED <<shared, index, texture, late, stopAsked, ui>>

\* 1500 ms have passed since the capture began.
DeadlinePasses ==
    /\ phase = "capturing" /\ ~late
    /\ late' = TRUE
    /\ UNCHANGED <<shared, phase, index, texture, link, stopAsked, ui>>

\* Mutant: a tick that only looks at the stop token.
TickWithoutDeadline ==
    /\ phase = "capturing"
    /\ stopAsked
    /\ phase' = "draining"
    /\ UNCHANGED <<shared, index, texture, link, late, stopAsked, ui>>

\* The tick, every 50 ms.
Tick ==
    /\ phase = "capturing"
    /\ stopAsked \/ late
    /\ phase' = "draining"
    /\ UNCHANGED <<shared, index, texture, link, late, stopAsked, ui>>

\* finishCaptureCleanup: the compositor acknowledges within 250 ms, or the
\* connection is given up.
Drain ==
    /\ phase = "draining"
    /\ link' \in (IF link = "up" THEN {"up", "none"} ELSE {"none"})
    /\ phase' = "publishing"
    /\ UNCHANGED <<shared, index, texture, late, stopAsked, ui>>

\* Mutant: only images are announced.
PublishQuietly ==
    /\ phase = "publishing"
    /\ results' = results \o [i \in 1..Cardinality(index) |->
                                [card |-> CHOOSE c \in index : TRUE, image |-> texture]]
    /\ index' = {} /\ texture' = FALSE
    /\ phase' = IF texture THEN "notifying" ELSE "taking"
    /\ UNCHANGED <<pending, started, link, late, stopAsked, ui>>

Publish ==
    /\ phase = "publishing"
    /\ results' = results \o [i \in 1..Cardinality(index) |->
                                [card |-> CHOOSE c \in index : TRUE, image |-> texture]]
    /\ index' = {} /\ texture' = FALSE
    /\ phase' = "notifying"
    /\ UNCHANGED <<pending, started, link, late, stopAsked, ui>>

\* onResultsReady, outside of the mutex: g_idle_add(onPreviewResults).
Notify ==
    /\ phase = "notifying"
    /\ idle' = idle + 1
    /\ phase' = "taking"
    /\ UNCHANGED <<shared, index, texture, link, late, stopAsked, visible, shown, main>>

-----------------------------------------------------------------------------
WorkerStep == Take \/ Connect \/ Tick \/ Drain \/ Publish \/ Notify

Next == View \/ OnPreviewResults \/ Respond \/ Destroy \/ WorkerStep
        \/ FrameReady \/ CaptureFails \/ DeadlinePasses

Spec == Init /\ [][Next]_vars

\* The thread runs (Connect assumes a compositor that answers the two round
\* trips of the constructor, which have no deadline), time passes, idle
\* callbacks run, and main() reaches its end.  Nothing is assumed of the user,
\* nor of the compositor once it is connected.
FairSpec ==
    /\ Spec
    /\ WF_vars(WorkerStep) /\ WF_vars(DeadlinePasses)
    /\ WF_vars(OnPreviewResults) /\ WF_vars(Destroy)

-----------------------------------------------------------------------------
\* Well typed; and every card the worker took is in exactly one place: being captured, among
\* the results, or shown.  No result is lost between the threads, none is
\* applied twice, no card is captured twice.
OnePlaceEach ==
    /\ TypeOK
    /\ main # "done" =>
        \A c \in Cards :
            Cardinality(index \cap {c})
              + Cardinality({i \in DOMAIN results : results[i].card = c})
              + (IF shown[c] = "loading" THEN 0 ELSE 1)
            = IF c \in started THEN 1 ELSE 0

\* Results wait only while a callback that takes them is queued, or is about
\* to be: the user interface never has to poll.
ResultsAreAnnounced ==
    results # <<>> => idle > 0 \/ phase = "notifying"

\* A card that stays in view eventually shows an image or says that there is
\* none, whatever else is scrolled by and whatever the compositor does once connected.
VisibleGetsPreview ==
    \A c \in Cards :
        <>[](main = "running" /\ c \in visible) => <>(shown[c] # "loading")

\* Once the user has answered, the picker ends, even in the middle of a capture
\* the compositor never answers.
PickerEnds == main = "quitting" ~> main = "done"
=============================================================================
