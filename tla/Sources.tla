------------------------------- MODULE Sources -------------------------------
(***************************************************************************)
(* What can be shared, and how a Start chooses from it: the outputs and    *)
(* windows the compositor has, the events that tell of them one property   *)
(* at a time, the lists WaylandContext keeps, and the selections a Start   *)
(* takes from restore data, from the chooser or from the first output.     *)
(* An output is its wl_registry name, a number never used again; windows   *)
(* are their foreign-toplevel identifiers, not used again either.          *)
(***************************************************************************)
EXTENDS Naturals, Sequences, SequencesExt, FiniteSets

CONSTANTS
    Connectors,     \* names of outputs, which a monitor keeps when it is plugged in again
    Modes,          \* what else the portals know of an output: size and position
    Windows,        \* identifiers of windows
    Infos,          \* a window's title and application id
    AppOf,          \* the application id among them
    None,           \* a property not received, an object not there
    MaxGlobals,     \* bound: outputs ever announced
    MaxChanges,     \* bound: changes the compositor makes
    MaxStarts       \* bound: sessions

Globals == 1..MaxGlobals
Names == Connectors \cup Globals          \* "output-<n>" is the number itself
Apps == {AppOf[i] : i \in Infos}

\* A window's info as received so far: title and application id come one by one.
Known == [title : Infos \cup {None}, appId : Infos \cup {None}, identifier : BOOLEAN]
Unknown == [title |-> None, appId |-> None, identifier |-> FALSE]

OutputState == [name : Names \cup {None}, mode : Modes \cup {None}]
ToplevelState == [pending : Known, info : Known]

\* Kinds of values do not overlap; None and "closed" are none of them.
ASSUME SourcesAssumption ==
    /\ MaxGlobals \in Nat /\ MaxChanges \in Nat /\ MaxStarts \in Nat
    /\ None \notin Names \cup Modes \cup Windows \cup Infos \cup OutputState \cup ToplevelState
    /\ "closed" \notin Infos \cup {None}
    /\ Windows \cap Names = {}
    /\ DOMAIN AppOf = Infos

VARIABLES
    connector,      \* compositor: the connector of each output announced, else None
    plugged,        \* compositor: the outputs that are there
    mode,           \* compositor: the mode of each connector
    window,         \* compositor: window -> its info, None before it opens, "closed" after
    bound,          \* outputs the portal has bound and the compositor has not described yet
    wire,           \* events on their way, oldest first
    changes,        \* history: changes so far
    outputStates,   \* Impl::outputStates: registry name -> what is known, or None
    outputs,        \* Impl::outputs
    toplevelStates, \* Impl::toplevelStates: window -> pending and committed info, or None
    toplevels,      \* Impl::toplevels
    phase,          \* of the session: "none", "selected", "chooser", "capturing"
    multiple,       \* Session::Impl::allowMultiple
    stored,         \* the session's restoreSelections
    offered,        \* the sources in the JSON the chooser was given
    captured,       \* the selections of the Start and the object each capture is made from
    token,          \* the restore data last handed out
    starts,         \* history: sessions so far
    granted         \* history: names, windows and applications chosen so far

compositorVars == <<connector, plugged, mode, window, changes>>
registryVars == <<outputStates, outputs, toplevelStates, toplevels>>
sessionVars == <<phase, multiple, stored, offered, captured, token, starts, granted>>
vars == <<compositorVars, bound, wire, registryVars, sessionVars>>

Open(w) == window[w] \in Infos

Event ==
    ({"global", "outputDone", "remove"} \X Globals)
        \cup ({"mode"} \X Globals \X Modes) \cup ({"name"} \X Globals \X Connectors)
        \cup ({"toplevel", "identifier", "done", "closed"} \X Windows)
        \cup ({"title", "appId"} \X Windows \X Infos)

\* A selection names its source as the lists do; a window's carries its application id.
Selection == [kind : {"monitor"}, key : Names] \cup [kind : {"window"}, key : Windows, app : Apps]
\* An entry of restore data: a window is stored by its application id.
Entry == ({"monitor"} \X Names) \cup ({"window"} \X Apps)

TypeOK ==
    /\ connector \in [Globals -> Connectors \cup {None}] /\ plugged \subseteq Globals
    /\ mode \in [Connectors -> Modes]
    /\ window \in [Windows -> Infos \cup {None, "closed"}]
    /\ bound \subseteq Globals /\ changes \in 0..MaxChanges
    /\ wire \in Seq(Event)
    /\ outputStates \in [Globals -> OutputState \cup {None}]
    /\ outputs \subseteq [name : Names, mode : Modes \cup {None}]
    /\ toplevelStates \in [Windows -> ToplevelState \cup {None}]
    /\ toplevels \subseteq [identifier : Windows, title : Infos \cup {None}, appId : Infos \cup {None}]
    /\ phase \in {"none", "selected", "chooser", "capturing"} /\ multiple \in BOOLEAN
    /\ stored \in Seq(Entry) /\ token \in Seq(Entry)
    /\ offered \subseteq Names \cup Windows
    /\ captured \in Seq([selection : Selection, object : Globals \cup Windows])
    /\ starts \in 0..MaxStarts
    /\ granted \subseteq Names \cup Windows \cup Apps

-----------------------------------------------------------------------------
(* The lists. *)

\* rebuildOutputs: every output, by a made-up name if its own has not come.
ListedOutputs(states) ==
    {[name |-> IF states[g].name = None THEN g ELSE states[g].name, mode |-> states[g].mode] :
        g \in {h \in Globals : states[h] # None}}

\* rebuildToplevels: every window with a committed info that has an identifier.
ListedToplevels(states) ==
    {[identifier |-> w, title |-> states[w].info.title, appId |-> states[w].info.appId] :
        w \in {v \in Windows : states[v] # None /\ states[v].info.identifier}}

\* The constructor's two round trips have listed the sources there are.
Init ==
    /\ plugged \in {1..n : n \in 0..MaxGlobals}
    /\ \E put \in [plugged -> Connectors] :
          /\ IsInjective(put)
          /\ connector = [g \in Globals |-> IF g \in plugged THEN put[g] ELSE None]
    /\ mode \in [Connectors -> Modes]
    /\ window \in [Windows -> Infos \cup {None}]
    /\ bound = {} /\ wire = <<>> /\ changes = 0
    /\ outputStates = [g \in Globals |->
          IF g \in plugged THEN [name |-> connector[g], mode |-> mode[connector[g]]] ELSE None]
    /\ toplevelStates = [w \in Windows |->
          IF Open(w)
          THEN LET i == [title |-> window[w], appId |-> window[w], identifier |-> TRUE]
               IN [pending |-> i, info |-> i]
          ELSE None]
    /\ outputs = ListedOutputs(outputStates)
    /\ toplevels = ListedToplevels(toplevelStates)
    /\ phase = "none" /\ multiple = FALSE /\ starts = 0
    /\ stored = <<>> /\ offered = {} /\ captured = <<>> /\ token = <<>> /\ granted = {}

-----------------------------------------------------------------------------
(* The compositor. *)

Announce(events) == wire' = wire \o events

Change ==
    /\ changes < MaxChanges
    /\ changes' = changes + 1
    /\ UNCHANGED <<registryVars, sessionVars>>

Occupied(c) == \E g \in plugged : connector[g] = c

Plug(c) ==
    /\ Change /\ ~Occupied(c)
    /\ \E g \in Globals :
          /\ connector[g] = None /\ \A h \in 1..(g - 1) : connector[h] # None
          /\ plugged' = plugged \cup {g}
          /\ connector' = [connector EXCEPT ![g] = c]
          /\ Announce(<<<<"global", g>>>>)
    /\ UNCHANGED <<mode, window, bound>>

Unplug(g) ==
    /\ Change /\ g \in plugged
    /\ plugged' = plugged \ {g}
    /\ Announce(<<<<"remove", g>>>>)
    /\ UNCHANGED <<connector, mode, window, bound>>

\* A new mode is told to those who have bound the output.
ChangeMode(g, m) ==
    /\ Change /\ g \in plugged /\ mode[connector[g]] # m
    /\ mode' = [mode EXCEPT ![connector[g]] = m]
    /\ IF g \in bound \/ Contains(wire, <<"global", g>>)
       THEN UNCHANGED wire
       ELSE Announce(<<<<"mode", g, m>>, <<"outputDone", g>>>>)
    /\ UNCHANGED <<connector, plugged, window, bound>>

\* The answer to a bind; one for an output that has gone has none.
Describe(g) ==
    /\ g \in bound
    /\ bound' = bound \ {g}
    /\ IF g \in plugged
       THEN Announce(<<<<"mode", g, mode[connector[g]]>>, <<"name", g, connector[g]>>, <<"outputDone", g>>>>)
       ELSE UNCHANGED wire
    /\ UNCHANGED <<compositorVars, registryVars, sessionVars>>

OpenWindow(w, i) ==
    /\ Change /\ window[w] = None
    /\ window' = [window EXCEPT ![w] = i]
    /\ Announce(<<<<"toplevel", w>>, <<"title", w, i>>, <<"appId", w, i>>, <<"identifier", w>>, <<"done", w>>>>)
    /\ UNCHANGED <<connector, plugged, mode, bound>>

Rename(w, i) ==
    /\ Change /\ Open(w) /\ window[w] # i
    /\ window' = [window EXCEPT ![w] = i]
    /\ Announce(<<<<"title", w, i>>, <<"appId", w, i>>, <<"done", w>>>>)
    /\ UNCHANGED <<connector, plugged, mode, bound>>

CloseWindow(w) ==
    /\ Change /\ Open(w)
    /\ window' = [window EXCEPT ![w] = "closed"]
    /\ Announce(<<<<"closed", w>>>>)
    /\ UNCHANGED <<connector, plugged, mode, bound>>

-----------------------------------------------------------------------------
(* The listeners: each event is handled alone, and any two may come in        *)
(* different reads with portal calls in between.                              *)

Dispatch(event) ==
    /\ wire # <<>> /\ Head(wire) = event
    /\ wire' = Tail(wire)
    /\ UNCHANGED <<compositorVars, sessionVars>>

OnRegistryGlobal(g) ==
    /\ Dispatch(<<"global", g>>)
    /\ outputStates' = [outputStates EXCEPT ![g] = [name |-> None, mode |-> None]]
    /\ bound' = bound \cup {g}
    /\ UNCHANGED <<outputs, toplevelStates, toplevels>>

\* Mutant: the lists keep an output that was removed.
RemoveUnlisted(g) ==
    /\ Dispatch(<<"remove", g>>)
    /\ outputStates' = [outputStates EXCEPT ![g] = None]
    /\ UNCHANGED <<outputs, bound, toplevelStates, toplevels>>

OnRegistryRemove(g) ==
    /\ Dispatch(<<"remove", g>>)
    /\ outputStates' = [outputStates EXCEPT ![g] = None]
    /\ outputs' = ListedOutputs(outputStates')
    /\ UNCHANGED <<bound, toplevelStates, toplevels>>

\* geometry, mode and description: kept at once, listed by the next rebuild.
OnOutputMode(g, m) ==
    /\ Dispatch(<<"mode", g, m>>)
    /\ outputStates' = IF outputStates[g] = None THEN outputStates
                       ELSE [outputStates EXCEPT ![g].mode = m]
    /\ UNCHANGED <<outputs, bound, toplevelStates, toplevels>>

OnOutputName(g, c) ==
    /\ Dispatch(<<"name", g, c>>)
    /\ outputStates' = IF outputStates[g] = None THEN outputStates
                       ELSE [outputStates EXCEPT ![g].name = c]
    /\ UNCHANGED <<outputs, bound, toplevelStates, toplevels>>

\* An output still without a name gets the made-up one for good.
OnOutputDone(g) ==
    /\ Dispatch(<<"outputDone", g>>)
    /\ IF outputStates[g] = None THEN UNCHANGED <<outputStates, outputs>>
       ELSE /\ outputStates' = [outputStates EXCEPT ![g].name = IF @ = None THEN g ELSE @]
            /\ outputs' = ListedOutputs(outputStates')
    /\ UNCHANGED <<bound, toplevelStates, toplevels>>

OnToplevel(w) ==
    /\ Dispatch(<<"toplevel", w>>)
    /\ toplevelStates' = [toplevelStates EXCEPT ![w] = [pending |-> Unknown, info |-> Unknown]]
    /\ UNCHANGED <<bound, outputStates, outputs, toplevels>>

\* Mutant: properties of a window are used before the event that completes them.
ReceivedAtOnce(w, event, known) ==
    /\ Dispatch(event)
    /\ toplevelStates' = IF toplevelStates[w] = None THEN toplevelStates
                         ELSE [toplevelStates EXCEPT ![w] = [pending |-> known, info |-> known]]
    /\ toplevels' = ListedToplevels(toplevelStates')
    /\ UNCHANGED <<bound, outputStates, outputs>>

\* title, app_id and identifier go to the pending info.
Received(w, event, known) ==
    /\ Dispatch(event)
    /\ toplevelStates' = IF toplevelStates[w] = None THEN toplevelStates
                         ELSE [toplevelStates EXCEPT ![w].pending = known]
    /\ UNCHANGED <<bound, outputStates, outputs, toplevels>>

Pending(w) == IF toplevelStates[w] = None THEN Unknown ELSE toplevelStates[w].pending
OnToplevelTitle(w, i) == Received(w, <<"title", w, i>>, [Pending(w) EXCEPT !.title = i])
OnToplevelAppId(w, i) == Received(w, <<"appId", w, i>>, [Pending(w) EXCEPT !.appId = i])
OnToplevelIdentifier(w) == Received(w, <<"identifier", w>>, [Pending(w) EXCEPT !.identifier = TRUE])

OnToplevelDone(w) ==
    /\ Dispatch(<<"done", w>>)
    /\ IF toplevelStates[w] = None THEN UNCHANGED <<toplevelStates, toplevels>>
       ELSE /\ toplevelStates' = [toplevelStates EXCEPT ![w].info = toplevelStates[w].pending]
            /\ toplevels' = ListedToplevels(toplevelStates')
    /\ UNCHANGED <<bound, outputStates, outputs>>

OnToplevelClosed(w) ==
    /\ Dispatch(<<"closed", w>>)
    /\ toplevelStates' = [toplevelStates EXCEPT ![w] = None]
    /\ toplevels' = IF toplevelStates[w] = None THEN toplevels ELSE ListedToplevels(toplevelStates')
    /\ UNCHANGED <<bound, outputStates, outputs>>

-----------------------------------------------------------------------------
(* Sessions, one after the other, each with one Start. *)

sourceVars == <<compositorVars, bound, wire, registryVars>>

\* A new session, with the restore data of an earlier Start or none; anything that
\* parseRestoreData does not take is none.
SelectSources(m, data) ==
    /\ phase = "none" /\ starts < MaxStarts
    /\ phase' = "selected" /\ starts' = starts + 1
    /\ multiple' = m /\ stored' = data
    /\ UNCHANGED <<offered, captured, token, granted, sourceVars>>

\* Answered: the options go with the session.
Finish ==
    /\ phase' = "none" /\ multiple' = FALSE /\ stored' = <<>>
    /\ offered' = {} /\ captured' = <<>>
    /\ UNCHANGED starts

Taken(sources) == IF multiple \/ sources = <<>> THEN sources ELSE <<Head(sources)>>
Monitor(n) == [kind |-> "monitor", key |-> n]
\* selectionForToplevel: window w as it is listed now.
WindowNow(w) ==
    LET t == CHOOSE t \in toplevels : t.identifier = w
    IN [kind |-> "window", key |-> w, app |-> AppOf[t.appId]]

ListedNames == {o.name : o \in outputs}
ListedWindows == {t.identifier : t \in toplevels}
WindowsOf(a) == {t.identifier : t \in {u \in toplevels : AppOf[u.appId] = a}}

\* Mutant: an application with no window is replaced by any other.
FindAnyToplevel(a) == IF WindowsOf(a) # {} THEN WindowsOf(a) ELSE ListedWindows

\* The windows findToplevelByAppId may find: which is first depends on titles.
FindToplevelByAppId(a) == WindowsOf(a)

\* Is a stored source there?
Restorable(entry) ==
    IF entry[1] = "monitor" THEN entry[2] \in ListedNames ELSE FindToplevelByAppId(entry[2]) # {}

\* The elements of s at the positions I, in their order.
Kept(s, I) ==
    LET at == CHOOSE f \in [1..Cardinality(I) -> I] : \A i, j \in DOMAIN f : i < j => f[i] < f[j]
    IN [i \in DOMAIN at |-> s[at[i]]]

\* matchRestoreSelections: the stored sources that are there, the others are left out.
MatchRestoreSelections(first) ==
    LET match(entry) == IF entry[1] = "monitor" THEN Monitor(entry[2]) ELSE WindowNow(first[entry[2]])
        there == Kept(stored, {i \in DOMAIN stored : Restorable(stored[i])})
    IN Taken([i \in DOMAIN there |-> match(there[i])])

\* parseChooserSelections: the chosen sources that are still there.
ParseChooserSelections(choice) ==
    LET there == Kept(choice, {i \in DOMAIN choice : choice[i] \in ListedNames \cup ListedWindows})
    IN Taken([i \in DOMAIN there |-> IF there[i] \in Windows THEN WindowNow(there[i]) ELSE Monitor(there[i])])

\* Impl::findOutput and Impl::findToplevel: the objects a selection names.
Find(s) ==
    IF s.kind = "window"
    THEN {w \in {s.key} : toplevelStates[w] # None /\ toplevelStates[w].info.identifier}
    ELSE {g \in Globals : /\ outputStates[g] # None
                          /\ s.key = IF outputStates[g].name = None THEN g ELSE outputStates[g].name}

\* startCaptures: a selection whose object is not found fails the Start.
StartCaptures(sel) ==
    IF \A i \in DOMAIN sel : Find(sel[i]) # {}
    THEN /\ phase' = "capturing"
         /\ captured' \in {[i \in DOMAIN sel |-> [selection |-> sel[i], object |-> f[i]]] :
                              f \in {f \in [DOMAIN sel -> Globals \cup Windows] : \A i \in DOMAIN sel : f[i] \in Find(sel[i])}}
         /\ offered' = {} /\ UNCHANGED <<multiple, stored, starts>>
    ELSE Finish

\* A Start whose stored sources are there asks nobody.
StartRestored ==
    /\ phase = "selected"
    /\ \E first \in [Apps -> Windows] :
          /\ \A a \in Apps : FindToplevelByAppId(a) # {} => first[a] \in FindToplevelByAppId(a)
          /\ MatchRestoreSelections(first) # <<>>
          /\ StartCaptures(MatchRestoreSelections(first))
    /\ UNCHANGED <<token, granted, sourceVars>>

\* buildChooserJson: the sources as they are listed now.  A session that asks for
\* one type only is one whose user chooses only that.
StartChooser ==
    /\ phase = "selected"
    /\ \A i \in DOMAIN stored : ~Restorable(stored[i])
    /\ phase' = "chooser"
    /\ offered' = ListedNames \cup ListedWindows
    /\ UNCHANGED <<multiple, stored, starts, captured, token, granted, sourceVars>>

\* The user chooses some of what was offered.
ChooserAnswers(choice) ==
    LET sel == ParseChooserSelections(choice) IN
    /\ phase = "chooser"
    /\ granted' = granted \cup ToSet(choice) \cup {sel[i].app : i \in {j \in DOMAIN sel : sel[j].kind = "window"}}
    /\ IF sel = <<>> THEN Finish ELSE StartCaptures(sel)
    /\ UNCHANGED <<token, sourceVars>>

\* The chooser's command is unknown: the first output is taken, by the name it is listed.
FallbackFirstOutput ==
    /\ phase = "chooser"
    /\ IF outputs = {} THEN Finish /\ UNCHANGED granted
       ELSE \E n \in ListedNames : /\ granted' = granted \cup {n}
                                   /\ StartCaptures(<<Monitor(n)>>)
    /\ UNCHANGED <<token, sourceVars>>

\* The chooser cannot be run or fails, the captures fail, or the Start is cancelled.
GiveUp ==
    /\ phase # "none" /\ Finish
    /\ UNCHANGED <<token, granted, sourceVars>>

\* restoreDataVariant: a window is stored by its application.
RestoreData ==
    [i \in DOMAIN captured |->
        LET s == captured[i].selection IN <<s.kind, IF s.kind = "window" THEN s.app ELSE s.key>>]

\* The Start succeeds; a session that persists gets restore data.
Succeed(persist) ==
    /\ phase = "capturing" /\ Finish
    /\ token' = IF persist THEN RestoreData ELSE token
    /\ UNCHANGED <<granted, sourceVars>>

Next ==
    \/ \E c \in Connectors : Plug(c)
    \/ \E g \in Globals : \/ Unplug(g) \/ Describe(g) \/ OnRegistryGlobal(g) \/ OnRegistryRemove(g) \/ OnOutputDone(g)
                          \/ \E m \in Modes : ChangeMode(g, m) \/ OnOutputMode(g, m)
                          \/ \E c \in Connectors : OnOutputName(g, c)
    \/ \E w \in Windows : \/ CloseWindow(w) \/ OnToplevel(w) \/ OnToplevelIdentifier(w) \/ OnToplevelDone(w)
                          \/ OnToplevelClosed(w)
                          \/ \E i \in Infos : \/ OpenWindow(w, i) \/ Rename(w, i) \/ OnToplevelTitle(w, i)
                                              \/ OnToplevelAppId(w, i)
    \/ \E m \in BOOLEAN, data \in {<<>>, token} : SelectSources(m, data)
    \/ StartRestored \/ StartChooser \/ GiveUp \/ FallbackFirstOutput
    \/ \E choice \in SeqOf(offered, 2) : ChooserAnswers(choice)
    \/ \E persist \in BOOLEAN : Succeed(persist)

Spec == Init /\ [][Next]_vars

-----------------------------------------------------------------------------
(* Properties. *)

\* Well typed; and with no event on its way, the lists are what the compositor has: each output
\* under its name and mode, each window with its info, and no other, whatever
\* came and went (rebuildOutputs, rebuildToplevels in the right handlers).
ListsAgree ==
    /\ TypeOK
    /\ wire = <<>> /\ bound = {} =>
        /\ outputs = {[name |-> connector[g], mode |-> mode[connector[g]]] : g \in plugged}
        /\ toplevels = {[identifier |-> w, title |-> window[w], appId |-> window[w]] : w \in {v \in Windows : Open(v)}}

\* A window is never shown to the user with the title of one moment and the
\* application of another (onToplevelDone commits the pending info as a whole).
WindowsAreWhole == \A t \in toplevels : t.title = t.appId /\ t.title # None

\* A Start captures only what the user chose in a chooser at some time, or the
\* fallback did: the same monitor, or a window of the same application
\* (matchRestoreSelections, parseChooserSelections, findOutput, restoreDataVariant).
SharesOnlyGranted ==
    \A i \in DOMAIN captured :
        LET x == captured[i].object
        IN \/ x \in granted
           \/ x \in Globals /\ connector[x] \in granted
           \/ x \in Windows /\ captured[i].selection.app \in granted
=============================================================================
