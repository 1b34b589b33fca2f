---------------------------- MODULE ConfigWatcher ----------------------------
(***************************************************************************)
(* Hot reload of the configuration: ConfigWatcher's inotify watches on the *)
(* file, on its directory, or, while that is missing, on an ancestor; the  *)
(* debounced reload; and the copy of the configuration the portals use.    *)
(* The event loop is one actor.  The file system is the other: it changes  *)
(* between any two system calls of the code.                               *)
(***************************************************************************)
EXTENDS Naturals, FiniteSetsExt

CONSTANTS
    Configs,      \* configurations a file may hold
    Defaults,     \* the one of a missing or unreadable file
    Missing,      \* no file
    Depth,        \* directories below one that always exists, the last the configuration's
    MaxChanges    \* bound: changes of the file system

ASSUME ConfigWatcherAssumption ==
    /\ Defaults \in Configs /\ Missing \notin Configs
    /\ Depth \in Nat \ {0} /\ MaxChanges \in Nat

VARIABLES
    \* the file system
    level,      \* how many of the directories exist
    file,       \* what the file holds, or Missing
    changes,
    astray,     \* what has happened that the watches are not made for (Hardships)
    \* ConfigWatcher::Impl
    pc,         \* what the code does next; "idle" in the event loop
    up,         \* the constructor is done
    changed,    \* handleInotify has to schedule a reload
    timer,      \* timerId: a reload is scheduled
    dirWatch, fileWatch, ancestorWatch,   \* "off", "live", or "dead": its object is gone
    ancestor,   \* the directory of ancestorWatch
    current,    \* what the watcher loaded last
    config,     \* what the portals use
    events      \* unread inotify events of the present watches

fsVars == <<level, file, changes, astray>>
watchVars == <<dirWatch, fileWatch, ancestorWatch, ancestor>>
vars == <<fsVars, pc, up, changed, timer, watchVars, current, config, events>>

\* "raced": a change while main() and the watcher load the file, or of a directory
\* while the watches are set up; "moved": the configuration's directory was renamed
\* away; "deep": its parent was missing.
Hardships == {"raced", "moved", "deep"}

WatchStates == {"off", "live", "dead"}
FileEvents == {"modified", "fileGone"}
DirEvents == {"written", "placed", "removed", "dirGone"}
AncestorEvents == {"appeared", "ancestorGone"}

TypeOK ==
    /\ level \in 0..Depth /\ changes \in 0..MaxChanges /\ astray \subseteq Hardships
    /\ file \in Configs \cup {Missing} /\ (file # Missing => level = Depth)
    /\ pc \in {"main", "load", "dir", "file", "ancestor", "fileOnly", "idle"}
    /\ up \in BOOLEAN /\ changed \in BOOLEAN /\ timer \in BOOLEAN
    /\ {dirWatch, fileWatch, ancestorWatch} \subseteq WatchStates
    /\ ancestor \in 0..(Depth - 1)
    /\ current \in Configs /\ config \in Configs
    /\ events \subseteq FileEvents \cup DirEvents \cup AncestorEvents

\* loadConfig.
Loaded == IF file = Missing THEN Defaults ELSE file

Init ==
    /\ level \in 0..Depth
    /\ file \in IF level = Depth THEN Configs \cup {Missing} ELSE {Missing}
    /\ changes = 0 /\ astray = IF level < Depth - 1 THEN {"deep"} ELSE {}
    /\ pc = "main" /\ up = FALSE /\ changed = FALSE /\ timer = FALSE
    /\ dirWatch = "off" /\ fileWatch = "off" /\ ancestorWatch = "off" /\ ancestor = 0
    /\ current = Defaults /\ config = Defaults
    /\ events = {}

-----------------------------------------------------------------------------
(* The code. *)

\* main loads the configuration it gives the portals ...
MainLoads ==
    /\ pc = "main" /\ pc' = "load"
    /\ config' = Loaded
    /\ UNCHANGED <<fsVars, up, changed, timer, watchVars, current, events>>

\* ... and the watcher loads it again before it sets up its watches.
WatcherLoads ==
    /\ pc = "load" /\ pc' = "dir"
    /\ current' = Loaded
    /\ UNCHANGED <<fsVars, up, changed, timer, watchVars, config, events>>

\* addDirectoryWatch: the old watch goes, with the events it had.
AddDirectoryWatch ==
    /\ pc = "dir" /\ pc' = "file"
    /\ dirWatch' = IF level = Depth THEN "live" ELSE "off"
    /\ events' = events \ DirEvents
    /\ UNCHANGED <<fsVars, up, changed, timer, fileWatch, ancestorWatch, ancestor, current, config>>

\* Mutant: the debounce timer is not armed.
ReturnSilently ==
    /\ pc' = "idle" /\ up' = TRUE
    /\ changed' = FALSE
    /\ UNCHANGED timer

\* Back to the event loop, with a reload 50 ms away if something changed.
Return ==
    /\ pc' = "idle" /\ up' = TRUE
    /\ changed' = FALSE
    /\ timer' = (timer \/ changed)

\* addFileWatch, from establishWatches or by itself.
AddFileWatch ==
    /\ pc \in {"file", "fileOnly"}
    /\ fileWatch' = IF file # Missing THEN "live" ELSE "off"
    /\ events' = events \ FileEvents
    /\ IF pc = "file" THEN pc' = "ancestor" /\ UNCHANGED <<up, changed, timer>> ELSE Return
    /\ UNCHANGED <<fsVars, dirWatch, ancestorWatch, ancestor, current, config>>

\* Mutant: no ancestor is watched when the directory is missing.
WatchDirOnly ==
    /\ pc = "ancestor"
    /\ ancestorWatch' = "off"
    /\ events' = events \ AncestorEvents
    /\ Return
    /\ UNCHANGED <<fsVars, dirWatch, fileWatch, ancestor, current, config>>

\* addAncestorWatch or removeAncestorWatch: the nearest ancestor of the
\* configuration's directory that exists, if that directory is not watched.
AddAncestorWatch ==
    /\ pc = "ancestor"
    /\ IF dirWatch = "off"
       THEN ancestorWatch' = "live" /\ ancestor' = Min({level, Depth - 1})
       ELSE ancestorWatch' = "off" /\ UNCHANGED ancestor
    /\ events' = events \ AncestorEvents
    /\ Return
    /\ UNCHANGED <<fsVars, dirWatch, fileWatch, current, config>>

\* Mutant: the events are read but the watches stay.
HandleWithoutRewatch ==
    /\ pc = "idle" /\ events # {}
    /\ events' = {}
    /\ fileWatch' = IF "fileGone" \in events THEN "off" ELSE fileWatch
    /\ timer' = (timer \/ events # {"ancestorGone"})
    /\ UNCHANGED <<fsVars, pc, up, changed, dirWatch, ancestorWatch, ancestor, current, config>>

\* handleInotify: reads all events; a watch whose object is gone is forgotten, all
\* watches are set up again or the one on the file, and a change is reloaded.
HandleInotify ==
    /\ pc = "idle" /\ events # {}
    /\ events' = {}
    /\ fileWatch' = IF "fileGone" \in events THEN "off" ELSE fileWatch
    /\ dirWatch' = IF "dirGone" \in events THEN "off" ELSE dirWatch
    /\ ancestorWatch' = IF "ancestorGone" \in events THEN "off" ELSE ancestorWatch
    /\ LET noticed == events # {"ancestorGone"}
           rewatch == CASE events \cap {"dirGone", "appeared", "ancestorGone"} # {} -> "dir"
                        [] events \cap {"dirGone", "appeared", "ancestorGone"} = {}
                           /\ events \cap {"fileGone", "placed"} # {} -> "fileOnly"
                        [] OTHER -> "idle"
       IN /\ pc' = rewatch
          /\ changed' = (noticed /\ rewatch # "idle")
          /\ timer' = (timer \/ (noticed /\ rewatch = "idle"))
    /\ UNCHANGED <<fsVars, up, ancestor, current, config>>

\* reload: the portals hear of a configuration that differs from the last one.
Reload ==
    /\ pc = "idle" /\ timer
    /\ timer' = FALSE
    /\ current' = Loaded
    /\ config' = IF Loaded = current THEN config ELSE Loaded
    /\ UNCHANGED <<fsVars, pc, up, changed, watchVars, events>>

-----------------------------------------------------------------------------
(* The file system, and the events inotify makes of it for live watches. *)

Notify(w, e) == IF w = "live" THEN {e} ELSE {}
Kill(w) == IF w = "live" THEN "dead" ELSE w

\* One more change, which goes astray in these ways.
May(ways) ==
    /\ changes < MaxChanges /\ changes' = changes + 1
    /\ astray' = astray \cup ways

MayChange == May(IF up THEN {} ELSE {"raced"})
WhileWatching == IF pc = "idle" THEN {} ELSE {"raced"}
codeVars == <<pc, up, changed, timer, current, config>>

\* The file is created or written.
Write(v) ==
    /\ MayChange /\ level = Depth
    /\ file' = v
    /\ events' = events \cup (IF file = Missing THEN Notify(dirWatch, "placed")
                              ELSE Notify(dirWatch, "written") \cup Notify(fileWatch, "modified"))
    /\ UNCHANGED <<level, watchVars, codeVars>>

\* A file is renamed to its place.
Replace(v) ==
    /\ MayChange /\ level = Depth
    /\ file' = v
    /\ events' = events \cup Notify(dirWatch, "placed") \cup Notify(fileWatch, "fileGone")
    /\ fileWatch' = Kill(fileWatch)
    /\ UNCHANGED <<level, dirWatch, ancestorWatch, ancestor, codeVars>>

Delete ==
    /\ MayChange /\ file # Missing
    /\ file' = Missing
    /\ events' = events \cup Notify(dirWatch, "removed") \cup Notify(fileWatch, "fileGone")
    /\ fileWatch' = Kill(fileWatch)
    /\ UNCHANGED <<level, dirWatch, ancestorWatch, ancestor, codeVars>>

\* The name of the configuration's directory appears in its parent.
Appears == IF level + 1 = Depth /\ ancestor = level THEN Notify(ancestorWatch, "appeared") ELSE {}

MakeDir ==
    /\ May(WhileWatching) /\ level < Depth
    /\ level' = level + 1
    /\ events' = events \cup Appears
    /\ UNCHANGED <<file, watchVars, codeVars>>

RemoveDir ==
    /\ level > 0 /\ file = Missing
    /\ May(WhileWatching \cup IF level < Depth THEN {"deep"} ELSE {})
    /\ level' = level - 1
    /\ LET watched == level < Depth /\ ancestor = level
       IN /\ dirWatch' = IF level = Depth THEN Kill(dirWatch) ELSE dirWatch
          /\ ancestorWatch' = IF watched THEN Kill(ancestorWatch) ELSE ancestorWatch
          /\ events' = events \cup (IF level = Depth THEN Notify(dirWatch, "dirGone") ELSE {})
                              \cup (IF watched THEN Notify(ancestorWatch, "ancestorGone") ELSE {})
    /\ UNCHANGED <<file, fileWatch, ancestor, codeVars>>

\* The directory is renamed away with its file: kDirWatchMask has no IN_MOVE_SELF,
\* and the file itself does not move.
MoveDirAway ==
    /\ level = Depth
    /\ May({"moved"})
    /\ level' = Depth - 1 /\ file' = Missing
    /\ dirWatch' = Kill(dirWatch) /\ fileWatch' = Kill(fileWatch)
    /\ UNCHANGED <<events, ancestorWatch, ancestor, codeVars>>

\* A directory with its file is renamed to the place.
MoveDirIn(v) ==
    /\ May(WhileWatching) /\ level = Depth - 1
    /\ level' = Depth /\ file' = v
    /\ events' = events \cup Appears
    /\ UNCHANGED <<watchVars, codeVars>>

-----------------------------------------------------------------------------
Code ==
    \/ MainLoads \/ WatcherLoads
    \/ AddDirectoryWatch \/ AddFileWatch \/ AddAncestorWatch
    \/ HandleInotify \/ Reload

Next ==
    \/ Code
    \/ Delete \/ MakeDir \/ RemoveDir \/ MoveDirAway
    \/ \E v \in Configs : Write(v) \/ Replace(v) \/ MoveDirIn(v)

Spec == Init /\ [][Next]_vars

\* The code runs on; the event loop handles events and fires the timer.
FairSpec == Spec /\ WF_vars(Code) /\ WF_vars(HandleInotify) /\ WF_vars(Reload)

-----------------------------------------------------------------------------
(* Properties. *)

\* A file that differs from what the portals use is never overlooked: an unread
\* event or the reload timer is there to tell (handleInotify, addFileWatch).
StaleIsNoticed ==
    astray = {} /\ pc = "idle" /\ Loaded # config => events # {} \/ timer

\* Well typed; in the event loop exactly one watch, on the directory or on an
\* ancestor, is there to hear of changes, whatever happened to the directories and
\* even if its object has just gone; and unless more happened than the code allows
\* for, it is the directory, or while that is missing its parent, or an event says
\* that it has just changed (establishWatches, removeAncestorWatch, handleEvent).
ChainIsWatched ==
    /\ TypeOK
    /\ pc = "idle" => (dirWatch # "off") # (ancestorWatch # "off")
    /\ astray = {} /\ pc = "idle" =>
          \/ level = Depth /\ dirWatch = "live"
          \/ level = Depth - 1 /\ ancestorWatch = "live" /\ ancestor = level
          \/ events # {}

\* When the file system settles, the portals use what the file holds, through any
\* writes, replacements and removals of the file and of its directory
\* (handleInotify, scheduleReload, reload).
SettlesOnFile == [](astray = {}) => <>[](config = Loaded)

=============================================================================
