------------------------- MODULE ConfigWatcherProofs -------------------------
(***************************************************************************)
(* Proofs about ConfigWatcher for any configurations, any depth of         *)
(* directories and any number of changes, wherever they come between the   *)
(* system calls: the watches cover what may change, and a file that        *)
(* differs from what the portals use is noticed.                           *)
(***************************************************************************)
EXTENDS ConfigWatcher, TLAPS

\* Where the code runs on its own, setting up watches.
SettingUp == {"dir", "file", "ancestor", "fileOnly"}

\* The constructor is done from the first return to the event loop.
UpWhenReturned ==
    /\ pc \in {"idle", "fileOnly"} => up
    /\ pc \in {"main", "load"} => ~up

\* Outside of establishWatches either the directory or an ancestor is watched.
OneWatch == pc \in {"idle", "fileOnly"} => (dirWatch # "off") # (ancestorWatch # "off")

\* The directory is watched if it is there, else its parent, which is; or what has
\* changed about that is in an event that sets up all the watches anew.
Covered ==
    \/ level = Depth /\ dirWatch = "live"
    \/ level = Depth - 1 /\ ancestorWatch = "live" /\ ancestor = level
    \/ events \cap {"dirGone", "appeared"} # {}

\* As long as nothing has gone astray: the parent is there and its watch has not
\* been lost, the watches cover what may change or are being set up, ...
WatchesCover ==
    astray = {} =>
        /\ level >= Depth - 1 /\ "ancestorGone" \notin events
        /\ pc \in {"idle", "fileOnly"} => Covered
        /\ pc \in {"file", "ancestor"} => dirWatch = IF level = Depth THEN "live" ELSE "off"

\* ... and the portals use what the file held when it was last loaded, which it still
\* holds, unless an event, the timer or the code under way leads to a reload.
ReloadsFollow ==
    astray = {} =>
        /\ pc = "load" => config = Loaded
        /\ pc \notin {"main", "load"} => config = current
        /\ pc \in SettingUp => IF up THEN changed ELSE config = Loaded
        /\ pc = "idle" /\ Loaded # config => events # {} \/ timer

IInv ==
    /\ TypeOK
    /\ UpWhenReturned
    /\ OneWatch
    /\ WatchesCover
    /\ ReloadsFollow

-----------------------------------------------------------------------------
(* The code. *)

\* main loads the configuration.
LEMMA MainLoadsStep == ASSUME IInv, MainLoads PROVE IInv'
<1>1. Loaded \in Configs
    BY ConfigWatcherAssumption DEF Loaded, IInv, TypeOK
<1>2. TypeOK'
    BY <1>1 DEF MainLoads, IInv, TypeOK, fsVars, watchVars
<1>3. UpWhenReturned' /\ OneWatch'
    BY DEF MainLoads, IInv, UpWhenReturned, OneWatch
<1>4. WatchesCover'
    BY DEF MainLoads, IInv, WatchesCover, fsVars
<1>5. ReloadsFollow'
    BY DEF MainLoads, IInv, ReloadsFollow, Loaded, SettingUp, fsVars
<1> QED BY <1>2, <1>3, <1>4, <1>5 DEF IInv

\* The watcher loads it: the same, if nothing has changed meanwhile.
LEMMA WatcherLoadsStep == ASSUME IInv, WatcherLoads PROVE IInv'
<1>1. Loaded \in Configs
    BY ConfigWatcherAssumption DEF Loaded, IInv, TypeOK
<1>2. TypeOK'
    BY <1>1 DEF WatcherLoads, IInv, TypeOK, fsVars, watchVars
<1>3. UpWhenReturned' /\ OneWatch'
    BY DEF WatcherLoads, IInv, UpWhenReturned, OneWatch
<1>4. WatchesCover'
    BY DEF WatcherLoads, IInv, WatchesCover, fsVars
<1>5. ReloadsFollow'
    BY DEF WatcherLoads, IInv, ReloadsFollow, UpWhenReturned, Loaded, SettingUp, fsVars
<1> QED BY <1>2, <1>3, <1>4, <1>5 DEF IInv

\* The directory is watched if it is there.
LEMMA AddDirectoryWatchStep == ASSUME IInv, AddDirectoryWatch PROVE IInv'
<1>1. TypeOK'
    <2>1. dirWatch' \in WatchStates
        BY DEF AddDirectoryWatch, WatchStates
    <2> QED BY <2>1 DEF AddDirectoryWatch, IInv, TypeOK, fsVars
<1>2. UpWhenReturned' /\ OneWatch'
    BY DEF AddDirectoryWatch, IInv, UpWhenReturned, OneWatch
<1>3. WatchesCover'
    BY DEF AddDirectoryWatch, IInv, WatchesCover, fsVars
<1>4. ReloadsFollow'
    BY DEF AddDirectoryWatch, IInv, ReloadsFollow, Loaded, SettingUp, fsVars
<1> QED BY <1>1, <1>2, <1>3, <1>4 DEF IInv

\* The code returns to the event loop, with the watches in place.
LEMMA ReturnKeeps ==
    ASSUME IInv, Return, pc \in SettingUp, TypeOK', OneWatch',
           astray = {} => Covered' /\ "ancestorGone" \notin events',
           UNCHANGED <<fsVars, current, config>>
    PROVE  IInv'
<1>1. pc' = "idle" /\ up' = TRUE /\ timer' = (timer \/ changed)
    BY DEF Return
<1>2. UpWhenReturned'
    BY <1>1 DEF UpWhenReturned
<1>3. WatchesCover'
    BY <1>1 DEF IInv, WatchesCover, fsVars
<1>4. ReloadsFollow'
    BY <1>1 DEF IInv, ReloadsFollow, SettingUp, Loaded, fsVars
<1> QED BY <1>2, <1>3, <1>4 DEF IInv

\* The file is watched if it is there.
LEMMA AddFileWatchStep == ASSUME IInv, AddFileWatch PROVE IInv'
<1>1. TypeOK'
    <2>1. fileWatch' \in WatchStates
        BY DEF AddFileWatch, WatchStates
    <2>2. CASE pc = "file"
        BY <2>1, <2>2 DEF AddFileWatch, IInv, TypeOK, fsVars
    <2>3. CASE pc # "file"
        BY <2>1, <2>3 DEF AddFileWatch, Return, IInv, TypeOK, fsVars
    <2> QED BY <2>2, <2>3
<1>2. /\ UNCHANGED <<fsVars, dirWatch, ancestorWatch, ancestor, current, config>>
      /\ events' = events \ FileEvents
    BY DEF AddFileWatch
<1>3. CASE pc = "file"
    <2>1. pc' = "ancestor" /\ UNCHANGED <<up, changed, timer>>
        BY <1>3 DEF AddFileWatch
    <2>2. UpWhenReturned' /\ OneWatch'
        BY <2>1 DEF UpWhenReturned, OneWatch
    <2>3. WatchesCover'
        BY <1>2, <1>3, <2>1 DEF IInv, WatchesCover, fsVars
    <2>4. ReloadsFollow'
        BY <1>2, <1>3, <2>1 DEF IInv, ReloadsFollow, Loaded, SettingUp, fsVars
    <2> QED BY <1>1, <2>2, <2>3, <2>4 DEF IInv
<1>4. CASE pc = "fileOnly"
    <2>1. Return
        BY <1>4 DEF AddFileWatch
    <2>2. OneWatch'
        BY <1>2, <1>4 DEF IInv, OneWatch
    <2>3. astray = {} => Covered' /\ "ancestorGone" \notin events'
        BY <1>2, <1>4 DEF IInv, WatchesCover, Covered, FileEvents, fsVars
    <2> QED BY <1>1, <1>2, <1>4, <2>1, <2>2, <2>3, ReturnKeeps DEF SettingUp
<1> QED BY <1>3, <1>4 DEF AddFileWatch

\* The nearest ancestor: the parent of the directory, if that is there.
LEMMA NearestAncestor ==
    ASSUME TypeOK
    PROVE  /\ Min({level, Depth - 1}) \in 0..(Depth - 1)
           /\ level = Depth - 1 => Min({level, Depth - 1}) = level
<1> DEFINE m == IF level <= Depth - 1 THEN level ELSE Depth - 1
<1>1. level \in 0..Depth /\ Depth \in Nat /\ Depth # 0
    BY ConfigWatcherAssumption DEF TypeOK
<1>2. m \in {level, Depth - 1} /\ \A y \in {level, Depth - 1} : m <= y
    BY <1>1
<1> HIDE DEF m
<1>3. Min({level, Depth - 1}) \in {level, Depth - 1} /\ \A y \in {level, Depth - 1} : Min({level, Depth - 1}) <= y
    BY <1>2 DEF Min
<1> QED BY <1>1, <1>3

\* The directory's parent is watched if the directory is not there.
LEMMA AddAncestorWatchStep == ASSUME IInv, AddAncestorWatch PROVE IInv'
<1>0. /\ pc = "ancestor" /\ Return /\ UNCHANGED <<fsVars, dirWatch, fileWatch, current, config>>
      /\ events' = events \ AncestorEvents
      /\ IF dirWatch = "off"
         THEN ancestorWatch' = "live" /\ ancestor' = Min({level, Depth - 1})
         ELSE ancestorWatch' = "off" /\ UNCHANGED ancestor
    BY DEF AddAncestorWatch
<1>1. TypeOK'
    <2>1. ancestor' \in 0..(Depth - 1) /\ ancestorWatch' \in WatchStates
        BY <1>0, NearestAncestor DEF IInv, TypeOK, WatchStates
    <2>2. pc' = "idle" /\ up' = TRUE /\ changed' = FALSE /\ timer' \in BOOLEAN
        BY <1>0 DEF Return, IInv, TypeOK
    <2> QED BY <1>0, <2>1, <2>2 DEF IInv, TypeOK, fsVars
<1>2. OneWatch'
    BY <1>0 DEF OneWatch
<1>3. astray = {} => Covered' /\ "ancestorGone" \notin events'
    <2> SUFFICES ASSUME astray = {} PROVE Covered' /\ "ancestorGone" \notin events'
        OBVIOUS
    <2>1. "ancestorGone" \notin events'
        BY <1>0 DEF AncestorEvents
    <2>2. level >= Depth - 1 /\ level' = level /\ dirWatch' = dirWatch
          /\ dirWatch = IF level = Depth THEN "live" ELSE "off"
        BY <1>0 DEF IInv, WatchesCover, fsVars
    <2>3. CASE level = Depth
        BY <2>1, <2>2, <2>3 DEF Covered
    <2>4. CASE level # Depth
        <3>1. level = Depth - 1
            BY <2>2, <2>4, ConfigWatcherAssumption DEF IInv, TypeOK
        <3>2. ancestorWatch' = "live" /\ ancestor' = level'
            BY <1>0, <2>2, <2>4, <3>1, NearestAncestor DEF IInv
        <3> QED BY <2>1, <2>2, <3>1, <3>2 DEF Covered
    <2> QED BY <2>3, <2>4
<1> QED BY <1>0, <1>1, <1>2, <1>3, ReturnKeeps DEF SettingUp

\* The events are read: those that tell of the directory or of its parent lead to
\* new watches, and each but the loss of the parent's watch to a reload.
LEMMA HandleInotifyStep == ASSUME IInv, HandleInotify PROVE IInv'
<1> DEFINE anew == events \cap {"dirGone", "appeared", "ancestorGone"} # {}
           noticed == events # {"ancestorGone"}
<1>0. /\ pc = "idle" /\ events # {} /\ events' = {}
      /\ fileWatch' = IF "fileGone" \in events THEN "off" ELSE fileWatch
      /\ dirWatch' = IF "dirGone" \in events THEN "off" ELSE dirWatch
      /\ ancestorWatch' = IF "ancestorGone" \in events THEN "off" ELSE ancestorWatch
      /\ UNCHANGED <<fsVars, up, ancestor, current, config>>
    BY DEF HandleInotify
<1>1. /\ pc' = (CASE anew -> "dir"
                  [] ~anew /\ events \cap {"fileGone", "placed"} # {} -> "fileOnly"
                  [] OTHER -> "idle")
      /\ changed' = (noticed /\ pc' # "idle")
      /\ timer' = (timer \/ (noticed /\ pc' = "idle"))
    BY DEF HandleInotify
<1>2. pc' \in {"dir", "fileOnly", "idle"} /\ (pc' # "dir" => ~anew)
    BY <1>1
<1> HIDE DEF noticed
<1>3. TypeOK'
    <2>1. fileWatch' \in WatchStates /\ dirWatch' \in WatchStates /\ ancestorWatch' \in WatchStates
        BY <1>0 DEF IInv, TypeOK, WatchStates
    <2>2. changed' \in BOOLEAN /\ timer' \in BOOLEAN
        BY <1>1
    <2> QED BY <1>0, <1>2, <2>1, <2>2 DEF IInv, TypeOK, fsVars
<1>4. UpWhenReturned'
    BY <1>0, <1>2 DEF IInv, UpWhenReturned
<1>5. pc' # "dir" => dirWatch' = dirWatch /\ ancestorWatch' = ancestorWatch
                     /\ events \cap {"dirGone", "appeared"} = {}
    BY <1>0, <1>2
<1>6. OneWatch'
    BY <1>0, <1>2, <1>5 DEF IInv, OneWatch
<1>7. WatchesCover'
    <2> SUFFICES ASSUME astray = {}
                 PROVE  /\ level' >= Depth - 1 /\ "ancestorGone" \notin events'
                        /\ pc' \in {"idle", "fileOnly"} => Covered'
        BY <1>0, <1>2 DEF WatchesCover, fsVars
    <2>1. level' = level /\ ancestor' = ancestor /\ level >= Depth - 1 /\ Covered
        BY <1>0 DEF IInv, WatchesCover, fsVars
    <2>2. pc' \in {"idle", "fileOnly"} => Covered'
        BY <1>5, <2>1 DEF Covered
    <2> QED BY <1>0, <2>1, <2>2
<1>8. ReloadsFollow'
    <2> SUFFICES ASSUME astray = {}
                 PROVE  /\ config' = current'
                        /\ pc' \in SettingUp => IF up' THEN changed' ELSE config' = Loaded'
                        /\ pc' = "idle" => timer'
        BY <1>0, <1>2 DEF ReloadsFollow, fsVars
    <2>1. noticed
        BY <1>0 DEF noticed, IInv, WatchesCover
    <2>2. config' = current' /\ up' = TRUE
        BY <1>0 DEF IInv, ReloadsFollow, UpWhenReturned, TypeOK
    <2> QED BY <1>1, <2>1, <2>2 DEF SettingUp
<1> QED BY <1>3, <1>4, <1>6, <1>7, <1>8 DEF IInv

\* The timer reloads.
LEMMA ReloadStep == ASSUME IInv, Reload PROVE IInv'
<1>1. Loaded \in Configs
    BY ConfigWatcherAssumption DEF Loaded, IInv, TypeOK
<1>2. TypeOK'
    BY <1>1 DEF Reload, IInv, TypeOK, fsVars, watchVars
<1>3. UpWhenReturned' /\ OneWatch'
    BY DEF Reload, IInv, UpWhenReturned, OneWatch, watchVars
<1>4. WatchesCover'
    BY DEF Reload, IInv, WatchesCover, Covered, fsVars, watchVars
<1>5. ReloadsFollow'
    BY DEF Reload, IInv, ReloadsFollow, Loaded, SettingUp, fsVars
<1> QED BY <1>2, <1>3, <1>4, <1>5 DEF IInv

-----------------------------------------------------------------------------
(* The file system. *)

\* What any change does to the counters, and what a live watch becomes.
LEMMA ChangeCounts ==
    ASSUME IInv, NEW ways \in SUBSET Hardships, May(ways)
    PROVE  /\ changes' \in 0..MaxChanges /\ astray' \subseteq Hardships
           /\ astray' = {} => astray = {} /\ ways = {}
BY ConfigWatcherAssumption DEF May, IInv, TypeOK

\* Killing a watch leaves it one, or none.
LEMMA KillKeeps ==
    ASSUME NEW w \in WatchStates
    PROVE  Kill(w) \in WatchStates /\ (Kill(w) = "off" <=> w = "off")
BY DEF Kill, WatchStates

\* A change of the file that leaves an event if the directory is watched.
LEMMA FileChangeKeeps ==
    ASSUME IInv, NEW e \in DirEvents \ {"dirGone"}, May(IF up THEN {} ELSE {"raced"}),
           level = Depth, file' \in Configs \cup {Missing},
           fileWatch' \in WatchStates,
           events \cup Notify(dirWatch, e) \subseteq events',
           events' \subseteq events \cup FileEvents \cup (DirEvents \ {"dirGone"}),
           UNCHANGED <<level, dirWatch, ancestorWatch, ancestor, codeVars>>
    PROVE  IInv'
<1>1. /\ changes' \in 0..MaxChanges /\ astray' \subseteq Hardships
      /\ astray' = {} => astray = {} /\ up
    <2>1. (IF up THEN {} ELSE {"raced"}) \in SUBSET Hardships
        BY DEF Hardships
    <2> QED BY <2>1, ChangeCounts
<1>2. UNCHANGED <<pc, up, changed, timer, current, config>>
    BY DEF codeVars
<1>3. TypeOK'
    <2>1. events' \subseteq FileEvents \cup DirEvents \cup AncestorEvents
        BY DEF IInv, TypeOK
    <2> QED BY <1>1, <1>2, <2>1 DEF IInv, TypeOK
<1>4. UpWhenReturned' /\ OneWatch'
    BY <1>2 DEF IInv, UpWhenReturned, OneWatch
<1>5. WatchesCover'
    BY <1>1, <1>2 DEF IInv, WatchesCover, Covered, FileEvents, DirEvents
<1>6. ReloadsFollow'
    <2> SUFFICES ASSUME astray = {}, up
                 PROVE  /\ pc \notin {"main", "load"} /\ config = current
                        /\ pc \in SettingUp => changed
                        /\ pc = "idle" => events' # {}
        BY <1>1, <1>2 DEF ReloadsFollow
    <2>1. pc \notin {"main", "load"} /\ config = current /\ (pc \in SettingUp => changed)
        BY DEF IInv, ReloadsFollow, UpWhenReturned
    <2>2. ASSUME pc = "idle" PROVE events' # {}
        <3>1. Covered
            BY <2>2 DEF IInv, WatchesCover
        <3>2. level # Depth - 1
            BY ConfigWatcherAssumption DEF IInv, TypeOK
        <3>3. dirWatch = "live" \/ events # {}
            BY <3>1, <3>2 DEF Covered
        <3>4. dirWatch = "live" => e \in events'
            BY DEF Notify
        <3> QED BY <3>3, <3>4
    <2> QED BY <2>1, <2>2
<1> QED BY <1>3, <1>4, <1>5, <1>6 DEF IInv

\* The file is written.
LEMMA WriteStep == ASSUME IInv, NEW v \in Configs, Write(v) PROVE IInv'
<1>1. /\ May(IF up THEN {} ELSE {"raced"}) /\ level = Depth /\ file' = v
      /\ events' = events \cup (IF file = Missing THEN Notify(dirWatch, "placed")
                                ELSE Notify(dirWatch, "written") \cup Notify(fileWatch, "modified"))
      /\ UNCHANGED <<level, dirWatch, fileWatch, ancestorWatch, ancestor, codeVars>>
    BY DEF Write, MayChange, watchVars
<1>2. fileWatch' \in WatchStates
    BY <1>1 DEF IInv, TypeOK
<1>3. CASE file = Missing
    <2>1. /\ "placed" \in DirEvents \ {"dirGone"}
          /\ events \cup Notify(dirWatch, "placed") \subseteq events'
          /\ events' \subseteq events \cup FileEvents \cup (DirEvents \ {"dirGone"})
        BY <1>1, <1>3 DEF Notify, DirEvents
    <2> QED BY <1>1, <1>2, <2>1, FileChangeKeeps
<1>4. CASE file # Missing
    <2>1. /\ "written" \in DirEvents \ {"dirGone"}
          /\ events \cup Notify(dirWatch, "written") \subseteq events'
          /\ events' \subseteq events \cup FileEvents \cup (DirEvents \ {"dirGone"})
        BY <1>1, <1>4 DEF Notify, DirEvents, FileEvents
    <2> QED BY <1>1, <1>2, <2>1, FileChangeKeeps
<1> QED BY <1>3, <1>4

\* Another file takes its place.
LEMMA ReplaceStep == ASSUME IInv, NEW v \in Configs, Replace(v) PROVE IInv'
<1>1. /\ May(IF up THEN {} ELSE {"raced"}) /\ level = Depth /\ file' = v
      /\ events' = events \cup Notify(dirWatch, "placed") \cup Notify(fileWatch, "fileGone")
      /\ fileWatch' = Kill(fileWatch)
      /\ UNCHANGED <<level, dirWatch, ancestorWatch, ancestor, codeVars>>
    BY DEF Replace, MayChange
<1>2. fileWatch' \in WatchStates
    BY <1>1, KillKeeps DEF IInv, TypeOK
<1>3. /\ "placed" \in DirEvents \ {"dirGone"}
      /\ events \cup Notify(dirWatch, "placed") \subseteq events'
      /\ events' \subseteq events \cup FileEvents \cup (DirEvents \ {"dirGone"})
    BY <1>1 DEF Notify, DirEvents, FileEvents
<1> QED BY <1>1, <1>2, <1>3, FileChangeKeeps

\* The file is deleted.
LEMMA DeleteStep == ASSUME IInv, Delete PROVE IInv'
<1>1. /\ May(IF up THEN {} ELSE {"raced"}) /\ level = Depth /\ file' = Missing
      /\ events' = events \cup Notify(dirWatch, "removed") \cup Notify(fileWatch, "fileGone")
      /\ fileWatch' = Kill(fileWatch)
      /\ UNCHANGED <<level, dirWatch, ancestorWatch, ancestor, codeVars>>
    BY DEF Delete, MayChange, IInv, TypeOK
<1>2. fileWatch' \in WatchStates
    BY <1>1, KillKeeps DEF IInv, TypeOK
<1>3. /\ "removed" \in DirEvents \ {"dirGone"}
      /\ events \cup Notify(dirWatch, "removed") \subseteq events'
      /\ events' \subseteq events \cup FileEvents \cup (DirEvents \ {"dirGone"})
    BY <1>1 DEF Notify, DirEvents, FileEvents
<1> QED BY <1>1, <1>2, <1>3, FileChangeKeeps

\* A change of the directories goes astray, or else it comes while the code waits
\* for events and leaves one that has all the watches set up anew.
LEMMA DirChangeKeeps ==
    ASSUME IInv, NEW ways \in SUBSET Hardships, May(ways),
           level' \in 0..Depth, file' \in Configs \cup {Missing}, file' # Missing => level' = Depth,
           dirWatch' \in WatchStates, fileWatch' \in WatchStates, ancestorWatch' \in WatchStates,
           dirWatch' = "off" <=> dirWatch = "off", ancestorWatch' = "off" <=> ancestorWatch = "off",
           events' \subseteq FileEvents \cup DirEvents \cup AncestorEvents,
           astray = {} /\ ways = {} =>
               /\ pc = "idle"
               /\ level' >= Depth - 1 /\ "ancestorGone" \notin events' /\ events' \cap {"dirGone", "appeared"} # {},
           UNCHANGED <<ancestor, codeVars>>
    PROVE  IInv'
<1>1. /\ changes' \in 0..MaxChanges /\ astray' \subseteq Hardships
      /\ astray' = {} => astray = {} /\ ways = {}
    BY ChangeCounts
<1>2. UNCHANGED <<pc, up, changed, timer, current, config>>
    BY DEF codeVars
<1>3. TypeOK'
    BY <1>1, <1>2 DEF IInv, TypeOK
<1>4. UpWhenReturned' /\ OneWatch'
    BY <1>2 DEF IInv, UpWhenReturned, OneWatch
<1>5. WatchesCover'
    BY <1>1, <1>2 DEF WatchesCover, Covered
<1>6. ReloadsFollow'
    BY <1>1, <1>2 DEF IInv, ReloadsFollow, SettingUp
<1> QED BY <1>3, <1>4, <1>5, <1>6 DEF IInv

\* One directory more, without the file.
LEMMA MakeDirStep == ASSUME IInv, MakeDir PROVE IInv'
<1>1. /\ May(WhileWatching) /\ level < Depth /\ level' = level + 1 /\ file' = file
      /\ events' = events \cup Appears
      /\ UNCHANGED <<dirWatch, fileWatch, ancestorWatch, ancestor, codeVars>>
    BY DEF MakeDir, watchVars
<1>2. level \in 0..Depth /\ Depth \in Nat /\ level' \in 0..Depth /\ file = Missing
    BY <1>1, ConfigWatcherAssumption DEF IInv, TypeOK
<1>3. WhileWatching \in SUBSET Hardships /\ (WhileWatching = {} => pc = "idle")
    BY DEF WhileWatching, Hardships
<1>4. Appears \subseteq {"appeared"}
    BY DEF Appears, Notify
<1>5. ASSUME astray = {}, WhileWatching = {}
      PROVE  /\ level' >= Depth - 1 /\ "ancestorGone" \notin events' /\ events' \cap {"dirGone", "appeared"} # {}
    <2>1. level >= Depth - 1 /\ "ancestorGone" \notin events /\ Covered
        BY <1>3, <1>5 DEF IInv, WatchesCover
    <2>2. level = Depth - 1 /\ level # Depth /\ level + 1 = Depth
        BY <1>1, <1>2, <2>1
    <2>3. (ancestorWatch = "live" /\ ancestor = level) \/ events \cap {"dirGone", "appeared"} # {}
        BY <2>1, <2>2 DEF Covered
    <2>4. ancestorWatch = "live" /\ ancestor = level => "appeared" \in events'
        BY <1>1, <2>2 DEF Appears, Notify
    <2> QED BY <1>1, <1>2, <1>4, <2>1, <2>3, <2>4
<1>6. /\ file' \in Configs \cup {Missing} /\ (file' # Missing => level' = Depth)
      /\ dirWatch' \in WatchStates /\ fileWatch' \in WatchStates /\ ancestorWatch' \in WatchStates
      /\ events' \subseteq FileEvents \cup DirEvents \cup AncestorEvents
    BY <1>1, <1>2, <1>4 DEF IInv, TypeOK, AncestorEvents
<1> QED BY <1>1, <1>2, <1>3, <1>5, <1>6, DirChangeKeeps

\* A directory with its file is put in its place.
LEMMA MoveDirInStep == ASSUME IInv, NEW v \in Configs, MoveDirIn(v) PROVE IInv'
<1>1. /\ May(WhileWatching) /\ level = Depth - 1 /\ level' = Depth /\ file' = v
      /\ events' = events \cup Appears
      /\ UNCHANGED <<dirWatch, fileWatch, ancestorWatch, ancestor, codeVars>>
    BY DEF MoveDirIn, watchVars
<1>2. level \in 0..Depth /\ Depth \in Nat /\ level' \in 0..Depth
    BY <1>1, ConfigWatcherAssumption DEF IInv, TypeOK
<1>3. WhileWatching \in SUBSET Hardships /\ (WhileWatching = {} => pc = "idle")
    BY DEF WhileWatching, Hardships
<1>4. Appears \subseteq {"appeared"}
    BY DEF Appears, Notify
<1>5. ASSUME astray = {}, WhileWatching = {}
      PROVE  /\ level' >= Depth - 1 /\ "ancestorGone" \notin events' /\ events' \cap {"dirGone", "appeared"} # {}
    <2>1. "ancestorGone" \notin events /\ Covered
        BY <1>3, <1>5 DEF IInv, WatchesCover
    <2>2. level # Depth /\ level + 1 = Depth
        BY <1>1, <1>2
    <2>3. (ancestorWatch = "live" /\ ancestor = level) \/ events \cap {"dirGone", "appeared"} # {}
        BY <2>1, <2>2 DEF Covered
    <2>4. ancestorWatch = "live" /\ ancestor = level => "appeared" \in events'
        BY <1>1, <2>2 DEF Appears, Notify
    <2> QED BY <1>1, <1>2, <1>4, <2>1, <2>3, <2>4
<1>6. /\ file' \in Configs \cup {Missing} /\ (file' # Missing => level' = Depth)
      /\ dirWatch' \in WatchStates /\ fileWatch' \in WatchStates /\ ancestorWatch' \in WatchStates
      /\ events' \subseteq FileEvents \cup DirEvents \cup AncestorEvents
    BY <1>1, <1>2, <1>4 DEF IInv, TypeOK, AncestorEvents
<1> QED BY <1>1, <1>2, <1>3, <1>5, <1>6, DirChangeKeeps

\* A directory is removed, and a watch on it dies.
LEMMA RemoveDirStep == ASSUME IInv, RemoveDir PROVE IInv'
<1> DEFINE ways == WhileWatching \cup IF level < Depth THEN {"deep"} ELSE {}
           watched == level < Depth /\ ancestor = level
<1>1. /\ level > 0 /\ file = Missing /\ file' = file /\ May(ways) /\ level' = level - 1
      /\ dirWatch' = IF level = Depth THEN Kill(dirWatch) ELSE dirWatch
      /\ ancestorWatch' = IF watched THEN Kill(ancestorWatch) ELSE ancestorWatch
      /\ events' = events \cup (IF level = Depth THEN Notify(dirWatch, "dirGone") ELSE {})
                          \cup (IF watched THEN Notify(ancestorWatch, "ancestorGone") ELSE {})
      /\ UNCHANGED <<fileWatch, ancestor, codeVars>>
    BY DEF RemoveDir
<1>2. level \in 0..Depth /\ Depth \in Nat /\ level' \in 0..Depth
    BY <1>1, ConfigWatcherAssumption DEF IInv, TypeOK
<1>3. ways \in SUBSET Hardships /\ (ways = {} => pc = "idle" /\ ~(level < Depth))
    BY DEF WhileWatching, Hardships
<1>4. ASSUME astray = {}, ways = {}
      PROVE  /\ level' >= Depth - 1 /\ "ancestorGone" \notin events' /\ events' \cap {"dirGone", "appeared"} # {}
    <2>1. "ancestorGone" \notin events /\ Covered
        BY <1>3, <1>4 DEF IInv, WatchesCover
    <2>2. level = Depth /\ level # Depth - 1 /\ ~watched
        BY <1>2, <1>3, <1>4
    <2>3. dirWatch = "live" \/ events \cap {"dirGone", "appeared"} # {}
        BY <2>1, <2>2 DEF Covered
    <2>4. events' = events \cup Notify(dirWatch, "dirGone")
        BY <1>1, <2>2
    <2> QED BY <1>1, <1>2, <2>1, <2>2, <2>3, <2>4 DEF Notify
<1>5. /\ dirWatch' \in WatchStates /\ (dirWatch' = "off" <=> dirWatch = "off")
      /\ ancestorWatch' \in WatchStates /\ (ancestorWatch' = "off" <=> ancestorWatch = "off")
      /\ fileWatch' \in WatchStates
    BY <1>1, KillKeeps DEF IInv, TypeOK
<1>6. events' \subseteq FileEvents \cup DirEvents \cup AncestorEvents
    BY <1>1 DEF IInv, TypeOK, DirEvents, AncestorEvents, Notify
<1> HIDE DEF ways, watched
<1> QED BY <1>1, <1>2, <1>3, <1>4, <1>5, <1>6, DirChangeKeeps

\* The directory is renamed away.
LEMMA MoveDirAwayStep == ASSUME IInv, MoveDirAway PROVE IInv'
<1>1. /\ level = Depth /\ May({"moved"}) /\ level' = Depth - 1 /\ file' = Missing
      /\ dirWatch' = Kill(dirWatch) /\ fileWatch' = Kill(fileWatch)
      /\ UNCHANGED <<events, ancestorWatch, ancestor, codeVars>>
    BY DEF MoveDirAway
<1>2. level' \in 0..Depth
    BY <1>1, ConfigWatcherAssumption
<1>3. {"moved"} \in SUBSET Hardships /\ {"moved"} # {}
    BY DEF Hardships
<1>4. /\ dirWatch' \in WatchStates /\ (dirWatch' = "off" <=> dirWatch = "off")
      /\ ancestorWatch' \in WatchStates /\ (ancestorWatch' = "off" <=> ancestorWatch = "off")
      /\ fileWatch' \in WatchStates /\ events' \subseteq FileEvents \cup DirEvents \cup AncestorEvents
    BY <1>1, KillKeeps DEF IInv, TypeOK
<1> QED BY <1>1, <1>2, <1>3, <1>4, DirChangeKeeps

-----------------------------------------------------------------------------
(* The inductive invariant. *)

\* Every step keeps it.
LEMMA NextInductive == IInv /\ [Next]_vars => IInv'
<1> SUFFICES ASSUME IInv, [Next]_vars PROVE IInv'
    OBVIOUS
<1>1. CASE Code
    BY <1>1, MainLoadsStep, WatcherLoadsStep, AddDirectoryWatchStep, AddFileWatchStep, AddAncestorWatchStep,
       HandleInotifyStep, ReloadStep DEF Code
<1>2. CASE Delete \/ MakeDir \/ RemoveDir \/ MoveDirAway
    BY <1>2, DeleteStep, MakeDirStep, RemoveDirStep, MoveDirAwayStep
<1>3. CASE \E v \in Configs : Write(v) \/ Replace(v) \/ MoveDirIn(v)
    BY <1>3, WriteStep, ReplaceStep, MoveDirInStep
<1>4. CASE UNCHANGED vars
    BY <1>4 DEF vars, fsVars, watchVars, IInv, TypeOK, UpWhenReturned, OneWatch, WatchesCover, Covered,
                ReloadsFollow, Loaded
<1> QED BY <1>1, <1>2, <1>3, <1>4 DEF Next

\* It holds before main has loaded anything.
LEMMA InitInductive == Init => IInv
<1> SUFFICES ASSUME Init PROVE IInv
    OBVIOUS
<1>1. TypeOK
    <2>1. 0 \in 0..(Depth - 1) /\ 0 \in 0..MaxChanges
        BY ConfigWatcherAssumption
    <2>2. astray \subseteq Hardships
        BY DEF Init, Hardships
    <2>3. file \in Configs \cup {Missing} /\ (file # Missing => level = Depth)
        BY DEF Init
    <2>4. {dirWatch, fileWatch, ancestorWatch} \subseteq WatchStates
        BY DEF Init, WatchStates
    <2> QED BY <2>1, <2>2, <2>3, <2>4, ConfigWatcherAssumption DEF Init, TypeOK
<1>2. UpWhenReturned /\ OneWatch
    BY DEF Init, UpWhenReturned, OneWatch
<1>3. WatchesCover
    BY ConfigWatcherAssumption DEF Init, WatchesCover
<1>4. ReloadsFollow
    BY DEF Init, ReloadsFollow, SettingUp
<1> QED BY <1>1, <1>2, <1>3, <1>4 DEF IInv

-----------------------------------------------------------------------------
(* What follows. *)

\* The inductive invariant: the watches, the events, the timer and the flags of the
\* code under way together miss no change, between any two system calls.
THEOREM SpecIInv == Spec => []IInv
    BY InitInductive, NextInductive, PTL DEF Spec

\* A file that differs from what the portals use is never overlooked.
THEOREM ConfigWatcherStaleIsNoticed == Spec => []StaleIsNoticed
<1>1. IInv => StaleIsNoticed
    BY DEF IInv, ReloadsFollow, StaleIsNoticed
<1> QED BY <1>1, SpecIInv, PTL

\* In the event loop one watch is there, and it is the right one or an event tells.
THEOREM ConfigWatcherChainIsWatched == Spec => []ChainIsWatched
<1>1. IInv => ChainIsWatched
    <2> SUFFICES ASSUME IInv PROVE ChainIsWatched
        OBVIOUS
    <2>1. pc = "idle" => (dirWatch # "off") # (ancestorWatch # "off")
        BY DEF IInv, OneWatch
    <2>2. astray = {} /\ pc = "idle" => Covered
        BY DEF IInv, WatchesCover
    <2> QED BY <2>1, <2>2 DEF IInv, ChainIsWatched, Covered
<1> QED BY <1>1, SpecIInv, PTL
=============================================================================
