-------------------------------- MODULE Loop --------------------------------
(***************************************************************************)
(* Loop: the epoll loop every callback of the portal runs on.  A batch of  *)
(* ready identifiers is dispatched one by one, and the callbacks           *)
(* themselves add and remove watches and timers, so that by the time a     *)
(* later event of the batch is dispatched its watch may be gone, its file  *)
(* descriptor closed, and the number of that descriptor in use again.      *)
(***************************************************************************)
EXTENDS Naturals, FiniteSets, SequencesExt

CONSTANTS
    Fds,        \* numbers of file descriptors
    MaxSerial   \* bound: watches and timers ever added

ASSUME LoopAssumption == MaxSerial \in Nat

VARIABLES
    nextId,     \* Impl::nextId
    running,    \* Impl::running
    fds,        \* Impl::fds: identifier -> the descriptor, and which registration it is
    timers,     \* the identifiers of Impl::timers
    batch,      \* the events of this epoll_wait still to look at
    reported,   \* and the registrations it reported as readable
    current,    \* the callback being run: its identifier, or 0
    currentFd,  \* the descriptor a timer's closure captured
    interest,   \* the kernel's interest list: <<descriptor, identifier>>
    open,       \* descriptors in use
    ready,      \* those that are readable
    given,      \* the identifier each registration so far was given
    wanted      \* registrations not removed by their owner and, if timers, not run

impl == <<nextId, running, fds, timers>>
dispatch == <<batch, reported, current, currentFd>>
kernel == <<interest, open, ready>>
owners == <<given, wanted>>
vars == <<impl, dispatch, kernel, owners>>

Ids == 1..MaxSerial
Entries == [fd: Fds, serial: Ids]

TypeOK ==
    /\ nextId \in 1..(MaxSerial + 1) /\ given \in SeqOf(Ids, MaxSerial)
    /\ running \in BOOLEAN
    /\ DOMAIN fds \subseteq Ids /\ \A id \in DOMAIN fds : fds[id] \in Entries
    /\ timers \subseteq DOMAIN fds
    /\ batch \in SeqOf(Ids, MaxSerial) /\ IsInjective(batch) /\ reported \subseteq Ids
    /\ current \in {0} \cup Ids /\ currentFd \in Fds
    /\ interest \subseteq Fds \X Ids /\ {e[1] : e \in interest} \subseteq open
    /\ ready \subseteq open /\ open \subseteq Fds
    /\ wanted \subseteq DOMAIN given

Init ==
    /\ nextId = 1 /\ running = FALSE /\ fds = [id \in {} |-> 0] /\ timers = {}
    /\ batch = <<>> /\ reported = {} /\ current = 0 /\ currentFd \in Fds
    /\ interest = {} /\ open = {} /\ ready = {} /\ given = <<>> /\ wanted = {}

\* Owners call the loop before run() and from the callbacks.
OwnersRun == current # 0 \/ ~running

-----------------------------------------------------------------------------
\* Mutant: the lowest identifier that is free.
AllocateLowest == CHOOSE id \in Ids : id \notin DOMAIN fds
                     /\ \A other \in Ids : other < id => other \in DOMAIN fds

\* allocateId(): an identifier is never used twice.
AllocateId == nextId

Register(f) ==
    /\ f \notin open /\ Len(given) < MaxSerial
    /\ open' = open \cup {f}
    /\ interest' = interest \cup {<<f, AllocateId>>}
    /\ fds' = [id \in DOMAIN fds \cup {AllocateId} |->
                 IF id = AllocateId THEN [fd |-> f, serial |-> Len(given) + 1] ELSE fds[id]]
    /\ nextId' = nextId + 1
    /\ given' = Append(given, AllocateId)
    /\ wanted' = wanted \cup {Len(given) + 1}

\* addFd for a descriptor its owner has just opened.
AddFd(f) ==
    /\ OwnersRun
    /\ Register(f)
    /\ UNCHANGED <<running, timers, dispatch, ready>>

\* Mutant: addTimer without the entry in fds.
AddTimerUnwatched(f) ==
    /\ OwnersRun /\ f \notin open /\ Len(given) < MaxSerial
    /\ open' = open \cup {f}
    /\ interest' = interest \cup {<<f, AllocateId>>}
    /\ timers' = timers \cup {AllocateId}
    /\ nextId' = nextId + 1 /\ given' = Append(given, AllocateId) /\ wanted' = wanted \cup {Len(given) + 1}
    /\ UNCHANGED <<running, fds, dispatch, ready>>

\* addTimer opens a timerfd and watches it under the timer's identifier.
AddTimer(f) ==
    /\ OwnersRun
    /\ Register(f)
    /\ timers' = timers \cup {AllocateId}
    /\ UNCHANGED <<running, dispatch, ready>>

\* removeFd(id), followed by the close of its descriptor, which every owner
\* does in this order and removeTimer does itself.  An unknown identifier
\* changes nothing.
Drop(id) ==
    /\ fds' = [other \in DOMAIN fds \ {id} |-> fds[other]]
    /\ timers' = timers \ {id}
    /\ LET closed == {fds[id].fd : x \in DOMAIN fds \cap {id}} IN
        /\ interest' = {e \in interest : e[1] \notin closed}
        /\ open' = open \ closed
        /\ ready' = ready \ closed

\* An owner removes its watch or timer, by the identifier it was given: also
\* one that has run, or that it already removed.
Forget(serial) ==
    /\ OwnersRun
    /\ wanted' = wanted \ {serial}
    /\ Drop(given[serial])
    /\ UNCHANGED <<nextId, running, dispatch, given>>

Quit ==
    /\ current # 0
    /\ running' = FALSE
    /\ UNCHANGED <<nextId, fds, timers, dispatch, kernel, owners>>

-----------------------------------------------------------------------------
Run ==
    /\ ~running /\ current = 0
    /\ running' = TRUE
    /\ batch' = <<>> /\ reported' = {}
    /\ UNCHANGED <<nextId, fds, timers, current, currentFd, kernel, owners>>

\* epoll_wait: every watched descriptor that is readable, in any order (the
\* portal has fewer than kMaxEpollEvents of them).
EpollWait ==
    /\ running /\ current = 0 /\ batch = <<>>
    /\ LET events == {e[2] : e \in {e \in interest : e[1] \in ready}} IN
        /\ events # {}
        /\ batch' \in SetToSeqs(events)
        /\ reported' = {fds[id].serial : id \in events \cap DOMAIN fds}
    /\ UNCHANGED <<impl, current, currentFd, kernel, owners>>

\* The next event of the batch: its callback is copied and run, unless its
\* entry is gone.  A timer reads its descriptor first and runs its callback
\* once; a watch reads what is there, if another callback has not.
Dispatch ==
    /\ running /\ current = 0 /\ batch # <<>>
    /\ batch' = Tail(batch)
    /\ reported' = IF Tail(batch) = <<>> THEN {} ELSE reported
    /\ LET id == Head(batch) IN
        IF id \notin DOMAIN fds
        THEN UNCHANGED <<current, currentFd, ready, wanted>>
        ELSE /\ current' = id
             /\ currentFd' = fds[id].fd
             /\ ready' = ready \ {fds[id].fd}
             /\ wanted' = IF id \in timers THEN wanted \ {fds[id].serial} ELSE wanted
    /\ UNCHANGED <<impl, interest, open, given>>

\* A callback, or an owner before run(), reads what another watch is for: a capture
\* that completes in a Wayland callback iterates PipeWire's loop (processPending).
\* Only a timer's own entry reads its descriptor.
ReadAhead(f) ==
    /\ OwnersRun
    /\ f \in ready \ {fds[id].fd : id \in DOMAIN fds \cap timers}
    /\ ready' = ready \ {f}
    /\ UNCHANGED <<impl, dispatch, interest, open, owners>>

\* Mutant: the descriptor the closure captured is closed whatever happened to
\* the timer meanwhile.
EndCallbackClosing ==
    /\ current # 0
    /\ current' = 0
    /\ fds' = IF current \in timers THEN [id \in DOMAIN fds \ {current} |-> fds[id]] ELSE fds
    /\ timers' = timers \ {current}
    /\ LET closed == IF current \in DOMAIN fds /\ current \notin timers
                     THEN {} ELSE {currentFd}
       IN /\ interest' = {e \in interest : e[1] \notin closed}
          /\ open' = open \ closed /\ ready' = ready \ closed
    /\ UNCHANGED <<nextId, running, batch, reported, currentFd, owners>>

\* The callback returns; after a timer's, removeTimer(id).
EndCallback ==
    /\ current # 0
    /\ current' = 0
    /\ IF current \in timers THEN Drop(current) ELSE UNCHANGED <<fds, timers, kernel>>
    /\ UNCHANGED <<nextId, running, batch, reported, currentFd, owners>>

\* The kernel: data arrives, a timer expires.
Readable(f) ==
    /\ f \in open \ ready
    /\ ready' = ready \cup {f}
    /\ UNCHANGED <<impl, dispatch, interest, open, owners>>

-----------------------------------------------------------------------------
Next ==
    \/ \E f \in Fds : AddFd(f) \/ AddTimer(f) \/ ReadAhead(f) \/ Readable(f)
    \/ \E serial \in DOMAIN given : Forget(serial)
    \/ Quit \/ Run \/ EpollWait \/ Dispatch \/ EndCallback

Spec == Init /\ [][Next]_vars

\* The loop goes on, callbacks return, and timers expire.
FairSpec ==
    /\ Spec
    /\ WF_vars(EpollWait) /\ WF_vars(Dispatch) /\ WF_vars(EndCallback)
    /\ \A f \in Fds : WF_vars(Readable(f))

-----------------------------------------------------------------------------
\* Well typed; and what its owner has not removed, and has not run if it is a timer, is still
\* registered with the loop and with the kernel, under one identifier: no
\* callback that removes, re-adds or closes something disturbs another watch.
RegisteredUntilRemoved ==
    /\ TypeOK
    /\ \A serial \in wanted :
        \E id \in DOMAIN fds : fds[id].serial = serial /\ <<fds[id].fd, id>> \in interest

\* A callback is run only for a registration its owner still wants, and for an event
\* epoll_wait reported of that registration: never after its removal, never for an
\* event of another one that had the same descriptor number, and a timer's never
\* twice.  (Its descriptor may have been read by another callback since.)
OnlyLiveCallbacks ==
    [][current = 0 /\ current' # 0 => fds[current'].serial \in wanted \cap reported]_vars

\* While the loop runs, every timer runs or is removed.
TimersRun ==
    \A id \in Ids : id \in timers /\ running ~> id \notin timers \/ ~running
=============================================================================
