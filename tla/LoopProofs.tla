------------------------------ MODULE LoopProofs ------------------------------
(***************************************************************************)
(* Proofs about the event loop and the child processes that live in its    *)
(* callbacks.  Loop, for any number of descriptors and registrations: a    *)
(* watch stays registered until its owner removes it or its timer runs,    *)
(* and every callback that is run is the one of a registration its owner   *)
(* still wants, for an event that was reported of that registration.       *)
(* AsyncProcess, for every amount of input and output and any size of a    *)
(* pipe: what the callback is given is all the child wrote, and a          *)
(* terminated process is silent.                                           *)
(***************************************************************************)
EXTENDS Loop, AsyncProcess, FiniteSetTheorems, SequenceTheorems, TLAPS

\* Identifiers are given in order, so that a registration is known by its own.
IdsAreSerials ==
    /\ nextId = Len(given) + 1
    /\ \A i \in DOMAIN given : given[i] = i
    /\ \A id \in DOMAIN fds : id <= Len(given) /\ fds[id].serial = id

\* The kernel watches the descriptors of the entries, each under one identifier.
KernelAgrees ==
    /\ interest = {<<fds[id].fd, id>> : id \in DOMAIN fds}
    /\ \A id, other \in DOMAIN fds : fds[id].fd = fds[other].fd => id = other
    /\ \A id \in DOMAIN fds : fds[id].fd \in open

\* What is still to be looked at was registered before epoll_wait, which reported
\* its entry if that is still there: nothing has taken its identifier since.
BatchIsReported ==
    \A i \in DOMAIN batch :
        /\ batch[i] <= Len(given)
        /\ batch[i] \in DOMAIN fds => batch[i] \in reported

\* The callback being run is not looked at again, and a timer's owner has what it
\* wanted.
CurrentRuns ==
    current # 0 =>
        /\ current <= Len(given)
        /\ \A i \in DOMAIN batch : batch[i] # current
        /\ current \in timers => current \notin wanted

\* Entries are wanted, but for the timer that is running; what is wanted has one.
EntriesAreWanted ==
    /\ \A id \in DOMAIN fds : id \in wanted \/ (id = current /\ id \in timers)
    /\ wanted \subseteq DOMAIN fds

IInv ==
    /\ TypeOK
    /\ IdsAreSerials
    /\ KernelAgrees
    /\ BatchIsReported
    /\ CurrentRuns
    /\ EntriesAreWanted

-----------------------------------------------------------------------------
(* Sequences. *)

\* A domain has one length.
LEMMA SameInterval ==
    ASSUME NEW a \in Nat, NEW b \in Nat, 1..a = 1..b
    PROVE  a = b
<1>1. ASSUME a < b PROVE FALSE
    <2>1. b \in 1..b /\ b \notin 1..a
        BY <1>1
    <2> QED BY <2>1
<1>2. ASSUME b < a PROVE FALSE
    <2>1. a \in 1..a /\ a \notin 1..b
        BY <1>2
    <2> QED BY <2>1
<1> QED BY <1>1, <1>2

\* A bounded sequence is a sequence of bounded length.
LEMMA SeqOfIsSeq ==
    ASSUME NEW S, NEW n \in Nat, NEW s
    PROVE  s \in SeqOf(S, n) <=> s \in Seq(S) /\ Len(s) <= n
<1>1. ASSUME s \in SeqOf(S, n) PROVE s \in Seq(S) /\ Len(s) <= n
    <2>1. PICK m \in 0..n : s \in [1..m -> S]
        BY <1>1 DEF SeqOf
    <2>2. s \in Seq(S)
        BY <2>1
    <2>3. Len(s) \in Nat /\ DOMAIN s = 1..Len(s) /\ DOMAIN s = 1..m
        BY <2>1, <2>2, LenProperties
    <2>4. m \in Nat /\ 1..Len(s) = 1..m
        BY <2>1, <2>3
    <2>5. Len(s) = m
        BY <2>3, <2>4, SameInterval
    <2> QED BY <2>1, <2>2, <2>5
<1>2. ASSUME s \in Seq(S), Len(s) <= n PROVE s \in SeqOf(S, n)
    <2>1. Len(s) \in 0..n /\ s \in [1..Len(s) -> S]
        BY <1>2, LenProperties
    <2> QED BY <2>1 DEF SeqOf
<1> QED BY <1>1, <1>2

\* The tail of a bounded sequence without repetitions is one, and has not the head.
LEMMA TailOfBatch ==
    ASSUME NEW S, NEW n \in Nat, NEW s \in SeqOf(S, n), IsInjective(s), s # <<>>
    PROVE  /\ Head(s) \in S /\ Head(s) = s[1] /\ 1 \in DOMAIN s
           /\ Tail(s) \in SeqOf(S, n) /\ IsInjective(Tail(s))
           /\ \A i \in DOMAIN Tail(s) : i + 1 \in DOMAIN s /\ Tail(s)[i] = s[i + 1] /\ Tail(s)[i] # Head(s)
<1>1. s \in Seq(S) /\ Len(s) <= n /\ Len(s) \in Nat /\ DOMAIN s = 1..Len(s)
    BY SeqOfIsSeq, LenProperties
<1>2. Len(s) > 0
    BY <1>1, EmptySeq
<1>3. /\ Head(s) \in S /\ Tail(s) \in Seq(S) /\ Len(Tail(s)) = Len(s) - 1
      /\ \A i \in 1..Len(Tail(s)) : Tail(s)[i] = s[i + 1]
    BY <1>1, HeadTailProperties
<1>4. Head(s) = s[1] /\ 1 \in DOMAIN s
    BY <1>1, <1>2
<1>5. DOMAIN Tail(s) = 1..Len(s) - 1
    BY <1>1, <1>2, <1>3, LenProperties
<1>6. Tail(s) \in SeqOf(S, n)
    <2>1. Len(Tail(s)) <= n
        BY <1>1, <1>3
    <2> QED BY <1>3, <2>1, SeqOfIsSeq
<1>7. \A i \in DOMAIN Tail(s) : i + 1 \in DOMAIN s /\ Tail(s)[i] = s[i + 1] /\ i + 1 # 1
    BY <1>1, <1>3, <1>5
<1>8. IsInjective(Tail(s))
    BY <1>1, <1>5, <1>7 DEF IsInjective
<1> QED BY <1>3, <1>4, <1>6, <1>7, <1>8 DEF IsInjective

\* The empty batch.
LEMMA EmptyBatch ==
    <<>> \in SeqOf(Ids, MaxSerial) /\ DOMAIN <<>> = {} /\ Len(<<>>) = 0 /\ IsInjective(<<>>)
<1>1. <<>> \in Seq(Ids) /\ Len(<<>>) = 0 /\ DOMAIN <<>> = {}
    BY EmptySeq
<1>2. Len(<<>>) <= MaxSerial
    BY <1>1, LoopAssumption
<1>3. <<>> \in SeqOf(Ids, MaxSerial)
    BY <1>1, <1>2, SeqOfIsSeq, LoopAssumption
<1>4. IsInjective(<<>>)
    BY <1>1 DEF IsInjective
<1> QED BY <1>1, <1>3, <1>4

\* Any order of a set of identifiers is a batch.
LEMMA OrdersAreBatches ==
    ASSUME NEW S \in SUBSET Ids, NEW s \in SetToSeqs(S)
    PROVE  s \in SeqOf(Ids, MaxSerial) /\ IsInjective(s) /\ \A i \in DOMAIN s : s[i] \in S
<1>1. IsFiniteSet(Ids) /\ Cardinality(Ids) = MaxSerial
    BY FS_Interval, LoopAssumption DEF Ids
<1>2. Cardinality(S) \in Nat /\ Cardinality(S) <= MaxSerial
    BY <1>1, FS_Subset, FS_CardinalityType
<1>3. s \in [1..Cardinality(S) -> S] /\ \A i, j \in 1..Cardinality(S) : i # j => s[i] # s[j]
    BY DEF SetToSeqs
<1>4. s \in [1..Cardinality(S) -> Ids] /\ Cardinality(S) \in 0..MaxSerial
    BY <1>2, <1>3
<1>5. s \in SeqOf(Ids, MaxSerial)
    BY <1>4 DEF SeqOf
<1> QED BY <1>3, <1>5 DEF IsInjective

\* Appending to a bounded sequence that is not full.
LEMMA AppendToBounded ==
    ASSUME NEW S, NEW n \in Nat, NEW s \in SeqOf(S, n), Len(s) < n, NEW e \in S
    PROVE  /\ Append(s, e) \in SeqOf(S, n) /\ Len(Append(s, e)) = Len(s) + 1 /\ Len(s) \in Nat
           /\ DOMAIN Append(s, e) = DOMAIN s \cup {Len(s) + 1}
           /\ \A i \in DOMAIN s : Append(s, e)[i] = s[i]
           /\ Append(s, e)[Len(s) + 1] = e
           /\ DOMAIN s = 1..Len(s)
<1>1. s \in Seq(S) /\ Len(s) \in Nat /\ DOMAIN s = 1..Len(s)
    BY SeqOfIsSeq, LenProperties
<1>2. /\ Append(s, e) \in Seq(S) /\ Len(Append(s, e)) = Len(s) + 1
      /\ \A i \in 1..Len(s) : Append(s, e)[i] = s[i]
      /\ Append(s, e)[Len(s) + 1] = e
    BY <1>1, AppendProperties
<1>3. DOMAIN Append(s, e) = 1..Len(s) + 1
    BY <1>2, LenProperties
<1>4. Append(s, e) \in SeqOf(S, n)
    <2>1. Len(Append(s, e)) <= n
        BY <1>1, <1>2
    <2> QED BY <1>2, <2>1, SeqOfIsSeq
<1> QED BY <1>1, <1>2, <1>3, <1>4

-----------------------------------------------------------------------------
(* What the operations do to the invariant. *)

\* addFd, and addTimer with the same entry in timers: the identifier is new, and so
\* is the descriptor to everything that knows one.
LEMMA RegisterInductive ==
    ASSUME IInv, NEW f \in Fds, Register(f), timers' \in {timers, timers \cup {AllocateId}},
           UNCHANGED <<running, dispatch, ready>>
    PROVE  IInv'
<1> DEFINE new == Len(given) + 1
<1>0. TypeOK /\ MaxSerial \in Nat
    BY LoopAssumption DEF IInv
<1>1. /\ given \in SeqOf(Ids, MaxSerial) /\ Len(given) < MaxSerial /\ Len(given) \in Nat
      /\ DOMAIN given = 1..Len(given)
      /\ new \in Ids /\ new \notin DOMAIN fds /\ AllocateId = new
      /\ f \notin open
    <2>1. given \in SeqOf(Ids, MaxSerial) /\ Len(given) < MaxSerial
        BY <1>0 DEF Register, TypeOK
    <2>2. Len(given) \in Nat /\ DOMAIN given = 1..Len(given)
        BY <1>0, <2>1, SeqOfIsSeq, LenProperties
    <2>3. new \in Ids /\ AllocateId = new
        BY <1>0, <2>1, <2>2 DEF Ids, AllocateId, IInv, IdsAreSerials
    <2>4. new \notin DOMAIN fds
        BY <2>2 DEF IInv, IdsAreSerials
    <2> QED BY <2>1, <2>2, <2>3, <2>4 DEF Register
<1> HIDE DEF new
<1>2. /\ DOMAIN fds' = DOMAIN fds \cup {new}
      /\ \A id \in DOMAIN fds : fds'[id] = fds[id]
      /\ fds'[new] = [fd |-> f, serial |-> new]
      /\ interest' = interest \cup {<<f, new>>}
      /\ open' = open \cup {f}
      /\ nextId' = nextId + 1
      /\ wanted' = wanted \cup {new}
      /\ given' = Append(given, new)
    BY <1>1 DEF Register, new
<1>3. /\ given' \in SeqOf(Ids, MaxSerial) /\ Len(given') = Len(given) + 1
      /\ DOMAIN given' = DOMAIN given \cup {new}
      /\ \A i \in DOMAIN given : given'[i] = given[i]
      /\ given'[new] = new
    BY <1>0, <1>1, <1>2, AppendToBounded DEF new
<1>4. UNCHANGED <<running, batch, reported, current, currentFd, ready>>
    BY DEF dispatch
<1>5. timers' \subseteq timers \cup {new} /\ timers \subseteq timers'
    BY <1>1
<1>6. TypeOK'
    <2>1. nextId' \in 1..(MaxSerial + 1)
        BY <1>0, <1>1, <1>2 DEF IInv, IdsAreSerials
    <2>2. DOMAIN fds' \subseteq Ids /\ \A id \in DOMAIN fds' : fds'[id] \in Entries
        BY <1>0, <1>1, <1>2 DEF TypeOK, Entries
    <2>3. /\ interest' \subseteq Fds \X Ids /\ open' \subseteq Fds /\ ready' \subseteq open'
        BY <1>0, <1>1, <1>2, <1>4 DEF TypeOK
    <2>4. {e[1] : e \in interest'} \subseteq open'
        BY <1>0, <1>2 DEF TypeOK
    <2>5. timers' \subseteq DOMAIN fds' /\ wanted' \subseteq DOMAIN given'
        BY <1>0, <1>2, <1>3, <1>5 DEF TypeOK
    <2> QED BY <1>0, <1>3, <1>4, <2>1, <2>2, <2>3, <2>4, <2>5 DEF TypeOK
<1>7. IdsAreSerials'
    <2>1. nextId' = Len(given') + 1
        BY <1>1, <1>2, <1>3 DEF IInv, IdsAreSerials
    <2>2. \A i \in DOMAIN given' : given'[i] = i
        BY <1>3 DEF IInv, IdsAreSerials
    <2>3. \A id \in DOMAIN fds' : id <= Len(given') /\ fds'[id].serial = id
        <3>1. \A id \in DOMAIN fds : id <= Len(given') /\ fds'[id].serial = id
            BY <1>0, <1>1, <1>2, <1>3 DEF IInv, IdsAreSerials, TypeOK, Ids
        <3>2. new <= Len(given') /\ fds'[new].serial = new
            BY <1>1, <1>2, <1>3 DEF new
        <3> QED BY <1>2, <3>1, <3>2
    <2> QED BY <2>1, <2>2, <2>3 DEF IdsAreSerials
<1>8. KernelAgrees'
    <2>1. interest = {<<fds[id].fd, id>> : id \in DOMAIN fds}
        BY DEF IInv, KernelAgrees
    <2>2. interest' = {<<fds'[id].fd, id>> : id \in DOMAIN fds'}
        BY <1>2, <2>1
    <2>3. \A id \in DOMAIN fds : fds[id].fd \in open /\ fds[id].fd # f
        BY <1>1 DEF IInv, KernelAgrees
    <2>4. /\ \A id, other \in DOMAIN fds' : fds'[id].fd = fds'[other].fd => id = other
          /\ \A id \in DOMAIN fds' : fds'[id].fd \in open'
        BY <1>2, <2>3 DEF IInv, KernelAgrees
    <2> QED BY <2>2, <2>4 DEF KernelAgrees
<1>9. BatchIsReported'
    <2>1. \A i \in DOMAIN batch : batch[i] <= Len(given) /\ batch[i] \in Ids
        <3>1. batch \in Seq(Ids)
            BY <1>0, SeqOfIsSeq DEF TypeOK
        <3> QED BY <3>1, LenProperties DEF IInv, BatchIsReported
    <2>2. \A i \in DOMAIN batch : batch[i] <= Len(given') /\ batch[i] # new
        BY <1>1, <1>3, <2>1 DEF new, Ids
    <2> QED BY <1>2, <1>4, <2>2 DEF IInv, BatchIsReported
<1>10. CurrentRuns' /\ EntriesAreWanted'
    <2>1. current # 0 => current <= Len(given) /\ current # new /\ current <= Len(given')
        BY <1>0, <1>1, <1>3 DEF IInv, CurrentRuns, TypeOK, Ids, new
    <2>2. CurrentRuns'
        BY <1>2, <1>4, <1>5, <2>1 DEF IInv, CurrentRuns
    <2>3. EntriesAreWanted'
        BY <1>2, <1>4, <1>5 DEF IInv, EntriesAreWanted
    <2> QED BY <2>2, <2>3
<1> QED BY <1>6, <1>7, <1>8, <1>9, <1>10 DEF IInv

\* removeFd, removeTimer: exactly one entry goes, with its descriptor.
LEMMA DropEffect ==
    ASSUME IInv, NEW id, Drop(id)
    PROVE  /\ DOMAIN fds' = DOMAIN fds \ {id}
           /\ \A other \in DOMAIN fds' : fds'[other] = fds[other]
           /\ timers' = timers \ {id}
           /\ interest' = {<<fds'[other].fd, other>> : other \in DOMAIN fds'}
           /\ open' \subseteq open /\ ready' \subseteq open' /\ ready' \subseteq ready
           /\ \A other \in DOMAIN fds' : fds[other].fd \in open'
<1> DEFINE closed == {fds[id].fd : x \in DOMAIN fds \cap {id}}
<1>1. /\ fds' = [other \in DOMAIN fds \ {id} |-> fds[other]]
      /\ timers' = timers \ {id}
      /\ interest' = {e \in interest : e[1] \notin closed}
      /\ open' = open \ closed /\ ready' = ready \ closed
    BY DEF Drop
<1>2. DOMAIN fds' = DOMAIN fds \ {id} /\ \A other \in DOMAIN fds' : fds'[other] = fds[other]
    BY <1>1
<1>3. \A other \in DOMAIN fds : fds[other].fd \in closed <=> other = id
    BY DEF IInv, KernelAgrees
<1> HIDE DEF closed
<1>4. interest' = {<<fds'[other].fd, other>> : other \in DOMAIN fds'}
    <2>1. interest = {<<fds[other].fd, other>> : other \in DOMAIN fds}
        BY DEF IInv, KernelAgrees
    <2>2. ASSUME NEW e, e \in interest' PROVE e \in {<<fds'[other].fd, other>> : other \in DOMAIN fds'}
        <3>1. PICK other \in DOMAIN fds : e = <<fds[other].fd, other>>
            BY <1>1, <2>1, <2>2
        <3>2. other # id
            BY <1>1, <1>3, <2>2, <3>1
        <3> QED BY <1>2, <3>1, <3>2
    <2>3. ASSUME NEW other \in DOMAIN fds' PROVE <<fds'[other].fd, other>> \in interest'
        <3>1. <<fds[other].fd, other>> \in interest /\ fds[other].fd \notin closed
            BY <1>2, <1>3, <2>1
        <3> QED BY <1>1, <1>2, <3>1
    <2> QED BY <2>2, <2>3
<1>5. open' \subseteq open /\ ready' \subseteq open' /\ ready' \subseteq ready
    BY <1>1 DEF IInv, TypeOK
<1>6. \A other \in DOMAIN fds' : fds[other].fd \in open'
    BY <1>1, <1>2, <1>3 DEF IInv, KernelAgrees
<1> QED BY <1>1, <1>2, <1>4, <1>5, <1>6

\* Nobody else's watch, event or wish is touched, whoever does it: an owner, who no
\* longer wants the registration, or the loop after a timer has run.
LEMMA DropInductive ==
    ASSUME IInv, NEW id, Drop(id), wanted' = wanted \ {id},
           UNCHANGED <<nextId, running, batch, reported, currentFd, given>>,
           current' = current \/ (current' = 0 /\ current = id)
    PROVE  IInv'
<1>0. TypeOK
    BY DEF IInv
<1>1. /\ DOMAIN fds' = DOMAIN fds \ {id}
      /\ \A other \in DOMAIN fds' : fds'[other] = fds[other]
      /\ timers' = timers \ {id}
      /\ interest' = {<<fds'[other].fd, other>> : other \in DOMAIN fds'}
      /\ open' \subseteq open /\ ready' \subseteq open' /\ ready' \subseteq ready
      /\ \A other \in DOMAIN fds' : fds[other].fd \in open'
    BY DropEffect
<1>2. TypeOK'
    <2>1. \A other \in DOMAIN fds' : other \in Ids /\ fds'[other] \in Entries /\ fds'[other].fd \in open'
        BY <1>0, <1>1 DEF TypeOK
    <2>2. {e[1] : e \in interest'} \subseteq open'
        BY <1>1, <2>1
    <2>3. interest' \subseteq Fds \X Ids
        BY <1>1, <2>1 DEF Entries
    <2>4. open' \subseteq Fds /\ timers' \subseteq DOMAIN fds' /\ wanted' \subseteq DOMAIN given' /\ current' \in {0} \cup Ids
        BY <1>0, <1>1 DEF TypeOK
    <2> QED BY <1>0, <1>1, <2>1, <2>2, <2>3, <2>4 DEF TypeOK
<1>3. IdsAreSerials'
    BY <1>1 DEF IInv, IdsAreSerials
<1>4. KernelAgrees'
    BY <1>1 DEF IInv, KernelAgrees
<1>5. BatchIsReported'
    BY <1>1 DEF IInv, BatchIsReported
<1>6. CurrentRuns'
    BY <1>1 DEF IInv, CurrentRuns
<1>7. EntriesAreWanted'
    BY <1>1 DEF IInv, EntriesAreWanted
<1> QED BY <1>2, <1>3, <1>4, <1>5, <1>6, <1>7 DEF IInv

\* An owner removes by the identifier it was given, which is its registration's own.
LEMMA ForgetInductive ==
    ASSUME IInv, NEW serial \in DOMAIN given, Forget(serial)
    PROVE  IInv'
<1>1. given[serial] = serial
    BY DEF IInv, IdsAreSerials
<1>2. Drop(serial) /\ wanted' = wanted \ {serial} /\ current' = current
      /\ UNCHANGED <<nextId, running, batch, reported, currentFd, given>>
    BY <1>1 DEF Forget, dispatch
<1> QED BY <1>2, DropInductive

\* The callback returns; a timer's entry goes, which its owner stopped wanting when
\* it ran.
LEMMA EndInductive ==
    ASSUME IInv, EndCallback
    PROVE  IInv'
<1>0. current # 0 /\ current' = 0 /\ UNCHANGED <<nextId, running, batch, reported, currentFd, given, wanted>>
    BY DEF EndCallback, owners
<1>1. CASE current \in timers
    <2>1. Drop(current) /\ wanted' = wanted \ {current}
        BY <1>0, <1>1 DEF EndCallback, IInv, CurrentRuns
    <2> QED BY <1>0, <2>1, DropInductive
<1>2. CASE current \notin timers
    <2>1. UNCHANGED <<fds, timers, interest, open, ready>>
        BY <1>2 DEF EndCallback, kernel
    <2>2. TypeOK' /\ IdsAreSerials' /\ KernelAgrees' /\ BatchIsReported'
        BY <1>0, <2>1 DEF IInv, TypeOK, IdsAreSerials, KernelAgrees, BatchIsReported
    <2>3. CurrentRuns' /\ EntriesAreWanted'
        BY <1>0, <1>2, <2>1 DEF IInv, CurrentRuns, EntriesAreWanted
    <2> QED BY <2>2, <2>3 DEF IInv
<1> QED BY <1>1, <1>2

\* epoll_wait: what is ready has an entry.
LEMMA WaitInductive ==
    ASSUME IInv, EpollWait
    PROVE  IInv'
<1> DEFINE events == {e[2] : e \in {e \in interest : e[1] \in ready}}
<1>0. /\ current = 0 /\ batch' \in SetToSeqs(events)
      /\ reported' = {fds[id].serial : id \in events \cap DOMAIN fds}
      /\ UNCHANGED <<nextId, running, fds, timers, current, currentFd, interest, open, ready, given, wanted>>
    BY DEF EpollWait, impl, kernel, owners
<1>1. ASSUME NEW id \in events PROVE id \in Ids /\ id \in DOMAIN fds /\ fds[id].serial = id
    <2>1. PICK e \in interest : e[1] \in ready /\ id = e[2]
        OBVIOUS
    <2>2. PICK other \in DOMAIN fds : e = <<fds[other].fd, other>>
        BY DEF IInv, KernelAgrees
    <2> QED BY <2>1, <2>2 DEF IInv, TypeOK, IdsAreSerials
<1>2. events \in SUBSET Ids
    BY <1>1
<1> HIDE DEF events
<1>3. batch' \in SeqOf(Ids, MaxSerial) /\ IsInjective(batch') /\ \A i \in DOMAIN batch' : batch'[i] \in events
    BY <1>0, <1>2, OrdersAreBatches
<1>s. reported' = events
    BY <1>0, <1>1
<1>4. TypeOK' /\ IdsAreSerials' /\ KernelAgrees' /\ EntriesAreWanted' /\ CurrentRuns'
    BY <1>0, <1>2, <1>3, <1>s DEF IInv, TypeOK, IdsAreSerials, KernelAgrees, EntriesAreWanted, CurrentRuns
<1>5. BatchIsReported'
    BY <1>0, <1>1, <1>3, <1>s DEF IInv, IdsAreSerials, BatchIsReported
<1> QED BY <1>4, <1>5 DEF IInv

\* The next event of the batch.
LEMMA DispatchInductive ==
    ASSUME IInv, Dispatch
    PROVE  IInv'
<1> DEFINE id == Head(batch)
<1>0. /\ current = 0 /\ batch # <<>> /\ batch' = Tail(batch)
      /\ reported' = IF batch' = <<>> THEN {} ELSE reported
      /\ UNCHANGED <<nextId, running, fds, timers, interest, open, given>>
    BY DEF Dispatch, impl
<1>1. TypeOK /\ MaxSerial \in Nat /\ batch \in SeqOf(Ids, MaxSerial) /\ IsInjective(batch)
    BY LoopAssumption DEF IInv, TypeOK
<1>2. /\ id \in Ids /\ id = batch[1] /\ 1 \in DOMAIN batch
      /\ batch' \in SeqOf(Ids, MaxSerial) /\ IsInjective(batch')
      /\ \A i \in DOMAIN batch' : i + 1 \in DOMAIN batch /\ batch'[i] = batch[i + 1] /\ batch'[i] # id
    BY <1>0, <1>1, TailOfBatch
<1>3. reported' \subseteq Ids
      /\ \A i \in DOMAIN batch' : batch'[i] <= Len(given) /\ (batch'[i] \in DOMAIN fds => batch'[i] \in reported')
    <2>1. \A i \in DOMAIN batch' : batch'[i] <= Len(given) /\ (batch'[i] \in DOMAIN fds => batch'[i] \in reported)
        BY <1>2 DEF IInv, BatchIsReported
    <2>2. ASSUME NEW i \in DOMAIN batch' PROVE reported' = reported
        BY <1>0, EmptyBatch
    <2> QED BY <1>0, <1>1, <2>1, <2>2 DEF TypeOK
<1>4. CASE id \notin DOMAIN fds
    <2>1. UNCHANGED <<current, currentFd, ready, wanted>>
        BY <1>4 DEF Dispatch
    <2>2. TypeOK' /\ IdsAreSerials' /\ KernelAgrees'
        BY <1>0, <1>1, <1>2, <1>3, <2>1 DEF IInv, TypeOK, IdsAreSerials, KernelAgrees
    <2>3. BatchIsReported' /\ CurrentRuns' /\ EntriesAreWanted'
        BY <1>0, <1>3, <2>1 DEF IInv, BatchIsReported, CurrentRuns, EntriesAreWanted
    <2> QED BY <2>2, <2>3 DEF IInv
<1>5. CASE id \in DOMAIN fds
    <2>1. /\ current' = id
          /\ currentFd' = fds[id].fd
          /\ ready' = ready \ {fds[id].fd}
          /\ wanted' = IF id \in timers THEN wanted \ {fds[id].serial} ELSE wanted
        BY <1>5 DEF Dispatch
    <2>2. fds[id].serial = id /\ id <= Len(given) /\ fds[id] \in Entries
        BY <1>1, <1>5 DEF IInv, IdsAreSerials, TypeOK
    <2> HIDE DEF id
    <2>3. TypeOK'
        <3>1. currentFd' \in Fds /\ current' \in {0} \cup Ids /\ ready' \subseteq open /\ wanted' \subseteq DOMAIN given
            BY <1>1, <1>2, <2>1, <2>2 DEF TypeOK, Entries
        <3> QED BY <1>0, <1>1, <1>2, <1>3, <3>1 DEF TypeOK
    <2>4. IdsAreSerials' /\ KernelAgrees'
        BY <1>0 DEF IInv, IdsAreSerials, KernelAgrees
    <2>5. BatchIsReported'
        BY <1>0, <1>3 DEF BatchIsReported
    <2>6. CurrentRuns'
        BY <1>0, <1>2, <2>1, <2>2 DEF CurrentRuns
    <2>7. EntriesAreWanted'
        BY <1>0, <2>1, <2>2 DEF IInv, EntriesAreWanted, TypeOK, Ids
    <2> QED BY <2>3, <2>4, <2>5, <2>6, <2>7 DEF IInv
<1> QED BY <1>4, <1>5

\* Every step of the loop, its callbacks and the kernel keeps the invariant.
LEMMA NextInductive == IInv /\ [Next]_vars => IInv'
<1> SUFFICES ASSUME IInv, [Next]_vars PROVE IInv'
    OBVIOUS
<1>1. ASSUME NEW f \in Fds, AddFd(f) \/ AddTimer(f) PROVE IInv'
    <2>1. /\ Register(f) /\ timers' \in {timers, timers \cup {AllocateId}}
          /\ UNCHANGED <<running, dispatch, ready>>
        BY <1>1 DEF AddFd, AddTimer
    <2> QED BY <2>1, RegisterInductive
<1>2. ASSUME NEW f \in Fds, Readable(f) \/ ReadAhead(f) PROVE IInv'
    <2>1. /\ ready' \in SUBSET open
          /\ UNCHANGED <<nextId, running, fds, timers, batch, reported, current, currentFd, interest, open, given, wanted>>
        BY <1>2 DEF IInv, TypeOK, Readable, ReadAhead, impl, dispatch, owners
    <2>2. TypeOK'
        BY <2>1 DEF IInv, TypeOK
    <2>3. IdsAreSerials' /\ KernelAgrees' /\ BatchIsReported' /\ CurrentRuns' /\ EntriesAreWanted'
        BY <2>1 DEF IInv, IdsAreSerials, KernelAgrees, BatchIsReported, CurrentRuns, EntriesAreWanted
    <2> QED BY <2>2, <2>3 DEF IInv
<1>3. ASSUME NEW serial \in DOMAIN given, Forget(serial) PROVE IInv'
    BY <1>3, ForgetInductive
<1>4. CASE Quit
    <2>1. /\ running' = FALSE
          /\ UNCHANGED <<nextId, fds, timers, batch, reported, current, currentFd, interest, open, ready, given, wanted>>
        BY <1>4 DEF Quit, dispatch, kernel, owners
    <2>2. TypeOK'
        BY <2>1 DEF IInv, TypeOK
    <2>3. IdsAreSerials' /\ KernelAgrees' /\ BatchIsReported' /\ CurrentRuns' /\ EntriesAreWanted'
        BY <2>1 DEF IInv, IdsAreSerials, KernelAgrees, BatchIsReported, CurrentRuns, EntriesAreWanted
    <2> QED BY <2>2, <2>3 DEF IInv
<1>5. CASE Run
    <2>1. /\ running' = TRUE /\ batch' = <<>> /\ reported' = {}
          /\ UNCHANGED <<nextId, fds, timers, current, currentFd, interest, open, ready, given, wanted>>
        BY <1>5 DEF Run, kernel, owners
    <2>2. <<>> \in SeqOf(Ids, MaxSerial) /\ DOMAIN <<>> = {} /\ IsInjective(<<>>)
        BY EmptyBatch
    <2> QED BY <2>1, <2>2
            DEF IInv, TypeOK, IdsAreSerials, KernelAgrees, BatchIsReported, CurrentRuns, EntriesAreWanted
<1>6. CASE EpollWait
    BY <1>6, WaitInductive
<1>7. CASE Dispatch
    BY <1>7, DispatchInductive
<1>8. CASE EndCallback
    BY <1>8, EndInductive
<1>9. CASE UNCHANGED vars
    BY <1>9 DEF vars, impl, dispatch, kernel, owners, IInv, TypeOK, IdsAreSerials, KernelAgrees, BatchIsReported,
                CurrentRuns, EntriesAreWanted
<1> QED BY <1>1, <1>2, <1>3, <1>4, <1>5, <1>6, <1>7, <1>8, <1>9 DEF Next

\* Nothing is registered at first.
LEMMA InitInductive == Init => IInv
<1> SUFFICES ASSUME Init PROVE IInv
    OBVIOUS
<1>1. <<>> \in SeqOf(Ids, MaxSerial) /\ DOMAIN <<>> = {} /\ Len(<<>>) = 0 /\ IsInjective(<<>>)
    BY EmptyBatch
<1>2. DOMAIN fds = {} /\ nextId \in 1..(MaxSerial + 1)
    BY LoopAssumption DEF Init
<1>3. TypeOK
    BY <1>1, <1>2 DEF Init, TypeOK
<1>4. IdsAreSerials /\ KernelAgrees /\ BatchIsReported /\ CurrentRuns /\ EntriesAreWanted
    BY <1>1, <1>2 DEF Init, IdsAreSerials, KernelAgrees, BatchIsReported, CurrentRuns, EntriesAreWanted
<1> QED BY <1>3, <1>4 DEF IInv

-----------------------------------------------------------------------------
(* What follows. *)

\* The inductive invariant: identifiers are never given twice, entries and the
\* kernel's interest agree, and the events still to look at are of live entries
\* that are ready, or of none.
THEOREM SpecIInv == Spec => []IInv
    BY InitInductive, NextInductive, PTL DEF Spec

\* What its owner wants is registered with the loop and the kernel under one
\* identifier, whatever callbacks add, remove and close meanwhile.
THEOREM LoopRegisteredUntilRemoved == Spec => []RegisteredUntilRemoved
<1>1. IInv => RegisteredUntilRemoved
    <2> SUFFICES ASSUME IInv, NEW serial \in wanted
                 PROVE  /\ serial \in DOMAIN fds /\ fds[serial].serial = serial
                        /\ <<fds[serial].fd, serial>> \in interest
        BY DEF RegisteredUntilRemoved, IInv
    <2> QED BY DEF IInv, EntriesAreWanted, IdsAreSerials, KernelAgrees
<1> QED BY <1>1, SpecIInv, PTL

\* No callback is run for a registration that was removed, for an event that was of
\* another one of the same descriptor number, or for a timer that has run.
THEOREM LoopOnlyLiveCallbacks == Spec => OnlyLiveCallbacks
<1>1. IInv /\ [Next]_vars =>
          [current = 0 /\ current' # 0 => fds[current'].serial \in wanted \cap reported]_vars
    <2> SUFFICES ASSUME IInv, Next, current = 0, current' # 0
                 PROVE  fds[current'].serial \in wanted \cap reported
        OBVIOUS
    <2>1. Dispatch
        BY DEF Next, AddFd, AddTimer, ReadAhead, Readable, Forget, Quit, Run, EpollWait, EndCallback, dispatch
    <2>2. current' = Head(batch) /\ Head(batch) \in DOMAIN fds /\ batch # <<>>
        BY <2>1 DEF Dispatch
    <2>3. Head(batch) = batch[1] /\ 1 \in DOMAIN batch
        BY <2>2, TailOfBatch, LoopAssumption DEF IInv, TypeOK
    <2>4. current' \in reported
        BY <2>2, <2>3 DEF IInv, BatchIsReported
    <2>5. fds[current'].serial = current' /\ current' \in wanted
        BY <2>2 DEF IInv, IdsAreSerials, EntriesAreWanted
    <2> QED BY <2>4, <2>5
<1> QED BY <1>1, SpecIInv, PTL DEF Spec, OnlyLiveCallbacks
-----------------------------------------------------------------------------
(* Child processes. *)

\* Before start() there is nothing.
NewIsEmpty ==
    object = "new" => /\ child = "none" /\ ~hasPid /\ ~waitTimer /\ ~stdoutOpen /\ ~writeEnds
                      /\ ~finished /\ ~terminated /\ written = 0 /\ result = "none"

\* What a child wrote was read, or is still in the pipe.
OutputAddsUp == written = output + outPipe

\* A child that ended has its status, and nobody reads from or polls for a child
\* that was reaped.
StatusFollowsChild ==
    /\ child \in {"zombie", "reaped"} => status \in Statuses
    /\ waitTimer \/ stdoutOpen => hasPid

\* Whoever still waits to be called back polls only after the end of the output:
\* terminate() is the only other way to begin to poll, and it takes the callback.
PollsAfterTheEnd ==
    callback /\ waitTimer => ~stdoutOpen /\ outPipe = 0 /\ ~writeEnds

\* Finishing and terminating end the conversation.
EndsAreFinal ==
    /\ finished => ~callback /\ ~stdinOpen /\ ~stdoutOpen /\ ~waitTimer
    /\ terminated => ~callback /\ ~stdoutOpen
    /\ result # "none" => finished

\* The callback was given everything.
WholeResult == result \in Statuses => resultOutput = written /\ result = status /\ child = "reaped"

ProcessIInv ==
    /\ ProcessTypeOK
    /\ NewIsEmpty
    /\ OutputAddsUp
    /\ StatusFollowsChild
    /\ PollsAfterTheEnd
    /\ EndsAreFinal
    /\ WholeResult

-----------------------------------------------------------------------------
(* What the steps do. *)

\* The smaller of two numbers: as much as fits, and as much as there is.
LEMMA MinOfTwo ==
    ASSUME NEW a \in Nat, NEW b \in Nat
    PROVE  Min({a, b}) \in Nat /\ Min({a, b}) <= a /\ Min({a, b}) <= b
<1>1. \E x \in {a, b} : \A y \in {a, b} : x <= y
    OBVIOUS
<1>2. Min({a, b}) \in {a, b} /\ \A y \in {a, b} : Min({a, b}) <= y
    BY <1>1 DEF Min
<1> QED BY <1>2

\* writeReady never writes more than there is, nor more than fits.
LEMMA WriteTypes ==
    ASSUME ProcessTypeOK, WriteReady
    PROVE  inputOffset' \in 0..Input /\ inPipe' \in 0..PipeSize /\ stdinOpen' \in BOOLEAN
<1>1. CASE readEnd
    <2> DEFINE n == Min({Input - inputOffset, PipeSize - inPipe})
    <2>1. Input - inputOffset \in Nat /\ PipeSize - inPipe \in Nat
        BY AsyncProcessAssumption DEF ProcessTypeOK
    <2>2. n \in Nat /\ n <= Input - inputOffset /\ n <= PipeSize - inPipe
        BY <2>1, MinOfTwo
    <2>3. inputOffset' = inputOffset + n /\ inPipe' = inPipe + n /\ stdinOpen' = (inputOffset' < Input)
        BY <1>1 DEF WriteReady
    <2> HIDE DEF n
    <2> QED BY <2>2, <2>3, AsyncProcessAssumption DEF ProcessTypeOK
<1>2. CASE ~readEnd
    BY <1>2 DEF WriteReady, ProcessTypeOK
<1> QED BY <1>1, <1>2

\* Every step keeps every variable in its type: what was read, and what is in the
\* pipe, is never more than what the child wrote.
LEMMA ProcessTypes == ProcessIInv /\ [ProcessNext]_processVars => ProcessTypeOK'
<1> SUFFICES ASSUME ProcessIInv, [ProcessNext]_processVars PROVE ProcessTypeOK'
    OBVIOUS
<1>0. ProcessTypeOK /\ OutputAddsUp /\ NewIsEmpty /\ StatusFollowsChild /\ AsyncProcessAssumption
    BY AsyncProcessAssumption DEF ProcessIInv
<1>e. 0 \in 0..PipeSize
    BY AsyncProcessAssumption
<1> USE <1>0 DEF ProcessTypeOK
<1>1. CASE StartFails
    BY <1>1 DEF StartFails, Finish, childVars
<1>2. CASE Spawn
    BY <1>2 DEF Spawn
<1>3. CASE SpawnUnwatched
    BY <1>3 DEF SpawnUnwatched, Finish
<1>4. CASE WriteReady
    BY <1>4, WriteTypes DEF WriteReady
<1>5. CASE ReadReady
    <2>1. output' \in 0..MaxOutput /\ outPipe' \in 0..PipeSize
        BY <1>5 DEF ReadReady, OutputAddsUp, AsyncProcessAssumption
    <2> QED BY <1>5, <2>1 DEF ReadReady
<1>6. CASE PollExit
    <2>1. CASE child = "running"
        BY <1>6, <2>1 DEF PollExit
    <2>2. CASE child # "running"
        <3>1. child = "zombie" /\ status \in Statuses
            BY <1>6, <2>2 DEF PollExit, StatusFollowsChild
        <3> QED BY <1>6, <2>2, <3>1 DEF PollExit, Finish
    <2> QED BY <2>1, <2>2
<1>7. CASE Terminate
    BY <1>7 DEF Terminate, Kill
<1>8. CASE Destroy
    BY <1>8 DEF Destroy, Kill
<1>9. CASE ChildReads
    BY <1>9 DEF ChildReads, implVars
<1>10. CASE ChildStopsReading
    BY <1>10, <1>e DEF ChildStopsReading, implVars
<1>11. CASE ChildWrites
    BY <1>11 DEF ChildWrites, implVars, AsyncProcessAssumption
<1>12. CASE ChildExits \/ ChildKilled
    <2>1. PICK st \in Statuses : ChildEnds(st)
        BY <1>12 DEF ChildExits, ChildKilled, Statuses
    <2>2. writeEnds' \in BOOLEAN
        BY <2>1 DEF ChildEnds
    <2> QED BY <2>1, <2>2, <1>e DEF ChildEnds, implVars
<1>13. CASE StdoutCloses
    BY <1>13 DEF StdoutCloses, implVars
<1>14. CASE UNCHANGED processVars
    BY <1>14 DEF processVars, implVars, childVars
<1> QED
    BY <1>1, <1>2, <1>3, <1>4, <1>5, <1>6, <1>7, <1>8, <1>9, <1>10, <1>11, <1>12, <1>13, <1>14 DEF ProcessNext

\* Every step keeps the rest of the invariant.
LEMMA ProcessInductive ==
    ProcessIInv /\ [ProcessNext]_processVars =>
        /\ NewIsEmpty' /\ OutputAddsUp' /\ StatusFollowsChild'
        /\ PollsAfterTheEnd' /\ EndsAreFinal' /\ WholeResult'
<1> DEFINE Rest == /\ NewIsEmpty /\ OutputAddsUp /\ StatusFollowsChild
                   /\ PollsAfterTheEnd /\ EndsAreFinal /\ WholeResult
<1> SUFFICES ASSUME ProcessIInv, [ProcessNext]_processVars PROVE Rest'
    OBVIOUS
<1>0. ProcessTypeOK /\ Rest
    BY DEF ProcessIInv
<1> USE <1>0 DEF NewIsEmpty, OutputAddsUp, StatusFollowsChild, PollsAfterTheEnd, EndsAreFinal, WholeResult, ProcessTypeOK
<1>1. CASE StartFails
    BY <1>1 DEF StartFails, Finish, childVars, Statuses
<1>2. CASE Spawn
    BY <1>2 DEF Spawn, Statuses
<1>3. CASE SpawnUnwatched
    BY <1>3 DEF SpawnUnwatched, Finish, Statuses
<1>4. CASE WriteReady
    BY <1>4 DEF WriteReady
<1>5. CASE ReadReady
    <2>1. output' + outPipe' = output + outPipe
        BY <1>5 DEF ReadReady
    <2> QED BY <1>5, <2>1 DEF ReadReady, Statuses
<1>6. CASE PollExit
    <2>1. CASE child = "running"
        BY <1>6, <2>1 DEF PollExit
    <2>2. CASE child # "running"
        <3>1. child = "zombie" /\ status \in Statuses /\ object # "new"
            BY <1>6, <2>2 DEF PollExit
        <3>2. callback => output = written
            BY <1>6 DEF PollExit
        <3> QED BY <1>6, <2>2, <3>1, <3>2 DEF PollExit, Finish
    <2> QED BY <2>1, <2>2
<1>7. CASE Terminate
    BY <1>7 DEF Terminate
<1>8. CASE Destroy
    BY <1>8 DEF Destroy
<1>9. CASE ChildReads \/ ChildStopsReading
    BY <1>9 DEF ChildReads, ChildStopsReading, implVars
<1>10. CASE ChildWrites
    BY <1>10 DEF ChildWrites, implVars, Statuses
<1>11. CASE ChildExits \/ ChildKilled
    <2>1. PICK st \in Statuses : ChildEnds(st)
        BY <1>11 DEF ChildExits, ChildKilled, Statuses
    <2>2. writeEnds' => writeEnds
        BY <2>1 DEF ChildEnds
    <2> QED BY <2>1, <2>2 DEF ChildEnds, implVars
<1>12. CASE StdoutCloses
    BY <1>12 DEF StdoutCloses, implVars
<1>13. CASE UNCHANGED processVars
    BY <1>13 DEF processVars, implVars, childVars
<1> QED
    BY <1>1, <1>2, <1>3, <1>4, <1>5, <1>6, <1>7, <1>8, <1>9, <1>10, <1>11, <1>12, <1>13 DEF ProcessNext

\* Nothing was started at first.
LEMMA ProcessInitially == ProcessInit => ProcessIInv
<1> SUFFICES ASSUME ProcessInit PROVE ProcessIInv
    OBVIOUS
<1>1. 0 \in 0..Input /\ 0 \in 0..MaxOutput /\ 0 \in 0..PipeSize
    BY AsyncProcessAssumption
<1>2. ProcessTypeOK
    BY <1>1 DEF ProcessInit, ProcessTypeOK
<1>3. NewIsEmpty /\ OutputAddsUp /\ StatusFollowsChild /\ PollsAfterTheEnd /\ EndsAreFinal /\ WholeResult
    BY DEF ProcessInit, NewIsEmpty, OutputAddsUp, StatusFollowsChild, PollsAfterTheEnd, EndsAreFinal, WholeResult, Statuses
<1> QED BY <1>2, <1>3 DEF ProcessIInv

-----------------------------------------------------------------------------
(* What follows. *)

\* The inductive invariant: the output is accounted for, nobody with a callback
\* polls before its end, and what ended stays silent.
THEOREM ProcessSpecIInv == ProcessSpec => []ProcessIInv
<1>1. ProcessIInv /\ [ProcessNext]_processVars => ProcessIInv'
    BY ProcessTypes, ProcessInductive DEF ProcessIInv
<1> QED BY <1>1, ProcessInitially, PTL DEF ProcessSpec

\* The callback gets all the child wrote and how it ended, however the child's
\* output, its exit and its descendants interleave with the callbacks of the loop.
THEOREM AsyncProcessResultIsWhole == ProcessSpec => []ResultIsWhole
<1>1. ProcessIInv => ResultIsWhole
    BY DEF ProcessIInv, WholeResult, ResultIsWhole
<1> QED BY <1>1, ProcessSpecIInv, PTL

\* What an operation was told never changes after terminate(), which takes the
\* callback for good, nor after finish(), which has closed the pipes and the timer.
THEOREM AsyncProcessTerminatedIsSilent == ProcessSpec => TerminatedIsSilent
<1>1. ProcessIInv /\ [ProcessNext]_processVars =>
          [/\ terminated \/ finished => UNCHANGED <<result, resultOutput>>
           /\ finished => ~stdinOpen /\ ~stdoutOpen /\ ~waitTimer]_processVars
    <2> SUFFICES ASSUME ProcessIInv, ProcessNext, terminated \/ finished
                 PROVE  /\ UNCHANGED <<result, resultOutput>>
                        /\ finished => ~stdinOpen /\ ~stdoutOpen /\ ~waitTimer
        OBVIOUS
    <2>1. ~callback /\ (finished => ~stdinOpen /\ ~stdoutOpen /\ ~waitTimer)
        BY DEF ProcessIInv, EndsAreFinal
    <2>2. UNCHANGED <<result, resultOutput>>
        BY <2>1
        DEF ProcessNext, StartFails, Spawn, SpawnUnwatched, Finish, WriteReady, ReadReady, PollExit, Terminate, Destroy,
            ChildReads, ChildStopsReading, ChildWrites, ChildExits, ChildKilled, ChildEnds, StdoutCloses, implVars
    <2> QED BY <2>1, <2>2
<1> QED BY <1>1, ProcessSpecIInv, PTL DEF ProcessSpec, TerminatedIsSilent
=============================================================================
