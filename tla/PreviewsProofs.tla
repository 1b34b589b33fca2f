---------------------------- MODULE PreviewsProofs ----------------------------
(***************************************************************************)
(* Proofs about the previews, for any finite set of cards: every card the  *)
(* worker took is in exactly one place, and results never wait without a   *)
(* callback that takes them.                                               *)
(***************************************************************************)
EXTENDS Previews, FiniteSetTheorems, SequenceTheorems, WellFoundedInduction, TLAPS

Working == phase \in {"connecting", "capturing", "draining", "publishing"}

\* The worker has a card exactly while it works on one; it has ended when the picker
\* is done.
WorkerShape ==
    /\ IF Working THEN \E c \in Cards : index = {c} ELSE index = {}
    /\ main = "done" => phase = "exited"

Resulting(c) == {i \in DOMAIN results : results[i].card = c}

\* A card that is captured has no result, one with a result has one only and is not
\* shown, and all of them were taken.
Placed(c) ==
    /\ c \in index => Resulting(c) = {} /\ shown[c] = "loading"
    /\ \A i, j \in Resulting(c) : i = j
    /\ Resulting(c) # {} => c \in started /\ shown[c] = "loading"
    /\ shown[c] # "loading" => c \in started
    /\ c \in started => c \in index \/ Resulting(c) # {} \/ shown[c] # "loading"
EachPlaced == main # "done" => \A c \in Cards : Placed(c)

\* A callback is queued for a card that was taken.
Announced == idle + Cardinality(index) + (IF phase = "notifying" THEN 1 ELSE 0) <= Cardinality(started)

IInv ==
    /\ TypeOK
    /\ results \in Seq(Results)
    /\ WorkerShape
    /\ EachPlaced
    /\ Announced
    /\ ResultsAreAnnounced

-----------------------------------------------------------------------------
(* Queues. *)

\* Any natural numbers have a least one.
LEMMA LeastElement ==
    ASSUME NEW T \in SUBSET Nat, T # {}
    PROVE  \E m \in T : \A k \in T : m <= k
<1>1. PICK m \in T : \A k \in T : ~ (<<k, m>> \in OpToRel(<, Nat))
    BY WFMin, NatLessThanWellFounded, Zenon
<1>2. \A k \in T : ~ (k < m)
    BY <1>1, Zenon DEF OpToRel
<1>3. m \in Nat /\ \A k \in T : k \in Nat
    OBVIOUS
<1> QED BY <1>2, <1>3

Sorted(s) == \A i, j \in DOMAIN s : i < j => s[i] < s[j]

\* Any finite set of indices can be put in order: a smallest one that cannot would
\* be its least element before the rest.
LEMMA OrderExists ==
    ASSUME NEW S \in SUBSET Nat, IsFiniteSet(S)
    PROVE  \E s \in [1..Cardinality(S) -> S] : Sorted(s)
<1> DEFINE Bad == {n \in Nat : \E U \in SUBSET Nat : /\ IsFiniteSet(U) /\ Cardinality(U) = n
                                                     /\ ~\E s \in [1..n -> U] : Sorted(s)}
<1>1. SUFFICES ASSUME Bad # {} PROVE FALSE
    <2>1. Cardinality(S) \in Nat
        BY FS_CardinalityType
    <2>2. Cardinality(S) \notin Bad
        BY <1>1
    <2> QED BY <2>1, <2>2
<1>2. PICK n \in Bad : \A k \in Bad : n <= k
    <2>1. Bad \in SUBSET Nat
        OBVIOUS
    <2> HIDE DEF Bad
    <2> QED BY <1>1, <2>1, LeastElement
<1>3. n \in Nat
    OBVIOUS
<1>4. PICK U \in SUBSET Nat : /\ IsFiniteSet(U) /\ Cardinality(U) = n
                              /\ ~\E s \in [1..n -> U] : Sorted(s)
    OBVIOUS
<1>5. U # {}
    <2> SUFFICES ASSUME U = {} PROVE FALSE
        OBVIOUS
    <2>1. n = 0
        BY <1>4, FS_EmptySet
    <2>2. [i \in 1..n |-> 0] \in [1..n -> U] /\ Sorted([i \in 1..n |-> 0])
        BY <2>1 DEF Sorted
    <2> QED BY <1>4, <2>2
<1>6. PICK m \in U : \A k \in U : m <= k
    BY <1>5, LeastElement
<1>7. IsFiniteSet(U \ {m}) /\ Cardinality(U \ {m}) = n - 1 /\ U \ {m} \in SUBSET Nat
    BY <1>4, FS_RemoveElement
<1>8. n - 1 \in Nat
    BY <1>7, FS_CardinalityType
<1>9. n - 1 \notin Bad
    <2>1. ~ (n <= n - 1)
        BY <1>3
    <2> HIDE DEF Bad
    <2> QED BY <1>2, <2>1
<1>10. PICK t \in [1..(n - 1) -> U \ {m}] : Sorted(t)
    BY <1>7, <1>8, <1>9
<1> DEFINE s == [i \in 1..n |-> IF i = 1 THEN m ELSE t[i - 1]]
<1>11. \A i \in 1..n : i # 1 => i - 1 \in 1..(n - 1) /\ s[i] = t[i - 1] /\ s[i] \in U \ {m}
    <2>1. \A i \in 1..n : i # 1 => i - 1 \in 1..(n - 1)
        BY <1>3
    <2> QED BY <1>10, <2>1
<1>12. s \in [1..n -> U]
    BY <1>11
<1>13. Sorted(s)
    <2> SUFFICES ASSUME NEW i \in 1..n, NEW j \in 1..n, i < j PROVE s[i] < s[j]
        BY DEF Sorted
    <2>1. j # 1 /\ i \in Nat /\ j \in Nat
        BY <1>3
    <2>2. CASE i = 1
        <3>1. s[i] = m /\ s[j] \in U /\ s[j] # m
            BY <1>11, <2>1, <2>2
        <3>2. m <= s[j] /\ m \in Nat /\ s[j] \in Nat
            BY <1>6, <3>1
        <3> HIDE DEF s
        <3> QED BY <3>1, <3>2
    <2>3. CASE i # 1
        <3>1. i - 1 \in 1..(n - 1) /\ j - 1 \in 1..(n - 1) /\ s[i] = t[i - 1] /\ s[j] = t[j - 1]
            BY <1>11, <2>1, <2>3
        <3>2. i - 1 < j - 1
            BY <2>1
        <3>3. DOMAIN t = 1..(n - 1)
            BY <1>10
        <3>4. t[i - 1] < t[j - 1]
            BY <1>10, <3>1, <3>2, <3>3 DEF Sorted
        <3> QED BY <3>1, <3>4
    <2> QED BY <2>2, <2>3
<1> HIDE DEF s
<1> QED BY <1>4, <1>12, <1>13

\* What is in view is queued, each card once.
LEMMA OrderQueues ==
    ASSUME NEW S \in SUBSET Cards
    PROVE  /\ InOrder(S) \in SeqOf(Cards, Cardinality(Cards))
           /\ IsInjective(InOrder(S)) /\ ToSet(InOrder(S)) \subseteq S
<1> DEFINE q == InOrder(S)
<1>1. IsFiniteSet(S) /\ S \in SUBSET Nat /\ Cardinality(S) <= Cardinality(Cards) /\ Cardinality(Cards) \in Nat
    BY PreviewsAssumption, FS_Subset, FS_CardinalityType
<1>2. Cardinality(S) \in 0..Cardinality(Cards)
    BY <1>1, FS_CardinalityType
<1>3. q \in [1..Cardinality(S) -> S] /\ \A i, j \in DOMAIN q : i < j => q[i] < q[j]
    BY <1>1, OrderExists DEF InOrder, Sorted
<1> HIDE DEF q
<1>4. DOMAIN q = 1..Cardinality(S) /\ q \in [1..Cardinality(S) -> Cards]
    BY <1>3
<1>5. q \in SeqOf(Cards, Cardinality(Cards))
    BY <1>2, <1>4 DEF SeqOf
<1>6. IsInjective(q)
    <2> SUFFICES ASSUME NEW i \in DOMAIN q, NEW j \in DOMAIN q, q[i] = q[j] PROVE i = j
        BY DEF IsInjective
    <2>1. i \in Nat /\ j \in Nat
        BY <1>2, <1>4
    <2>2. q[i] \in Nat /\ ~(q[i] < q[i])
        <3>1. q[i] \in S
            BY <1>3, <1>4
        <3>2. \A x \in Nat : ~(x < x)
            OBVIOUS
        <3> QED BY <1>1, <3>1, <3>2, Zenon
    <2>3. ~(i < j) /\ ~(j < i)
        BY <1>3, <2>2
    <2> QED BY <2>1, <2>3
<1>7. ToSet(q) \subseteq S
    BY <1>3 DEF ToSet
<1> QED BY <1>5, <1>6, <1>7 DEF q

\* The first card of the queue, and the rest.
LEMMA QueueHead ==
    ASSUME NEW q \in SeqOf(Cards, Cardinality(Cards)), IsInjective(q), q # <<>>
    PROVE  /\ Head(q) \in Cards /\ Head(q) \in ToSet(q)
           /\ Tail(q) \in SeqOf(Cards, Cardinality(Cards)) /\ IsInjective(Tail(q))
           /\ ToSet(Tail(q)) \subseteq ToSet(q) \ {Head(q)}
<1>1. PICK n \in 0..Cardinality(Cards) : q \in [1..n -> Cards]
    BY DEF SeqOf
<1>2. n \in Nat /\ Cardinality(Cards) \in Nat /\ n <= Cardinality(Cards)
    BY PreviewsAssumption, FS_CardinalityType
<1>3. q \in Seq(Cards) /\ Len(q) = n /\ DOMAIN q = 1..n
    BY <1>1, <1>2
<1>4. n # 0
    BY <1>3
<1>5. 1 \in DOMAIN q /\ Head(q) = q[1]
    BY <1>2, <1>3, <1>4
<1>6. Tail(q) = [i \in 1..(n - 1) |-> q[i + 1]]
    <2>1. Tail(q) \in Seq(Cards) /\ Len(Tail(q)) = n - 1 /\ \A i \in 1..Len(Tail(q)) : Tail(q)[i] = q[i + 1]
        BY <1>3, HeadTailProperties
    <2>2. Tail(q) \in [1..(n - 1) -> Cards]
        BY <2>1, LenProperties
    <2> QED BY <2>1, <2>2
<1>7. \A i \in 1..(n - 1) : i + 1 \in DOMAIN q /\ i + 1 # 1
    BY <1>2, <1>3
<1>8. Tail(q) \in [1..(n - 1) -> Cards] /\ n - 1 \in 0..Cardinality(Cards)
    BY <1>1, <1>2, <1>3, <1>4, <1>6, <1>7
<1>9. Tail(q) \in SeqOf(Cards, Cardinality(Cards))
    BY <1>8 DEF SeqOf
<1>10. IsInjective(Tail(q))
    <2> SUFFICES ASSUME NEW i \in 1..(n - 1), NEW j \in 1..(n - 1), q[i + 1] = q[j + 1] PROVE i = j
        BY <1>6 DEF IsInjective
    <2>1. i + 1 = j + 1
        BY <1>7 DEF IsInjective
    <2> QED BY <2>1
<1>11. ToSet(Tail(q)) \subseteq ToSet(q) \ {Head(q)}
    <2> SUFFICES ASSUME NEW i \in 1..(n - 1) PROVE q[i + 1] \in ToSet(q) /\ q[i + 1] # q[1]
        BY <1>5, <1>6 DEF ToSet
    <2> QED BY <1>5, <1>7 DEF ToSet, IsInjective
<1> QED BY <1>1, <1>3, <1>5, <1>9, <1>10, <1>11 DEF ToSet

-----------------------------------------------------------------------------
(* The steps. *)

\* What is in view is queued, and a sleeping worker woken.
LEMMA RequestKeeps ==
    ASSUME IInv, NEW inView \in SUBSET Cards, Request(inView)
    PROVE  /\ pending' \in SeqOf(Cards, Cardinality(Cards)) /\ IsInjective(pending')
           /\ ToSet(pending') \cap started = {}
           /\ phase' = phase \/ (phase = "asleep" /\ phase' = "taking")
<1>1. inView \ started \in SUBSET Cards /\ pending' = InOrder(inView \ started)
    BY DEF Request
<1>2. ToSet(pending') \cap started = {}
    BY <1>1, OrderQueues
<1> QED BY <1>1, <1>2, OrderQueues DEF Request

\* A step that leaves the cards where they are.
LEMMA CardsStay ==
    ASSUME IInv, TypeOK', UNCHANGED <<started, results, index, shown, idle>>,
           phase' = "notifying" <=> phase = "notifying", Working' <=> Working,
           main' = main \/ (main = "running" /\ main' # "done"),
           phase = "exited" => phase' = "exited"
    PROVE  IInv'
<1>1. WorkerShape'
    BY DEF IInv, WorkerShape
<1>2. EachPlaced'
    BY DEF IInv, EachPlaced, Placed, Resulting
<1>3. Announced' /\ ResultsAreAnnounced'
    BY DEF IInv, Announced, ResultsAreAnnounced
<1> QED BY <1>1, <1>2, <1>3 DEF IInv

\* The user looks at other cards, or answers.
LEMMA UserKeeps == ASSUME IInv, View \/ Respond PROVE IInv'
<1>1. CASE View
    <2>1. PICK inView \in SUBSET Cards : visible' = inView /\ Request(inView)
        BY <1>1 DEF View
    <2>2. UNCHANGED <<started, results, index, texture, link, late, stopAsked, shown, idle, main>>
        BY <1>1 DEF View
    <2>3. /\ pending' \in SeqOf(Cards, Cardinality(Cards)) /\ IsInjective(pending')
          /\ ToSet(pending') \cap started = {}
          /\ phase' = phase \/ (phase = "asleep" /\ phase' = "taking")
        BY <2>1, RequestKeeps
    <2>4. TypeOK'
        BY <2>1, <2>2, <2>3 DEF IInv, TypeOK
    <2> QED BY <2>2, <2>3, <2>4, CardsStay DEF Working
<1>2. CASE Respond
    <2>1. /\ main = "running" /\ main' = "quitting" /\ visible' = {} /\ stopAsked' = TRUE
          /\ phase' = IF phase = "asleep" THEN "taking" ELSE phase
          /\ UNCHANGED <<pending, started, results, index, texture, link, late, shown, idle>>
        BY <1>2 DEF Respond, StopWorker, shared
    <2>2. TypeOK'
        BY <2>1 DEF IInv, TypeOK
    <2> QED BY <2>1, <2>2, CardsStay DEF Working
<1> QED BY <1>1, <1>2

\* The worker connects, captures and drains with the card it has.
LEMMA CaptureKeeps ==
    ASSUME IInv, Connect \/ FrameReady \/ CaptureFails \/ DeadlinePasses \/ Tick \/ Drain
    PROVE  IInv'
<1>1. /\ phase \in {"connecting", "capturing", "draining"} /\ phase' \in {"capturing", "draining", "publishing"}
      /\ link' \in {"none", "up", "dead"} /\ texture' \in BOOLEAN /\ late' \in BOOLEAN
      /\ UNCHANGED <<pending, started, results, index, stopAsked, visible, shown, idle, main>>
    <2>1. link \in {"none", "up", "dead"} /\ texture \in BOOLEAN /\ late \in BOOLEAN
        BY DEF IInv, TypeOK
    <2>2. CASE Connect
        BY <2>1, <2>2 DEF Connect, shared, ui
    <2>3. CASE FrameReady \/ CaptureFails
        BY <2>1, <2>3 DEF FrameReady, CaptureFails, shared, ui
    <2>4. CASE DeadlinePasses \/ Tick
        BY <2>1, <2>4 DEF DeadlinePasses, Tick, shared, ui
    <2>5. CASE Drain
        BY <2>1, <2>5 DEF Drain, shared, ui
    <2> QED BY <2>2, <2>3, <2>4, <2>5
<1>2. TypeOK'
    <2>1. {texture', late', stopAsked'} \subseteq BOOLEAN
        BY <1>1 DEF IInv, TypeOK
    <2>2. phase' \in {"taking", "asleep", "connecting", "capturing", "draining", "publishing", "notifying", "exited"}
        BY <1>1
    <2> QED BY <1>1, <2>1, <2>2 DEF IInv, TypeOK
<1> QED BY <1>1, <1>2, CardsStay DEF Working

\* A card is taken from the queue, or the worker sleeps or ends.
LEMMA TakeKeeps == ASSUME IInv, Take PROVE IInv'
<1>1. phase = "taking" /\ UNCHANGED <<results, texture, link, stopAsked, visible, shown, idle, main>>
    BY DEF Take, ui
<1>2. CASE phase' \in {"exited", "asleep"} /\ UNCHANGED <<pending, started, index, late>>
    <2>1. TypeOK'
        BY <1>1, <1>2 DEF IInv, TypeOK
    <2> QED BY <1>1, <1>2, <2>1, CardsStay DEF Working
<1>3. CASE /\ pending # <<>> /\ index' = {Head(pending)} /\ started' = started \cup {Head(pending)}
           /\ pending' = Tail(pending) /\ late' = FALSE /\ phase' = "connecting"
    <2> DEFINE c == Head(pending)
    <2>1. /\ c \in Cards /\ c \notin started
          /\ pending' \in SeqOf(Cards, Cardinality(Cards)) /\ IsInjective(pending')
          /\ ToSet(pending') \cap (started \cup {c}) = {}
        BY <1>3, QueueHead DEF IInv, TypeOK
    <2>2. index' = {c} /\ started' = started \cup {c} /\ index = {}
        BY <1>1, <1>3 DEF IInv, WorkerShape, Working
    <2> HIDE DEF c
    <2>3. Cardinality(index') = 1 /\ Cardinality(index) = 0
        BY <2>2, FS_Singleton, FS_EmptySet
    <2>4. TypeOK'
        <3>1. started' \subseteq Cards /\ index' \subseteq started' /\ Cardinality(index') <= 1
            BY <2>1, <2>2, <2>3 DEF IInv, TypeOK
        <3>2. ToSet(pending') \cap started' = {}
            BY <2>1, <2>2
        <3>3. {texture', late', stopAsked'} \subseteq BOOLEAN
            BY <1>1, <1>3 DEF IInv, TypeOK
        <3> QED BY <1>1, <1>3, <2>1, <3>1, <3>2, <3>3 DEF IInv, TypeOK
    <2>5. WorkerShape' /\ main # "done" /\ main' # "done"
        BY <1>1, <1>3, <2>1, <2>2 DEF IInv, WorkerShape, Working
    <2>6. EachPlaced'
        <3> SUFFICES ASSUME NEW d \in Cards PROVE Placed(d)'
            BY DEF EachPlaced
        <3>1. Placed(d) /\ Resulting(d)' = Resulting(d) /\ shown'[d] = shown[d]
            BY <1>1, <2>5 DEF IInv, EachPlaced, Resulting
        <3>2. d \notin index
            BY <2>2
        <3>3. CASE d = c
            BY <2>1, <2>2, <3>1, <3>3 DEF Placed
        <3>4. CASE d # c
            BY <2>2, <3>1, <3>2, <3>4 DEF Placed
        <3> QED BY <3>3, <3>4
    <2>7. Announced'
        <3>1. IsFiniteSet(started) /\ Cardinality(started) \in Nat
            BY PreviewsAssumption, FS_Subset, FS_CardinalityType DEF IInv, TypeOK
        <3>2. Cardinality(started') = Cardinality(started) + 1
            BY <2>1, <2>2, <3>1, FS_AddElement
        <3>3. idle \in Nat
            BY PreviewsAssumption, FS_CardinalityType DEF IInv, TypeOK
        <3> QED BY <1>1, <1>3, <2>3, <3>1, <3>2, <3>3 DEF IInv, Announced
    <2>8. ResultsAreAnnounced'
        BY <1>1 DEF IInv, ResultsAreAnnounced
    <2> QED BY <1>1, <2>4, <2>5, <2>6, <2>7, <2>8 DEF IInv
<1> QED BY <1>2, <1>3 DEF Take

\* What a result is made of.
LEMMA PublishEffect ==
    ASSUME IInv, Publish
    PROVE  \E c \in Cards :
              /\ index = {c} /\ index' = {} /\ texture' = FALSE /\ phase = "publishing" /\ phase' = "notifying"
              /\ results' \in Seq(Results) /\ ToSet(results') \subseteq Results
              /\ Resulting(c)' = Resulting(c) \cup {Len(results) + 1} /\ results' # <<>>
              /\ \A d \in Cards : d # c => Resulting(d)' = Resulting(d)
              /\ UNCHANGED <<pending, started, link, late, stopAsked, visible, shown, idle, main>>
<1>1. /\ phase = "publishing" /\ index' = {} /\ texture' = FALSE /\ phase' = "notifying"
      /\ results' = results \o [i \in 1..Cardinality(index) |-> [card |-> CHOOSE c \in index : TRUE, image |-> texture]]
      /\ UNCHANGED <<pending, started, link, late, stopAsked, visible, shown, idle, main>>
    BY DEF Publish, ui
<1>2. PICK c \in Cards : index = {c}
    BY <1>1 DEF IInv, WorkerShape, Working
<1> DEFINE r == [card |-> c, image |-> texture]
           more == [i \in 1..Cardinality(index) |-> [card |-> CHOOSE d \in index : TRUE, image |-> texture]]
<1>3. Cardinality(index) = 1 /\ (CHOOSE d \in index : TRUE) = c
    BY <1>2, FS_Singleton
<1>4. more = [i \in 1..1 |-> r]
    BY <1>3
<1>5. r \in Results /\ r.card = c
    BY DEF IInv, TypeOK, Results
<1> HIDE DEF r
<1>6. more \in Seq(Results) /\ Len(more) = 1 /\ more[1] = r
    <2>1. more \in [1..1 -> Results]
        BY <1>4, <1>5
    <2> HIDE DEF more
    <2>2. more \in Seq(Results) /\ DOMAIN more = 1..1
        <3>1. 1 \in Nat
            OBVIOUS
        <3> QED BY <2>1, <3>1, SeqDef
    <2>3. Len(more) = 1
        BY <2>2, LenProperties
    <2> QED BY <1>4, <2>2, <2>3
<1> HIDE DEF more
<1>7. results \in Seq(Results) /\ Len(results) \in Nat /\ DOMAIN results = 1..Len(results)
    BY LenProperties DEF IInv
<1>8. /\ results' \in Seq(Results) /\ Len(results') = Len(results) + 1
      /\ \A i \in 1..Len(results') : results'[i] = IF i <= Len(results) THEN results[i] ELSE more[i - Len(results)]
    <2>1. results' = results \o more
        BY <1>1 DEF more
    <2>2. results \o more \in Seq(Results) /\ Len(results \o more) = Len(results) + Len(more)
        BY <1>6, <1>7, ConcatProperties
    <2>3. \A i \in 1..(Len(results) + Len(more)) :
             (results \o more)[i] = IF i <= Len(results) THEN results[i] ELSE more[i - Len(results)]
        BY <1>6, <1>7, ConcatProperties
    <2> QED BY <1>6, <2>1, <2>2, <2>3
<1>9. DOMAIN results' = 1..(Len(results) + 1)
    BY <1>7, <1>8, LenProperties
<1>10. /\ \A i \in DOMAIN results : i \in DOMAIN results' /\ results'[i] = results[i]
       /\ Len(results) + 1 \in DOMAIN results' /\ results'[Len(results) + 1] = r
    <2>1. ASSUME NEW i \in DOMAIN results PROVE i \in DOMAIN results' /\ results'[i] = results[i]
        BY <1>7, <1>8, <1>9
    <2>2. Len(results) + 1 \in DOMAIN results' /\ ~(Len(results) + 1 <= Len(results)) /\ Len(results) + 1 - Len(results) = 1
        BY <1>7, <1>9
    <2>3. results'[Len(results) + 1] = r
        BY <1>6, <1>8, <1>9, <2>2
    <2> QED BY <2>1, <2>2, <2>3
<1>11. \A i \in DOMAIN results' : i \in DOMAIN results \/ i = Len(results) + 1
    BY <1>7, <1>9
<1>12. /\ Resulting(c)' = Resulting(c) \cup {Len(results) + 1}
       /\ \A d \in Cards : d # c => Resulting(d)' = Resulting(d)
    BY <1>5, <1>10, <1>11 DEF Resulting
<1>13. ToSet(results') \subseteq Results /\ results' # <<>>
    <2>1. \A i \in DOMAIN results' : results'[i] \in Results
        BY <1>8, <1>9, ElementOfSeq
    <2>2. results' # <<>>
        BY <1>7, <1>8, EmptySeq
    <2> QED BY <2>1, <2>2 DEF ToSet
<1> QED BY <1>1, <1>2, <1>8, <1>12, <1>13

\* The numbers of callbacks and cards.
LEMMA CountFacts ==
    ASSUME IInv
    PROVE  /\ idle \in Nat /\ Cardinality(index) \in Nat
           /\ Cardinality(started) \in Nat /\ Cardinality(Cards) \in Nat /\ Cardinality(started) <= Cardinality(Cards)
<1>1. IsFiniteSet(Cards) /\ started \in SUBSET Cards /\ index \in SUBSET Cards
    BY PreviewsAssumption DEF IInv, TypeOK
<1>2. IsFiniteSet(started) /\ IsFiniteSet(index) /\ Cardinality(started) <= Cardinality(Cards)
    BY <1>1, FS_Subset
<1>3. idle \in 0..Cardinality(Cards) /\ Cardinality(Cards) \in Nat
    BY <1>1, FS_CardinalityType DEF IInv, TypeOK
<1> QED BY <1>1, <1>2, <1>3, FS_CardinalityType

\* The captured card gets its result.
LEMMA PublishKeeps == ASSUME IInv, Publish PROVE IInv'
<1>1. PICK c \in Cards :
              /\ index = {c} /\ index' = {} /\ texture' = FALSE /\ phase = "publishing" /\ phase' = "notifying"
              /\ results' \in Seq(Results) /\ ToSet(results') \subseteq Results
              /\ Resulting(c)' = Resulting(c) \cup {Len(results) + 1} /\ results' # <<>>
              /\ \A d \in Cards : d # c => Resulting(d)' = Resulting(d)
              /\ UNCHANGED <<pending, started, link, late, stopAsked, visible, shown, idle, main>>
    BY PublishEffect
<1>2. Cardinality(index) = 1 /\ Cardinality(index') = 0
    BY <1>1, FS_Singleton, FS_EmptySet
<1>3. TypeOK'
    <2>1. index' \subseteq started' /\ Cardinality(index') <= 1
        BY <1>1, <1>2
    <2>2. {texture', late', stopAsked'} \subseteq BOOLEAN
        BY <1>1 DEF IInv, TypeOK
    <2> QED BY <1>1, <2>1, <2>2 DEF IInv, TypeOK
<1>4. WorkerShape' /\ main # "done"
    BY <1>1 DEF IInv, WorkerShape, Working
<1>5. EachPlaced'
    <2> SUFFICES ASSUME NEW d \in Cards PROVE Placed(d)'
        BY DEF EachPlaced
    <2>1. Placed(d) /\ shown'[d] = shown[d]
        BY <1>1, <1>4 DEF IInv, EachPlaced
    <2>2. CASE d = c
        <3>1. Resulting(d) = {} /\ shown[d] = "loading" /\ d \in started
            BY <1>1, <2>1, <2>2 DEF Placed, IInv, TypeOK
        <3>2. Resulting(d)' = {Len(results) + 1}
            BY <1>1, <2>2, <3>1
        <3> QED BY <1>1, <2>1, <3>1, <3>2 DEF Placed
    <2>3. CASE d # c
        <3>1. Resulting(d)' = Resulting(d) /\ d \notin index
            BY <1>1, <2>3
        <3> QED BY <1>1, <2>1, <3>1 DEF Placed
    <2> QED BY <2>2, <2>3
<1>6. Announced'
    <2>1. idle \in Nat /\ Cardinality(started) \in Nat
        BY CountFacts
    <2>2. idle + 1 + 0 <= Cardinality(started)
        BY <1>1, <1>2, <2>1 DEF IInv, Announced
    <2> QED BY <1>1, <1>2, <2>1, <2>2 DEF Announced
<1>7. ResultsAreAnnounced'
    BY <1>1 DEF ResultsAreAnnounced
<1> QED BY <1>1, <1>3, <1>4, <1>5, <1>6, <1>7 DEF IInv

\* A callback is queued: no more of them than cards.
LEMMA NotifyKeeps == ASSUME IInv, Notify PROVE IInv'
<1>1. /\ phase = "notifying" /\ idle' = idle + 1 /\ phase' = "taking"
      /\ UNCHANGED <<pending, started, results, index, texture, link, late, stopAsked, visible, shown, main>>
    BY DEF Notify, shared
<1>2. /\ Cardinality(started) \in Nat /\ Cardinality(Cards) \in Nat /\ Cardinality(started) <= Cardinality(Cards)
      /\ idle \in Nat
    BY CountFacts
<1>3. Cardinality(index) = 0
    BY <1>1, FS_EmptySet DEF IInv, WorkerShape, Working
<1>4. idle' \in 0..Cardinality(Cards) /\ idle' <= Cardinality(started) /\ idle' > 0
    BY <1>1, <1>2, <1>3 DEF IInv, Announced
<1>5. TypeOK'
    BY <1>1, <1>4 DEF IInv, TypeOK
<1>6. WorkerShape'
    BY <1>1 DEF IInv, WorkerShape, Working
<1>7. EachPlaced'
    BY <1>1 DEF IInv, EachPlaced, Placed, Resulting
<1>8. Announced'
    BY <1>1, <1>2, <1>3, <1>4 DEF Announced
<1>9. ResultsAreAnnounced'
    BY <1>4 DEF ResultsAreAnnounced
<1> QED BY <1>1, <1>5, <1>6, <1>7, <1>8, <1>9 DEF IInv

\* The user interface takes the results: each card among them is shown.
LEMMA ResultsKeep == ASSUME IInv, OnPreviewResults PROVE IInv'
<1>1. /\ idle > 0 /\ main # "done" /\ idle' = idle - 1 /\ results' = <<>> /\ Request(visible)
      /\ UNCHANGED <<started, index, texture, link, late, stopAsked, visible, main>>
    BY DEF OnPreviewResults
<1>2. visible \in SUBSET Cards
    BY DEF IInv, TypeOK
<1>3. /\ pending' \in SeqOf(Cards, Cardinality(Cards)) /\ IsInjective(pending')
      /\ ToSet(pending') \cap started = {}
      /\ phase' = phase \/ (phase = "asleep" /\ phase' = "taking")
    BY <1>1, <1>2, RequestKeeps
<1>4. /\ shown' \in [Cards -> {"loading", "image", "unavailable"}]
      /\ \A c \in Cards : shown'[c] # "loading" <=> Resulting(c) # {} \/ shown[c] # "loading"
    <2>1. /\ shown \in [Cards -> {"loading", "image", "unavailable"}]
          /\ shown' = [c \in Cards |->
                   IF \E r \in ToSet(results) : r.card = c
                   THEN IF [card |-> c, image |-> TRUE] \in ToSet(results)
                        THEN "image" ELSE "unavailable"
                   ELSE shown[c]]
        BY DEF IInv, TypeOK, OnPreviewResults
    <2>2. \A c \in Cards : (\E r \in ToSet(results) : r.card = c) <=> Resulting(c) # {}
        BY DEF ToSet, Resulting
    <2> QED BY <2>1, <2>2
<1>5. <<>> \in Seq(Results) /\ ToSet(<<>>) = {} /\ \A c \in Cards : Resulting(c)' = {}
    BY <1>1, EmptySeq DEF ToSet, Resulting
<1>6. idle \in Nat /\ Cardinality(Cards) \in Nat /\ idle' \in Nat /\ idle' \in 0..Cardinality(Cards)
    <2>1. Cardinality(Cards) \in Nat
        BY PreviewsAssumption, FS_CardinalityType
    <2> QED BY <1>1, <2>1 DEF IInv, TypeOK
<1>7. TypeOK'
    <2>1. ToSet(pending') \cap started' = {} /\ ToSet(results') \subseteq Results
        BY <1>1, <1>3, <1>5
    <2>2. phase' \in {"taking", "asleep", "connecting", "capturing", "draining", "publishing", "notifying", "exited"}
        BY <1>3 DEF IInv, TypeOK
    <2> QED BY <1>1, <1>3, <1>4, <1>6, <2>1, <2>2 DEF IInv, TypeOK
<1>8. WorkerShape'
    BY <1>1, <1>3 DEF IInv, WorkerShape, Working
<1>9. EachPlaced'
    <2> SUFFICES ASSUME NEW c \in Cards PROVE Placed(c)'
        BY DEF EachPlaced
    <2>1. Placed(c) /\ Resulting(c)' = {}
        BY <1>1, <1>5 DEF IInv, EachPlaced
    <2> QED BY <1>1, <1>4, <2>1 DEF Placed
<1>10. Announced'
    <2>1. Cardinality(index) \in Nat /\ Cardinality(started) \in Nat
        BY PreviewsAssumption, FS_Subset, FS_CardinalityType DEF IInv, TypeOK
    <2>2. phase' = "notifying" <=> phase = "notifying"
        BY <1>3
    <2> QED BY <1>1, <1>6, <2>1, <2>2 DEF IInv, Announced
<1>11. ResultsAreAnnounced'
    BY <1>1 DEF ResultsAreAnnounced
<1> QED BY <1>1, <1>5, <1>7, <1>8, <1>9, <1>10, <1>11 DEF IInv

\* The picker is done.
LEMMA DestroyKeeps == ASSUME IInv, Destroy PROVE IInv'
<1>1. /\ phase = "exited" /\ main' = "done" /\ results' = <<>> /\ pending' = <<>>
      /\ UNCHANGED <<started, phase, index, texture, link, late, stopAsked, visible, shown, idle>>
    BY DEF Destroy, worker
<1>2. /\ <<>> \in SeqOf(Cards, Cardinality(Cards)) /\ IsInjective(<<>>) /\ ToSet(<<>>) = {}
      /\ <<>> \in Seq(Results)
    <2>1. <<>> \in [1..0 -> Cards] /\ 0 \in 0..Cardinality(Cards) /\ DOMAIN <<>> = {}
        BY PreviewsAssumption, FS_CardinalityType
    <2> QED BY <2>1, EmptySeq DEF SeqOf, IsInjective, ToSet
<1>3. TypeOK'
    BY <1>1, <1>2 DEF IInv, TypeOK
<1>4. WorkerShape' /\ EachPlaced' /\ ResultsAreAnnounced'
    BY <1>1 DEF IInv, WorkerShape, Working, EachPlaced, ResultsAreAnnounced
<1>5. Announced'
    BY <1>1 DEF IInv, Announced
<1> QED BY <1>1, <1>2, <1>3, <1>4, <1>5 DEF IInv

\* Every step keeps the invariant.
LEMMA NextInductive == IInv /\ [Next]_vars => IInv'
<1> SUFFICES ASSUME IInv, [Next]_vars PROVE IInv'
    OBVIOUS
<1>1. CASE WorkerStep
    BY <1>1, TakeKeeps, CaptureKeeps, PublishKeeps, NotifyKeeps DEF WorkerStep
<1>2. CASE UNCHANGED vars
    <2>1. UNCHANGED <<pending, started, results, phase, index, texture, link, late, stopAsked, visible, shown, idle, main>>
        BY <1>2 DEF vars, shared, worker, ui
    <2>2. TypeOK'
        BY <2>1 DEF IInv, TypeOK
    <2> QED BY <2>1, <2>2, CardsStay DEF Working
<1> QED BY <1>1, <1>2, UserKeeps, ResultsKeep, DestroyKeeps, CaptureKeeps DEF Next

\* The picker's window, with nothing in view, satisfies it.
LEMMA InitInductive == Init => IInv
<1> SUFFICES ASSUME Init PROVE IInv
    OBVIOUS
<1>1. /\ <<>> \in SeqOf(Cards, Cardinality(Cards)) /\ IsInjective(<<>>) /\ ToSet(<<>>) = {}
      /\ <<>> \in Seq(Results) /\ 0 \in 0..Cardinality(Cards) /\ DOMAIN <<>> = {}
    <2>1. <<>> \in [1..0 -> Cards] /\ 0 \in 0..Cardinality(Cards) /\ DOMAIN <<>> = {}
        BY PreviewsAssumption, FS_CardinalityType
    <2> QED BY <2>1, EmptySeq DEF SeqOf, IsInjective, ToSet
<1>2. Cardinality(index) = 0 /\ Cardinality(started) = 0
    BY FS_EmptySet DEF Init
<1>3. TypeOK
    <2>1. /\ {texture, late, stopAsked} \subseteq BOOLEAN /\ Cardinality(index) <= 1
          /\ shown \in [Cards -> {"loading", "image", "unavailable"}]
        <3>1. texture = FALSE /\ late = FALSE /\ stopAsked = FALSE /\ shown = [c \in Cards |-> "loading"]
            BY DEF Init
        <3>2. Cardinality(index) <= 1
            BY <1>2
        <3> QED BY <3>1, <3>2
    <2>2. /\ pending \in SeqOf(Cards, Cardinality(Cards)) /\ IsInjective(pending) /\ idle \in 0..Cardinality(Cards)
          /\ ToSet(pending) \cap started = {} /\ ToSet(results) \subseteq Results
        BY <1>1 DEF Init
    <2> QED BY <2>1, <2>2 DEF Init, TypeOK
<1>4. WorkerShape /\ ResultsAreAnnounced
    BY DEF Init, WorkerShape, Working, ResultsAreAnnounced
<1>5. EachPlaced
    BY <1>1 DEF Init, EachPlaced, Placed, Resulting
<1>6. Announced
    BY <1>2 DEF Init, Announced
<1> QED BY <1>1, <1>3, <1>4, <1>5, <1>6 DEF Init, IInv

\* The inductive invariant of the previews holds.
THEOREM SpecIInv == Spec => []IInv
BY InitInductive, NextInductive, PTL DEF Spec

\* Every card the worker took is in exactly one place: being captured, among the
\* results, or shown (Previews::Impl::run, onPreviewResults).
THEOREM PreviewsOnePlaceEach == Spec => []OnePlaceEach
<1>1. IInv => OnePlaceEach
    <2> SUFFICES ASSUME IInv, main # "done", NEW c \in Cards
                 PROVE  Cardinality(index \cap {c}) + Cardinality(Resulting(c)) + (IF shown[c] = "loading" THEN 0 ELSE 1)
                            = IF c \in started THEN 1 ELSE 0
        BY DEF IInv, OnePlaceEach, Resulting
    <2>1. Placed(c) /\ index \subseteq started
        BY DEF IInv, EachPlaced, TypeOK
    <2>2. Cardinality(index \cap {c}) = IF c \in index THEN 1 ELSE 0
        <3>1. CASE c \in index
            <4>1. index \cap {c} = {c}
                BY <3>1
            <4> QED BY <3>1, <4>1, FS_Singleton
        <3>2. CASE c \notin index
            <4>1. index \cap {c} = {}
                BY <3>2
            <4> QED BY <3>2, <4>1, FS_EmptySet
        <3> QED BY <3>1, <3>2
    <2>3. Cardinality(Resulting(c)) = IF Resulting(c) = {} THEN 0 ELSE 1
        <3>1. CASE Resulting(c) = {}
            BY <3>1, FS_EmptySet
        <3>2. CASE Resulting(c) # {}
            <4>1. PICK i \in Resulting(c) : TRUE
                BY <3>2
            <4>2. Resulting(c) = {i}
                BY <2>1, <4>1 DEF Placed
            <4> QED BY <3>2, <4>2, FS_Singleton
        <3> QED BY <3>1, <3>2
    <2> QED BY <2>1, <2>2, <2>3 DEF Placed
<1> QED BY <1>1, SpecIInv, PTL

\* Results wait only while a callback that takes them is queued, or about to be
\* (onResultsReady, g_idle_add).
THEOREM PreviewsResultsAreAnnounced == Spec => []ResultsAreAnnounced
<1>1. IInv => ResultsAreAnnounced
    BY DEF IInv
<1> QED BY <1>1, SpecIInv, PTL

=============================================================================
