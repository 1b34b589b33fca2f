---------------------------- MODULE SourcesProofs ----------------------------
(***************************************************************************)
(* Proofs about Sources for any outputs, windows and infos, any number of  *)
(* changes and sessions: a window is shown whole, the lists agree with the *)
(* compositor once its events are handled, and a Start captures only what  *)
(* was granted.  The invariant says of each output and window what the     *)
(* events on the wire will make of it.                                     *)
(***************************************************************************)
EXTENDS Sources, SequenceTheorems, FiniteSetTheorems, WellFoundedInduction, TLAPS

-----------------------------------------------------------------------------
(* A wire s: what is on its way, before and after event k.                  *)

OutputKinds == {"global", "mode", "name", "outputDone", "remove"}
WindowKinds == {"toplevel", "title", "appId", "identifier", "done", "closed"}

\* Event k is of this kind, or of one of these kinds, and about x.
At(s, k, kind, x) == s[k][1] = kind /\ s[k][2] = x
About(s, k, kinds, x) == s[k][1] \in kinds /\ s[k][2] = x

Coming(s, kind, x) == \E k \in 1..Len(s) : At(s, k, kind, x)
ComesBefore(s, k, kind, x) == \E j \in 1..Len(s) : j < k /\ At(s, j, kind, x)
ComesAfter(s, k, kind, x) == \E j \in 1..Len(s) : j > k /\ At(s, j, kind, x)
Silent(s, kinds, x) == \A k \in 1..Len(s) : ~About(s, k, kinds, x)
SilentBefore(s, k, kinds, x) == \A j \in 1..Len(s) : j < k => ~About(s, j, kinds, x)
SilentAfter(s, k, kinds, x) == \A j \in 1..Len(s) : j > k => ~About(s, j, kinds, x)

\* What the compositor sends right after an event e of an object.
Leads(e, f) ==
    /\ f[2] = e[2]
    /\ \/ e[1] = "mode" /\ f[1] \in {"name", "outputDone"}
       \/ e[1] = "name" /\ f[1] = "outputDone"
       \/ e[1] = "toplevel" /\ f[1] = "title"
       \/ e[1] = "title" /\ f[1] = "appId" /\ f[3] = e[3]
       \/ e[1] = "appId" /\ f[1] \in {"identifier", "done"}
       \/ e[1] = "identifier" /\ f[1] = "done"

\* Events nothing has to follow, and events that follow another.
Ends == {"global", "outputDone", "remove", "done", "closed"}
Follows == {"name", "outputDone", "appId", "identifier", "done"}

\* Events that belong together come together.
InBlocks(s) ==
    \A k \in 1..Len(s) :
        /\ s[k][1] \notin Ends => k + 1 <= Len(s) /\ Leads(s[k], s[k + 1])
        /\ s[k][1] \in Follows /\ k > 1 => Leads(s[k - 1], s[k])

-----------------------------------------------------------------------------
(* A window w of which the compositor knows i and the portal st, with wire s. *)

\* It is announced once, before anything else about it.
WindowAppears(w, i, st, s) ==
    /\ i = None => st = None /\ Silent(s, WindowKinds, w)
    /\ i \in Infos => st # None \/ Coming(s, "toplevel", w)
    /\ \A k \in 1..Len(s) :
          /\ At(s, k, "toplevel", w) => st = None /\ SilentBefore(s, k, WindowKinds, w)
          /\ About(s, k, WindowKinds \ {"toplevel"}, w) => st # None \/ ComesBefore(s, k, "toplevel", w)

\* Once it has closed it is told of for the last time.
WindowGoes(w, i, st, s) ==
    /\ \A k \in 1..Len(s) : At(s, k, "closed", w) => i = "closed" /\ SilentAfter(s, k, WindowKinds, w)
    /\ i = "closed" /\ ~Coming(s, "closed", w) => st = None /\ Silent(s, WindowKinds, w)

\* The last title on its way is the window's, or it has come.
TitleArrives(w, i, st, s) ==
    i \in Infos =>
        /\ \A k \in 1..Len(s) : At(s, k, "title", w) => s[k][3] = i \/ ComesAfter(s, k, "title", w)
        /\ st # None /\ ~Coming(s, "title", w) => st.pending.title = i

\* So does its identifier, before it is used.
IdentifierArrives(w, i, st, s) ==
    LET known == st # None /\ st.pending.identifier
    IN /\ i \in Infos => known \/ Coming(s, "identifier", w)
       /\ \A k \in 1..Len(s) : At(s, k, "done", w) => known \/ ComesBefore(s, k, "identifier", w)

IsWhole(i) == i.title = i.appId /\ i.title # None

\* What is pending is whole but for an application id that comes next, and it is
\* what is shown but for the event that comes next.
ComesWhole(w, st, s) ==
    st # None =>
        LET midBlock == Len(s) > 0 /\ About(s, 1, {"appId", "identifier", "done"}, w)
        IN /\ st.info.identifier => IsWhole(st.info)
           /\ ~midBlock => st.info = st.pending
           /\ midBlock => IF s[1][1] = "appId" THEN st.pending.title = s[1][3] ELSE IsWhole(st.pending)

WindowInv(w, i, st, s) ==
    /\ WindowAppears(w, i, st, s)
    /\ WindowGoes(w, i, st, s)
    /\ TitleArrives(w, i, st, s)
    /\ IdentifierArrives(w, i, st, s)
    /\ ComesWhole(w, st, s)

-----------------------------------------------------------------------------
(* An output g at connector c, which is there if p and whose mode is m, bound *)
(* and not described if b, of which the portal knows st, with wire s.         *)

\* It is announced once, before anything else about it.
OutputAppears(g, c, p, b, st, s) ==
    /\ c = None => ~p /\ ~b /\ st = None /\ Silent(s, OutputKinds, g)
    /\ p => st # None \/ Coming(s, "global", g)
    /\ \A k \in 1..Len(s) :
          /\ At(s, k, "global", g) => st = None /\ ~b /\ SilentBefore(s, k, OutputKinds, g)
          /\ About(s, k, OutputKinds \ {"global"}, g) => st # None \/ ComesBefore(s, k, "global", g)

\* Once it is unplugged it is told of for the last time.
OutputGoes(g, p, st, s) ==
    /\ \A k \in 1..Len(s) : At(s, k, "remove", g) => ~p /\ SilentAfter(s, k, OutputKinds, g)
    /\ ~p /\ ~Coming(s, "remove", g) => st = None /\ Silent(s, OutputKinds, g)

\* Before it is described nothing else is said of it.
DescribedOnce(g, b, s) ==
    b \/ Coming(s, "global", g) => Silent(s, {"mode", "name", "outputDone"}, g)

\* Its name arrives, before it is used.
NameArrives(g, c, p, b, st, s) ==
    LET known == st # None /\ st.name = c
    IN /\ st # None => st.name \in {None, c}
       /\ p /\ ~b /\ ~Coming(s, "global", g) => known \/ Coming(s, "name", g)
       /\ \A k \in 1..Len(s) : /\ At(s, k, "name", g) => s[k][3] = c
                               /\ At(s, k, "outputDone", g) => known \/ ComesBefore(s, k, "name", g)

\* The last mode on its way is the output's, or it has come.
ModeArrives(g, p, b, st, m, s) ==
    p /\ ~b /\ ~Coming(s, "global", g) =>
        /\ \A k \in 1..Len(s) : At(s, k, "mode", g) => s[k][3] = m \/ ComesAfter(s, k, "mode", g)
        /\ st # None /\ ~Coming(s, "mode", g) => st.mode = m

OutputInv(g, c, p, b, st, m, s) ==
    /\ OutputAppears(g, c, p, b, st, s)
    /\ OutputGoes(g, p, st, s)
    /\ DescribedOnce(g, b, s)
    /\ NameArrives(g, c, p, b, st, s)
    /\ ModeArrives(g, p, b, st, m, s)

-----------------------------------------------------------------------------
(* The state. *)

\* An event that brings the list of outputs up to date is still to come.
UpdateComes(s) == \E k \in 1..Len(s) : s[k][1] \in {"outputDone", "remove"}

WindowsInv ==
    /\ \A w \in Windows : WindowInv(w, window[w], toplevelStates[w], wire)
    /\ toplevels = ListedToplevels(toplevelStates)

\* No two outputs at one connector; and the list is what is known, or an event that
\* makes it so will come.
OutputsInv ==
    /\ \A g \in Globals :
          OutputInv(g, connector[g], g \in plugged, g \in bound, outputStates[g], mode[connector[g]], wire)
    /\ \A g, h \in plugged : connector[g] = connector[h] => g = h
    /\ \/ outputs = ListedOutputs(outputStates)
       \/ UpdateComes(wire)
       \/ bound \cap plugged # {}

\* Restore data names what was granted, and a capture is made from the object its
\* selection names.
EntriesGranted(entries) == \A i \in 1..Len(entries) : entries[i][2] \in granted
CaptureGranted(s, x) ==
    \/ /\ s.kind = "monitor" /\ s.key \in granted
       /\ x \in Globals /\ connector[x] # None /\ s.key \in {x, connector[x]}
    \/ s.kind = "window" /\ x \in Windows /\ s.app \in granted
SessionInv ==
    /\ EntriesGranted(stored) /\ EntriesGranted(token)
    /\ \A i \in 1..Len(captured) : CaptureGranted(captured[i].selection, captured[i].object)

IInv ==
    /\ TypeOK
    /\ InBlocks(wire)
    /\ WindowsInv
    /\ OutputsInv
    /\ SessionInv

-----------------------------------------------------------------------------
(* Wires. *)

\* The first event taken from a wire.
LEMMA TailOfWire ==
    ASSUME NEW s \in Seq(Event), s # <<>>
    PROVE  /\ Tail(s) \in Seq(Event) /\ Len(s) \in Nat \ {0} /\ Len(Tail(s)) = Len(s) - 1
           /\ Head(s) = s[1]
           /\ \A k \in 1..Len(Tail(s)) : k + 1 \in 1..Len(s) /\ Tail(s)[k] = s[k + 1]
           /\ \A k \in 1..Len(s) : k # 1 => k - 1 \in 1..Len(Tail(s)) /\ s[k] = Tail(s)[k - 1]
<1>1. Len(s) \in Nat /\ Len(s) # 0
    BY EmptySeq, LenProperties
<1>2. /\ Tail(s) \in Seq(Event) /\ Len(Tail(s)) = Len(s) - 1
      /\ \A k \in 1..Len(Tail(s)) : Tail(s)[k] = s[k + 1]
    BY HeadTailProperties
<1>3. Head(s) = s[1]
    BY <1>1
<1>4. \A k \in 1..Len(s) : k # 1 => k - 1 \in 1..Len(Tail(s)) /\ (k - 1) + 1 = k
    BY <1>1, <1>2
<1> QED BY <1>1, <1>2, <1>3, <1>4

\* What is on its way, if the first event is taken.
LEMMA ComingAfterTail ==
    ASSUME NEW s \in Seq(Event), s # <<>>, NEW kind, NEW x
    PROVE  /\ Coming(s, kind, x) <=> At(s, 1, kind, x) \/ Coming(Tail(s), kind, x)
           /\ ComesAfter(s, 1, kind, x) <=> Coming(Tail(s), kind, x)
           /\ \A k \in 1..Len(Tail(s)) :
                 /\ ComesBefore(s, k + 1, kind, x) <=> At(s, 1, kind, x) \/ ComesBefore(Tail(s), k, kind, x)
                 /\ ComesAfter(s, k + 1, kind, x) <=> ComesAfter(Tail(s), k, kind, x)
<1> DEFINE t == Tail(s)
<1>1. /\ Len(s) \in Nat \ {0} /\ Len(t) = Len(s) - 1
      /\ \A k \in 1..Len(t) : k + 1 \in 1..Len(s) /\ t[k] = s[k + 1]
      /\ \A k \in 1..Len(s) : k # 1 => k - 1 \in 1..Len(t) /\ s[k] = t[k - 1]
    BY TailOfWire
<1> HIDE DEF t
<1>2. \A k \in 1..Len(t) : At(t, k, kind, x) <=> At(s, k + 1, kind, x)
    BY <1>1 DEF At
<1>3. \A k \in 1..Len(s) : k # 1 => (At(s, k, kind, x) <=> At(t, k - 1, kind, x))
    BY <1>1 DEF At
<1>4. Coming(s, kind, x) <=> At(s, 1, kind, x) \/ Coming(t, kind, x)
    BY <1>1, <1>2, <1>3 DEF Coming
<1>5. ComesAfter(s, 1, kind, x) <=> Coming(t, kind, x)
    BY <1>1, <1>2, <1>3 DEF Coming, ComesAfter
<1>6. ASSUME NEW k \in 1..Len(t)
      PROVE  /\ ComesBefore(s, k + 1, kind, x) <=> At(s, 1, kind, x) \/ ComesBefore(t, k, kind, x)
             /\ ComesAfter(s, k + 1, kind, x) <=> ComesAfter(t, k, kind, x)
    <2>1. ComesBefore(s, k + 1, kind, x) => At(s, 1, kind, x) \/ ComesBefore(t, k, kind, x)
        BY <1>1, <1>3 DEF ComesBefore
    <2>2. At(s, 1, kind, x) \/ ComesBefore(t, k, kind, x) => ComesBefore(s, k + 1, kind, x)
        BY <1>1, <1>2 DEF ComesBefore
    <2>3. ComesAfter(s, k + 1, kind, x) => ComesAfter(t, k, kind, x)
        BY <1>1, <1>3 DEF ComesAfter
    <2>4. ComesAfter(t, k, kind, x) => ComesAfter(s, k + 1, kind, x)
        BY <1>1, <1>2 DEF ComesAfter
    <2> QED BY <2>1, <2>2, <2>3, <2>4
<1> QED BY <1>4, <1>5, <1>6 DEF t

LEMMA SilentAfterTail ==
    ASSUME NEW s \in Seq(Event), s # <<>>, NEW kinds, NEW x
    PROVE  /\ Silent(s, kinds, x) <=> ~About(s, 1, kinds, x) /\ Silent(Tail(s), kinds, x)
           /\ SilentAfter(s, 1, kinds, x) <=> Silent(Tail(s), kinds, x)
           /\ \A k \in 1..Len(Tail(s)) :
                 /\ SilentBefore(s, k + 1, kinds, x) <=> ~About(s, 1, kinds, x) /\ SilentBefore(Tail(s), k, kinds, x)
                 /\ SilentAfter(s, k + 1, kinds, x) <=> SilentAfter(Tail(s), k, kinds, x)
<1> DEFINE t == Tail(s)
<1>1. /\ Len(s) \in Nat \ {0} /\ Len(t) = Len(s) - 1
      /\ \A k \in 1..Len(t) : k + 1 \in 1..Len(s) /\ t[k] = s[k + 1]
      /\ \A k \in 1..Len(s) : k # 1 => k - 1 \in 1..Len(t) /\ s[k] = t[k - 1]
    BY TailOfWire
<1> HIDE DEF t
<1>2. \A k \in 1..Len(t) : About(t, k, kinds, x) <=> About(s, k + 1, kinds, x)
    BY <1>1 DEF About
<1>3. \A k \in 1..Len(s) : k # 1 => (About(s, k, kinds, x) <=> About(t, k - 1, kinds, x))
    BY <1>1 DEF About
<1>4. Silent(s, kinds, x) <=> ~About(s, 1, kinds, x) /\ Silent(t, kinds, x)
    BY <1>1, <1>2, <1>3 DEF Silent
<1>5. SilentAfter(s, 1, kinds, x) <=> Silent(t, kinds, x)
    BY <1>1, <1>2, <1>3 DEF Silent, SilentAfter
<1>6. ASSUME NEW k \in 1..Len(t)
      PROVE  /\ SilentBefore(s, k + 1, kinds, x) <=> ~About(s, 1, kinds, x) /\ SilentBefore(t, k, kinds, x)
             /\ SilentAfter(s, k + 1, kinds, x) <=> SilentAfter(t, k, kinds, x)
    <2>1. SilentBefore(s, k + 1, kinds, x) => ~About(s, 1, kinds, x) /\ SilentBefore(t, k, kinds, x)
        BY <1>1, <1>2 DEF SilentBefore
    <2>2. ~About(s, 1, kinds, x) /\ SilentBefore(t, k, kinds, x) => SilentBefore(s, k + 1, kinds, x)
        BY <1>1, <1>3 DEF SilentBefore
    <2>3. SilentAfter(s, k + 1, kinds, x) => SilentAfter(t, k, kinds, x)
        BY <1>1, <1>2 DEF SilentAfter
    <2>4. SilentAfter(t, k, kinds, x) => SilentAfter(s, k + 1, kinds, x)
        BY <1>1, <1>3 DEF SilentAfter
    <2> QED BY <2>1, <2>2, <2>3, <2>4
<1> QED BY <1>4, <1>5, <1>6 DEF t

\* Events e put at the end of a wire.
LEMMA ConcatOfWire ==
    ASSUME NEW s \in Seq(Event), NEW e \in Seq(Event)
    PROVE  /\ s \o e \in Seq(Event) /\ Len(s) \in Nat /\ Len(e) \in Nat /\ Len(s \o e) = Len(s) + Len(e)
           /\ \A k \in 1..Len(s) : k \in 1..Len(s \o e) /\ (s \o e)[k] = s[k]
           /\ \A k \in 1..Len(e) : Len(s) + k \in 1..Len(s \o e) /\ (s \o e)[Len(s) + k] = e[k]
           /\ \A k \in 1..Len(s \o e) : k > Len(s) => k - Len(s) \in 1..Len(e) /\ (s \o e)[k] = e[k - Len(s)]
<1>1. /\ s \o e \in Seq(Event) /\ Len(s \o e) = Len(s) + Len(e)
      /\ \A k \in 1..Len(s) + Len(e) : (s \o e)[k] = IF k <= Len(s) THEN s[k] ELSE e[k - Len(s)]
    BY ConcatProperties
<1>2. Len(s) \in Nat /\ Len(e) \in Nat
    BY LenProperties
<1>3. \A k \in 1..Len(s) : k \in 1..Len(s) + Len(e) /\ k <= Len(s)
    BY <1>2
<1>4. \A k \in 1..Len(e) : Len(s) + k \in 1..Len(s) + Len(e) /\ ~(Len(s) + k <= Len(s)) /\ Len(s) + k - Len(s) = k
    BY <1>2
<1>5. \A k \in 1..Len(s) + Len(e) : k > Len(s) => k - Len(s) \in 1..Len(e) /\ ~(k <= Len(s))
    BY <1>2
<1> QED BY <1>1, <1>2, <1>3, <1>4, <1>5

LEMMA ComingAfterConcat ==
    ASSUME NEW s \in Seq(Event), NEW e \in Seq(Event), NEW kind, NEW x
    PROVE  /\ Coming(s \o e, kind, x) <=> Coming(s, kind, x) \/ Coming(e, kind, x)
           /\ \A k \in 1..Len(s) :
                 /\ ComesBefore(s \o e, k, kind, x) <=> ComesBefore(s, k, kind, x)
                 /\ ComesAfter(s \o e, k, kind, x) <=> ComesAfter(s, k, kind, x) \/ Coming(e, kind, x)
           /\ \A k \in 1..Len(e) :
                 /\ ComesBefore(s \o e, Len(s) + k, kind, x) <=> Coming(s, kind, x) \/ ComesBefore(e, k, kind, x)
                 /\ ComesAfter(s \o e, Len(s) + k, kind, x) <=> ComesAfter(e, k, kind, x)
<1> DEFINE t == s \o e
           n == Len(s)
<1>1. /\ n \in Nat /\ Len(e) \in Nat /\ Len(t) = n + Len(e)
      /\ \A k \in 1..n : k \in 1..Len(t) /\ t[k] = s[k]
      /\ \A k \in 1..Len(e) : n + k \in 1..Len(t) /\ t[n + k] = e[k]
      /\ \A k \in 1..Len(t) : k > n => k - n \in 1..Len(e) /\ t[k] = e[k - n]
    BY ConcatOfWire
<1>2. Len(s) = n
    OBVIOUS
<1> HIDE DEF t, n
<1>3. /\ \A k \in 1..n : At(t, k, kind, x) <=> At(s, k, kind, x)
      /\ \A k \in 1..Len(e) : At(t, n + k, kind, x) <=> At(e, k, kind, x)
      /\ \A k \in 1..Len(t) : k > n => (At(t, k, kind, x) <=> At(e, k - n, kind, x))
    BY <1>1 DEF At
<1>4. Coming(t, kind, x) <=> Coming(s, kind, x) \/ Coming(e, kind, x)
    <2>1. Coming(t, kind, x) => Coming(s, kind, x) \/ Coming(e, kind, x)
        BY <1>1, <1>2, <1>3 DEF Coming
    <2>2. Coming(s, kind, x) => Coming(t, kind, x)
        BY <1>1, <1>2, <1>3 DEF Coming
    <2>3. Coming(e, kind, x) => Coming(t, kind, x)
        BY <1>1, <1>2, <1>3 DEF Coming
    <2> QED BY <2>1, <2>2, <2>3
<1>5. ASSUME NEW k \in 1..n
      PROVE  /\ ComesBefore(t, k, kind, x) <=> ComesBefore(s, k, kind, x)
             /\ ComesAfter(t, k, kind, x) <=> ComesAfter(s, k, kind, x) \/ Coming(e, kind, x)
    <2>1. ComesBefore(t, k, kind, x) <=> ComesBefore(s, k, kind, x)
        BY <1>1, <1>2, <1>3 DEF ComesBefore
    <2>2. ComesAfter(t, k, kind, x) => ComesAfter(s, k, kind, x) \/ Coming(e, kind, x)
        BY <1>1, <1>2, <1>3 DEF ComesAfter, Coming
    <2>3. ComesAfter(s, k, kind, x) => ComesAfter(t, k, kind, x)
        BY <1>1, <1>2, <1>3 DEF ComesAfter
    <2>4. Coming(e, kind, x) => ComesAfter(t, k, kind, x)
        <3>1. \A j \in 1..Len(e) : n + j > k
            BY <1>1
        <3> QED BY <1>1, <1>3, <3>1 DEF ComesAfter, Coming
    <2> QED BY <2>1, <2>2, <2>3, <2>4
<1>6. ASSUME NEW k \in 1..Len(e)
      PROVE  /\ ComesBefore(t, n + k, kind, x) <=> Coming(s, kind, x) \/ ComesBefore(e, k, kind, x)
             /\ ComesAfter(t, n + k, kind, x) <=> ComesAfter(e, k, kind, x)
    <2>1. ComesBefore(t, n + k, kind, x) => Coming(s, kind, x) \/ ComesBefore(e, k, kind, x)
        BY <1>1, <1>2, <1>3 DEF ComesBefore, Coming
    <2>2. Coming(s, kind, x) => ComesBefore(t, n + k, kind, x)
        BY <1>1, <1>2, <1>3 DEF ComesBefore, Coming
    <2>3. ComesBefore(e, k, kind, x) => ComesBefore(t, n + k, kind, x)
        BY <1>1, <1>3 DEF ComesBefore
    <2>4. ComesAfter(t, n + k, kind, x) => ComesAfter(e, k, kind, x)
        BY <1>1, <1>3 DEF ComesAfter
    <2>5. ComesAfter(e, k, kind, x) => ComesAfter(t, n + k, kind, x)
        BY <1>1, <1>3 DEF ComesAfter
    <2> QED BY <2>1, <2>2, <2>3, <2>4, <2>5
<1> QED BY <1>4, <1>5, <1>6 DEF t, n

LEMMA SilentAfterConcat ==
    ASSUME NEW s \in Seq(Event), NEW e \in Seq(Event), NEW kinds, NEW x
    PROVE  /\ Silent(s \o e, kinds, x) <=> Silent(s, kinds, x) /\ Silent(e, kinds, x)
           /\ \A k \in 1..Len(s) :
                 /\ SilentBefore(s \o e, k, kinds, x) <=> SilentBefore(s, k, kinds, x)
                 /\ SilentAfter(s \o e, k, kinds, x) <=> SilentAfter(s, k, kinds, x) /\ Silent(e, kinds, x)
           /\ \A k \in 1..Len(e) :
                 /\ SilentBefore(s \o e, Len(s) + k, kinds, x) <=> Silent(s, kinds, x) /\ SilentBefore(e, k, kinds, x)
                 /\ SilentAfter(s \o e, Len(s) + k, kinds, x) <=> SilentAfter(e, k, kinds, x)
<1> DEFINE t == s \o e
           n == Len(s)
<1>1. /\ n \in Nat /\ Len(e) \in Nat /\ Len(t) = n + Len(e)
      /\ \A k \in 1..n : k \in 1..Len(t) /\ t[k] = s[k]
      /\ \A k \in 1..Len(e) : n + k \in 1..Len(t) /\ t[n + k] = e[k]
      /\ \A k \in 1..Len(t) : k > n => k - n \in 1..Len(e) /\ t[k] = e[k - n]
    BY ConcatOfWire
<1>2. Len(s) = n
    OBVIOUS
<1> HIDE DEF t, n
<1>3. /\ \A k \in 1..n : About(t, k, kinds, x) <=> About(s, k, kinds, x)
      /\ \A k \in 1..Len(e) : About(t, n + k, kinds, x) <=> About(e, k, kinds, x)
      /\ \A k \in 1..Len(t) : k > n => (About(t, k, kinds, x) <=> About(e, k - n, kinds, x))
    BY <1>1 DEF About
<1>4. Silent(t, kinds, x) <=> Silent(s, kinds, x) /\ Silent(e, kinds, x)
    <2>1. Silent(t, kinds, x) => Silent(s, kinds, x)
        BY <1>1, <1>2, <1>3 DEF Silent
    <2>2. Silent(t, kinds, x) => Silent(e, kinds, x)
        BY <1>1, <1>2, <1>3 DEF Silent
    <2>3. Silent(s, kinds, x) /\ Silent(e, kinds, x) => Silent(t, kinds, x)
        BY <1>1, <1>2, <1>3 DEF Silent
    <2> QED BY <2>1, <2>2, <2>3
<1>5. ASSUME NEW k \in 1..n
      PROVE  /\ SilentBefore(t, k, kinds, x) <=> SilentBefore(s, k, kinds, x)
             /\ SilentAfter(t, k, kinds, x) <=> SilentAfter(s, k, kinds, x) /\ Silent(e, kinds, x)
    <2>1. SilentBefore(t, k, kinds, x) <=> SilentBefore(s, k, kinds, x)
        BY <1>1, <1>2, <1>3 DEF SilentBefore
    <2>2. SilentAfter(t, k, kinds, x) => SilentAfter(s, k, kinds, x)
        BY <1>1, <1>2, <1>3 DEF SilentAfter
    <2>3. SilentAfter(t, k, kinds, x) => Silent(e, kinds, x)
        <3>1. \A j \in 1..Len(e) : n + j > k
            BY <1>1
        <3> QED BY <1>1, <1>3, <3>1 DEF SilentAfter, Silent
    <2>4. SilentAfter(s, k, kinds, x) /\ Silent(e, kinds, x) => SilentAfter(t, k, kinds, x)
        BY <1>1, <1>2, <1>3 DEF SilentAfter, Silent
    <2> QED BY <2>1, <2>2, <2>3, <2>4
<1>6. ASSUME NEW k \in 1..Len(e)
      PROVE  /\ SilentBefore(t, n + k, kinds, x) <=> Silent(s, kinds, x) /\ SilentBefore(e, k, kinds, x)
             /\ SilentAfter(t, n + k, kinds, x) <=> SilentAfter(e, k, kinds, x)
    <2>1. SilentBefore(t, n + k, kinds, x) => Silent(s, kinds, x)
        BY <1>1, <1>2, <1>3 DEF SilentBefore, Silent
    <2>2. SilentBefore(t, n + k, kinds, x) => SilentBefore(e, k, kinds, x)
        BY <1>1, <1>3 DEF SilentBefore
    <2>3. Silent(s, kinds, x) /\ SilentBefore(e, k, kinds, x) => SilentBefore(t, n + k, kinds, x)
        BY <1>1, <1>2, <1>3 DEF SilentBefore, Silent
    <2>4. SilentAfter(t, n + k, kinds, x) <=> SilentAfter(e, k, kinds, x)
        BY <1>1, <1>3 DEF SilentAfter
    <2> QED BY <2>1, <2>2, <2>3, <2>4
<1> QED BY <1>4, <1>5, <1>6 DEF t, n

\* A wire stays in blocks when its first event is taken and when whole blocks are put
\* at its end.
LEMMA BlocksAfterTail ==
    ASSUME NEW s \in Seq(Event), s # <<>>, InBlocks(s)
    PROVE  InBlocks(Tail(s))
<1> DEFINE t == Tail(s)
<1>1. /\ Len(s) \in Nat \ {0} /\ Len(t) = Len(s) - 1
      /\ \A k \in 1..Len(t) : k + 1 \in 1..Len(s) /\ t[k] = s[k + 1]
    BY TailOfWire
<1> HIDE DEF t
<1>2. SUFFICES ASSUME NEW k \in 1..Len(t)
               PROVE  /\ t[k][1] \notin Ends => k + 1 <= Len(t) /\ Leads(t[k], t[k + 1])
                      /\ t[k][1] \in Follows /\ k > 1 => Leads(t[k - 1], t[k])
    BY DEF InBlocks, t
<1>3. ASSUME t[k][1] \notin Ends PROVE k + 1 <= Len(t) /\ Leads(t[k], t[k + 1])
    <2>1. k + 1 + 1 <= Len(s) /\ Leads(s[k + 1], s[k + 1 + 1])
        BY <1>1, <1>3 DEF InBlocks
    <2>2. k + 1 \in 1..Len(t)
        BY <1>1, <2>1
    <2> QED BY <1>1, <2>1, <2>2
<1>4. ASSUME t[k][1] \in Follows, k > 1 PROVE Leads(t[k - 1], t[k])
    <2>1. k - 1 \in 1..Len(t) /\ (k - 1) + 1 = k /\ k + 1 > 1 /\ (k + 1) - 1 = k
        BY <1>1, <1>4
    <2>2. Leads(s[k], s[k + 1])
        BY <1>1, <1>4, <2>1 DEF InBlocks
    <2> QED BY <1>1, <2>1, <2>2
<1> QED BY <1>3, <1>4

LEMMA BlocksAfterConcat ==
    ASSUME NEW s \in Seq(Event), NEW e \in Seq(Event), InBlocks(s), InBlocks(e),
           Len(e) > 0, e[1][1] \notin Follows
    PROVE  InBlocks(s \o e)
<1> DEFINE t == s \o e
           n == Len(s)
<1>1. /\ n \in Nat /\ Len(e) \in Nat /\ Len(t) = n + Len(e)
      /\ \A k \in 1..n : k \in 1..Len(t) /\ t[k] = s[k]
      /\ \A k \in 1..Len(e) : n + k \in 1..Len(t) /\ t[n + k] = e[k]
      /\ \A k \in 1..Len(t) : k > n => k - n \in 1..Len(e) /\ t[k] = e[k - n]
    BY ConcatOfWire
<1>0. n \in Nat /\ Len(e) \in Nat /\ Len(t) = n + Len(e)
    BY <1>1
<1>2. Len(s) = n
    OBVIOUS
<1> HIDE DEF t, n
<1>3. SUFFICES ASSUME NEW k \in 1..Len(t)
               PROVE  /\ t[k][1] \notin Ends => k + 1 <= Len(t) /\ Leads(t[k], t[k + 1])
                      /\ t[k][1] \in Follows /\ k > 1 => Leads(t[k - 1], t[k])
    BY DEF InBlocks, t
<1>4. CASE k <= n
    <2>1. k \in 1..n /\ t[k] = s[k]
        BY <1>1, <1>4
    <2>2. ASSUME t[k][1] \notin Ends PROVE k + 1 <= Len(t) /\ Leads(t[k], t[k + 1])
        <3>1. k + 1 <= n /\ Leads(s[k], s[k + 1])
            BY <1>2, <2>1, <2>2 DEF InBlocks
        <3>2. k + 1 \in 1..n
            BY <1>1, <3>1
        <3> QED BY <1>1, <2>1, <3>1, <3>2
    <2>3. ASSUME t[k][1] \in Follows, k > 1 PROVE Leads(t[k - 1], t[k])
        <3>1. Leads(s[k - 1], s[k]) /\ k - 1 \in 1..n
            BY <1>1, <1>2, <2>1, <2>3 DEF InBlocks
        <3> QED BY <1>1, <2>1, <3>1
    <2> QED BY <2>2, <2>3
<1>5. CASE k > n
    <2> DEFINE j == k - n
    <2>1. j \in 1..Len(e) /\ t[k] = e[j] /\ k = n + j
        BY <1>1, <1>5
    <2> HIDE DEF j
    <2>2. ASSUME t[k][1] \notin Ends PROVE k + 1 <= Len(t) /\ Leads(t[k], t[k + 1])
        <3>1. j + 1 <= Len(e) /\ Leads(e[j], e[j + 1])
            BY <2>1, <2>2 DEF InBlocks
        <3> DEFINE m == Len(e)
        <3>4. n \in Nat /\ m \in Nat /\ Len(t) = n + m /\ j \in 1..m /\ j + 1 <= m /\ k = n + j
            BY <1>0, <2>1, <3>1
        <3> HIDE DEF m
        <3>5. j + 1 \in 1..m /\ n + (j + 1) = k + 1 /\ k + 1 <= n + m
            BY <3>4
        <3>2. j + 1 \in 1..Len(e) /\ n + (j + 1) = k + 1 /\ k + 1 <= Len(t)
            BY <3>4, <3>5 DEF m
        <3>3. t[k + 1] = e[j + 1]
            BY <1>1, <3>2
        <3> QED BY <2>1, <3>1, <3>2, <3>3
    <2>3. ASSUME t[k][1] \in Follows, k > 1 PROVE Leads(t[k - 1], t[k])
        <3>1. j # 1
            BY <2>1, <2>3
        <3>2. j > 1 /\ j - 1 \in 1..Len(e) /\ n + (j - 1) = k - 1
            BY <1>0, <2>1, <3>1
        <3>3. Leads(e[j - 1], e[j])
            BY <2>1, <2>3, <3>2 DEF InBlocks
        <3>4. t[k - 1] = e[j - 1]
            BY <1>1, <3>2
        <3> QED BY <2>1, <3>3, <3>4
    <2> QED BY <2>2, <2>3
<1> QED BY <1>1, <1>4, <1>5

-----------------------------------------------------------------------------
(* A window, when an event is taken from the wire. *)

\* Events of others do not touch it.
LEMMA WindowSkips ==
    ASSUME NEW s \in Seq(Event), s # <<>>, InBlocks(s), NEW w, NEW i, NEW st,
           WindowInv(w, i, st, s), ~About(s, 1, WindowKinds, w)
    PROVE  WindowInv(w, i, st, Tail(s))
<1> DEFINE t == Tail(s)
<1>1. /\ Len(s) \in Nat \ {0} /\ Len(t) = Len(s) - 1
      /\ \A k \in 1..Len(t) : k + 1 \in 1..Len(s) /\ t[k] = s[k + 1]
    BY TailOfWire
<1>2. \A kind : ~At(s, 1, kind, w) \/ kind \notin WindowKinds
    BY DEF At, About
<1>3. \A kind \in WindowKinds :
          /\ Coming(s, kind, w) <=> Coming(t, kind, w)
          /\ \A k \in 1..Len(t) : /\ ComesBefore(s, k + 1, kind, w) <=> ComesBefore(t, k, kind, w)
                                  /\ ComesAfter(s, k + 1, kind, w) <=> ComesAfter(t, k, kind, w)
    BY <1>2, ComingAfterTail
<1>4. /\ Silent(s, WindowKinds, w) <=> Silent(t, WindowKinds, w)
      /\ \A k \in 1..Len(t) :
            /\ SilentBefore(s, k + 1, WindowKinds, w) <=> SilentBefore(t, k, WindowKinds, w)
            /\ SilentAfter(s, k + 1, WindowKinds, w) <=> SilentAfter(t, k, WindowKinds, w)
    BY SilentAfterTail
<1>5. {"toplevel", "closed", "title", "identifier"} \subseteq WindowKinds
    BY DEF WindowKinds
<1> HIDE DEF t
<1>6. WindowAppears(w, i, st, t)
    BY <1>1, <1>3, <1>4, <1>5 DEF WindowInv, WindowAppears, At, About
<1>7. WindowGoes(w, i, st, t)
    BY <1>1, <1>3, <1>4, <1>5 DEF WindowInv, WindowGoes, At
<1>8. TitleArrives(w, i, st, t)
    BY <1>1, <1>3, <1>5 DEF WindowInv, TitleArrives, At
<1>9. IdentifierArrives(w, i, st, t)
    BY <1>1, <1>3, <1>5 DEF WindowInv, IdentifierArrives, At
<1>10. ASSUME Len(t) > 0 PROVE ~About(t, 1, {"appId", "identifier", "done"}, w)
    <2>1. t[1] = s[2] /\ 2 \in 1..Len(s)
        BY <1>1, <1>10
    <2>2. s[2][1] \in Follows => Leads(s[1], s[2])
        BY <2>1 DEF InBlocks
    <2> QED BY <2>1, <2>2 DEF Leads, Follows, About, WindowKinds
<1>11. ComesWhole(w, st, t)
    BY <1>10 DEF WindowInv, ComesWhole, About, WindowKinds
<1> QED BY <1>6, <1>7, <1>8, <1>9, <1>11 DEF WindowInv, t

\* What the first event, which is w's, leaves.
LEMMA WindowTakes ==
    ASSUME NEW s \in Seq(Event), s # <<>>, InBlocks(s), NEW w, NEW i, NEW st,
           WindowInv(w, i, st, s), About(s, 1, WindowKinds \ {"toplevel"}, w)
    PROVE  /\ st # None
           /\ ~Coming(Tail(s), "toplevel", w)
           /\ \A k \in 1..Len(Tail(s)) : ~At(Tail(s), k, "toplevel", w)
<1> DEFINE t == Tail(s)
<1>1. /\ Len(s) \in Nat \ {0} /\ Len(t) = Len(s) - 1
      /\ \A k \in 1..Len(t) : k + 1 \in 1..Len(s) /\ t[k] = s[k + 1]
    BY TailOfWire
<1>2. ~ComesBefore(s, 1, "toplevel", w)
    BY <1>1 DEF ComesBefore
<1>3. st # None
    BY <1>1, <1>2 DEF WindowInv, WindowAppears
<1>4. \A k \in 1..Len(s) : ~At(s, k, "toplevel", w)
    BY <1>3 DEF WindowInv, WindowAppears
<1> HIDE DEF t
<1>5. \A k \in 1..Len(t) : ~At(t, k, "toplevel", w)
    BY <1>1, <1>4 DEF At
<1> QED BY <1>3, <1>5 DEF t, Coming

\* It is announced: the rest follows.
LEMMA WindowToplevel ==
    ASSUME NEW s \in Seq(Event), s # <<>>, InBlocks(s), NEW w, NEW i, NEW st, NEW new \in ToplevelState,
           WindowInv(w, i, st, s), At(s, 1, "toplevel", w),
           new.pending = Unknown, new.info = Unknown
    PROVE  WindowInv(w, i, new, Tail(s))
<1> DEFINE t == Tail(s)
<1>1. /\ Len(s) \in Nat \ {0} /\ Len(t) = Len(s) - 1
      /\ \A k \in 1..Len(t) : k + 1 \in 1..Len(s) /\ t[k] = s[k + 1]
    BY TailOfWire
<1>2. /\ st = None /\ new # None /\ i # None
      /\ ~Unknown.identifier
    <2>1. ~Silent(s, WindowKinds, w)
        BY <1>1 DEF Silent, At, About, WindowKinds
    <2> QED BY <1>1, <2>1, SourcesAssumption DEF WindowInv, WindowAppears, Unknown
<1>3. /\ \A kind \in {"closed", "title", "identifier"} :
            /\ Coming(s, kind, w) <=> Coming(t, kind, w)
            /\ \A k \in 1..Len(t) : /\ ComesBefore(s, k + 1, kind, w) <=> ComesBefore(t, k, kind, w)
                                    /\ ComesAfter(s, k + 1, kind, w) <=> ComesAfter(t, k, kind, w)
    BY ComingAfterTail DEF At
<1>4. \A k \in 1..Len(t) : SilentAfter(s, k + 1, WindowKinds, w) <=> SilentAfter(t, k, WindowKinds, w)
    BY SilentAfterTail
<1>5. \A k \in 1..Len(t) : ~At(t, k, "toplevel", w)
    <2>1. ASSUME NEW k \in 1..Len(t), At(t, k, "toplevel", w) PROVE FALSE
        <3>1. SilentBefore(s, k + 1, WindowKinds, w)
            BY <1>1, <2>1 DEF WindowInv, WindowAppears, At
        <3>2. 1 \in 1..Len(s) /\ 1 < k + 1
            BY <1>1
        <3> QED BY <3>1, <3>2 DEF SilentBefore, At, About, WindowKinds
    <2> QED BY <2>1
<1>6. Len(t) > 0 /\ At(t, 1, "title", w)
    BY <1>1 DEF InBlocks, Ends, Leads, At
<1>7. Coming(t, "title", w)
    BY <1>1, <1>6 DEF Coming
<1> HIDE DEF t
<1>8. WindowAppears(w, i, new, t)
    BY <1>2, <1>5 DEF WindowAppears, At, About
<1>9. WindowGoes(w, i, new, t)
    <2>1. i = "closed" => Coming(t, "closed", w)
        <3>1. ~Silent(s, WindowKinds, w)
            BY <1>1 DEF Silent, At, About, WindowKinds
        <3> QED BY <1>3, <3>1 DEF WindowInv, WindowGoes
    <2> QED BY <1>1, <1>3, <1>4, <2>1 DEF WindowInv, WindowGoes, At
<1>10. TitleArrives(w, i, new, t)
    BY <1>1, <1>3, <1>7 DEF WindowInv, TitleArrives, At
<1>11. IdentifierArrives(w, i, new, t)
    BY <1>1, <1>2, <1>3 DEF WindowInv, IdentifierArrives, At
<1>12. ComesWhole(w, new, t)
    BY <1>2, <1>6 DEF ComesWhole, At, About
<1> QED BY <1>8, <1>9, <1>10, <1>11, <1>12 DEF WindowInv, t

\* A title, an application id or an identifier is added to what is pending.
LEMMA WindowReceives ==
    ASSUME NEW s \in Seq(Event), s # <<>>, InBlocks(s), NEW w, NEW i, NEW st, NEW new \in ToplevelState,
           WindowInv(w, i, st, s), About(s, 1, {"title", "appId", "identifier"}, w),
           new.info = st.info,
           new.pending.title = IF s[1][1] = "title" THEN s[1][3] ELSE st.pending.title,
           s[1][1] = "appId" => s[1][3] # None,
           new.pending.appId = IF s[1][1] = "appId" THEN s[1][3] ELSE st.pending.appId,
           new.pending.identifier = (s[1][1] = "identifier" \/ st.pending.identifier)
    PROVE  WindowInv(w, i, new, Tail(s))
<1> DEFINE t == Tail(s)
<1>1. /\ Len(s) \in Nat \ {0} /\ Len(t) = Len(s) - 1
      /\ \A k \in 1..Len(t) : k + 1 \in 1..Len(s) /\ t[k] = s[k + 1]
    BY TailOfWire
<1>2. /\ st # None /\ new # None /\ \A k \in 1..Len(t) : ~At(t, k, "toplevel", w)
    BY WindowTakes, SourcesAssumption DEF About, WindowKinds
<1>3. ~Silent(s, WindowKinds, w)
    BY <1>1 DEF Silent, About, WindowKinds
<1>4. /\ Coming(s, "closed", w) <=> Coming(t, "closed", w)
      /\ Coming(s, "title", w) <=> s[1][1] = "title" \/ Coming(t, "title", w)
      /\ ComesAfter(s, 1, "title", w) <=> Coming(t, "title", w)
      /\ Coming(s, "identifier", w) <=> s[1][1] = "identifier" \/ Coming(t, "identifier", w)
      /\ \A k \in 1..Len(t) :
            /\ ComesAfter(s, k + 1, "title", w) <=> ComesAfter(t, k, "title", w)
            /\ ComesBefore(s, k + 1, "identifier", w) <=> s[1][1] = "identifier" \/ ComesBefore(t, k, "identifier", w)
            /\ SilentAfter(s, k + 1, WindowKinds, w) <=> SilentAfter(t, k, WindowKinds, w)
    BY ComingAfterTail, SilentAfterTail DEF At, About
<1>5. Len(t) > 0 /\ Leads(s[1], t[1])
    BY <1>1 DEF InBlocks, Ends, About
<1> HIDE DEF t
<1>6. WindowAppears(w, i, new, t)
    BY <1>2, <1>3 DEF WindowInv, WindowAppears
<1>7. WindowGoes(w, i, new, t)
    BY <1>1, <1>3, <1>4 DEF WindowInv, WindowGoes, At
<1>8. TitleArrives(w, i, new, t)
    <2>1. SUFFICES ASSUME i \in Infos PROVE
              /\ \A k \in 1..Len(t) : At(t, k, "title", w) => t[k][3] = i \/ ComesAfter(t, k, "title", w)
              /\ ~Coming(t, "title", w) => new.pending.title = i
        BY DEF TitleArrives
    <2>2. /\ \A k \in 1..Len(s) : At(s, k, "title", w) => s[k][3] = i \/ ComesAfter(s, k, "title", w)
          /\ ~Coming(s, "title", w) => st.pending.title = i
        BY <1>2, <2>1 DEF WindowInv, TitleArrives
    <2>3. \A k \in 1..Len(t) : At(t, k, "title", w) => t[k][3] = i \/ ComesAfter(t, k, "title", w)
        BY <1>1, <1>4, <2>2 DEF At
    <2>4. ~Coming(t, "title", w) => new.pending.title = i
        BY <1>1, <1>4, <2>2 DEF At, About
    <2> QED BY <2>3, <2>4
<1>9. IdentifierArrives(w, i, new, t)
    BY <1>1, <1>2, <1>4 DEF WindowInv, IdentifierArrives, At
<1>10. ComesWhole(w, new, t)
    <2>1. /\ st.info.identifier => IsWhole(st.info)
          /\ s[1][1] = "appId" => st.pending.title = s[1][3]
          /\ s[1][1] = "identifier" => IsWhole(st.pending)
        BY <1>1, <1>2 DEF WindowInv, ComesWhole, About
    <2>2. About(t, 1, {"appId", "identifier", "done"}, w)
        BY <1>5 DEF Leads, About
    <2>3. t[1][1] = "appId" => new.pending.title = t[1][3]
        BY <1>5 DEF Leads, About
    <2>4. t[1][1] # "appId" => IsWhole(new.pending)
        BY <1>5, <2>1 DEF Leads, About, IsWhole
    <2> QED BY <1>5, <2>1, <2>2, <2>3, <2>4 DEF ComesWhole
<1> QED BY <1>6, <1>7, <1>8, <1>9, <1>10 DEF WindowInv, t

\* What is pending is committed at the end of a block.
LEMMA WindowDone ==
    ASSUME NEW s \in Seq(Event), s # <<>>, InBlocks(s), NEW w, NEW i, NEW st, NEW new \in ToplevelState,
           WindowInv(w, i, st, s), At(s, 1, "done", w),
           new.info = st.pending, new.pending = st.pending
    PROVE  WindowInv(w, i, new, Tail(s))
<1> DEFINE t == Tail(s)
<1>1. /\ Len(s) \in Nat \ {0} /\ Len(t) = Len(s) - 1
      /\ \A k \in 1..Len(t) : k + 1 \in 1..Len(s) /\ t[k] = s[k + 1]
    BY TailOfWire
<1>2. /\ st # None /\ new # None /\ \A k \in 1..Len(t) : ~At(t, k, "toplevel", w)
    BY WindowTakes, SourcesAssumption DEF At, About, WindowKinds
<1>3. ~Silent(s, WindowKinds, w)
    BY <1>1 DEF Silent, At, About, WindowKinds
<1>4. /\ \A kind \in {"closed", "title", "identifier"} :
            /\ Coming(s, kind, w) <=> Coming(t, kind, w)
            /\ \A k \in 1..Len(t) : /\ ComesBefore(s, k + 1, kind, w) <=> ComesBefore(t, k, kind, w)
                                    /\ ComesAfter(s, k + 1, kind, w) <=> ComesAfter(t, k, kind, w)
      /\ \A k \in 1..Len(t) : SilentAfter(s, k + 1, WindowKinds, w) <=> SilentAfter(t, k, WindowKinds, w)
    BY ComingAfterTail, SilentAfterTail DEF At
<1>5. ASSUME Len(t) > 0 PROVE ~About(t, 1, {"appId", "identifier", "done"}, w)
    <2>1. t[1] = s[2] /\ 2 \in 1..Len(s)
        BY <1>1, <1>5
    <2>2. s[2][1] \in Follows => Leads(s[1], s[2])
        BY <2>1 DEF InBlocks
    <2> QED BY <2>1, <2>2 DEF Leads, Follows, About, At
<1> HIDE DEF t
<1>6. WindowAppears(w, i, new, t)
    BY <1>2, <1>3 DEF WindowInv, WindowAppears
<1>7. WindowGoes(w, i, new, t)
    BY <1>1, <1>3, <1>4 DEF WindowInv, WindowGoes, At
<1>8. TitleArrives(w, i, new, t)
    BY <1>1, <1>2, <1>4 DEF WindowInv, TitleArrives, At
<1>9. IdentifierArrives(w, i, new, t)
    BY <1>1, <1>2, <1>4 DEF WindowInv, IdentifierArrives, At
<1>10. ComesWhole(w, new, t)
    BY <1>1, <1>2, <1>5 DEF WindowInv, ComesWhole, At, About
<1> QED BY <1>6, <1>7, <1>8, <1>9, <1>10 DEF WindowInv, t

\* It is forgotten when it has closed.
LEMMA WindowClosed ==
    ASSUME NEW s \in Seq(Event), s # <<>>, InBlocks(s), NEW w, NEW i, NEW st,
           WindowInv(w, i, st, s), At(s, 1, "closed", w)
    PROVE  WindowInv(w, i, None, Tail(s))
<1> DEFINE t == Tail(s)
<1>1. /\ Len(s) \in Nat \ {0} /\ Len(t) = Len(s) - 1
    BY TailOfWire
<1>2. i = "closed" /\ Silent(t, WindowKinds, w)
    BY <1>1, SilentAfterTail DEF WindowInv, WindowGoes
<1>3. \A kind \in WindowKinds : \A k \in 1..Len(t) : ~At(t, k, kind, w)
    BY <1>2 DEF Silent, At, About
<1>4. \A k \in 1..Len(t) : ~About(t, k, WindowKinds \ {"toplevel"}, w)
    BY <1>2 DEF Silent, About
<1> HIDE DEF t
<1>5. i \notin Infos
    BY <1>2, SourcesAssumption
<1>6. {"toplevel", "closed", "done"} \subseteq WindowKinds
    BY DEF WindowKinds
<1> QED BY <1>2, <1>3, <1>4, <1>5, <1>6
        DEF WindowInv, WindowAppears, WindowGoes, TitleArrives, IdentifierArrives, ComesWhole, t

-----------------------------------------------------------------------------
(* A window, when the compositor speaks. *)

\* An event of a wire that was longer is an old one or a new one.
LEMMA OldOrNew ==
    ASSUME NEW s \in Seq(Event), NEW e \in Seq(Event), NEW k \in 1..Len(s \o e)
    PROVE  \/ k \in 1..Len(s) /\ (s \o e)[k] = s[k]
           \/ \E j \in 1..Len(e) : k = Len(s) + j /\ (s \o e)[k] = e[j]
<1> DEFINE n == Len(s)
           t == s \o e
<1>1. /\ n \in Nat /\ Len(t) = n + Len(e) /\ Len(e) \in Nat
      /\ \A l \in 1..n : t[l] = s[l]
      /\ \A l \in 1..Len(t) : l > n => l - n \in 1..Len(e) /\ t[l] = e[l - n]
    BY ConcatOfWire
<1>2. k \in 1..Len(t)
    OBVIOUS
<1> HIDE DEF t, n
<1>3. CASE k <= n
    BY <1>1, <1>2, <1>3 DEF n, t
<1>4. CASE k > n
    <2>1. k - n \in 1..Len(e) /\ t[k] = e[k - n] /\ k = n + (k - n)
        BY <1>1, <1>2, <1>4
    <2> QED BY <2>1 DEF n, t
<1> QED BY <1>1, <1>2, <1>3, <1>4

\* Events of others do not touch it.
LEMMA WindowUntold ==
    ASSUME NEW s \in Seq(Event), NEW e \in Seq(Event), NEW w, NEW i, NEW st,
           WindowInv(w, i, st, s), Silent(e, WindowKinds, w)
    PROVE  WindowInv(w, i, st, s \o e)
<1> DEFINE t == s \o e
           n == Len(s)
<1>1. /\ n \in Nat /\ Len(e) \in Nat /\ Len(t) = n + Len(e)
      /\ \A k \in 1..n : k \in 1..Len(t) /\ t[k] = s[k]
    BY ConcatOfWire
<1>2. \A k \in 1..Len(t) : (k \in 1..n /\ t[k] = s[k]) \/ ~About(t, k, WindowKinds, w)
    BY OldOrNew DEF Silent, About
<1>3. \A kind \in WindowKinds : ~Coming(e, kind, w)
    BY DEF Silent, Coming, At, About
<1>4. \A kind \in WindowKinds :
          /\ Coming(t, kind, w) <=> Coming(s, kind, w)
          /\ \A k \in 1..n : /\ ComesBefore(t, k, kind, w) <=> ComesBefore(s, k, kind, w)
                             /\ ComesAfter(t, k, kind, w) <=> ComesAfter(s, k, kind, w)
    BY <1>3, ComingAfterConcat
<1>5. /\ Silent(t, WindowKinds, w) <=> Silent(s, WindowKinds, w)
      /\ \A k \in 1..n : /\ SilentBefore(t, k, WindowKinds, w) <=> SilentBefore(s, k, WindowKinds, w)
                         /\ SilentAfter(t, k, WindowKinds, w) <=> SilentAfter(s, k, WindowKinds, w)
    BY SilentAfterConcat
<1>6. Len(s) = n
    OBVIOUS
<1>7. \A k \in 1..Len(t), kind \in WindowKinds : At(t, k, kind, w) => k \in 1..n /\ At(s, k, kind, w)
    BY <1>2 DEF At, About
<1>8. {"toplevel", "closed", "title", "identifier", "done"} \subseteq WindowKinds
    BY DEF WindowKinds
<1> HIDE DEF t, n
<1>9. WindowAppears(w, i, st, t)
    BY <1>2, <1>4, <1>5, <1>6, <1>7, <1>8 DEF WindowInv, WindowAppears, About
<1>10. WindowGoes(w, i, st, t)
    BY <1>4, <1>5, <1>6, <1>7, <1>8 DEF WindowInv, WindowGoes
<1>11. TitleArrives(w, i, st, t)
    BY <1>2, <1>4, <1>6, <1>7, <1>8 DEF WindowInv, TitleArrives, At, About
<1>12. IdentifierArrives(w, i, st, t)
    BY <1>4, <1>6, <1>7, <1>8 DEF WindowInv, IdentifierArrives
<1>13. ComesWhole(w, st, t)
    <2>1. {"appId", "identifier", "done"} \subseteq WindowKinds
        BY DEF WindowKinds
    <2>2. CASE n = 0
        <3>1. Len(t) > 0 => ~About(t, 1, WindowKinds, w)
            BY <1>1, <1>2, <2>2
        <3> QED BY <1>1, <1>6, <2>1, <2>2, <3>1 DEF WindowInv, ComesWhole, About
    <2>3. CASE n # 0
        <3>1. n > 0 /\ Len(t) > 0 /\ t[1] = s[1]
            BY <1>1, <2>3
        <3> QED BY <1>6, <3>1 DEF WindowInv, ComesWhole, About
    <2> QED BY <2>2, <2>3
<1> QED BY <1>9, <1>10, <1>11, <1>12, <1>13 DEF WindowInv, t

\* It opens.
LEMMA WindowOpens ==
    ASSUME NEW s \in Seq(Event), NEW w, NEW st, NEW x \in Infos, NEW e \in Seq(Event),
           WindowInv(w, None, st, s),
           Len(e) = 5, At(e, 1, "toplevel", w), At(e, 2, "title", w), e[2][3] = x, At(e, 3, "appId", w),
           At(e, 4, "identifier", w), At(e, 5, "done", w)
    PROVE  WindowInv(w, x, st, s \o e)
<1> DEFINE t == s \o e
           n == Len(s)
<1>0. /\ n \in Nat /\ Len(t) = n + Len(e)
      /\ \A k \in 1..n : k \in 1..Len(t) /\ t[k] = s[k]
      /\ \A k \in 1..Len(e) : n + k \in 1..Len(t) /\ t[n + k] = e[k]
    BY ConcatOfWire
<1>00. \A k \in 1..Len(t) : (k \in 1..n /\ t[k] = s[k]) \/ \E j \in 1..Len(e) : k = n + j /\ t[k] = e[j]
    BY OldOrNew
<1>1. /\ n \in Nat /\ Len(e) = 5 /\ Len(t) = n + 5
      /\ \A k \in 1..n : k \in 1..Len(t) /\ t[k] = s[k]
      /\ \A k \in 1..5 : n + k \in 1..Len(t) /\ t[n + k] = e[k]
    BY <1>0
<1>2. st = None /\ Silent(s, WindowKinds, w)
    BY DEF WindowInv, WindowAppears
<1>3. \A k \in 1..Len(t) : ~About(t, k, WindowKinds, w) \/ \E j \in 1..5 : k = n + j /\ t[k] = e[j]
    BY <1>00, <1>1, <1>2 DEF Silent, About
<1>4. /\ e[1][1] = "toplevel" /\ e[2][1] = "title" /\ e[3][1] = "appId" /\ e[4][1] = "identifier" /\ e[5][1] = "done"
      /\ e[1][2] = w /\ e[2][2] = w /\ e[3][2] = w /\ e[4][2] = w /\ e[5][2] = w
      /\ e[2][3] = x
    BY DEF At
<1>5. \A k \in 1..Len(t) :
          /\ At(t, k, "toplevel", w) => k = n + 1
          /\ At(t, k, "title", w) => k = n + 2 /\ t[k] = e[2]
          /\ At(t, k, "done", w) => k = n + 5
          /\ ~At(t, k, "closed", w)
          /\ About(t, k, WindowKinds \ {"toplevel"}, w) => k > n + 1
    <2>1. SUFFICES ASSUME NEW k \in 1..Len(t), About(t, k, WindowKinds, w) PROVE
              /\ At(t, k, "toplevel", w) => k = n + 1
              /\ At(t, k, "title", w) => k = n + 2 /\ t[k] = e[2]
              /\ At(t, k, "done", w) => k = n + 5
              /\ ~At(t, k, "closed", w)
              /\ About(t, k, WindowKinds \ {"toplevel"}, w) => k > n + 1
        BY DEF At, About, WindowKinds
    <2>2. PICK j \in 1..5 : k = n + j /\ t[k] = e[j]
        BY <1>3, <2>1
    <2>3. j = 1 \/ j = 2 \/ j = 3 \/ j = 4 \/ j = 5
        BY <2>2
    <2> QED BY <1>1, <1>4, <2>2, <2>3 DEF At, About, WindowKinds
<1> HIDE DEF t, n
<1>6. /\ n + 1 \in 1..Len(t) /\ At(t, n + 1, "toplevel", w)
      /\ n + 2 \in 1..Len(t) /\ At(t, n + 2, "title", w)
      /\ n + 4 \in 1..Len(t) /\ At(t, n + 4, "identifier", w)
    BY <1>1, <1>4 DEF At
<1>7. Coming(t, "toplevel", w) /\ Coming(t, "title", w) /\ Coming(t, "identifier", w)
    BY <1>6 DEF Coming
<1>8. ComesBefore(t, n + 5, "identifier", w)
    BY <1>1, <1>6 DEF ComesBefore
<1>9. \A k \in 1..Len(t) : k > n + 1 => ComesBefore(t, k, "toplevel", w)
    BY <1>1, <1>6 DEF ComesBefore
<1>10. SilentBefore(t, n + 1, WindowKinds, w)
    <2>1. ASSUME NEW k \in 1..Len(t), k < n + 1 PROVE ~About(t, k, WindowKinds, w)
        <3>1. \A j \in 1..5 : k # n + j
            BY <1>1, <2>1
        <3> QED BY <1>3, <3>1
    <2> QED BY <2>1 DEF SilentBefore
<1>11. x # None /\ x # "closed"
    BY SourcesAssumption
<1>12. WindowAppears(w, x, st, t)
    BY <1>2, <1>5, <1>7, <1>9, <1>10, <1>11 DEF WindowAppears
<1>13. WindowGoes(w, x, st, t)
    BY <1>5, <1>11 DEF WindowGoes
<1>14. TitleArrives(w, x, st, t)
    BY <1>2, <1>4, <1>5 DEF TitleArrives
<1>15. IdentifierArrives(w, x, st, t)
    BY <1>5, <1>7, <1>8 DEF IdentifierArrives
<1>16. ComesWhole(w, st, t)
    BY <1>2 DEF ComesWhole
<1> QED BY <1>12, <1>13, <1>14, <1>15, <1>16 DEF WindowInv, t

\* It gets a new title and application id.
LEMMA WindowRenamed ==
    ASSUME NEW s \in Seq(Event), NEW w, NEW st, NEW i \in Infos, NEW x \in Infos, NEW e \in Seq(Event),
           WindowInv(w, i, st, s),
           Len(e) = 3, At(e, 1, "title", w), e[1][3] = x, At(e, 2, "appId", w), At(e, 3, "done", w)
    PROVE  WindowInv(w, x, st, s \o e)
<1> DEFINE t == s \o e
           n == Len(s)
<1>0. /\ n \in Nat /\ Len(t) = n + Len(e)
      /\ \A k \in 1..n : k \in 1..Len(t) /\ t[k] = s[k]
      /\ \A k \in 1..Len(e) : n + k \in 1..Len(t) /\ t[n + k] = e[k]
    BY ConcatOfWire
<1>00. \A k \in 1..Len(t) : (k \in 1..n /\ t[k] = s[k]) \/ \E j \in 1..Len(e) : k = n + j /\ t[k] = e[j]
    BY OldOrNew
<1>1. /\ n \in Nat /\ Len(e) = 3 /\ Len(t) = n + 3
      /\ \A k \in 1..n : k \in 1..Len(t) /\ t[k] = s[k]
      /\ \A k \in 1..3 : n + k \in 1..Len(t) /\ t[n + k] = e[k]
    BY <1>0
<1>2. /\ e[1][1] = "title" /\ e[2][1] = "appId" /\ e[3][1] = "done"
      /\ e[1][2] = w /\ e[2][2] = w /\ e[3][2] = w
      /\ e[1][3] = x
    BY DEF At
<1>3. i # None /\ i # "closed" /\ x # None /\ x # "closed"
    BY SourcesAssumption
<1>4. \A k \in 1..Len(s) : ~At(s, k, "closed", w)
    BY <1>3 DEF WindowInv, WindowGoes
<1>5. \A k \in 1..Len(t) : (k \in 1..n /\ t[k] = s[k]) \/ \E j \in 1..3 : k = n + j /\ t[k] = e[j]
    BY <1>00, <1>1
<1>6. Len(s) = n
    OBVIOUS
<1>18. \A kind : /\ Coming(s, kind, w) => Coming(t, kind, w)
                 /\ \A k \in 1..n : ComesBefore(t, k, kind, w) <=> ComesBefore(s, k, kind, w)
                 /\ \A k \in 1..Len(e) : Coming(s, kind, w) => ComesBefore(t, n + k, kind, w)
    BY ComingAfterConcat
<1>19. \A k \in 1..n : SilentBefore(t, k, WindowKinds, w) <=> SilentBefore(s, k, WindowKinds, w)
    BY SilentAfterConcat
<1> HIDE DEF t, n
<1>7. \A k \in 1..Len(t) :
          \/ k \in 1..n /\ t[k] = s[k]
          \/ k = n + 1 /\ At(t, k, "title", w) /\ t[k][3] = x
          \/ k = n + 2 /\ At(t, k, "appId", w)
          \/ k = n + 3 /\ At(t, k, "done", w)
    <2>1. SUFFICES ASSUME NEW k \in 1..Len(t), NEW j \in 1..3, k = n + j, t[k] = e[j] PROVE
              \/ k = n + 1 /\ At(t, k, "title", w) /\ t[k][3] = x
              \/ k = n + 2 /\ At(t, k, "appId", w)
              \/ k = n + 3 /\ At(t, k, "done", w)
        BY <1>5
    <2>2. j = 1 \/ j = 2 \/ j = 3
        OBVIOUS
    <2> QED BY <1>2, <2>1, <2>2 DEF At
<1>8. /\ Coming(s, "toplevel", w) => Coming(t, "toplevel", w)
      /\ Coming(s, "identifier", w) => Coming(t, "identifier", w)
      /\ \A k \in 1..n :
            /\ ComesBefore(t, k, "toplevel", w) <=> ComesBefore(s, k, "toplevel", w)
            /\ ComesBefore(t, k, "identifier", w) <=> ComesBefore(s, k, "identifier", w)
            /\ SilentBefore(t, k, WindowKinds, w) <=> SilentBefore(s, k, WindowKinds, w)
    BY <1>18, <1>19
<1>9. /\ \A k \in 1..3 : Coming(s, "toplevel", w) => ComesBefore(t, n + k, "toplevel", w)
      /\ Coming(s, "identifier", w) => ComesBefore(t, n + 3, "identifier", w)
    BY <1>1, <1>18
<1>10. n + 1 \in 1..Len(t) /\ At(t, n + 1, "title", w)
    BY <1>1, <1>2 DEF At
<1>11. Coming(t, "title", w)
    BY <1>10 DEF Coming
<1>12. \A k \in 1..n : ComesAfter(t, k, "title", w)
    BY <1>1, <1>10 DEF ComesAfter
<1>13. WindowAppears(w, x, st, t)
    <2>1. st # None \/ Coming(s, "toplevel", w)
        BY DEF WindowInv, WindowAppears
    <2>2. ASSUME NEW k \in 1..Len(t), At(t, k, "toplevel", w)
          PROVE  st = None /\ SilentBefore(t, k, WindowKinds, w)
        <3>1. k \in 1..n /\ At(s, k, "toplevel", w)
            BY <1>7, <2>2 DEF At
        <3> QED BY <1>6, <1>8, <3>1 DEF WindowInv, WindowAppears
    <2>3. ASSUME NEW k \in 1..Len(t), About(t, k, WindowKinds \ {"toplevel"}, w)
          PROVE  st # None \/ ComesBefore(t, k, "toplevel", w)
        <3>1. CASE k \in 1..n /\ t[k] = s[k]
            BY <1>6, <1>8, <2>3, <3>1 DEF WindowInv, WindowAppears, About
        <3>2. CASE ~(k \in 1..n /\ t[k] = s[k])
            <4>1. \E j \in 1..3 : k = n + j
                BY <1>5, <3>2
            <4> QED BY <1>9, <2>1, <4>1
        <3> QED BY <3>1, <3>2
    <2> QED BY <1>3, <1>8, <2>1, <2>2, <2>3 DEF WindowAppears
<1>14. WindowGoes(w, x, st, t)
    <2>1. \A k \in 1..Len(t) : ~At(t, k, "closed", w)
        BY <1>4, <1>6, <1>7 DEF At
    <2> QED BY <1>3, <2>1 DEF WindowGoes
<1>15. TitleArrives(w, x, st, t)
    <2>1. \A k \in 1..Len(t) : At(t, k, "title", w) => t[k][3] = x \/ ComesAfter(t, k, "title", w)
        BY <1>7, <1>12 DEF At
    <2> QED BY <1>11, <2>1 DEF TitleArrives
<1>16. IdentifierArrives(w, x, st, t)
    <2> DEFINE known == st # None /\ st.pending.identifier
    <2>1. known \/ Coming(s, "identifier", w)
        BY DEF WindowInv, IdentifierArrives
    <2>2. \A k \in 1..n : At(s, k, "done", w) => known \/ ComesBefore(s, k, "identifier", w)
        BY <1>6 DEF WindowInv, IdentifierArrives
    <2> HIDE DEF known
    <2>3. \A k \in 1..Len(t) : At(t, k, "done", w) => known \/ ComesBefore(t, k, "identifier", w)
        BY <1>7, <1>8, <1>9, <2>1, <2>2 DEF At
    <2> QED BY <1>8, <2>1, <2>3 DEF IdentifierArrives, known
<1>17. ComesWhole(w, st, t)
    <2>1. CASE n = 0
        <3>1. Len(t) > 0 /\ ~About(t, 1, {"appId", "identifier", "done"}, w) /\ ~(Len(s) > 0)
            BY <1>1, <1>2, <1>6, <2>1 DEF About
        <3> QED BY <3>1 DEF WindowInv, ComesWhole
    <2>2. CASE n # 0
        <3>1. n > 0 /\ Len(t) > 0 /\ t[1] = s[1]
            BY <1>1, <2>2
        <3> QED BY <1>6, <3>1 DEF WindowInv, ComesWhole, About
    <2> QED BY <2>1, <2>2
<1> QED BY <1>13, <1>14, <1>15, <1>16, <1>17 DEF WindowInv, t

\* It closes.
LEMMA WindowCloses ==
    ASSUME NEW s \in Seq(Event), NEW w, NEW st, NEW i \in Infos, NEW e \in Seq(Event),
           WindowInv(w, i, st, s), Len(e) = 1, At(e, 1, "closed", w)
    PROVE  WindowInv(w, "closed", st, s \o e)
<1> DEFINE t == s \o e
           n == Len(s)
<1>0. /\ n \in Nat /\ Len(t) = n + Len(e)
      /\ \A k \in 1..n : k \in 1..Len(t) /\ t[k] = s[k]
      /\ \A k \in 1..Len(e) : n + k \in 1..Len(t) /\ t[n + k] = e[k]
    BY ConcatOfWire
<1>00. \A k \in 1..Len(t) : (k \in 1..n /\ t[k] = s[k]) \/ \E j \in 1..Len(e) : k = n + j /\ t[k] = e[j]
    BY OldOrNew
<1>1. /\ n \in Nat /\ Len(e) = 1 /\ Len(t) = n + 1
      /\ \A k \in 1..n : k \in 1..Len(t) /\ t[k] = s[k]
      /\ n + 1 \in 1..Len(t) /\ t[n + 1] = e[1]
    BY <1>0
<1>2. e[1][1] = "closed" /\ e[1][2] = w
    BY DEF At
<1>3. i # None /\ i # "closed" /\ "closed" # None /\ "closed" \notin Infos
    BY SourcesAssumption
<1>4. \A k \in 1..Len(s) : ~At(s, k, "closed", w)
    BY <1>3 DEF WindowInv, WindowGoes
<1>6. Len(s) = n
    OBVIOUS
<1>17. \A kind : /\ \A k \in 1..n : ComesBefore(t, k, kind, w) <=> ComesBefore(s, k, kind, w)
                 /\ \A k \in 1..Len(e) : Coming(s, kind, w) => ComesBefore(t, n + k, kind, w)
    BY ComingAfterConcat
<1>18. \A k \in 1..n : SilentBefore(t, k, WindowKinds, w) <=> SilentBefore(s, k, WindowKinds, w)
    BY SilentAfterConcat
<1> HIDE DEF t, n
<1>5. \A k \in 1..Len(t) : (k \in 1..n /\ t[k] = s[k]) \/ (k = n + 1 /\ t[k] = e[1])
    <2>1. SUFFICES ASSUME NEW k \in 1..Len(t), ~(k \in 1..n /\ t[k] = s[k]) PROVE k = n + 1 /\ t[k] = e[1]
        OBVIOUS
    <2>2. PICK j \in 1..Len(e) : k = n + j /\ t[k] = e[j]
        BY <1>00, <2>1
    <2>3. j = 1
        BY <1>1
    <2> QED BY <2>2, <2>3
<1>7. \A k \in 1..Len(t) : (k \in 1..n /\ t[k] = s[k]) \/ (k = n + 1 /\ At(t, k, "closed", w))
    BY <1>2, <1>5 DEF At
<1>8. \A k \in 1..n :
          /\ ComesBefore(t, k, "toplevel", w) <=> ComesBefore(s, k, "toplevel", w)
          /\ ComesBefore(t, k, "identifier", w) <=> ComesBefore(s, k, "identifier", w)
          /\ SilentBefore(t, k, WindowKinds, w) <=> SilentBefore(s, k, WindowKinds, w)
    BY <1>17, <1>18
<1>9. Coming(s, "toplevel", w) => ComesBefore(t, n + 1, "toplevel", w)
    BY <1>1, <1>17
<1>10. Coming(t, "closed", w)
    BY <1>1, <1>2 DEF Coming, At
<1>11. SilentAfter(t, n + 1, WindowKinds, w)
    BY <1>1 DEF SilentAfter
<1>12. WindowAppears(w, "closed", st, t)
    <2>1. st # None \/ Coming(s, "toplevel", w)
        BY DEF WindowInv, WindowAppears
    <2>2. ASSUME NEW k \in 1..Len(t), At(t, k, "toplevel", w)
          PROVE  st = None /\ SilentBefore(t, k, WindowKinds, w)
        <3>1. k \in 1..n /\ At(s, k, "toplevel", w)
            BY <1>7, <2>2 DEF At
        <3> QED BY <1>6, <1>8, <3>1 DEF WindowInv, WindowAppears
    <2>3. ASSUME NEW k \in 1..Len(t), About(t, k, WindowKinds \ {"toplevel"}, w)
          PROVE  st # None \/ ComesBefore(t, k, "toplevel", w)
        <3>1. CASE k \in 1..n /\ t[k] = s[k]
            BY <1>6, <1>8, <2>3, <3>1 DEF WindowInv, WindowAppears, About
        <3>2. CASE k = n + 1
            BY <1>9, <2>1, <3>2
        <3> QED BY <1>7, <3>1, <3>2
    <2> QED BY <1>3, <2>2, <2>3 DEF WindowAppears
<1>13. WindowGoes(w, "closed", st, t)
    <2>1. \A k \in 1..Len(t) : At(t, k, "closed", w) => k = n + 1
        BY <1>4, <1>6, <1>7 DEF At
    <2> QED BY <1>10, <1>11, <2>1 DEF WindowGoes
<1>14. TitleArrives(w, "closed", st, t)
    BY <1>3 DEF TitleArrives
<1>15. IdentifierArrives(w, "closed", st, t)
    BY <1>3, <1>6, <1>7, <1>8 DEF WindowInv, IdentifierArrives, At
<1>16. ComesWhole(w, st, t)
    <2>1. CASE n = 0
        <3>1. Len(t) > 0 /\ ~About(t, 1, {"appId", "identifier", "done"}, w) /\ ~(Len(s) > 0)
            BY <1>1, <1>2, <1>6, <2>1 DEF About
        <3> QED BY <3>1 DEF WindowInv, ComesWhole
    <2>2. CASE n # 0
        <3>1. n > 0 /\ Len(t) > 0 /\ t[1] = s[1]
            BY <1>1, <2>2
        <3> QED BY <1>6, <3>1 DEF WindowInv, ComesWhole, About
    <2> QED BY <2>1, <2>2
<1> QED BY <1>12, <1>13, <1>14, <1>15, <1>16 DEF WindowInv, t

-----------------------------------------------------------------------------
(* An output, when an event is taken from the wire. *)

\* Events of others do not touch it.
LEMMA OutputSkips ==
    ASSUME NEW s \in Seq(Event), s # <<>>, NEW g, NEW c, NEW p, NEW b, NEW st, NEW m,
           OutputInv(g, c, p, b, st, m, s), ~About(s, 1, OutputKinds, g)
    PROVE  OutputInv(g, c, p, b, st, m, Tail(s))
<1> DEFINE t == Tail(s)
<1>1. /\ Len(s) \in Nat \ {0} /\ Len(t) = Len(s) - 1
      /\ \A k \in 1..Len(t) : k + 1 \in 1..Len(s) /\ t[k] = s[k + 1]
    BY TailOfWire
<1>2. \A kind : ~At(s, 1, kind, g) \/ kind \notin OutputKinds
    BY DEF At, About
<1>3. \A kind \in OutputKinds :
          /\ Coming(s, kind, g) <=> Coming(t, kind, g)
          /\ \A k \in 1..Len(t) : /\ ComesBefore(s, k + 1, kind, g) <=> ComesBefore(t, k, kind, g)
                                  /\ ComesAfter(s, k + 1, kind, g) <=> ComesAfter(t, k, kind, g)
    BY <1>2, ComingAfterTail
<1>4. /\ Silent(s, OutputKinds, g) <=> Silent(t, OutputKinds, g)
      /\ Silent(s, {"mode", "name", "outputDone"}, g) => Silent(t, {"mode", "name", "outputDone"}, g)
      /\ \A k \in 1..Len(t) :
            /\ SilentBefore(s, k + 1, OutputKinds, g) <=> SilentBefore(t, k, OutputKinds, g)
            /\ SilentAfter(s, k + 1, OutputKinds, g) <=> SilentAfter(t, k, OutputKinds, g)
    BY SilentAfterTail
<1>5. {"global", "mode", "name", "remove"} \subseteq OutputKinds
    BY DEF OutputKinds
<1> HIDE DEF t
<1>6. OutputAppears(g, c, p, b, st, t)
    BY <1>1, <1>3, <1>4, <1>5 DEF OutputInv, OutputAppears, At, About
<1>7. OutputGoes(g, p, st, t)
    BY <1>1, <1>3, <1>4, <1>5 DEF OutputInv, OutputGoes, At
<1>8. DescribedOnce(g, b, t)
    BY <1>3, <1>4, <1>5 DEF OutputInv, DescribedOnce
<1>9. NameArrives(g, c, p, b, st, t)
    BY <1>1, <1>3, <1>5 DEF OutputInv, NameArrives, At
<1>10. ModeArrives(g, p, b, st, m, t)
    BY <1>1, <1>3, <1>5 DEF OutputInv, ModeArrives, At
<1> QED BY <1>6, <1>7, <1>8, <1>9, <1>10 DEF OutputInv, t

\* It is announced and bound: its description will follow.
LEMMA OutputGlobal ==
    ASSUME NEW s \in Seq(Event), s # <<>>, NEW g, NEW c, NEW p, NEW b, NEW st, NEW m,
           NEW new \in OutputState, OutputInv(g, c, p, b, st, m, s), At(s, 1, "global", g), new.name = None
    PROVE  /\ OutputInv(g, c, p, TRUE, new, m, Tail(s))
           /\ st = None /\ ~b /\ (p \/ Coming(Tail(s), "remove", g))
<1> DEFINE t == Tail(s)
<1>1. /\ Len(s) \in Nat \ {0} /\ Len(t) = Len(s) - 1
      /\ \A k \in 1..Len(t) : k + 1 \in 1..Len(s) /\ t[k] = s[k + 1]
    BY TailOfWire
<1>2. ~Silent(s, OutputKinds, g) /\ Coming(s, "global", g)
    BY <1>1 DEF Silent, At, About, Coming, OutputKinds
<1>3. st = None /\ ~b /\ new # None /\ c # None
    BY <1>1, <1>2, SourcesAssumption DEF OutputInv, OutputAppears
<1>4. /\ Coming(s, "remove", g) <=> Coming(t, "remove", g)
      /\ Silent(s, {"mode", "name", "outputDone"}, g) => Silent(t, {"mode", "name", "outputDone"}, g)
      /\ \A k \in 1..Len(t) : SilentAfter(s, k + 1, OutputKinds, g) <=> SilentAfter(t, k, OutputKinds, g)
    BY ComingAfterTail, SilentAfterTail DEF At
<1>5. \A k \in 1..Len(t) : ~At(t, k, "global", g)
    <2>1. ASSUME NEW k \in 1..Len(t), At(t, k, "global", g) PROVE FALSE
        <3>1. SilentBefore(s, k + 1, OutputKinds, g)
            BY <1>1, <2>1 DEF OutputInv, OutputAppears, At
        <3>2. 1 \in 1..Len(s) /\ 1 < k + 1
            BY <1>1
        <3> QED BY <3>1, <3>2 DEF SilentBefore, At, About, OutputKinds
    <2> QED BY <2>1
<1>6. p \/ Coming(t, "remove", g)
    BY <1>2, <1>4 DEF OutputInv, OutputGoes
<1>7. Silent(t, {"mode", "name", "outputDone"}, g)
    BY <1>2, <1>4 DEF OutputInv, DescribedOnce
<1> HIDE DEF t
<1>8. OutputAppears(g, c, p, TRUE, new, t)
    BY <1>3, <1>5 DEF OutputAppears
<1>9. OutputGoes(g, p, new, t)
    BY <1>1, <1>4, <1>6 DEF OutputInv, OutputGoes, At
<1>10. DescribedOnce(g, TRUE, t)
    BY <1>7 DEF DescribedOnce
<1>11. NameArrives(g, c, p, TRUE, new, t)
    BY <1>7 DEF NameArrives, Silent, At, About
<1>12. ModeArrives(g, p, TRUE, new, m, t)
    BY DEF ModeArrives
<1> QED BY <1>3, <1>6, <1>8, <1>9, <1>10, <1>11, <1>12 DEF OutputInv, t

\* A mode or a name is kept; at the end of its description it has its name.
LEMMA OutputReceives ==
    ASSUME NEW s \in Seq(Event), s # <<>>, NEW g, NEW c, NEW p, NEW b, NEW st, NEW m,
           NEW new \in OutputState, OutputInv(g, c, p, b, st, m, s),
           About(s, 1, {"mode", "name", "outputDone"}, g),
           new.name = IF s[1][1] = "name" THEN s[1][3] ELSE st.name,
           new.mode = IF s[1][1] = "mode" THEN s[1][3] ELSE st.mode
    PROVE  /\ OutputInv(g, c, p, b, new, m, Tail(s))
           /\ st # None /\ (s[1][1] = "outputDone" => st.name = c)
<1> DEFINE t == Tail(s)
<1>1. /\ Len(s) \in Nat \ {0} /\ Len(t) = Len(s) - 1
      /\ \A k \in 1..Len(t) : k + 1 \in 1..Len(s) /\ t[k] = s[k + 1]
    BY TailOfWire
<1>2. ~Silent(s, OutputKinds, g) /\ ~Silent(s, {"mode", "name", "outputDone"}, g)
    BY <1>1 DEF Silent, About, OutputKinds
<1>3. ~b /\ ~Coming(s, "global", g)
    BY <1>2 DEF OutputInv, DescribedOnce
<1>4. ~ComesBefore(s, 1, "global", g) /\ ~ComesBefore(s, 1, "name", g)
    BY <1>1 DEF ComesBefore
<1>5. st # None /\ new # None /\ c # None
    BY <1>1, <1>2, <1>4, SourcesAssumption DEF OutputInv, OutputAppears, About, OutputKinds
<1>6. /\ Coming(s, "remove", g) <=> Coming(t, "remove", g)
      /\ Coming(t, "global", g) <=> Coming(s, "global", g)
      /\ Coming(s, "name", g) <=> s[1][1] = "name" \/ Coming(t, "name", g)
      /\ Coming(s, "mode", g) <=> s[1][1] = "mode" \/ Coming(t, "mode", g)
      /\ ComesAfter(s, 1, "mode", g) <=> Coming(t, "mode", g)
      /\ \A k \in 1..Len(t) :
            /\ ComesAfter(s, k + 1, "mode", g) <=> ComesAfter(t, k, "mode", g)
            /\ ComesBefore(s, k + 1, "name", g) <=> s[1][1] = "name" \/ ComesBefore(t, k, "name", g)
            /\ SilentAfter(s, k + 1, OutputKinds, g) <=> SilentAfter(t, k, OutputKinds, g)
    BY ComingAfterTail, SilentAfterTail DEF At, About
<1>7. \A k \in 1..Len(t) : ~At(t, k, "global", g)
    BY <1>1, <1>3 DEF Coming, At
<1>8. /\ s[1][1] = "outputDone" => st.name = c
      /\ s[1][1] = "name" => s[1][3] = c
    BY <1>1, <1>4 DEF OutputInv, NameArrives, At, About
<1> HIDE DEF t
<1>9. OutputAppears(g, c, p, b, new, t)
    BY <1>3, <1>5, <1>7 DEF OutputAppears
<1>10. OutputGoes(g, p, new, t)
    BY <1>1, <1>2, <1>6 DEF OutputInv, OutputGoes, At
<1>11. DescribedOnce(g, b, t)
    BY <1>3, <1>6 DEF DescribedOnce
<1>12. NameArrives(g, c, p, b, new, t)
    <2>1. new.name = c \/ new.name = st.name
        BY <1>8
    <2>2. s[1][1] = "name" => new.name = c
        BY <1>8
    <2> QED BY <1>1, <1>5, <1>6, <2>1, <2>2 DEF OutputInv, NameArrives, At
<1>13. ModeArrives(g, p, b, new, m, t)
    <2>1. SUFFICES ASSUME p PROVE
              /\ \A k \in 1..Len(t) : At(t, k, "mode", g) => t[k][3] = m \/ ComesAfter(t, k, "mode", g)
              /\ ~Coming(t, "mode", g) => new.mode = m
        BY DEF ModeArrives
    <2>2. /\ \A k \in 1..Len(s) : At(s, k, "mode", g) => s[k][3] = m \/ ComesAfter(s, k, "mode", g)
          /\ ~Coming(s, "mode", g) => st.mode = m
        BY <1>3, <1>5, <2>1 DEF OutputInv, ModeArrives
    <2>3. \A k \in 1..Len(t) : At(t, k, "mode", g) => t[k][3] = m \/ ComesAfter(t, k, "mode", g)
        BY <1>1, <1>6, <2>2 DEF At
    <2>4. ~Coming(t, "mode", g) => new.mode = m
        BY <1>1, <1>6, <2>2 DEF At, About
    <2> QED BY <2>3, <2>4
<1> QED BY <1>5, <1>8, <1>9, <1>10, <1>11, <1>12, <1>13 DEF OutputInv, t

\* It is forgotten when it is gone.
LEMMA OutputRemove ==
    ASSUME NEW s \in Seq(Event), s # <<>>, NEW g, NEW c, NEW p, NEW b, NEW st, NEW m,
           OutputInv(g, c, p, b, st, m, s), At(s, 1, "remove", g)
    PROVE  OutputInv(g, c, p, b, None, m, Tail(s))
<1> DEFINE t == Tail(s)
<1>1. Len(s) \in Nat \ {0} /\ Len(t) = Len(s) - 1
    BY TailOfWire
<1>2. ~p /\ Silent(t, OutputKinds, g)
    BY <1>1, SilentAfterTail DEF OutputInv, OutputGoes
<1>3. \A kind \in OutputKinds : \A k \in 1..Len(t) : ~At(t, k, kind, g)
    BY <1>2 DEF Silent, At, About
<1>4. /\ \A k \in 1..Len(t) : ~About(t, k, OutputKinds \ {"global"}, g)
      /\ Silent(t, {"mode", "name", "outputDone"}, g)
    BY <1>2 DEF Silent, About, OutputKinds
<1>5. ~Silent(s, OutputKinds, g)
    BY <1>1 DEF Silent, At, About, OutputKinds
<1>6. c # None
    BY <1>5 DEF OutputInv, OutputAppears
<1> HIDE DEF t
<1>7. {"global", "remove", "name", "outputDone"} \subseteq OutputKinds
    BY DEF OutputKinds
<1> QED BY <1>2, <1>3, <1>4, <1>6, <1>7
        DEF OutputInv, OutputAppears, OutputGoes, DescribedOnce, NameArrives, ModeArrives, t

-----------------------------------------------------------------------------
(* An output, when the compositor speaks. *)

\* Events of others do not touch it, nor does a mode if it is not there.
LEMMA OutputUntold ==
    ASSUME NEW s \in Seq(Event), NEW e \in Seq(Event), NEW g, NEW c, NEW p, NEW b, NEW st, NEW m, NEW new,
           OutputInv(g, c, p, b, st, m, s), Silent(e, OutputKinds, g), p => new = m
    PROVE  OutputInv(g, c, p, b, st, new, s \o e)
<1> DEFINE t == s \o e
           n == Len(s)
<1>1. /\ n \in Nat /\ Len(t) = n + Len(e)
      /\ \A k \in 1..n : k \in 1..Len(t) /\ t[k] = s[k]
    BY ConcatOfWire
<1>2. \A k \in 1..Len(t) : (k \in 1..n /\ t[k] = s[k]) \/ ~About(t, k, OutputKinds, g)
    BY OldOrNew DEF Silent, About
<1>3. \A kind \in OutputKinds : ~Coming(e, kind, g)
    BY DEF Silent, Coming, At, About
<1>4. \A kind \in OutputKinds :
          /\ Coming(t, kind, g) <=> Coming(s, kind, g)
          /\ \A k \in 1..n : /\ ComesBefore(t, k, kind, g) <=> ComesBefore(s, k, kind, g)
                             /\ ComesAfter(t, k, kind, g) <=> ComesAfter(s, k, kind, g)
    BY <1>3, ComingAfterConcat
<1>5. /\ Silent(t, OutputKinds, g) <=> Silent(s, OutputKinds, g)
      /\ \A k \in 1..n : /\ SilentBefore(t, k, OutputKinds, g) <=> SilentBefore(s, k, OutputKinds, g)
                         /\ SilentAfter(t, k, OutputKinds, g) <=> SilentAfter(s, k, OutputKinds, g)
    BY SilentAfterConcat
<1>6. Silent(s, {"mode", "name", "outputDone"}, g) => Silent(t, {"mode", "name", "outputDone"}, g)
    BY <1>2 DEF Silent, About, OutputKinds
<1>7. Len(s) = n
    OBVIOUS
<1>8. \A k \in 1..Len(t), kind \in OutputKinds : At(t, k, kind, g) => k \in 1..n /\ t[k] = s[k] /\ At(s, k, kind, g)
    BY <1>2 DEF At, About
<1>9. {"global", "mode", "name", "outputDone", "remove"} \subseteq OutputKinds
    BY DEF OutputKinds
<1> HIDE DEF t, n
<1>10. OutputAppears(g, c, p, b, st, t)
    BY <1>2, <1>4, <1>5, <1>7, <1>8, <1>9 DEF OutputInv, OutputAppears, About
<1>11. OutputGoes(g, p, st, t)
    BY <1>4, <1>5, <1>7, <1>8, <1>9 DEF OutputInv, OutputGoes
<1>12. DescribedOnce(g, b, t)
    BY <1>4, <1>6, <1>9 DEF OutputInv, DescribedOnce
<1>13. NameArrives(g, c, p, b, st, t)
    BY <1>4, <1>7, <1>8, <1>9 DEF OutputInv, NameArrives
<1>14. ModeArrives(g, p, b, st, new, t)
    BY <1>4, <1>7, <1>8, <1>9 DEF OutputInv, ModeArrives
<1> QED BY <1>10, <1>11, <1>12, <1>13, <1>14 DEF OutputInv, t

\* It is plugged in: nothing was known of it.
LEMMA OutputPlugged ==
    ASSUME NEW s \in Seq(Event), NEW e \in Seq(Event), NEW g, NEW c, NEW p, NEW b, NEW st, NEW m, NEW new,
           OutputInv(g, None, p, b, st, m, s), c # None, Len(e) = 1, At(e, 1, "global", g)
    PROVE  OutputInv(g, c, TRUE, b, st, new, s \o e)
<1> DEFINE t == s \o e
           n == Len(s)
<1>0. /\ n \in Nat /\ Len(t) = n + Len(e)
      /\ \A k \in 1..n : k \in 1..Len(t) /\ t[k] = s[k]
      /\ \A k \in 1..Len(e) : n + k \in 1..Len(t) /\ t[n + k] = e[k]
    BY ConcatOfWire
<1>00. \A k \in 1..Len(t) : (k \in 1..n /\ t[k] = s[k]) \/ \E j \in 1..Len(e) : k = n + j /\ t[k] = e[j]
    BY OldOrNew
<1>1. /\ Len(t) = n + 1
      /\ n + 1 \in 1..Len(t) /\ t[n + 1] = e[1]
    BY <1>0
<1>2. ~b /\ st = None /\ Silent(s, OutputKinds, g)
    BY DEF OutputInv, OutputAppears
<1>3. \A k \in 1..Len(t) : About(t, k, OutputKinds, g) => k = n + 1 /\ t[k] = e[1]
    <2>1. SUFFICES ASSUME NEW k \in 1..Len(t), About(t, k, OutputKinds, g) PROVE k = n + 1 /\ t[k] = e[1]
        OBVIOUS
    <2>2. ~(k \in 1..n /\ t[k] = s[k])
        BY <1>2, <2>1 DEF Silent, About
    <2>3. PICK j \in 1..Len(e) : k = n + j /\ t[k] = e[j]
        BY <1>00, <2>2
    <2>4. j = 1
        OBVIOUS
    <2> QED BY <2>3, <2>4
<1> HIDE DEF t, n
<1>4. At(t, n + 1, "global", g)
    BY <1>1 DEF At
<1>5. \A k \in 1..Len(t) : About(t, k, OutputKinds, g) => k = n + 1 /\ At(t, k, "global", g)
    BY <1>3 DEF At
<1>6. /\ \A k \in 1..Len(t) : /\ ~About(t, k, OutputKinds \ {"global"}, g)
                              /\ ~About(t, k, {"mode", "name", "outputDone"}, g)
                              /\ At(t, k, "global", g) => k = n + 1
                              /\ ~At(t, k, "remove", g) /\ ~At(t, k, "name", g) /\ ~At(t, k, "outputDone", g)
    BY <1>5 DEF About, At, OutputKinds
<1>7. Coming(t, "global", g)
    BY <1>1, <1>4 DEF Coming
<1>8. SilentBefore(t, n + 1, OutputKinds, g)
    <2>1. ASSUME NEW k \in 1..Len(t), k < n + 1 PROVE ~About(t, k, OutputKinds, g)
        BY <1>0, <1>3, <2>1
    <2> QED BY <2>1 DEF SilentBefore
<1>9. OutputAppears(g, c, TRUE, b, st, t)
    BY <1>2, <1>6, <1>7, <1>8 DEF OutputAppears
<1>10. OutputGoes(g, TRUE, st, t)
    BY <1>6 DEF OutputGoes
<1>11. DescribedOnce(g, b, t)
    BY <1>6 DEF DescribedOnce, Silent
<1>12. NameArrives(g, c, TRUE, b, st, t)
    BY <1>2, <1>6, <1>7 DEF NameArrives
<1>13. ModeArrives(g, TRUE, b, st, new, t)
    BY <1>7 DEF ModeArrives
<1> QED BY <1>9, <1>10, <1>11, <1>12, <1>13 DEF OutputInv, t

\* It is unplugged.
LEMMA OutputUnplugged ==
    ASSUME NEW s \in Seq(Event), NEW e \in Seq(Event), NEW g, NEW c, NEW b, NEW st, NEW m,
           OutputInv(g, c, TRUE, b, st, m, s), Len(e) = 1, At(e, 1, "remove", g)
    PROVE  OutputInv(g, c, FALSE, b, st, m, s \o e)
<1> DEFINE t == s \o e
           n == Len(s)
<1>0. /\ n \in Nat /\ Len(t) = n + Len(e)
      /\ \A k \in 1..n : k \in 1..Len(t) /\ t[k] = s[k]
      /\ \A k \in 1..Len(e) : n + k \in 1..Len(t) /\ t[n + k] = e[k]
    BY ConcatOfWire
<1>00. \A k \in 1..Len(t) : (k \in 1..n /\ t[k] = s[k]) \/ \E j \in 1..Len(e) : k = n + j /\ t[k] = e[j]
    BY OldOrNew
<1>1. Len(t) = n + 1 /\ n + 1 \in 1..Len(t) /\ t[n + 1] = e[1]
    BY <1>0
<1>2. \A kind : /\ \A k \in 1..n : ComesBefore(t, k, kind, g) <=> ComesBefore(s, k, kind, g)
                /\ \A k \in 1..Len(e) : Coming(s, kind, g) => ComesBefore(t, n + k, kind, g)
                /\ Coming(t, kind, g) <=> Coming(s, kind, g) \/ Coming(e, kind, g)
    BY ComingAfterConcat
<1>3. \A k \in 1..n : SilentBefore(t, k, OutputKinds, g) <=> SilentBefore(s, k, OutputKinds, g)
    BY SilentAfterConcat
<1>4. Len(s) = n
    OBVIOUS
<1> HIDE DEF t, n
<1>5. \A k \in 1..Len(t) : (k \in 1..n /\ t[k] = s[k]) \/ (k = n + 1 /\ At(t, k, "remove", g))
    <2>1. SUFFICES ASSUME NEW k \in 1..Len(t), ~(k \in 1..n /\ t[k] = s[k])
                   PROVE  k = n + 1 /\ At(t, k, "remove", g)
        OBVIOUS
    <2>2. PICK j \in 1..Len(e) : k = n + j /\ t[k] = e[j]
        BY <1>00, <2>1
    <2>3. j = 1
        OBVIOUS
    <2> QED BY <2>2, <2>3 DEF At
<1>6. Coming(t, "remove", g) /\ SilentAfter(t, n + 1, OutputKinds, g)
    <2>1. At(t, n + 1, "remove", g)
        BY <1>1 DEF At
    <2> QED BY <1>0, <1>1, <2>1 DEF Coming, SilentAfter
<1>7. ~Coming(e, "global", g)
    BY DEF Coming, At
<1>8. c # None /\ (st # None \/ Coming(s, "global", g)) /\ \A k \in 1..Len(s) : ~At(s, k, "remove", g)
    BY DEF OutputInv, OutputAppears, OutputGoes
<1>9. OutputAppears(g, c, FALSE, b, st, t)
    <2>1. ASSUME NEW k \in 1..Len(t), At(t, k, "global", g)
          PROVE  st = None /\ ~b /\ SilentBefore(t, k, OutputKinds, g)
        <3>1. k \in 1..n /\ At(s, k, "global", g)
            BY <1>5, <2>1 DEF At
        <3> QED BY <1>3, <1>4, <3>1 DEF OutputInv, OutputAppears
    <2>2. ASSUME NEW k \in 1..Len(t), About(t, k, OutputKinds \ {"global"}, g)
          PROVE  st # None \/ ComesBefore(t, k, "global", g)
        <3>1. CASE k \in 1..n /\ t[k] = s[k]
            BY <1>2, <1>4, <2>2, <3>1 DEF OutputInv, OutputAppears, About
        <3>2. CASE k = n + 1
            BY <1>2, <1>8, <3>2
        <3> QED BY <1>5, <3>1, <3>2
    <2> QED BY <1>8, <2>1, <2>2 DEF OutputAppears
<1>10. OutputGoes(g, FALSE, st, t)
    <2>1. \A k \in 1..Len(t) : At(t, k, "remove", g) => k = n + 1
        BY <1>4, <1>5, <1>8 DEF At
    <2> QED BY <1>6, <2>1 DEF OutputGoes
<1>11. DescribedOnce(g, b, t)
    <2>1. ASSUME b \/ Coming(s, "global", g), NEW k \in 1..Len(t)
          PROVE  ~About(t, k, {"mode", "name", "outputDone"}, g)
        BY <1>4, <1>5, <2>1 DEF OutputInv, DescribedOnce, Silent, About, At
    <2> QED BY <1>2, <1>7, <2>1 DEF DescribedOnce, Silent
<1>12. NameArrives(g, c, FALSE, b, st, t)
    BY <1>2, <1>4, <1>5 DEF OutputInv, NameArrives, At
<1>13. ModeArrives(g, FALSE, b, st, m, t)
    BY DEF ModeArrives
<1> QED BY <1>9, <1>10, <1>11, <1>12, <1>13 DEF OutputInv, t

\* A description it has asked for comes after it was gone: there is none.
LEMMA OutputForgotten ==
    ASSUME NEW s, NEW g, NEW c, NEW b, NEW st, NEW m, OutputInv(g, c, FALSE, b, st, m, s)
    PROVE  OutputInv(g, c, FALSE, FALSE, st, m, s)
BY DEF OutputInv, OutputAppears, OutputGoes, DescribedOnce, NameArrives, ModeArrives

\* A new mode of an output not described yet will be in its description.
LEMMA OutputModeUntold ==
    ASSUME NEW s, NEW g, NEW c, NEW p, NEW b, NEW st, NEW m, NEW new,
           OutputInv(g, c, p, b, st, m, s), b \/ Coming(s, "global", g)
    PROVE  OutputInv(g, c, p, b, st, new, s)
BY DEF OutputInv, OutputAppears, OutputGoes, DescribedOnce, NameArrives, ModeArrives

\* It is described, or has a new mode.
LEMMA OutputTold ==
    ASSUME NEW s \in Seq(Event), NEW e \in Seq(Event), NEW g, NEW c, NEW b, NEW st, NEW m, NEW new,
           OutputInv(g, c, TRUE, b, st, m, s), ~Coming(s, "global", g),
           Len(e) > 0, At(e, 1, "mode", g), e[1][3] = new,
           \A k \in 1..Len(e) : k > 1 => About(e, k, {"name", "outputDone"}, g),
           \A k \in 1..Len(e) : At(e, k, "name", g) => e[k][3] = c,
           b => /\ Coming(e, "name", g)
                /\ \A k \in 1..Len(e) : At(e, k, "outputDone", g) => ComesBefore(e, k, "name", g)
    PROVE  OutputInv(g, c, TRUE, FALSE, st, new, s \o e)
<1> DEFINE t == s \o e
           n == Len(s)
<1>0. /\ n \in Nat /\ Len(e) \in Nat /\ Len(t) = n + Len(e)
      /\ \A k \in 1..n : k \in 1..Len(t) /\ t[k] = s[k]
      /\ \A k \in 1..Len(e) : n + k \in 1..Len(t) /\ t[n + k] = e[k]
    BY ConcatOfWire
<1>1. \A k \in 1..Len(t) : (k \in 1..n /\ t[k] = s[k]) \/ \E j \in 1..Len(e) : k = n + j /\ t[k] = e[j]
    BY OldOrNew
<1>2. \A kind : /\ \A k \in 1..n : /\ ComesBefore(t, k, kind, g) <=> ComesBefore(s, k, kind, g)
                                   /\ Coming(e, kind, g) => ComesAfter(t, k, kind, g)
                /\ \A k \in 1..Len(e) : /\ Coming(s, kind, g) => ComesBefore(t, n + k, kind, g)
                                        /\ ComesBefore(e, k, kind, g) => ComesBefore(t, n + k, kind, g)
                /\ Coming(t, kind, g) <=> Coming(s, kind, g) \/ Coming(e, kind, g)
    BY ComingAfterConcat
<1>3. Len(s) = n
    OBVIOUS
<1> HIDE DEF t, n
<1>4. st # None /\ c # None
    BY DEF OutputInv, OutputAppears
<1>5. Coming(e, "mode", g) /\ ~Coming(e, "global", g)
    <2>1. ASSUME NEW k \in 1..Len(e) PROVE ~At(e, k, "global", g)
        <3>1. k = 1 \/ k > 1
            OBVIOUS
        <3> QED BY <3>1 DEF At, About
    <2> QED BY <1>0, <2>1 DEF Coming
<1>6. \A k \in 1..Len(t) : (k \in 1..n /\ t[k] = s[k])
                           \/ (k = n + 1 /\ At(t, k, "mode", g) /\ t[k][3] = new)
                           \/ \E j \in 1..Len(e) : k = n + j /\ t[k] = e[j] /\ About(t, k, {"name", "outputDone"}, g)
    <2>1. SUFFICES ASSUME NEW k \in 1..Len(t), ~(k \in 1..n /\ t[k] = s[k])
                   PROVE  \/ k = n + 1 /\ At(t, k, "mode", g) /\ t[k][3] = new
                          \/ \E j \in 1..Len(e) : k = n + j /\ t[k] = e[j] /\ About(t, k, {"name", "outputDone"}, g)
        OBVIOUS
    <2>2. PICK j \in 1..Len(e) : k = n + j /\ t[k] = e[j]
        BY <1>1, <2>1
    <2>3. j = 1 \/ j > 1
        OBVIOUS
    <2> QED BY <2>2, <2>3 DEF At, About
<1>7. \A k \in 1..Len(t) : ~At(t, k, "global", g) /\ ~At(t, k, "remove", g)
    <2>1. \A k \in 1..Len(s) : ~At(s, k, "global", g) /\ ~At(s, k, "remove", g)
        BY DEF Coming, OutputInv, OutputGoes
    <2> QED BY <1>3, <1>6, <2>1 DEF At, About
<1>8. OutputAppears(g, c, TRUE, FALSE, st, t)
    BY <1>4, <1>7 DEF OutputAppears
<1>9. OutputGoes(g, TRUE, st, t)
    BY <1>7 DEF OutputGoes
<1>10. DescribedOnce(g, FALSE, t)
    BY <1>2, <1>5 DEF DescribedOnce
<1>11. NameArrives(g, c, TRUE, FALSE, st, t)
    <2> DEFINE known == st # None /\ st.name = c
    <2>1. /\ st.name \in {None, c}
          /\ ~b => known \/ Coming(s, "name", g)
          /\ \A k \in 1..n : /\ At(s, k, "name", g) => s[k][3] = c
                             /\ At(s, k, "outputDone", g) => known \/ ComesBefore(s, k, "name", g)
        BY <1>3, <1>4 DEF OutputInv, NameArrives
    <2> HIDE DEF known
    <2>2. known \/ Coming(t, "name", g)
        BY <1>2, <2>1
    <2>3. ASSUME NEW k \in 1..Len(t), At(t, k, "name", g) PROVE t[k][3] = c
        BY <1>6, <2>1, <2>3 DEF At
    <2>4. ASSUME NEW k \in 1..Len(t), At(t, k, "outputDone", g) PROVE known \/ ComesBefore(t, k, "name", g)
        <3>1. CASE k \in 1..n /\ t[k] = s[k]
            BY <1>2, <2>1, <2>4, <3>1 DEF At
        <3>2. ASSUME NEW j \in 1..Len(e), k = n + j, t[k] = e[j] PROVE known \/ ComesBefore(t, k, "name", g)
            <4>1. b => ComesBefore(e, j, "name", g)
                BY <2>4, <3>2 DEF At
            <4> QED BY <1>2, <2>1, <3>2, <4>1
        <3> QED BY <1>1, <3>1, <3>2
    <2> QED BY <2>1, <2>2, <2>3, <2>4 DEF NameArrives, known
<1>12. ModeArrives(g, TRUE, FALSE, st, new, t)
    <2>1. Coming(t, "mode", g)
        BY <1>2, <1>5
    <2>2. ASSUME NEW k \in 1..Len(t), At(t, k, "mode", g) PROVE t[k][3] = new \/ ComesAfter(t, k, "mode", g)
        BY <1>2, <1>5, <1>6, <2>2 DEF At, About
    <2> QED BY <2>1, <2>2 DEF ModeArrives
<1> QED BY <1>8, <1>9, <1>10, <1>11, <1>12 DEF OutputInv, t

-----------------------------------------------------------------------------
(* The lists. *)

LEMMA ListedTypes ==
    /\ \A states \in [Globals -> OutputState \cup {None}] : 
          ListedOutputs(states) \subseteq [name : Names, mode : Modes \cup {None}]
    /\ \A states \in [Windows -> ToplevelState \cup {None}] :
          ListedToplevels(states) \subseteq
              [identifier : Windows, title : Infos \cup {None}, appId : Infos \cup {None}]
<1>1. ASSUME NEW states \in [Globals -> OutputState \cup {None}], NEW o \in ListedOutputs(states)
      PROVE  o \in [name : Names, mode : Modes \cup {None}]
    <2>1. PICK g \in Globals : /\ states[g] # None
                               /\ o = [name |-> IF states[g].name = None THEN g ELSE states[g].name,
                                       mode |-> states[g].mode]
        BY <1>1 DEF ListedOutputs
    <2>2. states[g] \in OutputState
        BY <2>1
    <2>3. (IF states[g].name = None THEN g ELSE states[g].name) \in Names /\ states[g].mode \in Modes \cup {None}
        BY <2>2 DEF OutputState, Names
    <2> QED BY <2>1, <2>3
<1>2. ASSUME NEW states \in [Windows -> ToplevelState \cup {None}], NEW t \in ListedToplevels(states)
      PROVE  t \in [identifier : Windows, title : Infos \cup {None}, appId : Infos \cup {None}]
    <2>1. PICK w \in Windows : /\ states[w] # None
                               /\ t = [identifier |-> w, title |-> states[w].info.title, appId |-> states[w].info.appId]
        BY <1>2 DEF ListedToplevels
    <2>2. states[w] \in ToplevelState
        BY <2>1
    <2> QED BY <2>1, <2>2 DEF ToplevelState, Known
<1> QED BY <1>1, <1>2

\* States that differ in what is not committed are listed alike.
LEMMA SameToplevels ==
    ASSUME NEW a, NEW b,
           \A w \in Windows :
               /\ (a[w] # None /\ a[w].info.identifier) <=> (b[w] # None /\ b[w].info.identifier)
               /\ a[w] # None /\ a[w].info.identifier =>
                     a[w].info.title = b[w].info.title /\ a[w].info.appId = b[w].info.appId
    PROVE  ListedToplevels(a) = ListedToplevels(b)
<1>1. {w \in Windows : a[w] # None /\ a[w].info.identifier} = {w \in Windows : b[w] # None /\ b[w].info.identifier}
    OBVIOUS
<1>2. ASSUME NEW t \in ListedToplevels(a) PROVE t \in ListedToplevels(b)
    <2>1. PICK w \in {v \in Windows : a[v] # None /\ a[v].info.identifier} :
              t = [identifier |-> w, title |-> a[w].info.title, appId |-> a[w].info.appId]
        BY <1>2 DEF ListedToplevels
    <2>2. t = [identifier |-> w, title |-> b[w].info.title, appId |-> b[w].info.appId]
        BY <2>1
    <2> QED BY <1>1, <2>1, <2>2 DEF ListedToplevels
<1>3. ASSUME NEW t \in ListedToplevels(b) PROVE t \in ListedToplevels(a)
    <2>1. PICK w \in {v \in Windows : b[v] # None /\ b[v].info.identifier} :
              t = [identifier |-> w, title |-> b[w].info.title, appId |-> b[w].info.appId]
        BY <1>3 DEF ListedToplevels
    <2>2. t = [identifier |-> w, title |-> a[w].info.title, appId |-> a[w].info.appId]
        BY <2>1
    <2> QED BY <1>1, <2>1, <2>2 DEF ListedToplevels
<1> QED BY <1>2, <1>3

-----------------------------------------------------------------------------
(* Steps that leave windows, outputs or sessions alone. *)

\* Taking the first event.
LEMMA DispatchTakes ==
    ASSUME IInv, NEW event, Dispatch(event)
    PROVE  /\ wire \in Seq(Event) /\ wire # <<>> /\ wire' = Tail(wire) /\ wire' \in Seq(Event)
           /\ wire[1] = event /\ InBlocks(wire) /\ InBlocks(wire)'
<1>1. wire \in Seq(Event) /\ wire # <<>> /\ wire' = Tail(wire) /\ InBlocks(wire) /\ Head(wire) = event
    BY DEF IInv, TypeOK, Dispatch
<1>2. Tail(wire) \in Seq(Event) /\ wire[1] = event
    BY <1>1, TailOfWire
<1>3. InBlocks(Tail(wire))
    BY <1>1, BlocksAfterTail
<1> QED BY <1>1, <1>2, <1>3

\* What a handler may change keeps its type.
LEMMA DispatchTypes ==
    ASSUME IInv, NEW event, Dispatch(event),
           outputStates' \in [Globals -> OutputState \cup {None}],
           toplevelStates' \in [Windows -> ToplevelState \cup {None}],
           outputs' = outputs \/ outputs' = ListedOutputs(outputStates'),
           toplevels' = toplevels \/ toplevels' = ListedToplevels(toplevelStates'),
           bound' \subseteq Globals
    PROVE  TypeOK'
<1>1. outputs' \subseteq [name : Names, mode : Modes \cup {None}]
    BY ListedTypes DEF IInv, TypeOK
<1>2. toplevels' \subseteq [identifier : Windows, title : Infos \cup {None}, appId : Infos \cup {None}]
    BY ListedTypes DEF IInv, TypeOK
<1>3. wire' \in Seq(Event)
    BY DispatchTakes
<1> QED BY <1>1, <1>2, <1>3 DEF IInv, TypeOK, Dispatch, compositorVars, sessionVars

LEMMA SessionKeeps ==
    ASSUME IInv, UNCHANGED sessionVars,
           \A g \in Globals : connector[g] # None => connector'[g] = connector[g]
    PROVE  SessionInv'
<1>2. EntriesGranted(stored)' /\ EntriesGranted(token)'
    BY DEF IInv, SessionInv, sessionVars, EntriesGranted
<1>3. \A i \in 1..Len(captured') : CaptureGranted(captured[i].selection, captured[i].object)'
    BY DEF IInv, SessionInv, sessionVars, CaptureGranted
<1> QED BY <1>2, <1>3 DEF SessionInv

LEMMA SessionKeepsDispatch ==
    ASSUME IInv, NEW event, Dispatch(event)
    PROVE  SessionInv'
BY SessionKeeps DEF Dispatch, compositorVars

LEMMA WindowsSkip ==
    ASSUME IInv, NEW event, Dispatch(event), event[1] \in OutputKinds, UNCHANGED <<toplevelStates, toplevels>>
    PROVE  WindowsInv'
<1>1. /\ wire \in Seq(Event) /\ wire # <<>> /\ wire' = Tail(wire) /\ wire[1] = event /\ InBlocks(wire)
    BY DispatchTakes
<1>2. window' = window
    BY DEF Dispatch, compositorVars
<1>3. ASSUME NEW w \in Windows PROVE WindowInv(w, window[w], toplevelStates[w], Tail(wire))
    <2>1. WindowInv(w, window[w], toplevelStates[w], wire)
        BY DEF IInv, WindowsInv
    <2>2. ~About(wire, 1, WindowKinds, w)
        BY <1>1 DEF About, WindowKinds, OutputKinds
    <2> QED BY <1>1, <2>1, <2>2, WindowSkips
<1> QED BY <1>1, <1>2, <1>3 DEF IInv, WindowsInv

LEMMA WindowsUntold ==
    ASSUME IInv, NEW e \in Seq(Event), wire' = wire \o e, \A k \in 1..Len(e) : e[k][1] \in OutputKinds,
           UNCHANGED <<window, toplevelStates, toplevels>>
    PROVE  WindowsInv'
<1>1. ASSUME NEW w \in Windows PROVE WindowInv(w, window[w], toplevelStates[w], wire \o e)
    <2>1. WindowInv(w, window[w], toplevelStates[w], wire) /\ wire \in Seq(Event)
        BY DEF IInv, WindowsInv, TypeOK
    <2>2. Silent(e, WindowKinds, w)
        BY DEF Silent, About, WindowKinds, OutputKinds
    <2> QED BY <2>1, <2>2, WindowUntold
<1> QED BY <1>1 DEF IInv, WindowsInv

LEMMA UpdateStillComes ==
    ASSUME NEW s \in Seq(Event)
    PROVE  /\ s # <<>> /\ UpdateComes(s) => s[1][1] \in {"outputDone", "remove"} \/ UpdateComes(Tail(s))
           /\ \A e \in Seq(Event) : /\ UpdateComes(s) => UpdateComes(s \o e)
                                    /\ UpdateComes(e) => UpdateComes(s \o e)
<1>1. ASSUME s # <<>>, UpdateComes(s) PROVE s[1][1] \in {"outputDone", "remove"} \/ UpdateComes(Tail(s))
    <2>1. PICK k \in 1..Len(s) : s[k][1] \in {"outputDone", "remove"}
        BY <1>1 DEF UpdateComes
    <2>2. k # 1 => k - 1 \in 1..Len(Tail(s)) /\ s[k] = Tail(s)[k - 1]
        BY <1>1, TailOfWire
    <2> QED BY <2>1, <2>2 DEF UpdateComes
<1>2. ASSUME NEW e \in Seq(Event) PROVE /\ UpdateComes(s) => UpdateComes(s \o e)
                                        /\ UpdateComes(e) => UpdateComes(s \o e)
    <2>1. /\ \A k \in 1..Len(s) : k \in 1..Len(s \o e) /\ (s \o e)[k] = s[k]
          /\ \A k \in 1..Len(e) : Len(s) + k \in 1..Len(s \o e) /\ (s \o e)[Len(s) + k] = e[k]
        BY ConcatOfWire
    <2>2. UpdateComes(s) => UpdateComes(s \o e)
        BY <2>1 DEF UpdateComes
    <2>3. UpdateComes(e) => UpdateComes(s \o e)
        BY <2>1 DEF UpdateComes
    <2> QED BY <2>2, <2>3
<1> QED BY <1>1, <1>2

LEMMA OutputsSkip ==
    ASSUME IInv, NEW event, Dispatch(event), event[1] \in WindowKinds, UNCHANGED <<outputStates, outputs, bound>>
    PROVE  OutputsInv'
<1>1. /\ wire \in Seq(Event) /\ wire # <<>> /\ wire' = Tail(wire) /\ wire[1] = event
    BY DispatchTakes
<1>2. connector' = connector /\ plugged' = plugged /\ mode' = mode
    BY DEF Dispatch, compositorVars
<1>3. ASSUME NEW g \in Globals
      PROVE  OutputInv(g, connector[g], g \in plugged, g \in bound, outputStates[g], mode[connector[g]], Tail(wire))
    <2>1. OutputInv(g, connector[g], g \in plugged, g \in bound, outputStates[g], mode[connector[g]], wire)
        BY DEF IInv, OutputsInv
    <2>2. ~About(wire, 1, OutputKinds, g)
        BY <1>1 DEF About, WindowKinds, OutputKinds
    <2> QED BY <1>1, <2>1, <2>2, OutputSkips
<1>4. UpdateComes(wire) => UpdateComes(Tail(wire))
    BY <1>1, UpdateStillComes DEF WindowKinds
<1> QED BY <1>1, <1>2, <1>3, <1>4 DEF IInv, OutputsInv, UpdateComes

LEMMA OutputsUntold ==
    ASSUME IInv, NEW e \in Seq(Event), wire' = wire \o e, \A k \in 1..Len(e) : e[k][1] \in WindowKinds,
           UNCHANGED <<connector, plugged, mode, outputStates, outputs, bound>>
    PROVE  OutputsInv'
<1>1. wire \in Seq(Event)
    BY DEF IInv, TypeOK
<1>2. ASSUME NEW g \in Globals
      PROVE  OutputInv(g, connector[g], g \in plugged, g \in bound, outputStates[g], mode[connector[g]], wire \o e)
    <2>1. OutputInv(g, connector[g], g \in plugged, g \in bound, outputStates[g], mode[connector[g]], wire)
        BY DEF IInv, OutputsInv
    <2>2. Silent(e, OutputKinds, g)
        BY DEF Silent, About, WindowKinds, OutputKinds
    <2> QED BY <1>1, <2>1, <2>2, OutputUntold
<1>3. UpdateComes(wire) => UpdateComes(wire \o e)
    BY <1>1, UpdateStillComes
<1> QED BY <1>2, <1>3 DEF IInv, OutputsInv, UpdateComes

\* Portal calls leave what there is alone.
LEMMA SourcesKeep ==
    ASSUME IInv, UNCHANGED sourceVars
    PROVE  InBlocks(wire)' /\ WindowsInv' /\ OutputsInv'
BY DEF IInv, sourceVars, compositorVars, registryVars, WindowsInv, OutputsInv

-----------------------------------------------------------------------------
(* The listeners of windows. *)

\* An event of window w that leaves the portal with new of it.
LEMMA WindowsTake ==
    ASSUME IInv, NEW event, Dispatch(event), NEW w \in Windows, event[2] = w, NEW new,
           toplevelStates' = [toplevelStates EXCEPT ![w] = new],
           WindowInv(w, window[w], new, Tail(wire)), toplevels' = ListedToplevels(toplevelStates')
    PROVE  WindowsInv'
<1>1. /\ wire \in Seq(Event) /\ wire # <<>> /\ wire' = Tail(wire) /\ wire[1] = event /\ InBlocks(wire)
    BY DispatchTakes
<1>2. window' = window
    BY DEF Dispatch, compositorVars
<1>3. toplevelStates \in [Windows -> ToplevelState \cup {None}]
    BY DEF IInv, TypeOK
<1>4. ASSUME NEW v \in Windows PROVE WindowInv(v, window[v], toplevelStates'[v], Tail(wire))
    <2>1. CASE v = w
        BY <1>3, <2>1
    <2>2. CASE v # w
        <3>1. WindowInv(v, window[v], toplevelStates[v], wire)
            BY DEF IInv, WindowsInv
        <3>2. ~About(wire, 1, WindowKinds, v)
            BY <1>1, <2>2 DEF About
        <3>3. WindowInv(v, window[v], toplevelStates[v], Tail(wire))
            BY <1>1, <3>1, <3>2, WindowSkips
        <3>4. toplevelStates'[v] = toplevelStates[v]
            BY <1>3, <2>2
        <3> QED BY <3>3, <3>4
    <2> QED BY <2>1, <2>2
<1> QED BY <1>1, <1>2, <1>4 DEF WindowsInv

LEMMA UnknownIsKnown == [pending |-> Unknown, info |-> Unknown] \in ToplevelState
BY DEF ToplevelState, Known, Unknown

LEMMA OnToplevelInductive ==
    ASSUME IInv, NEW w \in Windows, OnToplevel(w)
    PROVE  IInv'
<1> DEFINE event == <<"toplevel", w>>
           new == [pending |-> Unknown, info |-> Unknown]
<1>1. /\ Dispatch(event) /\ event[1] = "toplevel" /\ event[2] = w
      /\ toplevelStates' = [toplevelStates EXCEPT ![w] = new]
      /\ UNCHANGED <<bound, outputStates, outputs, toplevels>>
    BY DEF OnToplevel
<1>2. new \in ToplevelState /\ new.pending = Unknown /\ new.info = Unknown
    BY UnknownIsKnown
<1> HIDE DEF event, new
<1>3. /\ wire \in Seq(Event) /\ wire # <<>> /\ wire[1] = event /\ InBlocks(wire) /\ InBlocks(wire)'
    BY <1>1, DispatchTakes
<1>4. /\ toplevelStates \in [Windows -> ToplevelState \cup {None}]
      /\ outputStates \in [Globals -> OutputState \cup {None}] /\ bound \subseteq Globals
    BY DEF IInv, TypeOK
<1>5. TypeOK'
    <2>1. toplevelStates' \in [Windows -> ToplevelState \cup {None}]
        BY <1>1, <1>2, <1>4
    <2> QED BY <1>1, <1>4, <2>1, DispatchTypes
<1>6. WindowInv(w, window[w], toplevelStates[w], wire) /\ At(wire, 1, "toplevel", w)
    BY <1>1, <1>3 DEF IInv, WindowsInv, At
<1>7. WindowInv(w, window[w], new, Tail(wire))
    BY <1>2, <1>3, <1>6, WindowToplevel
<1>8. toplevels' = ListedToplevels(toplevelStates')
    <2>1. toplevelStates[w] = None
        <3>1. 1 \in 1..Len(wire)
            BY <1>3, TailOfWire
        <3> QED BY <1>6, <3>1 DEF WindowInv, WindowAppears
    <2>2. ~Unknown.identifier
        BY DEF Unknown
    <2>3. \A v \in Windows :
              /\ (toplevelStates[v] # None /\ toplevelStates[v].info.identifier)
                    <=> (toplevelStates'[v] # None /\ toplevelStates'[v].info.identifier)
              /\ toplevelStates[v] # None /\ toplevelStates[v].info.identifier =>
                    toplevelStates'[v] = toplevelStates[v]
        BY <1>1, <1>2, <1>4, <2>1, <2>2
    <2>4. ListedToplevels(toplevelStates) = ListedToplevels(toplevelStates')
        BY <2>3, SameToplevels
    <2> QED BY <1>1, <2>4 DEF IInv, WindowsInv
<1>9. WindowsInv'
    BY <1>1, <1>7, <1>8, WindowsTake
<1>10. OutputsInv'
    BY <1>1, OutputsSkip DEF WindowKinds
<1>11. SessionInv'
    BY <1>1, SessionKeepsDispatch
<1> QED BY <1>3, <1>5, <1>9, <1>10, <1>11 DEF IInv

\* title, app_id and identifier.
LEMMA ReceivedInductive ==
    ASSUME IInv, NEW w \in Windows, NEW event, NEW known \in Known, Received(w, event, known),
           event[1] \in {"title", "appId", "identifier"}, event[2] = w,
           event[1] = "appId" => event[3] # None,
           known.title = IF event[1] = "title" THEN event[3] ELSE Pending(w).title,
           known.appId = IF event[1] = "appId" THEN event[3] ELSE Pending(w).appId,
           known.identifier = (event[1] = "identifier" \/ Pending(w).identifier)
    PROVE  IInv'
<1>1. /\ Dispatch(event)
      /\ UNCHANGED <<bound, outputStates, outputs, toplevels>>
    BY DEF Received
<1>2. /\ wire \in Seq(Event) /\ wire # <<>> /\ wire[1] = event /\ InBlocks(wire) /\ InBlocks(wire)'
    BY <1>1, DispatchTakes
<1>3. /\ toplevelStates \in [Windows -> ToplevelState \cup {None}]
      /\ outputStates \in [Globals -> OutputState \cup {None}] /\ bound \subseteq Globals
    BY DEF IInv, TypeOK
<1>4. WindowInv(w, window[w], toplevelStates[w], wire) /\ About(wire, 1, {"title", "appId", "identifier"}, w)
    BY <1>2 DEF IInv, WindowsInv, About
<1>5. toplevelStates[w] # None
    <2>1. About(wire, 1, WindowKinds \ {"toplevel"}, w)
        BY <1>4 DEF About, WindowKinds
    <2> QED BY <1>2, <1>4, <2>1, WindowTakes
<1> DEFINE new == [toplevelStates[w] EXCEPT !.pending = known]
<1>6. toplevelStates[w] \in ToplevelState /\ Pending(w) = toplevelStates[w].pending
    BY <1>3, <1>5 DEF Pending
<1>7. new \in ToplevelState /\ new.info = toplevelStates[w].info /\ new.pending = known
    BY <1>6 DEF ToplevelState
<1>8. toplevelStates' = [toplevelStates EXCEPT ![w] = new]
    BY <1>3, <1>5 DEF Received
<1> HIDE DEF new
<1>9. TypeOK'
    <2>1. toplevelStates' \in [Windows -> ToplevelState \cup {None}]
        BY <1>3, <1>7, <1>8
    <2> QED BY <1>1, <1>3, <2>1, DispatchTypes
<1>10. WindowInv(w, window[w], new, Tail(wire))
    BY <1>2, <1>4, <1>6, <1>7, WindowReceives
<1>11. toplevels' = ListedToplevels(toplevelStates')
    <2>1. new # None
        BY <1>7, SourcesAssumption
    <2>2. \A v \in Windows :
              /\ (toplevelStates[v] # None /\ toplevelStates[v].info.identifier)
                    <=> (toplevelStates'[v] # None /\ toplevelStates'[v].info.identifier)
              /\ toplevelStates[v] # None => toplevelStates'[v].info = toplevelStates[v].info
        BY <1>3, <1>5, <1>7, <1>8, <2>1
    <2>3. ListedToplevels(toplevelStates) = ListedToplevels(toplevelStates')
        BY <2>2, SameToplevels
    <2> QED BY <1>1, <2>3 DEF IInv, WindowsInv
<1>12. WindowsInv'
    BY <1>1, <1>8, <1>10, <1>11, WindowsTake
<1>13. OutputsInv'
    BY <1>1, OutputsSkip DEF WindowKinds
<1>14. SessionInv'
    BY <1>1, SessionKeepsDispatch
<1> QED BY <1>2, <1>9, <1>12, <1>13, <1>14 DEF IInv

\* What is pending is well typed.
LEMMA PendingType == ASSUME IInv, NEW w \in Windows PROVE Pending(w) \in Known
<1>1. toplevelStates[w] \in ToplevelState \cup {None}
    BY DEF IInv, TypeOK
<1>2. Unknown \in Known
    BY DEF Known, Unknown
<1>3. toplevelStates[w] \in ToplevelState => toplevelStates[w].pending \in Known
    BY DEF ToplevelState
<1> QED BY <1>1, <1>2, <1>3 DEF Pending

LEMMA OnToplevelPropertyInductive ==
    ASSUME IInv, NEW w \in Windows,
           OnToplevelIdentifier(w) \/ \E i \in Infos : OnToplevelTitle(w, i) \/ OnToplevelAppId(w, i)
    PROVE  IInv'
<1>1. Pending(w) \in Known
    BY PendingType
<1>2. CASE OnToplevelIdentifier(w)
    <2> DEFINE known == [Pending(w) EXCEPT !.identifier = TRUE]
               event == <<"identifier", w>>
    <2>1. /\ known \in Known /\ known.title = Pending(w).title /\ known.appId = Pending(w).appId
          /\ known.identifier = TRUE
        BY <1>1 DEF Known
    <2>2. Received(w, event, known) /\ event[1] = "identifier" /\ event[2] = w
        BY <1>2 DEF OnToplevelIdentifier
    <2> HIDE DEF known, event
    <2> QED BY <2>1, <2>2, ReceivedInductive
<1>3. ASSUME NEW i \in Infos, OnToplevelTitle(w, i) PROVE IInv'
    <2> DEFINE known == [Pending(w) EXCEPT !.title = i]
               event == <<"title", w, i>>
    <2>1. /\ known \in Known /\ known.title = i /\ known.appId = Pending(w).appId
          /\ known.identifier = Pending(w).identifier
        BY <1>1 DEF Known
    <2>2. Received(w, event, known) /\ event[1] = "title" /\ event[2] = w /\ event[3] = i
        BY <1>3 DEF OnToplevelTitle
    <2>3. Pending(w).identifier \in BOOLEAN
        BY <1>1 DEF Known
    <2> HIDE DEF known, event
    <2> QED BY <2>1, <2>2, <2>3, ReceivedInductive
<1>4. ASSUME NEW i \in Infos, OnToplevelAppId(w, i) PROVE IInv'
    <2> DEFINE known == [Pending(w) EXCEPT !.appId = i]
               event == <<"appId", w, i>>
    <2>1. /\ known \in Known /\ known.title = Pending(w).title /\ known.appId = i
          /\ known.identifier = Pending(w).identifier
        BY <1>1 DEF Known
    <2>2. Received(w, event, known) /\ event[1] = "appId" /\ event[2] = w /\ event[3] = i /\ i # None
        BY <1>4, SourcesAssumption DEF OnToplevelAppId
    <2>3. Pending(w).identifier \in BOOLEAN
        BY <1>1 DEF Known
    <2> HIDE DEF known, event
    <2> QED BY <2>1, <2>2, <2>3, ReceivedInductive
<1> QED BY <1>2, <1>3, <1>4

LEMMA OnToplevelDoneInductive ==
    ASSUME IInv, NEW w \in Windows, OnToplevelDone(w)
    PROVE  IInv'
<1> DEFINE event == <<"done", w>>
<1>1. /\ Dispatch(event) /\ event[1] = "done" /\ event[2] = w
      /\ UNCHANGED <<bound, outputStates, outputs>>
    BY DEF OnToplevelDone
<1> HIDE DEF event
<1>2. /\ wire \in Seq(Event) /\ wire # <<>> /\ wire[1] = event /\ InBlocks(wire) /\ InBlocks(wire)'
    BY <1>1, DispatchTakes
<1>3. /\ toplevelStates \in [Windows -> ToplevelState \cup {None}]
      /\ outputStates \in [Globals -> OutputState \cup {None}] /\ bound \subseteq Globals
    BY DEF IInv, TypeOK
<1>4. WindowInv(w, window[w], toplevelStates[w], wire) /\ At(wire, 1, "done", w)
    BY <1>1, <1>2 DEF IInv, WindowsInv, At
<1>5. toplevelStates[w] # None
    <2>1. About(wire, 1, WindowKinds \ {"toplevel"}, w)
        BY <1>4 DEF At, About, WindowKinds
    <2> QED BY <1>2, <1>4, <2>1, WindowTakes
<1> DEFINE new == [toplevelStates[w] EXCEPT !.info = toplevelStates[w].pending]
<1>6. toplevelStates[w] \in ToplevelState
    BY <1>3, <1>5
<1>7. /\ new \in ToplevelState
      /\ new.info = toplevelStates[w].pending /\ new.pending = toplevelStates[w].pending
    BY <1>6 DEF ToplevelState
<1>8. /\ toplevelStates' = [toplevelStates EXCEPT ![w] = new]
      /\ toplevels' = ListedToplevels(toplevelStates')
    BY <1>3, <1>5 DEF OnToplevelDone
<1> HIDE DEF new
<1>9. TypeOK'
    <2>1. toplevelStates' \in [Windows -> ToplevelState \cup {None}]
        BY <1>3, <1>7, <1>8
    <2> QED BY <1>1, <1>3, <1>8, <2>1, DispatchTypes
<1>10. WindowInv(w, window[w], new, Tail(wire))
    BY <1>2, <1>4, <1>7, WindowDone
<1>11. WindowsInv'
    BY <1>1, <1>8, <1>10, WindowsTake
<1>12. OutputsInv'
    BY <1>1, OutputsSkip DEF WindowKinds
<1>13. SessionInv'
    BY <1>1, SessionKeepsDispatch
<1> QED BY <1>2, <1>9, <1>11, <1>12, <1>13 DEF IInv

LEMMA OnToplevelClosedInductive ==
    ASSUME IInv, NEW w \in Windows, OnToplevelClosed(w)
    PROVE  IInv'
<1> DEFINE event == <<"closed", w>>
<1>1. /\ Dispatch(event) /\ event[1] = "closed" /\ event[2] = w
      /\ toplevelStates' = [toplevelStates EXCEPT ![w] = None]
      /\ UNCHANGED <<bound, outputStates, outputs>>
    BY DEF OnToplevelClosed
<1> HIDE DEF event
<1>2. /\ wire \in Seq(Event) /\ wire # <<>> /\ wire[1] = event /\ InBlocks(wire) /\ InBlocks(wire)'
    BY <1>1, DispatchTakes
<1>3. /\ toplevelStates \in [Windows -> ToplevelState \cup {None}]
      /\ outputStates \in [Globals -> OutputState \cup {None}] /\ bound \subseteq Globals
    BY DEF IInv, TypeOK
<1>4. WindowInv(w, window[w], toplevelStates[w], wire) /\ At(wire, 1, "closed", w)
    BY <1>1, <1>2 DEF IInv, WindowsInv, At
<1>5. toplevelStates[w] # None
    <2>1. About(wire, 1, WindowKinds \ {"toplevel"}, w)
        BY <1>4 DEF At, About, WindowKinds
    <2> QED BY <1>2, <1>4, <2>1, WindowTakes
<1>6. toplevels' = ListedToplevels(toplevelStates')
    BY <1>5 DEF OnToplevelClosed
<1>7. TypeOK'
    <2>1. toplevelStates' \in [Windows -> ToplevelState \cup {None}]
        BY <1>1, <1>3
    <2> QED BY <1>1, <1>3, <1>6, <2>1, DispatchTypes
<1>8. WindowInv(w, window[w], None, Tail(wire))
    BY <1>2, <1>4, WindowClosed
<1>9. WindowsInv'
    BY <1>1, <1>6, <1>8, WindowsTake
<1>10. OutputsInv'
    BY <1>1, OutputsSkip DEF WindowKinds
<1>11. SessionInv'
    BY <1>1, SessionKeepsDispatch
<1> QED BY <1>2, <1>7, <1>9, <1>10, <1>11 DEF IInv

-----------------------------------------------------------------------------
(* Windows that open, are renamed and close. *)

\* The compositor has x of window w now and tells so with e.
LEMMA WindowsTold ==
    ASSUME IInv, NEW w \in Windows, NEW x \in Infos \cup {None, "closed"}, NEW e \in Seq(Event), Change,
           window' = [window EXCEPT ![w] = x], wire' = wire \o e,
           UNCHANGED <<connector, plugged, mode, bound>>,
           \A k \in 1..Len(e) : About(e, k, WindowKinds, w), Len(e) > 0, e[1][1] \notin Follows, InBlocks(e),
           WindowInv(w, x, toplevelStates[w], wire \o e)
    PROVE  IInv'
<1>1. /\ wire \in Seq(Event) /\ InBlocks(wire) /\ window \in [Windows -> Infos \cup {None, "closed"}]
      /\ changes \in 0..MaxChanges /\ MaxChanges \in Nat
    BY SourcesAssumption DEF IInv, TypeOK
<1>2. wire \o e \in Seq(Event) /\ InBlocks(wire \o e)
    BY <1>1, ConcatOfWire, BlocksAfterConcat
<1>3. TypeOK'
    <2>1. changes' \in 0..MaxChanges
        BY <1>1 DEF Change
    <2>2. window' \in [Windows -> Infos \cup {None, "closed"}]
        BY <1>1
    <2> QED BY <1>2, <2>1, <2>2 DEF IInv, TypeOK, Change, registryVars, sessionVars
<1>4. WindowsInv'
    <2>1. ASSUME NEW v \in Windows PROVE WindowInv(v, window'[v], toplevelStates[v], wire \o e)
        <3>1. CASE v = w
            BY <1>1, <3>1
        <3>2. CASE v # w
            <4>1. WindowInv(v, window[v], toplevelStates[v], wire) /\ window'[v] = window[v]
                BY <1>1, <3>2 DEF IInv, WindowsInv
            <4>2. Silent(e, WindowKinds, v)
                BY <3>2 DEF Silent, About
            <4> QED BY <1>1, <4>1, <4>2, WindowUntold
        <3> QED BY <3>1, <3>2
    <2> QED BY <2>1 DEF IInv, WindowsInv, Change, registryVars
<1>5. OutputsInv'
    <2>1. \A k \in 1..Len(e) : e[k][1] \in WindowKinds
        BY DEF About
    <2> QED BY <2>1, OutputsUntold DEF Change, registryVars
<1>6. SessionInv'
    BY SessionKeeps DEF Change
<1> QED BY <1>2, <1>3, <1>4, <1>5, <1>6 DEF IInv

LEMMA OpenWindowInductive ==
    ASSUME IInv, NEW w \in Windows, NEW i \in Infos, OpenWindow(w, i)
    PROVE  IInv'
<1> DEFINE e == <<<<"toplevel", w>>, <<"title", w, i>>, <<"appId", w, i>>, <<"identifier", w>>, <<"done", w>>>>
<1>1. Change /\ window[w] = None /\ window' = [window EXCEPT ![w] = i] /\ wire' = wire \o e
      /\ UNCHANGED <<connector, plugged, mode, bound>>
    BY DEF OpenWindow, Announce
<1>2. e \in Seq(Event) /\ Len(e) = 5
    <2>1. /\ <<"toplevel", w>> \in Event /\ <<"title", w, i>> \in Event /\ <<"appId", w, i>> \in Event
          /\ <<"identifier", w>> \in Event /\ <<"done", w>> \in Event
        BY DEF Event
    <2> QED BY <2>1
<1>3. /\ At(e, 1, "toplevel", w) /\ At(e, 2, "title", w) /\ e[2][3] = i /\ At(e, 3, "appId", w) /\ e[3][3] = i
      /\ At(e, 4, "identifier", w) /\ At(e, 5, "done", w)
    BY DEF At
<1> HIDE DEF e
<1>4. \A k \in 1..Len(e) : k = 1 \/ k = 2 \/ k = 3 \/ k = 4 \/ k = 5
    BY <1>2
<1>5. \A k \in 1..Len(e) : About(e, k, WindowKinds, w)
    BY <1>3, <1>4 DEF At, About, WindowKinds
<1>6. e[1][1] \notin Follows
    BY <1>3 DEF At, Follows
<1>7. InBlocks(e)
    BY <1>2, <1>3, <1>4 DEF InBlocks, At, Leads, Ends, Follows
<1>8. WindowInv(w, i, toplevelStates[w], wire \o e)
    <2>1. wire \in Seq(Event) /\ WindowInv(w, None, toplevelStates[w], wire)
        BY <1>1 DEF IInv, TypeOK, WindowsInv
    <2> QED BY <1>2, <1>3, <2>1, WindowOpens
<1>9. i \in Infos \cup {None, "closed"} /\ e \in Seq(Event) /\ Len(e) > 0
    BY <1>2
<1> QED BY <1>1, <1>5, <1>6, <1>7, <1>8, <1>9, WindowsTold

LEMMA RenameInductive ==
    ASSUME IInv, NEW w \in Windows, NEW i \in Infos, Rename(w, i)
    PROVE  IInv'
<1> DEFINE e == <<<<"title", w, i>>, <<"appId", w, i>>, <<"done", w>>>>
<1>1. Change /\ window[w] \in Infos /\ window' = [window EXCEPT ![w] = i] /\ wire' = wire \o e
      /\ UNCHANGED <<connector, plugged, mode, bound>>
    BY DEF Rename, Announce, Open
<1>2. e \in Seq(Event) /\ Len(e) = 3
    <2>1. <<"title", w, i>> \in Event /\ <<"appId", w, i>> \in Event /\ <<"done", w>> \in Event
        BY DEF Event
    <2> QED BY <2>1
<1>3. /\ At(e, 1, "title", w) /\ e[1][3] = i /\ At(e, 2, "appId", w) /\ e[2][3] = i /\ At(e, 3, "done", w)
    BY DEF At
<1> HIDE DEF e
<1>4. \A k \in 1..Len(e) : k = 1 \/ k = 2 \/ k = 3
    BY <1>2
<1>5. \A k \in 1..Len(e) : About(e, k, WindowKinds, w)
    BY <1>3, <1>4 DEF At, About, WindowKinds
<1>6. e[1][1] \notin Follows
    BY <1>3 DEF At, Follows
<1>7. InBlocks(e)
    BY <1>2, <1>3, <1>4 DEF InBlocks, At, Leads, Ends, Follows
<1>8. WindowInv(w, i, toplevelStates[w], wire \o e)
    <2>1. wire \in Seq(Event) /\ WindowInv(w, window[w], toplevelStates[w], wire)
        BY DEF IInv, TypeOK, WindowsInv
    <2> QED BY <1>1, <1>2, <1>3, <2>1, WindowRenamed
<1>9. i \in Infos \cup {None, "closed"} /\ e \in Seq(Event) /\ Len(e) > 0
    BY <1>2
<1> QED BY <1>1, <1>5, <1>6, <1>7, <1>8, <1>9, WindowsTold

LEMMA CloseWindowInductive ==
    ASSUME IInv, NEW w \in Windows, CloseWindow(w)
    PROVE  IInv'
<1> DEFINE e == <<<<"closed", w>>>>
<1>1. Change /\ window[w] \in Infos /\ window' = [window EXCEPT ![w] = "closed"] /\ wire' = wire \o e
      /\ UNCHANGED <<connector, plugged, mode, bound>>
    BY DEF CloseWindow, Announce, Open
<1>2. e \in Seq(Event) /\ Len(e) = 1
    <2>1. <<"closed", w>> \in Event
        BY DEF Event
    <2> QED BY <2>1
<1>3. At(e, 1, "closed", w)
    BY DEF At
<1> HIDE DEF e
<1>4. \A k \in 1..Len(e) : k = 1
    BY <1>2
<1>5. \A k \in 1..Len(e) : About(e, k, WindowKinds, w)
    BY <1>3, <1>4 DEF At, About, WindowKinds
<1>6. e[1][1] \notin Follows
    BY <1>3 DEF At, Follows
<1>7. InBlocks(e)
    BY <1>2, <1>3, <1>4 DEF InBlocks, At, Ends, Follows
<1>8. WindowInv(w, "closed", toplevelStates[w], wire \o e)
    <2>1. wire \in Seq(Event) /\ WindowInv(w, window[w], toplevelStates[w], wire)
        BY DEF IInv, TypeOK, WindowsInv
    <2> QED BY <1>1, <1>2, <1>3, <2>1, WindowCloses
<1>9. "closed" \in Infos \cup {None, "closed"} /\ e \in Seq(Event) /\ Len(e) > 0
    BY <1>2
<1> QED BY <1>1, <1>5, <1>6, <1>7, <1>8, <1>9, WindowsTold

-----------------------------------------------------------------------------
(* The listeners of outputs. *)

\* Another event of an output that was announced.
LEMMA OutputTakes ==
    ASSUME NEW s \in Seq(Event), s # <<>>, NEW g, NEW c, NEW p, NEW b, NEW st, NEW m,
           OutputInv(g, c, p, b, st, m, s), About(s, 1, OutputKinds \ {"global"}, g)
    PROVE  st # None
<1>1. 1 \in 1..Len(s)
    BY TailOfWire
<1>2. ~ComesBefore(s, 1, "global", g)
    BY DEF ComesBefore
<1> QED BY <1>1, <1>2 DEF OutputInv, OutputAppears

\* A mode and a name are not the last of their block.
LEMMA DoneComes ==
    ASSUME NEW s \in Seq(Event), s # <<>>, InBlocks(s), s[1][1] \in {"mode", "name"}
    PROVE  UpdateComes(Tail(s))
<1>1. /\ Len(s) \in Nat \ {0}
      /\ \A k \in 1..Len(s) : k # 1 => k - 1 \in 1..Len(Tail(s)) /\ s[k] = Tail(s)[k - 1]
    BY TailOfWire
<1>2. 2 \in 1..Len(s) /\ Leads(s[1], s[2])
    BY <1>1 DEF InBlocks, Ends
<1>3. CASE s[2][1] = "outputDone"
    BY <1>1, <1>2, <1>3 DEF UpdateComes
<1>4. CASE s[2][1] # "outputDone"
    <2>1. s[2][1] = "name"
        BY <1>2, <1>4 DEF Leads
    <2>2. 3 \in 1..Len(s) /\ Leads(s[2], s[3])
        BY <1>1, <1>2, <2>1 DEF InBlocks, Ends
    <2>3. s[3][1] = "outputDone"
        BY <2>1, <2>2 DEF Leads
    <2> QED BY <1>1, <2>2, <2>3 DEF UpdateComes
<1> QED BY <1>3, <1>4

\* An event of output g that leaves the portal with new of it.
LEMMA OutputsTake ==
    ASSUME IInv, NEW event, Dispatch(event), NEW g \in Globals, event[1] \in OutputKinds, event[2] = g,
           NEW new \in OutputState \cup {None}, outputStates' = [outputStates EXCEPT ![g] = new],
           bound' \subseteq Globals, \A h \in Globals : h # g => (h \in bound' <=> h \in bound),
           UNCHANGED <<toplevelStates, toplevels>>,
           OutputInv(g, connector[g], g \in plugged, g \in bound', new, mode[connector[g]], Tail(wire)),
           \/ outputs' = ListedOutputs(outputStates')
           \/ outputs' = outputs /\ (UpdateComes(Tail(wire)) \/ bound' \cap plugged # {})
    PROVE  IInv'
<1>1. /\ wire \in Seq(Event) /\ wire # <<>> /\ wire' = Tail(wire) /\ wire[1] = event /\ InBlocks(wire)'
    BY DispatchTakes
<1>2. UNCHANGED <<connector, plugged, mode>>
    BY DEF Dispatch, compositorVars
<1>3. outputStates \in [Globals -> OutputState \cup {None}]
    BY DEF IInv, TypeOK
<1>4. TypeOK'
    <2>1. outputStates' \in [Globals -> OutputState \cup {None}]
        BY <1>3
    <2>2. toplevelStates' \in [Windows -> ToplevelState \cup {None}]
        BY DEF IInv, TypeOK
    <2> QED BY <2>1, <2>2, DispatchTypes
<1>5. ASSUME NEW h \in Globals
      PROVE  OutputInv(h, connector[h], h \in plugged, h \in bound', outputStates'[h], mode[connector[h]], Tail(wire))
    <2>1. CASE h = g
        BY <1>3, <2>1
    <2>2. CASE h # g
        <3>1. OutputInv(h, connector[h], h \in plugged, h \in bound, outputStates[h], mode[connector[h]], wire)
            BY DEF IInv, OutputsInv
        <3>2. ~About(wire, 1, OutputKinds, h)
            BY <1>1, <2>2 DEF About
        <3>3. OutputInv(h, connector[h], h \in plugged, h \in bound, outputStates[h], mode[connector[h]], Tail(wire))
            BY <1>1, <3>1, <3>2, OutputSkips
        <3>4. outputStates'[h] = outputStates[h] /\ (h \in bound') = (h \in bound)
            BY <1>3, <2>2
        <3> QED BY <3>3, <3>4
    <2> QED BY <2>1, <2>2
<1>6. \/ outputs' = ListedOutputs(outputStates')
      \/ UpdateComes(wire')
      \/ bound' \cap plugged' # {}
    BY <1>1, <1>2 DEF UpdateComes
<1>7. OutputsInv'
    BY <1>1, <1>2, <1>5, <1>6 DEF IInv, OutputsInv
<1>8. WindowsInv'
    BY WindowsSkip
<1>9. SessionInv'
    BY SessionKeepsDispatch
<1> QED BY <1>1, <1>4, <1>7, <1>8, <1>9 DEF IInv

LEMMA OnRegistryGlobalInductive ==
    ASSUME IInv, NEW g \in Globals, OnRegistryGlobal(g)
    PROVE  IInv'
<1> DEFINE event == <<"global", g>>
           new == [name |-> None, mode |-> None]
<1>1. /\ Dispatch(event) /\ event[1] = "global" /\ event[2] = g
      /\ outputStates' = [outputStates EXCEPT ![g] = new] /\ bound' = bound \cup {g}
      /\ UNCHANGED <<outputs, toplevelStates, toplevels>>
    BY DEF OnRegistryGlobal
<1>2. new \in OutputState /\ new.name = None
    BY DEF OutputState
<1> HIDE DEF event, new
<1>3. wire \in Seq(Event) /\ wire # <<>> /\ wire[1] = event
    BY <1>1, DispatchTakes
<1>4. /\ OutputInv(g, connector[g], g \in plugged, g \in bound, outputStates[g], mode[connector[g]], wire)
      /\ At(wire, 1, "global", g)
    BY <1>1, <1>3 DEF IInv, OutputsInv, At
<1>5. OutputInv(g, connector[g], g \in plugged, TRUE, new, mode[connector[g]], Tail(wire))
    BY <1>2, <1>3, <1>4, OutputGlobal
<1>6. (g \in bound') = TRUE /\ bound' \subseteq Globals
    BY <1>1 DEF IInv, TypeOK
<1>7. UpdateComes(Tail(wire)) \/ bound' \cap plugged # {}
    <2>1. CASE g \in plugged
        BY <1>6, <2>1
    <2>2. CASE g \notin plugged
        <3>1. (g \in plugged) = FALSE
            BY <2>2
        <3>2. OutputInv(g, connector[g], FALSE, g \in bound, outputStates[g], mode[connector[g]], wire)
            BY <1>4, <3>1
        <3>3. OutputInv(g, connector[g], FALSE, TRUE, new, mode[connector[g]], Tail(wire))
            BY <1>5, <3>1
        <3>4. Coming(Tail(wire), "remove", g)
            BY <1>2, <1>3, <1>4, <3>2, <3>3, OutputGlobal
        <3> QED BY <3>4 DEF Coming, At, UpdateComes
    <2> QED BY <2>1, <2>2
<1>8. OutputInv(g, connector[g], g \in plugged, g \in bound', new, mode[connector[g]], Tail(wire))
    BY <1>5, <1>6
<1>9. event[1] \in OutputKinds /\ \A h \in Globals : h # g => (h \in bound' <=> h \in bound)
    BY <1>1 DEF OutputKinds
<1> QED BY <1>1, <1>2, <1>6, <1>7, <1>8, <1>9, OutputsTake

LEMMA OnRegistryRemoveInductive ==
    ASSUME IInv, NEW g \in Globals, OnRegistryRemove(g)
    PROVE  IInv'
<1> DEFINE event == <<"remove", g>>
<1>1. /\ Dispatch(event) /\ event[1] = "remove" /\ event[2] = g
      /\ outputStates' = [outputStates EXCEPT ![g] = None] /\ outputs' = ListedOutputs(outputStates')
      /\ UNCHANGED <<bound, toplevelStates, toplevels>>
    BY DEF OnRegistryRemove
<1> HIDE DEF event
<1>2. wire \in Seq(Event) /\ wire # <<>> /\ wire[1] = event
    BY <1>1, DispatchTakes
<1>3. /\ OutputInv(g, connector[g], g \in plugged, g \in bound, outputStates[g], mode[connector[g]], wire)
      /\ At(wire, 1, "remove", g)
    BY <1>1, <1>2 DEF IInv, OutputsInv, At
<1>4. OutputInv(g, connector[g], g \in plugged, g \in bound, None, mode[connector[g]], Tail(wire))
    BY <1>2, <1>3, OutputRemove
<1>5. OutputInv(g, connector[g], g \in plugged, g \in bound', None, mode[connector[g]], Tail(wire))
    BY <1>1, <1>4
<1>6. event[1] \in OutputKinds /\ bound' \subseteq Globals /\ \A h \in Globals : h # g => (h \in bound' <=> h \in bound)
    BY <1>1 DEF OutputKinds, IInv, TypeOK
<1> QED BY <1>1, <1>5, <1>6, OutputsTake

\* mode, name and done.
LEMMA OutputReceivedInductive ==
    ASSUME IInv, NEW g \in Globals, NEW event, Dispatch(event),
           event[1] \in {"mode", "name", "outputDone"}, event[2] = g, NEW new \in OutputState,
           outputStates' = [outputStates EXCEPT ![g] = new], UNCHANGED <<bound, toplevelStates, toplevels>>,
           new.name = IF event[1] = "name" THEN event[3] ELSE outputStates[g].name,
           new.mode = IF event[1] = "mode" THEN event[3] ELSE outputStates[g].mode,
           IF event[1] = "outputDone" THEN outputs' = ListedOutputs(outputStates') ELSE outputs' = outputs
    PROVE  IInv'
<1>1. wire \in Seq(Event) /\ wire # <<>> /\ wire[1] = event /\ InBlocks(wire)
    BY DispatchTakes
<1>2. /\ OutputInv(g, connector[g], g \in plugged, g \in bound, outputStates[g], mode[connector[g]], wire)
      /\ About(wire, 1, {"mode", "name", "outputDone"}, g)
    BY <1>1 DEF IInv, OutputsInv, About
<1>3. OutputInv(g, connector[g], g \in plugged, g \in bound, new, mode[connector[g]], Tail(wire))
    BY <1>1, <1>2, OutputReceives
<1>4. OutputInv(g, connector[g], g \in plugged, g \in bound', new, mode[connector[g]], Tail(wire))
    BY <1>3
<1>5. event[1] # "outputDone" => UpdateComes(Tail(wire))
    BY <1>1, DoneComes
<1>6. event[1] \in OutputKinds /\ bound' \subseteq Globals /\ \A h \in Globals : h # g => (h \in bound' <=> h \in bound)
    BY DEF OutputKinds, IInv, TypeOK
<1>7. \/ outputs' = ListedOutputs(outputStates')
      \/ outputs' = outputs /\ (UpdateComes(Tail(wire)) \/ bound' \cap plugged # {})
    BY <1>5
<1> QED BY <1>4, <1>6, <1>7, OutputsTake

\* Its output is known.
LEMMA OutputKnown ==
    ASSUME IInv, NEW g \in Globals, NEW event, Dispatch(event),
           event[1] \in {"mode", "name", "outputDone"}, event[2] = g
    PROVE  outputStates[g] \in OutputState /\ outputStates[g] # None
<1>1. wire \in Seq(Event) /\ wire # <<>> /\ wire[1] = event
    BY DispatchTakes
<1>2. /\ OutputInv(g, connector[g], g \in plugged, g \in bound, outputStates[g], mode[connector[g]], wire)
      /\ About(wire, 1, OutputKinds \ {"global"}, g)
    BY <1>1 DEF IInv, OutputsInv, About, OutputKinds
<1>3. outputStates[g] # None
    BY <1>1, <1>2, OutputTakes
<1> QED BY <1>3 DEF IInv, TypeOK

LEMMA OnOutputModeInductive ==
    ASSUME IInv, NEW g \in Globals, NEW m \in Modes, OnOutputMode(g, m)
    PROVE  IInv'
<1> DEFINE event == <<"mode", g, m>>
           new == [outputStates[g] EXCEPT !.mode = m]
<1>1. /\ Dispatch(event) /\ event[1] = "mode" /\ event[2] = g /\ event[3] = m
      /\ UNCHANGED <<outputs, bound, toplevelStates, toplevels>>
    BY DEF OnOutputMode
<1> HIDE DEF event
<1>2. outputStates[g] \in OutputState /\ outputStates[g] # None
    BY <1>1, OutputKnown
<1>3. new \in OutputState /\ new.name = outputStates[g].name /\ new.mode = m
    BY <1>2 DEF OutputState
<1>4. outputStates' = [outputStates EXCEPT ![g] = new]
    BY <1>2 DEF OnOutputMode, IInv, TypeOK
<1> HIDE DEF new
<1> QED BY <1>1, <1>3, <1>4, OutputReceivedInductive

LEMMA OnOutputNameInductive ==
    ASSUME IInv, NEW g \in Globals, NEW c \in Connectors, OnOutputName(g, c)
    PROVE  IInv'
<1> DEFINE event == <<"name", g, c>>
           new == [outputStates[g] EXCEPT !.name = c]
<1>1. /\ Dispatch(event) /\ event[1] = "name" /\ event[2] = g /\ event[3] = c
      /\ UNCHANGED <<outputs, bound, toplevelStates, toplevels>>
    BY DEF OnOutputName
<1> HIDE DEF event
<1>2. outputStates[g] \in OutputState /\ outputStates[g] # None
    BY <1>1, OutputKnown
<1>3. new \in OutputState /\ new.name = c /\ new.mode = outputStates[g].mode
    BY <1>2 DEF OutputState, Names
<1>4. outputStates' = [outputStates EXCEPT ![g] = new]
    BY <1>2 DEF OnOutputName, IInv, TypeOK
<1> HIDE DEF new
<1> QED BY <1>1, <1>3, <1>4, OutputReceivedInductive

\* Its name has come: no name is made up.
LEMMA OnOutputDoneInductive ==
    ASSUME IInv, NEW g \in Globals, OnOutputDone(g)
    PROVE  IInv'
<1> DEFINE event == <<"outputDone", g>>
           st == outputStates[g]
           new == [st EXCEPT !.name = IF @ = None THEN g ELSE @]
<1>1. /\ Dispatch(event) /\ event[1] = "outputDone" /\ event[2] = g
      /\ UNCHANGED <<bound, toplevelStates, toplevels>>
    BY DEF OnOutputDone
<1> HIDE DEF event
<1>2. st \in OutputState /\ st # None
    BY <1>1, OutputKnown
<1>3. st.name # None
    <2>1. wire \in Seq(Event) /\ wire # <<>> /\ wire[1] = event
        BY <1>1, DispatchTakes
    <2>2. OutputInv(g, connector[g], g \in plugged, g \in bound, st, mode[connector[g]], wire)
        BY DEF IInv, OutputsInv
    <2>3. About(wire, 1, {"mode", "name", "outputDone"}, g) /\ wire[1][1] = "outputDone"
        BY <1>1, <2>1 DEF About
    <2>4. /\ st.name = IF wire[1][1] = "name" THEN wire[1][3] ELSE st.name
          /\ st.mode = IF wire[1][1] = "mode" THEN wire[1][3] ELSE st.mode
        BY <2>3
    <2>6. st.name = connector[g]
        <3> HIDE DEF st
        <3>1. OutputInv(g, connector[g], g \in plugged, g \in bound, st, mode[connector[g]], Tail(wire))
            BY <1>2, <2>1, <2>2, <2>3, <2>4, OutputReceives
        <3> QED BY <1>2, <2>1, <2>2, <2>3, <2>4, <3>1, OutputReceives
    <2>5. connector[g] # None
        <3>1. 1 \in 1..Len(wire)
            BY <2>1, TailOfWire
        <3> QED BY <2>2, <2>3, <3>1 DEF OutputInv, OutputAppears, Silent, About, OutputKinds
    <2> QED BY <2>5, <2>6
<1>4. new \in OutputState /\ new.name = st.name /\ new.mode = st.mode
    BY <1>2, <1>3 DEF OutputState
<1>5. outputStates' = [outputStates EXCEPT ![g] = new] /\ outputs' = ListedOutputs(outputStates')
    BY <1>2 DEF OnOutputDone, IInv, TypeOK
<1> HIDE DEF new
<1> QED BY <1>1, <1>4, <1>5, OutputReceivedInductive

-----------------------------------------------------------------------------
(* Outputs that are plugged in, unplugged, change and are described. *)

\* Nothing is told.
LEMMA NothingTold ==
    ASSUME NEW s \in Seq(Event)
    PROVE  <<>> \in Seq(Event) /\ Len(<<>>) = 0 /\ s \o <<>> = s
BY EmptySeq, ConcatEmptySeq

\* The announcement of an output is nothing but that.
LEMMA GlobalEvent ==
    ASSUME NEW e \in Event, NEW g, e[1] = "global", e[2] = g
    PROVE  e = <<"global", g>>
<1>1. e \in {"global", "outputDone", "remove"} \X Globals
    BY DEF Event
<1> QED BY <1>1

\* The compositor has output g at another place, or with another mode, and tells so with e.
LEMMA OutputsTold ==
    ASSUME IInv, NEW g \in Globals, NEW e \in Seq(Event), wire' = wire \o e, InBlocks(wire \o e),
           \A k \in 1..Len(e) : About(e, k, OutputKinds, g),
           UNCHANGED <<window, outputStates, outputs, toplevelStates, toplevels, sessionVars>>,
           connector' \in [Globals -> Connectors \cup {None}], plugged' \subseteq Globals, bound' \subseteq Globals,
           mode' \in [Connectors -> Modes], changes' \in 0..MaxChanges,
           \A h \in Globals : h # g =>
               /\ connector'[h] = connector[h] /\ (h \in plugged' <=> h \in plugged) /\ (h \in bound' <=> h \in bound)
               /\ h \in plugged => mode'[connector[h]] = mode[connector[h]],
           connector[g] # None => connector'[g] = connector[g],
           \A a, b \in plugged' : connector'[a] = connector'[b] => a = b,
           bound \cap plugged # {} => bound' \cap plugged' # {} \/ UpdateComes(e),
           OutputInv(g, connector'[g], g \in plugged', g \in bound', outputStates[g], mode'[connector'[g]], wire \o e)
    PROVE  IInv'
<1>1. wire \in Seq(Event) /\ wire \o e \in Seq(Event)
    BY ConcatOfWire DEF IInv, TypeOK
<1>2. TypeOK'
    BY <1>1 DEF IInv, TypeOK, sessionVars
<1>3. ASSUME NEW h \in Globals
      PROVE  OutputInv(h, connector'[h], h \in plugged', h \in bound', outputStates[h], mode'[connector'[h]], wire \o e)
    <2>1. CASE h = g
        BY <2>1
    <2>2. CASE h # g
        <3> DEFINE new == mode'[connector[h]]
        <3>1. OutputInv(h, connector[h], h \in plugged, h \in bound, outputStates[h], mode[connector[h]], wire)
            BY DEF IInv, OutputsInv
        <3>2. Silent(e, OutputKinds, h)
            BY <2>2 DEF Silent, About
        <3>3. h \in plugged => new = mode[connector[h]]
            BY <2>2
        <3> HIDE DEF new
        <3>4. OutputInv(h, connector[h], h \in plugged, h \in bound, outputStates[h], new, wire \o e)
            BY <1>1, <3>1, <3>2, <3>3, OutputUntold
        <3>5. connector'[h] = connector[h] /\ (h \in plugged') = (h \in plugged) /\ (h \in bound') = (h \in bound)
            BY <2>2
        <3> QED BY <3>4, <3>5 DEF new
    <2> QED BY <2>1, <2>2
<1>4. \/ outputs = ListedOutputs(outputStates)
      \/ UpdateComes(wire \o e)
      \/ bound' \cap plugged' # {}
    <2>1. UpdateComes(wire) \/ UpdateComes(e) => UpdateComes(wire \o e)
        BY <1>1, UpdateStillComes
    <2>2. outputs = ListedOutputs(outputStates) \/ UpdateComes(wire) \/ bound \cap plugged # {}
        BY DEF IInv, OutputsInv, UpdateComes
    <2> QED BY <2>1, <2>2
<1>5. OutputsInv'
    BY <1>3, <1>4 DEF OutputsInv, UpdateComes
<1>6. WindowsInv'
    <2>1. \A k \in 1..Len(e) : e[k][1] \in OutputKinds
        BY DEF About
    <2> QED BY <2>1, WindowsUntold
<1>7. SessionInv'
    <2>1. \A h \in Globals : connector[h] # None => connector'[h] = connector[h]
        OBVIOUS
    <2> QED BY <2>1, SessionKeeps
<1> QED BY <1>2, <1>5, <1>6, <1>7 DEF IInv

LEMMA PlugInductive ==
    ASSUME IInv, NEW c \in Connectors, Plug(c)
    PROVE  IInv'
<1>1. PICK g \in Globals :
          /\ connector[g] = None
          /\ plugged' = plugged \cup {g}
          /\ connector' = [connector EXCEPT ![g] = c]
          /\ wire' = wire \o <<<<"global", g>>>>
    BY DEF Plug, Announce
<1>2. Change /\ (\A h \in plugged : connector[h] # c) /\ UNCHANGED <<mode, window, bound>>
    BY DEF Plug, Occupied
<1>3. /\ connector \in [Globals -> Connectors \cup {None}] /\ plugged \subseteq Globals /\ bound \subseteq Globals
      /\ mode \in [Connectors -> Modes] /\ wire \in Seq(Event) /\ InBlocks(wire)
      /\ changes \in 0..MaxChanges /\ MaxChanges \in Nat
    BY SourcesAssumption DEF IInv, TypeOK
<1> DEFINE e == <<<<"global", g>>>>
<1>4. e \in Seq(Event) /\ Len(e) = 1 /\ Len(e) > 0
    <2>1. <<"global", g>> \in Event
        BY DEF Event
    <2> QED BY <2>1
<1>5. At(e, 1, "global", g) /\ wire' = wire \o e
    BY <1>1 DEF At
<1> HIDE DEF e
<1>6. \A k \in 1..Len(e) : About(e, k, OutputKinds, g)
    BY <1>4, <1>5 DEF At, About, OutputKinds
<1>7. InBlocks(wire \o e)
    <2>1. e[1][1] \notin Follows /\ InBlocks(e)
        BY <1>4, <1>5 DEF At, Follows, InBlocks, Ends
    <2> QED BY <1>3, <1>4, <2>1, BlocksAfterConcat
<1>8. c # None
    BY SourcesAssumption DEF Names
<1>9. OutputInv(g, c, TRUE, g \in bound, outputStates[g], mode'[c], wire \o e)
    <2>1. OutputInv(g, None, g \in plugged, g \in bound, outputStates[g], mode[connector[g]], wire)
        BY <1>1 DEF IInv, OutputsInv
    <2> QED BY <1>3, <1>4, <1>5, <1>8, <2>1, OutputPlugged
<1>10. connector'[g] = c /\ (g \in plugged') = TRUE /\ (g \in bound') = (g \in bound)
    BY <1>1, <1>2, <1>3
<1>11. OutputInv(g, connector'[g], g \in plugged', g \in bound', outputStates[g], mode'[connector'[g]], wire \o e)
    BY <1>9, <1>10
<1>12. \A a, b \in plugged' : connector'[a] = connector'[b] => a = b
    BY <1>1, <1>2, <1>3 DEF IInv, OutputsInv
<1>13. \A h \in Globals : h # g =>
           /\ connector'[h] = connector[h] /\ (h \in plugged' <=> h \in plugged) /\ (h \in bound' <=> h \in bound)
           /\ h \in plugged => mode'[connector[h]] = mode[connector[h]]
    BY <1>1, <1>2, <1>3
<1>14. connector' \in [Globals -> Connectors \cup {None}] /\ plugged' \subseteq Globals /\ bound' \subseteq Globals
       /\ mode' \in [Connectors -> Modes]
    BY <1>1, <1>2, <1>3
<1>15. changes' \in 0..MaxChanges /\ UNCHANGED <<window, outputStates, outputs, toplevelStates, toplevels, sessionVars>>
    BY <1>2, <1>3 DEF Change, registryVars
<1>16. bound \cap plugged # {} => bound' \cap plugged' # {}
    BY <1>1, <1>2
<1> QED BY <1>1, <1>4, <1>5, <1>6, <1>7, <1>11, <1>12, <1>13, <1>14, <1>15, <1>16, OutputsTold

LEMMA UnplugInductive ==
    ASSUME IInv, NEW g \in Globals, Unplug(g)
    PROVE  IInv'
<1> DEFINE e == <<<<"remove", g>>>>
<1>1. /\ Change /\ g \in plugged /\ plugged' = plugged \ {g} /\ wire' = wire \o e
      /\ UNCHANGED <<connector, mode, window, bound>>
    BY DEF Unplug, Announce
<1>2. /\ connector \in [Globals -> Connectors \cup {None}] /\ plugged \subseteq Globals /\ bound \subseteq Globals
      /\ mode \in [Connectors -> Modes] /\ wire \in Seq(Event) /\ InBlocks(wire)
      /\ changes \in 0..MaxChanges /\ MaxChanges \in Nat
    BY SourcesAssumption DEF IInv, TypeOK
<1>3. e \in Seq(Event) /\ Len(e) = 1 /\ Len(e) > 0
    <2>1. <<"remove", g>> \in Event
        BY DEF Event
    <2> QED BY <2>1
<1>4. At(e, 1, "remove", g)
    BY DEF At
<1> HIDE DEF e
<1>5. \A k \in 1..Len(e) : About(e, k, OutputKinds, g)
    BY <1>3, <1>4 DEF At, About, OutputKinds
<1>6. InBlocks(wire \o e)
    <2>1. e[1][1] \notin Follows /\ InBlocks(e)
        BY <1>3, <1>4 DEF At, Follows, InBlocks, Ends
    <2> QED BY <1>2, <1>3, <2>1, BlocksAfterConcat
<1>7. OutputInv(g, connector[g], FALSE, g \in bound, outputStates[g], mode[connector[g]], wire \o e)
    <2>1. (g \in plugged) = TRUE
        BY <1>1
    <2>2. OutputInv(g, connector[g], g \in plugged, g \in bound, outputStates[g], mode[connector[g]], wire)
        BY DEF IInv, OutputsInv
    <2>3. OutputInv(g, connector[g], TRUE, g \in bound, outputStates[g], mode[connector[g]], wire)
        BY <2>1, <2>2
    <2> QED BY <1>2, <1>3, <1>4, <2>3, OutputUnplugged
<1>8. (g \in plugged') = FALSE
    BY <1>1
<1>9. OutputInv(g, connector'[g], g \in plugged', g \in bound', outputStates[g], mode'[connector'[g]], wire \o e)
    BY <1>1, <1>7, <1>8
<1>10. \A a, b \in plugged' : connector'[a] = connector'[b] => a = b
    BY <1>1 DEF IInv, OutputsInv
<1>11. \A h \in Globals : h # g =>
           /\ connector'[h] = connector[h] /\ (h \in plugged' <=> h \in plugged) /\ (h \in bound' <=> h \in bound)
           /\ h \in plugged => mode'[connector[h]] = mode[connector[h]]
    BY <1>1
<1>12. connector' \in [Globals -> Connectors \cup {None}] /\ plugged' \subseteq Globals /\ bound' \subseteq Globals
       /\ mode' \in [Connectors -> Modes]
    BY <1>1, <1>2
<1>13. changes' \in 0..MaxChanges /\ UNCHANGED <<window, outputStates, outputs, toplevelStates, toplevels, sessionVars>>
    BY <1>1, <1>2 DEF Change, registryVars
<1>14. UpdateComes(e)
    BY <1>3, <1>4 DEF UpdateComes, At
<1> QED BY <1>1, <1>3, <1>5, <1>6, <1>9, <1>10, <1>11, <1>12, <1>13, <1>14, OutputsTold

\* An output that is there has a connector.
LEMMA PluggedConnector ==
    ASSUME IInv, NEW g \in plugged
    PROVE  /\ g \in Globals /\ connector[g] \in Connectors /\ (g \in plugged) = TRUE
           /\ OutputInv(g, connector[g], TRUE, g \in bound, outputStates[g], mode[connector[g]], wire)
<1>1. g \in Globals /\ connector[g] \in Connectors \cup {None} /\ (g \in plugged) = TRUE
    BY DEF IInv, TypeOK
<1>2. OutputInv(g, connector[g], g \in plugged, g \in bound, outputStates[g], mode[connector[g]], wire)
    BY <1>1 DEF IInv, OutputsInv
<1>3. OutputInv(g, connector[g], TRUE, g \in bound, outputStates[g], mode[connector[g]], wire)
    BY <1>1, <1>2
<1>4. connector[g] # None
    BY <1>3 DEF OutputInv, OutputAppears
<1> QED BY <1>1, <1>3, <1>4

LEMMA ChangeModeInductive ==
    ASSUME IInv, NEW g \in Globals, NEW m \in Modes, ChangeMode(g, m)
    PROVE  IInv'
<1> DEFINE asked == g \in bound \/ Contains(wire, <<"global", g>>)
           told == <<<<"mode", g, m>>, <<"outputDone", g>>>>
           e == IF asked THEN <<>> ELSE told
<1>1. /\ Change /\ g \in plugged /\ mode' = [mode EXCEPT ![connector[g]] = m]
      /\ UNCHANGED <<connector, plugged, window, bound>>
    BY DEF ChangeMode
<1>2. /\ connector \in [Globals -> Connectors \cup {None}] /\ plugged \subseteq Globals /\ bound \subseteq Globals
      /\ mode \in [Connectors -> Modes] /\ wire \in Seq(Event) /\ InBlocks(wire)
      /\ changes \in 0..MaxChanges /\ MaxChanges \in Nat
    BY SourcesAssumption DEF IInv, TypeOK
<1>3. /\ connector[g] \in Connectors /\ mode'[connector[g]] = m
      /\ OutputInv(g, connector[g], TRUE, g \in bound, outputStates[g], mode[connector[g]], wire)
    BY <1>1, <1>2, PluggedConnector
<1>4. told \in Seq(Event) /\ Len(told) = 2
    <2>1. <<"mode", g, m>> \in Event /\ <<"outputDone", g>> \in Event
        BY DEF Event
    <2> QED BY <2>1
<1>5. At(told, 1, "mode", g) /\ told[1][3] = m /\ At(told, 2, "outputDone", g)
    BY DEF At
<1>6. wire' = IF asked THEN wire ELSE wire \o told
    BY DEF ChangeMode, Announce
<1>7. Coming(wire, "global", g) <=> Contains(wire, <<"global", g>>)
    <2>1. ASSUME NEW k \in 1..Len(wire), At(wire, k, "global", g) PROVE wire[k] = <<"global", g>>
        <3>1. wire[k] \in Event
            BY <1>2, ElementOfSeq
        <3> QED BY <2>1, <3>1, GlobalEvent DEF At
    <2>2. ASSUME NEW k \in 1..Len(wire), wire[k] = <<"global", g>> PROVE At(wire, k, "global", g)
        BY <2>2 DEF At
    <2> QED BY <2>1, <2>2 DEF Coming, Contains
<1> HIDE DEF told
<1>8. \A k \in 1..Len(told) : k = 1 \/ k = 2
    BY <1>4
<1>9. e \in Seq(Event) /\ wire' = wire \o e /\ \A k \in 1..Len(e) : About(e, k, OutputKinds, g)
    <2>1. CASE asked
        <3>1. e = <<>> /\ wire' = wire
            BY <1>6, <2>1
        <3> HIDE DEF e
        <3>2. 1..Len(e) = {}
            BY <3>1, NothingTold
        <3> QED BY <1>2, <3>1, <3>2, NothingTold
    <2>2. CASE ~asked
        BY <1>4, <1>5, <1>6, <1>8, <2>2 DEF At, About, OutputKinds
    <2> QED BY <2>1, <2>2
<1>10. InBlocks(wire \o e)
    <2>1. CASE asked
        BY <1>2, <2>1, NothingTold
    <2>2. CASE ~asked
        <3>1. told[1][1] \notin Follows /\ InBlocks(told) /\ Len(told) > 0
            BY <1>4, <1>5, <1>8 DEF At, Follows, InBlocks, Ends, Leads
        <3> QED BY <1>2, <1>4, <2>2, <3>1, BlocksAfterConcat
    <2> QED BY <2>1, <2>2
<1>11. OutputInv(g, connector[g], TRUE, g \in bound, outputStates[g], m, wire \o e)
    <2>1. CASE asked
        <3>1. wire \o e = wire
            BY <1>2, <2>1, NothingTold
        <3>2. OutputInv(g, connector[g], TRUE, g \in bound, outputStates[g], m, wire)
            BY <1>3, <1>7, <2>1, OutputModeUntold
        <3> QED BY <3>1, <3>2
    <2>2. CASE ~asked
        <3>1. (g \in bound) = FALSE /\ ~Coming(wire, "global", g)
            BY <1>7, <2>2
        <3>2. OutputInv(g, connector[g], TRUE, FALSE, outputStates[g], mode[connector[g]], wire)
            BY <1>3, <3>1
        <3>3. /\ Len(told) > 0
              /\ \A k \in 1..Len(told) : k > 1 => About(told, k, {"name", "outputDone"}, g)
              /\ \A k \in 1..Len(told) : At(told, k, "name", g) => told[k][3] = connector[g]
            BY <1>4, <1>5, <1>8 DEF At, About
        <3>4. OutputInv(g, connector[g], TRUE, FALSE, outputStates[g], m, wire \o told)
            BY <1>2, <1>4, <1>5, <3>1, <3>2, <3>3, OutputTold
        <3> QED BY <2>2, <3>1, <3>4
    <2> QED BY <2>1, <2>2
<1> HIDE DEF e, asked
<1>12. (g \in plugged') = TRUE
    BY <1>1
<1>13. OutputInv(g, connector'[g], g \in plugged', g \in bound', outputStates[g], mode'[connector'[g]], wire \o e)
    BY <1>1, <1>3, <1>11, <1>12
<1>14. \A a, b \in plugged' : connector'[a] = connector'[b] => a = b
    BY <1>1 DEF IInv, OutputsInv
<1>15. \A h \in Globals : h # g =>
           /\ connector'[h] = connector[h] /\ (h \in plugged' <=> h \in plugged) /\ (h \in bound' <=> h \in bound)
           /\ h \in plugged => mode'[connector[h]] = mode[connector[h]]
    <2>1. ASSUME NEW h \in plugged, h # g PROVE mode'[connector[h]] = mode[connector[h]]
        <3>1. connector[h] # connector[g]
            BY <1>1, <2>1 DEF IInv, OutputsInv
        <3>2. connector[h] \in Connectors
            BY PluggedConnector
        <3> QED BY <1>1, <1>2, <3>1, <3>2
    <2> QED BY <1>1, <2>1
<1>16. connector' \in [Globals -> Connectors \cup {None}] /\ plugged' \subseteq Globals /\ bound' \subseteq Globals
       /\ mode' \in [Connectors -> Modes]
    BY <1>1, <1>2
<1>17. changes' \in 0..MaxChanges /\ UNCHANGED <<window, outputStates, outputs, toplevelStates, toplevels, sessionVars>>
    BY <1>1, <1>2 DEF Change, registryVars
<1>18. bound \cap plugged # {} => bound' \cap plugged' # {}
    BY <1>1
<1> QED BY <1>1, <1>9, <1>10, <1>13, <1>14, <1>15, <1>16, <1>17, <1>18, OutputsTold

LEMMA DescribeInductive ==
    ASSUME IInv, NEW g \in Globals, Describe(g)
    PROVE  IInv'
<1> DEFINE told == <<<<"mode", g, mode[connector[g]]>>, <<"name", g, connector[g]>>, <<"outputDone", g>>>>
           e == IF g \in plugged THEN told ELSE <<>>
<1>1. /\ g \in bound /\ bound' = bound \ {g}
      /\ wire' = IF g \in plugged THEN wire \o told ELSE wire
      /\ UNCHANGED <<connector, plugged, mode, window, changes, registryVars, sessionVars>>
    BY DEF Describe, Announce, compositorVars
<1>2. /\ connector \in [Globals -> Connectors \cup {None}] /\ plugged \subseteq Globals /\ bound \subseteq Globals
      /\ mode \in [Connectors -> Modes] /\ wire \in Seq(Event) /\ InBlocks(wire) /\ changes \in 0..MaxChanges
    BY DEF IInv, TypeOK
<1>3. g \in plugged => told \in Seq(Event)
    <2>1. ASSUME g \in plugged PROVE told \in Seq(Event)
        <3>1. connector[g] \in Connectors /\ mode[connector[g]] \in Modes
            BY <1>2, <2>1, PluggedConnector
        <3>2. /\ <<"mode", g, mode[connector[g]]>> \in Event /\ <<"name", g, connector[g]>> \in Event
              /\ <<"outputDone", g>> \in Event
            BY <3>1 DEF Event
        <3> QED BY <3>2
    <2> QED BY <2>1
<1>4. /\ Len(told) = 3 /\ At(told, 1, "mode", g) /\ told[1][3] = mode[connector[g]]
      /\ At(told, 2, "name", g) /\ told[2][3] = connector[g] /\ At(told, 3, "outputDone", g)
    BY DEF At
<1> HIDE DEF told
<1>5. \A k \in 1..Len(told) : k = 1 \/ k = 2 \/ k = 3
    BY <1>4
<1>6. e \in Seq(Event) /\ wire' = wire \o e /\ \A k \in 1..Len(e) : About(e, k, OutputKinds, g)
    <2>1. CASE g \notin plugged
        BY <1>1, <1>2, <2>1, NothingTold
    <2>2. CASE g \in plugged
        BY <1>1, <1>3, <1>4, <1>5, <2>2 DEF At, About, OutputKinds
    <2> QED BY <2>1, <2>2
<1>7. InBlocks(wire \o e)
    <2>1. CASE g \notin plugged
        BY <1>2, <2>1, NothingTold
    <2>2. CASE g \in plugged
        <3>1. told[1][1] \notin Follows /\ InBlocks(told) /\ Len(told) > 0
            BY <1>4, <1>5 DEF At, Follows, InBlocks, Ends, Leads
        <3> QED BY <1>2, <1>3, <2>2, <3>1, BlocksAfterConcat
    <2> QED BY <2>1, <2>2
<1>8. (g \in bound) = TRUE /\ (g \in bound') = FALSE
    BY <1>1
<1>9. OutputInv(g, connector[g], g \in plugged, TRUE, outputStates[g], mode[connector[g]], wire)
    <2>1. OutputInv(g, connector[g], g \in plugged, g \in bound, outputStates[g], mode[connector[g]], wire)
        BY DEF IInv, OutputsInv
    <2> QED BY <1>8, <2>1
<1>10. OutputInv(g, connector[g], g \in plugged, FALSE, outputStates[g], mode[connector[g]], wire \o e)
    <2>1. CASE g \notin plugged
        <3>1. (g \in plugged) = FALSE /\ wire \o e = wire
            BY <1>2, <2>1, NothingTold
        <3>2. OutputInv(g, connector[g], FALSE, TRUE, outputStates[g], mode[connector[g]], wire)
            BY <1>9, <3>1
        <3>3. OutputInv(g, connector[g], FALSE, FALSE, outputStates[g], mode[connector[g]], wire)
            BY <3>2, OutputForgotten
        <3> QED BY <3>1, <3>3
    <2>2. CASE g \in plugged
        <3>1. (g \in plugged) = TRUE /\ wire \o e = wire \o told
            BY <2>2
        <3>2. OutputInv(g, connector[g], TRUE, TRUE, outputStates[g], mode[connector[g]], wire)
            BY <1>9, <3>1
        <3>3. ~Coming(wire, "global", g)
            BY <3>2 DEF OutputInv, OutputAppears, Coming
        <3>4. /\ Len(told) > 0
              /\ \A k \in 1..Len(told) : k > 1 => About(told, k, {"name", "outputDone"}, g)
              /\ \A k \in 1..Len(told) : At(told, k, "name", g) => told[k][3] = connector[g]
            BY <1>4, <1>5 DEF At, About
        <3>5. /\ Coming(told, "name", g)
              /\ \A k \in 1..Len(told) : At(told, k, "outputDone", g) => ComesBefore(told, k, "name", g)
            BY <1>4, <1>5 DEF At, Coming, ComesBefore
        <3>6. OutputInv(g, connector[g], TRUE, FALSE, outputStates[g], mode[connector[g]], wire \o told)
            BY <1>2, <1>3, <1>4, <2>2, <3>2, <3>3, <3>4, <3>5, OutputTold
        <3> QED BY <3>1, <3>6
    <2> QED BY <2>1, <2>2
<1>11. bound \cap plugged # {} => bound' \cap plugged' # {} \/ UpdateComes(e)
    <2>1. CASE g \notin plugged
        BY <1>1, <2>1
    <2>2. CASE g \in plugged
        <3>1. UpdateComes(told)
            BY <1>4 DEF UpdateComes, At
        <3>2. e = told
            BY <2>2
        <3> HIDE DEF e
        <3> QED BY <3>1, <3>2
    <2> QED BY <2>1, <2>2
<1> HIDE DEF e
<1>12. OutputInv(g, connector'[g], g \in plugged', g \in bound', outputStates[g], mode'[connector'[g]], wire \o e)
    BY <1>1, <1>8, <1>10
<1>13. \A a, b \in plugged' : connector'[a] = connector'[b] => a = b
    BY <1>1 DEF IInv, OutputsInv
<1>14. \A h \in Globals : h # g =>
           /\ connector'[h] = connector[h] /\ (h \in plugged' <=> h \in plugged) /\ (h \in bound' <=> h \in bound)
           /\ h \in plugged => mode'[connector[h]] = mode[connector[h]]
    BY <1>1
<1>15. connector' \in [Globals -> Connectors \cup {None}] /\ plugged' \subseteq Globals /\ bound' \subseteq Globals
       /\ mode' \in [Connectors -> Modes] /\ changes' \in 0..MaxChanges
    BY <1>1, <1>2
<1>16. UNCHANGED <<window, outputStates, outputs, toplevelStates, toplevels, sessionVars>>
    BY <1>1 DEF registryVars
<1> QED BY <1>1, <1>6, <1>7, <1>11, <1>12, <1>13, <1>14, <1>15, <1>16, OutputsTold

-----------------------------------------------------------------------------
(* Selections. *)

\* A set of numbers has a least one (the order of Nat is well founded).
LEMMA LeastElement ==
    ASSUME NEW T \in SUBSET Nat, T # {}
    PROVE  \E m \in T : \A k \in T : m <= k
<1>1. PICK m \in T : \A k \in T : ~ (<<k, m>> \in OpToRel(<, Nat))
    BY WFMin, NatLessThanWellFounded, Zenon
<1>2. \A k \in T : ~ (k < m)
    BY <1>1, Zenon DEF OpToRel
<1>3. m \in Nat /\ \A k \in T : k \in Nat
    OBVIOUS
<1> QED BY <1>2, <1>3

Increasing(f) == \A i, j \in DOMAIN f : i < j => f[i] < f[j]

\* A finite set of positions can be put in order: a smallest one that cannot would be
\* its least element before the rest.
LEMMA IncreasingExists ==
    ASSUME NEW I \in SUBSET Nat, IsFiniteSet(I)
    PROVE  \E f \in [1..Cardinality(I) -> I] : Increasing(f)
<1> DEFINE Without == {n \in Nat : \E U \in SUBSET Nat : /\ IsFiniteSet(U) /\ Cardinality(U) = n
                                                         /\ ~\E f \in [1..n -> U] : Increasing(f)}
<1>1. SUFFICES ASSUME Without # {} PROVE FALSE
    <2>1. Cardinality(I) \in Nat /\ Cardinality(I) \notin Without
        BY <1>1, FS_CardinalityType
    <2> QED BY <2>1
<1>2. PICK n \in Without : \A k \in Without : n <= k
    <2>1. Without \in SUBSET Nat
        OBVIOUS
    <2> HIDE DEF Without
    <2> QED BY <1>1, <2>1, LeastElement
<1>3. PICK U \in SUBSET Nat : /\ IsFiniteSet(U) /\ Cardinality(U) = n
                              /\ ~\E f \in [1..n -> U] : Increasing(f)
    OBVIOUS
<1>4. U # {}
    <2> SUFFICES ASSUME U = {} PROVE FALSE
        OBVIOUS
    <2>1. n = 0
        BY <1>3, FS_EmptySet
    <2>2. [i \in 1..n |-> 0] \in [1..n -> U] /\ Increasing([i \in 1..n |-> 0])
        BY <2>1 DEF Increasing
    <2> QED BY <1>3, <2>2
<1>5. PICK m \in U : \A k \in U : m <= k
    BY <1>4, LeastElement
<1>6. IsFiniteSet(U \ {m}) /\ Cardinality(U \ {m}) = n - 1 /\ U \ {m} \in SUBSET Nat
    BY <1>3, FS_RemoveElement
<1>7. n \in Nat /\ n - 1 \in Nat /\ ~(n <= n - 1)
    BY <1>6, FS_CardinalityType
<1>8. n - 1 \notin Without
    <2> HIDE DEF Without
    <2> QED BY <1>2, <1>7
<1>9. PICK r \in [1..(n - 1) -> U \ {m}] : Increasing(r)
    BY <1>6, <1>7, <1>8
<1> DEFINE f == [i \in 1..n |-> IF i = 1 THEN m ELSE r[i - 1]]
<1>10. \A i \in 1..n : i # 1 => i - 1 \in 1..(n - 1) /\ f[i] = r[i - 1] /\ f[i] \in U \ {m}
    <2>1. \A i \in 1..n : i # 1 => i - 1 \in 1..(n - 1)
        BY <1>7
    <2> QED BY <1>9, <2>1
<1>11. f \in [1..n -> U]
    BY <1>10
<1>12. Increasing(f)
    <2> SUFFICES ASSUME NEW i \in 1..n, NEW j \in 1..n, i < j PROVE f[i] < f[j]
        BY DEF Increasing
    <2>1. j # 1 /\ i \in Nat /\ j \in Nat
        BY <1>7
    <2>2. CASE i = 1
        <3>1. f[i] = m /\ f[j] \in U /\ f[j] # m
            BY <1>10, <2>1, <2>2
        <3>2. m <= f[j] /\ m \in Nat /\ f[j] \in Nat
            BY <1>5, <3>1
        <3> HIDE DEF f
        <3> QED BY <3>1, <3>2
    <2>3. CASE i # 1
        <3>1. i - 1 \in 1..(n - 1) /\ j - 1 \in 1..(n - 1) /\ f[i] = r[i - 1] /\ f[j] = r[j - 1]
            BY <1>10, <2>1, <2>3
        <3>2. i - 1 < j - 1
            BY <2>1
        <3>3. DOMAIN r = 1..(n - 1)
            BY <1>9
        <3>4. r[i - 1] < r[j - 1]
            BY <1>9, <3>1, <3>2, <3>3 DEF Increasing
        <3> QED BY <3>1, <3>4
    <2> QED BY <2>2, <2>3
<1> HIDE DEF f
<1> QED BY <1>3, <1>11, <1>12

\* What is kept is at one of the positions.
LEMMA KeptElements ==
    ASSUME NEW s, NEW I \in SUBSET Nat, IsFiniteSet(I)
    PROVE  Kept(s, I) \in Seq({s[i] : i \in I})
<1> DEFINE at == CHOOSE f \in [1..Cardinality(I) -> I] : \A i, j \in DOMAIN f : i < j => f[i] < f[j]
           n == Cardinality(I)
<1>1. at \in [1..n -> I]
    BY IncreasingExists DEF Increasing
<1>2. Kept(s, I) = [i \in DOMAIN at |-> s[at[i]]]
    BY DEF Kept
<1>3. n \in Nat
    BY FS_CardinalityType
<1> HIDE DEF at, n
<1>4. Kept(s, I) \in [1..n -> {s[i] : i \in I}]
    BY <1>1, <1>2
<1> QED BY <1>3, <1>4, IsASeq

\* Selections of what was granted.
GrantedSelections(names) == {s \in Selection : IF s.kind = "window" THEN s.app \in names ELSE s.key \in names}

\* Taking all or the first of some selections.
LEMMA TakenElements ==
    ASSUME NEW S, NEW sel \in Seq(S)
    PROVE  Taken(sel) \in Seq(S)
<1>1. CASE sel = <<>> \/ multiple
    BY <1>1 DEF Taken
<1>2. CASE sel # <<>> /\ ~multiple
    <2>1. Head(sel) \in S
        BY <1>2, HeadTailProperties
    <2> QED BY <1>2, <2>1 DEF Taken
<1> QED BY <1>1, <1>2

\* A listed window is shown whole, and selected with its own application.
LEMMA ListedWindow ==
    ASSUME IInv, NEW t \in toplevels
    PROVE  /\ t.title = t.appId /\ t.title # None /\ t.identifier \in Windows /\ AppOf[t.appId] \in Apps
           /\ WindowNow(t.identifier) = [kind |-> "window", key |-> t.identifier, app |-> AppOf[t.appId]]
           /\ WindowNow(t.identifier) \in Selection
<1>1. toplevels = ListedToplevels(toplevelStates) /\ toplevelStates \in [Windows -> ToplevelState \cup {None}]
    BY DEF IInv, TypeOK, WindowsInv
<1>2. ASSUME NEW u \in toplevels
      PROVE  /\ u.identifier \in Windows /\ toplevelStates[u.identifier] # None
             /\ toplevelStates[u.identifier].info.identifier
             /\ u = [identifier |-> u.identifier, title |-> toplevelStates[u.identifier].info.title,
                     appId |-> toplevelStates[u.identifier].info.appId]
    BY <1>1 DEF ListedToplevels
<1> DEFINE w == t.identifier
           st == toplevelStates[w]
<1>3. w \in Windows /\ st \in ToplevelState /\ st # None /\ st.info.identifier
    BY <1>1, <1>2
<1>4. t = [identifier |-> w, title |-> st.info.title, appId |-> st.info.appId]
    BY <1>2
<1>5. IsWhole(st.info)
    <2>1. WindowInv(w, window[w], st, wire)
        BY <1>3 DEF IInv, WindowsInv
    <2> QED BY <1>3, <2>1 DEF WindowInv, ComesWhole
<1>6. st.info.title \in Infos \cup {None}
    BY <1>3 DEF ToplevelState, Known
<1>7. t.title = t.appId /\ t.title # None /\ t.appId \in Infos
    BY <1>4, <1>5, <1>6 DEF IsWhole
<1>8. AppOf[t.appId] \in Apps
    BY <1>7 DEF Apps
<1>9. \A u \in toplevels : u.identifier = w => u = t
    BY <1>2, <1>4
<1>10. (CHOOSE u \in toplevels : u.identifier = w) = t
    BY <1>9
<1>11. WindowNow(w) = [kind |-> "window", key |-> w, app |-> AppOf[t.appId]]
    BY <1>10 DEF WindowNow
<1>12. WindowNow(w) \in Selection
    BY <1>3, <1>8, <1>11 DEF Selection
<1> QED BY <1>3, <1>7, <1>8, <1>11, <1>12

\* The stored sources that are there: what was granted, now.
LEMMA RestoredSelections ==
    ASSUME IInv, NEW first \in [Apps -> Windows],
           \A a \in Apps : FindToplevelByAppId(a) # {} => first[a] \in FindToplevelByAppId(a)
    PROVE  MatchRestoreSelections(first) \in Seq(GrantedSelections(granted))
<1> DEFINE match(entry) == IF entry[1] = "monitor" THEN Monitor(entry[2]) ELSE WindowNow(first[entry[2]])
           I == {i \in DOMAIN stored : Restorable(stored[i])}
           there == Kept(stored, I)
           T == {stored[i] : i \in I}
           G == GrantedSelections(granted)
           sel == [i \in DOMAIN there |-> match(there[i])]
<1>1. stored \in Seq(Entry) /\ DOMAIN stored = 1..Len(stored) /\ Len(stored) \in Nat
    BY LenProperties DEF IInv, TypeOK
<1>2. there \in Seq(T)
    <2>1. I \in SUBSET Nat /\ I \subseteq 1..Len(stored)
        BY <1>1
    <2>2. IsFiniteSet(I)
        <3>1. IsFiniteSet(1..Len(stored))
            BY <1>1, FS_Interval
        <3> QED BY <2>1, <3>1, FS_Subset
    <2> HIDE DEF I
    <2> QED BY <2>1, <2>2, KeptElements
<1>3. ASSUME NEW x \in T PROVE match(x) \in G
    <2>1. PICK i \in 1..Len(stored) : x = stored[i] /\ Restorable(stored[i])
        BY <1>1
    <2>2. x \in Entry /\ Restorable(x) /\ x[2] \in granted
        BY <1>1, <2>1, ElementOfSeq DEF IInv, SessionInv, EntriesGranted
    <2>3. CASE x[1] = "monitor"
        <3>1. x[2] \in Names
            BY <2>2, <2>3 DEF Entry
        <3>2. match(x) = [kind |-> "monitor", key |-> x[2]]
            BY <2>3 DEF Monitor
        <3>3. match(x) \in Selection /\ match(x).kind = "monitor" /\ match(x).key = x[2]
            BY <3>1, <3>2 DEF Selection
        <3> HIDE DEF match
        <3> QED BY <2>2, <3>3 DEF GrantedSelections
    <2>4. CASE x[1] # "monitor"
        <3>1. x[2] \in Apps
            BY <2>2, <2>4 DEF Entry
        <3>2. first[x[2]] \in FindToplevelByAppId(x[2])
            BY <2>2, <2>4, <3>1 DEF Restorable
        <3>3. PICK t \in toplevels : AppOf[t.appId] = x[2] /\ first[x[2]] = t.identifier
            BY <3>2 DEF FindToplevelByAppId, WindowsOf
        <3>4. match(x) = WindowNow(t.identifier)
            BY <2>4, <3>3
        <3> HIDE DEF match
        <3>5. /\ WindowNow(t.identifier) \in Selection
              /\ WindowNow(t.identifier) = [kind |-> "window", key |-> t.identifier, app |-> AppOf[t.appId]]
            BY ListedWindow
        <3>6. match(x) \in Selection /\ match(x).kind = "window" /\ match(x).app = x[2]
            BY <3>3, <3>4, <3>5
        <3> QED BY <2>2, <3>6 DEF GrantedSelections
    <2> QED BY <2>3, <2>4
<1> HIDE DEF T, G
<1>4. there \in [1..Len(there) -> T] /\ DOMAIN there = 1..Len(there) /\ Len(there) \in Nat
    <2> HIDE DEF there
    <2> QED BY <1>2, LenProperties
<1>5. sel \in [1..Len(there) -> G]
    <2> HIDE DEF there, match
    <2> QED BY <1>3, <1>4
<1>6. sel \in Seq(G)
    <2> HIDE DEF there, sel
    <2> QED BY <1>4, <1>5, IsASeq
<1>7. MatchRestoreSelections(first) = Taken(sel)
    BY DEF MatchRestoreSelections
<1> HIDE DEF sel
<1> QED BY <1>6, <1>7, TakenElements DEF G

\* The chosen sources that are still there, each as it is listed now.
LEMMA ChosenSelections ==
    ASSUME IInv, NEW choice \in SeqOf(offered, 2)
    PROVE  /\ ToSet(choice) \subseteq Names \cup Windows
           /\ ParseChooserSelections(choice) \in Seq({s \in Selection : s.kind = "monitor" => s.key \in ToSet(choice)})
<1> DEFINE pick(c) == IF c \in Windows THEN WindowNow(c) ELSE Monitor(c)
           I == {i \in DOMAIN choice : choice[i] \in ListedNames \cup ListedWindows}
           there == Kept(choice, I)
           T == {choice[i] : i \in I}
           G == {s \in Selection : s.kind = "monitor" => s.key \in ToSet(choice)}
           sel == [i \in DOMAIN there |-> pick(there[i])]
<1>1. PICK n \in 0..2 : choice \in [1..n -> offered]
    BY DEF SeqOf
<1>2. DOMAIN choice = 1..n /\ n \in Nat /\ offered \subseteq Names \cup Windows
    BY <1>1 DEF IInv, TypeOK
<1>3. ToSet(choice) \subseteq Names \cup Windows
    BY <1>1, <1>2 DEF ToSet
<1>4. there \in Seq(T)
    <2>1. I \in SUBSET Nat /\ I \subseteq 1..n
        BY <1>2
    <2>2. IsFiniteSet(I)
        <3>1. IsFiniteSet(1..n)
            BY <1>2, FS_Interval
        <3> QED BY <2>1, <3>1, FS_Subset
    <2> HIDE DEF I
    <2> QED BY <2>1, <2>2, KeptElements
<1>5. ASSUME NEW c \in T PROVE pick(c) \in G
    <2>1. c \in ToSet(choice) /\ c \in ListedNames \cup ListedWindows
        BY DEF ToSet
    <2>2. CASE c \in Windows
        <3>1. c \in ListedWindows
            <4>1. ListedNames \subseteq Names
                BY DEF ListedNames, IInv, TypeOK
            <4> QED BY <2>1, <2>2, <4>1, SourcesAssumption
        <3>2. PICK t \in toplevels : c = t.identifier
            BY <3>1 DEF ListedWindows
        <3>3. /\ WindowNow(t.identifier) \in Selection
              /\ WindowNow(t.identifier) = [kind |-> "window", key |-> t.identifier, app |-> AppOf[t.appId]]
            BY ListedWindow
        <3>4. pick(c) = WindowNow(t.identifier)
            BY <2>2, <3>2
        <3> HIDE DEF pick
        <3> QED BY <3>3, <3>4
    <2>3. CASE c \notin Windows
        <3>1. c \in Names
            BY <1>3, <2>1, <2>3
        <3>2. pick(c) = [kind |-> "monitor", key |-> c]
            BY <2>3 DEF Monitor
        <3>3. pick(c) \in Selection /\ pick(c).key = c
            BY <3>1, <3>2 DEF Selection
        <3> HIDE DEF pick
        <3> QED BY <2>1, <3>3
    <2> QED BY <2>2, <2>3
<1> HIDE DEF T, G
<1>6. there \in [1..Len(there) -> T] /\ DOMAIN there = 1..Len(there) /\ Len(there) \in Nat
    <2> HIDE DEF there
    <2> QED BY <1>4, LenProperties
<1>7. sel \in [1..Len(there) -> G]
    <2> HIDE DEF there, pick
    <2> QED BY <1>5, <1>6
<1>8. sel \in Seq(G)
    <2> HIDE DEF there, sel
    <2> QED BY <1>6, <1>7, IsASeq
<1>9. ParseChooserSelections(choice) = Taken(sel)
    BY DEF ParseChooserSelections
<1>10. Taken(sel) \in Seq(G)
    <2> HIDE DEF sel
    <2> QED BY <1>8, TakenElements
<1> QED BY <1>3, <1>9, <1>10 DEF G

-----------------------------------------------------------------------------
(* Sessions. *)

LEMMA FinishKeeps ==
    ASSUME IInv, Finish, UNCHANGED sourceVars, granted \subseteq granted', granted' \subseteq Names \cup Windows \cup Apps,
           token' \in Seq(Entry), EntriesGranted(token')
    PROVE  IInv'
<1>1. <<>> \in Seq(Entry) /\ <<>> \in Seq([selection : Selection, object : Globals \cup Windows]) /\ Len(<<>>) = 0
    BY EmptySeq
<1>2. /\ phase' = "none" /\ multiple' = FALSE /\ stored' = <<>> /\ offered' = {} /\ captured' = <<>>
      /\ starts' = starts
    BY DEF Finish
<1>3. TypeOK'
    BY <1>1, <1>2 DEF IInv, TypeOK, sourceVars, compositorVars, registryVars
<1>4. SessionInv'
    <2>1. EntriesGranted(stored)'
        BY <1>1, <1>2 DEF EntriesGranted
    <2>2. EntriesGranted(token)'
        BY DEF EntriesGranted
    <2>3. \A i \in 1..Len(captured') : CaptureGranted(captured[i].selection, captured[i].object)'
        BY <1>1, <1>2
    <2> QED BY <2>1, <2>2, <2>3 DEF SessionInv
<1> QED BY <1>3, <1>4, SourcesKeep DEF IInv

\* The object found for a selection is the one it names.
LEMMA FoundObject ==
    ASSUME IInv, NEW names, NEW s \in GrantedSelections(names), NEW x \in Find(s)
    PROVE  \/ /\ s.kind = "monitor" /\ s.key \in names
              /\ x \in Globals /\ connector[x] # None /\ s.key \in {x, connector[x]}
           \/ s.kind = "window" /\ x \in Windows /\ s.app \in names
<1>1. s \in Selection /\ IF s.kind = "window" THEN s.app \in names ELSE s.key \in names
    BY DEF GrantedSelections
<1>2. CASE s.kind = "window"
    <2>1. s.key \in Windows /\ x = s.key
        BY <1>1, <1>2 DEF Selection, Find
    <2> QED BY <1>1, <1>2, <2>1
<1>3. CASE s.kind # "window"
    <2>1. s.kind = "monitor"
        BY <1>1, <1>3 DEF Selection
    <2>2. /\ x \in Globals /\ outputStates[x] # None
          /\ s.key = IF outputStates[x].name = None THEN x ELSE outputStates[x].name
        BY <1>3 DEF Find
    <2>3. OutputInv(x, connector[x], x \in plugged, x \in bound, outputStates[x], mode[connector[x]], wire)
        BY <2>2 DEF IInv, OutputsInv
    <2>4. connector[x] # None
        BY <2>2, <2>3 DEF OutputInv, OutputAppears
    <2>5. outputStates[x].name \in {None, connector[x]}
        BY <2>2, <2>3 DEF OutputInv, NameArrives
    <2> QED BY <1>1, <1>3, <2>1, <2>2, <2>4, <2>5
<1> QED BY <1>2, <1>3

LEMMA StartCapturesKeeps ==
    ASSUME IInv, NEW names, NEW sel \in Seq(GrantedSelections(names)), StartCaptures(sel), UNCHANGED <<token, sourceVars>>,
           granted' = names, granted \subseteq names, names \subseteq Names \cup Windows \cup Apps
    PROVE  IInv'
<1>1. CASE Finish
    <2>1. token' \in Seq(Entry) /\ EntriesGranted(token')
        BY DEF IInv, TypeOK, SessionInv, EntriesGranted
    <2> QED BY <1>1, <2>1, FinishKeeps
<1>2. CASE ~Finish
    <2>1. /\ phase' = "capturing" /\ offered' = {} /\ UNCHANGED <<multiple, stored, starts>>
          /\ captured' \in {[i \in DOMAIN sel |-> [selection |-> sel[i], object |-> f[i]]] :
                               f \in {f \in [DOMAIN sel -> Globals \cup Windows] : \A i \in DOMAIN sel : f[i] \in Find(sel[i])}}
        BY <1>2 DEF StartCaptures
    <2>2. PICK f \in [DOMAIN sel -> Globals \cup Windows] :
              /\ \A i \in DOMAIN sel : f[i] \in Find(sel[i])
              /\ captured' = [i \in DOMAIN sel |-> [selection |-> sel[i], object |-> f[i]]]
        BY <2>1
    <2>3. /\ DOMAIN sel = 1..Len(sel) /\ Len(sel) \in Nat
          /\ \A i \in 1..Len(sel) : sel[i] \in GrantedSelections(names)
        BY LenProperties, ElementOfSeq
    <2> DEFINE S == [selection : Selection, object : Globals \cup Windows]
    <2>4. captured' \in [1..Len(sel) -> S]
        BY <2>2, <2>3 DEF GrantedSelections
    <2>5. captured' \in Seq(S) /\ Len(captured') = Len(sel)
        <3> HIDE DEF S
        <3>1. captured' \in Seq(S)
            BY <2>3, <2>4, IsASeq
        <3> QED BY <2>3, <2>4, <3>1, LenProperties
    <2>6. TypeOK'
        <3>1. stored' \in Seq(Entry) /\ token' \in Seq(Entry) /\ starts' \in 0..MaxStarts /\ multiple' \in BOOLEAN
            BY <2>1 DEF IInv, TypeOK
        <3> QED BY <2>1, <2>5, <3>1 DEF IInv, TypeOK, sourceVars, compositorVars, registryVars
    <2>7. ASSUME NEW i \in 1..Len(sel) PROVE CaptureGranted(captured[i].selection, captured[i].object)'
        <3>1. sel[i] \in GrantedSelections(names) /\ f[i] \in Find(sel[i])
            BY <2>2, <2>3
        <3>2. captured'[i].selection = sel[i] /\ captured'[i].object = f[i]
            BY <2>2, <2>3
        <3>3. \/ /\ sel[i].kind = "monitor" /\ sel[i].key \in names
                 /\ f[i] \in Globals /\ connector[f[i]] # None /\ sel[i].key \in {f[i], connector[f[i]]}
              \/ sel[i].kind = "window" /\ f[i] \in Windows /\ sel[i].app \in names
            BY <3>1, FoundObject
        <3> QED BY <3>2, <3>3 DEF CaptureGranted, sourceVars, compositorVars
    <2>8. SessionInv'
        <3>1. EntriesGranted(stored)' /\ EntriesGranted(token)'
            BY <2>1 DEF IInv, SessionInv, EntriesGranted
        <3> QED BY <2>5, <2>7, <3>1 DEF SessionInv
    <2> QED BY <2>6, <2>8, SourcesKeep DEF IInv
<1> QED BY <1>1, <1>2

LEMMA SelectSourcesInductive ==
    ASSUME IInv, NEW m \in BOOLEAN, NEW data \in {<<>>, token}, SelectSources(m, data)
    PROVE  IInv'
<1>1. <<>> \in Seq(Entry) /\ EntriesGranted(<<>>)
    BY EmptySeq DEF EntriesGranted
<1>2. token \in Seq(Entry) /\ EntriesGranted(token)
    BY DEF IInv, TypeOK, SessionInv
<1>3. stored' \in Seq(Entry) /\ EntriesGranted(stored')
    <2>1. stored' = data
        BY DEF SelectSources
    <2> QED BY <1>1, <1>2, <2>1
<1>4. /\ phase' = "selected" /\ multiple' \in BOOLEAN /\ UNCHANGED <<offered, captured, token, granted, sourceVars>>
      /\ starts' \in 0..MaxStarts
    BY SourcesAssumption DEF SelectSources, IInv, TypeOK
<1>5. TypeOK'
    BY <1>3, <1>4 DEF IInv, TypeOK, sourceVars, compositorVars, registryVars
<1>6. SessionInv'
    <2>1. EntriesGranted(stored)' /\ EntriesGranted(token)'
        BY <1>2, <1>3, <1>4 DEF EntriesGranted
    <2>2. \A i \in 1..Len(captured') : CaptureGranted(captured[i].selection, captured[i].object)'
        BY <1>4 DEF IInv, SessionInv, CaptureGranted, sourceVars, compositorVars
    <2> QED BY <2>1, <2>2 DEF SessionInv
<1> QED BY <1>4, <1>5, <1>6, SourcesKeep DEF IInv

\* Stored sources that are there are captured, what there is else is not.
LEMMA StartRestoredInductive ==
    ASSUME IInv, StartRestored
    PROVE  IInv'
<1>1. PICK first \in [Apps -> Windows] :
          /\ \A a \in Apps : FindToplevelByAppId(a) # {} => first[a] \in FindToplevelByAppId(a)
          /\ StartCaptures(MatchRestoreSelections(first))
    BY DEF StartRestored
<1>2. MatchRestoreSelections(first) \in Seq(GrantedSelections(granted))
    BY <1>1, RestoredSelections
<1>3. UNCHANGED <<token, granted, sourceVars>>
    BY DEF StartRestored
<1>4. granted \subseteq Names \cup Windows \cup Apps
    BY DEF IInv, TypeOK
<1> QED BY <1>1, <1>2, <1>3, <1>4, StartCapturesKeeps

LEMMA StartChooserInductive ==
    ASSUME IInv, StartChooser
    PROVE  IInv'
<1>1. /\ phase' = "chooser" /\ offered' = ListedNames \cup ListedWindows
      /\ UNCHANGED <<multiple, stored, starts, captured, token, granted, sourceVars>>
    BY DEF StartChooser
<1>2. offered' \subseteq Names \cup Windows
    BY <1>1 DEF ListedNames, ListedWindows, IInv, TypeOK
<1>3. TypeOK'
    BY <1>1, <1>2 DEF IInv, TypeOK, sourceVars, compositorVars, registryVars
<1>4. SessionInv'
    <2>1. EntriesGranted(stored)' /\ EntriesGranted(token)'
        BY <1>1 DEF IInv, SessionInv, EntriesGranted
    <2>2. \A i \in 1..Len(captured') : CaptureGranted(captured[i].selection, captured[i].object)'
        BY <1>1 DEF IInv, SessionInv, CaptureGranted, sourceVars, compositorVars
    <2> QED BY <2>1, <2>2 DEF SessionInv
<1> QED BY <1>1, <1>3, <1>4, SourcesKeep DEF IInv

\* The chosen names are granted with the applications of the chosen windows.
LEMMA ChooserAnswersInductive ==
    ASSUME IInv, NEW choice \in SeqOf(offered, 2), ChooserAnswers(choice)
    PROVE  IInv'
<1> DEFINE sel == ParseChooserSelections(choice)
           G == {s \in Selection : s.kind = "monitor" => s.key \in ToSet(choice)}
           apps == {sel[i].app : i \in {j \in DOMAIN sel : sel[j].kind = "window"}}
           names == granted \cup ToSet(choice) \cup apps
<1>1. /\ granted' = names /\ UNCHANGED <<token, sourceVars>>
      /\ IF sel = <<>> THEN Finish ELSE StartCaptures(sel)
    BY DEF ChooserAnswers
<1>2. ToSet(choice) \subseteq Names \cup Windows /\ sel \in Seq(G)
    BY ChosenSelections
<1> HIDE DEF sel
<1>3. DOMAIN sel = 1..Len(sel) /\ Len(sel) \in Nat /\ \A i \in 1..Len(sel) : sel[i] \in G
    <2> HIDE DEF G
    <2> QED BY <1>2, LenProperties, ElementOfSeq
<1>4. apps \subseteq Apps
    BY <1>3 DEF Selection
<1>5. \A i \in 1..Len(sel) : sel[i] \in GrantedSelections(names)
    <2> SUFFICES ASSUME NEW i \in 1..Len(sel) PROVE sel[i] \in GrantedSelections(names)
        OBVIOUS
    <2>1. sel[i] \in Selection /\ (sel[i].kind = "monitor" => sel[i].key \in ToSet(choice))
        BY <1>3
    <2>2. sel[i].kind = "window" => sel[i].app \in apps
        BY <1>3
    <2>3. sel[i].kind \in {"monitor", "window"}
        BY <2>1 DEF Selection
    <2> HIDE DEF apps
    <2> QED BY <2>1, <2>2, <2>3 DEF GrantedSelections
<1>6. granted \subseteq names /\ names \subseteq Names \cup Windows \cup Apps
    <2> HIDE DEF apps
    <2> QED BY <1>2, <1>4 DEF IInv, TypeOK
<1> HIDE DEF names, G, apps
<1>7. sel \in Seq(GrantedSelections(names))
    <2>1. sel \in [1..Len(sel) -> G]
        BY <1>2, LenProperties
    <2>2. sel \in [1..Len(sel) -> GrantedSelections(names)]
        BY <1>5, <2>1
    <2> QED BY <1>3, <2>2, IsASeq
<1>8. CASE sel = <<>>
    <2>1. token' \in Seq(Entry) /\ EntriesGranted(token')
        BY <1>1 DEF IInv, TypeOK, SessionInv, EntriesGranted
    <2> QED BY <1>1, <1>6, <1>8, <2>1, FinishKeeps
<1>9. CASE sel # <<>>
    BY <1>1, <1>6, <1>7, <1>9, StartCapturesKeeps
<1> QED BY <1>8, <1>9

LEMMA FallbackFirstOutputInductive ==
    ASSUME IInv, FallbackFirstOutput
    PROVE  IInv'
<1>1. UNCHANGED <<token, sourceVars>>
    BY DEF FallbackFirstOutput
<1>2. token' \in Seq(Entry) /\ EntriesGranted(token') /\ granted \subseteq Names \cup Windows \cup Apps
    BY <1>1 DEF IInv, TypeOK, SessionInv, EntriesGranted
<1>3. CASE Finish /\ UNCHANGED granted
    BY <1>1, <1>2, <1>3, FinishKeeps
<1>4. CASE ~(Finish /\ UNCHANGED granted)
    <2>1. PICK n \in ListedNames : granted' = granted \cup {n} /\ StartCaptures(<<Monitor(n)>>)
        BY <1>4 DEF FallbackFirstOutput
    <2> DEFINE names == granted \cup {n}
               s == Monitor(n)
    <2>2. n \in Names
        BY DEF ListedNames, IInv, TypeOK
    <2>3. s \in GrantedSelections(names)
        BY <2>2 DEF Monitor, GrantedSelections, Selection
    <2>4. granted \subseteq names /\ names \subseteq Names \cup Windows \cup Apps
        BY <1>2, <2>2
    <2>5. granted' = names /\ StartCaptures(<<s>>)
        BY <2>1
    <2> HIDE DEF names, s
    <2>6. <<s>> \in Seq(GrantedSelections(names))
        BY <2>3
    <2> QED BY <1>1, <2>4, <2>5, <2>6, StartCapturesKeeps
<1> QED BY <1>3, <1>4

LEMMA GiveUpInductive ==
    ASSUME IInv, GiveUp
    PROVE  IInv'
<1>1. Finish /\ UNCHANGED <<token, granted, sourceVars>>
    BY DEF GiveUp
<1>2. token' \in Seq(Entry) /\ EntriesGranted(token') /\ granted \subseteq Names \cup Windows \cup Apps
    BY <1>1 DEF IInv, TypeOK, SessionInv, EntriesGranted
<1> QED BY <1>1, <1>2, FinishKeeps

\* Restore data names the granted output, or the granted application of the window.
LEMMA SucceedInductive ==
    ASSUME IInv, NEW persist \in BOOLEAN, Succeed(persist)
    PROVE  IInv'
<1>1. Finish /\ UNCHANGED <<granted, sourceVars>> /\ token' = IF persist THEN RestoreData ELSE token
    BY DEF Succeed
<1>2. token \in Seq(Entry) /\ EntriesGranted(token) /\ granted \subseteq Names \cup Windows \cup Apps
    BY DEF IInv, TypeOK, SessionInv
<1>3. /\ DOMAIN captured = 1..Len(captured) /\ Len(captured) \in Nat
      /\ \A i \in 1..Len(captured) : captured[i].selection \in Selection
    <2>1. captured \in Seq([selection : Selection, object : Globals \cup Windows])
        BY DEF IInv, TypeOK
    <2>2. \A i \in 1..Len(captured) : captured[i] \in [selection : Selection, object : Globals \cup Windows]
        BY <2>1, ElementOfSeq
    <2> QED BY <2>1, <2>2, LenProperties
<1>4. ASSUME NEW i \in 1..Len(captured) PROVE RestoreData[i] \in Entry /\ RestoreData[i][2] \in granted
    <2> DEFINE s == captured[i].selection
    <2>1. s \in Selection /\ CaptureGranted(s, captured[i].object)
        BY <1>3 DEF IInv, SessionInv
    <2>2. RestoreData[i] = <<s.kind, IF s.kind = "window" THEN s.app ELSE s.key>>
        BY <1>3 DEF RestoreData
    <2> HIDE DEF s
    <2>3. CASE s.kind = "window"
        <3>1. s.app \in Apps /\ s.app \in granted
            BY <2>1, <2>3 DEF Selection, CaptureGranted
        <3> QED BY <2>2, <2>3, <3>1 DEF Entry
    <2>4. CASE s.kind # "window"
        <3>1. s.kind = "monitor" /\ s.key \in Names /\ s.key \in granted
            BY <2>1, <2>4 DEF Selection, CaptureGranted
        <3> QED BY <2>2, <3>1 DEF Entry
    <2> QED BY <2>3, <2>4
<1>5. RestoreData \in [1..Len(captured) -> Entry]
    <2>1. DOMAIN RestoreData = 1..Len(captured) /\ RestoreData = [i \in DOMAIN RestoreData |-> RestoreData[i]]
        BY <1>3 DEF RestoreData
    <2> QED BY <1>4, <2>1
<1>6. RestoreData \in Seq(Entry) /\ Len(RestoreData) = Len(captured)
    <2>1. RestoreData \in Seq(Entry)
        BY <1>3, <1>5, IsASeq
    <2> QED BY <1>3, <1>5, <2>1, LenProperties
<1>7. EntriesGranted(RestoreData)
    BY <1>4, <1>6 DEF EntriesGranted
<1>8. token' \in Seq(Entry) /\ EntriesGranted(token')
    BY <1>1, <1>2, <1>6, <1>7
<1>9. granted \subseteq granted' /\ granted' \subseteq Names \cup Windows \cup Apps
    BY <1>1, <1>2
<1> QED BY <1>1, <1>8, <1>9, FinishKeeps

-----------------------------------------------------------------------------
(* The invariant. *)

\* With no event on its way.
LEMMA NoEvents ==
    /\ Len(<<>>) = 0 /\ 1..Len(<<>>) = {} /\ InBlocks(<<>>)
    /\ \A kind, x : ~Coming(<<>>, kind, x)
    /\ \A kinds, x : Silent(<<>>, kinds, x)
BY DEF InBlocks, Coming, Silent

\* A source that is listed, with nothing on its way.
LEMMA OutputAtRest ==
    ASSUME NEW g, NEW c, NEW p, NEW st, NEW m,
           IF p THEN c # None /\ st # None /\ st.name = c /\ st.mode = m ELSE c = None /\ st = None
    PROVE  OutputInv(g, c, p, FALSE, st, m, <<>>)
<1>1. OutputAppears(g, c, p, FALSE, st, <<>>)
    BY NoEvents DEF OutputAppears
<1>2. OutputGoes(g, p, st, <<>>)
    BY NoEvents DEF OutputGoes
<1>3. DescribedOnce(g, FALSE, <<>>)
    BY NoEvents DEF DescribedOnce
<1>4. NameArrives(g, c, p, FALSE, st, <<>>)
    BY NoEvents DEF NameArrives
<1>5. ModeArrives(g, p, FALSE, st, m, <<>>)
    BY NoEvents DEF ModeArrives
<1> QED BY <1>1, <1>2, <1>3, <1>4, <1>5 DEF OutputInv

LEMMA WindowAtRest ==
    ASSUME NEW w, NEW i \in Infos \cup {None}, NEW st,
           IF i \in Infos THEN /\ st # None /\ st.info = st.pending /\ st.pending.identifier
                               /\ st.pending.title = i /\ st.pending.appId = i
                          ELSE st = None
    PROVE  WindowInv(w, i, st, <<>>)
<1>1. i # "closed" /\ None \notin Infos
    BY SourcesAssumption
<1>2. WindowAppears(w, i, st, <<>>)
    BY <1>1, NoEvents DEF WindowAppears
<1>3. WindowGoes(w, i, st, <<>>)
    BY <1>1, NoEvents DEF WindowGoes
<1>4. TitleArrives(w, i, st, <<>>)
    BY NoEvents DEF TitleArrives
<1>5. IdentifierArrives(w, i, st, <<>>)
    BY NoEvents DEF IdentifierArrives
<1>6. ComesWhole(w, st, <<>>)
    BY <1>1, NoEvents DEF ComesWhole, IsWhole
<1> QED BY <1>2, <1>3, <1>4, <1>5, <1>6 DEF WindowInv

LEMMA InitInductive ==
    ASSUME Init
    PROVE  IInv
<1>1. PICK put \in [plugged -> Connectors] :
          /\ IsInjective(put)
          /\ connector = [g \in Globals |-> IF g \in plugged THEN put[g] ELSE None]
    BY DEF Init
<1>2. MaxGlobals \in Nat /\ MaxChanges \in Nat /\ MaxStarts \in Nat /\ None \notin Connectors
    BY SourcesAssumption DEF Names
<1>3. plugged \subseteq Globals
    BY <1>2 DEF Init, Globals
<1>4. mode \in [Connectors -> Modes] /\ window \in [Windows -> Infos \cup {None}] /\ wire = <<>> /\ bound = {}
    BY DEF Init
<1>5. /\ connector \in [Globals -> Connectors \cup {None}]
      /\ \A g \in plugged : connector[g] = put[g] /\ connector[g] \in Connectors
      /\ \A g \in Globals : g \notin plugged => connector[g] = None
    BY <1>1, <1>3
<1>6. ASSUME NEW g \in Globals
      PROVE  /\ g \in plugged => /\ outputStates[g] = [name |-> connector[g], mode |-> mode[connector[g]]]
                                 /\ outputStates[g] \in OutputState
             /\ g \notin plugged => outputStates[g] = None
    <2>1. outputStates[g] = IF g \in plugged THEN [name |-> connector[g], mode |-> mode[connector[g]]] ELSE None
        BY DEF Init
    <2>2. g \in plugged => connector[g] \in Connectors /\ mode[connector[g]] \in Modes
        BY <1>4, <1>5
    <2> QED BY <2>1, <2>2 DEF OutputState, Names
<1>7. outputStates \in [Globals -> OutputState \cup {None}]
    <2>1. outputStates = [g \in Globals |-> IF g \in plugged THEN [name |-> connector[g], mode |-> mode[connector[g]]] ELSE None]
        BY DEF Init
    <2> QED BY <1>6, <2>1
<1>8. ASSUME NEW w \in Windows
      PROVE  /\ window[w] \in Infos =>
                   /\ toplevelStates[w] \in ToplevelState /\ toplevelStates[w].info = toplevelStates[w].pending
                   /\ toplevelStates[w].pending =
                         [title |-> window[w], appId |-> window[w], identifier |-> TRUE]
             /\ window[w] \notin Infos => toplevelStates[w] = None
    <2> DEFINE i == [title |-> window[w], appId |-> window[w], identifier |-> TRUE]
    <2>1. toplevelStates[w] = IF window[w] \in Infos THEN [pending |-> i, info |-> i] ELSE None
        BY DEF Init, Open
    <2>2. window[w] \in Infos => i \in Known
        BY DEF Known
    <2> HIDE DEF i
    <2>3. [pending |-> i, info |-> i].info = i /\ [pending |-> i, info |-> i].pending = i
        OBVIOUS
    <2>4. window[w] \in Infos => [pending |-> i, info |-> i] \in ToplevelState
        BY <2>2 DEF ToplevelState
    <2> QED BY <2>1, <2>3, <2>4 DEF i
<1>9. toplevelStates \in [Windows -> ToplevelState \cup {None}]
    <2>1. toplevelStates = [w \in Windows |-> toplevelStates[w]]
        BY DEF Init
    <2> QED BY <1>8, <2>1
<1>10. outputs = ListedOutputs(outputStates) /\ toplevels = ListedToplevels(toplevelStates)
    BY DEF Init
<1>11. TypeOK
    <2>1. /\ outputs \subseteq [name : Names, mode : Modes \cup {None}]
          /\ toplevels \subseteq [identifier : Windows, title : Infos \cup {None}, appId : Infos \cup {None}]
        BY <1>7, <1>9, <1>10, ListedTypes
    <2>2. /\ phase = "none" /\ multiple = FALSE /\ starts = 0 /\ changes = 0
          /\ stored = <<>> /\ offered = {} /\ captured = <<>> /\ token = <<>> /\ granted = {}
        BY DEF Init
    <2>3. /\ <<>> \in Seq(Event) /\ <<>> \in Seq(Entry)
          /\ <<>> \in Seq([selection : Selection, object : Globals \cup Windows])
        BY EmptySeq
    <2>4. changes \in 0..MaxChanges /\ starts \in 0..MaxStarts
        BY <1>2, <2>2
    <2>5. window \in [Windows -> Infos \cup {None, "closed"}]
        BY <1>4
    <2> QED BY <1>3, <1>4, <1>5, <1>7, <1>9, <2>1, <2>2, <2>3, <2>4, <2>5 DEF TypeOK
<1>12. InBlocks(wire)
    BY <1>4, NoEvents
<1>13. WindowsInv
    <2>1. ASSUME NEW w \in Windows PROVE WindowInv(w, window[w], toplevelStates[w], wire)
        <3>1. window[w] \in Infos \cup {None}
            BY <1>4
        <3>2. None \notin ToplevelState
            BY SourcesAssumption
        <3>3. IF window[w] \in Infos
              THEN /\ toplevelStates[w] # None /\ toplevelStates[w].info = toplevelStates[w].pending
                   /\ toplevelStates[w].pending.identifier
                   /\ toplevelStates[w].pending.title = window[w] /\ toplevelStates[w].pending.appId = window[w]
              ELSE toplevelStates[w] = None
            <4>1. CASE window[w] \in Infos
                <5>1. /\ toplevelStates[w] # None /\ toplevelStates[w].info = toplevelStates[w].pending
                      /\ toplevelStates[w].pending = [title |-> window[w], appId |-> window[w], identifier |-> TRUE]
                    BY <1>8, <3>2, <4>1
                <5> QED BY <4>1, <5>1
            <4>2. CASE window[w] \notin Infos
                BY <1>8, <4>2
            <4> QED BY <4>1, <4>2
        <3> QED BY <1>4, <3>1, <3>3, WindowAtRest
    <2> QED BY <1>10, <2>1 DEF WindowsInv
<1>14. OutputsInv
    <2>1. ASSUME NEW g \in Globals
          PROVE  OutputInv(g, connector[g], g \in plugged, g \in bound, outputStates[g], mode[connector[g]], wire)
        <3>1. None \notin OutputState
            BY SourcesAssumption
        <3>2. IF g \in plugged
              THEN /\ connector[g] # None /\ outputStates[g] # None
                   /\ outputStates[g].name = connector[g] /\ outputStates[g].mode = mode[connector[g]]
              ELSE connector[g] = None /\ outputStates[g] = None
            <4>1. CASE g \in plugged
                <5>1. connector[g] # None
                    BY <1>2, <1>5, <4>1
                <5>2. outputStates[g] # None
                    BY <1>6, <3>1, <4>1
                <5>3. outputStates[g] = [name |-> connector[g], mode |-> mode[connector[g]]]
                    BY <1>6, <4>1
                <5> QED BY <4>1, <5>1, <5>2, <5>3
            <4>2. CASE g \notin plugged
                BY <1>5, <1>6, <4>2
            <4> QED BY <4>1, <4>2
        <3>3. OutputInv(g, connector[g], g \in plugged, FALSE, outputStates[g], mode[connector[g]], <<>>)
            BY <3>2, OutputAtRest
        <3>4. (g \in bound) = FALSE
            BY <1>4
        <3> QED BY <1>4, <3>3, <3>4
    <2>2. \A g, h \in plugged : connector[g] = connector[h] => g = h
        BY <1>1, <1>5 DEF IsInjective
    <2> QED BY <1>10, <2>1, <2>2 DEF OutputsInv
<1>15. SessionInv
    <2>1. stored = <<>> /\ token = <<>> /\ captured = <<>>
        BY DEF Init
    <2> QED BY <2>1, NoEvents DEF SessionInv, EntriesGranted
<1> QED BY <1>11, <1>12, <1>13, <1>14, <1>15 DEF IInv

LEMMA NextInductive ==
    ASSUME IInv, [Next]_vars
    PROVE  IInv'
<1>1. ASSUME NEW c \in Connectors, Plug(c) PROVE IInv'
    BY <1>1, PlugInductive
<1>2. ASSUME NEW g \in Globals,
             \/ Unplug(g) \/ Describe(g) \/ OnRegistryGlobal(g) \/ OnRegistryRemove(g) \/ OnOutputDone(g)
             \/ \E m \in Modes : ChangeMode(g, m) \/ OnOutputMode(g, m)
             \/ \E c \in Connectors : OnOutputName(g, c)
      PROVE  IInv'
    BY <1>2, UnplugInductive, DescribeInductive, OnRegistryGlobalInductive, OnRegistryRemoveInductive,
       OnOutputDoneInductive, ChangeModeInductive, OnOutputModeInductive, OnOutputNameInductive
<1>3. ASSUME NEW w \in Windows,
             \/ CloseWindow(w) \/ OnToplevel(w) \/ OnToplevelIdentifier(w) \/ OnToplevelDone(w) \/ OnToplevelClosed(w)
             \/ \E i \in Infos : OpenWindow(w, i) \/ Rename(w, i) \/ OnToplevelTitle(w, i) \/ OnToplevelAppId(w, i)
      PROVE  IInv'
    BY <1>3, CloseWindowInductive, OnToplevelInductive, OnToplevelPropertyInductive, OnToplevelDoneInductive,
       OnToplevelClosedInductive, OpenWindowInductive, RenameInductive
<1>4. ASSUME NEW m \in BOOLEAN, NEW data \in {<<>>, token}, SelectSources(m, data) PROVE IInv'
    BY <1>4, SelectSourcesInductive
<1>5. ASSUME StartRestored \/ StartChooser \/ GiveUp \/ FallbackFirstOutput PROVE IInv'
    BY <1>5, StartRestoredInductive, StartChooserInductive, GiveUpInductive, FallbackFirstOutputInductive
<1>6. ASSUME NEW choice \in SeqOf(offered, 2), ChooserAnswers(choice) PROVE IInv'
    BY <1>6, ChooserAnswersInductive
<1>7. ASSUME NEW persist \in BOOLEAN, Succeed(persist) PROVE IInv'
    BY <1>7, SucceedInductive
<1>8. CASE UNCHANGED vars
    BY <1>8 DEF IInv, TypeOK, vars, compositorVars, registryVars, sessionVars, WindowsInv, OutputsInv, SessionInv,
       EntriesGranted, CaptureGranted
<1> QED BY <1>1, <1>2, <1>3, <1>4, <1>5, <1>6, <1>7, <1>8 DEF Next

-----------------------------------------------------------------------------
(* The properties. *)

\* The invariant holds in every state: what is on the wire brings the lists up to date
\* (the listeners of Impl and the order of wl_output's and the toplevel list's events).
THEOREM SpecIInv == Spec => []IInv
<1>1. Init => IInv
    BY InitInductive
<1>2. IInv /\ [Next]_vars => IInv'
    BY NextInductive
<1> QED BY <1>1, <1>2, PTL DEF Spec

\* With nothing on its way an output is known under its name and mode, or not there.
LEMMA OutputArrived ==
    ASSUME IInv, wire = <<>>, bound = {}, NEW g \in Globals
    PROVE  /\ g \in plugged <=> outputStates[g] # None
           /\ g \in plugged => /\ outputStates[g].name = connector[g] /\ connector[g] # None
                               /\ outputStates[g].mode = mode[connector[g]]
<1>1. (g \in bound) = FALSE
    OBVIOUS
<1>2. OutputInv(g, connector[g], g \in plugged, g \in bound, outputStates[g], mode[connector[g]], wire)
    BY DEF IInv, OutputsInv
<1>3. OutputInv(g, connector[g], g \in plugged, FALSE, outputStates[g], mode[connector[g]], <<>>)
    BY <1>1, <1>2
<1>4. CASE g \in plugged
    <2>1. (g \in plugged) = TRUE
        BY <1>4
    <2>2. OutputInv(g, connector[g], TRUE, FALSE, outputStates[g], mode[connector[g]], <<>>)
        BY <1>3, <2>1
    <2>3. connector[g] # None /\ outputStates[g] # None
        BY <2>2, NoEvents DEF OutputInv, OutputAppears
    <2>4. outputStates[g].name = connector[g]
        BY <2>2, NoEvents DEF OutputInv, NameArrives
    <2>5. outputStates[g].mode = mode[connector[g]]
        BY <2>2, <2>3, NoEvents DEF OutputInv, ModeArrives
    <2> QED BY <1>4, <2>3, <2>4, <2>5
<1>5. CASE g \notin plugged
    <2>1. (g \in plugged) = FALSE
        BY <1>5
    <2>2. OutputInv(g, connector[g], FALSE, FALSE, outputStates[g], mode[connector[g]], <<>>)
        BY <1>3, <2>1
    <2>3. outputStates[g] = None
        BY <2>2, NoEvents DEF OutputInv, OutputGoes
    <2> QED BY <1>5, <2>3
<1> QED BY <1>4, <1>5

\* With nothing on its way a window is known by its info, or not there.
LEMMA WindowArrived ==
    ASSUME IInv, wire = <<>>, NEW w \in Windows
    PROVE  /\ window[w] \in Infos <=> (toplevelStates[w] # None /\ toplevelStates[w].info.identifier)
           /\ window[w] \in Infos => /\ toplevelStates[w].info.title = window[w]
                                     /\ toplevelStates[w].info.appId = window[w]
<1> DEFINE i == window[w]
           st == toplevelStates[w]
<1>1. WindowInv(w, i, st, <<>>)
    BY DEF IInv, WindowsInv
<1>2. i \in Infos \cup {None, "closed"}
    BY DEF IInv, TypeOK
<1> HIDE DEF i, st
<1>3. CASE i \in Infos
    <2>1. st # None
        BY <1>1, <1>3, NoEvents DEF WindowInv, WindowAppears
    <2>2. st.info = st.pending /\ (st.info.identifier => IsWhole(st.info))
        BY <1>1, <2>1, NoEvents DEF WindowInv, ComesWhole
    <2>3. st.pending.identifier
        BY <1>1, <1>3, NoEvents DEF WindowInv, IdentifierArrives
    <2>4. st.pending.title = i
        BY <1>1, <1>3, <2>1, NoEvents DEF WindowInv, TitleArrives
    <2>5. st.info.identifier /\ st.info.title = i /\ st.info.appId = i
        BY <2>2, <2>3, <2>4 DEF IsWhole
    <2> QED BY <1>3, <2>1, <2>5 DEF i, st
<1>4. CASE i \notin Infos
    <2>1. CASE i = None
        BY <1>1, <1>4, <2>1 DEF WindowInv, WindowAppears, i, st
    <2>2. CASE i = "closed"
        BY <1>1, <1>4, <2>2, NoEvents DEF WindowInv, WindowGoes, i, st
    <2> QED BY <1>2, <1>4, <2>1, <2>2
<1> QED BY <1>3, <1>4

LEMMA ListsAgreeFollows ==
    ASSUME IInv
    PROVE  ListsAgree
<1>1. SUFFICES ASSUME wire = <<>>, bound = {}
               PROVE  /\ outputs = {[name |-> connector[g], mode |-> mode[connector[g]]] : g \in plugged}
                      /\ toplevels = {[identifier |-> w, title |-> window[w], appId |-> window[w]] :
                                         w \in {v \in Windows : Open(v)}}
    BY DEF ListsAgree, IInv
<1>2. outputs = ListedOutputs(outputStates)
    <2>1. \A k \in 1..Len(wire) : FALSE
        BY <1>1, NoEvents
    <2> QED BY <1>1, <2>1 DEF IInv, OutputsInv, UpdateComes
<1>3. plugged = {g \in Globals : outputStates[g] # None}
    BY <1>1, OutputArrived DEF IInv, TypeOK
<1>4. outputs = {[name |-> connector[g], mode |-> mode[connector[g]]] : g \in plugged}
    <2>1. \A g \in plugged : /\ (IF outputStates[g].name = None THEN g ELSE outputStates[g].name) = connector[g]
                             /\ outputStates[g].mode = mode[connector[g]]
        BY <1>1, <1>3, OutputArrived
    <2> QED BY <1>2, <1>3, <2>1 DEF ListedOutputs
<1>5. toplevels = ListedToplevels(toplevelStates)
    BY DEF IInv, WindowsInv
<1>6. {v \in Windows : Open(v)} = {v \in Windows : toplevelStates[v] # None /\ toplevelStates[v].info.identifier}
    BY <1>1, WindowArrived DEF Open
<1>7. toplevels = {[identifier |-> w, title |-> window[w], appId |-> window[w]] : w \in {v \in Windows : Open(v)}}
    <2>1. \A w \in {v \in Windows : Open(v)} :
              toplevelStates[w].info.title = window[w] /\ toplevelStates[w].info.appId = window[w]
        BY <1>1, WindowArrived DEF Open
    <2> QED BY <1>5, <1>6, <2>1 DEF ListedToplevels
<1> QED BY <1>4, <1>7

\* Whatever came and went, in whatever order its events were read: once they are handled
\* the lists name the outputs and windows there are (rebuildOutputs, rebuildToplevels).
THEOREM SourcesListsAgree == Spec => []ListsAgree
<1>1. IInv => ListsAgree
    BY ListsAgreeFollows
<1> QED BY <1>1, SpecIInv, PTL

\* No window is listed with the title of one moment and the application of another
\* (onToplevelDone commits what the events before it brought).
THEOREM SourcesWindowsAreWhole == Spec => []WindowsAreWhole
<1>1. IInv => WindowsAreWhole
    BY ListedWindow DEF WindowsAreWhole
<1> QED BY <1>1, SpecIInv, PTL

\* A Start captures what the user or the fallback chose at some time, by its name or its
\* application, through any number of sessions and stored selections
\* (matchRestoreSelections, parseChooserSelections, findOutput, restoreDataVariant).
THEOREM SourcesSharesOnlyGranted == Spec => []SharesOnlyGranted
<1>1. IInv => SharesOnlyGranted
    <2> SUFFICES ASSUME IInv, NEW i \in DOMAIN captured
                 PROVE  LET x == captured[i].object
                        IN \/ x \in granted
                           \/ x \in Globals /\ connector[x] \in granted
                           \/ x \in Windows /\ captured[i].selection.app \in granted
        BY DEF SharesOnlyGranted
    <2>1. i \in 1..Len(captured)
        BY LenProperties DEF IInv, TypeOK
    <2>2. CaptureGranted(captured[i].selection, captured[i].object)
        BY <2>1 DEF IInv, SessionInv
    <2> QED BY <2>2 DEF CaptureGranted
<1> QED BY <1>1, SpecIInv, PTL

=============================================================================
