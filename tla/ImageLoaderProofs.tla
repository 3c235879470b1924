------------------------- MODULE ImageLoaderProofs --------------------------
(***************************************************************************)
(* Proofs about ImageLoader: its types, that a row never shows the poster  *)
(* of another one, and that it implements PictureSlots.                    *)
(***************************************************************************)
EXTENDS ImageLoader, TLAPS

\* An exchange more or less leaves the counts natural numbers.
LEMMA AskedType ==
    ASSUME TypeOK, NEW f \in Fetch
    PROVE  /\ [asked EXCEPT ![f] = @ + 1] \in [Fetch -> Nat]
           /\ Answered(f) => asked' \in [Fetch -> Nat]
<1>1. asked[f] \in Nat
    BY DEF TypeOK
<1>2. asked[f] + 1 \in Nat /\ (asked[f] > 0 => asked[f] - 1 \in Nat)
    BY <1>1
<1>3. [asked EXCEPT ![f] = @ + 1] \in [Fetch -> Nat]
    BY <1>2 DEF TypeOK
<1>4. ASSUME Answered(f) PROVE asked' \in [Fetch -> Nat]
    BY <1>2, <1>4 DEF TypeOK, Answered
<1> QED
    BY <1>3, <1>4

\* What a reply does to the pictures: f's view may show p, the others rest.
LEMMA ShownShape ==
    ASSUME TypeOK, NEW f \in Fetch, NEW p \in {f.url, Blank}, Shown(f, p)
    PROVE  /\ picture' \in [View -> Url \cup {Blank}]
           /\ f.view \in View
           /\ \/ picture' = picture
              \/ /\ wanted[f.view] = f.url
                 /\ picture' = [picture EXCEPT ![f.view] = p]
BY DEF TypeOK, Fetch, Shown

\* No exchange is for an address that is no URL: what the cache's type needs.
AskedGood == \A f \in Fetch : asked[f] > 0 => f.url \notin Bad

(***************************************************************************)
(* Rows, views and exchanges keep their types, and the cache holds only    *)
(* pictures of addresses that can be asked for.                            *)
(***************************************************************************)
THEOREM TypeCorrect == Spec => []TypeOK
<1>1. Init => TypeOK /\ AskedGood
    BY DEF Init, TypeOK, AskedGood
<1>2. TypeOK /\ AskedGood /\ [Next]_vars => TypeOK' /\ AskedGood'
    <2> SUFFICES ASSUME TypeOK, AskedGood, [Next]_vars PROVE TypeOK' /\ AskedGood'
        OBVIOUS
    <2> USE ImageLoaderAssumption DEF AskedGood
    <2>1. ASSUME NEW v \in View, BindNoPoster(v) PROVE TypeOK' /\ AskedGood'
        BY <2>1 DEF BindNoPoster, TypeOK
    <2>2. ASSUME NEW v \in View, NEW u \in Url, BindBad(v, u) PROVE TypeOK' /\ AskedGood'
        BY <2>2 DEF BindBad, TypeOK
    <2>3. ASSUME NEW v \in View, NEW u \in Url, BindCached(v, u) PROVE TypeOK' /\ AskedGood'
        BY <2>3 DEF BindCached, TypeOK
    <2>4. ASSUME NEW v \in View, NEW u \in Url, BindFetch(v, u) PROVE TypeOK' /\ AskedGood'
        <3> DEFINE g == [view |-> v, url |-> u]
        <3>1. g \in Fetch /\ g.url = u
            BY DEF Fetch
        <3>2. asked' = [asked EXCEPT ![g] = @ + 1]
            BY <2>4 DEF BindFetch
        <3> HIDE DEF g
        <3>3. asked' \in [Fetch -> Nat]
            BY <3>1, <3>2, AskedType
        <3>4. AskedGood'
            BY <2>4, <3>1, <3>2 DEF BindFetch, TypeOK
        <3> QED
            BY <2>4, <3>3, <3>4 DEF BindFetch, TypeOK
    <2>5. ASSUME NEW f \in Fetch, Picture(f) \/ Junk(f) PROVE TypeOK' /\ AskedGood'
        <3>1. Answered(f) /\ f.url \in Url
            BY <2>5 DEF Picture, Junk, Fetch
        <3>2. asked' \in [Fetch -> Nat]
            BY <3>1, AskedType
        <3>3. AskedGood'
            BY <3>1 DEF Answered, TypeOK
        <3>4. picture' \in [View -> Url \cup {Blank}]
            BY <2>5, ShownShape DEF Picture, Junk
        <3>5. cache' \subseteq Url \ Bad
            BY <2>5, <3>1 DEF Picture, Junk, Answered, TypeOK
        <3> QED
            BY <2>5, <3>2, <3>3, <3>4, <3>5 DEF Picture, Junk, TypeOK
    <2>6. ASSUME NEW u \in Url, Evict(u) PROVE TypeOK' /\ AskedGood'
        BY <2>6 DEF Evict, TypeOK
    <2>7. CASE UNCHANGED vars
        BY <2>7 DEF vars, TypeOK
    <2> QED
        BY <2>1, <2>2, <2>3, <2>4, <2>5, <2>6, <2>7 DEF Next
<1> QED
    BY <1>1, <1>2, PTL DEF Spec

-----------------------------------------------------------------------------
(***************************************************************************)
(* PostersFit is inductive once it is known that the view of a row with a  *)
(* poster wants that poster, so that late replies to earlier rows miss it. *)
(***************************************************************************)
FitInv ==
    /\ PostersFit
    /\ \A v \in View : about[v] \in Url => wanted[v] = about[v]

\* A row with a poster never shows the poster of another row.
THEOREM PosterTheorem == Spec => []PostersFit
<1>1. Init => FitInv
    BY ImageLoaderAssumption DEF Init, FitInv, PostersFit
<1>2. TypeOK /\ FitInv /\ [Next]_vars => FitInv'
    <2> SUFFICES ASSUME TypeOK, FitInv, [Next]_vars PROVE FitInv'
        OBVIOUS
    <2> USE ImageLoaderAssumption DEF FitInv, PostersFit
    <2>1. ASSUME NEW v \in View, BindNoPoster(v) PROVE FitInv'
        BY <2>1 DEF BindNoPoster, TypeOK
    <2>2. ASSUME NEW v \in View, NEW u \in Url, BindBad(v, u) PROVE FitInv'
        BY <2>2 DEF BindBad, TypeOK
    <2>3. ASSUME NEW v \in View, NEW u \in Url, BindCached(v, u) PROVE FitInv'
        BY <2>3 DEF BindCached, TypeOK
    <2>4. ASSUME NEW v \in View, NEW u \in Url, BindFetch(v, u) PROVE FitInv'
        BY <2>4 DEF BindFetch, TypeOK
    <2>5. ASSUME NEW f \in Fetch, Picture(f) \/ Junk(f) PROVE FitInv'
        <3>1. UNCHANGED <<about, wanted>>
            BY <2>5 DEF Picture, Junk
        <3>2. PICK p \in {f.url, Blank} : Shown(f, p)
            BY <2>5 DEF Picture, Junk
        <3>3. \/ picture' = picture
              \/ /\ wanted[f.view] = f.url
                 /\ picture' = [picture EXCEPT ![f.view] = p]
            BY <3>2, ShownShape
        <3> QED
            BY <3>1, <3>2, <3>3 DEF TypeOK
    <2>6. ASSUME NEW u \in Url, Evict(u) PROVE FitInv'
        BY <2>6 DEF Evict
    <2>7. CASE UNCHANGED vars
        BY <2>7 DEF vars
    <2> QED
        BY <2>1, <2>2, <2>3, <2>4, <2>5, <2>6, <2>7 DEF Next
<1> QED
    BY <1>1, <1>2, TypeCorrect, PTL DEF Spec, FitInv

-----------------------------------------------------------------------------
(***************************************************************************)
(* Whatever the cache and the network do, the views behave as slots that   *)
(* show the picture asked for last or none.                                *)
(***************************************************************************)
THEOREM SlotTheorem == Spec => ImplementsSlots
<1>1. Init => Slots!Init
    BY DEF Init, Slots!Init
<1>2. TypeOK /\ [Next]_vars => [Slots!Next]_<<wanted, picture>>
    <2> SUFFICES ASSUME TypeOK, Next PROVE Slots!Next \/ UNCHANGED <<wanted, picture>>
        BY DEF vars
    <2>1. ASSUME NEW v \in View, BindNoPoster(v) PROVE UNCHANGED <<wanted, picture>>
        BY <2>1 DEF BindNoPoster
    <2>2. ASSUME NEW v \in View, NEW u \in Url, BindBad(v, u) PROVE Slots!Ask(v, u)
        <3>1. picture' = [picture EXCEPT ![v] = picture[v]]
            BY <2>2 DEF BindBad, TypeOK
        <3> QED
            BY <2>2, <3>1 DEF BindBad, Slots!Ask
    <2>3. ASSUME NEW v \in View, NEW u \in Url, BindCached(v, u) PROVE Slots!Ask(v, u)
        BY <2>3 DEF BindCached, Slots!Ask
    <2>4. ASSUME NEW v \in View, NEW u \in Url, BindFetch(v, u) PROVE Slots!Ask(v, u)
        BY <2>4 DEF BindFetch, Slots!Ask
    <2>5. ASSUME NEW f \in Fetch, Picture(f) \/ Junk(f)
          PROVE  Slots!Next \/ UNCHANGED <<wanted, picture>>
        <3>1. UNCHANGED wanted
            BY <2>5 DEF Picture, Junk
        <3>2. PICK p \in {f.url, Blank} : Shown(f, p)
            BY <2>5 DEF Picture, Junk
        <3>3. CASE picture' = picture
            BY <3>1, <3>3
        <3>4. CASE wanted[f.view] = f.url /\ picture' = [picture EXCEPT ![f.view] = p]
            <4>1. f.view \in View
                BY DEF Fetch
            <4>2. Slots!Answer(f.view)
                BY <3>1, <3>2, <3>4 DEF Slots!Answer
            <4> QED
                BY <4>1, <4>2 DEF Slots!Next
        <3> QED
            BY <3>2, <3>3, <3>4, ShownShape
    <2>6. ASSUME NEW u \in Url, Evict(u) PROVE UNCHANGED <<wanted, picture>>
        BY <2>6 DEF Evict
    <2> QED
        BY <2>1, <2>2, <2>3, <2>4, <2>5, <2>6 DEF Next, Slots!Next
<1> QED
    BY <1>1, <1>2, TypeCorrect, PTL DEF Spec, ImplementsSlots, Slots!Spec

-----------------------------------------------------------------------------
(***************************************************************************)
(* A blank view that wants a picture has its answer coming until a reply   *)
(* without a picture arrives: a view becomes blank only when it asks, and  *)
(* the reply that takes its exchange away shows the picture.               *)
(***************************************************************************)
THEOREM BlankTheorem == Spec => OnlyJunkLeavesBlank
<1>1. TypeOK /\ [Next]_vars
        => [BlanksAwaitAnswer /\ ~BlanksAwaitAnswer' => \E f \in Fetch : Junk(f)]_vars
    <2> SUFFICES ASSUME TypeOK, [Next]_vars, BlanksAwaitAnswer,
                        ~ \E f \in Fetch : Junk(f)
                 PROVE  BlanksAwaitAnswer'
        OBVIOUS
    <2>1. ASSUME UNCHANGED <<wanted, picture, asked>> PROVE BlanksAwaitAnswer'
        BY <2>1 DEF BlanksAwaitAnswer
    <2>2. ASSUME NEW v \in View, NEW u \in Url, BindBad(v, u) PROVE BlanksAwaitAnswer'
        BY <2>2 DEF BindBad, BlanksAwaitAnswer, TypeOK
    <2>3. ASSUME NEW v \in View, NEW u \in Url, BindCached(v, u) PROVE BlanksAwaitAnswer'
        BY <2>3, ImageLoaderAssumption DEF BindCached, BlanksAwaitAnswer, TypeOK
    <2>4. ASSUME NEW v \in View, NEW u \in Url, BindFetch(v, u) PROVE BlanksAwaitAnswer'
        <3> DEFINE g == [view |-> v, url |-> u]
        <3>1. g \in Fetch /\ asked' = [asked EXCEPT ![g] = @ + 1]
            BY <2>4 DEF BindFetch, Fetch
        <3>2. asked'[g] > 0 /\ \A f \in Fetch : asked[f] > 0 => asked'[f] > 0
            <4> HIDE DEF g
            <4> QED
                BY <3>1 DEF TypeOK
        <3>3. ASSUME NEW w \in View, wanted'[w] \in Url \ Bad, picture'[w] = Blank
              PROVE  asked'[[view |-> w, url |-> wanted'[w]]] > 0
            <4>1. CASE w = v
                <5> wanted'[w] = u
                    BY <2>4, <4>1 DEF BindFetch, TypeOK
                <5> QED
                    BY <3>2, <4>1
            <4>2. CASE w # v
                <5>1. wanted'[w] = wanted[w] /\ picture'[w] = picture[w]
                    BY <2>4, <4>2 DEF BindFetch, TypeOK
                <5>2. asked[[view |-> w, url |-> wanted[w]]] > 0
                    BY <3>3, <5>1 DEF BlanksAwaitAnswer
                <5>3. [view |-> w, url |-> wanted[w]] \in Fetch
                    BY <3>3, <5>1 DEF Fetch
                <5> QED
                    BY <3>2, <5>1, <5>2, <5>3
            <4> QED
                BY <4>1, <4>2
        <3> QED
            BY <3>3 DEF BlanksAwaitAnswer
    <2>5. ASSUME NEW f \in Fetch, Picture(f) PROVE BlanksAwaitAnswer'
        <3>1. /\ f.view \in View /\ f.url \in Url /\ f = [view |-> f.view, url |-> f.url]
              /\ UNCHANGED wanted
              /\ \A g \in Fetch : g # f => asked'[g] = asked[g]
            BY <2>5 DEF Picture, Answered, Fetch, TypeOK
        <3>2. ASSUME NEW w \in View, wanted[w] \in Url \ Bad, picture'[w] = Blank
              PROVE  asked'[[view |-> w, url |-> wanted[w]]] > 0
            <4> DEFINE g == [view |-> w, url |-> wanted[w]]
            <4>1. g \in Fetch /\ g.view = w /\ g.url = wanted[w]
                BY <3>2 DEF Fetch
            <4>2. CASE g = f
                <5> picture'[w] = f.url
                    BY <2>5, <4>1, <4>2 DEF Picture, Shown, TypeOK
                <5> QED
                    BY <3>1, <3>2, ImageLoaderAssumption
            <4>3. CASE g # f
                <5>1. picture'[w] = picture[w]
                    <6>1. w # f.view \/ wanted[f.view] # f.url
                        BY <3>1, <4>3
                    <6> QED
                        BY <2>5, <6>1 DEF Picture, Shown, TypeOK
                <5>2. asked[g] > 0
                    BY <3>2, <5>1 DEF BlanksAwaitAnswer
                <5> QED
                    BY <3>1, <4>1, <4>3, <5>2
            <4> QED
                BY <4>2, <4>3
        <3> QED
            BY <3>1, <3>2 DEF BlanksAwaitAnswer
    <2>6. ASSUME NEW v \in View, BindNoPoster(v) PROVE BlanksAwaitAnswer'
        BY <2>1, <2>6 DEF BindNoPoster
    <2>7. ASSUME NEW u \in Url, Evict(u) PROVE BlanksAwaitAnswer'
        BY <2>1, <2>7 DEF Evict
    <2>8. CASE UNCHANGED vars
        BY <2>1, <2>8 DEF vars
    <2> QED
        BY <2>2, <2>3, <2>4, <2>5, <2>6, <2>7, <2>8 DEF Next
<1> QED
    BY <1>1, TypeCorrect, PTL DEF Spec, OnlyJunkLeavesBlank
=============================================================================
