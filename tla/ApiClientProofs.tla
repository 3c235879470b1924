-------------------------- MODULE ApiClientProofs ---------------------------
(***************************************************************************)
(* Theorems about ApiReply and ApiClient, for every set of requests and    *)
(* every set of status codes: what a subscriber hears, and what the HUD    *)
(* shows meanwhile.                                                        *)
(***************************************************************************)
EXTENDS ApiClient, SequenceTheorems, TLAPS

(***************************************************************************)
(* Whatever the response, the closure makes one or two observer calls, and *)
(* only an error is followed by another call.                              *)
(***************************************************************************)
LEMMA CallsShape ==
    ASSUME NEW r \in Response
    PROVE  \/ \E e \in Event : ObserverCalls(r) = <<e>>
           \/ ObserverCalls(r) = <<"service", "other">>
BY DEF ObserverCalls, Event

\* The sequence cut after its first element.
LEMMA FirstOnly ==
    ASSUME NEW calls \in Seq(Event), Len(calls) >= 1
    PROVE  SubSeq(calls, 1, 1) = <<calls[1]>>
<1>1. calls[1] \in Event /\ \A i \in 1..1 : calls[i] \in Event
    OBVIOUS
<1>2. /\ SubSeq(calls, 1, 1) \in Seq(Event)
      /\ Len(SubSeq(calls, 1, 1)) = 1
      /\ SubSeq(calls, 1, 1)[1] = calls[1]
    BY <1>1, SubSeqProperties
<1>3. <<calls[1]>> \in Seq(Event) /\ Len(<<calls[1]>>) = 1 /\ <<calls[1]>>[1] = calls[1]
    BY <1>1
<1>4. \A i \in 1..1 : SubSeq(calls, 1, 1)[i] = <<calls[1]>>[i]
    BY <1>2, <1>3
<1> DEFINE s == SubSeq(calls, 1, 1)
           t == <<calls[1]>>
<1>5. /\ s \in Seq(Event) /\ t \in Seq(Event) /\ Len(s) = Len(t)
      /\ \A i \in 1..Len(s) : s[i] = t[i]
    BY <1>2, <1>3, <1>4
<1>6. s = t
    <2> HIDE DEF s, t
    <2> QED
        BY <1>5, SeqEqual
<1> QED
    BY <1>6

\* What the sink passes on of one call, and of an error and another call.
LEMMA PassedOne ==
    ASSUME NEW e \in Event
    PROVE  Passed(<<e>>) = <<e>>
<1> DEFINE calls == <<e>>
<1>1. Len(calls) = 1 /\ calls[1] = e /\ 1..Len(calls) = {1} /\ calls \in Seq(Event)
    OBVIOUS
<1>2. CASE e \in {"service", "other"}
    <2>1. ErrorAt(calls, 1)
        BY <1>1, <1>2 DEF ErrorAt
    <2>2. (CHOOSE n \in 1..Len(calls) : /\ ErrorAt(calls, n)
                                        /\ \A i \in 1..(n - 1) : ~ErrorAt(calls, i)) = 1
        <3> \A i \in 1..(1 - 1) : ~ErrorAt(calls, i)
            OBVIOUS
        <3> QED
            BY <1>1, <2>1
    <2>3. SubSeq(calls, 1, 1) = <<e>>
        <3> HIDE DEF calls
        <3>1. Len(calls) >= 1
            BY <1>1
        <3> QED
            BY <1>1, <3>1, FirstOnly
    <2> QED
        BY <1>1, <2>1, <2>2, <2>3 DEF Passed
<1>3. CASE e \notin {"service", "other"}
    <2>1. ~ErrorAt(calls, 1)
        BY <1>1, <1>3 DEF ErrorAt
    <2> QED
        BY <1>1, <2>1 DEF Passed
<1> QED
    BY <1>2, <1>3

\* Of the two calls for a 401 or 404 failure the sink passes the first.
LEMMA PassedTwo == Passed(<<"service", "other">>) = <<"service">>
<1> DEFINE calls == <<"service", "other">>
<1>1. calls \in Seq(Event)
    BY DEF Event
<1>2. Len(calls) = 2 /\ calls[1] = "service" /\ 1..Len(calls) = {1, 2}
    OBVIOUS
<1>3. ErrorAt(calls, 1)
    BY <1>2 DEF ErrorAt
<1>4. (CHOOSE n \in 1..Len(calls) : /\ ErrorAt(calls, n)
                                    /\ \A i \in 1..(n - 1) : ~ErrorAt(calls, i)) = 1
    <2>1. \A i \in 1..(1 - 1) : ~ErrorAt(calls, i)
        OBVIOUS
    <2>2. ~ \A i \in 1..(2 - 1) : ~ErrorAt(calls, i)
        BY <1>3
    <2> QED
        BY <1>2, <1>3, <2>1, <2>2
<1>5. SubSeq(calls, 1, 1) = <<"service">>
    <2> HIDE DEF calls
    <2>1. Len(calls) >= 1
        BY <1>2
    <2> QED
        BY <1>1, <1>2, <2>1, FirstOnly
<1> QED
    BY <1>2, <1>3, <1>4, <1>5 DEF Passed

(***************************************************************************)
(* A subscriber is told exactly one thing of any response: the first call. *)
(***************************************************************************)
THEOREM OneEventPerResponse ==
    ASSUME NEW r \in Response
    PROVE  Outcome(r) \in Event /\ Passed(ObserverCalls(r)) = <<Outcome(r)>>
<1>1. CASE \E e \in Event : ObserverCalls(r) = <<e>>
    BY <1>1, PassedOne DEF Outcome
<1>2. CASE ObserverCalls(r) = <<"service", "other">>
    <2> Head(<<"service", "other">>) = "service"
        OBVIOUS
    <2> QED
        BY <1>2, PassedTwo DEF Outcome, Event
<1> QED
    BY <1>1, <1>2, CallsShape

-----------------------------------------------------------------------------
\* What a reply adds to what its subscriber heard: one event, or nothing.
LEMMA DeliveredShape ==
    ASSUME NEW q \in Request, NEW r \in Response
    PROVE  Len(Delivered(q, r)) = IF q \in disposed THEN 0 ELSE 1
<1>1. CASE q \in disposed
    BY <1>1 DEF Delivered
<1>2. CASE q \notin disposed
    BY <1>2, OneEventPerResponse DEF Delivered
<1> QED
    BY <1>1, <1>2

\* What a reply enqueues: dismissals only.
LEMMA DismissShape ==
    ASSUME NEW r \in Response
    PROVE  DismissCalls(r) \in {<<"dismiss">>, <<"dismiss", "dismiss">>}
BY DEF DismissCalls

\* What the actions append to the operation queue.
LEMMA AppendShape ==
    ASSUME NEW ops \in Seq(HudOp),
           NEW more \in {<<"show">>, <<"error", "show">>,
                         <<"dismiss">>, <<"dismiss", "dismiss">>}
    PROVE  /\ ops \o more \in Seq(HudOp)
           /\ Len(ops \o more) = Len(ops) + Len(more)
           /\ Len(more) \in 1..2
           /\ \A i \in 1..Len(ops) : (ops \o more)[i] = ops[i]
           /\ \A i \in 1..Len(more) : (ops \o more)[Len(ops) + i] = more[i]
<1>1. CASE more = <<"show">>
    BY <1>1, ConcatProperties DEF HudOp
<1>2. CASE more = <<"error", "show">>
    BY <1>2, ConcatProperties DEF HudOp
<1>3. CASE more = <<"dismiss">>
    BY <1>3, ConcatProperties DEF HudOp
<1>4. CASE more = <<"dismiss", "dismiss">>
    BY <1>4, ConcatProperties DEF HudOp
<1> QED
    BY <1>1, <1>2, <1>3, <1>4

\* What running a block leaves of the queue.
LEMMA TailShape ==
    ASSUME NEW ops \in Seq(HudOp), ops # <<>>
    PROVE  /\ Tail(ops) \in Seq(HudOp)
           /\ Len(ops) \in Nat \ {0} /\ Len(Tail(ops)) = Len(ops) - 1
           /\ \A i \in 1..Len(Tail(ops)) : Tail(ops)[i] = ops[i + 1]
           /\ Head(ops) = ops[1]
<1>1. /\ Tail(ops) \in Seq(HudOp)
      /\ Len(Tail(ops)) = Len(ops) - 1
      /\ \A i \in 1..Len(Tail(ops)) : Tail(ops)[i] = ops[i + 1]
    BY HeadTailProperties
<1>2. Len(ops) \in Nat /\ Len(ops) # 0
    BY EmptySeq, LenProperties
<1>3. Head(ops) = ops[1]
    OBVIOUS
<1> QED
    BY <1>1, <1>2, <1>3

\* Appending one operation is concatenating a sequence of one.
LEMMA AppendAsConcat ==
    ASSUME NEW ops \in Seq(HudOp), NEW op \in HudOp
    PROVE  Append(ops, op) = ops \o <<op>>
OBVIOUS

\* The three ways to add to the queue, and the one to take from it.
Added(more) == hudOps' = hudOps \o more

\* Which actions add what to the queue.
LEMMA QueueSteps ==
    ASSUME TypeOK
    PROVE  /\ \A q \in Request : Subscribe(q) => Added(<<"show">>)
           /\ \A q \in Request : SubscribeUnfilled(q) => Added(<<"error", "show">>)
           /\ \A q \in Request, r \in Response : Complete(q, r) => Added(DismissCalls(r))
           /\ TimerFires => Added(<<"dismiss">>)
<1>1. hudOps \in Seq(HudOp) /\ "show" \in HudOp /\ "dismiss" \in HudOp
    BY DEF TypeOK, HudOp
<1>2. \A q \in Request : Subscribe(q) => Added(<<"show">>)
    BY <1>1, AppendAsConcat DEF Subscribe, Added
<1>3. TimerFires => Added(<<"dismiss">>)
    BY <1>1, AppendAsConcat DEF TimerFires, Added
<1> QED
    BY <1>2, <1>3 DEF SubscribeUnfilled, Complete, Added

\* What is added to the queue is work for the HUD.
LEMMA AppendKeepsType ==
    ASSUME hudOps \in Seq(HudOp),
           NEW more \in {<<"show">>, <<"error", "show">>,
                         <<"dismiss">>, <<"dismiss", "dismiss">>},
           Added(more)
    PROVE  hudOps' \in Seq(HudOp)
BY AppendShape DEF Added

\* The specification without its fairness, which no invariant needs.
SafetySpec == Init /\ [][Next]_vars

\* The type invariant, from the initial state and the steps alone.
LEMMA TypeInvariant == SafetySpec => []TypeOK
<1>1. Init => TypeOK
    <2> SUFFICES ASSUME Init PROVE TypeOK
        OBVIOUS
    <2>1. hudOps \in Seq(HudOp)
        BY DEF Init
    <2>2. heard \in [Request -> Nat] /\ fades \in Nat /\ fadeIns \in Nat
        BY DEF Init
    <2>3. hudShown \in BOOLEAN /\ hudImage \in BOOLEAN /\ timer \in BOOLEAN
        BY DEF Init
    <2> QED
        BY <2>1, <2>2, <2>3 DEF Init, TypeOK
<1>2. TypeOK /\ [Next]_vars => TypeOK'
    <2> SUFFICES ASSUME TypeOK, [Next]_vars PROVE TypeOK'
        OBVIOUS
    <2>0. hudOps \in Seq(HudOp)
        BY DEF TypeOK
    <2>1. ASSUME NEW q \in Request, Subscribe(q) PROVE TypeOK'
        <3>1. hudOps' \in Seq(HudOp)
            BY <2>1, <2>0, QueueSteps, AppendKeepsType
        <3> QED
            BY <2>1, <3>1 DEF Subscribe, Ask, TypeOK, hud, message
    <2>2. ASSUME NEW q \in Request, SubscribeUnfilled(q) PROVE TypeOK'
        <3>1. hudOps' \in Seq(HudOp)
            BY <2>2, <2>0, QueueSteps, AppendKeepsType
        <3> QED
            BY <2>2, <3>1 DEF SubscribeUnfilled, Ask, TypeOK, hud, message
    <2>3. ASSUME NEW q \in Request, NEW r \in Response, Complete(q, r) PROVE TypeOK'
        <3>1. hudOps' \in Seq(HudOp)
            BY <2>3, <2>0, QueueSteps, AppendKeepsType, DismissShape
        <3>2. heard' \in [Request -> Nat]
            <4> DEFINE n == Len(Delivered(q, r))
            <4>1. heard' = [heard EXCEPT ![q] = @ + n]
                BY <2>3 DEF Complete
            <4>2. n \in Nat
                BY DeliveredShape
            <4> HIDE DEF n
            <4> QED
                BY <4>1, <4>2 DEF TypeOK
        <3> QED
            BY <2>3, <3>1, <3>2 DEF Complete, TypeOK, hud, message
    <2>4. ASSUME NEW q \in Request, Dispose(q) PROVE TypeOK'
        BY <2>4 DEF Dispose, TypeOK, hud, message
    <2>5. ASSUME NEW kind, Run(kind)
          PROVE  hudOps' \in Seq(HudOp) /\ UNCHANGED requests
        BY <2>5, TailShape DEF Run, TypeOK
    <2>6. CASE RunShow
        <3>1. hudShown' \in BOOLEAN /\ hudImage' \in BOOLEAN /\ timer' \in BOOLEAN
            BY <2>6 DEF RunShow
        <3> QED
            BY <2>5, <2>6, <3>1 DEF RunShow, TypeOK, requests
    <2>7. CASE RunError
        <3>1. hudShown' \in BOOLEAN /\ hudImage' \in BOOLEAN /\ timer' \in BOOLEAN
            BY <2>7 DEF RunError, TypeOK
        <3>2. fadeIns' \in Nat
            BY <2>7 DEF RunError, TypeOK
        <3> QED
            BY <2>5, <2>7, <3>1, <3>2 DEF RunError, TypeOK, requests
    <2>8. CASE RunDismiss
        <3>1. fades' \in Nat
            BY <2>8 DEF RunDismiss, TypeOK
        <3> QED
            BY <2>5, <2>8, <3>1 DEF RunDismiss, TypeOK, requests, message
    <2>9. CASE FadeOut
        <3>1. fades' \in Nat
            BY <2>9 DEF FadeOut, TypeOK
        <3>2. hudShown' \in BOOLEAN
            BY <2>9 DEF FadeOut
        <3> QED
            BY <2>9, <3>1, <3>2 DEF FadeOut, TypeOK, requests, message
    <2>10. CASE FadedIn
        <3>1. fadeIns' \in Nat
            BY <2>10 DEF FadedIn, TypeOK
        <3>2. timer' \in BOOLEAN
            BY <2>10 DEF FadedIn, TypeOK
        <3> QED
            BY <2>10, <3>1, <3>2 DEF FadedIn, TypeOK, requests
    <2>11. CASE TimerFires
        <3>1. hudOps' \in Seq(HudOp)
            BY <2>11, <2>0, QueueSteps, AppendKeepsType
        <3>2. timer' \in BOOLEAN
            BY <2>11 DEF TimerFires
        <3> QED
            BY <2>11, <3>1, <3>2 DEF TimerFires, TypeOK, requests
    <2>12. CASE UNCHANGED vars
        BY <2>12 DEF vars, requests, hud, message, TypeOK
    <2> QED
        BY <2>1, <2>2, <2>3, <2>4, <2>6, <2>7, <2>8, <2>9, <2>10, <2>11, <2>12 DEF Next
<1> QED
    BY <1>1, <1>2, PTL DEF SafetySpec

(***************************************************************************)
(* Every counter and operation queue keeps its type, only requests that    *)
(* were made are in flight, and no fade-out runs that was not dispatched.  *)
(***************************************************************************)
THEOREM TypeCorrect == Spec => []TypeOK
BY TypeInvariant, PTL DEF Spec, SafetySpec

\* The steps of the HUD leave the requests alone.
HudStep == RunShow \/ RunError \/ RunDismiss \/ FadeOut \/ FadedIn \/ TimerFires

\* The blocks of the main queue answer no request and make none.
LEMMA HudStepsKeepRequests == HudStep => UNCHANGED requests
BY DEF HudStep, RunShow, RunError, RunDismiss, FadeOut, FadedIn, TimerFires, Run

-----------------------------------------------------------------------------
\* ExactlyOneEvent, and no event for a request not made: what is inductive.
EventInv ==
    /\ ExactlyOneEvent
    /\ \A q \in Request : q \notin asked => heard[q] = 0

(***************************************************************************)
(* A subscriber that is still there receives exactly one event, although   *)
(* the closure may report a failure twice.                                 *)
(***************************************************************************)
THEOREM EventTheorem == Spec => []ExactlyOneEvent
<1>1. Init => EventInv
    BY DEF Init, EventInv, ExactlyOneEvent
<1>2. TypeOK /\ EventInv /\ [Next]_vars => EventInv'
    <2> SUFFICES ASSUME TypeOK, EventInv, [Next]_vars PROVE EventInv'
        OBVIOUS
    <2>1. ASSUME UNCHANGED requests PROVE EventInv'
        BY <2>1 DEF EventInv, ExactlyOneEvent, requests
    <2>2. ASSUME NEW q \in Request, Ask(q) PROVE EventInv'
        BY <2>2 DEF Ask, EventInv, ExactlyOneEvent
    <2>3. ASSUME NEW q \in Request, NEW r \in Response, Complete(q, r) PROVE EventInv'
        <3>1. heard[q] = 0 /\ q \in asked
            BY <2>3 DEF Complete, EventInv, ExactlyOneEvent, TypeOK
        <3>2. heard'[q] = IF q \in disposed THEN 0 ELSE 1
            <4> DEFINE n == Len(Delivered(q, r))
            <4>1. heard' = [heard EXCEPT ![q] = @ + n]
                BY <2>3 DEF Complete
            <4>2. n = IF q \in disposed THEN 0 ELSE 1
                BY DeliveredShape
            <4> HIDE DEF n
            <4> QED
                BY <3>1, <4>1, <4>2 DEF TypeOK
        <3>3. \A p \in Request \ {q} : heard'[p] = heard[p]
            BY <2>3 DEF Complete, TypeOK
        <3>4. inFlight' = inFlight \ {q} /\ asked' = asked /\ disposed' = disposed
            BY <2>3 DEF Complete
        <3>5. \A p \in Request :
                  /\ heard'[p] <= 1
                  /\ p \in inFlight' => heard'[p] = 0
                  /\ p \in (asked' \ inFlight') \ disposed' => heard'[p] = 1
                  /\ p \notin asked' => heard'[p] = 0
            <4> SUFFICES ASSUME NEW p \in Request
                         PROVE  /\ heard'[p] <= 1
                                /\ p \in inFlight' => heard'[p] = 0
                                /\ p \in (asked' \ inFlight') \ disposed' => heard'[p] = 1
                                /\ p \notin asked' => heard'[p] = 0
                OBVIOUS
            <4>1. CASE p = q
                BY <4>1, <3>1, <3>2, <3>4
            <4>2. CASE p # q
                BY <4>2, <3>3, <3>4 DEF EventInv, ExactlyOneEvent
            <4> QED
                BY <4>1, <4>2
        <3> QED
            BY <3>5 DEF EventInv, ExactlyOneEvent
    <2>4. ASSUME NEW q \in Request, Dispose(q) PROVE EventInv'
        BY <2>4 DEF Dispose, EventInv, ExactlyOneEvent
    <2>5. CASE UNCHANGED vars
        BY <2>1, <2>5 DEF vars
    <2> QED
        BY <2>1, <2>2, <2>3, <2>4, <2>5, HudStepsKeepRequests
           DEF Next, HudStep, Subscribe, SubscribeUnfilled
<1> QED
    BY <1>1, <1>2, TypeCorrect, PTL DEF Spec, EventInv

-----------------------------------------------------------------------------
\* What is known of the queue after a step that adds to it, and after one that
\* takes a block from it.
LEMMA AddedShape ==
    ASSUME TypeOK,
           NEW more \in {<<"show">>, <<"error", "show">>,
                         <<"dismiss">>, <<"dismiss", "dismiss">>},
           Added(more)
    PROVE  /\ Len(hudOps) \in Nat /\ Len(more) \in 1..2
           /\ hudOps' \in Seq(HudOp)
           /\ Len(hudOps') = Len(hudOps) + Len(more)
           /\ \A i \in 1..Len(hudOps) : hudOps'[i] = hudOps[i]
           /\ \A i \in 1..Len(more) : hudOps'[Len(hudOps) + i] = more[i]
<1>1. hudOps \in Seq(HudOp)
    BY DEF TypeOK
<1>2. Len(hudOps) \in Nat
    BY <1>1, LenProperties
<1>3. /\ hudOps \o more \in Seq(HudOp)
      /\ Len(hudOps \o more) = Len(hudOps) + Len(more)
      /\ Len(more) \in 1..2
      /\ \A i \in 1..Len(hudOps) : (hudOps \o more)[i] = hudOps[i]
      /\ \A i \in 1..Len(more) : (hudOps \o more)[Len(hudOps) + i] = more[i]
    BY <1>1, AppendShape
<1>4. hudOps' = hudOps \o more
    BY DEF Added
<1> QED
    BY <1>2, <1>3, <1>4, Zenon

\* Running a block takes it from the front of the queue.
LEMMA RunShape ==
    ASSUME TypeOK, NEW kind, Run(kind)
    PROVE  /\ Len(hudOps) \in Nat \ {0} /\ hudOps[1] = kind
           /\ hudOps' \in Seq(HudOp)
           /\ Len(hudOps') = Len(hudOps) - 1
           /\ \A i \in 1..Len(hudOps') : hudOps'[i] = hudOps[i + 1]
<1>1. hudOps \in Seq(HudOp) /\ hudOps # <<>>
    BY DEF TypeOK, Run
<1> QED
    BY <1>1, TailShape DEF Run

-----------------------------------------------------------------------------
(***************************************************************************)
(* Why the HUD never stays up for nothing: when nothing is in flight, the  *)
(* last block waiting is a dismissal; when no block is waiting and none is *)
(* in flight either, the HUD is hidden or a fade-out is.                   *)
(***************************************************************************)
HudInv ==
    inFlight = {} =>
        /\ Len(hudOps) # 0 => hudOps[Len(hudOps)] = "dismiss"
        /\ Len(hudOps) = 0 /\ hudShown => fades > 0

\* The HUD is shown only with a request in flight or its removal under way, for
\* any number of requests that share it.
THEOREM HudTheorem == Spec => []HudHasReason
<1>1. Init => HudInv
    BY LenProperties DEF Init, HudInv
<1>2. TypeOK /\ HudInv /\ [Next]_vars => HudInv'
    <2> SUFFICES ASSUME TypeOK, HudInv, [Next]_vars PROVE HudInv'
        OBVIOUS
    <2>0. Len(hudOps) \in Nat
        BY LenProperties DEF TypeOK
    <2>1. ASSUME NEW q \in Request, Ask(q) PROVE HudInv'
        BY <2>1 DEF Ask, HudInv
    <2>2. ASSUME NEW more \in {<<"dismiss">>, <<"dismiss", "dismiss">>}, Added(more)
          PROVE  HudInv'
        <3>1. /\ Len(more) \in 1..2
              /\ \A i \in 1..Len(more) : more[i] = "dismiss"
            OBVIOUS
        <3>2. Len(hudOps') = Len(hudOps) + Len(more)
            BY <2>2, AddedShape
        <3>3. hudOps'[Len(hudOps) + Len(more)] = more[Len(more)]
            BY <2>2, <3>1, AddedShape
        <3> QED
            BY <2>0, <3>1, <3>2, <3>3 DEF HudInv
    <2>3. ASSUME NEW q \in Request, NEW r \in Response, Complete(q, r) PROVE HudInv'
        BY <2>2, <2>3, QueueSteps, DismissShape
    <2>4. CASE TimerFires
        BY <2>2, <2>4, QueueSteps
    <2>5. ASSUME NEW q \in Request, Dispose(q) PROVE HudInv'
        BY <2>5 DEF Dispose, HudInv, hud
    <2>6. ASSUME NEW kind, Run(kind), inFlight' = {}
          PROVE  /\ inFlight = {}
                 /\ Len(hudOps') # 0 => hudOps'[Len(hudOps')] = "dismiss"
                 /\ Len(hudOps') = 0 => kind = "dismiss"
        <3>1. inFlight = {} /\ hudOps[Len(hudOps)] = "dismiss"
            BY <2>6, RunShape DEF Run, requests, HudInv
        <3> QED
            BY <2>6, <3>1, RunShape
    <2>7. CASE RunShow \/ RunError
        BY <2>6, <2>7 DEF RunShow, RunError, HudInv
    <2>8. CASE RunDismiss
        BY <2>6, <2>8 DEF RunDismiss, HudInv, TypeOK
    <2>9. CASE FadeOut \/ FadedIn \/ UNCHANGED vars
        BY <2>9 DEF FadeOut, FadedIn, HudInv, vars, requests, hud, message
    <2> QED
        BY <2>1, <2>3, <2>4, <2>5, <2>7, <2>8, <2>9 DEF Next, Subscribe, SubscribeUnfilled
<1>3. TypeOK /\ HudInv => HudHasReason
    <2> SUFFICES ASSUME TypeOK, HudInv, hudShown, inFlight = {}, ~ fades > 0
                 PROVE  \E i \in DOMAIN hudOps : hudOps[i] = "dismiss"
        BY DEF HudHasReason
    <2>1. Len(hudOps) \in Nat /\ DOMAIN hudOps = 1..Len(hudOps)
        BY LenProperties DEF TypeOK
    <2>2. Len(hudOps) # 0 /\ hudOps[Len(hudOps)] = "dismiss"
        BY DEF HudInv
    <2> QED
        BY <2>1, <2>2
<1> QED
    BY <1>1, <1>2, <1>3, TypeCorrect, PTL DEF Spec

-----------------------------------------------------------------------------
(***************************************************************************)
(* Why a message goes at once: in the queue every error is followed by a   *)
(* show, and a message that is up has that show next in the queue.         *)
(***************************************************************************)
MessageInv ==
    /\ \A i \in 1..Len(hudOps) :
           hudOps[i] = "error" => i < Len(hudOps) /\ hudOps[i + 1] = "show"
    /\ hudShown /\ hudImage => Len(hudOps) # 0 /\ hudOps[1] = "show"

\* The message about an unfilled form is on the screen only until the block of
\* show() that waits behind it.
THEOREM MessageTheorem == Spec => []MessageIsReplaced
<1>1. Init => MessageInv
    BY LenProperties DEF Init, MessageInv
<1>2. TypeOK /\ MessageInv /\ [Next]_vars => MessageInv'
    <2> SUFFICES ASSUME TypeOK, MessageInv, [Next]_vars PROVE MessageInv'
        OBVIOUS
    <2>0. Len(hudOps) \in Nat
        BY LenProperties DEF TypeOK
    <2>1. ASSUME NEW more \in {<<"show">>, <<"error", "show">>,
                               <<"dismiss">>, <<"dismiss", "dismiss">>},
                 Added(more), hudShown' = hudShown, hudImage' = hudImage
          PROVE  MessageInv'
        <3>1. /\ Len(more) \in 1..2
              /\ \A i \in 1..Len(more) :
                     more[i] = "error" => i < Len(more) /\ more[i + 1] = "show"
            OBVIOUS
        <3>2. /\ Len(hudOps') = Len(hudOps) + Len(more)
              /\ \A i \in 1..Len(hudOps) : hudOps'[i] = hudOps[i]
              /\ \A i \in 1..Len(more) : hudOps'[Len(hudOps) + i] = more[i]
            BY <2>1, AddedShape
        <3>3. ASSUME NEW i \in 1..Len(hudOps'), hudOps'[i] = "error"
              PROVE  i < Len(hudOps') /\ hudOps'[i + 1] = "show"
            <4>1. CASE i \in 1..Len(hudOps)
                BY <2>0, <3>1, <3>2, <3>3, <4>1 DEF MessageInv
            <4>2. CASE i \notin 1..Len(hudOps)
                <5> DEFINE j == i - Len(hudOps)
                <5>1. j \in 1..Len(more) /\ i = Len(hudOps) + j
                    BY <2>0, <3>1, <3>2, <4>2
                <5>2. more[j] = "error"
                    BY <3>2, <3>3, <5>1
                <5>3. j < Len(more) /\ more[j + 1] = "show" /\ j + 1 \in 1..Len(more)
                    BY <3>1, <5>1, <5>2
                <5>4. hudOps'[Len(hudOps) + (j + 1)] = "show"
                    BY <3>2, <5>3
                <5> QED
                    BY <2>0, <3>1, <3>2, <5>1, <5>3, <5>4
            <4> QED
                BY <4>1, <4>2
        <3>4. hudShown' /\ hudImage' => Len(hudOps') # 0 /\ hudOps'[1] = "show"
            BY <2>0, <2>1, <3>1, <3>2 DEF MessageInv
        <3> QED
            BY <3>3, <3>4 DEF MessageInv
    <2>2. ASSUME NEW q \in Request, Subscribe(q) PROVE MessageInv'
        BY <2>1, <2>2, QueueSteps DEF Subscribe, Ask, hud, message
    <2>3. ASSUME NEW q \in Request, SubscribeUnfilled(q) PROVE MessageInv'
        BY <2>1, <2>3, QueueSteps DEF SubscribeUnfilled, Ask, hud, message
    <2>4. ASSUME NEW q \in Request, NEW r \in Response, Complete(q, r) PROVE MessageInv'
        BY <2>1, <2>4, QueueSteps, DismissShape DEF Complete, hud, message
    <2>5. CASE TimerFires
        BY <2>1, <2>5, QueueSteps DEF TimerFires
    <2>6. ASSUME NEW q \in Request, Dispose(q) PROVE MessageInv'
        BY <2>6 DEF Dispose, MessageInv, hud, message
    <2>7. ASSUME NEW kind, Run(kind)
          PROVE  /\ \A i \in 1..Len(hudOps') :
                        hudOps'[i] = "error" => i < Len(hudOps') /\ hudOps'[i + 1] = "show"
                 /\ kind = "error" => Len(hudOps') # 0 /\ hudOps'[1] = "show"
                 /\ hudShown /\ hudImage => kind = "show"
        <3> DEFINE n == Len(hudOps)  l == Len(hudOps')
        <3>1. /\ n \in Nat \ {0} /\ hudOps[1] = kind /\ l = n - 1
              /\ \A i \in 1..l : hudOps'[i] = hudOps[i + 1]
            BY <2>7, RunShape
        <3>2. /\ \A i \in 1..n : hudOps[i] = "error" => i < n /\ hudOps[i + 1] = "show"
              /\ hudShown /\ hudImage => hudOps[1] = "show"
            BY DEF MessageInv
        <3> HIDE DEF n, l
        <3>3. l \in Nat /\ 1 \in 1..n /\ \A i \in 1..l : i + 1 \in 1..n
            BY <3>1
        <3>4. ASSUME NEW i \in 1..l, hudOps'[i] = "error"
              PROVE  i < l /\ hudOps'[i + 1] = "show"
            <4>1. i + 1 < n /\ hudOps[i + 1 + 1] = "show"
                BY <3>1, <3>2, <3>3, <3>4
            <4>2. i + 1 \in 1..l
                BY <3>1, <4>1
            <4> QED
                BY <3>1, <4>1, <4>2
        <3>5. ASSUME kind = "error" PROVE l # 0 /\ hudOps'[1] = "show"
            <4>1. 1 < n /\ hudOps[1 + 1] = "show"
                BY <3>1, <3>2, <3>3, <3>5
            <4>2. 1 \in 1..l /\ l # 0
                BY <3>1, <4>1
            <4> QED
                BY <3>1, <4>1, <4>2
        <3>6. hudShown /\ hudImage => kind = "show"
            BY <3>1, <3>2
        <3> QED
            BY <3>4, <3>5, <3>6 DEF l
    <2>8. CASE RunShow
        BY <2>7, <2>8 DEF RunShow, MessageInv
    <2>9. CASE RunError
        BY <2>7, <2>9 DEF RunError, MessageInv
    <2>10. CASE RunDismiss
        BY <2>7, <2>10 DEF RunDismiss, MessageInv, message
    <2>11. CASE FadeOut \/ FadedIn \/ UNCHANGED vars
        BY <2>11 DEF FadeOut, FadedIn, MessageInv, vars, hud, message
    <2> QED
        BY <2>2, <2>3, <2>4, <2>5, <2>6, <2>8, <2>9, <2>10, <2>11 DEF Next
<1>3. TypeOK /\ MessageInv => MessageIsReplaced
    <2> SUFFICES ASSUME TypeOK, MessageInv, hudShown, hudImage
                 PROVE  hudOps # <<>> /\ Head(hudOps) = "show"
        BY DEF MessageIsReplaced
    <2>1. hudOps \in Seq(HudOp) /\ hudOps # <<>>
        BY EmptySeq DEF TypeOK, MessageInv
    <2> QED
        BY <2>1, TailShape DEF MessageInv
<1> QED
    BY <1>1, <1>2, <1>3, TypeCorrect, PTL DEF Spec

-----------------------------------------------------------------------------
(***************************************************************************)
(* Why the first wait is shown: as long as nothing was answered and every  *)
(* form was filled in, the queue holds shows only, nothing fades and no    *)
(* timer runs.                                                             *)
(***************************************************************************)
FirstWaitInv ==
    inFlight = asked /\ unfilled = {} =>
        /\ fades = 0 /\ fadeIns = 0 /\ ~timer
        /\ \A i \in 1..Len(hudOps) : hudOps[i] = "show"
        /\ asked # {} => hudShown \/ Len(hudOps) # 0

\* Before the first reply the spinner is up or about to be, if every form was
\* filled in: then no timer of a message can dismiss it.
THEOREM FirstWaitTheorem == Spec => []FirstWaitIsShown
<1>1. Init => FirstWaitInv
    BY LenProperties DEF Init, FirstWaitInv
<1>2. TypeOK /\ FirstWaitInv /\ [Next]_vars => FirstWaitInv'
    <2> SUFFICES ASSUME TypeOK, FirstWaitInv, [Next]_vars,
                        inFlight' = asked', unfilled' = {}
                 PROVE  FirstWaitInv'
        BY DEF FirstWaitInv
    <2>0. Len(hudOps) \in Nat
        BY LenProperties DEF TypeOK
    <2>1. ASSUME NEW q \in Request, Subscribe(q) PROVE FirstWaitInv'
        <3>1. inFlight = asked /\ unfilled = {}
            <4>1. /\ q \notin asked /\ inFlight \subseteq asked
                  /\ asked \cup {q} = inFlight \cup {q}
                BY <2>1 DEF Subscribe, Ask, TypeOK
            <4>2. unfilled = {}
                BY <2>1 DEF Subscribe
            <4> QED
                BY <4>1, <4>2
        <3>2. fades' = 0 /\ fadeIns' = 0 /\ ~timer'
            BY <2>1, <3>1 DEF Subscribe, Ask, FirstWaitInv, hud, message
        <3>3. /\ Len(hudOps') = Len(hudOps) + 1
              /\ \A i \in 1..Len(hudOps) : hudOps'[i] = hudOps[i]
              /\ hudOps'[Len(hudOps) + 1] = "show"
            BY <2>1, QueueSteps, AddedShape
        <3>4. \A i \in 1..Len(hudOps') : hudOps'[i] = "show"
            BY <2>0, <3>1, <3>3 DEF FirstWaitInv
        <3> QED
            BY <2>0, <3>2, <3>3, <3>4 DEF FirstWaitInv
    <2>2. ASSUME NEW q \in Request PROVE ~SubscribeUnfilled(q)
        BY DEF SubscribeUnfilled
    <2>3. ASSUME NEW q \in Request, NEW r \in Response PROVE ~Complete(q, r)
        BY DEF Complete, TypeOK
    <2>4. ASSUME NEW q \in Request, Dispose(q) PROVE FirstWaitInv'
        BY <2>4 DEF Dispose, FirstWaitInv, hud, message
    <2>5. ASSUME HudStep PROVE inFlight = asked /\ unfilled = {}
        BY <2>5, HudStepsKeepRequests DEF requests
    <2>6. ASSUME NEW kind, Run(kind), HudStep
          PROVE  /\ \A i \in 1..Len(hudOps') : hudOps'[i] = "show"
                 /\ kind = "show"
        BY <2>5, <2>6, RunShape DEF FirstWaitInv
    <2>7. CASE RunShow
        BY <2>5, <2>6, <2>7 DEF RunShow, FirstWaitInv, HudStep
    <2>8. CASE RunError \/ RunDismiss
        <3>1. PICK kind \in {"error", "dismiss"} : Run(kind)
            BY <2>8 DEF RunError, RunDismiss
        <3>2. HudStep
            BY <2>8 DEF HudStep
        <3> QED
            BY <2>6, <3>1, <3>2
    <2>9. CASE FadeOut \/ FadedIn \/ TimerFires
        <3>1. fades = 0 /\ fadeIns = 0 /\ ~timer
            BY <2>5, <2>9 DEF FirstWaitInv, HudStep
        <3>2. ~FadeOut /\ ~FadedIn
            BY <3>1 DEF FadeOut, FadedIn
        <3>3. ~TimerFires
            BY <3>1 DEF TimerFires
        <3> QED
            BY <2>9, <3>2, <3>3
    <2>10. CASE UNCHANGED vars
        BY <2>10 DEF vars, requests, hud, message, FirstWaitInv
    <2> QED
        BY <2>1, <2>2, <2>3, <2>4, <2>7, <2>8, <2>9, <2>10 DEF Next
<1>3. TypeOK /\ FirstWaitInv => FirstWaitIsShown
    <2> SUFFICES ASSUME TypeOK, FirstWaitInv,
                        asked # {}, inFlight = asked, unfilled = {}, ~hudShown
                 PROVE  \E i \in DOMAIN hudOps : hudOps[i] = "show"
        BY DEF FirstWaitIsShown
    <2>1. Len(hudOps) \in Nat /\ DOMAIN hudOps = 1..Len(hudOps)
        BY LenProperties DEF TypeOK
    <2>2. Len(hudOps) # 0 /\ \A i \in 1..Len(hudOps) : hudOps[i] = "show"
        BY DEF FirstWaitInv
    <2> QED
        BY <2>1, <2>2
<1> QED
    BY <1>1, <1>2, <1>3, TypeCorrect, PTL DEF Spec

-----------------------------------------------------------------------------
(***************************************************************************)
(* How the HUD goes away, stage by stage: an exchange ends and has its     *)
(* dismissal enqueued, a dismissal moves up the operation queue one place  *)
(* after another, at its head it dispatches a fade-out, and that hides the *)
(* HUD.                                                                    *)
(***************************************************************************)
DismissAt(n)    == n \in 1..Len(hudOps) /\ hudOps[n] = "dismiss"
DismissalWaits  == \E i \in DOMAIN hudOps : hudOps[i] = "dismiss"

EveryExchangeDismisses == \A q \in Request : q \in inFlight ~> DismissalWaits
DismissalsMoveUp       == \A n \in Nat \ {0} : DismissAt(n + 1) ~> DismissAt(n)
DismissalsFade         == DismissAt(1) ~> fades > 0
FadesHide              == fades > 0 ~> ~hudShown

(***************************************************************************)
(* The conditions under which the fair steps can be taken, as hypotheses:  *)
(* the guards say so, but ENABLED cannot be expanded in a proof.           *)
(***************************************************************************)
MainQueueCanRun ==
    /\ hudOps # <<>> => ENABLED <<RunShow \/ RunError \/ RunDismiss>>_vars
    /\ fades > 0 => ENABLED <<FadeOut>>_vars

ExchangesCanEnd ==
    \A q \in Request : q \in inFlight => ENABLED <<Answer(q)>>_vars

\* Every step adds to the queue, takes its head away, or leaves it alone.
LEMMA QueueMoves ==
    ASSUME [Next]_vars, TypeOK
    PROVE  \/ hudOps' = hudOps
           \/ \E more \in {<<"show">>, <<"error", "show">>,
                           <<"dismiss">>, <<"dismiss", "dismiss">>} : Added(more)
           \/ RunShow \/ RunError \/ RunDismiss
<1>1. ASSUME NEW q \in Request, Subscribe(q) \/ SubscribeUnfilled(q)
      PROVE  Added(<<"show">>) \/ Added(<<"error", "show">>)
    BY <1>1, QueueSteps
<1>2. ASSUME NEW q \in Request, NEW r \in Response, Complete(q, r)
      PROVE  Added(<<"dismiss">>) \/ Added(<<"dismiss", "dismiss">>)
    BY <1>2, QueueSteps, DismissShape
<1>3. CASE TimerFires
    BY <1>3, QueueSteps
<1>4. ASSUME NEW q \in Request, Dispose(q) PROVE hudOps' = hudOps
    BY <1>4 DEF Dispose
<1>5. ASSUME FadeOut \/ FadedIn \/ UNCHANGED vars PROVE hudOps' = hudOps
    BY <1>5 DEF FadeOut, FadedIn, vars
<1> QED
    BY <1>1, <1>2, <1>3, <1>4, <1>5 DEF Next

\* A dismissal keeps its place while blocks are added, and moves up one place
\* when a block runs; at the head, the block that runs is the dismissal.
LEMMA DismissalMoves ==
    ASSUME TypeOK, [Next]_vars, NEW n \in Nat \ {0}
    PROVE  /\ DismissAt(n + 1) => DismissAt(n + 1)' \/ DismissAt(n)'
           /\ DismissAt(n + 1) /\ (RunShow \/ RunError \/ RunDismiss) => DismissAt(n)'
           /\ DismissAt(1) => DismissAt(1)' \/ RunDismiss
           /\ DismissAt(1) => ~RunShow /\ ~RunError
<1>0. Len(hudOps) \in Nat
    BY LenProperties DEF TypeOK
<1>1. ASSUME NEW more \in {<<"show">>, <<"error", "show">>,
                           <<"dismiss">>, <<"dismiss", "dismiss">>},
             Added(more), NEW k \in Nat, DismissAt(k)
      PROVE  DismissAt(k)'
    BY <1>0, <1>1, AddedShape DEF DismissAt
<1>2. ASSUME NEW kind, Run(kind), NEW k \in Nat \ {0}, DismissAt(k + 1)
      PROVE  DismissAt(k)'
    BY <1>2, RunShape DEF DismissAt
<1>3. ASSUME NEW kind, Run(kind), DismissAt(1) PROVE kind = "dismiss"
    BY <1>3, RunShape DEF DismissAt
<1>4. ASSUME RunShow \/ RunError \/ RunDismiss, DismissAt(n + 1) PROVE DismissAt(n)'
    BY <1>2, <1>4 DEF RunShow, RunError, RunDismiss
<1>5. DismissAt(1) => ~RunShow /\ ~RunError
    BY <1>3 DEF RunShow, RunError
<1>6. ASSUME hudOps' = hudOps, NEW k \in Nat, DismissAt(k) PROVE DismissAt(k)'
    BY <1>6 DEF DismissAt
<1>7. n + 1 \in Nat /\ 1 \in Nat
    OBVIOUS
<1>8. DismissAt(n + 1) => DismissAt(n + 1)' \/ DismissAt(n)'
    BY <1>1, <1>4, <1>6, <1>7, QueueMoves
<1>9. DismissAt(1) => DismissAt(1)' \/ RunDismiss
    BY <1>1, <1>5, <1>6, <1>7, QueueMoves
<1> QED
    BY <1>4, <1>5, <1>8, <1>9

\* An exchange goes on until it ends, and then a dismissal waits.
LEMMA ExchangeEnds ==
    ASSUME TypeOK, [Next]_vars, NEW q \in Request, q \in inFlight
    PROVE  /\ q \in inFlight' \/ Answer(q)
           /\ Answer(q) => DismissalWaits'
<1>1. ASSUME NEW r \in Response, Complete(q, r) PROVE DismissalWaits'
    <2>1. ASSUME NEW more \in {<<"dismiss">>, <<"dismiss", "dismiss">>}, Added(more)
          PROVE  DismissalWaits'
        <3>1. /\ Len(hudOps) \in Nat /\ Len(more) \in 1..2
              /\ hudOps' \in Seq(HudOp)
              /\ Len(hudOps') = Len(hudOps) + Len(more)
              /\ \A i \in 1..Len(more) : hudOps'[Len(hudOps) + i] = more[i]
            BY <2>1, AddedShape
        <3>2. more[1] = "dismiss"
            OBVIOUS
        <3>3. DOMAIN hudOps' = 1..Len(hudOps')
            BY <3>1, LenProperties
        <3> DEFINE n == Len(hudOps)  k == Len(more)  l == Len(hudOps')
        <3>4. n + 1 \in 1..l /\ 1 \in 1..k
            <4>1. n \in Nat /\ k \in 1..2 /\ l = n + k
                BY <3>1
            <4> HIDE DEF n, k, l
            <4> QED
                BY <4>1
        <3>5. hudOps'[n + 1] = "dismiss" /\ n + 1 \in DOMAIN hudOps'
            BY <3>1, <3>2, <3>3, <3>4
        <3> QED
            BY <3>5 DEF DismissalWaits
    <2> QED
        BY <1>1, <2>1, QueueSteps, DismissShape
<1>2. ASSUME NEW p \in Request, Subscribe(p) \/ SubscribeUnfilled(p) PROVE q \in inFlight'
    BY <1>2 DEF Subscribe, SubscribeUnfilled, Ask
<1>3. ASSUME NEW p \in Request, NEW r \in Response, Complete(p, r), p # q
      PROVE  q \in inFlight'
    BY <1>3 DEF Complete
<1>4. ASSUME NEW p \in Request, Dispose(p) PROVE q \in inFlight'
    BY <1>4 DEF Dispose
<1>5. HudStep => q \in inFlight'
    BY HudStepsKeepRequests DEF requests
<1>6. UNCHANGED vars => q \in inFlight'
    BY DEF vars, requests
<1>7. q \in inFlight' \/ Answer(q)
    BY <1>2, <1>3, <1>4, <1>5, <1>6 DEF Next, HudStep, Answer
<1> QED
    BY <1>1, <1>7 DEF Answer

(***************************************************************************)
(* Every exchange ends in a dismissal that waits its turn: no way to be    *)
(* answered and no disposal in between leaves it out.                      *)
(***************************************************************************)
THEOREM ExchangeTheorem == Spec /\ []ExchangesCanEnd => EveryExchangeDismisses
<1>1. ASSUME NEW q \in Request
      PROVE  SafetySpec /\ FairExchange(q) /\ []ExchangesCanEnd
                => (q \in inFlight ~> DismissalWaits)
    <2> DEFINE Flies == q \in inFlight
    <2>1. TypeOK /\ [Next]_vars => (Flies => Flies' \/ DismissalWaits')
        BY ExchangeEnds
    <2>2. TypeOK /\ <<Answer(q)>>_vars => (Flies => DismissalWaits')
        BY ExchangeEnds DEF Next, Answer
    <2>3. ExchangesCanEnd => (Flies => ENABLED <<Answer(q)>>_vars)
        BY DEF ExchangesCanEnd
    <2> HIDE DEF Flies
    <2>4. SafetySpec /\ FairExchange(q) /\ []ExchangesCanEnd => (Flies ~> DismissalWaits)
        BY <2>1, <2>2, <2>3, TypeInvariant, PTL DEF SafetySpec, FairExchange
    <2> QED
        BY <2>4 DEF Flies
<1>2. Spec => SafetySpec /\ \A q \in Request : FairExchange(q)
    BY PTL DEF Spec, SafetySpec, Fairness
<1> QED
    BY <1>1, <1>2 DEF EveryExchangeDismisses

(***************************************************************************)
(* The other three stages, for a queue of any length.  What is missing to  *)
(* HudGoesAway is the induction on the place of a dismissal in the queue,  *)
(* which the runs do for the queues they reach.                            *)
(***************************************************************************)
THEOREM StagesTheorem ==
    Spec /\ []MainQueueCanRun => DismissalsMoveUp /\ DismissalsFade /\ FadesHide
<1> DEFINE MainQueue == WF_vars(RunShow \/ RunError \/ RunDismiss)
<1>1. MainQueueCanRun =>
        \A n \in Nat : DismissAt(n) => ENABLED <<RunShow \/ RunError \/ RunDismiss>>_vars
    <2>1. ASSUME NEW n \in Nat, DismissAt(n) PROVE hudOps # <<>>
        BY <2>1, EmptySeq DEF DismissAt
    <2> QED
        BY <2>1 DEF MainQueueCanRun
<1>2. ASSUME NEW n \in Nat \ {0}
      PROVE  SafetySpec /\ MainQueue /\ []MainQueueCanRun => (DismissAt(n + 1) ~> DismissAt(n))
    <2>1. TypeOK /\ [Next]_vars => (DismissAt(n + 1) => DismissAt(n + 1)' \/ DismissAt(n)')
        BY DismissalMoves
    <2>2. TypeOK /\ <<RunShow \/ RunError \/ RunDismiss>>_vars
            => (DismissAt(n + 1) => DismissAt(n)')
        BY DismissalMoves DEF Next
    <2>3. MainQueueCanRun =>
            (DismissAt(n + 1) => ENABLED <<RunShow \/ RunError \/ RunDismiss>>_vars)
        BY <1>1
    <2> QED
        BY <2>1, <2>2, <2>3, TypeInvariant, PTL DEF SafetySpec
<1>3. Spec /\ []MainQueueCanRun => FadesHide
    <2> DEFINE Fading == fades > 0
    <2>1. TypeOK /\ [Next]_vars => (Fading => Fading' \/ ~hudShown')
        BY DEF Next, vars, requests, hud, message, Subscribe, SubscribeUnfilled, Ask, Dispose,
            Complete, RunShow, RunError, RunDismiss, FadeOut, FadedIn, TimerFires, TypeOK
    <2>2. <<FadeOut>>_vars => ~hudShown'
        BY DEF FadeOut
    <2>3. MainQueueCanRun => (Fading => ENABLED <<FadeOut>>_vars)
        BY DEF MainQueueCanRun
    <2>4. FadesHide <=> (Fading ~> ~hudShown)
        BY DEF FadesHide
    <2> HIDE DEF Fading
    <2> QED
        BY <2>1, <2>2, <2>3, <2>4, TypeCorrect, PTL DEF Spec, Fairness
<1>4. Spec /\ []MainQueueCanRun => DismissalsFade
    <2> DEFINE Fading == fades > 0
    <2>1. TypeOK /\ [Next]_vars => (DismissAt(1) => DismissAt(1)' \/ Fading')
        <3>1. TypeOK /\ RunDismiss => Fading'
            BY DEF RunDismiss, TypeOK
        <3> QED
            BY <3>1, DismissalMoves
    <2>2. TypeOK /\ <<RunShow \/ RunError \/ RunDismiss>>_vars => (DismissAt(1) => Fading')
        <3>1. TypeOK /\ RunDismiss => Fading'
            BY DEF RunDismiss, TypeOK
        <3> QED
            BY <3>1, DismissalMoves DEF Next
    <2>3. MainQueueCanRun =>
            (DismissAt(1) => ENABLED <<RunShow \/ RunError \/ RunDismiss>>_vars)
        BY <1>1
    <2>4. DismissalsFade <=> (DismissAt(1) ~> Fading)
        BY DEF DismissalsFade
    <2> HIDE DEF Fading
    <2> QED
        BY <2>1, <2>2, <2>3, <2>4, TypeCorrect, PTL DEF Spec, Fairness
<1>5. Spec => SafetySpec /\ MainQueue
    BY PTL DEF Spec, SafetySpec, Fairness
<1> HIDE DEF MainQueue
<1>6. Spec /\ []MainQueueCanRun => DismissalsMoveUp
    BY <1>2, <1>5 DEF DismissalsMoveUp
<1> QED
    BY <1>3, <1>4, <1>6
=============================================================================
