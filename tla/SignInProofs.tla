---------------------------- MODULE SignInProofs ----------------------------
(***************************************************************************)
(* Proofs about SignIn: its types; that a stored session is always one of  *)
(* a user the server knows; that a user who waits for an attempt to end    *)
(* before tapping again never meets the forced cast that fails; which      *)
(* steps part session, account and screen; that it all implements Session; *)
(* and that every attempt ends.                                            *)
(*                                                                         *)
(* What is safety is proved of the steps alone, without the fairness of    *)
(* Spec, so that AppProofs can use it of the app.                          *)
(***************************************************************************)
EXTENDS SignIn, TLAPS

StageSet == Awaited \cup {"idle", "over"}

\* The steps of Spec, none of which need ever be taken.
SafetySpec == Init /\ [][Next]_vars

\* What every handler of an attempt does to the stages.
LEMMA ProceedShape ==
    ASSUME TypeOK, NEW c \in Attempt,
           NEW from \in StageSet, NEW to \in StageSet, Proceed(c, from, to)
    PROVE  /\ stage' \in [Attempt -> StageSet]
           /\ stage[c] = from /\ stage'[c] = to
           /\ \A d \in Attempt \ {c} : stage'[d] = stage[d]
           /\ ~trap
BY DEF TypeOK, Proceed, StageSet

\* The controllers are typed after a configuration, and none is left over.
LEMMA ConfigureType ==
    ASSUME NEW session, Configure(session)
    PROVE  root' \in {"signIn", "main"} /\ ours' = {}
BY DEF Configure

\* What the last reply does to the window and the trap.
LEMMA AccountReplyShape ==
    ASSUME TypeOK, NEW c \in Attempt, NEW hasId \in BOOLEAN, AccountReply(c, hasId)
    PROVE  /\ root' \in {"signIn", "main"} /\ trap' \in BOOLEAN
           /\ ours' = {} \/ (ours' = ours /\ root' = root)
<1>1. CASE c \in ours
    <2>1. Configure(sessionId) /\ trap' = trap
        BY <1>1 DEF AccountReply
    <2>2. trap' \in BOOLEAN
        BY <2>1 DEF TypeOK
    <2> QED
        BY <2>1, <2>2, ConfigureType
<1>2. CASE c \notin ours
    <2>1. trap' = TRUE /\ ours' = ours /\ root' = root
        BY <1>2 DEF AccountReply, window
    <2>2. trap' \in BOOLEAN
        BY <2>1
    <2> QED
        BY <2>1, <2>2 DEF TypeOK
<1> QED
    BY <1>1, <1>2

\* The first state is typed ...
LEMMA TypeInit == Init => TypeOK
<1> SUFFICES ASSUME Init PROVE TypeOK
    OBVIOUS
<1>1. trap \in BOOLEAN /\ overlapped \in BOOLEAN
    BY DEF Init
<1> QED
    BY <1>1 DEF Init, TypeOK

\* ... and so is every one after it.
LEMMA TypeStep == TypeOK /\ [Next]_vars => TypeOK'
<1> SUFFICES ASSUME TypeOK, [Next]_vars PROVE TypeOK'
    OBVIOUS
<1>1. ASSUME NEW c \in Attempt, NEW u \in Account \cup {Refused}, Tap(c, u)
      PROVE  TypeOK'
    <2>1. /\ stage' \in [Attempt -> StageSet] /\ stage'[c] = "token"
          /\ \A d \in Attempt \ {c} : stage'[d] = stage[d]
        BY <1>1, ProceedShape DEF Tap, StageSet, Awaited
    <2>2. user' \in [Attempt -> Account \cup {Refused}]
        BY <1>1 DEF Tap, TypeOK
    <2>3. ours' \subseteq {d \in Attempt : stage'[d] # "idle"}
        BY <1>1, <2>1 DEF Tap, TypeOK
    <2>4. root' = "signIn" /\ UNCHANGED defaults /\ UNCHANGED trap
        BY <1>1 DEF Tap
    <2>5. overlapped' \in BOOLEAN
        BY <1>1 DEF Tap
    <2> QED
        BY <2>1, <2>2, <2>3, <2>4, <2>5 DEF TypeOK, StageSet, defaults
<1>2. ASSUME NEW c \in Attempt, NEW has \in BOOLEAN, TokenReply(c, has)
      PROVE  TypeOK'
    <2>1. /\ stage' \in [Attempt -> StageSet] /\ stage'[c] = "login"
          /\ \A d \in Attempt \ {c} : stage'[d] = stage[d]
        BY <1>2, ProceedShape DEF TokenReply, StageSet, Awaited
    <2>2. user' \in [Attempt -> Account \cup {Refused}]
        BY <1>2 DEF TokenReply, TypeOK
    <2>3. UNCHANGED <<defaults, window, process>>
        BY <1>2 DEF TokenReply
    <2> QED
        BY <2>1, <2>2, <2>3 DEF TypeOK, StageSet, defaults, window, process
<1>3. ASSUME NEW c \in Attempt, LoginReply(c) PROVE TypeOK'
    <2>1. /\ stage' \in [Attempt -> StageSet] /\ stage'[c] = "session"
          /\ \A d \in Attempt \ {c} : stage'[d] = stage[d]
        BY <1>3, ProceedShape DEF LoginReply, StageSet, Awaited
    <2>2. UNCHANGED <<user, defaults, window, process>>
        BY <1>3 DEF LoginReply
    <2> QED
        BY <2>1, <2>2 DEF TypeOK, StageSet, defaults, window, process
<1>4. ASSUME NEW c \in Attempt, NEW has \in BOOLEAN, SessionReply(c, has)
      PROVE  TypeOK'
    <2>1. /\ stage' \in [Attempt -> StageSet] /\ stage'[c] = "account"
          /\ \A d \in Attempt \ {c} : stage'[d] = stage[d]
        BY <1>4, ProceedShape DEF SessionReply, StageSet, Awaited
    <2>2. /\ user' \in [Attempt -> Account \cup {Refused}]
          /\ sessionId' \in Attempt \cup {None}
        BY <1>4 DEF SessionReply, TypeOK
    <2>3. UNCHANGED <<accountId, window, process>>
        BY <1>4 DEF SessionReply
    <2> QED
        BY <2>1, <2>2, <2>3 DEF TypeOK, StageSet, window, process
<1>5. ASSUME NEW c \in Attempt, NEW has \in BOOLEAN, AccountReply(c, has)
      PROVE  TypeOK'
    <2>1. /\ stage' \in [Attempt -> StageSet] /\ stage'[c] = "over"
          /\ \A d \in Attempt \ {c} : stage'[d] = stage[d]
        BY <1>5, ProceedShape DEF AccountReply, StageSet, Awaited
    <2>2. accountId' \in Account \cup {None}
        BY <1>5 DEF AccountReply, TypeOK
    <2>3. /\ root' \in {"signIn", "main"} /\ trap' \in BOOLEAN
          /\ ours' = {} \/ (ours' = ours /\ root' = root)
        BY <1>5, AccountReplyShape
    <2>4. ours' \subseteq {d \in Attempt : stage'[d] # "idle"}
        BY <2>1, <2>3 DEF TypeOK
    <2>5. UNCHANGED <<user, sessionId, overlapped>>
        BY <1>5 DEF AccountReply
    <2> QED
        BY <2>1, <2>2, <2>3, <2>4, <2>5 DEF TypeOK, StageSet
<1>6. ASSUME NEW c \in Attempt, Failure(c) PROVE TypeOK'
    <2>1. /\ stage' \in [Attempt -> StageSet] /\ stage'[c] = "over"
          /\ \A d \in Attempt \ {c} : stage'[d] = stage[d]
        BY <1>6 DEF Failure, TypeOK, StageSet
    <2>2. UNCHANGED <<user, defaults, window, process>>
        BY <1>6 DEF Failure
    <2> QED
        BY <2>1, <2>2 DEF TypeOK, StageSet, defaults, window, process
<1>7. CASE Logout
    <2>1. Configure(sessionId') /\ UNCHANGED <<stage, user, accountId, process>>
        BY <1>7 DEF Logout
    <2>2. sessionId' = None
        BY <1>7 DEF Logout
    <2> QED
        BY <2>1, <2>2, ConfigureType DEF TypeOK, process
<1>8. CASE Relaunch
    <2>1. stage' \in [Attempt -> StageSet]
        BY <1>8 DEF Relaunch, StageSet
    <2>2. Configure(sessionId) /\ UNCHANGED <<user, defaults>>
        BY <1>8 DEF Relaunch
    <2>3. trap' \in BOOLEAN /\ overlapped' \in BOOLEAN
        BY <1>8 DEF Relaunch
    <2> QED
        BY <2>1, <2>2, <2>3, ConfigureType DEF TypeOK, StageSet, defaults
<1>9. CASE UNCHANGED vars
    BY <1>9 DEF vars, TypeOK, defaults, window, process
<1> QED
    BY <1>1, <1>2, <1>3, <1>4, <1>5, <1>6, <1>7, <1>8, <1>9 DEF Next, Reply

\* Every state is typed.
LEMMA TypeInvariant == SafetySpec => []TypeOK
BY TypeInit, TypeStep, PTL DEF SafetySpec

(***************************************************************************)
(* Stages, users, stored values and windows keep their types, and the main *)
(* screen has no attempt of its own.                                       *)
(***************************************************************************)
THEOREM TypeCorrect == Spec => []TypeOK
BY TypeInvariant DEF Spec, SafetySpec

-----------------------------------------------------------------------------
\* SessionIsAccepted is inductive once it is known that an attempt asks for a
\* session only after the server has accepted its user.
AcceptedInv ==
    /\ SessionIsAccepted
    /\ \A c \in Attempt : stage[c] = "session" => user[c] # Refused

\* An attempt asks for a session, and has one stored, only as an accepted user.
LEMMA AcceptedInvariant == SafetySpec => []AcceptedInv
<1>1. Init => AcceptedInv
    BY DEF Init, AcceptedInv, SessionIsAccepted
<1>2. TypeOK /\ AcceptedInv /\ [Next]_vars => AcceptedInv'
    <2> SUFFICES ASSUME TypeOK, AcceptedInv, [Next]_vars PROVE AcceptedInv'
        OBVIOUS
    <2> USE SignInAssumption DEF AcceptedInv, SessionIsAccepted
    <2>1. ASSUME NEW c \in Attempt, NEW u \in Account \cup {Refused}, Tap(c, u)
          PROVE  AcceptedInv'
        <3>1. /\ stage[c] = "idle" /\ stage'[c] = "token"
              /\ \A d \in Attempt \ {c} : stage'[d] = stage[d]
            BY <2>1, ProceedShape DEF Tap, StageSet, Awaited
        <3>2. \A d \in Attempt : stage[d] \notin {"idle", "token"} => user'[d] = user[d]
            BY <2>1, <3>1 DEF Tap
        <3>3. sessionId' = sessionId
            BY <2>1 DEF Tap, defaults
        <3> QED
            BY <3>1, <3>2, <3>3 DEF TypeOK
    <2>2. ASSUME NEW c \in Attempt, NEW has \in BOOLEAN, TokenReply(c, has)
          PROVE  AcceptedInv'
        <3>1. /\ stage[c] = "token" /\ stage'[c] = "login"
              /\ \A d \in Attempt \ {c} : stage'[d] = stage[d]
            BY <2>2, ProceedShape DEF TokenReply, StageSet, Awaited
        <3>2. \A d \in Attempt \ {c} : user'[d] = user[d]
            BY <2>2 DEF TokenReply, TypeOK
        <3>3. sessionId' = sessionId
            BY <2>2 DEF TokenReply, defaults
        <3> QED
            BY <3>1, <3>2, <3>3 DEF TypeOK
    <2>3. ASSUME NEW c \in Attempt, LoginReply(c) PROVE AcceptedInv'
        <3>1. /\ stage[c] = "login" /\ stage'[c] = "session"
              /\ \A d \in Attempt \ {c} : stage'[d] = stage[d]
            BY <2>3, ProceedShape DEF LoginReply, StageSet, Awaited
        <3>2. user[c] # Refused /\ user' = user /\ sessionId' = sessionId
            BY <2>3 DEF LoginReply, defaults
        <3> QED
            BY <3>1, <3>2 DEF TypeOK
    <2>4. ASSUME NEW c \in Attempt, NEW has \in BOOLEAN, SessionReply(c, has)
          PROVE  AcceptedInv'
        <3>1. /\ stage[c] = "session" /\ stage'[c] = "account"
              /\ \A d \in Attempt \ {c} : stage'[d] = stage[d]
            BY <2>4, ProceedShape DEF SessionReply, StageSet, Awaited
        <3>2. \A d \in Attempt \ {c} : user'[d] = user[d]
            BY <2>4 DEF SessionReply, TypeOK
        <3>3. (sessionId' = c /\ user' = user) \/ sessionId' = None
            BY <2>4 DEF SessionReply
        <3> QED
            BY <3>1, <3>2, <3>3 DEF TypeOK
    <2>5. ASSUME NEW c \in Attempt, NEW has \in BOOLEAN, AccountReply(c, has)
          PROVE  AcceptedInv'
        <3>1. /\ stage'[c] = "over"
              /\ \A d \in Attempt \ {c} : stage'[d] = stage[d]
            BY <2>5, ProceedShape DEF AccountReply, StageSet, Awaited
        <3>2. user' = user /\ sessionId' = sessionId
            BY <2>5 DEF AccountReply
        <3> QED
            BY <3>1, <3>2 DEF TypeOK
    <2>6. ASSUME NEW c \in Attempt, Failure(c) PROVE AcceptedInv'
        BY <2>6 DEF Failure, TypeOK, defaults
    <2>7. CASE Logout
        BY <2>7 DEF Logout
    <2>8. CASE Relaunch
        BY <2>8 DEF Relaunch, defaults, TypeOK, Awaited
    <2>9. CASE UNCHANGED vars
        BY <2>9 DEF vars, defaults
    <2> QED
        BY <2>1, <2>2, <2>3, <2>4, <2>5, <2>6, <2>7, <2>8, <2>9 DEF Next, Reply
<1> QED
    BY <1>1, <1>2, TypeInvariant, PTL DEF SafetySpec

(***************************************************************************)
(* A stored session is that of an attempt whose user the server accepted,  *)
(* and no later tap changes whose session it is.                           *)
(***************************************************************************)
THEOREM SessionTheorem == Spec => []SessionIsAccepted
BY AcceptedInvariant, PTL DEF AcceptedInv, Spec, SafetySpec

-----------------------------------------------------------------------------
(***************************************************************************)
(* While no attempt has overlapped another, there is one attempt at most,  *)
(* of the screen the user sees; the main screen has a session; and an      *)
(* attempt that awaits an account has stored its session last.             *)
(***************************************************************************)
WaitingInv ==
    ~overlapped =>
        /\ ~trap
        /\ InFlight \subseteq ours
        /\ \A c, d \in InFlight : c = d
        /\ root = "main" => sessionId # None
        /\ \A c \in Attempt : stage[c] = "account" /\ user[c] # Refused => sessionId = c

\* A step of one attempt that is under way starts no other.
LEMMA OthersWait ==
    ASSUME NEW c \in Attempt, c \in InFlight,
           \A d \in Attempt \ {c} : stage'[d] = stage[d]
    PROVE  InFlight' \subseteq InFlight
BY DEF InFlight

\* Without overlaps there is one attempt at most, and it is the screen's.
LEMMA WaitingInvariant == SafetySpec => []WaitingInv
<1>1. Init => WaitingInv
    BY DEF Init, WaitingInv, InFlight, Awaited
<1>2. TypeOK /\ WaitingInv /\ [Next]_vars => WaitingInv'
    <2> SUFFICES ASSUME TypeOK, WaitingInv, [Next]_vars, ~overlapped' PROVE WaitingInv'
        BY DEF WaitingInv
    <2>1. ASSUME NEW c \in Attempt, NEW u \in Account \cup {Refused}, Tap(c, u)
          PROVE  WaitingInv'
        <3>1. /\ ~overlapped /\ InFlight = {}
              /\ ours' = ours \cup {c} /\ trap' = trap
              /\ root' = root /\ sessionId' = sessionId
            BY <2>1 DEF Tap, defaults
        <3>2. /\ stage'[c] = "token"
              /\ \A d \in Attempt \ {c} : stage'[d] = stage[d]
            BY <2>1, ProceedShape DEF Tap, StageSet, Awaited
        <3>3. InFlight' \subseteq {c}
            BY <3>1, <3>2 DEF InFlight
        <3>4. \A d \in Attempt : stage'[d] # "account"
            BY <3>2, <3>3 DEF InFlight, Awaited
        <3> QED
            BY <3>1, <3>3, <3>4 DEF WaitingInv
    <2>2. ASSUME NEW c \in Attempt, c \in InFlight, stage'[c] # "account",
                 UNCHANGED <<ours, root, trap, overlapped, sessionId>>,
                 \A d \in Attempt \ {c} : stage'[d] = stage[d]
          PROVE  WaitingInv'
        <3>1. InFlight' \subseteq InFlight
            BY <2>2, OthersWait
        <3>2. \A d \in Attempt : stage'[d] # "account"
            BY <2>2 DEF WaitingInv, InFlight, Awaited
        <3> QED
            BY <2>2, <3>1, <3>2 DEF WaitingInv
    <2>3. ASSUME NEW c \in Attempt, NEW has \in BOOLEAN, TokenReply(c, has)
          PROVE  WaitingInv'
        BY <2>2, <2>3, ProceedShape
           DEF TokenReply, StageSet, Awaited, InFlight, window, process, defaults
    <2>4. ASSUME NEW c \in Attempt, LoginReply(c) PROVE WaitingInv'
        BY <2>2, <2>4, ProceedShape
           DEF LoginReply, StageSet, Awaited, InFlight, window, process, defaults
    <2>5. ASSUME NEW c \in Attempt, NEW has \in BOOLEAN, SessionReply(c, has)
          PROVE  WaitingInv'
        <3>1. /\ stage[c] = "session" /\ stage'[c] = "account"
              /\ \A d \in Attempt \ {c} : stage'[d] = stage[d]
            BY <2>5, ProceedShape DEF SessionReply, StageSet, Awaited
        <3>2. UNCHANGED <<ours, root, trap, overlapped>>
            BY <2>5 DEF SessionReply, window, process
        <3>3. InFlight' \subseteq InFlight /\ c \in InFlight
            BY <3>1, OthersWait DEF InFlight, Awaited
        <3>4. root # "main"
            BY <3>2, <3>3 DEF WaitingInv, TypeOK
        <3>5. sessionId' = c \/ user'[c] = Refused
            BY <2>5 DEF SessionReply, TypeOK
        <3>6. \A d \in Attempt \ {c} : stage'[d] # "account"
            BY <3>1, <3>2, <3>3 DEF WaitingInv, InFlight, Awaited
        <3> QED
            BY <3>2, <3>3, <3>4, <3>5, <3>6 DEF WaitingInv
    <2>6. ASSUME NEW c \in Attempt, NEW has \in BOOLEAN, AccountReply(c, has)
          PROVE  WaitingInv'
        <3>1. /\ stage[c] = "account" /\ stage'[c] = "over"
              /\ \A d \in Attempt \ {c} : stage'[d] = stage[d]
            BY <2>6, ProceedShape DEF AccountReply, StageSet, Awaited
        <3>2. sessionId' = sessionId /\ overlapped' = overlapped
            BY <2>6 DEF AccountReply
        <3>3. InFlight = {c} /\ c \in ours
            BY <3>1, <3>2 DEF WaitingInv, InFlight, Awaited
        <3>4. InFlight' = {}
            BY <3>1, <3>3 DEF InFlight, Awaited
        <3>5. trap' = trap /\ (root' = "main" => sessionId # None)
            BY <2>6, <3>3 DEF AccountReply, Configure
        <3>6. \A d \in Attempt : stage'[d] # "account"
            BY <3>4 DEF InFlight, Awaited
        <3> QED
            BY <3>2, <3>4, <3>5, <3>6 DEF WaitingInv
    <2>7. ASSUME NEW c \in Attempt, Failure(c) PROVE WaitingInv'
        BY <2>2, <2>7 DEF Failure, InFlight, TypeOK, window, process, defaults
    <2>8. CASE Logout
        <3>1. /\ root = "main" /\ root' = "signIn"
              /\ UNCHANGED <<stage, trap, overlapped>>
            BY <2>8 DEF Logout, Configure, process
        <3>2. InFlight = {} /\ InFlight' = {}
            BY <3>1 DEF TypeOK, WaitingInv, InFlight
        <3>3. \A d \in Attempt : stage'[d] # "account"
            BY <3>2 DEF InFlight, Awaited
        <3> QED
            BY <3>1, <3>2, <3>3 DEF WaitingInv
    <2>9. CASE Relaunch
        <3>1. InFlight' = {} /\ ~trap' /\ sessionId' = sessionId
            BY <2>9 DEF Relaunch, InFlight, Awaited, defaults
        <3>2. root' = "main" => sessionId # None
            BY <2>9 DEF Relaunch, Configure
        <3>3. \A d \in Attempt : stage'[d] # "account"
            BY <3>1 DEF InFlight, Awaited
        <3> QED
            BY <3>1, <3>2, <3>3 DEF WaitingInv
    <2>10. CASE UNCHANGED vars
        BY <2>10 DEF vars, window, process, defaults, WaitingInv, InFlight
    <2> QED
        BY <2>1, <2>3, <2>4, <2>5, <2>6, <2>7, <2>8, <2>9, <2>10 DEF Next, Reply
<1> QED
    BY <1>1, <1>2, TypeInvariant, PTL DEF SafetySpec

\* Without overlaps the cast succeeds and the main screen is left alone.
LEMMA WaitingSafety == SafetySpec => []WaitingIsSafe
<1>1. TypeOK /\ WaitingInv => WaitingIsSafe
    BY DEF TypeOK, WaitingInv, WaitingIsSafe, CastSucceeds
<1> QED
    BY <1>1, TypeInvariant, WaitingInvariant, PTL

(***************************************************************************)
(* Where attempts do not overlap, the forced cast at the end of an attempt *)
(* finds its window, and the main screen has a session and is left alone.  *)
(***************************************************************************)
THEOREM WaitingTheorem == Spec => []WaitingIsSafe
BY WaitingSafety DEF Spec, SafetySpec

-----------------------------------------------------------------------------
(* What the handlers may do to the session, its account and the screen.    *)

\* The user of the stored session is not changed by a tap or a refusal.
LEMMA SessionUserKept ==
    ASSUME TypeOK, AcceptedInv, NEW c \in Attempt,
           \/ \E u \in Account \cup {Refused} : Tap(c, u)
           \/ \E has \in BOOLEAN : TokenReply(c, has)
    PROVE  SessionUser' = SessionUser /\ sessionId' = sessionId
<1>1. ASSUME NEW u \in Account \cup {Refused}, Tap(c, u)
      PROVE  SessionUser' = SessionUser /\ sessionId' = sessionId
    <2>1. stage[c] = "idle" /\ sessionId' = sessionId
        BY <1>1 DEF Tap, Proceed, defaults
    <2>2. \A d \in Attempt : stage[d] \in {"account", "over"} => user'[d] = user[d]
        BY <1>1, <2>1 DEF Tap
    <2> QED
        BY <2>1, <2>2 DEF SessionUser, AcceptedInv, SessionIsAccepted, TypeOK
<1>2. ASSUME NEW has \in BOOLEAN, TokenReply(c, has)
      PROVE  SessionUser' = SessionUser /\ sessionId' = sessionId
    <2>1. stage[c] = "token" /\ sessionId' = sessionId
        BY <1>2 DEF TokenReply, Proceed, defaults
    <2>2. \A d \in Attempt \ {c} : user'[d] = user[d]
        BY <1>2 DEF TokenReply, TypeOK
    <2>3. sessionId # None => sessionId \in Attempt \ {c}
        BY <2>1 DEF AcceptedInv, SessionIsAccepted, TypeOK
    <2> QED
        BY <2>1, <2>2, <2>3 DEF SessionUser
<1> QED
    BY <1>1, <1>2

\* The main screen is entered with a session, and a launch shows what is kept.
LEMMA ConfigureRoot ==
    ASSUME NEW session, Configure(session)
    PROVE  (root' = "main" <=> session # None) /\ (root' = "signIn" <=> session = None)
BY DEF Configure

\* Case by case: what takes the session from the main screen.
LEMMA LateReplySafety == SafetySpec => OnlyLateRepliesTakeSession
<1> DEFINE Excused == MainHasSession /\ ~MainHasSession' =>
                        \E c \in Attempt \ ours : SessionReply(c, FALSE)
<1>1. TypeOK /\ [Next]_vars => Excused
    <2> SUFFICES ASSUME TypeOK, [Next]_vars, MainHasSession, ~MainHasSession'
                 PROVE  \E c \in Attempt \ ours : SessionReply(c, FALSE)
        OBVIOUS
    <2>1. root' = "main" /\ sessionId' = None /\ (root = "main" => sessionId # None)
        BY DEF MainHasSession
    <2>2. ~UNCHANGED <<root, sessionId>>
        BY <2>1
    <2>3. ASSUME NEW c \in Attempt, NEW has \in BOOLEAN, SessionReply(c, has)
          PROVE  \E d \in Attempt \ ours : SessionReply(d, FALSE)
        <3>1. root = "main" /\ ours = {}
            BY <2>1, <2>3 DEF SessionReply, window, TypeOK
        <3>2. has = FALSE
            BY <2>1, <2>3, SignInAssumption DEF SessionReply
        <3> QED
            BY <2>3, <3>1, <3>2
    <2>4. ASSUME NEW c \in Attempt, NEW has \in BOOLEAN, AccountReply(c, has) PROVE FALSE
        <3>1. sessionId' = sessionId
            BY <2>4 DEF AccountReply
        <3>2. Configure(sessionId) \/ root' = root
            BY <2>4 DEF AccountReply, window
        <3> QED
            BY <2>1, <3>1, <3>2, ConfigureRoot
    <2>5. ~Logout /\ ~Relaunch
        BY <2>1, ConfigureRoot DEF Logout, Relaunch, defaults
    <2>6. ASSUME NEW c \in Attempt, NEW has \in BOOLEAN, NEW u \in Account \cup {Refused}
          PROVE  ~Tap(c, u) /\ ~TokenReply(c, has) /\ ~LoginReply(c) /\ ~Failure(c)
        BY <2>2 DEF Tap, TokenReply, LoginReply, Failure, defaults, window
    <2>7. ~UNCHANGED vars
        BY <2>2 DEF vars, defaults, window
    <2> QED
        BY <2>3, <2>4, <2>5, <2>6, <2>7 DEF Next, Reply
<1> QED
    BY <1>1, TypeInvariant, PTL DEF SafetySpec, OnlyLateRepliesTakeSession

(***************************************************************************)
(* Only the late reply of an attempt of a former screen takes the session  *)
(* away from the main screen.                                              *)
(***************************************************************************)
THEOREM LateReplyTheorem == Spec => OnlyLateRepliesTakeSession
BY LateReplySafety DEF Spec, SafetySpec

\* Case by case: what stores a session where there is none.
LEMMA LogoutSafety == SafetySpec => OnlyVisibleAttemptsSignIn
<1> DEFINE Excused == ~overlapped /\ sessionId = None /\ sessionId' # None => sessionId' \in ours
<1>1. TypeOK /\ WaitingInv /\ [Next]_vars => Excused
    <2> SUFFICES ASSUME TypeOK, WaitingInv, [Next]_vars,
                        ~overlapped, sessionId = None, sessionId' # None
                 PROVE  sessionId' \in ours
        OBVIOUS
    <2>1. ASSUME NEW c \in Attempt, NEW has \in BOOLEAN, SessionReply(c, has)
          PROVE  sessionId' \in ours
        <3>1. sessionId' = c /\ stage[c] = "session"
            BY <2>1 DEF SessionReply, Proceed
        <3> QED
            BY <3>1 DEF WaitingInv, InFlight, Awaited
    <2>2. ASSUME NEW c \in Attempt, NEW has \in BOOLEAN, NEW u \in Account \cup {Refused}
          PROVE  ~Tap(c, u) /\ ~TokenReply(c, has) /\ ~LoginReply(c) /\ ~Failure(c)
                 /\ ~AccountReply(c, has)
        BY DEF Tap, TokenReply, LoginReply, Failure, AccountReply, defaults
    <2>3. ~Logout /\ ~Relaunch /\ ~UNCHANGED vars
        BY DEF Logout, Relaunch, defaults, vars
    <2> QED
        BY <2>1, <2>2, <2>3 DEF Next, Reply
<1> QED
    BY <1>1, TypeInvariant, WaitingInvariant, PTL DEF SafetySpec, OnlyVisibleAttemptsSignIn

(***************************************************************************)
(* A logout lasts while attempts do not overlap.                           *)
(***************************************************************************)
THEOREM LogoutTheorem == Spec => OnlyVisibleAttemptsSignIn
BY LogoutSafety DEF Spec, SafetySpec

\* Case by case: what parts the stored session from the stored account.
LEMMA FitSafety == SafetySpec => OnlyOverlapOrRelaunchMisfits
<1> DEFINE Misfit ==
        \/ Relaunch /\ root = "signIn"
        \/ overlapped /\ \E c \in Attempt : AccountReply(c, TRUE) /\ sessionId # c
        \/ overlapped /\ root = "main" /\ \E c \in Attempt : SessionReply(c, TRUE)
<1>1. TypeOK /\ AcceptedInv /\ WaitingInv /\ [Next]_vars => (MainFits /\ ~MainFits' => Misfit)
    <2> SUFFICES ASSUME TypeOK, AcceptedInv, WaitingInv, [Next]_vars, MainFits, ~MainFits'
                 PROVE  Misfit
        OBVIOUS
    <2>1. /\ root' = "main" /\ sessionId' # None
          /\ accountId' \notin {None, user'[sessionId']}
        BY DEF MainFits
    <2>2. ASSUME UNCHANGED <<accountId, root, sessionId>>, SessionUser' = SessionUser PROVE FALSE
        BY <2>1, <2>2 DEF MainFits, SessionUser
    <2>3. ASSUME NEW c \in Attempt, NEW u \in Account \cup {Refused}, Tap(c, u) PROVE FALSE
        BY <2>2, <2>3, SessionUserKept DEF Tap, defaults
    <2>4. ASSUME NEW c \in Attempt, NEW has \in BOOLEAN, TokenReply(c, has) PROVE FALSE
        BY <2>2, <2>4, SessionUserKept DEF TokenReply, defaults, window
    <2>5. ASSUME NEW c \in Attempt, LoginReply(c) \/ Failure(c) PROVE FALSE
        BY <2>2, <2>5 DEF LoginReply, Failure, defaults, window, SessionUser
    <2>6. ASSUME NEW c \in Attempt, NEW has \in BOOLEAN, SessionReply(c, has) PROVE Misfit
        <3>1. root = "main" /\ has = TRUE
            BY <2>1, <2>6 DEF SessionReply, window
        <3>2. c \in InFlight /\ ours = {}
            BY <2>6, <3>1 DEF SessionReply, Proceed, InFlight, Awaited, TypeOK
        <3>3. overlapped
            BY <3>2 DEF WaitingInv
        <3> QED
            BY <2>6, <3>1, <3>3
    <2>7. ASSUME NEW c \in Attempt, NEW has \in BOOLEAN, AccountReply(c, has) PROVE Misfit
        <3>1. sessionId' = sessionId /\ user' = user
            BY <2>7 DEF AccountReply
        <3>2. has = TRUE /\ accountId' = user[c]
            BY <2>1, <2>7 DEF AccountReply
        <3>3. sessionId # c
            BY <2>1, <3>1, <3>2
        <3>4. stage[c] = "account" /\ user[c] # Refused
            BY <2>7 DEF AccountReply, Proceed
        <3>5. overlapped
            BY <3>3, <3>4 DEF WaitingInv
        <3> QED
            BY <2>7, <3>2, <3>3, <3>5
    <2>8. ~Logout
        BY <2>1 DEF Logout
    <2>9. ~UNCHANGED vars
        BY <2>2 DEF vars, defaults, window, SessionUser
    <2>10. CASE Relaunch
        <3>1. root # "main"
            BY <2>1, <2>10 DEF Relaunch, defaults, MainFits
        <3> QED
            BY <2>10, <3>1 DEF TypeOK
    <2> QED
        BY <2>3, <2>4, <2>5, <2>6, <2>7, <2>8, <2>9, <2>10 DEF Next, Reply
<1> QED
    BY <1>1, TypeInvariant, AcceptedInvariant, WaitingInvariant, PTL
       DEF SafetySpec, OnlyOverlapOrRelaunchMisfits

(***************************************************************************)
(* Session and account part only by a launch after the process ended on    *)
(* the sign-in screen or, after an overlap, by a reply to another attempt  *)
(* than the session's or to one of a screen before.                        *)
(***************************************************************************)
THEOREM FitTheorem == Spec => OnlyOverlapOrRelaunchMisfits
BY FitSafety DEF Spec, SafetySpec

-----------------------------------------------------------------------------
\* The user the main screen serves.
Served == IF root = "main" THEN SessionUser ELSE None

\* Both users of the mapping are typed, and a session has a user.
LEMMA SessionUserType ==
    ASSUME TypeOK, AcceptedInv
    PROVE  /\ SessionUser \in Account \cup {None}
           /\ SessionUser = None <=> sessionId = None
           /\ Served \in Account \cup {None}
BY SignInAssumption DEF TypeOK, AcceptedInv, SessionIsAccepted, SessionUser, Served

\* Case by case: which step of Session each handler is.
LEMMA RefinementSafety == SafetySpec => ImplementsSession
<1> DEFINE absVars == <<Served, SessionUser, overlapped>>
<1>1. Init => UserSession!Init
    BY DEF Init, UserSession!Init, SessionUser
<1>2. TypeOK /\ AcceptedInv /\ TypeOK' /\ AcceptedInv' /\ WaitingInv /\ [Next]_vars
        => [UserSession!Next]_absVars
    <2> SUFFICES ASSUME TypeOK, AcceptedInv, TypeOK', AcceptedInv', WaitingInv, [Next]_vars
                 PROVE  UserSession!Next \/ UNCHANGED absVars
        OBVIOUS
    <2>1. /\ SessionUser \in Account \cup {None} /\ (SessionUser = None <=> sessionId = None)
          /\ Served \in Account \cup {None}
        BY SessionUserType
    <2>2. /\ SessionUser' \in Account \cup {None}
          /\ (SessionUser' = None <=> sessionId' = None)
          /\ Served' \in Account \cup {None}
        BY SignInAssumption
           DEF TypeOK, AcceptedInv, SessionIsAccepted, SessionUser, Served
    <2>3. ASSUME overlapped, overlapped' PROVE UserSession!Next
        BY <2>2, <2>3 DEF UserSession!Next, UserSession!Open, Served, TypeOK
    <2>4. ASSUME UNCHANGED <<root, sessionId, overlapped>>, SessionUser' = SessionUser
          PROVE  UNCHANGED absVars
        BY <2>4 DEF Served
    <2>5. ASSUME NEW c \in Attempt, NEW u \in Account \cup {Refused}, Tap(c, u)
          PROVE  UserSession!Next \/ UNCHANGED absVars
        <3>1. root' = root /\ SessionUser' = SessionUser /\ sessionId' = sessionId
            BY <2>5, SessionUserKept DEF Tap
        <3>2. CASE overlapped' = overlapped
            BY <2>4, <3>1, <3>2
        <3>3. CASE overlapped' # overlapped
            <4>1. overlapped' = TRUE
                BY <2>5, <3>3 DEF Tap, TypeOK
            <4> QED
                BY <3>1, <4>1 DEF UserSession!Next, UserSession!Overlap
        <3> QED
            BY <3>2, <3>3
    <2>6. ASSUME NEW c \in Attempt, NEW has \in BOOLEAN, TokenReply(c, has)
          PROVE  UNCHANGED absVars
        BY <2>4, <2>6, SessionUserKept DEF TokenReply, window, process
    <2>7. ASSUME NEW c \in Attempt, LoginReply(c) \/ Failure(c) PROVE UNCHANGED absVars
        BY <2>7 DEF LoginReply, Failure, defaults, window, process, SessionUser, Served
    <2>8. ASSUME NEW c \in Attempt, NEW has \in BOOLEAN, SessionReply(c, has)
          PROVE  UserSession!Next
        <3>1. root' = root /\ overlapped' = overlapped
            BY <2>8 DEF SessionReply, window, process
        <3>2. CASE ~overlapped
            <4>1. root # "main"
                BY <2>8, <3>2 DEF SessionReply, Proceed, WaitingInv, InFlight, Awaited, TypeOK
            <4> QED
                BY <2>2, <3>1, <3>2, <4>1 DEF UserSession!Next, UserSession!Remember
        <3> QED
            BY <2>3, <3>1, <3>2
    <2>9. ASSUME NEW c \in Attempt, NEW has \in BOOLEAN, AccountReply(c, has)
          PROVE  UserSession!Next \/ UNCHANGED absVars
        <3>1. SessionUser' = SessionUser /\ sessionId' = sessionId /\ overlapped' = overlapped
            BY <2>9 DEF AccountReply, SessionUser
        <3>2. CASE c \in ours
            <4>1. root = "signIn" /\ Configure(sessionId)
                BY <2>9, <3>2 DEF AccountReply, TypeOK
            <4>2. root' = "main" <=> sessionId # None
                BY <4>1, ConfigureRoot
            <4>3. CASE sessionId = None
                <5>1. root' # "main" /\ root # "main"
                    BY <4>1, <4>2, <4>3
                <5> QED
                    BY <3>1, <5>1 DEF Served
            <4>4. CASE sessionId # None /\ ~overlapped
                BY <2>1, <3>1, <4>1, <4>2, <4>4 DEF UserSession!Next, UserSession!Enter
            <4> QED
                BY <2>3, <3>1, <4>3, <4>4
        <3>3. CASE c \notin ours
            BY <2>4, <2>9, <3>1, <3>3 DEF AccountReply, window
        <3> QED
            BY <3>2, <3>3
    <2>10. CASE Logout
        <3>1. /\ root = "main" /\ root' = "signIn" /\ sessionId' = None
              /\ overlapped' = overlapped
            BY <2>10 DEF Logout, Configure, process
        <3>2. CASE ~overlapped
            <4>1. sessionId # None
                BY <3>1, <3>2 DEF WaitingInv
            <4> QED
                BY <2>1, <2>2, <3>1, <3>2, <4>1 DEF UserSession!Next, UserSession!Leave
        <3> QED
            BY <2>3, <3>1, <3>2
    <2>11. CASE Relaunch
        <3>1. /\ SessionUser' = SessionUser /\ sessionId' = sessionId /\ overlapped' = FALSE
            BY <2>11 DEF Relaunch, defaults, SessionUser
        <3>2. root' = "main" <=> sessionId # None
            BY <2>11, ConfigureRoot DEF Relaunch
        <3>3. (IF root = "main" THEN SessionUser ELSE None)' = SessionUser
            BY <2>1, <3>1, <3>2
        <3> QED
            BY <3>1, <3>3 DEF UserSession!Next, UserSession!Launch
    <2>12. CASE UNCHANGED vars
        BY <2>4, <2>12 DEF vars, defaults, window, process, SessionUser
    <2> QED
        BY <2>5, <2>6, <2>7, <2>8, <2>9, <2>10, <2>11, <2>12 DEF Next, Reply
<1>3. absVars = <<IF root = "main" THEN SessionUser ELSE None, SessionUser, overlapped>>
    BY DEF Served
<1> QED
    BY <1>1, <1>2, <1>3, TypeInvariant, AcceptedInvariant, WaitingInvariant, PTL
       DEF SafetySpec, ImplementsSession, UserSession!Spec, Served

(***************************************************************************)
(* Every step of sign-in, sign-out and launch is one of Session, or none.  *)
(***************************************************************************)
THEOREM RefinementTheorem == Spec => ImplementsSession
BY RefinementSafety DEF Spec, SafetySpec

-----------------------------------------------------------------------------
(***************************************************************************)
(* A user who is signed in and whose attempts did not overlap stays signed *)
(* in, with the same session and the same account, whatever replies are    *)
(* still to come and however often the app is launched, until he logs out. *)
(***************************************************************************)
StaysSignedIn ==
    [][root = "main" /\ ~overlapped =>
        Logout \/ UNCHANGED <<root, sessionId, accountId, SessionUser>>]_vars

\* On the main screen no attempt is left that could change anything.
LEMMA StaySafety == SafetySpec => StaysSignedIn
<1> DEFINE Stays == root = "main" /\ ~overlapped =>
                        Logout \/ UNCHANGED <<root, sessionId, accountId, SessionUser>>
<1>1. TypeOK /\ WaitingInv /\ [Next]_vars => Stays
    <2> SUFFICES ASSUME TypeOK, WaitingInv, [Next]_vars, root = "main", ~overlapped, ~Logout
                 PROVE  UNCHANGED <<root, sessionId, accountId, SessionUser>>
        OBVIOUS
    <2>1. ~trap /\ InFlight = {} /\ sessionId # None
        BY DEF TypeOK, WaitingInv
    <2>2. ASSUME NEW c \in Attempt PROVE ~Reply(c)
        <3>1. stage[c] \notin Awaited
            BY <2>1 DEF InFlight
        <3> QED
            BY <3>1 DEF Reply, TokenReply, LoginReply, SessionReply, AccountReply, Failure,
                        Proceed, InFlight, Awaited
    <2>3. ASSUME NEW c \in Attempt, NEW u \in Account \cup {Refused} PROVE ~Tap(c, u)
        BY DEF Tap
    <2>4. CASE Relaunch
        <3>1. UNCHANGED <<user, sessionId, accountId>> /\ root' = "main"
            BY <2>1, <2>4 DEF Relaunch, Configure, defaults
        <3> QED
            BY <3>1 DEF SessionUser
    <2>5. CASE UNCHANGED vars
        BY <2>5 DEF vars, defaults, window, SessionUser
    <2> QED
        BY <2>2, <2>3, <2>4, <2>5 DEF Next
<1> QED
    BY <1>1, TypeInvariant, WaitingInvariant, PTL DEF SafetySpec, StaysSignedIn

(***************************************************************************)
(* Only a logout ends the stay of a signed-in user on the main screen.     *)
(***************************************************************************)
THEOREM StayTheorem == Spec => StaysSignedIn
BY StaySafety DEF Spec, SafetySpec

-----------------------------------------------------------------------------
(* Every attempt ends.  The prover does not look into ENABLED: that a      *)
(* reply can come when one is awaited is a hypothesis here.                *)

\* Attempt c waits, in a process that runs.
Waits(c) == stage[c] \in Awaited /\ ~trap

CanBeAnswered(c) == ENABLED <<Reply(c)>>_vars

\* Whatever the stages of the attempts, the reply to a waiting one can come.
RepliesCanCome == \A c \in Attempt : Waits(c) => CanBeAnswered(c)

\* What may follow the stage an attempt is in.
Following(s) ==
    {"over"} \cup CASE s = "token" -> {"login"}
                    [] s = "login" -> {"session"}
                    [] s = "session" -> {"account"}
                    [] OTHER -> {}

\* An attempt is taken on by its own replies, and by nothing else but a launch.
LEMMA AttemptAdvances ==
    ASSUME TypeOK, [Next]_vars, NEW c \in Attempt, stage[c] \in Awaited
    PROVE  /\ stage'[c] \in {stage[c]} \cup Following(stage[c])
           /\ Reply(c) => stage'[c] \in Following(stage[c])
<1> USE DEF Following, StageSet, Awaited
<1>1. ASSUME NEW d \in Attempt, NEW u \in Account \cup {Refused}, Tap(d, u)
      PROVE  stage'[c] = stage[c]
    BY <1>1, ProceedShape DEF Tap
<1>2. ASSUME NEW d \in Attempt, Reply(d)
      PROVE  /\ d # c => stage'[c] = stage[c]
             /\ stage'[d] \in Following(stage[d])
    <2>1. ASSUME NEW has \in BOOLEAN, TokenReply(d, has) \/ SessionReply(d, has)
          PROVE  /\ d # c => stage'[c] = stage[c]
                 /\ stage'[d] \in Following(stage[d])
        BY <2>1, ProceedShape DEF TokenReply, SessionReply
    <2>2. ASSUME NEW has \in BOOLEAN, AccountReply(d, has)
          PROVE  /\ d # c => stage'[c] = stage[c]
                 /\ stage'[d] \in Following(stage[d])
        BY <2>2, ProceedShape DEF AccountReply
    <2>3. CASE LoginReply(d)
        BY <2>3, ProceedShape DEF LoginReply
    <2>4. CASE Failure(d)
        BY <2>4 DEF Failure, TypeOK
    <2> QED
        BY <1>2, <2>1, <2>2, <2>3, <2>4 DEF Reply
<1>3. ASSUME Logout \/ UNCHANGED vars PROVE stage'[c] = stage[c]
    BY <1>3 DEF Logout, vars
<1>4. ASSUME Relaunch PROVE stage'[c] = "over"
    BY <1>4 DEF Relaunch
<1>5. stage'[c] \in {stage[c]} \cup Following(stage[c])
    BY <1>1, <1>2, <1>3, <1>4 DEF Next
<1> QED
    BY <1>2, <1>5

(***************************************************************************)
(* An attempt that awaits a reply ends, after four replies at most, unless *)
(* the forced cast stops the process: if replies can come when they are    *)
(* awaited, fairness brings them, and each takes its attempt on.           *)
(***************************************************************************)
THEOREM EndTheorem == Spec /\ []RepliesCanCome => AttemptsEnd
<1>1. ASSUME NEW c \in Attempt
      PROVE  SafetySpec /\ FairTo(c) /\ []RepliesCanCome
                => (stage[c] \in Awaited ~> stage[c] = "over" \/ trap)
    <2> DEFINE At(s) == stage[c] = s
    <2>1. TypeOK /\ [Next]_vars =>
            /\ At("token") => At("token")' \/ At("login")' \/ At("over")'
            /\ At("login") => At("login")' \/ At("session")' \/ At("over")'
            /\ At("session") => At("session")' \/ At("account")' \/ At("over")'
            /\ At("account") => At("account")' \/ At("over")'
        BY AttemptAdvances DEF Awaited, Following
    <2>2. TypeOK /\ <<Reply(c)>>_vars =>
            /\ At("token") => At("login")' \/ At("over")'
            /\ At("login") => At("session")' \/ At("over")'
            /\ At("session") => At("account")' \/ At("over")'
            /\ At("account") => At("over")'
        BY AttemptAdvances DEF Awaited, Following, Next
    <2>3. /\ stage[c] \in Awaited <=> At("token") \/ At("login") \/ At("session") \/ At("account")
          /\ Waits(c) <=> stage[c] \in Awaited /\ ~trap
        BY DEF Awaited, Waits
    <2> HIDE DEF At
    <2>4. RepliesCanCome => (Waits(c) => CanBeAnswered(c))
        BY DEF RepliesCanCome
    <2>5. SafetySpec /\ FairTo(c) /\ []RepliesCanCome
            => /\ At("token") ~> At("login") \/ At("over") \/ trap
               /\ At("login") ~> At("session") \/ At("over") \/ trap
               /\ At("session") ~> At("account") \/ At("over") \/ trap
               /\ At("account") ~> At("over") \/ trap
        BY <2>1, <2>2, <2>3, <2>4, TypeInvariant, PTL DEF SafetySpec, CanBeAnswered, FairTo
    <2>6. At("over") <=> stage[c] = "over"
        BY DEF At
    <2> QED
        BY <2>3, <2>5, <2>6, PTL
<1>2. Spec <=> SafetySpec /\ \A c \in Attempt : FairTo(c)
    BY DEF Spec, SafetySpec, Fairness
<1> QED
    BY <1>1, <1>2 DEF AttemptsEnd
=============================================================================
