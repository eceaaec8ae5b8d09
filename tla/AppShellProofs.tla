------------------------------ MODULE AppShellProofs ----------------------------
(* Proofs about AppShell, for any bounds.  The login screen holds because      *)
(* nothing takes it away within a page: a new page is the work of a login, of  *)
(* the updater, or of a button the login screen does not have.                 *)
EXTENDS AppShell, TLAPS

LEMMA Swapped ==
  ASSUME NEW b, NEW S, BagToSet(b) \subseteq S, NEW x, NEW y \in S
  PROVE  /\ BagToSet(b (-) SetToBag({x})) \subseteq S
         /\ BagToSet(b (+) SetToBag({y})) \subseteq S
         /\ BagToSet((b (-) SetToBag({x})) (+) SetToBag({y})) \subseteq S
  BY DEF BagToSet, SetToBag, (-), (+)

LEMMA RenderedNat ==
  ASSUME NEW n \in Nat, Rendered(n)
  PROVE  loads' \in Nat
  BY DEF Rendered

(* A new page.                                                                 *)
LEMMA PageStep ==
  ASSUME TypeOK, PageLoads, UNCHANGED actual, events' \in 0 .. MaxEvents,
         stuck' \in BOOLEAN, accepted' \in BOOLEAN
  PROVE  TypeOK'
<1>1. BagToSet(polls)' \subseteq Status \cup {Asked, Failed}
  BY DEF PageLoads, BagToSet, SetToBag
<1>. QED BY <1>1 DEF TypeOK, PageLoads

(* The polls change, and the status that is shown or is to be shown.           *)
LEMMA SyncStep ==
  ASSUME TypeOK,
         Hang \/ StatusChanges \/ Poll \/ Refresh \/ GetSyncStatus
           \/ \E reply \in BagToSet(polls) : StatusAnswer(reply)
  PROVE  TypeOK' /\ UNCHANGED showLogin
<1>. DEFINE S == Status \cup {Asked, Failed}
<1>. /\ BagToSet(polls) \subseteq S
     /\ Asked \in S /\ Failed \in S /\ actual \in S
  BY DEF TypeOK
<1>1. CASE Hang \/ StatusChanges
  <2>1. events' \in 0 .. MaxEvents
    BY <1>1, BoundsAssumption DEF Hang, StatusChanges, Event, TypeOK
  <2>2. stuck' \in BOOLEAN /\ actual' \in Status
    BY <1>1 DEF Hang, StatusChanges, TypeOK
  <2>3. UNCHANGED <<session, login, syncStatus, polls, toasts, loads, update>>
    BY <1>1 DEF Hang, StatusChanges
  <2>. QED BY <2>1, <2>2, <2>3 DEF TypeOK, session, login, toasts
<1>2. CASE Poll \/ Refresh
  <2>1. polls' = polls (+) SetToBag({Asked})
        /\ UNCHANGED <<actual, stuck, syncStatus, toasts, loads, login, update, events, session>>
    BY <1>2 DEF Poll, Refresh, AskStatus
  <2>2. BagToSet(polls') \subseteq S
    BY <2>1, Swapped
  <2>. QED BY <2>1, <2>2 DEF TypeOK, session, login, toasts
<1>3. CASE GetSyncStatus
  <2>1. BagToSet(polls') \subseteq S
    BY <1>3, Swapped DEF GetSyncStatus
  <2>2. events' \in 0 .. MaxEvents
    BY <1>3, BoundsAssumption DEF GetSyncStatus, Event, TypeOK
  <2>. QED BY <1>3, <2>1, <2>2 DEF GetSyncStatus, TypeOK, session, login, toasts
<1>4. CASE \E reply \in BagToSet(polls) : StatusAnswer(reply)
  <2>1. PICK reply \in BagToSet(polls) : StatusAnswer(reply)
    BY <1>4
  <2>2. BagToSet(polls') \subseteq S
    BY <2>1, Swapped DEF StatusAnswer
  <2>3. loads' \in Nat /\ syncStatus' \in Status \cup {NoStatus}
    BY <2>1, RenderedNat DEF StatusAnswer, TypeOK
  <2>. QED BY <2>1, <2>2, <2>3 DEF StatusAnswer, TypeOK, session, login, toasts
<1>. QED BY <1>1, <1>2, <1>3, <1>4

LEMMA ToastsStep ==
  ASSUME TypeOK, ToastTimer \/ Load
  PROVE  TypeOK' /\ UNCHANGED showLogin
<1>1. loads' \in Nat
  BY RenderedNat DEF ToastTimer, Load, TypeOK
<1>2. timers' \in Nat /\ toast' \in {None, "success", "error"}
  BY DEF ToastTimer, Load, showToast, toasts, TypeOK
<1>3. events' \in 0 .. MaxEvents
  BY BoundsAssumption DEF ToastTimer, Load, Event, TypeOK
<1>. QED BY <1>1, <1>2, <1>3 DEF ToastTimer, Load, TypeOK, session, login, sync

LEMMA CheckAuthStep ==
  ASSUME TypeOK, checkAuth
  PROVE  TypeOK' /\ showLogin'
<1>1. loads' \in Nat
  BY RenderedNat DEF checkAuth, TypeOK
<1>2. events' \in 0 .. MaxEvents
  BY BoundsAssumption DEF checkAuth, Event, TypeOK
<1>. QED BY <1>1, <1>2 DEF checkAuth, auth_token, TypeOK, login, sync, toasts

(* An action after which no login screen was taken away, or a login or the     *)
(* updater did it.                                                             *)
LoginIsLeft == showLogin /\ ~ showLogin' => stage = "storing" \/ update = "installing"

LEMMA LoginStep ==
  ASSUME TypeOK, Submit \/ SubmitBlank \/ Verified \/ Store
  PROVE  TypeOK' /\ LoginIsLeft
<1>1. CASE SubmitBlank
  BY <1>1 DEF SubmitBlank, SignInEnabled, TypeOK, LoginIsLeft, session, sync, toasts
<1>2. CASE Submit
  <2>1. events' \in 0 .. MaxEvents
    BY <1>2, BoundsAssumption DEF Submit, Event, TypeOK
  <2>. QED BY <1>2, <2>1 DEF Submit, SignInEnabled, TypeOK, LoginIsLeft, session, sync, toasts
<1>3. CASE Verified
  BY <1>3 DEF Verified, Refused, TypeOK, LoginIsLeft, session, sync, toasts
<1>4. CASE Store
  <2>1. CASE PageLoads /\ accepted' = TRUE /\ UNCHANGED <<actual, stuck, events>>
    BY <1>4, <2>1, PageStep DEF Store, TypeOK, LoginIsLeft
  <2>2. CASE Refused /\ UNCHANGED <<session, sync, toasts, loads, update, events>>
    BY <1>4, <2>2 DEF Refused, TypeOK, LoginIsLeft, session, sync, toasts
  <2>. QED BY <1>4, <2>1, <2>2 DEF Store
<1>. QED BY <1>1, <1>2, <1>3, <1>4

LEMMA PagesStep ==
  ASSUME TypeOK, SignIn \/ ConfirmUpdate \/ NoUpdate \/ Relaunch
  PROVE  TypeOK' /\ LoginIsLeft
<1>1. CASE SignIn
  <2>1. events' \in 0 .. MaxEvents
    BY <1>1, BoundsAssumption DEF SignIn, Event, TypeOK
  <2>2. stuck' \in BOOLEAN /\ accepted' \in BOOLEAN
    BY <1>1 DEF SignIn, TypeOK
  <2>3. TypeOK'
    BY <1>1, <2>1, <2>2, PageStep DEF SignIn
  <2>. QED BY <1>1, <2>3 DEF SignIn, ShowsShell, LoginIsLeft
<1>2. CASE ConfirmUpdate
  BY <1>2, BoundsAssumption
  DEF ConfirmUpdate, Event, TypeOK, LoginIsLeft, session, login, sync, toasts
<1>3. CASE NoUpdate
  BY <1>3 DEF NoUpdate, TypeOK, LoginIsLeft, session, login, sync, toasts
<1>4. CASE Relaunch
  BY <1>4, PageStep DEF Relaunch, TypeOK, LoginIsLeft
<1>. QED BY <1>1, <1>2, <1>3, <1>4

LEMMA InitInv == Init => TypeOK
<1>. SUFFICES ASSUME Init PROVE TypeOK
  OBVIOUS
<1>1. BagToSet(polls) \subseteq Status \cup {Asked, Failed}
  BY DEF Init, BagToSet, SetToBag
<1>2. events \in 0 .. MaxEvents
  BY BoundsAssumption DEF Init
<1>. QED BY <1>1, <1>2 DEF Init, TypeOK

LEMMA NextInv == TypeOK /\ [Next]_vars => TypeOK' /\ LoginIsLeft
<1>. SUFFICES ASSUME TypeOK, [Next]_vars PROVE TypeOK' /\ LoginIsLeft
  OBVIOUS
<1>1. CASE Hang \/ StatusChanges \/ Poll \/ Refresh \/ GetSyncStatus
             \/ \E reply \in BagToSet(polls) : StatusAnswer(reply)
  BY <1>1, SyncStep DEF LoginIsLeft
<1>2. CASE Load \/ ToastTimer
  BY <1>2, ToastsStep DEF LoginIsLeft
<1>3. CASE checkAuth
  BY <1>3, CheckAuthStep DEF LoginIsLeft
<1>4. CASE Submit \/ SubmitBlank \/ Verified \/ Store
  BY <1>4, LoginStep
<1>5. CASE SignIn \/ ConfirmUpdate \/ NoUpdate \/ Relaunch
  BY <1>5, PagesStep
<1>6. CASE UNCHANGED vars
  BY <1>6 DEF vars, session, login, sync, toasts, TypeOK, LoginIsLeft
<1>. QED BY <1>1, <1>2, <1>3, <1>4, <1>5, <1>6 DEF Next

(* Every value of the shell stays of its type; a status that failed to arrive  *)
(* is never shown.                                                             *)
THEOREM Typing == Spec => []TypeOK
BY InitInv, NextInv, PTL DEF Spec

(* Once the login screen is there, only an accepted login or a restart by the  *)
(* updater takes it away.                                                      *)
THEOREM LoginScreenHolds == Spec => LoginIsLeftByLogin
<1>1. TypeOK /\ [Next]_vars => TypeOK' /\ [LoginIsLeft]_vars
  BY NextInv
<1>2. Spec => [][LoginIsLeft]_vars
  BY <1>1, InitInv, PTL DEF Spec
<1>. QED BY <1>2 DEF LoginIsLeftByLogin, LoginIsLeft

---------------------------------------------------------------------------------
(* The button and the fetch change together.                                   *)
LEMMA LoginsStep ==
  ASSUME OneLoginAtATime, [Next]_vars
  PROVE  OneLoginAtATime'
<1>. USE DEF OneLoginAtATime
<1>1. CASE UNCHANGED login
  BY <1>1 DEF login
<1>2. CASE PageLoads
  BY <1>2 DEF PageLoads
<1>3. CASE Submit
  BY <1>3 DEF Submit
<1>4. CASE SubmitBlank
  BY <1>4 DEF SubmitBlank
<1>5. CASE Verified
  BY <1>5 DEF Verified, Refused
<1>6. CASE Store
  BY <1>2, <1>6 DEF Store, Refused
<1>. QED
  BY <1>1, <1>2, <1>3, <1>4, <1>5, <1>6
  DEF Next, Hang, StatusChanges, Poll, Refresh, GetSyncStatus, StatusAnswer, Load,
      ToastTimer, AskStatus, checkAuth, SignIn, ConfirmUpdate, NoUpdate, Relaunch,
      vars

(* The Sign In button is disabled during a login, and enabled again after it,  *)
(* whichever of its steps fails.                                               *)
THEOREM LoginsAlternate == Spec => []OneLoginAtATime
<1>1. Init => OneLoginAtATime
  BY DEF Init, OneLoginAtATime
<1>. QED BY <1>1, LoginsStep, PTL DEF Spec

=================================================================================
