-------------------------------- MODULE AppShell --------------------------------
(* App.tsx with its TopBar and LoginView: the sync status it polls, the toast, *)
(* the session it asks the Rust side for once per page load, the login screen  *)
(* and the updater.  A view is here only the loads it makes: its effect        *)
(* depends on showToast, a new function at every render of App.                *)
(*                                                                             *)
(* Outside: the sync status changes; a command answers or fails; the services  *)
(* LoginView talks to, at 8080 and 8082, answer what they like.  What they     *)
(* cannot do is write AppState of the desktop process.  Only the command       *)
(* set_auth_token writes it, and nothing invokes that, so there is no user for *)
(* the TopBar to name and no Logout button in it.                              *)
EXTENDS Naturals, FiniteSets, Bags

CONSTANTS MaxPending,  \* bound: changes not yet pushed
          MaxCalls,    \* bound: calls in flight, of each kind
          MaxEvents    \* bound: changes of the status, failures, clicks that load
                       \* a page or log in, writes of the views, restarts

None == "none"
ASSUME BoundsAssumption ==
  MaxPending \in Nat /\ MaxCalls \in Nat \ {0} /\ MaxEvents \in Nat

VARIABLES
  actual,       \* what get_sync_status returns
  stuck,        \* a command has taken the Rust side's main thread for good
  syncStatus,   \* what App has of the status
  polls,        \* the calls of getSyncStatus in flight, a bag of replies
  checking,     \* checkAuth waits for its answer
  showLogin,
  toast, timers,          \* the toast, and the timers that will take it down
  loads,                  \* loads of the mounted view in flight
  loading, error,         \* LoginView: its button is disabled; an error is shown
  stage,                  \* its fetch in flight
  update,       \* the updater, which checks once for each page
  events,
  accepted      \* history: an accepted login has loaded this page

sync == <<actual, stuck, syncStatus, polls>>
session == <<checking, showLogin, accepted>>
login == <<loading, error, stage>>
toasts == <<toast, timers>>
vars == <<sync, session, login, toasts, loads, update, events>>

Status == [agent_running : BOOLEAN, pending_changes : 0 .. MaxPending]
NoStatus == [reply |-> "none"]      \* records, like Status
Asked == [reply |-> "awaited"]
Failed == [reply |-> "error"]

(* AppState.auth_token: None from lib.rs, and never anything else.             *)
auth_token == None

Event == events < MaxEvents /\ events' = events + 1

---------------------------------------------------------------------------------
(* A page, when it has loaded and the effects of App and of its view have run. *)
Init ==
  /\ actual \in Status /\ syncStatus = NoStatus /\ polls = SetToBag({Asked})
  /\ stuck = FALSE
  /\ checking = TRUE /\ showLogin = FALSE /\ accepted = FALSE
  /\ toast = None /\ timers = 0 /\ loads = 1
  /\ loading = FALSE /\ error = FALSE /\ stage = "idle"
  /\ update = "checking"
  /\ events = 0

PageLoads ==
  /\ syncStatus' = NoStatus /\ polls' = SetToBag({Asked})
  /\ checking' = TRUE /\ showLogin' = FALSE
  /\ toast' = None /\ timers' = 0 /\ loads' = 1
  /\ loading' = FALSE /\ error' = FALSE /\ stage' = "idle"
  /\ update' = "checking"

(* App renders: the view that is mounted loads.  A load nobody will ever       *)
(* answer is not counted.                                                      *)
Rendered(n) ==
  /\ stuck \/ n < MaxCalls
  /\ loads' = IF showLogin' \/ stuck THEN n ELSE n + 1

(* Mutant of showToast: a toast that is up keeps its timer, which is cleared.  *)
showToastNoTimer(kind) == toast' = kind /\ UNCHANGED timers

showToast(kind) == toast' = kind /\ timers < MaxEvents + 1 /\ timers' = timers + 1

(* setTimeout(() => setToast(null)), of any toast before.                      *)
ToastTimer ==
  /\ timers > 0 /\ timers' = timers - 1
  /\ toast' = None
  /\ UNCHANGED <<session, login, sync, update, events>>
  /\ IF toast = None THEN UNCHANGED loads ELSE Rendered(loads)

---------------------------------------------------------------------------------
(* The Rust side.  A command of a view that writes a row keeps the main thread *)
(* for ever (DesktopDb), and no command is handled after it.                   *)
Hang ==
  /\ ~ stuck /\ stuck' = TRUE
  /\ Event
  /\ UNCHANGED <<session, login, actual, syncStatus, polls, toasts, loads, update>>

(* The sync status.                                                            *)
StatusChanges ==
  /\ Event
  /\ actual' \in Status \ {actual}
  /\ UNCHANGED <<session, login, stuck, syncStatus, polls, toasts, loads, update>>

AskStatus ==
  /\ BagCardinality(polls) < MaxCalls
  /\ polls' = polls (+) SetToBag({Asked})
  /\ UNCHANGED <<actual, stuck, syncStatus, toasts, loads, login, update, events>>

(* Mutant of Poll: the interval is not set.                                    *)
PollOnce == polls = EmptyBag /\ syncStatus = NoStatus /\ AskStatus /\ UNCHANGED session

(* setInterval, which goes on behind the login screen.                         *)
Poll == AskStatus /\ UNCHANGED session

(* What App renders: the TopBar and a view, or LoginView.                      *)
ShowsShell == ~ showLogin
SignInEnabled == showLogin /\ ~ loading

(* The Refresh button of the TopBar.                                           *)
Refresh == ShowsShell /\ AskStatus /\ UNCHANGED session

GetSyncStatus ==
  /\ ~ stuck /\ Asked \in BagToSet(polls)
  /\ \/ polls' = (polls (-) SetToBag({Asked})) (+) SetToBag({actual}) /\ UNCHANGED events
     \/ Event /\ polls' = (polls (-) SetToBag({Asked})) (+) SetToBag({Failed})
  /\ UNCHANGED <<session, login, actual, stuck, syncStatus, toasts, loads, update>>

(* Mutant of StatusAnswer: what the call ended with is the status.             *)
StatusAnswerAny(reply) ==
  /\ reply # Asked
  /\ polls' = polls (-) SetToBag({reply})
  /\ UNCHANGED <<session, login, actual, stuck, toasts, update, events>>
  /\ syncStatus' = reply /\ Rendered(loads)

(* refreshSyncStatus after its await: an error is only logged.                 *)
StatusAnswer(reply) ==
  /\ reply # Asked
  /\ polls' = polls (-) SetToBag({reply})
  /\ UNCHANGED <<session, login, actual, stuck, toasts, update, events>>
  /\ IF reply = Failed THEN UNCHANGED <<syncStatus, loads>>
     ELSE syncStatus' = reply /\ Rendered(loads)

---------------------------------------------------------------------------------
(* The load of a view; an unmounted one shows its toast all the same.          *)
Load ==
  /\ ~ stuck /\ loads > 0
  /\ UNCHANGED <<session, login, sync, update>>
  /\ \/ loads' = loads - 1 /\ UNCHANGED <<toasts, events>>
     \/ Event /\ showToast("error") /\ Rendered(loads - 1)

---------------------------------------------------------------------------------
(* The session.  checkAuth is called once for each page; a call that fails     *)
(* ends at the login screen too.                                               *)
checkAuth ==
  /\ ~ stuck /\ checking /\ checking' = FALSE
  /\ \/ showLogin' = (auth_token = None) /\ UNCHANGED events
     \/ showLogin' = TRUE /\ Event
  /\ Rendered(loads)
  /\ UNCHANGED <<accepted, login, sync, toasts, update>>

(* The Sign In button goes to /login, which is this page again.                *)
SignIn ==
  /\ ShowsShell
  /\ Event
  /\ PageLoads /\ accepted' = FALSE
  /\ UNCHANGED <<actual, stuck>>

(* handleSubmit of LoginView up to its first await.  Blank fields are refused. *)
Submit ==
  /\ SignInEnabled
  /\ Event
  /\ loading' = TRUE /\ error' = FALSE
  /\ stage' = "verifying"
  /\ UNCHANGED <<session, sync, toasts, loads, update>>

SubmitBlank ==
  /\ SignInEnabled
  /\ error' = TRUE
  /\ UNCHANGED <<session, sync, toasts, loads, loading, stage, update, events>>

(* Mutant of Refused: no `finally`.                                            *)
RefusedStill == error' = TRUE /\ stage' = "idle" /\ UNCHANGED loading

(* The catch and the finally of handleSubmit.                                  *)
Refused == error' = TRUE /\ loading' = FALSE /\ stage' = "idle"

(* Mutant of Verified: the page is loaded whatever 8080 answers.               *)
VerifiedAnyway ==
  /\ stage = "verifying"
  /\ PageLoads
  /\ UNCHANGED <<actual, stuck, accepted, events>>

(* 8080: no answer, one that is not ok, one without a token, or a token.       *)
Verified ==
  /\ stage = "verifying"
  /\ \/ Refused
     \/ stage' = "storing" /\ UNCHANGED <<loading, error>>
  /\ UNCHANGED <<session, sync, toasts, loads, update, events>>

(* 8082: whatever it answers, and an answer of an error is one too, the page   *)
(* is loaded anew.  No answer is an error.                                     *)
Store ==
  /\ stage = "storing"
  /\ \/ PageLoads /\ accepted' = TRUE /\ UNCHANGED <<actual, stuck, events>>
     \/ Refused /\ UNCHANGED <<session, sync, toasts, loads, update, events>>

---------------------------------------------------------------------------------
(* The updater: window.confirm stops the page while it asks, the download does *)
(* not.                                                                        *)
ConfirmUpdate ==
  /\ Event
  /\ update = "checking" /\ update' = "installing"
  /\ UNCHANGED <<session, login, sync, toasts, loads>>

(* No update, no consent, or an error of any step.                             *)
NoUpdate ==
  /\ update # "done" /\ update' = "done"
  /\ UNCHANGED <<session, login, sync, toasts, loads, events>>

(* relaunch: a new process.                                                    *)
Relaunch ==
  /\ update = "installing"
  /\ PageLoads /\ accepted' = FALSE /\ stuck' = FALSE
  /\ UNCHANGED <<actual, events>>

Next ==
  \/ Hang \/ StatusChanges \/ Poll \/ Refresh \/ GetSyncStatus
  \/ \E reply \in BagToSet(polls) : StatusAnswer(reply)
  \/ Load \/ ToastTimer
  \/ checkAuth \/ SignIn
  \/ Submit \/ SubmitBlank \/ Verified \/ Store
  \/ ConfirmUpdate \/ NoUpdate \/ Relaunch

Spec == Init /\ [][Next]_vars

(* Timers fire and the services answer; so do the commands as long as the main *)
(* thread is not stuck.  No user does anything of necessity, nor does a        *)
(* command that writes have to be handled.                                     *)
(* Strong where the bound on the loads can shut an action out for a while.     *)
FairSpec ==
  /\ Spec
  /\ WF_vars(Poll) /\ WF_vars(GetSyncStatus)
  /\ SF_vars(\E reply \in BagToSet(polls) : StatusAnswer(reply))
  /\ WF_vars(Load) /\ SF_vars(ToastTimer)
  /\ SF_vars(checkAuth) /\ WF_vars(Verified) /\ WF_vars(Store)

---------------------------------------------------------------------------------
TypeOK ==
  /\ stuck \in BOOLEAN /\ accepted \in BOOLEAN
  /\ actual \in Status /\ syncStatus \in Status \cup {NoStatus}
  /\ BagToSet(polls) \subseteq Status \cup {Asked, Failed}
  /\ checking \in BOOLEAN /\ showLogin \in BOOLEAN
  /\ toast \in {None, "success", "error"} /\ timers \in Nat /\ loads \in Nat
  /\ stage \in {"idle", "verifying", "storing"}
  /\ loading \in BOOLEAN /\ error \in BOOLEAN
  /\ update \in {"checking", "installing", "done"}
  /\ events \in 0 .. MaxEvents

(* The login screen is left in two ways only: a login was accepted, or the     *)
(* updater restarted the program.  No poll, no late answer and no failure      *)
(* takes it away.                                                              *)
LoginIsLeftByLogin ==
  [][showLogin /\ ~ showLogin' => stage = "storing" \/ update = "installing"]_vars

(* The button is disabled as long as a login is in flight and no longer, so    *)
(* two logins never race, whichever fetch fails.                               *)
OneLoginAtATime == loading <=> stage # "idle"

(* When the status changes no more and commands fail no more, App ends up with *)
(* the status there is, the count of pending changes included, although        *)
(* answers overtake each other and errors are only logged; unless the main     *)
(* thread is stuck with a write, after which nothing is answered any more.     *)
StatusShownUnlessStuck == <>[](stuck \/ syncStatus = actual)

(* The toasts end.  One makes App render, which makes the view load, which     *)
(* shows another if it fails; timers take down toasts that are not theirs.     *)
ToastsEnd == <>[](toast = None)

(* An attempt to log in ends: with an error, or with a page loaded anew.       *)
LoginEnds == loading ~> ~ loading

(* An accepted login ends at the dashboard, as AUTH.md says: the page it loads *)
(* stays, if checkAuth is answered at all, and no login screen takes its place.*)
DashboardAfterLogin ==
  [][accepted /\ checking /\ ~ checking' /\ UNCHANGED events => ~ showLogin']_vars

=================================================================================
