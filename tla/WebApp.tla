------------------------------- MODULE WebApp -------------------------------
(***************************************************************************)
(* The shell of the web client: component s4 of the bundle                 *)
(* src/assets/assets/webFiles-D6_XYOPO.js, with its route functions Ba and *)
(* F1 and its dialogs; the names of the minified variables are given in    *)
(* brackets.  It follows the address bar, shows the list of shares, the    *)
(* folder view of one share (module FileBrowser), or a dialog, and asks    *)
(* the gateway to unlock, to lock and to log out.                          *)
(*                                                                         *)
(* A request is sent, served and answered in three steps, so that requests *)
(* overtake each other on the way there and on the way back.  The          *)
(* gateway's session is the set of shares it has unlocked.  Every share is *)
(* protected and allows what a folder view needs.                          *)
(***************************************************************************)
EXTENDS Naturals, Sequences, FiniteSets, FiniteSetsExt

CONSTANTS
    Shares,      \* slugs
    Paths,       \* paths of folders
    Top,         \* the empty path
    None,        \* null
    Nameless,    \* the slug of a share object that has none
    MaxHistory,  \* bound on the entries of the browser's history
    MaxEvents    \* bound on what the user does

ASSUME AppAssumption ==
    /\ Top \in Paths
    /\ {None, Nameless} \cap Shares = {}
    /\ None # Nameless
    /\ MaxHistory \in Nat \ {0}
    /\ MaxEvents \in Nat

Home == [slug |-> None, path |-> Top]
RouteTo(s, p) == [slug |-> s, path |-> p]
Routes == {Home} \cup [slug : Shares \cup {Nameless}, path : Paths]

VARIABLES
    history,    \* the entries of the browser's history, routes
    at,         \* the one in the address bar
    rows,       \* [n] the shares of the list that it calls unlocked, or None
    active,     \* [s] the slug of the share on show
    path,       \* [v] the path on show
    target,     \* [u] the share of the password dialog
    pending,    \* [f, c] path to go to once unlocked, and whether to push it
    unlocking,  \* [d] a password is being verified
    exitOpen,   \* [H] the exit dialog is open
    leaving,    \* [Z] a logout is under way
    booting,    \* [p] the loading screen is shown
    failed,     \* [A] the error screen is shown
    ticket,     \* [b] number of the last navigation
    calls,      \* requests in flight
    session,    \* the gateway: shares this browser has unlocked
    opened,     \* history: shares the session has ever held
    events,     \* history: what the user has done so far
    crossed     \* history: what answers did to a page they were not meant for

\* crossed.address: they may have set the address bar and the page apart;
\* crossed.shares: what unlocks opened that were sent for another share;
\* crossed.home: the navigation whose address a logout's list took home.

browser == <<history, at>>
shown == <<active, path>>
dialogs == <<target, pending, unlocking>>
exit == <<exitOpen, leaving>>
screen == <<booting, failed>>
gateway == <<session, opened>>
vars == <<browser, rows, shown, dialogs, exit, screen, ticket, calls,
          gateway, events, crossed>>

location == history[at]

-----------------------------------------------------------------------------
(* The browser's history.                                                  *)

Push(route) ==
    /\ at < MaxHistory
    /\ history' = Append(SubSeq(history, 1, at), route)
    /\ at' = at + 1

Replace(route) ==
    /\ history' = [history EXCEPT ![at] = route]
    /\ UNCHANGED at

-----------------------------------------------------------------------------
(* Requests.  A call says what it is for; once the gateway has served it,  *)
(* or the network has failed it, it also says what the browser will hear.  *)

Lists == {"home", "refresh", "left"}
Kinds == Lists \cup {"site", "share", "unlock", "lock", "logout"}

\* The first number that no other call of the kind has.
NextId(others, kind) ==
    Min((0..Cardinality(others)) \ {c.id : c \in {d \in others : d.kind = kind}})

Send(others, kind, slug, p, t, boot) ==
    calls' = others \cup
        {[kind |-> kind, id |-> NextId(others, kind), slug |-> slug, path |-> p,
          ticket |-> t, boot |-> boot, state |-> "sent", open |-> {}]}

Serves(c, state, open) ==
    calls' = (calls \ {c}) \cup {[c EXCEPT !.state = state, !.open = open]}

(* What a request that changes the session makes of it.                    *)
Effect(c) ==
    IF c.kind = "unlock" THEN session \cup {c.slug}
    ELSE IF c.kind = "lock" THEN session \ {c.slug}
    ELSE IF c.kind = "logout" THEN {}
    ELSE session

(* External: a request is lost on its way to the gateway or refused (a     *)
(* wrong password is), or it is served and the answer arrives or is lost.  *)
(* The list and the metadata say what is unlocked at that moment.          *)
Serve(c) ==
    /\ c.state = "sent"
    /\ \/ Serves(c, "failed", {}) /\ UNCHANGED <<session, opened>>
       \/ /\ c.slug # Nameless
          /\ \E state \in {"served", "failed"} : Serves(c, state, session)
          /\ session' = Effect(c)
          /\ opened' = opened \cup session'
    /\ UNCHANGED <<browser, rows, shown, dialogs, exit, screen, ticket>>
    /\ UNCHANGED <<events, crossed>>

Answered(kind) == {c \in calls : c.kind = kind /\ c.state # "sent"}
Succeeded(c) == c.state = "served"

-----------------------------------------------------------------------------
(* Following the address bar.                                              *)

(* [x] what the route in the address bar asks for; boot says that the      *)
(* loading screen waits for it.                                            *)
Sync(route, boot, others) ==
    /\ ticket' = ticket + 1
    /\ IF route.slug = None
       THEN /\ active' = None
            /\ path' = Top
            /\ target' = None
            /\ Send(others, "home", None, Top, ticket + 1, boot)
            /\ UNCHANGED booting
       ELSE /\ UNCHANGED <<active, target>>
            /\ IF active = route.slug /\ active \in Shares
               THEN /\ path' = route.path
                    /\ calls' = others
                    /\ booting' = (booting /\ ~boot)
               ELSE /\ Send(others, "share", route.slug, route.path,
                                         ticket + 1, boot)
                    /\ UNCHANGED <<path, booting>>
    /\ UNCHANGED <<pending, unlocking>>

(* The page opens at some route; [y] asks for the site first.              *)
Init ==
    /\ history \in {<<r>> : r \in {Home} \cup [slug : Shares, path : Paths]}
    /\ at = 1
    /\ rows = None
    /\ active = None
    /\ path = Top
    /\ target = None
    /\ pending = [path |-> Top, push |-> TRUE]
    /\ unlocking = FALSE
    /\ exitOpen = FALSE
    /\ leaving = FALSE
    /\ booting = TRUE
    /\ failed = FALSE
    /\ ticket = 0
    /\ calls = {[kind |-> "site", id |-> 0, slug |-> None, path |-> Top,
                 ticket |-> 0, boot |-> TRUE, state |-> "sent", open |-> {}]}
    /\ session \in SUBSET Shares
    /\ opened = session
    /\ events = 0
    /\ crossed = [address |-> FALSE, shares |-> {}, home |-> 0]

SiteAnswer(c) ==
    /\ c \in Answered("site")
    /\ IF Succeeded(c)
       THEN /\ Sync(location, TRUE, calls \ {c})
            /\ UNCHANGED failed
       ELSE /\ calls' = calls \ {c}
            /\ failed' = TRUE
            /\ booting' = FALSE
            /\ UNCHANGED <<shown, dialogs, ticket>>
    /\ UNCHANGED <<browser, rows, exit, gateway, events, crossed>>

(* Mutant of HomeAnswer: the loading screen waits for what never comes.    *)
HomeAnswerHanging(c) ==
    /\ c \in Answered("home")
    /\ calls' = calls \ {c}
    /\ rows' = IF Succeeded(c) /\ c.ticket = ticket THEN c.open ELSE rows
    /\ failed' = (failed \/ ~Succeeded(c))
    /\ booting' = (booting /\ ~(c.boot /\ c.ticket = ticket))
    /\ UNCHANGED <<browser, shown, dialogs, exit, ticket>>
    /\ UNCHANGED <<gateway, events, crossed>>

(* The list for the home route, unless the user has gone on.  A failure    *)
(* shows the error screen whether he has or not.                           *)
HomeAnswer(c) ==
    /\ c \in Answered("home")
    /\ calls' = calls \ {c}
    /\ rows' = IF Succeeded(c) /\ c.ticket = ticket THEN c.open ELSE rows
    /\ failed' = (failed \/ ~Succeeded(c))
    /\ booting' = (booting /\ ~c.boot)
    /\ UNCHANGED <<browser, shown, dialogs, exit, ticket>>
    /\ UNCHANGED <<gateway, events, crossed>>

(* Mutant of Current: a route answer is taken although the user went on.   *)
CurrentAny(c) == c.ticket <= ticket

(* [B===b] no navigation has begun since the request was sent.             *)
Current(c) == c.ticket = ticket

(* Mutant of Open: the password dialog only for what the list calls locked. *)
OpenListed(c) == IF rows = None THEN TRUE ELSE c.slug \in rows \cup c.open

(* Whether the gateway said that the share is unlocked.                    *)
Open(c) == c.slug \in c.open

(* [a] for the share of a route: the folder view if it is unlocked, else   *)
(* the password dialog above what is on show.                              *)
ShareAnswer(c) ==
    /\ c \in Answered("share")
    /\ calls' = calls \ {c}
    /\ failed' = (failed \/ ~Succeeded(c))
    /\ booting' = (booting /\ ~c.boot)
    /\ IF Succeeded(c) /\ Current(c)
       THEN IF Open(c)
            THEN /\ active' = c.slug
                 /\ path' = c.path
                 /\ UNCHANGED dialogs
            ELSE /\ target' = c.slug
                 /\ pending' = [path |-> c.path, push |-> FALSE]
                 /\ UNCHANGED <<shown, unlocking>>
       ELSE UNCHANGED <<shown, dialogs>>
    /\ UNCHANGED <<browser, rows, exit, ticket, gateway, events, crossed>>

-----------------------------------------------------------------------------
(* What the user does.                                                     *)

User == events < MaxEvents /\ events' = events + 1

Modal == target # None \/ exitOpen
ListShown == ~booting /\ ~failed /\ active = None /\ ~Modal
ViewShown == ~booting /\ ~failed /\ active # None /\ ~Modal

(* Back, forward, or a jump to an entry of the history.                    *)
PopState(i) ==
    /\ User
    /\ i \in DOMAIN history \ {at}
    /\ at' = i
    /\ Sync(history[i], FALSE, calls)
    /\ UNCHANGED <<history, rows, exit, failed, gateway, crossed>>

(* [y] from the error screen.                                              *)
Reconnect ==
    /\ User
    /\ failed /\ ~booting /\ ~Modal
    /\ booting' = TRUE
    /\ failed' = FALSE
    /\ Send(calls, "site", None, Top, 0, TRUE)
    /\ UNCHANGED <<browser, rows, shown, dialogs, exit, ticket>>
    /\ UNCHANGED <<gateway, crossed>>

(* [a] for a row of the list.                                              *)
OpenRow(s) ==
    /\ User
    /\ ListShown
    /\ rows # None
    /\ IF s \in rows
       THEN /\ active' = s
            /\ path' = Top
            /\ ticket' = ticket + 1
            /\ Push(RouteTo(s, Top))
            /\ UNCHANGED dialogs
       ELSE /\ target' = s
            /\ pending' = [path |-> Top, push |-> TRUE]
            /\ UNCHANGED <<browser, shown, unlocking, ticket>>
    /\ UNCHANGED <<rows, exit, screen, calls, gateway, crossed>>

(* Mutant of GoHome: the navigation is not counted.                        *)
GoHomeUncounted ==
    /\ User
    /\ ViewShown
    /\ active' = None
    /\ path' = Top
    /\ Push(Home)
    /\ Send(calls, "refresh", None, Top, 0, FALSE)
    /\ UNCHANGED <<rows, dialogs, exit, screen, ticket, gateway, crossed>>

(* [M] all shares.                                                         *)
GoHome ==
    /\ User
    /\ ViewShown
    /\ ticket' = ticket + 1
    /\ active' = None
    /\ path' = Top
    /\ Push(Home)
    /\ Send(calls, "refresh", None, Top, 0, FALSE)
    /\ UNCHANGED <<rows, dialogs, exit, screen, gateway, crossed>>

(* [P] to a folder of the share on show.                                   *)
Navigate(p) ==
    /\ User
    /\ ViewShown
    /\ ticket' = ticket + 1
    /\ path' = p
    /\ IF location = RouteTo(active, p)
       THEN UNCHANGED browser
       ELSE Push(RouteTo(active, p))
    /\ UNCHANGED <<rows, active, dialogs, exit, screen, calls>>
    /\ UNCHANGED <<gateway, crossed>>

(* The list for goHome and for a cancelled dialog, taken at any time.      *)
RefreshAnswer(c) ==
    /\ c \in Answered("refresh")
    /\ calls' = calls \ {c}
    /\ rows' = IF Succeeded(c) THEN c.open ELSE rows
    /\ UNCHANGED <<browser, shown, dialogs, exit, screen, ticket>>
    /\ UNCHANGED <<gateway, events, crossed>>

-----------------------------------------------------------------------------
(* The password dialog.                                                    *)

(* Mutant of Forgotten: null is not a path.                                *)
ForgottenNull == [pending EXCEPT !.path = None]

(* [f = ""] the path is of no dialog any more; [c] stays as it was.        *)
Forgotten == [pending EXCEPT !.path = Top]

(* [i] with whatever password the user typed.                              *)
SubmitPassword ==
    /\ User
    /\ target # None /\ ~unlocking
    /\ unlocking' = TRUE
    /\ Send(calls, "unlock", target, Top, 0, FALSE)
    /\ UNCHANGED <<browser, rows, shown, target, pending, exit, screen>>
    /\ UNCHANGED <<ticket, gateway, crossed>>

(* The share to open is read from the dialog now, which a navigation may   *)
(* have closed or given another share since the password was sent.         *)
Unlocked == IF target = None THEN Nameless ELSE target

UnlockAnswer(c) ==
    /\ c \in Answered("unlock")
    /\ calls' = calls \ {c}
    /\ unlocking' = FALSE
    /\ IF Succeeded(c)
       THEN /\ rows' = IF rows = None THEN None
                       ELSE rows \cup ({Unlocked} \cap Shares)
            /\ target' = None
            /\ pending' = Forgotten
            /\ active' = Unlocked
            /\ path' = pending.path
            /\ IF pending.push
               THEN ticket' = ticket + 1 /\ Push(RouteTo(Unlocked, pending.path))
               ELSE UNCHANGED <<browser, ticket>>
            /\ crossed' = [crossed EXCEPT
                   !.address = \/ @ \/ target # c.slug
                               \/ ~pending.push /\ location # RouteTo(target, pending.path),
                   !.shares = @ \cup ({Unlocked} \ {c.slug})]
       ELSE UNCHANGED <<browser, rows, shown, target, pending, ticket, crossed>>
    /\ UNCHANGED <<exit, screen, gateway, events>>

(* Mutant of CancelPassword: the route of the share stays in the address.  *)
CancelPasswordStaying ==
    /\ User
    /\ target # None /\ ~unlocking
    /\ ticket' = ticket + 1
    /\ target' = None
    /\ pending' = Forgotten
    /\ UNCHANGED browser
    /\ Send(calls, "refresh", None, Top, 0, FALSE)
    /\ crossed' = [crossed EXCEPT !.address = @ \/ active # None]
    /\ UNCHANGED <<rows, shown, unlocking, exit, screen, gateway>>

(* [R] leaves the route of the share it was opened for, and whatever share *)
(* is on show below the dialog on show.                                    *)
CancelPassword ==
    /\ User
    /\ target # None /\ ~unlocking
    /\ ticket' = ticket + 1
    /\ target' = None
    /\ pending' = Forgotten
    /\ IF location # Home THEN Replace(Home) ELSE UNCHANGED browser
    /\ Send(calls, "refresh", None, Top, 0, FALSE)
    /\ crossed' = [crossed EXCEPT !.address = @ \/ active # None]
    /\ UNCHANGED <<rows, shown, unlocking, exit, screen, gateway>>

-----------------------------------------------------------------------------
(* Locking and logging out.                                                *)

(* [k] locks the share on show.                                            *)
Lock ==
    /\ User
    /\ ViewShown /\ active \in Shares
    /\ Send(calls, "lock", active, Top, 0, FALSE)
    /\ UNCHANGED <<browser, rows, shown, dialogs, exit, screen, ticket>>
    /\ UNCHANGED <<gateway, crossed>>

(* The share that is closed, and called locked in the list, is the one on  *)
(* show now, whichever was locked.                                         *)
LockAnswer(c) ==
    /\ c \in Answered("lock")
    /\ IF Succeeded(c)
       THEN /\ ticket' = ticket + 1
            /\ active' = None
            /\ path' = Top
            /\ rows' = IF rows = None THEN None ELSE rows \ {active}
            /\ Replace(Home)
       ELSE UNCHANGED <<browser, rows, shown, ticket>>
    /\ calls' = calls \ {c}
    /\ UNCHANGED <<dialogs, exit, screen, gateway, events, crossed>>

OpenExit ==
    /\ User
    /\ ListShown \/ ViewShown
    /\ exitOpen' = TRUE
    /\ UNCHANGED <<browser, rows, shown, dialogs, leaving, screen, ticket>>
    /\ UNCHANGED <<calls, gateway, crossed>>

CancelExit ==
    /\ User
    /\ exitOpen /\ ~leaving
    /\ exitOpen' = FALSE
    /\ UNCHANGED <<browser, rows, shown, dialogs, leaving, screen, ticket>>
    /\ UNCHANGED <<calls, gateway, crossed>>

(* [g0] asks for the logout.                                               *)
ConfirmExit ==
    /\ User
    /\ exitOpen /\ ~leaving
    /\ leaving' = TRUE
    /\ Send(calls, "logout", None, Top, 0, FALSE)
    /\ UNCHANGED <<browser, rows, shown, dialogs, exitOpen, screen, ticket>>
    /\ UNCHANGED <<gateway, crossed>>

(* Mutant of LogoutAnswer: the navigation is not counted.                  *)
LogoutAnswerUncounted(c) ==
    /\ c \in Answered("logout")
    /\ IF Succeeded(c)
       THEN /\ active' = None
            /\ path' = Top
            /\ Send(calls \ {c}, "left", None, Top, ticket, FALSE)
            /\ UNCHANGED leaving
       ELSE /\ leaving' = FALSE
            /\ calls' = calls \ {c}
            /\ UNCHANGED shown
    /\ UNCHANGED <<browser, rows, dialogs, exitOpen, screen, ticket>>
    /\ UNCHANGED <<gateway, events, crossed>>

(* The share is closed at once; the list is asked for before the dialog    *)
(* closes.  The number in the call is history, for the next action.        *)
LogoutAnswer(c) ==
    /\ c \in Answered("logout")
    /\ IF Succeeded(c)
       THEN /\ ticket' = ticket + 1
            /\ active' = None
            /\ path' = Top
            /\ Send(calls \ {c}, "left", None, Top, ticket + 1, FALSE)
            /\ UNCHANGED leaving
       ELSE /\ leaving' = FALSE
            /\ calls' = calls \ {c}
            /\ UNCHANGED <<shown, ticket>>
    /\ UNCHANGED <<browser, rows, dialogs, exitOpen, screen>>
    /\ UNCHANGED <<gateway, events, crossed>>

(* With the list the address bar goes home and the dialog closes; without  *)
(* it both stay.  Whether the user has gone on since is not compared.      *)
LeftAnswer(c) ==
    /\ c \in Answered("left")
    /\ calls' = calls \ {c}
    /\ leaving' = FALSE
    /\ IF Succeeded(c)
       THEN /\ rows' = c.open
            /\ Replace(Home)
            /\ exitOpen' = FALSE
            /\ crossed' = [crossed EXCEPT
                   !.address = @ \/ c.ticket # ticket \/ active # None,
                   !.home = ticket]
       ELSE /\ crossed' = [crossed EXCEPT !.address = @ \/ location # Home]
            /\ UNCHANGED <<browser, rows, exitOpen>>
    /\ UNCHANGED <<shown, dialogs, screen, ticket, gateway, events>>

-----------------------------------------------------------------------------
Answer(c) ==
    \/ SiteAnswer(c) \/ HomeAnswer(c) \/ ShareAnswer(c) \/ RefreshAnswer(c)
    \/ UnlockAnswer(c) \/ LockAnswer(c) \/ LogoutAnswer(c) \/ LeftAnswer(c)

Next ==
    \/ \E i \in 1..MaxHistory : PopState(i)
    \/ Reconnect
    \/ \E s \in Shares : OpenRow(s)
    \/ GoHome
    \/ \E p \in Paths : Navigate(p)
    \/ SubmitPassword \/ CancelPassword
    \/ Lock
    \/ OpenExit \/ CancelExit \/ ConfirmExit
    \/ \E c \in calls : Serve(c) \/ Answer(c)

Spec == Init /\ [][Next]_vars

-----------------------------------------------------------------------------
(* Properties.                                                             *)

TypeOK ==
    /\ history \in Seq(Routes) /\ Len(history) \in 1..MaxHistory
    /\ at \in DOMAIN history
    /\ rows = None \/ rows \in SUBSET Shares
    /\ active \in Shares \cup {None, Nameless}
    /\ path \in Paths
    /\ target \in Shares \cup {None}
    /\ pending \in [path : Paths, push : BOOLEAN]
    /\ {unlocking, exitOpen, leaving, booting, failed} \subseteq BOOLEAN
    /\ ticket \in Nat
    /\ crossed \in [address : BOOLEAN, shares : SUBSET (Shares \cup {Nameless}), home : 0..ticket]
    /\ calls \subseteq
          [kind : Kinds, id : Nat, slug : Shares \cup {None, Nameless},
           path : Paths, ticket : 0..ticket, boot : BOOLEAN,
           state : {"sent", "served", "failed"}, open : SUBSET Shares]
    /\ session \subseteq opened /\ opened \subseteq Shares
    /\ events \in 0..MaxEvents

(* Nothing but a further action of the user will change the page.          *)
Settled ==
    /\ ~booting /\ ~failed /\ ~Modal
    /\ ~\E c \in calls : c.kind = "share" /\ Current(c)

(* The address bar and the page agree, so that a reload, a bookmark and    *)
(* the back button lead where the user believes to be.  The exceptions are *)
(* where crossed.address is set: an unlock or a logout whose answer comes  *)
(* after a navigation, a dialog that is cancelled above another share, and *)
(* a logout that only fails to get the list.                               *)
AddressAgrees ==
    Settled /\ ~crossed.address =>
        location = IF active = None THEN Home ELSE RouteTo(active, path)

(* A share is on show only if the gateway's session has held it, or if it  *)
(* is one that the answer to an unlock opened though the password was sent *)
(* for another: the dialog had changed or was gone when the answer came.   *)
(* No other share is ever shown so, also after that.                       *)
ShownWasUnlocked == active # None => active \in opened \cup crossed.shares

(* An answer about the route of the address bar changes the page, or opens *)
(* the password dialog, only while that route is in the address bar.  The  *)
(* exception is the route that was followed when a logout's list arrived:  *)
(* that sends the address bar home without beginning a navigation, and so  *)
(* lets the answer in flight open the share that was left.                 *)
RouteAnswersCurrent ==
    [][\A c \in calls \ calls' :
          /\ c.kind = "share"
          /\ shown' # shown \/ target' # target
          => location = RouteTo(c.slug, c.path) \/ c.ticket = crossed.home]_vars

(* A spinner turns exactly as long as its one request is in flight, so it  *)
(* ends when the request does, whichever answers overtake each other or    *)
(* fail, and no second password or logout is sent meanwhile.               *)
SpinnersOwed ==
    LET InFlight(kinds) == {c \in calls : c.kind \in kinds}
        Boot == {c \in calls : c.boot}
    IN /\ booting = (Boot # {})
       /\ unlocking = (InFlight({"unlock"}) # {})
       /\ leaving = (InFlight({"logout", "left"}) # {})
       /\ \A calling \in {Boot, InFlight({"unlock"}), InFlight({"logout", "left"})} :
             Cardinality(calling) <= 1
=============================================================================
