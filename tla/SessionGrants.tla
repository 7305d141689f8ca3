---------------------------- MODULE SessionGrants ----------------------------
(***************************************************************************)
(* What the session store promises its callers, with no clock, no capacity *)
(* and no record layout.  A token is issued once, to one client address;   *)
(* while it is live it carries grants, each a share at one credential      *)
(* revision.  A session may be withdrawn at any time and never comes back. *)
(***************************************************************************)
CONSTANTS Tokens, Clients, Shares, Revisions, NoClient

VARIABLES
    issuedTo,  \* the address each token was issued to, or NoClient
    live,      \* the tokens that still name a session
    grants     \* the <<token, share, revision>> that open a share

grantVars == <<issuedTo, live, grants>>

GrantsInit ==
    /\ issuedTo = [t \in Tokens |-> NoClient]
    /\ live = {}
    /\ grants = {}

(* A grant on a live token of the same address, or on a token never issued *)
(* before.  It replaces the share's older revision on that token.  Other   *)
(* sessions may be withdrawn to make room.                                 *)
Grant(t, c, s, r) ==
    /\ \/ t \in live /\ issuedTo[t] = c /\ UNCHANGED issuedTo
       \/ issuedTo[t] = NoClient /\ issuedTo' = [issuedTo EXCEPT ![t] = c]
    /\ live' \subseteq live \cup {t} /\ t \in live'
    /\ grants' = {g \in grants : g[1] \in live' /\ ~(g[1] = t /\ g[2] = s)}
                     \cup {<<t, s, r>>}

(* Sessions end, with every grant they carried.                            *)
Withdraw ==
    /\ live' \subseteq live
    /\ grants' = {g \in grants : g[1] \in live'}
    /\ UNCHANGED issuedTo

(* One share is locked again, on the tokens of T.                          *)
LockOn(T, s) ==
    /\ grants' = {g \in grants : ~(g[1] \in T /\ g[2] = s)}
    /\ UNCHANGED <<issuedTo, live>>

GrantsNext ==
    \/ \E t \in Tokens, c \in Clients, s \in Shares, r \in Revisions : Grant(t, c, s, r)
    \/ Withdraw
    \/ \E T \in SUBSET Tokens, s \in Shares : LockOn(T, s)

GrantsSpec == GrantsInit /\ [][GrantsNext]_grantVars

-----------------------------------------------------------------------------
(* The promise.  A share is open only under a token that still names a     *)
(* session, which was issued to an address, and at one revision at most.   *)
GrantsSound ==
    /\ issuedTo \in [Tokens -> Clients \cup {NoClient}]
    /\ live \subseteq {t \in Tokens : issuedTo[t] # NoClient}
    /\ grants \subseteq live \X Shares \X Revisions
    /\ \A g, h \in grants : g[1] = h[1] /\ g[2] = h[2] => g = h

(* A step never rebinds a token and never brings an ended session back.    *)
StaysEnded ==
    \A t \in Tokens : issuedTo[t] # NoClient =>
       /\ issuedTo'[t] = issuedTo[t]
       /\ t \in live' => t \in live

(* A token stays with its address for ever, and once its session has ended *)
(* it names no session again, whatever is unlocked later and by whom.      *)
NeverHonouredAgain == [][StaysEnded]_grantVars
=============================================================================
