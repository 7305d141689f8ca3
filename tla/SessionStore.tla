---------------------------- MODULE SessionStore ----------------------------
(***************************************************************************)
(* The in-memory sessions of the gateway (src/src/session.rs).  Every      *)
(* operation runs under the store's one mutex and reads the clock while it *)
(* holds it, so each is one atomic action.  Only a token that random_token *)
(* has never returned before is fresh: 256 random bits do not repeat.      *)
(* The operations take the caller's idle lifetime, as they do in the code: *)
(* gateways of two configurations can share one store.                     *)
(***************************************************************************)
EXTENDS Naturals, FiniteSets, Functions

CONSTANTS
    Tokens,            \* what random_token can return
    NoToken,           \* no session cookie
    Clients,           \* source addresses
    NoClient,          \* the holder of a token not yet issued
    Shares,            \* share ids
    Revisions,         \* credential revisions
    NoRevision,        \* the share is not authorized
    Lifetimes,         \* idle lifetimes that gateways are configured with
    AbsoluteLifetime,  \* ABSOLUTE_SESSION_LIFETIME in ticks
    MaxSessions,       \* MAX_SESSIONS, 1024 in the code
    MaxTime            \* bound on the clock

ASSUME TokensType == IsFiniteSet(Tokens) /\ NoToken \notin Tokens
ASSUME ClientsType == NoClient \notin Clients
ASSUME RevisionsType == NoRevision \notin Revisions
ASSUME LifetimeType ==
    /\ Lifetimes \subseteq Nat \ {0}
    /\ AbsoluteLifetime \in Nat \ {0}
    /\ MaxTime \in Nat
ASSUME MaxSessionsType == MaxSessions \in Nat \ {0}

VARIABLES
    clock,     \* Instant::now()
    sessions,  \* SessionStore.sessions: a record for every live token
    issuedTo   \* history: the address each token was issued to

storeVars == <<sessions, issuedTo>>
vars == <<clock, sessions, issuedTo>>

Live == DOMAIN sessions

Session == [authorized_shares : [Shares -> Revisions \cup {NoRevision}],
            source_ip : Clients,
            created_at : 0..MaxTime,
            last_access_at : 0..MaxTime]

StoreInit ==
    /\ sessions = [t \in {} |-> NoToken]
    /\ issuedTo = [t \in Tokens |-> NoClient]

Init == clock = 0 /\ StoreInit

-----------------------------------------------------------------------------
Expired(session, lifetime) ==
    \/ session.created_at + AbsoluteLifetime <= clock
    \/ session.last_access_at + lifetime <= clock

(* Mutant of Retained: create_or_authorize forgets to prune.               *)
RetainedAll(lifetime) == Live

(* What prune retains.                                                     *)
Retained(lifetime) == {t \in Live : ~Expired(sessions[t], lifetime)}

(* Mutant of LeastRecent: max_by_key for min_by_key.                       *)
MostRecent(T) ==
    {t \in T : \A u \in T : sessions[t].last_access_at >= sessions[u].last_access_at}

(* The sessions of T that were used least recently: the clock may not tell *)
(* them apart, then the map's order decides.                               *)
LeastRecent(T) ==
    {t \in T : \A u \in T : sessions[t].last_access_at <= sessions[u].last_access_at}

(* What survives the creation of a session after a prune.                  *)
Survivors(T) ==
    IF Cardinality(T) < MaxSessions THEN {T} ELSE {T \ {t} : t \in LeastRecent(T)}

(* create_or_authorize, when the presented token names a session of the    *)
(* same address that outlives the prune.                                   *)
Reusable(token, ip, lifetime) ==
    token \in Retained(lifetime) /\ sessions[token].source_ip = ip

AuthorizeExisting(token, ip, share, revision, lifetime) ==
    /\ Reusable(token, ip, lifetime)
    /\ sessions' = [Restrict(sessions, Retained(lifetime)) EXCEPT
                       ![token] = [@ EXCEPT !.authorized_shares[share] = revision,
                                            !.last_access_at = clock]]
    /\ UNCHANGED issuedTo

NewSession(ip, share, revision) ==
    [authorized_shares |-> [s \in Shares |-> IF s = share THEN revision ELSE NoRevision],
     source_ip |-> ip, created_at |-> clock, last_access_at |-> clock]

(* Mutant of CreateSession: the token that was presented is used again.    *)
CreateUnderPresented(existing, ip, share, revision, lifetime, token) ==
    /\ ~Reusable(existing, ip, lifetime)
    /\ issuedTo[token] = NoClient \/ token = existing
    /\ \E kept \in Survivors(Retained(lifetime)) :
          sessions' = [t \in kept \cup {token} |->
                          IF t = token THEN NewSession(ip, share, revision)
                          ELSE sessions[t]]
    /\ issuedTo' = [issuedTo EXCEPT ![token] = ip]

(* create_or_authorize, when it makes a session under a fresh token.       *)
CreateSession(existing, ip, share, revision, lifetime, token) ==
    /\ ~Reusable(existing, ip, lifetime)
    /\ issuedTo[token] = NoClient
    /\ \E kept \in Survivors(Retained(lifetime)) :
          sessions' = [t \in kept \cup {token} |->
                          IF t = token THEN NewSession(ip, share, revision)
                          ELSE sessions[t]]
    /\ issuedTo' = [issuedTo EXCEPT ![token] = ip]

(* token is what the call returns.                                         *)
CreateOrAuthorize(existing, ip, share, revision, lifetime, token) ==
    \/ token = existing /\ AuthorizeExisting(token, ip, share, revision, lifetime)
    \/ CreateSession(existing, ip, share, revision, lifetime, token)

-----------------------------------------------------------------------------
(* authorized: removes the presented session if it has expired, refreshes  *)
(* it if it opens the share, and leaves every other session alone.         *)

(* Mutant of Opens: the source address is not compared.                    *)
OpensAnywhere(token, ip, share, revision, lifetime) ==
    /\ token \in Live
    /\ ~Expired(sessions[token], lifetime)
    /\ sessions[token].authorized_shares[share] = revision

Opens(token, ip, share, revision, lifetime) ==
    /\ token \in Live
    /\ ~Expired(sessions[token], lifetime)
    /\ sessions[token].source_ip = ip
    /\ sessions[token].authorized_shares[share] = revision

AuthorizedTrue(token, ip, share, revision, lifetime) ==
    /\ Opens(token, ip, share, revision, lifetime)
    /\ sessions' = [sessions EXCEPT ![token].last_access_at = clock]
    /\ UNCHANGED issuedTo

AuthorizedFalse(token, ip, share, revision, lifetime) ==
    /\ ~Opens(token, ip, share, revision, lifetime)
    /\ sessions' = IF token \in Live /\ Expired(sessions[token], lifetime)
                   THEN Restrict(sessions, Live \ {token}) ELSE sessions
    /\ UNCHANGED issuedTo

-----------------------------------------------------------------------------
(* Locking on the tokens of T: one session for lock_share, all of them for *)
(* revoke_share.                                                           *)
LockOn(T, share) ==
    /\ sessions' = [t \in Live |->
                       IF t \in T
                       THEN [sessions[t] EXCEPT !.authorized_shares[share] = NoRevision]
                       ELSE sessions[t]]
    /\ UNCHANGED issuedTo

LockShare(token, share) == LockOn({token}, share)
RevokeShare(share) == LockOn(Live, share)

EndSessions(T) ==
    /\ sessions' = Restrict(sessions, Live \ T)
    /\ UNCHANGED issuedTo

Logout(token) == EndSessions({token})
RevokeAll == EndSessions(Live)

Tick == clock < MaxTime /\ clock' = clock + 1 /\ UNCHANGED storeVars

Call ==
    \/ \E cookie \in Tokens \cup {NoToken}, token \in Tokens, ip \in Clients,
          share \in Shares, revision \in Revisions, lifetime \in Lifetimes :
          \/ CreateOrAuthorize(cookie, ip, share, revision, lifetime, token)
          \/ AuthorizedTrue(cookie, ip, share, revision, lifetime)
          \/ AuthorizedFalse(cookie, ip, share, revision, lifetime)
    \/ \E cookie \in Tokens \cup {NoToken} :
          \/ Logout(cookie)
          \/ \E share \in Shares : LockShare(cookie, share)
    \/ \E share \in Shares : RevokeShare(share)
    \/ RevokeAll

Next == Tick \/ (Call /\ UNCHANGED clock)

Spec == Init /\ [][Next]_vars

-----------------------------------------------------------------------------
(* Properties.                                                             *)

(* sessions holds Session records under issued tokens, created no later    *)
(* than they were last used and never used in the future.                  *)
TypeOK ==
    /\ clock \in 0..MaxTime
    /\ issuedTo \in [Tokens -> Clients \cup {NoClient}]
    /\ Live \subseteq Tokens
    /\ sessions \in [Live -> Session]
    /\ \A t \in Live : /\ sessions[t].created_at <= sessions[t].last_access_at
                       /\ sessions[t].last_access_at <= clock

(* MAX_SESSIONS bounds the store whatever the mix of lifetimes, and making *)
(* room never takes the session that is being created.                     *)
StoreBounded == Cardinality(Live) <= MaxSessions

(* A step uses the session, or gives it a share.                           *)
Used(t) ==
    \/ sessions'[t].last_access_at # sessions[t].last_access_at
    \/ \E s \in Shares : sessions'[t].authorized_shares[s]
                            \notin {sessions[t].authorized_shares[s], NoRevision}

(* An expired session is never brought back to life: a session is used, or *)
(* gains a share, only while it is younger than the absolute lifetime and  *)
(* within some configured idle lifetime, and no use moves its creation, so *)
(* that 24 hours after the first unlock it is over however busy it was.    *)
NeverRevived ==
    [][\A t \in Live \cap Live' :
          /\ sessions'[t].created_at = sessions[t].created_at
          /\ Used(t) => \E lifetime \in Lifetimes : ~Expired(sessions[t], lifetime)]_vars

(* No configured lifetime has expired the session.                         *)
Fresh(t) == \A lifetime \in Lifetimes : ~Expired(sessions[t], lifetime)

(* A session that no configured lifetime has expired makes room for a new  *)
(* one only in a full store, only alone, and only if nothing that stays    *)
(* was used less recently (prune runs first, then min_by_key).             *)
EvictsLeastRecent ==
    [][Live' \ Live # {} =>
          \A t \in Live \ Live' : Fresh(t) =>
             /\ Cardinality(Live) >= MaxSessions
             /\ \A u \in Live \ {t} : Fresh(u) => u \in Live'
             /\ \A u \in Live \cap Live' :
                   sessions[t].last_access_at <= sessions[u].last_access_at]_vars

(* The store implements the grants it promises: one address per token for  *)
(* ever, no token that ended honoured again, and no call adding more than  *)
(* the one grant it was made for or touching a grant it was not made for   *)
(* except by ending a whole session.                                       *)
GrantsOf == {g \in Live \X Shares \X Revisions :
                sessions[g[1]].authorized_shares[g[2]] = g[3]}

Grants == INSTANCE SessionGrants WITH live <- Live, grants <- GrantsOf
ImplementsGrants == Grants!GrantsSpec
=============================================================================
