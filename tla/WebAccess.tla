------------------------------ MODULE WebAccess ------------------------------
(***************************************************************************)
(* The password-protected shares as browsers meet them: the handlers of    *)
(* src/src/server.rs that unlock, lock, log out and read, composed with    *)
(* the session store and the failure table, while the owner edits shares   *)
(* and revokes sessions.                                                   *)
(*                                                                         *)
(* A request is a handler with its own snapshot of what it has read; it    *)
(* runs to its next lock or await in one action.  Passwords are numbered   *)
(* by the credential revision they belong to.                              *)
(***************************************************************************)
EXTENDS Naturals, FiniteSets, Sequences

CONSTANTS
    Handlers,    \* requests in progress at once
    Browsers,    \* cookie jars
    Clients,     \* source addresses; a browser may come from any
    NoClient,
    Tokens,
    NoToken,
    Shares,
    NoShare,
    Slugs,
    MaxRevision, \* bound on the credential revision of a share
    IdleLifetime, AbsoluteLifetime, MaxSessions,
    MaxFailures, MaxAuthClients, AuthWindow,
    MaxTime,     \* bound on the clock
    MaxEdits,    \* bound on the owner's edits
    MaxRequests  \* bound on the requests that arrive

Revisions == 1..MaxRevision
NoRevision == 0
Modes == {"off", "public", "password"}

ASSUME NamesType ==
    /\ NoShare \notin Shares
    /\ NoClient \notin Clients
    /\ IsFiniteSet(Tokens) /\ Tokens # {} /\ NoToken \notin Tokens
ASSUME LimitsType ==
    /\ {IdleLifetime, AbsoluteLifetime, MaxSessions} \subseteq Nat \ {0}
    /\ {MaxFailures, MaxAuthClients, AuthWindow, MaxRevision} \subseteq Nat \ {0}
    /\ {MaxTime, MaxEdits, MaxRequests} \subseteq Nat

VARIABLES
    clock,
    web,       \* the web settings of each share, owned by FileShareService
    edits,     \* how many edits the owner has made
    arrived,   \* how many requests have arrived
    sessions, issuedTo,  \* SessionStore
    failures,  \* the table of AuthFailures
    jar,       \* the session cookie each browser holds
    req,       \* each handler's request
    earned     \* history: the <<address, share, revision>> that passwords opened

Store == INSTANCE SessionStore WITH Lifetimes <- {IdleLifetime}
Limiter == INSTANCE AuthFailures WITH Keys <- Clients \X Shares

storeVars == <<sessions, issuedTo>>
vars == <<clock, web, edits, arrived, sessions, issuedTo, failures, jar, req, earned>>

(* The owner publishes no two shares under one slug.                       *)
SlugsUnique ==
    \A s, t \in Shares :
        s # t /\ web[s].mode # "off" /\ web[t].mode # "off" => web[s].slug # web[t].slug

(* A request: its input (who, from where, with which cookie and password), *)
(* the share it resolved, and what its last await returned.                *)
Idle == [pc |-> "idle"]

Init ==
    /\ clock = 0
    /\ web \in [Shares -> [slug : Slugs, mode : Modes, revision : {1}]]
    /\ SlugsUnique
    /\ edits = 0
    /\ arrived = 0
    /\ Store!StoreInit
    /\ Limiter!FailuresInit
    /\ jar = [b \in Browsers |-> NoToken]
    /\ req = [h \in Handlers |-> Idle]
    /\ earned = {}

Done(h) == req' = [req EXCEPT ![h] = Idle]
At(h, op, pc) == req[h].pc = pc /\ req[h].op = op
Goto(h, pc) == req' = [req EXCEPT ![h] = [@ EXCEPT !.pc = pc]]

(* Of a handler that has only to answer, the cookie it sets is left; of    *)
(* one that has only to serve, nothing.                                    *)
Responding(h, token) ==
    req' = [req EXCEPT ![h] = [pc |-> "respond", browser |-> req[h].browser, token |-> token]]
Serving(h) == req' = [req EXCEPT ![h] = [pc |-> "serve"]]

-----------------------------------------------------------------------------
(* FileShareService, as the gateway uses it.                               *)

(* web_share_by_slug: the share published under the slug, if there is one. *)
BySlug(slug) == {s \in Shares : web[s].slug = slug /\ web[s].mode # "off"}

(* verify_web_password: the share the slug names now, if it takes the      *)
(* password now.                                                           *)
Verified(slug, password) ==
    {s \in BySlug(slug) : web[s].mode = "password" /\ web[s].revision = password}

(* The owner edits one share: publishes, renames or sets a new password.   *)
EditShare(s, slug, mode, revision) ==
    /\ edits < MaxEdits
    /\ revision \in {web[s].revision, web[s].revision + 1}
    /\ web' = [web EXCEPT ![s] = [slug |-> slug, mode |-> mode, revision |-> revision]]
    /\ web' # web /\ SlugsUnique'
    /\ edits' = edits + 1
    /\ UNCHANGED <<clock, arrived, storeVars, failures, jar, req, earned>>

-----------------------------------------------------------------------------
(* A request arrives with what its browser knows at that moment.           *)
Arrive(h, op, b, ip, slug, password) ==
    /\ req[h] = Idle
    /\ arrived < MaxRequests
    /\ arrived' = arrived + 1
    /\ req' = [req EXCEPT ![h] =
                 [pc |-> "resolve", op |-> op, browser |-> b, ip |-> ip, slug |-> slug,
                  password |-> password, cookie |-> jar[b],
                  share |-> NoShare, revision |-> NoRevision,
                  verified |-> NoShare]]
    /\ UNCHANGED <<clock, web, edits, storeVars, failures, jar, earned>>

(* Of the share that was looked up, unlock and lock keep the id, a read    *)
(* the credential revision too.                                            *)
Resolved(h, s, revision, pc) ==
    req' = [req EXCEPT ![h] = [@ EXCEPT !.pc = pc, !.share = s, !.revision = revision]]

(* The share lookup every handler but logout begins with, and its early    *)
(* returns: not found, or for unlock not protected by a password.          *)
Resolve(h) ==
    /\ req[h].pc = "resolve" /\ req[h].op # "logout"
    /\ \/ BySlug(req[h].slug) = {} /\ Done(h)
       \/ \E s \in BySlug(req[h].slug) :
             \/ req[h].op = "unlock" /\ web[s].mode # "password" /\ Done(h)
             \/ /\ req[h].op = "unlock" /\ web[s].mode = "password"
                /\ Resolved(h, s, NoRevision, "check")
             \/ req[h].op = "lock" /\ Resolved(h, s, NoRevision, "lock")
             \/ req[h].op = "read" /\ web[s].mode = "public" /\ Serving(h)
             \/ /\ req[h].op = "read" /\ web[s].mode # "public"
                /\ Resolved(h, s, web[s].revision, "authorize")
    /\ UNCHANGED <<clock, web, edits, arrived, storeVars, failures, jar, earned>>

-----------------------------------------------------------------------------
(* unlock                                                                  *)

Key(h) == <<req[h].ip, req[h].share>>

CheckLimit(h) ==
    /\ At(h, "unlock", "check")
    /\ \/ Limiter!CheckLimit(Key(h), clock, TRUE) /\ Done(h)
       \/ Limiter!CheckLimit(Key(h), clock, FALSE) /\ Goto(h, "verify")
    /\ UNCHANGED <<clock, web, edits, arrived, storeVars, jar, earned>>

(* The blocking thread looks the slug up again: what it verifies, and the  *)
(* share and revision it returns, are those of that moment.                *)
Verify(h) ==
    /\ At(h, "unlock", "verify")
    /\ LET found == Verified(req[h].slug, req[h].password) IN
       \/ /\ found = {}
          /\ req' = [req EXCEPT ![h] = [@ EXCEPT !.pc = "record", !.cookie = NoToken,
                                                 !.password = NoRevision]]
          /\ UNCHANGED earned
       \/ \E s \in found :
             /\ req' = [req EXCEPT ![h] = [@ EXCEPT !.pc = "clear", !.verified = s,
                                                    !.revision = web[s].revision,
                                                    !.password = NoRevision]]
             /\ earned' = earned \cup {<<req[h].ip, s, web[s].revision>>}
    /\ UNCHANGED <<clock, web, edits, arrived, storeVars, failures, jar>>

(* The client disconnects while the hash runs: the handler is dropped.     *)
Disconnect(h) ==
    /\ At(h, "unlock", "verify")
    /\ Done(h)
    /\ UNCHANGED <<clock, web, edits, arrived, storeVars, failures, jar, earned>>

RecordFailure(h) ==
    /\ At(h, "unlock", "record")
    /\ Limiter!RecordFailure(Key(h), clock)
    /\ Done(h)
    /\ UNCHANGED <<clock, web, edits, arrived, storeVars, jar, earned>>

ClearFailures(h) ==
    /\ At(h, "unlock", "clear")
    /\ Limiter!ClearFailures(Key(h))
    /\ Goto(h, "grant")
    /\ UNCHANGED <<clock, web, edits, arrived, storeVars, jar, earned>>

(* Mutant of Grant: the revision is read again when the session opens.     *)
GrantCurrent(h) ==
    /\ At(h, "unlock", "grant")
    /\ \E token \in Tokens :
          /\ Store!CreateOrAuthorize(req[h].cookie, req[h].ip, req[h].verified,
                                     web[req[h].verified].revision, IdleLifetime, token)
          /\ Responding(h, token)
    /\ UNCHANGED <<clock, web, edits, arrived, failures, jar, earned>>

(* The session opens the share and revision that were verified.            *)
Grant(h) ==
    /\ At(h, "unlock", "grant")
    /\ \E token \in Tokens :
          /\ Store!CreateOrAuthorize(req[h].cookie, req[h].ip, req[h].verified,
                                     req[h].revision, IdleLifetime, token)
          /\ Responding(h, token)
    /\ UNCHANGED <<clock, web, edits, arrived, failures, jar, earned>>

-----------------------------------------------------------------------------
(* lock and logout                                                         *)

Lock(h) ==
    /\ At(h, "lock", "lock")
    /\ Store!LockShare(req[h].cookie, req[h].share)
    /\ Done(h)
    /\ UNCHANGED <<clock, web, edits, arrived, failures, jar, earned>>

Logout(h) ==
    /\ At(h, "logout", "resolve")
    /\ Store!Logout(req[h].cookie)
    /\ Responding(h, NoToken)
    /\ UNCHANGED <<clock, web, edits, arrived, failures, jar, earned>>

(* The Set-Cookie of an unlock or logout reaches the browser, in whatever  *)
(* order responses arrive, or is lost with its connection.                 *)
Respond(h) ==
    /\ req[h].pc = "respond"
    /\ \/ jar' = [jar EXCEPT ![req[h].browser] = req[h].token]
       \/ UNCHANGED jar
    /\ Done(h)
    /\ UNCHANGED <<clock, web, edits, arrived, storeVars, failures, earned>>

-----------------------------------------------------------------------------
(* authorized_share, then the await on the file service that serves it.    *)

Authorize(h) ==
    LET r == req[h] IN
    /\ At(h, "read", "authorize")
    /\ \/ /\ Store!AuthorizedTrue(r.cookie, r.ip, r.share, r.revision, IdleLifetime)
          /\ Serving(h)
       \/ /\ Store!AuthorizedFalse(r.cookie, r.ip, r.share, r.revision, IdleLifetime)
          /\ Done(h)
    /\ UNCHANGED <<clock, web, edits, arrived, failures, jar, earned>>

Serve(h) ==
    /\ req[h].pc = "serve"
    /\ Done(h)
    /\ UNCHANGED <<clock, web, edits, arrived, storeVars, failures, jar, earned>>

-----------------------------------------------------------------------------
(* revoke_sessions.  What passwords opened before counts no more, except   *)
(* for an unlock whose password is verified and not yet granted.           *)

Pending ==
    {<<req[h].ip, req[h].verified, req[h].revision>> :
        h \in {h \in Handlers : req[h].pc \in {"clear", "grant"}}}

RevokeShare(s) ==
    /\ Store!RevokeShare(s)
    /\ earned' = {e \in earned : e[2] # s} \cup (earned \cap Pending)
    /\ UNCHANGED <<clock, web, edits, arrived, failures, jar, req>>

RevokeAll ==
    /\ Store!RevokeAll
    /\ earned' = earned \cap Pending
    /\ UNCHANGED <<clock, web, edits, arrived, failures, jar, req>>

Tick ==
    /\ clock < MaxTime
    /\ clock' = clock + 1
    /\ UNCHANGED <<web, edits, arrived, storeVars, failures, jar, req, earned>>

Request(h) ==
    \/ \E b \in Browsers, ip \in Clients, slug \in Slugs :
          \/ \E password \in Revisions : Arrive(h, "unlock", b, ip, slug, password)
          \/ \E op \in {"lock", "logout", "read"} :
                Arrive(h, op, b, ip, slug, NoRevision)
    \/ Resolve(h) \/ CheckLimit(h) \/ Verify(h) \/ Disconnect(h) \/ RecordFailure(h)
    \/ ClearFailures(h) \/ Grant(h) \/ Lock(h) \/ Logout(h) \/ Respond(h)
    \/ Authorize(h) \/ Serve(h)

Owner ==
    \/ \E s \in Shares :
          \/ RevokeShare(s)
          \/ \E slug \in Slugs, mode \in Modes, revision \in Revisions :
                EditShare(s, slug, mode, revision)
    \/ RevokeAll

Next == Tick \/ Owner \/ \E h \in Handlers : Request(h)

Spec == Init /\ [][Next]_vars

-----------------------------------------------------------------------------
(* Properties.                                                             *)

Places == {"resolve", "check", "verify", "record", "clear", "grant", "lock", "authorize"}

(* A request in progress: past its lookup it has a share, past its hash a  *)
(* share and the revision that were verified.                              *)
InProgress ==
    {r \in [pc : Places, op : {"unlock", "lock", "logout", "read"}, browser : Browsers,
            ip : Clients, slug : Slugs, password : Revisions \cup {NoRevision},
            cookie : Tokens \cup {NoToken}, share : Shares \cup {NoShare},
            revision : Revisions \cup {NoRevision}, verified : Shares \cup {NoShare}] :
        /\ r.pc # "resolve" => r.share \in Shares
        /\ r.pc \in {"clear", "grant"} => r.verified \in Shares
        /\ r.pc \in {"clear", "grant", "authorize"} => r.revision \in Revisions}

Responses == [pc : {"respond"}, browser : Browsers, token : Tokens \cup {NoToken}]

(* A cookie the gateway has set, or none.                                  *)
Issued(token) == token # NoToken => issuedTo[token] # NoClient

(* The composition keeps the store's own type invariant, no instant in the *)
(* failure table lies ahead of the clock, a request in progress carries    *)
(* only what it has looked up, and a browser, or a response on its way to  *)
(* one, holds only a cookie that was issued.                               *)
TypeOK ==
    /\ Store!TypeOK
    /\ web \in [Shares -> [slug : Slugs, mode : Modes, revision : Revisions]]
    /\ failures \in [Clients \X Shares -> Seq(0..clock)]
    /\ jar \in [Browsers -> Tokens \cup {NoToken}]
    /\ \A b \in Browsers : Issued(jar[b])
    /\ edits \in 0..MaxEdits
    /\ arrived \in 0..MaxRequests
    /\ req \in [Handlers -> InProgress \cup Responses \cup {Idle, [pc |-> "serve"]}]
    /\ \A h \in Handlers : req[h].pc = "respond" => Issued(req[h].token)
    /\ earned \subseteq Clients \X Shares \X Revisions

(* A password-protected share is served only to an address that has itself *)
(* presented the password of the revision in force when the request        *)
(* resolved the share, and since the sessions were last revoked: whatever  *)
(* the interleaving of unlocks, locks, logouts, edits, renames and         *)
(* revocations, and whichever cookies travel between addresses.            *)
ReadsEarned ==
    [][\A h \in Handlers :
          req[h].pc = "authorize" /\ req'[h].pc = "serve" =>
             <<req[h].ip, req[h].share, req[h].revision>> \in earned]_vars

(* A cookie serves only its own address, only while its session lives, and *)
(* never again after that: not when a logout, a revocation, an eviction or *)
(* the clock ended the session while other requests carried the cookie,    *)
(* nor when one of them, its password verified before the end, is granted  *)
(* a share after it.                                                       *)
CookiesEndForGood ==
    [][/\ \A t \in Tokens \ Store!Live :
             issuedTo[t] # NoClient => issuedTo'[t] # NoClient /\ t \notin Store!Live'
       /\ \A h \in Handlers :
             req[h].pc = "authorize" /\ req'[h].pc = "serve" =>
                /\ req[h].cookie \in Store!Live
                /\ issuedTo[req[h].cookie] = req[h].ip]_vars
=============================================================================
