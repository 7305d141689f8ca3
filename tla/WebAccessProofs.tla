--------------------------- MODULE WebAccessProofs ---------------------------
(***************************************************************************)
(* The handlers on top of the session store and the failure table, for any *)
(* number of requests, browsers, addresses, shares and edits.              *)
(*                                                                         *)
(* The argument.  What a request has read fits where it is (Control).      *)
(* Every share a session opens was opened by a password presented from the *)
(* session's own address (Opened), because a grant is made only for what   *)
(* its own request verified (PendingEarned), and a reused session belongs  *)
(* to the same address.  The store and the table are used as their own     *)
(* modules allow, so that their theorems hold here: the two INSTANCEs      *)
(* bring them, and the Same lemmas identify the two copies of each name.   *)
(***************************************************************************)
EXTENDS WebAccess, SequenceTheorems, FiniteSetTheorems, TLAPS

StoreProofs == INSTANCE SessionStoreProofs WITH Lifetimes <- {IdleLifetime}
\* Only what holds of any table is used, so no attempt is mapped.
LimiterProofs == INSTANCE AuthLimiterProofs WITH
    Keys <- Clients \X Shares, Attempts <- {0}, MaxAttempts <- 0,
    pc <- <<>>, key <- <<>>, now <- <<>>, wrong <- failures, lost <- {}, begun <- 0

(* What WebAccess assumes of its constants covers what the store assumes.  *)
LEMMA StoreAssumptions ==
    ASSUME NamesType, LimitsType
    PROVE  /\ StoreProofs!TokensType
           /\ StoreProofs!ClientsType
           /\ StoreProofs!RevisionsType
           /\ StoreProofs!LifetimeType
           /\ StoreProofs!MaxSessionsType
  <1>1. IsFiniteSet(Tokens) => StoreProofs!IsFiniteSet(Tokens)
    BY DEF IsFiniteSet, StoreProofs!IsFiniteSet
  <1>2. StoreProofs!TokensType /\ StoreProofs!ClientsType
    BY <1>1 DEF NamesType, StoreProofs!TokensType, StoreProofs!ClientsType
  <1>3. StoreProofs!RevisionsType
    BY DEF LimitsType, StoreProofs!RevisionsType, Revisions, NoRevision
  <1>4. StoreProofs!LifetimeType /\ StoreProofs!MaxSessionsType
    BY DEF LimitsType, StoreProofs!LifetimeType, StoreProofs!MaxSessionsType
  <1> QED BY <1>2, <1>3, <1>4

(* The store of WebAccess is the one the proofs are about.                 *)
LEMMA SameRetained ==
    /\ \A r, l : Store!Expired(r, l) = StoreProofs!Expired(r, l)
    /\ Store!Live = StoreProofs!Live
    /\ \A l : Store!Retained(l) = StoreProofs!Retained(l)
  <1>1. \A r, l : Store!Expired(r, l) = StoreProofs!Expired(r, l)
    BY DEF Store!Expired, StoreProofs!Expired
  <1>2. Store!Live = StoreProofs!Live
    BY DEF Store!Live, StoreProofs!Live
  <1>3. \A l : Store!Retained(l) = StoreProofs!Retained(l)
    BY <1>1, <1>2 DEF Store!Retained, StoreProofs!Retained
  <1> QED BY <1>1, <1>2, <1>3

LEMMA SameSurvivors == \A T : Store!Survivors(T) = StoreProofs!Survivors(T)
  <1>1. \A T : Store!Cardinality(T) = StoreProofs!Cardinality(T)
    BY DEF Store!Cardinality, StoreProofs!Cardinality
  <1>2. \A T : Store!LeastRecent(T) = StoreProofs!LeastRecent(T)
    BY DEF Store!LeastRecent, StoreProofs!LeastRecent
  <1> QED BY <1>1, <1>2 DEF Store!Survivors, StoreProofs!Survivors

LEMMA SameTypes ==
    /\ Store!Session = StoreProofs!Session
    /\ Store!TypeOK <=> StoreProofs!TypeOK
    /\ \A i, s, v : Store!NewSession(i, s, v) = StoreProofs!NewSession(i, s, v)
    /\ \A f, T : Store!Restrict(f, T) = StoreProofs!Restrict(f, T)
  <1>1. Store!Session = StoreProofs!Session
    BY DEF Store!Session, StoreProofs!Session
  <1>2. Store!TypeOK <=> StoreProofs!TypeOK
    BY <1>1, SameRetained DEF Store!TypeOK, StoreProofs!TypeOK
  <1>3. \A i, s, v : Store!NewSession(i, s, v) = StoreProofs!NewSession(i, s, v)
    BY DEF Store!NewSession, StoreProofs!NewSession
  <1>4. \A f, T : Store!Restrict(f, T) = StoreProofs!Restrict(f, T)
    BY DEF Store!Restrict, StoreProofs!Restrict
  <1> QED BY <1>1, <1>2, <1>3, <1>4

LEMMA SameCreation ==
    \A c, i, s, v, l, t :
       /\ Store!AuthorizeExisting(t, i, s, v, l) <=> StoreProofs!AuthorizeExisting(t, i, s, v, l)
       /\ Store!CreateSession(c, i, s, v, l, t) <=> StoreProofs!CreateSession(c, i, s, v, l, t)
       /\ Store!CreateOrAuthorize(c, i, s, v, l, t) <=> StoreProofs!CreateOrAuthorize(c, i, s, v, l, t)
  <1>1. \A t, i, l : Store!Reusable(t, i, l) <=> StoreProofs!Reusable(t, i, l)
    BY SameRetained DEF Store!Reusable, StoreProofs!Reusable
  <1>2. \A t, i, s, v, l :
          Store!AuthorizeExisting(t, i, s, v, l) <=> StoreProofs!AuthorizeExisting(t, i, s, v, l)
    BY <1>1, SameRetained, SameTypes DEF Store!AuthorizeExisting, StoreProofs!AuthorizeExisting
  <1>3. \A c, i, s, v, l, t :
          Store!CreateSession(c, i, s, v, l, t) <=> StoreProofs!CreateSession(c, i, s, v, l, t)
    <2> TAKE c, i, s, v, l, t
    <2>1. \A kept : [u \in kept \cup {t} |->
                        IF u = t THEN Store!NewSession(i, s, v) ELSE sessions[u]]
                 = [u \in kept \cup {t} |->
                        IF u = t THEN StoreProofs!NewSession(i, s, v) ELSE sessions[u]]
      BY SameTypes
    <2>2. Store!Survivors(Store!Retained(l)) = StoreProofs!Survivors(StoreProofs!Retained(l))
      BY SameRetained, SameSurvivors
    <2> QED BY <1>1, <2>1, <2>2 DEF Store!CreateSession, StoreProofs!CreateSession
  <1> QED BY <1>2, <1>3 DEF Store!CreateOrAuthorize, StoreProofs!CreateOrAuthorize

LEMMA SameAuthorization ==
    \A t, i, s, v, l :
       /\ Store!Opens(t, i, s, v, l) <=> StoreProofs!Opens(t, i, s, v, l)
       /\ Store!AuthorizedTrue(t, i, s, v, l) <=> StoreProofs!AuthorizedTrue(t, i, s, v, l)
       /\ Store!AuthorizedFalse(t, i, s, v, l) <=> StoreProofs!AuthorizedFalse(t, i, s, v, l)
  <1>1. \A t, i, s, v, l : Store!Opens(t, i, s, v, l) <=> StoreProofs!Opens(t, i, s, v, l)
    BY SameRetained DEF Store!Opens, StoreProofs!Opens
  <1>2. \A t, i, s, v, l :
          Store!AuthorizedTrue(t, i, s, v, l) <=> StoreProofs!AuthorizedTrue(t, i, s, v, l)
    BY <1>1 DEF Store!AuthorizedTrue, StoreProofs!AuthorizedTrue
  <1>3. \A t, i, s, v, l :
          Store!AuthorizedFalse(t, i, s, v, l) <=> StoreProofs!AuthorizedFalse(t, i, s, v, l)
    BY <1>1, SameRetained, SameTypes DEF Store!AuthorizedFalse, StoreProofs!AuthorizedFalse
  <1> QED BY <1>1, <1>2, <1>3

LEMMA SameEndings ==
    /\ \A T, s : Store!LockOn(T, s) <=> StoreProofs!LockOn(T, s)
    /\ \A T : Store!EndSessions(T) <=> StoreProofs!EndSessions(T)
  BY SameRetained, SameTypes DEF Store!LockOn, StoreProofs!LockOn, Store!EndSessions,
     StoreProofs!EndSessions

LEMMA SameStep == [Store!Next]_(Store!vars) => [StoreProofs!Next]_(StoreProofs!vars)
  <1>2. Store!vars = StoreProofs!vars
    BY DEF Store!vars, StoreProofs!vars
  <1>3. /\ \A c, s : Store!LockShare(c, s) <=> StoreProofs!LockShare(c, s)
        /\ \A c : Store!Logout(c) <=> StoreProofs!Logout(c)
        /\ \A s : Store!RevokeShare(s) <=> StoreProofs!RevokeShare(s)
        /\ Store!RevokeAll <=> StoreProofs!RevokeAll
    BY SameRetained, SameEndings DEF Store!LockShare, StoreProofs!LockShare, Store!Logout,
       StoreProofs!Logout, Store!RevokeShare, StoreProofs!RevokeShare, Store!RevokeAll,
       StoreProofs!RevokeAll
  <1>4. Store!Call => StoreProofs!Call
    <2>1. ASSUME NEW cookie \in Tokens \cup {NoToken}, NEW token \in Tokens,
                 NEW ip \in Clients, NEW share \in Shares, NEW revision \in Revisions,
                 NEW lifetime \in {IdleLifetime},
                 \/ Store!CreateOrAuthorize(cookie, ip, share, revision, lifetime, token)
                 \/ Store!AuthorizedTrue(cookie, ip, share, revision, lifetime)
                 \/ Store!AuthorizedFalse(cookie, ip, share, revision, lifetime)
          PROVE  StoreProofs!Call
      <3>1. \/ StoreProofs!CreateOrAuthorize(cookie, ip, share, revision, lifetime, token)
            \/ StoreProofs!AuthorizedTrue(cookie, ip, share, revision, lifetime)
            \/ StoreProofs!AuthorizedFalse(cookie, ip, share, revision, lifetime)
        BY <2>1, SameCreation, SameAuthorization
      <3> QED BY <3>1 DEF StoreProofs!Call
    <2>2. ASSUME NEW cookie \in Tokens \cup {NoToken}, NEW share \in Shares,
                 Store!LockShare(cookie, share)
          PROVE  StoreProofs!Call
      BY <1>3, <2>2 DEF StoreProofs!Call
    <2>3. ASSUME NEW cookie \in Tokens \cup {NoToken}, Store!Logout(cookie)
          PROVE  StoreProofs!Call
      BY <1>3, <2>3 DEF StoreProofs!Call
    <2>4. ASSUME NEW share \in Shares, Store!RevokeShare(share)
          PROVE  StoreProofs!Call
      BY <1>3, <2>4 DEF StoreProofs!Call
    <2>5. Store!RevokeAll => StoreProofs!Call
      BY <1>3 DEF StoreProofs!Call
    <2> QED BY <2>1, <2>2, <2>3, <2>4, <2>5 DEF Store!Call
  <1>5. Store!Tick <=> StoreProofs!Tick
    BY DEF Store!Tick, StoreProofs!Tick, Store!storeVars, StoreProofs!storeVars
  <1> QED BY <1>4, <1>5 DEF Store!Next, StoreProofs!Next, Store!vars, StoreProofs!vars

-----------------------------------------------------------------------------
(* Requests.                                                               *)

Requests == InProgress \cup Responses \cup {Idle, [pc |-> "serve"]}

Control ==
    /\ web \in [Shares -> [slug : Slugs, mode : Modes, revision : Revisions]]
    /\ jar \in [Browsers -> Tokens \cup {NoToken}]
    /\ edits \in 0..MaxEdits
    /\ arrived \in 0..MaxRequests
    /\ req \in [Handlers -> Requests]

(* Where a request is tells what it is.                                    *)
LEMMA RequestAt ==
    ASSUME Control, NEW h \in Handlers
    PROVE  /\ req[h].pc \in Places => req[h] \in InProgress
           /\ req[h].pc = "respond" => req[h] \in Responses
  <1>1. req[h] \in Requests
    BY DEF Control
  <1> QED BY <1>1 DEF Requests, InProgress, Responses, Places, Idle

(* Moving on within a handler.                                             *)
LEMMA GotoRequest ==
    ASSUME NEW r \in InProgress, NEW pc \in Places,
           pc # "resolve" => r.share \in Shares,
           pc \in {"clear", "grant"} => r.verified \in Shares,
           pc \in {"clear", "grant", "authorize"} => r.revision \in Revisions
    PROVE  [r EXCEPT !.pc = pc] \in InProgress
  BY DEF InProgress

LEMMA ResolvedRequest ==
    ASSUME NEW r \in InProgress, NEW pc \in {"check", "lock", "authorize"}, NEW s \in Shares,
           NEW revision \in Revisions \cup {NoRevision},
           pc = "authorize" => revision \in Revisions
    PROVE  [r EXCEPT !.pc = pc, !.share = s, !.revision = revision] \in InProgress
  BY DEF InProgress, Places

LEMMA VerifiedRequest ==
    ASSUME NEW r \in InProgress, r.share \in Shares, NEW s \in Shares,
           NEW revision \in Revisions
    PROVE  /\ [r EXCEPT !.pc = "clear", !.verified = s, !.revision = revision,
                        !.password = NoRevision] \in InProgress
           /\ [r EXCEPT !.pc = "record", !.cookie = NoToken, !.password = NoRevision]
                 \in InProgress
  BY DEF InProgress, Places

LEMMA ArrivingRequest ==
    ASSUME NEW op \in {"unlock", "lock", "logout", "read"}, NEW b \in Browsers,
           NEW ip \in Clients, NEW slug \in Slugs,
           NEW password \in Revisions \cup {NoRevision}, NEW cookie \in Tokens \cup {NoToken}
    PROVE  [pc |-> "resolve", op |-> op, browser |-> b, ip |-> ip, slug |-> slug,
            password |-> password, cookie |-> cookie, share |-> NoShare,
            revision |-> NoRevision, verified |-> NoShare] \in InProgress
  BY DEF InProgress, Places

LEMMA ControlStep == ASSUME LimitsType, Control, [Next]_vars PROVE Control'
  <1> DEFINE Put(h) == \E r \in Requests : req' = [req EXCEPT ![h] = r]
  <1>1. ASSUME NEW h \in Handlers, Put(h), UNCHANGED <<web, jar, edits, arrived>>
        PROVE  Control'
    BY <1>1 DEF Control
  <1>2. ASSUME NEW h \in Handlers, Done(h)
        PROVE  Put(h)
    BY <1>2 DEF Done, Requests
  <1>3. ASSUME NEW h \in Handlers, Serving(h)
        PROVE  Put(h)
    BY <1>3 DEF Serving, Requests
  <1>4. ASSUME NEW h \in Handlers, NEW token \in Tokens \cup {NoToken},
               req[h] \in InProgress, Responding(h, token)
        PROVE  Put(h)
    <2>1. [pc |-> "respond", browser |-> req[h].browser, token |-> token] \in Responses
      BY <1>4 DEF InProgress, Responses
    <2> QED BY <1>4, <2>1 DEF Responding, Requests
  <1>5. ASSUME NEW h \in Handlers, NEW r \in InProgress, req' = [req EXCEPT ![h] = r]
        PROVE  Put(h)
    BY <1>5 DEF Requests
  <1>6. ASSUME NEW h \in Handlers, NEW op \in {"unlock", "lock", "logout", "read"},
               NEW b \in Browsers, NEW ip \in Clients, NEW slug \in Slugs,
               NEW password \in Revisions \cup {NoRevision},
               Arrive(h, op, b, ip, slug, password)
        PROVE  Control'
    <2>1. jar[b] \in Tokens \cup {NoToken}
      BY DEF Control
    <2>2. Put(h)
      BY <1>5, <1>6, <2>1, ArrivingRequest DEF Arrive
    <2>3. arrived' \in 0..MaxRequests /\ UNCHANGED <<web, jar, edits>>
      BY <1>6 DEF Arrive, Control, LimitsType
    <2> QED BY <2>2, <2>3 DEF Control
  <1> HIDE DEF Put
  <1>7. ASSUME NEW h \in Handlers, Resolve(h)
        PROVE  Control'
    <2>1. req[h] \in InProgress
      BY <1>7, RequestAt DEF Resolve, Places
    <2>2. ASSUME NEW s \in Shares, NEW pc \in {"check", "lock", "authorize"},
                 NEW revision \in Revisions \cup {NoRevision},
                 pc = "authorize" => revision \in Revisions,
                 Resolved(h, s, revision, pc)
          PROVE  Put(h)
      BY <1>5, <2>1, <2>2, ResolvedRequest DEF Resolved
    <2>3. ASSUME NEW s \in BySlug(req[h].slug)
          PROVE  s \in Shares /\ web[s].revision \in Revisions
      BY DEF BySlug, Control
    <2>4. Put(h)
      BY <1>2, <1>3, <1>7, <2>2, <2>3 DEF Resolve
    <2> QED BY <1>1, <1>7, <2>4 DEF Resolve
  <1>8. ASSUME NEW h \in Handlers, CheckLimit(h)
        PROVE  Control'
    <2>1. req[h] \in InProgress /\ req[h].share \in Shares
      BY <1>8, RequestAt DEF CheckLimit, At, Places, InProgress
    <2>2. [req[h] EXCEPT !.pc = "verify"] \in InProgress
      BY <2>1, GotoRequest DEF Places
    <2>3. Put(h)
      BY <1>2, <1>5, <1>8, <2>2 DEF CheckLimit, Goto
    <2> QED BY <1>1, <1>8, <2>3 DEF CheckLimit
  <1>9. ASSUME NEW h \in Handlers, Verify(h)
        PROVE  Control'
    <2>1. req[h] \in InProgress /\ req[h].share \in Shares
      BY <1>9, RequestAt DEF Verify, At, Places, InProgress
    <2>2. [req[h] EXCEPT !.pc = "record", !.cookie = NoToken, !.password = NoRevision]
             \in InProgress
      <3>1. 1 \in Revisions
        BY DEF LimitsType, Revisions
      <3> QED BY <2>1, <3>1, VerifiedRequest
    <2>3. \A s \in Verified(req[h].slug, req[h].password) :
             [req[h] EXCEPT !.pc = "clear", !.verified = s, !.revision = web[s].revision,
                            !.password = NoRevision] \in InProgress
      BY <2>1, VerifiedRequest DEF Verified, BySlug, Control
    <2>4. Put(h)
      BY <1>5, <1>9, <2>2, <2>3 DEF Verify
    <2> QED BY <1>1, <1>9, <2>4 DEF Verify
  <1>10. ASSUME NEW h \in Handlers,
                Disconnect(h) \/ RecordFailure(h) \/ Lock(h) \/ Serve(h)
         PROVE  Control'
    BY <1>1, <1>2, <1>10 DEF Disconnect, RecordFailure, Lock, Serve
  <1>11. ASSUME NEW h \in Handlers, ClearFailures(h)
         PROVE  Control'
    <2>1. /\ req[h] \in InProgress /\ req[h].share \in Shares
          /\ req[h].verified \in Shares /\ req[h].revision \in Revisions
      BY <1>11, RequestAt DEF ClearFailures, At, Places, InProgress
    <2>2. [req[h] EXCEPT !.pc = "grant"] \in InProgress
      BY <2>1, GotoRequest DEF Places
    <2>3. Put(h)
      BY <1>5, <1>11, <2>2 DEF ClearFailures, Goto
    <2> QED BY <1>1, <1>11, <2>3 DEF ClearFailures
  <1>12. ASSUME NEW h \in Handlers, Grant(h) \/ Logout(h)
         PROVE  Control'
    <2>1. req[h] \in InProgress
      BY <1>12, RequestAt DEF Grant, Logout, At, Places
    <2>2. Put(h)
      BY <1>4, <1>12, <2>1 DEF Grant, Logout
    <2> QED BY <1>1, <1>12, <2>2 DEF Grant, Logout
  <1>13. ASSUME NEW h \in Handlers, Authorize(h)
         PROVE  Control'
    BY <1>1, <1>2, <1>3, <1>13 DEF Authorize
  <1>14. ASSUME NEW h \in Handlers, Respond(h)
         PROVE  Control'
    <2>1. req[h].browser \in Browsers /\ req[h].token \in Tokens \cup {NoToken}
      BY <1>14, RequestAt DEF Respond, Responses
    <2>2. Put(h) /\ UNCHANGED <<web, edits, arrived>>
      BY <1>2, <1>14 DEF Respond
    <2>3. jar' \in [Browsers -> Tokens \cup {NoToken}]
      BY <1>14, <2>1 DEF Respond, Control
    <2> QED BY <2>2, <2>3 DEF Put, Control
  <1>15. ASSUME NEW s \in Shares, NEW slug \in Slugs, NEW mode \in Modes,
                NEW revision \in Revisions, EditShare(s, slug, mode, revision)
         PROVE  Control'
    BY <1>15 DEF EditShare, Control, LimitsType
  <1>16. ASSUME Tick \/ RevokeAll \/ (\E s \in Shares : RevokeShare(s)) \/ UNCHANGED vars
         PROVE  Control'
    BY <1>16 DEF Tick, RevokeAll, RevokeShare, vars, Control
  <1> QED
    BY <1>6, <1>7, <1>8, <1>9, <1>10, <1>11, <1>12, <1>13, <1>14, <1>15, <1>16
       DEF Next, Owner, Request

-----------------------------------------------------------------------------
(* The failure table.                                                      *)

Table == failures \in [Clients \X Shares -> Seq(0..clock)]

LEMMA SamePruned ==
    ASSUME NEW t
    PROVE  Limiter!Pruned(t) = LimiterProofs!Pruned(t)
  <1>1. \A a, u : Limiter!Old(a, u) <=> LimiterProofs!Old(a, u)
    BY DEF Limiter!Old, LimiterProofs!Old
  <1>2. \A a, u : Limiter!PopOld(a, u) = LimiterProofs!PopOld(a, u)
    BY <1>1 DEF Limiter!PopOld, LimiterProofs!PopOld
  <1> QED BY <1>2 DEF Limiter!Pruned, LimiterProofs!Pruned

LEMMA PrunedTyped ==
    ASSUME LimitsType, Table, NEW t
    PROVE  Limiter!Pruned(t) \in [Clients \X Shares -> Seq(0..clock)]
  <1>1. LimiterProofs!LimitsType /\ LimiterProofs!AttemptsType
    <2>1. LimiterProofs!IsFiniteSet({0})
      <3>1. IsFiniteSet({0})
        BY FS_Singleton
      <3> QED BY <3>1 DEF IsFiniteSet, LimiterProofs!IsFiniteSet
    <2> QED BY <2>1 DEF LimitsType, LimiterProofs!LimitsType, LimiterProofs!AttemptsType
  <1>2. failures \in LimiterProofs!Tables(0..clock)
    BY DEF Table, LimiterProofs!Tables
  <1>3. LimiterProofs!Pruned(t) \in LimiterProofs!Tables(0..clock)
    BY <1>1, <1>2, LimiterProofs!PrunedTable
  <1> QED BY <1>3, SamePruned DEF LimiterProofs!Tables

(* Only a record adds an instant, that of the clock; only a tick moves it. *)
LEMMA TableStep ==
    ASSUME LimitsType, Control, clock \in 0..MaxTime, Table, [Next]_vars
    PROVE  Table'
  <1>1. clock \in Nat /\ clock \in 0..clock
    BY DEF LimitsType
  <1>2. CASE UNCHANGED <<failures, clock>>
    BY <1>2 DEF Table
  <1>3. CASE Tick
    <2>1. clock' = clock + 1 /\ failures' = failures
      BY <1>3 DEF Tick
    <2>2. ASSUME NEW s \in Seq(0..clock)
          PROVE  s \in Seq(0..(clock + 1))
      <3>1. Len(s) \in Nat /\ s = [i \in 1..Len(s) |-> s[i]]
        OBVIOUS
      <3>2. \A i \in 1..Len(s) : s[i] \in 0..clock
        BY <3>1, ElementOfSeq
      <3>3. \A x \in 0..clock : x \in 0..(clock + 1)
        BY <1>1
      <3>4. \A i \in 1..Len(s) : s[i] \in 0..(clock + 1)
        BY <3>2, <3>3
      <3> QED BY <3>1, <3>4, IsASeq
    <2> QED BY <2>1, <2>2 DEF Table
  <1>4. ASSUME NEW h \in Handlers, CheckLimit(h) PROVE Table'
    <2>1. failures' = Limiter!Pruned(clock) /\ clock' = clock
      BY <1>4 DEF CheckLimit, Limiter!CheckLimit
    <2> QED BY <2>1, PrunedTyped DEF Table
  <1>5. ASSUME NEW h \in Handlers, RecordFailure(h) \/ ClearFailures(h) PROVE Table'
    <2>1. Key(h) \in Clients \X Shares /\ clock' = clock
      BY <1>5, RequestAt DEF RecordFailure, ClearFailures, At, Places, InProgress, Key
    <2>2. PICK k \in Clients \X Shares : k = Key(h)
      BY <2>1
    <2>3. CASE ClearFailures(h)
      <3>1. failures' = [failures EXCEPT ![k] = <<>>]
        BY <2>2, <2>3 DEF ClearFailures, Limiter!ClearFailures
      <3> QED BY <2>1, <3>1 DEF Table
    <2>4. CASE RecordFailure(h)
      <3> DEFINE table == Limiter!Pruned(clock)
      <3>1. failures' = table \/ failures' = [table EXCEPT ![k] = Append(@, clock)]
        BY <2>2, <2>4 DEF RecordFailure, Limiter!RecordFailure
      <3>2. table \in [Clients \X Shares -> Seq(0..clock)]
        BY PrunedTyped
      <3> HIDE DEF table
      <3>3. Append(table[k], clock) \in Seq(0..clock)
        BY <1>1, <3>2
      <3> QED BY <2>1, <3>1, <3>2, <3>3 DEF Table
    <2> QED BY <1>5, <2>3, <2>4
  <1>6. ASSUME NEW h \in Handlers, Request(h) PROVE Table'
    <2>1. \/ CheckLimit(h) \/ RecordFailure(h) \/ ClearFailures(h)
          \/ UNCHANGED <<failures, clock>>
      BY <1>6 DEF Request, Arrive, Resolve, Verify, Disconnect, Grant, Lock, Logout, Respond,
         Authorize, Serve
    <2> QED BY <1>2, <1>4, <1>5, <2>1
  <1>7. CASE Owner
    BY <1>2, <1>7 DEF Owner, EditShare, RevokeShare, RevokeAll
  <1> QED BY <1>2, <1>3, <1>6, <1>7 DEF Next, vars

-----------------------------------------------------------------------------
(* The store.                                                              *)

(* Every step uses the store as its own specification lets its callers.    *)
LEMMA StoreUsed == ASSUME NamesType, Control, [Next]_vars PROVE [Store!Next]_(Store!vars)
  <1>1. CASE UNCHANGED storeVars /\ UNCHANGED clock
    BY <1>1 DEF storeVars, Store!vars
  <1>2. CASE Tick
    <2>1. Store!Tick
      BY <1>2 DEF Tick, storeVars, Store!Tick, Store!storeVars
    <2> QED BY <2>1 DEF Store!Next
  <1>3. ASSUME Store!Call, UNCHANGED clock
        PROVE  [Store!Next]_(Store!vars)
    BY <1>3 DEF Store!Next
  <1>4. ASSUME NEW h \in Handlers, Request(h)
        PROVE  [Store!Next]_(Store!vars)
    <2>1. CASE Grant(h)
      <3>1. /\ req[h] \in InProgress /\ req[h].verified \in Shares
            /\ req[h].revision \in Revisions
        BY <2>1, RequestAt DEF Grant, At, Places, InProgress
      <3>2. Store!Call
        BY <2>1, <3>1 DEF Grant, Store!Call, InProgress
      <3> QED BY <1>3, <2>1, <3>2 DEF Grant
    <2>2. CASE Authorize(h)
      <3>1. /\ req[h] \in InProgress /\ req[h].share \in Shares
            /\ req[h].revision \in Revisions
        BY <2>2, RequestAt DEF Authorize, At, Places, InProgress
      <3>2. PICK c, i, s, v : /\ c = req[h].cookie /\ c \in Tokens \cup {NoToken}
                              /\ i = req[h].ip /\ i \in Clients
                              /\ s = req[h].share /\ s \in Shares
                              /\ v = req[h].revision /\ v \in Revisions
        BY <3>1 DEF InProgress
      <3>3. \/ Store!AuthorizedTrue(c, i, s, v, IdleLifetime)
            \/ Store!AuthorizedFalse(c, i, s, v, IdleLifetime)
        BY <2>2, <3>2 DEF Authorize
      <3>4. Store!Call
        BY <3>2, <3>3 DEF Store!Call, NamesType
      <3> QED BY <1>3, <2>2, <3>4 DEF Authorize
    <2>3. CASE Lock(h)
      <3>1. /\ req[h].cookie \in Tokens \cup {NoToken} /\ req[h].share \in Shares
        BY <2>3, RequestAt DEF Lock, At, Places, InProgress
      <3>2. Store!Call
        BY <2>3, <3>1 DEF Lock, Store!Call
      <3> QED BY <1>3, <2>3, <3>2 DEF Lock
    <2>4. CASE Logout(h)
      <3>1. req[h].cookie \in Tokens \cup {NoToken}
        BY <2>4, RequestAt DEF Logout, At, Places, InProgress
      <3>2. Store!Call
        BY <2>4, <3>1 DEF Logout, Store!Call
      <3> QED BY <1>3, <2>4, <3>2 DEF Logout
    <2>5. \/ Grant(h) \/ Authorize(h) \/ Lock(h) \/ Logout(h)
          \/ UNCHANGED storeVars /\ UNCHANGED clock
      BY <1>4 DEF Request, Arrive, Resolve, CheckLimit, Verify, Disconnect, RecordFailure,
         ClearFailures, Respond, Serve
    <2> QED BY <1>1, <2>1, <2>2, <2>3, <2>4, <2>5
  <1>5. CASE Owner
    <2>1. ASSUME NEW s \in Shares, RevokeShare(s)
          PROVE  Store!Call /\ UNCHANGED clock
      BY <2>1 DEF RevokeShare, Store!Call
    <2>2. ASSUME RevokeAll
          PROVE  Store!Call /\ UNCHANGED clock
      BY <2>2 DEF RevokeAll, Store!Call
    <2>3. \/ \E s \in Shares : RevokeShare(s)
          \/ RevokeAll
          \/ UNCHANGED storeVars /\ UNCHANGED clock
      BY <1>5 DEF Owner, EditShare
    <2> QED BY <1>1, <1>3, <2>1, <2>2, <2>3
  <1>6. UNCHANGED vars => UNCHANGED storeVars /\ UNCHANGED clock
    BY DEF vars, storeVars
  <1> QED BY <1>1, <1>2, <1>4, <1>5, <1>6 DEF Next

LEMMA StoreKept ==
    ASSUME NamesType, LimitsType, Control, StoreProofs!IInv, [Next]_vars
    PROVE  StoreProofs!IInv'
  <1>1. [StoreProofs!Next]_(StoreProofs!vars)
    BY StoreUsed, SameStep
  <1>2. StoreProofs!StepOK
    BY <1>1, StoreAssumptions, StoreProofs!NextStep
  <1> QED BY <1>2 DEF StoreProofs!StepOK

-----------------------------------------------------------------------------
(* Cookies, and what passwords have opened.                                *)

Cookies ==
    /\ \A b \in Browsers : Issued(jar[b])
    /\ \A h \in Handlers : req[h].pc = "respond" => Issued(req[h].token)

(* Every share a session opens was opened by a password from its address.  *)
Opened ==
    \A t \in Store!Live, s \in Shares :
       LET v == sessions[t].authorized_shares[s] IN
       v \in Revisions => <<sessions[t].source_ip, s, v>> \in earned

PendingEarned == earned \subseteq Clients \X Shares \X Revisions /\ Pending \subseteq earned

(* A step after which sessions open nothing more, and nothing they still   *)
(* open was forgotten.                                                     *)
LEMMA OpenedKept ==
    ASSUME Opened, Store!Live' \subseteq Store!Live,
           \A t \in Store!Live' : sessions'[t].source_ip = sessions[t].source_ip,
           \A t \in Store!Live', s \in Shares :
              sessions'[t].authorized_shares[s] \in Revisions =>
                 /\ sessions'[t].authorized_shares[s] = sessions[t].authorized_shares[s]
                 /\ \A e \in earned : e[2] = s => e \in earned'
    PROVE  Opened'
  <1> SUFFICES ASSUME NEW t \in Store!Live', NEW s \in Shares,
                      sessions'[t].authorized_shares[s] \in Revisions
               PROVE  <<sessions'[t].source_ip, s, sessions'[t].authorized_shares[s]>> \in earned'
    BY DEF Opened
  <1>1. /\ t \in Store!Live
        /\ sessions'[t].source_ip = sessions[t].source_ip
        /\ sessions'[t].authorized_shares[s] = sessions[t].authorized_shares[s]
        /\ \A e \in earned : e[2] = s => e \in earned'
    OBVIOUS
  <1>2. PICK e : e = <<sessions[t].source_ip, s, sessions[t].authorized_shares[s]>>
    OBVIOUS
  <1>3. e \in earned /\ e[2] = s
    BY <1>1, <1>2 DEF Opened
  <1> QED BY <1>1, <1>2, <1>3

(* The only calls of the store that give a session a share.                *)
LEMMA GrantStep ==
    ASSUME NamesType, LimitsType, StoreProofs!IInv, Opened,
           NEW c \in Tokens \cup {NoToken}, NEW i \in Clients, NEW s \in Shares,
           NEW v \in Revisions, NEW t \in Tokens, <<i, s, v>> \in earned, earned' = earned,
           clock' = clock, Store!CreateOrAuthorize(c, i, s, v, IdleLifetime, t)
    PROVE  Opened' /\ issuedTo'[t] # NoClient
  <1> USE StoreAssumptions
  <1>1. CASE c = t /\ StoreProofs!AuthorizeExisting(t, i, s, v, IdleLifetime)
    <2>1. StoreProofs!UseOf(t, i, s, v, IdleLifetime)
      BY <1>1, StoreProofs!AuthorizeExistingStore DEF StoreProofs!IInv
    <2>2. /\ Store!Live' \subseteq Store!Live
          /\ \A u \in Store!Live' \ {t} : sessions'[u] = sessions[u]
          /\ t \in Store!Live
          /\ sessions[t].source_ip = i /\ sessions'[t].source_ip = i
          /\ sessions'[t].authorized_shares = [sessions[t].authorized_shares EXCEPT ![s] = v]
      BY <2>1, SameRetained, StoreProofs!RetainedLive
         DEF StoreProofs!UseOf, Store!Live, StoreProofs!Live
    <2>3. sessions[t].authorized_shares \in [Shares -> Revisions \cup {NoRevision}]
      BY <2>2 DEF StoreProofs!IInv, StoreProofs!TypeOK, StoreProofs!Session, Store!Live, StoreProofs!Live
    <2>4. issuedTo'[t] # NoClient
      <3>1. issuedTo' = issuedTo
        BY <1>1 DEF StoreProofs!AuthorizeExisting
      <3>2. issuedTo[t] = i
        BY <2>2 DEF StoreProofs!IInv, StoreProofs!HolderOK, Store!Live, StoreProofs!Live
      <3> QED BY <3>1, <3>2 DEF NamesType
    <2>5. ASSUME NEW u \in Store!Live', NEW r \in Shares,
                 sessions'[u].authorized_shares[r] \in Revisions
          PROVE  <<sessions'[u].source_ip, r, sessions'[u].authorized_shares[r]>> \in earned
      <3>1. CASE u # t
        BY <2>2, <2>5, <3>1 DEF Opened
      <3>2. CASE u = t /\ r = s
        BY <2>2, <2>3, <3>2
      <3>3. CASE u = t /\ r # s
        BY <2>2, <2>3, <2>5, <3>3 DEF Opened
      <3> QED BY <3>1, <3>2, <3>3
    <2> QED BY <2>4, <2>5 DEF Opened
  <1>2. CASE StoreProofs!CreateSession(c, i, s, v, IdleLifetime, t)
    <2>1. PICK kept : StoreProofs!CreationOf(kept, t, i, s, v, IdleLifetime)
      BY <1>2, StoreProofs!CreateSessionStore
    <2>2. /\ Store!Live' = kept \cup {t} /\ kept \subseteq Store!Live
          /\ \A u \in kept : sessions'[u] = sessions[u]
          /\ sessions'[t] = StoreProofs!NewSession(i, s, v)
      BY <2>1 DEF StoreProofs!CreationOf, Store!Live, StoreProofs!Live
    <2>3. /\ sessions'[t].source_ip = i
          /\ sessions'[t].authorized_shares = [r \in Shares |-> IF r = s THEN v ELSE NoRevision]
      BY <2>2 DEF StoreProofs!NewSession
    <2>4. issuedTo'[t] # NoClient
      <3>1. issuedTo' = [issuedTo EXCEPT ![t] = i]
        BY <1>2 DEF StoreProofs!CreateSession
      <3> QED BY <3>1 DEF StoreProofs!IInv, StoreProofs!TypeOK, NamesType
    <2>5. NoRevision \notin Revisions
      BY DEF NoRevision, Revisions, LimitsType
    <2>6. ASSUME NEW u \in Store!Live', NEW r \in Shares,
                 sessions'[u].authorized_shares[r] \in Revisions
          PROVE  <<sessions'[u].source_ip, r, sessions'[u].authorized_shares[r]>> \in earned
      <3>1. CASE u # t
        BY <2>2, <2>6, <3>1 DEF Opened
      <3>2. CASE u = t
        BY <2>3, <2>5, <2>6, <3>2
      <3> QED BY <3>1, <3>2
    <2> QED BY <2>4, <2>6 DEF Opened
  <1> QED BY <1>1, <1>2, SameCreation DEF Store!CreateOrAuthorize

IInv ==
    /\ Control
    /\ StoreProofs!IInv
    /\ Table
    /\ Cookies
    /\ Opened
    /\ PendingEarned

(* Of the handler steps, two leave a password verified and not granted.    *)
LEMMA OtherSteps ==
    ASSUME Control, NEW h \in Handlers, Request(h), ~Verify(h), ~ClearFailures(h)
    PROVE  /\ req'[h].pc \notin {"clear", "grant"}
           /\ \A g \in Handlers \ {h} : req'[g] = req[g]
           /\ earned' = earned
  <1> DEFINE Result == /\ req'[h].pc \notin {"clear", "grant"}
                       /\ \A g \in Handlers \ {h} : req'[g] = req[g]
  <1>1. Done(h) => Result
    BY DEF Done, Idle, Control
  <1>2. Serving(h) => Result
    BY DEF Serving, Control
  <1>3. \A token : Responding(h, token) => Result
    BY DEF Responding, Control
  <1>4. ASSUME req[h] \in InProgress, NEW pc, pc \notin {"clear", "grant"}, Goto(h, pc)
        PROVE  Result
    BY <1>4 DEF Goto, InProgress, Control
  <1>5. ASSUME req[h] \in InProgress, NEW s, NEW revision, NEW pc,
               pc \notin {"clear", "grant"}, Resolved(h, s, revision, pc)
        PROVE  Result
    BY <1>5 DEF Resolved, InProgress, Control
  <1>6. ASSUME NEW op, NEW b, NEW ip, NEW slug, NEW password, Arrive(h, op, b, ip, slug, password)
        PROVE  Result
    BY <1>6 DEF Arrive, Control
  <1> HIDE DEF Result
  <1>7. Resolve(h) => Result
    <2> HAVE Resolve(h)
    <2>1. req[h] \in InProgress
      BY RequestAt DEF Resolve, Places
    <2> QED BY <1>1, <1>2, <1>5, <2>1 DEF Resolve
  <1>8. CheckLimit(h) => Result
    <2> HAVE CheckLimit(h)
    <2>1. req[h] \in InProgress
      BY RequestAt DEF CheckLimit, At, Places
    <2> QED BY <1>1, <1>4, <2>1 DEF CheckLimit
  <1>9. Result
    BY <1>1, <1>2, <1>3, <1>6, <1>7, <1>8 DEF Request, Disconnect, RecordFailure, Grant, Lock,
       Logout, Respond, Authorize, Serve
  <1>10. earned' = earned
    BY DEF Request, Arrive, Resolve, CheckLimit, Disconnect, RecordFailure, Grant, Lock, Logout,
       Respond, Authorize, Serve
  <1> QED BY <1>9, <1>10 DEF Result

Waiting(h) == <<req[h].ip, req[h].verified, req[h].revision>>

LEMMA PendingStep ==
    ASSUME LimitsType, Control, PendingEarned, [Next]_vars
    PROVE  PendingEarned'
  <1>1. PendingEarned <=>
           /\ earned \subseteq Clients \X Shares \X Revisions
           /\ \A h \in Handlers : req[h].pc \in {"clear", "grant"} => Waiting(h) \in earned
    BY DEF PendingEarned, Pending, Waiting
  <1>2. PendingEarned' <=>
           /\ earned' \subseteq Clients \X Shares \X Revisions
           /\ \A h \in Handlers : req'[h].pc \in {"clear", "grant"} => Waiting(h)' \in earned'
    BY DEF PendingEarned, Pending, Waiting
  <1>3. CASE UNCHANGED <<req, earned>>
    BY <1>1, <1>2, <1>3 DEF Waiting
  <1>4. ASSUME NEW h \in Handlers, Verify(h)
        PROVE  PendingEarned'
    <2>1. req[h] \in InProgress
      BY <1>4, RequestAt DEF Verify, At, Places
    <2>2. \A g \in Handlers \ {h} : req'[g] = req[g]
      BY <1>4 DEF Verify, Control
    <2>3. CASE UNCHANGED earned /\ req'[h].pc = "record"
      BY <1>1, <1>2, <2>2, <2>3 DEF Waiting
    <2>4. CASE \E s \in Verified(req[h].slug, req[h].password) :
                  /\ req' = [req EXCEPT ![h] = [@ EXCEPT !.pc = "clear", !.verified = s,
                                                         !.revision = web[s].revision,
                                                         !.password = NoRevision]]
                  /\ earned' = earned \cup {<<req[h].ip, s, web[s].revision>>}
      <3>1. PICK s \in Verified(req[h].slug, req[h].password) :
                  /\ req' = [req EXCEPT ![h] = [@ EXCEPT !.pc = "clear", !.verified = s,
                                                         !.revision = web[s].revision,
                                                         !.password = NoRevision]]
                  /\ earned' = earned \cup {<<req[h].ip, s, web[s].revision>>}
        BY <2>4
      <3>2. req[h].ip \in Clients /\ s \in Shares /\ web[s].revision \in Revisions
        BY <2>1, <3>1 DEF InProgress, Verified, BySlug, Control
      <3>3. /\ req'[h].ip = req[h].ip
            /\ req'[h].verified = s
            /\ req'[h].revision = web[s].revision
        BY <2>1, <3>1 DEF InProgress, Control
      <3>4. Waiting(h)' = <<req[h].ip, s, web[s].revision>>
        BY <3>3 DEF Waiting
      <3>5. \A g \in Handlers \ {h} : req'[g].pc \in {"clear", "grant"} => Waiting(g)' \in earned'
        BY <1>1, <2>2, <3>1 DEF Waiting
      <3> QED BY <1>1, <1>2, <3>1, <3>2, <3>4, <3>5
    <2>5. req'[h].pc = "record" \/ req' # [req EXCEPT ![h] = [@ EXCEPT !.pc = "record",
                                               !.cookie = NoToken, !.password = NoRevision]]
      BY <2>1 DEF InProgress, Control
    <2> QED BY <1>4, <2>3, <2>4, <2>5 DEF Verify
  <1>5. ASSUME NEW h \in Handlers, ClearFailures(h)
        PROVE  PendingEarned'
    <2>1. req[h] \in InProgress /\ req[h].pc = "clear"
      BY <1>5, RequestAt DEF ClearFailures, At, Places
    <2>2. /\ \A g \in Handlers \ {h} : req'[g] = req[g]
          /\ req'[h].ip = req[h].ip
          /\ req'[h].verified = req[h].verified
          /\ req'[h].revision = req[h].revision
          /\ earned' = earned
      BY <1>5, <2>1 DEF ClearFailures, Goto, Control, InProgress
    <2>3. \A g \in Handlers : Waiting(g)' = Waiting(g)
      BY <2>2 DEF Waiting
    <2> QED BY <1>1, <1>2, <2>1, <2>2, <2>3
  <1>6. ASSUME NEW h \in Handlers, Request(h), ~Verify(h), ~ClearFailures(h)
        PROVE  PendingEarned'
    <2>1. /\ req'[h].pc \notin {"clear", "grant"}
          /\ \A g \in Handlers \ {h} : req'[g] = req[g]
          /\ earned' = earned
      BY <1>6, OtherSteps
    <2>2. \A g \in Handlers \ {h} : Waiting(g)' = Waiting(g)
      BY <2>1 DEF Waiting
    <2> QED BY <1>1, <1>2, <2>1, <2>2
  <1>7. ASSUME RevokeAll \/ \E s \in Shares : RevokeShare(s)
        PROVE  PendingEarned'
    <2>1. /\ req' = req
          /\ earned' \subseteq earned
          /\ earned \cap Pending \subseteq earned'
      BY <1>7 DEF RevokeAll, RevokeShare
    <2>2. \A g \in Handlers : req[g].pc \in {"clear", "grant"} => Waiting(g) \in earned'
      BY <1>1, <2>1 DEF Pending, Waiting
    <2>3. \A g \in Handlers : Waiting(g)' = Waiting(g)
      BY <2>1 DEF Waiting
    <2> QED BY <1>1, <1>2, <2>1, <2>2, <2>3
  <1>8. CASE Tick \/ UNCHANGED vars
    BY <1>3, <1>8 DEF Tick, vars
  <1>9. CASE \E s \in Shares, slug \in Slugs, mode \in Modes, revision \in Revisions :
                EditShare(s, slug, mode, revision)
    BY <1>3, <1>9 DEF EditShare
  <1> QED BY <1>4, <1>5, <1>6, <1>7, <1>8, <1>9 DEF Next, Owner

(* What a step does to the store, if anything.                             *)
LEMMA StoreSteps ==
    ASSUME Control, [Next]_vars
    PROVE  \/ UNCHANGED storeVars /\ earned \subseteq earned'
           \/ \E h \in Handlers : Grant(h) \/ Authorize(h) \/ Lock(h) \/ Logout(h)
           \/ \E s \in Shares : RevokeShare(s)
           \/ RevokeAll
  <1> DEFINE Nothing == UNCHANGED storeVars /\ earned \subseteq earned'
  <1>1. Tick \/ UNCHANGED vars => Nothing
    BY DEF Tick, vars, storeVars
  <1>2. ASSUME NEW s, NEW slug, NEW mode, NEW revision, EditShare(s, slug, mode, revision)
        PROVE  Nothing
    BY <1>2 DEF EditShare
  <1>3. ASSUME NEW h \in Handlers, Request(h)
        PROVE  Grant(h) \/ Authorize(h) \/ Lock(h) \/ Logout(h) \/ Nothing
    <2>1. ASSUME NEW op, NEW b, NEW ip, NEW slug, NEW password, Arrive(h, op, b, ip, slug, password)
          PROVE  Nothing
      BY <2>1 DEF Arrive
    <2>2. Verify(h) => Nothing
      BY DEF Verify
    <2>3. ASSUME \/ Resolve(h) \/ CheckLimit(h) \/ Disconnect(h) \/ RecordFailure(h)
                 \/ ClearFailures(h) \/ Respond(h) \/ Serve(h)
          PROVE  Nothing
      BY <2>3 DEF Resolve, CheckLimit, Disconnect, RecordFailure, ClearFailures, Respond, Serve
    <2> HIDE DEF Nothing
    <2> QED BY <1>3, <2>1, <2>2, <2>3 DEF Request
  <1> HIDE DEF Nothing
  <1>4. Owner => Nothing \/ RevokeAll \/ \E s \in Shares : RevokeShare(s)
    BY <1>2 DEF Owner
  <1>5. \/ Nothing
        \/ \E h \in Handlers : Grant(h) \/ Authorize(h) \/ Lock(h) \/ Logout(h)
        \/ \E s \in Shares : RevokeShare(s)
        \/ RevokeAll
    BY <1>1, <1>3, <1>4 DEF Next
  <1> QED BY <1>5 DEF Nothing

LEMMA GrantHandler ==
    ASSUME NamesType, LimitsType, Control, StoreProofs!IInv, Opened, PendingEarned,
           NEW h \in Handlers, NEW t \in Tokens, At(h, "unlock", "grant"),
           Store!CreateOrAuthorize(req[h].cookie, req[h].ip, req[h].verified,
                                   req[h].revision, IdleLifetime, t),
           earned' = earned, clock' = clock
    PROVE  Opened' /\ issuedTo'[t] # NoClient
  <1>1. /\ req[h] \in InProgress /\ req[h].verified \in Shares /\ req[h].revision \in Revisions
        /\ req[h].pc = "grant"
    BY RequestAt DEF At, Places, InProgress
  <1>2. PICK c, i, s, v : /\ c = req[h].cookie /\ c \in Tokens \cup {NoToken}
                          /\ i = req[h].ip /\ i \in Clients
                          /\ s = req[h].verified /\ s \in Shares
                          /\ v = req[h].revision /\ v \in Revisions
    BY <1>1 DEF InProgress
  <1>3. <<i, s, v>> \in earned
    BY <1>1, <1>2 DEF PendingEarned, Pending
  <1>4. Store!CreateOrAuthorize(c, i, s, v, IdleLifetime, t)
    BY <1>2
  <1> QED BY <1>2, <1>3, <1>4, GrantStep

LEMMA OpenedStep ==
    ASSUME NamesType, LimitsType, Control, StoreProofs!IInv, Opened, PendingEarned, [Next]_vars
    PROVE  Opened'
  <1> USE StoreAssumptions
  <1>1. CASE UNCHANGED storeVars /\ earned \subseteq earned'
    BY <1>1 DEF storeVars, Store!Live, Opened
  <1>2. ASSUME NEW h \in Handlers, Grant(h)
        PROVE  Opened'
    BY <1>2, GrantHandler DEF Grant
  <1>3. ASSUME NEW T, sessions' = Store!Restrict(sessions, Store!Live \ T),
               \/ earned \subseteq earned'
               \/ Store!Live \subseteq T
        PROVE  Opened'
    <2>1. Store!Live' = Store!Live \ T /\ \A t \in Store!Live' : sessions'[t] = sessions[t]
      BY <1>3 DEF Store!Live, Store!Restrict
    <2> QED BY <1>3, <2>1, OpenedKept
  <1>4. ASSUME NEW T, NEW s \in Shares, Store!LockOn(T, s),
               \/ earned \subseteq earned'
               \/ Store!Live \subseteq T /\ earned' \subseteq earned
                     /\ \A e \in earned : e[2] # s => e \in earned'
        PROVE  Opened'
    <2>1. StoreProofs!LockOn(T, s) /\ StoreProofs!TypeOK
      BY <1>4, SameEndings DEF StoreProofs!IInv
    <2>2. /\ StoreProofs!Live' = StoreProofs!Live
          /\ \A t \in StoreProofs!Live \ T : sessions'[t] = sessions[t]
          /\ \A t \in StoreProofs!Live \cap T :
                 /\ sessions'[t].source_ip = sessions[t].source_ip
                 /\ sessions'[t].authorized_shares =
                      [sessions[t].authorized_shares EXCEPT ![s] = NoRevision]
      BY <2>1, StoreProofs!LockOnStore
    <2>3. \A t \in StoreProofs!Live :
             sessions[t].authorized_shares \in [Shares -> Revisions \cup {NoRevision}]
      BY <2>1 DEF StoreProofs!TypeOK, StoreProofs!Session
    <2>4. NoRevision \notin Revisions
      BY DEF NoRevision, Revisions, LimitsType
    <2>5. Store!Live' = StoreProofs!Live' /\ Store!Live = StoreProofs!Live
      BY DEF Store!Live, StoreProofs!Live
    <2>6. ASSUME NEW t \in Store!Live'
          PROVE  sessions'[t].source_ip = sessions[t].source_ip
      BY <2>2, <2>5
    <2>7. ASSUME NEW t \in Store!Live', NEW r \in Shares,
                 sessions'[t].authorized_shares[r] \in Revisions
          PROVE  /\ sessions'[t].authorized_shares[r] = sessions[t].authorized_shares[r]
                 /\ t \in T => r # s
      <3>1. CASE t \in T
        BY <2>2, <2>3, <2>4, <2>5, <2>7, <3>1
      <3>2. CASE t \notin T
        BY <2>2, <2>5, <3>2
      <3> QED BY <3>1, <3>2
    <2>8. ASSUME NEW t \in Store!Live', NEW r \in Shares,
                 sessions'[t].authorized_shares[r] \in Revisions,
                 NEW e \in earned, e[2] = r
          PROVE  e \in earned'
      BY <1>4, <2>2, <2>5, <2>7, <2>8
    <2> QED BY <2>2, <2>5, <2>6, <2>7, <2>8, OpenedKept
  <1>5. ASSUME NEW h \in Handlers, Authorize(h)
        PROVE  Opened'
    <2>1. PICK c, i, s, v :
             \/ Store!AuthorizedTrue(c, i, s, v, IdleLifetime)
             \/ Store!AuthorizedFalse(c, i, s, v, IdleLifetime)
      BY <1>5 DEF Authorize
    <2>2. earned' = earned
      BY <1>5 DEF Authorize
    <2>3. CASE Store!AuthorizedTrue(c, i, s, v, IdleLifetime)
      <3>1. StoreProofs!AuthorizedTrue(c, i, s, v, IdleLifetime) /\ StoreProofs!TypeOK
        BY <2>3, SameAuthorization DEF StoreProofs!IInv
      <3>2. /\ c \in StoreProofs!Live
            /\ StoreProofs!Live' = StoreProofs!Live
            /\ \A t \in StoreProofs!Live \ {c} : sessions'[t] = sessions[t]
            /\ sessions'[c] = [sessions[c] EXCEPT !.last_access_at = clock]
        BY <3>1, StoreProofs!AuthorizedTrueStore
      <3>3. sessions[c] \in StoreProofs!Session
        BY <3>1, <3>2 DEF StoreProofs!TypeOK
      <3>4. /\ sessions'[c].source_ip = sessions[c].source_ip
            /\ sessions'[c].authorized_shares = sessions[c].authorized_shares
        BY <3>2, <3>3 DEF StoreProofs!Session
      <3>5. Store!Live' = StoreProofs!Live' /\ Store!Live = StoreProofs!Live
        BY DEF Store!Live, StoreProofs!Live
      <3> QED BY <2>2, <3>2, <3>4, <3>5, OpenedKept
    <2>4. CASE Store!AuthorizedFalse(c, i, s, v, IdleLifetime)
      <3>1. sessions' = sessions \/ sessions' = Store!Restrict(sessions, Store!Live \ {c})
        BY <2>4 DEF Store!AuthorizedFalse
      <3>2. CASE sessions' = sessions
        BY <2>2, <3>2 DEF Store!Live, Opened
      <3> QED BY <1>3, <2>2, <3>1, <3>2
    <2> QED BY <2>1, <2>3, <2>4
  <1>6. ASSUME NEW h \in Handlers, Lock(h)
        PROVE  Opened'
    <2>1. req[h].share \in Shares /\ earned' = earned
      BY <1>6, RequestAt DEF Lock, At, Places, InProgress
    <2> QED BY <1>4, <1>6, <2>1 DEF Lock, Store!LockShare
  <1>7. ASSUME NEW h \in Handlers, Logout(h)
        PROVE  Opened'
    BY <1>3, <1>7 DEF Logout, Store!Logout, Store!EndSessions
  <1>8. ASSUME NEW s \in Shares, RevokeShare(s)
        PROVE  Opened'
    <2>1. /\ Store!LockOn(Store!Live, s)
          /\ earned' \subseteq earned
          /\ \A e \in earned : e[2] # s => e \in earned'
      BY <1>8 DEF RevokeShare, Store!RevokeShare
    <2> QED BY <1>4, <2>1
  <1>9. ASSUME RevokeAll
        PROVE  Opened'
    BY <1>3, <1>9 DEF RevokeAll, Store!RevokeAll, Store!EndSessions
  <1> QED BY <1>1, <1>2, <1>5, <1>6, <1>7, <1>8, <1>9, StoreSteps

LEMMA CookiesStep ==
    ASSUME NamesType, LimitsType, Control, StoreProofs!IInv, Cookies, Opened, PendingEarned,
           [Next]_vars
    PROVE  Cookies'
  <1>1. CASE UNCHANGED issuedTo /\ UNCHANGED <<jar, req>>
    BY <1>1 DEF Cookies, Issued
  <1>2. ASSUME NEW h \in Handlers, Grant(h)
        PROVE  Cookies'
    <2>1. PICK t \in Tokens :
             /\ Store!CreateOrAuthorize(req[h].cookie, req[h].ip, req[h].verified,
                                        req[h].revision, IdleLifetime, t)
             /\ Responding(h, t)
      BY <1>2 DEF Grant
    <2>2. At(h, "unlock", "grant") /\ UNCHANGED <<clock, jar, earned>>
      BY <1>2 DEF Grant
    <2>3. issuedTo'[t] # NoClient
      BY <2>1, <2>2, GrantHandler
    <2>4. issuedTo' = issuedTo \/ issuedTo' = [issuedTo EXCEPT ![t] = req[h].ip]
      BY <2>1 DEF Store!CreateOrAuthorize, Store!AuthorizeExisting, Store!CreateSession
    <2>5. \A u \in Tokens : u # t => issuedTo'[u] = issuedTo[u]
      BY <2>4 DEF StoreProofs!IInv, StoreProofs!TypeOK
    <2>6. \A u \in Tokens \cup {NoToken} : Issued(u) => Issued(u)'
      BY <2>3, <2>5 DEF Issued
    <2>7. /\ \A g \in Handlers \ {h} : req'[g] = req[g]
          /\ req'[h].pc = "respond" /\ req'[h].token = t
      BY <2>1 DEF Responding, Control
    <2>8. \A b \in Browsers : Issued(jar[b])'
      BY <2>2, <2>6 DEF Cookies, Control, Issued
    <2>9. ASSUME NEW g \in Handlers, req'[g].pc = "respond"
          PROVE  Issued(req[g].token)'
      <3>1. CASE g = h
        BY <2>3, <2>7, <3>1 DEF Issued
      <3>2. CASE g # h
        <4>1. req[g].token \in Tokens \cup {NoToken} /\ Issued(req[g].token)
          BY <2>7, <2>9, <3>2, RequestAt DEF Cookies, Responses
        <4> QED BY <2>6, <2>7, <3>2, <4>1 DEF Issued
      <3> QED BY <3>1, <3>2
    <2> QED BY <2>8, <2>9 DEF Cookies
  <1>3. ASSUME NEW h \in Handlers, Request(h), ~Grant(h)
        PROVE  Cookies'
    <2>1. issuedTo' = issuedTo
      BY <1>3 DEF Request, Arrive, Resolve, CheckLimit, Verify, Disconnect, RecordFailure,
         ClearFailures, Lock, Logout, Respond, Authorize, Serve, storeVars, Store!LockShare,
         Store!LockOn, Store!Logout, Store!EndSessions, Store!AuthorizedTrue,
         Store!AuthorizedFalse
    <2>2. \A g \in Handlers \ {h} : req'[g] = req[g]
      <3>1. CASE Verify(h) \/ ClearFailures(h)
        BY <3>1 DEF Verify, ClearFailures, Goto, Control
      <3> QED BY <1>3, <3>1, OtherSteps
    <2>3. \A b \in Browsers : Issued(jar'[b])
      <3>1. CASE Respond(h)
        <4>1. /\ req[h].browser \in Browsers /\ Issued(req[h].token)
              /\ jar' = jar \/ jar' = [jar EXCEPT ![req[h].browser] = req[h].token]
          BY <3>1, RequestAt DEF Respond, Responses, Cookies
        <4> QED BY <4>1 DEF Cookies, Control
      <3>2. CASE ~Respond(h)
        <4>1. jar' = jar
          BY <1>3, <3>2 DEF Request, Arrive, Resolve, CheckLimit, Verify, Disconnect,
             RecordFailure, ClearFailures, Lock, Logout, Authorize, Serve
        <4> QED BY <4>1 DEF Cookies
      <3> QED BY <3>1, <3>2
    <2>4. req'[h].pc = "respond" => req'[h].token = NoToken
      <3> DEFINE Result == req'[h].pc = "respond" => req'[h].token = NoToken
      <3>1. Done(h) \/ Serving(h) \/ Responding(h, NoToken) => Result
        BY DEF Done, Serving, Responding, Idle, Control
      <3>2. ASSUME req[h] \in InProgress,
                   \/ Goto(h, "verify") \/ Goto(h, "grant")
                   \/ \E s, v : \E pc \in {"check", "lock", "authorize"} : Resolved(h, s, v, pc)
            PROVE  Result
        <4>1. ASSUME NEW pc, pc # "respond", Goto(h, pc)
              PROVE  req'[h].pc # "respond"
          BY <3>2, <4>1 DEF Goto, InProgress, Control
        <4>2. ASSUME NEW s, NEW v, NEW pc, pc # "respond", Resolved(h, s, v, pc)
              PROVE  req'[h].pc # "respond"
          BY <3>2, <4>2 DEF Resolved, InProgress, Control
        <4> QED BY <3>2, <4>1, <4>2
      <3>3. Verify(h) => Result
        <4> SUFFICES ASSUME Verify(h) PROVE req'[h].pc # "respond"
          OBVIOUS
        <4>1. req[h] \in InProgress
          BY RequestAt DEF Verify, At, Places
        <4>2. PICK r : r = req[h] /\ r \in InProgress
          BY <4>1
        <4>3. \/ req'[h] = [r EXCEPT !.pc = "record", !.cookie = NoToken, !.password = NoRevision]
              \/ \E s : req'[h] = [r EXCEPT !.pc = "clear", !.verified = s,
                                           !.revision = web[s].revision, !.password = NoRevision]
          BY <4>2 DEF Verify, Control
        <4> QED BY <4>2, <4>3 DEF InProgress
      <3>4. (\E op, b, ip, slug, password : Arrive(h, op, b, ip, slug, password)) => Result
        BY DEF Arrive, Control
      <3> HIDE DEF Result
      <3>5. Resolve(h) \/ CheckLimit(h) \/ ClearFailures(h) => Result
        <4> HAVE Resolve(h) \/ CheckLimit(h) \/ ClearFailures(h)
        <4>1. req[h] \in InProgress
          BY RequestAt DEF Resolve, CheckLimit, ClearFailures, At, Places
        <4>2. Resolve(h) => Result
          BY <3>1, <3>2, <4>1 DEF Resolve
        <4> QED BY <3>1, <3>2, <4>1, <4>2 DEF CheckLimit, ClearFailures
      <3> QED BY <1>3, <3>1, <3>3, <3>4, <3>5 DEF Result, Request, Disconnect, RecordFailure,
             Lock, Logout, Respond, Authorize, Serve
    <2>5. ASSUME NEW g \in Handlers, req'[g].pc = "respond"
          PROVE  Issued(req'[g].token)
      <3>1. CASE g = h
        BY <2>4, <2>5, <3>1 DEF Issued
      <3>2. CASE g # h
        BY <2>2, <2>5, <3>2 DEF Cookies
      <3> QED BY <3>1, <3>2
    <2> QED BY <2>1, <2>3, <2>5 DEF Cookies, Issued
  <1>4. CASE Owner \/ Tick \/ UNCHANGED vars
    BY <1>1, <1>4 DEF Owner, EditShare, RevokeShare, RevokeAll, Tick, vars, storeVars,
       Store!RevokeShare, Store!RevokeAll, Store!LockOn, Store!EndSessions
  <1> QED BY <1>2, <1>3, <1>4 DEF Next

-----------------------------------------------------------------------------
(* The theorems.                                                           *)

LEMMA InitInvariant == ASSUME NamesType, LimitsType PROVE Init => IInv
  <1> SUFFICES ASSUME Init
               PROVE  IInv
    OBVIOUS
  <1>1. Control
    <2>1. 1 \in Revisions /\ 0 \in 0..MaxEdits /\ 0 \in 0..MaxRequests
      BY DEF LimitsType, Revisions
    <2> QED BY <2>1 DEF Init, Control, Requests
  <1>2. StoreProofs!IInv
    <2>1. StoreProofs!Init
      BY DEF Init, StoreProofs!Init, Store!StoreInit, StoreProofs!StoreInit
    <2> QED BY <2>1, StoreAssumptions, StoreProofs!InitIInv
  <1>3. Table
    BY DEF Init, Limiter!FailuresInit, Table
  <1>4. Cookies
    BY DEF Init, Cookies, Issued, Idle
  <1>5. Opened
    BY DEF Init, Opened, Store!StoreInit, Store!Live
  <1>6. PendingEarned
    BY DEF Init, PendingEarned, Pending, Idle
  <1> QED BY <1>1, <1>2, <1>3, <1>4, <1>5, <1>6 DEF IInv

LEMMA NextInvariant == ASSUME NamesType, LimitsType PROVE IInv /\ [Next]_vars => IInv'
  <1> SUFFICES ASSUME IInv, [Next]_vars
               PROVE  IInv'
    OBVIOUS
  <1> USE DEF IInv
  <1>1. Control'
    BY ControlStep
  <1>2. StoreProofs!IInv'
    BY StoreKept
  <1>3. Table'
    BY TableStep DEF StoreProofs!IInv, StoreProofs!TypeOK
  <1>4. Cookies'
    BY CookiesStep
  <1>5. Opened'
    BY OpenedStep
  <1>6. PendingEarned'
    BY PendingStep
  <1> QED BY <1>1, <1>2, <1>3, <1>4, <1>5, <1>6

THEOREM Invariance == Spec => []IInv
  <1>1. Init => IInv
    BY InitInvariant, NamesType, LimitsType
  <1>2. IInv /\ [Next]_vars => IInv'
    BY NextInvariant, NamesType, LimitsType
  <1> QED BY <1>1, <1>2, PTL DEF Spec

(* The store keeps its types under the handlers, requests carry only what  *)
(* they have looked up or verified, and no cookie is set that was not      *)
(* issued.                                                                 *)
THEOREM TypeCorrect == Spec => []TypeOK
  <1>1. IInv => TypeOK
    BY SameTypes DEF IInv, Control, Requests, Table, Cookies, PendingEarned, StoreProofs!IInv,
       TypeOK
  <1> QED BY <1>1, Invariance, PTL

(* The handlers use the session store as its specification lets a caller,  *)
(* so every property of the store alone holds of it here.                  *)
THEOREM UsesStore == Spec => Store!Spec
  <1>1. Init => Store!Init
    BY DEF Init, Store!Init
  <1>2. IInv /\ [Next]_vars => [Store!Next]_(Store!vars)
    BY StoreUsed, NamesType DEF IInv
  <1> QED BY <1>1, <1>2, Invariance, PTL DEF Spec, Store!Spec

(* The only step that sends a handler from authorize to serve.             *)
LEMMA ServesAuthorized ==
    ASSUME IInv, [Next]_vars, NEW h \in Handlers,
           req[h].pc = "authorize", req'[h].pc = "serve"
    PROVE  Store!AuthorizedTrue(req[h].cookie, req[h].ip, req[h].share, req[h].revision,
                                IdleLifetime)
  <1>1. Authorize(h)
    <2>1. \E g \in Handlers : Request(g)
      BY DEF Next, Owner, Tick, EditShare, RevokeShare, RevokeAll, vars
    <2>2. PICK g \in Handlers : Request(g)
      BY <2>1
    <2>3. g = h
      <3>1. CASE Verify(g) \/ ClearFailures(g)
        BY <3>1 DEF IInv, Control, Verify, ClearFailures, Goto
      <3> QED BY <2>2, <3>1, OtherSteps DEF IInv
    <2>4. /\ \A op, b, ip, slug, password : ~Arrive(h, op, b, ip, slug, password)
          /\ ~Resolve(h) /\ ~CheckLimit(h) /\ ~Verify(h) /\ ~Disconnect(h)
          /\ ~RecordFailure(h) /\ ~ClearFailures(h) /\ ~Grant(h) /\ ~Lock(h)
          /\ ~Logout(h) /\ ~Respond(h) /\ ~Serve(h)
      BY DEF Arrive, Idle, Resolve, CheckLimit, Verify, Disconnect, RecordFailure,
         ClearFailures, Grant, Lock, Logout, Respond, Serve, At
    <2> QED BY <2>2, <2>3, <2>4 DEF Request
  <1>2. ~Done(h)
    BY DEF Done, Idle, IInv, Control
  <1> QED BY <1>1, <1>2 DEF Authorize

(* A protected share is served only to an address that has presented the   *)
(* password of the revision in force when the request looked the share up. *)
THEOREM ProtectedReadsEarned == Spec => ReadsEarned
  <1> DEFINE Served(h) ==
          req[h].pc = "authorize" /\ req'[h].pc = "serve" =>
             <<req[h].ip, req[h].share, req[h].revision>> \in earned
  <1>1. ASSUME IInv, [Next]_vars, NEW h \in Handlers,
               req[h].pc = "authorize", req'[h].pc = "serve"
        PROVE  <<req[h].ip, req[h].share, req[h].revision>> \in earned
    <2>1. /\ req[h] \in InProgress
          /\ req[h].share \in Shares
          /\ req[h].revision \in Revisions
      BY <1>1, RequestAt DEF IInv, Places, InProgress
    <2>3. Store!AuthorizedTrue(req[h].cookie, req[h].ip, req[h].share, req[h].revision,
                               IdleLifetime)
      BY <1>1, ServesAuthorized
    <2>4. PICK t : /\ t \in Store!Live
                   /\ sessions[t].source_ip = req[h].ip
                   /\ sessions[t].authorized_shares[req[h].share] = req[h].revision
      BY <2>3 DEF Store!AuthorizedTrue, Store!Opens
    <2> QED BY <1>1, <2>1, <2>4 DEF IInv, Opened
  <1>2. IInv /\ [Next]_vars => \A h \in Handlers : Served(h)
    BY <1>1
  <1> QED BY <1>2, Invariance, PTL DEF Spec, ReadsEarned

(* A cookie serves only the address it was issued to and only while its    *)
(* session lives, and an ended session stays ended.                        *)
THEOREM CookiesEnd == Spec => CookiesEndForGood
  <1>1. ASSUME IInv, [Next]_vars, NEW t \in Tokens \ Store!Live, issuedTo[t] # NoClient
        PROVE  issuedTo'[t] # NoClient /\ t \notin Store!Live'
    <2>1. StoreProofs!IInv /\ [StoreProofs!Next]_(StoreProofs!vars)
      BY <1>1, StoreUsed, SameStep, NamesType DEF IInv
    <2>2. /\ issuedTo'[t] = issuedTo[t]
          /\ t \in StoreProofs!Live' => t \in StoreProofs!Live
      BY <1>1, <2>1, StoreAssumptions, NamesType, LimitsType, StoreProofs!EndedStep
    <2> QED BY <1>1, <2>2 DEF Store!Live, StoreProofs!Live
  <1>2. ASSUME IInv, [Next]_vars, NEW h \in Handlers,
               req[h].pc = "authorize", req'[h].pc = "serve"
        PROVE  req[h].cookie \in Store!Live /\ issuedTo[req[h].cookie] = req[h].ip
    <2>1. /\ req[h].cookie \in Store!Live
          /\ sessions[req[h].cookie].source_ip = req[h].ip
      BY <1>2, ServesAuthorized DEF Store!AuthorizedTrue, Store!Opens
    <2>2. \A t \in Store!Live : issuedTo[t] = sessions[t].source_ip
      BY <1>2 DEF IInv, StoreProofs!IInv, StoreProofs!HolderOK, StoreProofs!Live, Store!Live
    <2> QED BY <2>1, <2>2
  <1> DEFINE Kept ==
        /\ \A t \in Tokens \ Store!Live :
              issuedTo[t] # NoClient => issuedTo'[t] # NoClient /\ t \notin Store!Live'
        /\ \A h \in Handlers :
              req[h].pc = "authorize" /\ req'[h].pc = "serve" =>
                 /\ req[h].cookie \in Store!Live
                 /\ issuedTo[req[h].cookie] = req[h].ip
  <1>3. IInv /\ [Next]_vars => Kept
    BY <1>1, <1>2
  <1> QED BY <1>3, Invariance, PTL DEF Spec, CookiesEndForGood
=============================================================================
