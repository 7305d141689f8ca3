------------------------- MODULE SessionStoreProofs -------------------------
(***************************************************************************)
(* Proofs about SessionStore, for any tokens, addresses, shares, lifetimes *)
(* and capacity.                                                           *)
(*                                                                         *)
(* The argument.  No operation changes the address of a session, and a     *)
(* fresh token is recorded with the address it is made for (HolderOK), so  *)
(* a token that ends keeps its first holder and is never fresh again.  A   *)
(* creation starts from a set of survivors smaller than the capacity.      *)
(***************************************************************************)
EXTENDS SessionStore, FiniteSetTheorems, TLAPS

(* A live token was issued to the address its session is bound to.         *)
HolderOK == \A t \in Live : issuedTo[t] = sessions[t].source_ip

IInv == TypeOK /\ HolderOK /\ StoreBounded

USE TokensType, ClientsType, RevisionsType, LifetimeType, MaxSessionsType

-----------------------------------------------------------------------------
(* Every set of tokens is finite, and no larger than a set that has it.    *)
LEMMA TokenSets ==
    ASSUME NEW S \in SUBSET Tokens, NEW T \in SUBSET S
    PROVE  /\ IsFiniteSet(T)
           /\ Cardinality(T) \in Nat /\ Cardinality(S) \in Nat
           /\ Cardinality(T) <= Cardinality(S)
  <1>1. IsFiniteSet(S)
    BY FS_Subset
  <1>2. IsFiniteSet(T) /\ Cardinality(T) <= Cardinality(S)
    BY <1>1, FS_Subset
  <1> QED BY <1>1, <1>2, FS_CardinalityType

(* The survivors of a creation are a proper part of the capacity.          *)
LEMMA SurvivorsFit ==
    ASSUME NEW T \in SUBSET Tokens, Cardinality(T) <= MaxSessions,
           NEW kept \in Survivors(T)
    PROVE  kept \subseteq T /\ Cardinality(kept) < MaxSessions
  <1>1. CASE Cardinality(T) < MaxSessions
    BY <1>1 DEF Survivors
  <1>2. CASE ~(Cardinality(T) < MaxSessions)
    <2>1. PICK t \in LeastRecent(T) : kept = T \ {t}
      BY <1>2 DEF Survivors
    <2>2. t \in T
      BY <2>1 DEF LeastRecent
    <2>3. IsFiniteSet(T) /\ Cardinality(T) \in Nat
      BY TokenSets
    <2>4. Cardinality(T \ {t}) = Cardinality(T) - 1
      BY <2>2, <2>3, FS_RemoveElement
    <2> QED BY <2>1, <2>3, <2>4
  <1> QED BY <1>1, <1>2

(* A call that makes no session keeps the invariant if what it keeps are   *)
(* well-formed sessions of the same addresses.                             *)
LEMMA KeepingStep ==
    ASSUME IInv, clock' \in 0..MaxTime, Live' \subseteq Live,
           issuedTo' = issuedTo,
           sessions' \in [Live' -> Session],
           \A t \in Live' :
              /\ sessions'[t].source_ip = sessions[t].source_ip
              /\ sessions'[t].created_at <= sessions'[t].last_access_at
              /\ sessions'[t].last_access_at <= clock'
    PROVE  IInv'
  <1>1. TypeOK'
    BY DEF IInv, TypeOK
  <1>2. HolderOK'
    BY DEF IInv, HolderOK
  <1>3. StoreBounded'
    <2>1. /\ Cardinality(Live') <= Cardinality(Live)
          /\ Cardinality(Live') \in Nat /\ Cardinality(Live) \in Nat
      BY TokenSets DEF IInv, TypeOK
    <2> QED BY <2>1 DEF IInv, StoreBounded
  <1> QED BY <1>1, <1>2, <1>3 DEF IInv

-----------------------------------------------------------------------------
(* The store after each call: what is live, and the record under each      *)
(* token.                                                                  *)

(* Restricting the store to some of its tokens.                            *)
LEMMA RestrictStore ==
    ASSUME TypeOK, NEW T \in SUBSET Live, sessions' = Restrict(sessions, T)
    PROVE  /\ Live' = T
           /\ sessions' \in [T -> Session]
           /\ \A t \in T : sessions'[t] = sessions[t]
  BY DEF TypeOK, Live, Restrict

LEMMA RetainedLive ==
    ASSUME NEW lifetime PROVE Retained(lifetime) \subseteq Live
  BY DEF Retained

(* One use of a session: only its share and its last access change.        *)
UseOf(token, ip, share, revision, lifetime) ==
    /\ token \in Live' /\ sessions[token].source_ip = ip
    /\ ~Expired(sessions[token], lifetime)
    /\ Live' = Retained(lifetime)
    /\ sessions' \in [Live' -> Session]
    /\ \A t \in Live' \ {token} : sessions'[t] = sessions[t]
    /\ sessions'[token].source_ip = sessions[token].source_ip
    /\ sessions'[token].created_at = sessions[token].created_at
    /\ sessions'[token].last_access_at = clock
    /\ sessions'[token].authorized_shares =
         [sessions[token].authorized_shares EXCEPT ![share] = revision]

LEMMA AuthorizeExistingStore ==
    ASSUME TypeOK, NEW token \in Tokens, NEW ip, NEW share \in Shares,
           NEW revision \in Revisions, NEW lifetime,
           AuthorizeExisting(token, ip, share, revision, lifetime)
    PROVE  UseOf(token, ip, share, revision, lifetime)
  <1> DEFINE base == Restrict(sessions, Retained(lifetime))
  <1>1. /\ base \in [Retained(lifetime) -> Session]
        /\ DOMAIN base = Retained(lifetime)
        /\ \A t \in Retained(lifetime) : base[t] = sessions[t]
    BY RetainedLive DEF TypeOK, Restrict
  <1>2. token \in Retained(lifetime) /\ sessions[token].source_ip = ip
    BY DEF AuthorizeExisting, Reusable
  <1>3. sessions' = [base EXCEPT ![token] =
                       [@ EXCEPT !.authorized_shares[share] = revision,
                                 !.last_access_at = clock]]
    BY DEF AuthorizeExisting
  <1>4. ~Expired(sessions[token], lifetime)
    BY <1>2 DEF Retained
  <1>5. base[token] = sessions[token] /\ sessions[token] \in Session
    BY <1>1, <1>2
  <1> DEFINE after == [sessions[token] EXCEPT !.authorized_shares[share] = revision,
                                              !.last_access_at = clock]
  <1>6. /\ after \in Session
        /\ after.source_ip = sessions[token].source_ip
        /\ after.created_at = sessions[token].created_at
        /\ after.last_access_at = clock
        /\ after.authorized_shares =
             [sessions[token].authorized_shares EXCEPT ![share] = revision]
    BY <1>5 DEF Session, TypeOK
  <1> HIDE DEF base
  <1>7. sessions' = [base EXCEPT ![token] = after]
    BY <1>1, <1>2, <1>3, <1>5
  <1> HIDE DEF after
  <1>8. /\ DOMAIN sessions' = Retained(lifetime)
        /\ sessions' \in [Retained(lifetime) -> Session]
        /\ sessions'[token] = after
        /\ \A t \in Retained(lifetime) \ {token} : sessions'[t] = sessions[t]
    BY <1>1, <1>2, <1>6, <1>7
  <1> QED BY <1>2, <1>4, <1>6, <1>8 DEF Live, UseOf

(* A creation: the survivors are untouched, the new token holds a session  *)
(* that opens one share.                                                   *)
CreationOf(kept, token, ip, share, revision, lifetime) ==
    /\ kept \in Survivors(Retained(lifetime))
    /\ kept \subseteq Retained(lifetime)
    /\ kept \subseteq Live /\ Cardinality(kept) < MaxSessions
    /\ token \notin Live
    /\ Live' = kept \cup {token}
    /\ sessions' \in [Live' -> Session]
    /\ \A t \in kept : sessions'[t] = sessions[t]
    /\ sessions'[token] = NewSession(ip, share, revision)

LEMMA CreateSessionStore ==
    ASSUME IInv, NEW existing, NEW ip \in Clients, NEW share \in Shares,
           NEW revision \in Revisions, NEW lifetime, NEW token \in Tokens,
           CreateSession(existing, ip, share, revision, lifetime, token)
    PROVE  \E kept : CreationOf(kept, token, ip, share, revision, lifetime)
  <1>1. PICK kept \in Survivors(Retained(lifetime)) :
           sessions' = [t \in kept \cup {token} |->
                          IF t = token THEN NewSession(ip, share, revision)
                          ELSE sessions[t]]
    BY DEF CreateSession
  <1>2. Retained(lifetime) \subseteq Live /\ Live \subseteq Tokens
    BY RetainedLive DEF IInv, TypeOK
  <1>3. Cardinality(Retained(lifetime)) <= MaxSessions
    BY <1>2, TokenSets DEF IInv, StoreBounded
  <1>4. kept \subseteq Retained(lifetime) /\ Cardinality(kept) < MaxSessions
    BY <1>2, <1>3, SurvivorsFit
  <1>5. token \notin Live
    <2>1. issuedTo[token] = NoClient
      BY DEF CreateSession
    <2> QED BY <2>1 DEF IInv, HolderOK, TypeOK, Session
  <1>6. NewSession(ip, share, revision) \in Session
    BY DEF IInv, TypeOK, NewSession, Session
  <1>7. /\ Live' = kept \cup {token}
        /\ \A t \in kept : sessions'[t] = sessions[t]
        /\ sessions'[token] = NewSession(ip, share, revision)
    BY <1>1, <1>2, <1>4, <1>5 DEF Live
  <1>8. sessions' \in [Live' -> Session]
    BY <1>1, <1>2, <1>4, <1>6, <1>7 DEF IInv, TypeOK
  <1> QED BY <1>2, <1>4, <1>5, <1>7, <1>8 DEF CreationOf

(* A successful authorization refreshes one session and changes no other.  *)
LEMMA AuthorizedTrueStore ==
    ASSUME TypeOK, NEW token, NEW ip, NEW share, NEW revision, NEW lifetime,
           AuthorizedTrue(token, ip, share, revision, lifetime)
    PROVE  /\ token \in Live /\ ~Expired(sessions[token], lifetime)
           /\ Live' = Live
           /\ sessions' \in [Live' -> Session]
           /\ \A t \in Live \ {token} : sessions'[t] = sessions[t]
           /\ sessions'[token] = [sessions[token] EXCEPT !.last_access_at = clock]
  BY DEF AuthorizedTrue, Opens, TypeOK, Live, Session

(* Locking takes one share from the tokens of T and changes nothing else.  *)
LEMMA LockOnStore ==
    ASSUME TypeOK, NEW T, NEW share \in Shares, LockOn(T, share)
    PROVE  /\ Live' = Live
           /\ sessions' \in [Live' -> Session]
           /\ \A t \in Live \ T : sessions'[t] = sessions[t]
           /\ \A t \in Live \cap T :
                 /\ sessions'[t].source_ip = sessions[t].source_ip
                 /\ sessions'[t].created_at = sessions[t].created_at
                 /\ sessions'[t].last_access_at = sessions[t].last_access_at
                 /\ sessions'[t].authorized_shares =
                      [sessions[t].authorized_shares EXCEPT ![share] = NoRevision]
  BY DEF LockOn, TypeOK, Live, Session

-----------------------------------------------------------------------------
(* The calls, one by one, on the invariant, on the promise and on the      *)
(* lifetime of a session.                                                  *)

(* The sessions of Live that are used or gain a share had not expired.     *)
UsesAreTimely ==
    \A t \in Live \cap Live' :
       /\ sessions'[t].created_at = sessions[t].created_at
       /\ Used(t) => \E lifetime \in Lifetimes : ~Expired(sessions[t], lifetime)

(* What each call shows.                                                   *)
StepOK == IInv' /\ UsesAreTimely /\ (Grants!GrantsNext \/ UNCHANGED Grants!grantVars)

(* A call that only ends sessions.                                         *)
LEMMA EndingStep ==
    ASSUME IInv, clock' = clock, NEW T \in SUBSET Live,
           sessions' = Restrict(sessions, T), UNCHANGED issuedTo
    PROVE  StepOK
  <1>1. /\ Live' = T
        /\ sessions' \in [Live' -> Session]
        /\ \A t \in Live' : sessions'[t] = sessions[t]
    BY RestrictStore DEF IInv
  <1>2. IInv'
    BY <1>1, KeepingStep DEF IInv, TypeOK
  <1>3. UsesAreTimely
    BY <1>1 DEF UsesAreTimely, Used
  <1>4. Grants!Withdraw
    <2>1. GrantsOf' = {g \in GrantsOf : g[1] \in Live'}
      BY <1>1 DEF GrantsOf
    <2> QED BY <1>1, <2>1 DEF Grants!Withdraw
  <1> QED BY <1>2, <1>3, <1>4 DEF StepOK, Grants!GrantsNext

LEMMA AuthorizeExistingStep ==
    ASSUME IInv, clock' = clock, NEW token \in Tokens, NEW ip \in Clients,
           NEW share \in Shares, NEW revision \in Revisions, NEW lifetime \in Lifetimes,
           AuthorizeExisting(token, ip, share, revision, lifetime)
    PROVE  StepOK
  <1> TypeOK /\ UseOf(token, ip, share, revision, lifetime)
    BY AuthorizeExistingStore DEF IInv
  <1>1. /\ token \in Live' /\ sessions[token].source_ip = ip
        /\ ~Expired(sessions[token], lifetime)
        /\ Live' = Retained(lifetime)
        /\ sessions' \in [Live' -> Session]
        /\ \A t \in Live' \ {token} : sessions'[t] = sessions[t]
        /\ sessions'[token].source_ip = sessions[token].source_ip
        /\ sessions'[token].created_at = sessions[token].created_at
        /\ sessions'[token].last_access_at = clock
        /\ sessions'[token].authorized_shares =
             [sessions[token].authorized_shares EXCEPT ![share] = revision]
    BY DEF UseOf
  <1>2. Live' \subseteq Live /\ token \in Live /\ issuedTo' = issuedTo
    BY <1>1, RetainedLive DEF AuthorizeExisting
  <1>3. IInv'
    <2>1. /\ \A t \in Live' : /\ sessions[t].created_at \in 0..MaxTime
                             /\ sessions[t].last_access_at \in 0..MaxTime
                             /\ sessions[t].created_at <= sessions[t].last_access_at
                             /\ sessions[t].last_access_at <= clock
          /\ clock \in 0..MaxTime
      BY <1>2 DEF IInv, TypeOK, Session
    <2>2. \A t \in Live' :
             /\ sessions'[t].source_ip = sessions[t].source_ip
             /\ sessions'[t].created_at <= sessions'[t].last_access_at
             /\ sessions'[t].last_access_at <= clock'
      BY <1>1, <1>2, <2>1
    <2> QED BY <1>1, <1>2, <2>1, <2>2, KeepingStep
  <1>4. UsesAreTimely
    BY <1>1, <1>2 DEF UsesAreTimely, Used
  <1>5. Grants!Grant(token, ip, share, revision)
    <2>1. issuedTo[token] = ip
      BY <1>1, <1>2 DEF IInv, HolderOK
    <2>2. /\ sessions[token].authorized_shares \in [Shares -> Revisions \cup {NoRevision}]
          /\ sessions' = [t \in Live' |-> sessions'[t]]
      BY <1>1, <1>2 DEF IInv, TypeOK, Session
    <2>3. \A g \in Live' \X Shares \X Revisions :
             sessions'[g[1]].authorized_shares[g[2]] = g[3]
               <=> \/ g = <<token, share, revision>>
                   \/ /\ ~(g[1] = token /\ g[2] = share)
                      /\ sessions[g[1]].authorized_shares[g[2]] = g[3]
      <3>1. TAKE g \in Live' \X Shares \X Revisions
      <3>2. CASE g[1] # token
        BY <1>1, <3>2
      <3>3. CASE g[1] = token /\ g[2] = share
        BY <1>1, <2>2, <3>3
      <3>4. CASE g[1] = token /\ g[2] # share
        BY <1>1, <2>2, <3>4
      <3> QED BY <3>2, <3>3, <3>4
    <2>4. <<token, share, revision>> \in Live' \X Shares \X Revisions
      BY <1>1
    <2>5. GrantsOf' = {g \in GrantsOf : g[1] \in Live' /\ ~(g[1] = token /\ g[2] = share)}
                         \cup {<<token, share, revision>>}
      BY <1>2, <2>3, <2>4 DEF GrantsOf
    <2> QED BY <1>1, <1>2, <2>1, <2>5 DEF Grants!Grant
  <1> QED BY <1>3, <1>4, <1>5 DEF StepOK, Grants!GrantsNext

LEMMA CreateSessionStep ==
    ASSUME IInv, clock' = clock, NEW existing, NEW ip \in Clients,
           NEW share \in Shares, NEW revision \in Revisions, NEW lifetime \in Lifetimes,
           NEW token \in Tokens,
           CreateSession(existing, ip, share, revision, lifetime, token)
    PROVE  StepOK
  <1>0. PICK kept : CreationOf(kept, token, ip, share, revision, lifetime)
    BY CreateSessionStore
  <1>1. /\ kept \subseteq Live /\ Cardinality(kept) < MaxSessions
        /\ token \notin Live
        /\ Live' = kept \cup {token}
        /\ sessions' \in [Live' -> Session]
        /\ \A t \in kept : sessions'[t] = sessions[t]
        /\ sessions'[token] = NewSession(ip, share, revision)
    BY <1>0 DEF CreationOf
  <1>2. /\ issuedTo[token] = NoClient
        /\ issuedTo' = [issuedTo EXCEPT ![token] = ip]
    BY DEF CreateSession
  <1>3. IInv'
    <2>1. TypeOK'
      BY <1>1, <1>2 DEF IInv, TypeOK, NewSession
    <2>2. HolderOK'
      BY <1>1, <1>2 DEF IInv, TypeOK, HolderOK, NewSession
    <2>3. StoreBounded'
      <3>1. IsFiniteSet(kept) /\ Cardinality(kept) \in Nat
        BY <1>1, TokenSets DEF IInv, TypeOK
      <3>2. Cardinality(kept \cup {token}) = Cardinality(kept) + 1
        BY <1>1, <3>1, FS_AddElement
      <3> QED BY <1>1, <3>1, <3>2 DEF StoreBounded
    <2> QED BY <2>1, <2>2, <2>3 DEF IInv
  <1>4. UsesAreTimely
    BY <1>1 DEF UsesAreTimely, Used
  <1>5. Grants!Grant(token, ip, share, revision)
    <2>1. \A g \in Live' \X Shares \X Revisions :
             sessions'[g[1]].authorized_shares[g[2]] = g[3]
               <=> \/ g = <<token, share, revision>>
                   \/ /\ g[1] \in kept
                      /\ sessions[g[1]].authorized_shares[g[2]] = g[3]
      <3>1. TAKE g \in Live' \X Shares \X Revisions
      <3>2. CASE g[1] \in kept
        BY <1>1, <3>2
      <3>3. CASE g[1] = token
        BY <1>1, <3>3 DEF NewSession
      <3> QED BY <1>1, <3>2, <3>3
    <2>2. <<token, share, revision>> \in Live' \X Shares \X Revisions
      BY <1>1
    <2>3. GrantsOf' = {g \in GrantsOf : g[1] \in Live' /\ ~(g[1] = token /\ g[2] = share)}
                         \cup {<<token, share, revision>>}
      BY <1>1, <2>1, <2>2 DEF GrantsOf
    <2> QED BY <1>1, <1>2, <2>3 DEF Grants!Grant
  <1> QED BY <1>3, <1>4, <1>5 DEF StepOK, Grants!GrantsNext

LEMMA AuthorizedTrueStep ==
    ASSUME IInv, clock' = clock, NEW token, NEW ip, NEW share, NEW revision,
           NEW lifetime \in Lifetimes,
           AuthorizedTrue(token, ip, share, revision, lifetime)
    PROVE  StepOK
  <1>1. /\ token \in Live /\ ~Expired(sessions[token], lifetime)
        /\ Live' = Live
        /\ sessions' \in [Live' -> Session]
        /\ \A t \in Live \ {token} : sessions'[t] = sessions[t]
        /\ sessions'[token] = [sessions[token] EXCEPT !.last_access_at = clock]
    BY AuthorizedTrueStore DEF IInv
  <1>2. issuedTo' = issuedTo /\ sessions[token] \in Session
    BY <1>1 DEF AuthorizedTrue, IInv, TypeOK
  <1>3. /\ sessions'[token].source_ip = sessions[token].source_ip
        /\ sessions'[token].created_at = sessions[token].created_at
        /\ sessions'[token].last_access_at = clock
        /\ sessions'[token].authorized_shares = sessions[token].authorized_shares
    BY <1>1, <1>2 DEF Session
  <1>4. IInv'
    <2>1. \A t \in Live : /\ sessions[t].created_at \in 0..MaxTime
                          /\ sessions[t].last_access_at \in 0..MaxTime
                          /\ sessions[t].created_at <= sessions[t].last_access_at
                          /\ sessions[t].last_access_at <= clock
      BY DEF IInv, TypeOK, Session
    <2>2. clock \in 0..MaxTime
      BY DEF IInv, TypeOK
    <2>3. \A t \in Live' :
             /\ sessions'[t].source_ip = sessions[t].source_ip
             /\ sessions'[t].created_at <= sessions'[t].last_access_at
             /\ sessions'[t].last_access_at <= clock'
      <3> TAKE t \in Live'
      <3>1. token \in Live
        BY <1>1
      <3>2. CASE t = token
        BY <1>3, <2>1, <2>2, <3>1, <3>2
      <3>3. CASE t # token
        BY <1>1, <2>1, <3>3
      <3> QED BY <3>2, <3>3
    <2> QED BY <1>1, <1>2, <2>2, <2>3, KeepingStep
  <1>5. UsesAreTimely
    BY <1>1, <1>3 DEF UsesAreTimely, Used
  <1>6. GrantsOf' = GrantsOf
    BY <1>1, <1>3 DEF GrantsOf
  <1> QED BY <1>1, <1>2, <1>4, <1>5, <1>6 DEF StepOK, Grants!grantVars

LEMMA LockOnStep ==
    ASSUME IInv, clock' = clock, NEW T, NEW share \in Shares, LockOn(T, share)
    PROVE  StepOK
  <1>1. /\ Live' = Live
        /\ sessions' \in [Live' -> Session]
        /\ \A t \in Live \ T : sessions'[t] = sessions[t]
        /\ \A t \in Live \cap T :
              /\ sessions'[t].source_ip = sessions[t].source_ip
              /\ sessions'[t].created_at = sessions[t].created_at
              /\ sessions'[t].last_access_at = sessions[t].last_access_at
              /\ sessions'[t].authorized_shares =
                   [sessions[t].authorized_shares EXCEPT ![share] = NoRevision]
    BY LockOnStore DEF IInv
  <1>2. issuedTo' = issuedTo
    BY DEF LockOn
  <1>3. \A t \in Live : sessions[t].authorized_shares \in [Shares -> Revisions \cup {NoRevision}]
    BY DEF IInv, TypeOK, Session
  <1>4. IInv'
    <2>1. \A t \in Live' :
             /\ sessions'[t].source_ip = sessions[t].source_ip
             /\ sessions'[t].created_at <= sessions'[t].last_access_at
             /\ sessions'[t].last_access_at <= clock'
      BY <1>1 DEF IInv, TypeOK
    <2> QED BY <1>1, <1>2, <2>1, KeepingStep DEF IInv, TypeOK
  <1>5. UsesAreTimely
    <2> SUFFICES ASSUME NEW t \in Live
                 PROVE  ~Used(t) /\ sessions'[t].created_at = sessions[t].created_at
      BY DEF UsesAreTimely
    <2>1. CASE t \in T
      BY <1>1, <1>3, <2>1 DEF Used
    <2>2. CASE t \notin T
      BY <1>1, <2>2 DEF Used
    <2> QED BY <2>1, <2>2
  <1>6. Grants!LockOn(T \cap Tokens, share)
    <2>1. \A g \in Live \X Shares \X Revisions :
             sessions'[g[1]].authorized_shares[g[2]] = g[3]
               <=> /\ ~(g[1] \in T /\ g[2] = share)
                   /\ sessions[g[1]].authorized_shares[g[2]] = g[3]
      <3>1. TAKE g \in Live \X Shares \X Revisions
      <3>2. CASE g[1] \notin T
        BY <1>1, <3>2
      <3>3. CASE g[1] \in T
        BY <1>1, <1>3, <3>3
      <3> QED BY <3>2, <3>3
    <2>2. Live \subseteq Tokens
      BY DEF IInv, TypeOK
    <2>3. GrantsOf' = {g \in GrantsOf : ~(g[1] \in T \cap Tokens /\ g[2] = share)}
      BY <1>1, <2>1, <2>2 DEF GrantsOf
    <2> QED BY <1>1, <1>2, <2>3 DEF Grants!LockOn
  <1> QED BY <1>4, <1>5, <1>6 DEF StepOK, Grants!GrantsNext

-----------------------------------------------------------------------------
(* Making room for a new session.                                          *)

(* What EvictsLeastRecent asks of a step.                                  *)
MakesRoomFairly ==
    Live' \ Live # {} =>
       \A t \in Live \ Live' : Fresh(t) =>
          /\ Cardinality(Live) >= MaxSessions
          /\ \A u \in Live \ {t} : Fresh(u) => u \in Live'
          /\ \A u \in Live \cap Live' :
                sessions[t].last_access_at <= sessions[u].last_access_at

(* Only a creation adds a token: every other call keeps some of them.      *)
LEMMA OthersAddNothing ==
    ASSUME IInv, NEW cookie \in Tokens \cup {NoToken}, NEW ip \in Clients,
           NEW share \in Shares, NEW revision \in Revisions,
           NEW lifetime \in Lifetimes, NEW T,
           \/ cookie \in Tokens /\ AuthorizeExisting(cookie, ip, share, revision, lifetime)
           \/ AuthorizedTrue(cookie, ip, share, revision, lifetime)
           \/ AuthorizedFalse(cookie, ip, share, revision, lifetime)
           \/ LockOn(T, share)
           \/ EndSessions(T)
    PROVE  Live' \subseteq Live
  <1>1. CASE cookie \in Tokens /\ AuthorizeExisting(cookie, ip, share, revision, lifetime)
    BY <1>1, AuthorizeExistingStore, RetainedLive DEF UseOf, IInv
  <1>2. CASE AuthorizedTrue(cookie, ip, share, revision, lifetime)
    BY <1>2 DEF AuthorizedTrue, Live
  <1>3. CASE AuthorizedFalse(cookie, ip, share, revision, lifetime)
    BY <1>3 DEF AuthorizedFalse, Live, Restrict
  <1>4. CASE LockOn(T, share)
    BY <1>4 DEF LockOn, Live
  <1>5. CASE EndSessions(T)
    BY <1>5 DEF EndSessions, Live, Restrict
  <1> QED BY <1>1, <1>2, <1>3, <1>4, <1>5

(* A creation: the unexpired token that goes is the one Survivors took.    *)
LEMMA CreationMakesRoom ==
    ASSUME IInv, NEW existing, NEW ip \in Clients, NEW share, NEW revision,
           NEW lifetime \in Lifetimes, NEW token \in Tokens,
           CreateSession(existing, ip, share, revision, lifetime, token)
    PROVE  MakesRoomFairly
  <1> DEFINE R == Retained(lifetime)
  <1>1. PICK kept \in Survivors(R) : Live' = kept \cup {token}
    BY DEF CreateSession, Live
  <1>2. R \subseteq Live /\ Live \subseteq Tokens
    BY RetainedLive DEF IInv, TypeOK
  <1>3. token \notin Live
    BY DEF CreateSession, IInv, HolderOK, TypeOK, Session
  <1> SUFFICES ASSUME NEW t \in Live \ Live', Fresh(t)
               PROVE  /\ Cardinality(Live) >= MaxSessions
                      /\ \A u \in Live \ {t} : Fresh(u) => u \in Live'
                      /\ \A u \in Live \cap Live' :
                            sessions[t].last_access_at <= sessions[u].last_access_at
    BY DEF MakesRoomFairly
  <1>4. \A u \in Live : Fresh(u) => u \in R
    BY DEF Fresh, Retained
  <1>5. kept # R
    BY <1>1, <1>4
  <1>6. ~(Cardinality(R) < MaxSessions)
    BY <1>5 DEF Survivors
  <1>7. PICK v \in LeastRecent(R) : kept = R \ {v}
    BY <1>6 DEF Survivors
  <1>8. v = t
    BY <1>1, <1>4, <1>7
  <1>9. Cardinality(Live) >= MaxSessions
    <2>1. /\ Cardinality(R) <= Cardinality(Live)
          /\ Cardinality(R) \in Nat /\ Cardinality(Live) \in Nat
      BY <1>2, TokenSets
    <2> QED BY <2>1, <1>6
  <1>10. \A u \in Live \ {t} : Fresh(u) => u \in Live'
    BY <1>1, <1>4, <1>7, <1>8
  <1>11. \A u \in Live \cap Live' :
            sessions[t].last_access_at <= sessions[u].last_access_at
    BY <1>1, <1>3, <1>7, <1>8 DEF LeastRecent
  <1> QED BY <1>9, <1>10, <1>11

LEMMA RoomStep == IInv /\ Next => MakesRoomFairly
  <1> SUFFICES ASSUME IInv, Next PROVE MakesRoomFairly
    OBVIOUS
  <1>1. CASE Tick
    BY <1>1 DEF Tick, storeVars, Live, MakesRoomFairly
  <1>2. ASSUME NEW cookie \in Tokens \cup {NoToken}, NEW token \in Tokens,
               NEW ip \in Clients, NEW share \in Shares,
               NEW revision \in Revisions, NEW lifetime \in Lifetimes,
               \/ CreateOrAuthorize(cookie, ip, share, revision, lifetime, token)
               \/ AuthorizedTrue(cookie, ip, share, revision, lifetime)
               \/ AuthorizedFalse(cookie, ip, share, revision, lifetime)
        PROVE  MakesRoomFairly
    <2>1. CASE CreateSession(cookie, ip, share, revision, lifetime, token)
      BY <2>1, CreationMakesRoom
    <2>2. CASE ~CreateSession(cookie, ip, share, revision, lifetime, token)
      <3>1. Live' \subseteq Live
        BY <1>2, <2>2, OthersAddNothing DEF CreateOrAuthorize
      <3> QED BY <3>1 DEF MakesRoomFairly
    <2> QED BY <2>1, <2>2
  <1>3. ASSUME NEW T, NEW share \in Shares, LockOn(T, share) PROVE MakesRoomFairly
    BY <1>3 DEF LockOn, Live, MakesRoomFairly
  <1>4. ASSUME NEW T, EndSessions(T) PROVE MakesRoomFairly
    BY <1>4 DEF EndSessions, Live, Restrict, MakesRoomFairly
  <1> QED
    BY <1>1, <1>2, <1>3, <1>4 DEF Next, Call, Logout, LockShare, RevokeShare, RevokeAll

-----------------------------------------------------------------------------
(* The theorems.                                                           *)

LEMMA InitIInv == Init => IInv /\ Grants!GrantsInit
  <1> SUFFICES ASSUME Init PROVE IInv /\ Grants!GrantsInit
    OBVIOUS
  <1>1. Live = {} /\ clock = 0 /\ issuedTo = [t \in Tokens |-> NoClient]
    BY DEF Init, StoreInit, Live
  <1>2. TypeOK /\ HolderOK
    BY <1>1 DEF TypeOK, HolderOK, Init, StoreInit
  <1>3. StoreBounded
    BY <1>1, FS_EmptySet DEF StoreBounded
  <1>4. GrantsOf = {}
    BY <1>1 DEF GrantsOf
  <1> QED BY <1>1, <1>2, <1>3, <1>4 DEF IInv, Grants!GrantsInit

LEMMA CallStep == IInv /\ Call /\ UNCHANGED clock => StepOK
  <1> SUFFICES ASSUME IInv, Call, clock' = clock PROVE StepOK
    OBVIOUS
  <1>1. ASSUME NEW cookie \in Tokens \cup {NoToken}, NEW token \in Tokens,
               NEW ip \in Clients, NEW share \in Shares,
               NEW revision \in Revisions, NEW lifetime \in Lifetimes,
               CreateOrAuthorize(cookie, ip, share, revision, lifetime, token)
        PROVE  StepOK
    BY <1>1, AuthorizeExistingStep, CreateSessionStep DEF CreateOrAuthorize
  <1>2. ASSUME NEW cookie, NEW ip, NEW share, NEW revision, NEW lifetime \in Lifetimes,
               AuthorizedTrue(cookie, ip, share, revision, lifetime)
        PROVE  StepOK
    BY <1>2, AuthorizedTrueStep
  <1>3. ASSUME NEW cookie, NEW ip, NEW share, NEW revision, NEW lifetime,
               AuthorizedFalse(cookie, ip, share, revision, lifetime)
        PROVE  StepOK
    <2>1. CASE cookie \in Live /\ Expired(sessions[cookie], lifetime)
      BY <1>3, <2>1, EndingStep DEF AuthorizedFalse
    <2>2. CASE ~(cookie \in Live /\ Expired(sessions[cookie], lifetime))
      <3>1. sessions' = sessions /\ issuedTo' = issuedTo
        BY <1>3, <2>2 DEF AuthorizedFalse
      <3>2. Restrict(sessions, Live) = sessions
        BY DEF Restrict, IInv, TypeOK
      <3> QED BY <3>1, <3>2, EndingStep
    <2> QED BY <2>1, <2>2
  <1>4. ASSUME NEW T, EndSessions(T) PROVE StepOK
    BY <1>4, EndingStep DEF EndSessions
  <1>5. ASSUME NEW T, NEW share \in Shares, LockOn(T, share) PROVE StepOK
    BY <1>5, LockOnStep
  <1> QED
    BY <1>1, <1>2, <1>3, <1>4, <1>5
       DEF Call, Logout, LockShare, RevokeShare, RevokeAll

LEMMA TickStep == IInv /\ (Tick \/ UNCHANGED vars) => StepOK
  <1> SUFFICES ASSUME IInv, Tick \/ UNCHANGED vars PROVE StepOK
    OBVIOUS
  <1>1. /\ sessions' = sessions /\ issuedTo' = issuedTo
        /\ clock' \in 0..MaxTime /\ clock <= clock'
    BY DEF Tick, vars, storeVars, IInv, TypeOK
  <1>2. Live' = Live /\ GrantsOf' = GrantsOf
    BY <1>1 DEF Live, GrantsOf
  <1>3. IInv'
    <2>1. \A t \in Live : /\ sessions[t].last_access_at \in 0..MaxTime
                          /\ sessions[t].last_access_at <= clock
                          /\ sessions[t].created_at <= sessions[t].last_access_at
      BY DEF IInv, TypeOK, Session
    <2>2. clock \in 0..MaxTime /\ sessions' \in [Live' -> Session]
      BY <1>1, <1>2 DEF IInv, TypeOK
    <2> QED BY <1>1, <1>2, <2>1, <2>2, KeepingStep
  <1>4. UsesAreTimely
    BY <1>1 DEF UsesAreTimely, Used
  <1> QED BY <1>1, <1>2, <1>3, <1>4 DEF StepOK, Grants!grantVars

LEMMA NextStep == IInv /\ [Next]_vars => StepOK
  BY CallStep, TickStep DEF Next

(* The inductive invariant holds of every behaviour of the store.          *)
THEOREM Invariance == Spec => []IInv
  <1>1. Init => IInv
    BY InitIInv
  <1>2. IInv /\ [Next]_vars => IInv'
    BY NextStep DEF StepOK
  <1> QED BY <1>1, <1>2, PTL DEF Spec

(* Type correctness, for every instance.                                   *)
THEOREM TypeCorrect == Spec => []TypeOK
  <1>1. IInv => TypeOK
    BY DEF IInv
  <1> QED BY <1>1, Invariance, PTL

(* The store never holds more than MaxSessions sessions.                   *)
THEOREM SessionsBounded == Spec => []StoreBounded
  <1>1. IInv => StoreBounded
    BY DEF IInv
  <1> QED BY <1>1, Invariance, PTL

(* No expired session is used or gains a share, and no session is reborn.  *)
THEOREM ExpiredStayDead == Spec => NeverRevived
  <1>1. IInv /\ [Next]_vars => [UsesAreTimely]_vars
    BY NextStep DEF StepOK
  <1> QED BY <1>1, Invariance, PTL DEF Spec, NeverRevived, UsesAreTimely

(* A session that has not expired makes room only in a full store, alone,  *)
(* and only if no session that stays was used less recently.               *)
THEOREM LeastRecentMakesRoom == Spec => EvictsLeastRecent
  <1>1. IInv /\ [Next]_vars => [MakesRoomFairly]_vars
    BY RoomStep
  <1> QED BY <1>1, Invariance, PTL DEF Spec, EvictsLeastRecent, MakesRoomFairly

(* The store implements the grants it promises.                            *)
THEOREM StoreImplementsGrants == Spec => ImplementsGrants
  <1>1. Init => Grants!GrantsInit
    BY InitIInv
  <1>2. IInv /\ [Next]_vars => [Grants!GrantsNext]_(Grants!grantVars)
    BY NextStep DEF StepOK
  <1> QED
    BY <1>1, <1>2, Invariance, PTL DEF Spec, ImplementsGrants, Grants!GrantsSpec

-----------------------------------------------------------------------------
(* What the grants promise, and so what the store promises.                *)

(* A step of the abstract grants keeps them sound, gives no token a second *)
(* address and brings no ended session back.                               *)
LEMMA GrantsStep ==
    ASSUME Grants!GrantsSound, [Grants!GrantsNext]_(Grants!grantVars)
    PROVE  /\ Grants!GrantsSound'
           /\ \A u \in Tokens : issuedTo[u] # NoClient =>
                 /\ issuedTo'[u] = issuedTo[u]
                 /\ u \in Live' => u \in Live
  <1> USE DEF Grants!GrantsSound
  <1>1. ASSUME NEW t \in Tokens, NEW c \in Clients, NEW s \in Shares,
               NEW r \in Revisions, Grants!Grant(t, c, s, r)
        PROVE  /\ Grants!GrantsSound'
               /\ \A u \in Tokens : issuedTo[u] # NoClient =>
                     /\ issuedTo'[u] = issuedTo[u]
                     /\ u \in Live' => u \in Live
    <2>1. /\ issuedTo' \in [Tokens -> Clients \cup {NoClient}]
          /\ issuedTo'[t] = c
          /\ \A u \in Tokens : issuedTo[u] # NoClient => issuedTo'[u] = issuedTo[u]
          /\ issuedTo[t] # NoClient => t \in Live
      BY <1>1 DEF Grants!Grant
    <2>2. Live' \subseteq Live \cup {t} /\ t \in Live'
      BY <1>1 DEF Grants!Grant
    <2>3. Live' \subseteq {u \in Tokens : issuedTo'[u] # NoClient}
      BY <2>1, <2>2
    <2>4. GrantsOf' = {g \in GrantsOf : g[1] \in Live' /\ ~(g[1] = t /\ g[2] = s)}
                         \cup {<<t, s, r>>}
      BY <1>1 DEF Grants!Grant
    <2>5. GrantsOf' \subseteq Live' \X Shares \X Revisions
      BY <2>2, <2>4
    <2>6. \A g, h \in GrantsOf' : g[1] = h[1] /\ g[2] = h[2] => g = h
      BY <2>4
    <2> QED BY <2>1, <2>2, <2>3, <2>5, <2>6
  <1>2. ASSUME Live' \subseteq Live, GrantsOf' \subseteq GrantsOf,
               issuedTo' = issuedTo,
               \A g \in GrantsOf' : g[1] \in Live'
        PROVE  /\ Grants!GrantsSound'
               /\ \A u \in Tokens : issuedTo[u] # NoClient =>
                     /\ issuedTo'[u] = issuedTo[u]
                     /\ u \in Live' => u \in Live
    <2>1. GrantsOf' \subseteq Live' \X Shares \X Revisions
      BY <1>2
    <2> QED BY <1>2, <2>1
  <1>3. CASE Grants!Withdraw
    BY <1>2, <1>3 DEF Grants!Withdraw
  <1>4. ASSUME NEW T, NEW s, Grants!LockOn(T, s)
        PROVE  /\ Live' = Live /\ issuedTo' = issuedTo
               /\ GrantsOf' \subseteq GrantsOf
               /\ \A g \in GrantsOf' : g[1] \in Live'
    BY <1>4 DEF Grants!LockOn
  <1>5. CASE UNCHANGED Grants!grantVars
    BY <1>2, <1>5 DEF Grants!grantVars
  <1> QED BY <1>1, <1>2, <1>3, <1>4, <1>5 DEF Grants!GrantsNext

(* The grants of the store are open under live, issued tokens only, each   *)
(* share at one revision.                                                  *)
THEOREM GrantsAreSound == Spec => []Grants!GrantsSound
  <1>1. Grants!GrantsInit => Grants!GrantsSound
    BY DEF Grants!GrantsInit, Grants!GrantsSound
  <1>2. Grants!GrantsSound /\ [Grants!GrantsNext]_(Grants!grantVars)
           => Grants!GrantsSound'
    BY GrantsStep
  <1> QED
    BY <1>1, <1>2, StoreImplementsGrants, PTL DEF ImplementsGrants, Grants!GrantsSpec

(* A session that was logged out, revoked, evicted or has expired is never *)
(* honoured again: its token is not accepted, reissued or rebound.         *)
THEOREM EndedStayEnded == Spec => Grants!NeverHonouredAgain
  <1>1. Grants!GrantsSound /\ [Grants!GrantsNext]_(Grants!grantVars)
           => [Grants!StaysEnded]_(Grants!grantVars)
    BY GrantsStep DEF Grants!StaysEnded
  <1> QED
    BY <1>1, GrantsAreSound, StoreImplementsGrants, PTL
       DEF ImplementsGrants, Grants!GrantsSpec, Grants!NeverHonouredAgain

(* The same of one step of the store, for those that build on it.          *)
LEMMA EndedStep ==
    ASSUME IInv, [Next]_vars
    PROVE  \A t \in Tokens : issuedTo[t] # NoClient =>
              /\ issuedTo'[t] = issuedTo[t]
              /\ t \in Live' => t \in Live
  <1>1. Grants!GrantsSound
    <2>1. \A t \in Live : t \in Tokens /\ issuedTo[t] \in Clients
      BY DEF IInv, TypeOK, HolderOK, Session
    <2>2. GrantsOf \subseteq Live \X Shares \X Revisions
      BY DEF GrantsOf
    <2>3. \A g, h \in GrantsOf : g[1] = h[1] /\ g[2] = h[2] => g = h
      BY DEF GrantsOf
    <2> QED BY <2>1, <2>2, <2>3 DEF IInv, TypeOK, Grants!GrantsSound
  <1>2. [Grants!GrantsNext]_(Grants!grantVars)
    BY NextStep DEF StepOK
  <1> QED BY <1>1, <1>2, GrantsStep
=============================================================================
