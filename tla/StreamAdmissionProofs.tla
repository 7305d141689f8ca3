------------------------ MODULE StreamAdmissionProofs ------------------------
(***************************************************************************)
(* Proofs about StreamAdmission: its invariants for any number of          *)
(* requests, addresses and permits, and that it implements ClientQuota.    *)
(*                                                                         *)
(* The argument.  What a request holds is a function of its phase          *)
(* (Holdings), so nothing leaks.  An entry is removed only while no Arc    *)
(* refers to it, so whoever holds an Arc holds the registered limit        *)
(* (LiveEntryRetained).  The live streams of an address therefore all hold *)
(* permits of one semaphore, whose count bounds them.                      *)
(***************************************************************************)
EXTENDS StreamAdmission, FiniteSetTheorems, TLAPS

HoldsClient == {"request", "stream", "global", "active", "abandonClient"}
HoldsRequest == {"stream", "global", "active", "dropRequest",
                 "abandonClient", "abandonRequest"}
HoldsStream == {"global", "active", "dropRequest", "dropStream"}
HoldsGlobal == {"active", "dropRequest", "dropStream", "dropGlobal"}

(* What a request holds in each phase, and that its live permits come from *)
(* the limit it references.                                                *)
Holdings ==
    \A r \in Requests :
        /\ client[r] # NoLimit <=> pc[r] \in HoldsClient
        /\ request[r] # NoLimit <=> pc[r] \in HoldsRequest
        /\ stream[r] # NoLimit <=> pc[r] \in HoldsStream
        /\ global[r] <=> pc[r] \in HoldsGlobal
        /\ pc[r] \in {"stream", "global", "active"} => request[r] = client[r]
        /\ pc[r] \in {"global", "active"} => stream[r] = client[r]

(* No semaphore has more permits out than it was made with.                *)
SemaphoreBounds ==
    /\ \A l \in Limits : RequestPermitsOut(l) <= ClientRequests
    /\ \A l \in Limits : StreamPermitsOut(l) <= ClientStreams
    /\ GlobalPermitsOut <= GlobalStreams

RegistryBound == Cardinality(Registered) <= ClientCapacity

IInv ==
    /\ TypeOK /\ Holdings /\ LiveEntryRetained
    /\ SemaphoreBounds /\ RegistryBound

-----------------------------------------------------------------------------
(* Counting lemmas.                                                        *)

(* A subset of a set of requests or addresses has no more elements.        *)
LEMMA SubsetCount ==
    ASSUME NEW S, IsFiniteSet(S), NEW T \in SUBSET S
    PROVE  /\ IsFiniteSet(T)
           /\ Cardinality(T) \in Nat /\ Cardinality(S) \in Nat
           /\ Cardinality(T) <= Cardinality(S)
  BY FS_Subset, FS_CardinalityType

(* One more holder takes a count below its limit to at most the limit.     *)
LEMMA AddOneCount ==
    ASSUME NEW S, IsFiniteSet(S), NEW x, NEW T \in SUBSET (S \cup {x}),
           NEW n \in Nat, Cardinality(S) < n
    PROVE  Cardinality(T) <= n
  <1>1. /\ IsFiniteSet(S \cup {x})
        /\ Cardinality(S \cup {x}) <= Cardinality(S) + 1
    <2>1. Cardinality(S) \in Nat
      BY FS_CardinalityType
    <2>2. CASE x \in S
      BY <2>1, <2>2, FS_AddElement
    <2>3. CASE x \notin S
      BY <2>1, <2>3, FS_AddElement
    <2> QED BY <2>2, <2>3
  <1>2. /\ Cardinality(T) <= Cardinality(S \cup {x})
        /\ Cardinality(T) \in Nat /\ Cardinality(S \cup {x}) \in Nat
    BY <1>1, SubsetCount
  <1>3. Cardinality(S) \in Nat
    BY FS_CardinalityType
  <1> QED BY <1>1, <1>2, <1>3

(* Sets of requests and of addresses are finite.                           *)
LEMMA PermitSetsFinite ==
    /\ \A l : IsFiniteSet({r \in Requests : request[r] = l})
    /\ \A l : IsFiniteSet({r \in Requests : stream[r] = l})
    /\ IsFiniteSet({r \in Requests : global[r]})
    /\ IsFiniteSet(Registered)
  BY RequestsFinite, ClientsFinite, FS_Subset DEF Registered

(* A semaphore's count stays within its bound when every permit out after  *)
(* the step was out before it.                                             *)
LEMMA FewerPermits ==
    ASSUME TypeOK, SemaphoreBounds,
           \A r \in Requests :
               /\ request'[r] \in {request[r], NoLimit}
               /\ stream'[r] \in {stream[r], NoLimit}
               /\ global'[r] => global[r]
    PROVE  SemaphoreBounds'
  <1>1. ASSUME NEW l \in Limits
        PROVE  /\ (RequestPermitsOut(l))' <= ClientRequests
               /\ (StreamPermitsOut(l))' <= ClientStreams
    <2>1. {r \in Requests : request'[r] = l} \subseteq {r \in Requests : request[r] = l}
      BY NoLimitOutside, <1>1
    <2>2. {r \in Requests : stream'[r] = l} \subseteq {r \in Requests : stream[r] = l}
      BY NoLimitOutside, <1>1
    <2>3. /\ IsFiniteSet({r \in Requests : request[r] = l})
          /\ IsFiniteSet({r \in Requests : stream[r] = l})
      BY PermitSetsFinite
    <2>4. /\ Cardinality({r \in Requests : request[r] = l}) <= ClientRequests
          /\ Cardinality({r \in Requests : stream[r] = l}) <= ClientStreams
      BY <1>1 DEF SemaphoreBounds, RequestPermitsOut, StreamPermitsOut
    <2> QED
      BY <2>1, <2>2, <2>3, <2>4, SubsetCount, CapacityType
         DEF RequestPermitsOut, StreamPermitsOut
  <1>2. GlobalPermitsOut' <= GlobalStreams
    <2>1. {r \in Requests : global'[r]} \subseteq {r \in Requests : global[r]}
      OBVIOUS
    <2>2. IsFiniteSet({r \in Requests : global[r]})
      BY PermitSetsFinite
    <2>3. Cardinality({r \in Requests : global[r]}) <= GlobalStreams
      BY DEF SemaphoreBounds, GlobalPermitsOut
    <2> QED
      BY <2>1, <2>2, <2>3, SubsetCount, CapacityType DEF GlobalPermitsOut
  <1> QED BY <1>1, <1>2 DEF SemaphoreBounds

-----------------------------------------------------------------------------
(* The registry after a lookup.                                            *)

(* A retained set that has room, or that loses one unreferenced entry, has *)
(* fewer than ClientCapacity entries and still every referenced one.       *)
LEMMA SurvivorsFit ==
    ASSUME TypeOK, RegistryBound, NEW t \in 0..MaxTime, NEW kept \in Survivors(t)
    PROVE  /\ kept \subseteq Registered
           /\ Cardinality(kept) < ClientCapacity
           /\ \A c \in Registered : Referenced(registry[c]) => c \in kept
  <1> DEFINE R == Retained(t)
  <1>1. R \subseteq Registered
    BY DEF Retained
  <1>2. /\ IsFiniteSet(R)
        /\ Cardinality(R) \in Nat
        /\ Cardinality(R) <= ClientCapacity
    BY <1>1, PermitSetsFinite, SubsetCount, CapacityType DEF RegistryBound
  <1>3. \A c \in Registered : Referenced(registry[c]) => c \in R
    BY DEF Retained
  <1>4. CASE Cardinality(R) < ClientCapacity
    BY <1>1, <1>3, <1>4 DEF Survivors
  <1>5. CASE ~(Cardinality(R) < ClientCapacity)
    <2>1. PICK c \in Oldest(R) : kept = R \ {c}
      BY <1>5 DEF Survivors
    <2>2. c \in R /\ ~Referenced(registry[c])
      BY <2>1 DEF Oldest, Unreferenced
    <2>3. Cardinality(kept) = Cardinality(R) - 1
      BY <1>2, <2>1, <2>2, FS_RemoveElement
    <2>4. Cardinality(kept) < ClientCapacity
      BY <1>2, <2>3, CapacityType
    <2> QED BY <1>1, <1>3, <2>1, <2>2, <2>4
  <1> QED BY <1>4, <1>5

(* Dropping entries no Arc refers to, one may be added for c, keeps every  *)
(* live entry.                                                             *)
LEMMA InsertKeepsEntries ==
    ASSUME IInv, NEW r \in Requests, LookupInsert(r)
    PROVE  LiveEntryRetained' /\ RegistryBound'
  <1> DEFINE c == Peer[r]
  <1>1. PICK kept \in Survivors(now[r]), l \in Limits :
           /\ KeepAndAdd(kept, c, l, now[r])
           /\ client' = [client EXCEPT ![r] = l]
    BY DEF LookupInsert
  <1>2. /\ now[r] \in 0..MaxTime /\ c \in Clients
        /\ registry[c] = NoLimit
    BY PeerType DEF IInv, TypeOK, LookupInsert
  <1>3. /\ kept \subseteq Registered
        /\ Cardinality(kept) < ClientCapacity
        /\ \A d \in Registered : Referenced(registry[d]) => d \in kept
    BY <1>1, <1>2, SurvivorsFit DEF IInv
  <1>4. LiveEntryRetained'
    <2> SUFFICES ASSUME NEW s \in Requests, client'[s] # NoLimit
                 PROVE  client'[s] = registry'[Peer[s]]
      BY DEF LiveEntryRetained
    <2>1. CASE s = r
      BY <1>1, <1>2, <2>1 DEF KeepAndAdd, IInv, TypeOK
    <2>2. CASE s # r
      <3>1. client'[s] = client[s] /\ client[s] # NoLimit
        BY <1>1, <2>2 DEF IInv, TypeOK
      <3>2. client[s] = registry[Peer[s]]
        BY <3>1 DEF IInv, LiveEntryRetained
      <3>3. Peer[s] \in Registered /\ Referenced(registry[Peer[s]])
        BY <3>1, <3>2, PeerType DEF Registered, Referenced
      <3>4. Peer[s] \in kept /\ Peer[s] # c
        BY <1>2, <1>3, <3>1, <3>2, <3>3
      <3> QED BY <1>1, <3>1, <3>2, <3>4, PeerType DEF KeepAndAdd
    <2> QED BY <2>1, <2>2
  <1>5. RegistryBound'
    <2>1. Registered' \subseteq kept \cup {c}
      BY <1>1 DEF Registered, KeepAndAdd
    <2>2. IsFiniteSet(kept)
      BY <1>3, PermitSetsFinite, SubsetCount
    <2> QED
      BY <1>3, <2>1, <2>2, AddOneCount, CapacityType DEF RegistryBound
  <1> QED BY <1>4, <1>5

(* A refused lookup has reclaimed idle entries, none of them live.         *)
LEMMA RefuseKeepsEntries ==
    ASSUME IInv, NEW r \in Requests, LookupRefuse(r)
    PROVE  LiveEntryRetained' /\ RegistryBound'
  <1> DEFINE R == Retained(now[r])
  <1>1. KeepOnly(R) /\ client' = client
    BY DEF LookupRefuse
  <1>2. LiveEntryRetained'
    <2> SUFFICES ASSUME NEW s \in Requests, client[s] # NoLimit
                 PROVE  client[s] = registry'[Peer[s]]
      BY <1>1 DEF LiveEntryRetained
    <2>1. client[s] = registry[Peer[s]]
      BY DEF IInv, LiveEntryRetained
    <2>2. Peer[s] \in R
      BY <2>1, PeerType DEF Retained, Registered, Referenced
    <2> QED BY <1>1, <2>1, <2>2, PeerType DEF KeepOnly
  <1>3. RegistryBound'
    <2>1. Registered' \subseteq Registered
      BY <1>1 DEF Registered, KeepOnly, Retained
    <2> QED
      BY <2>1, PermitSetsFinite, SubsetCount, CapacityType DEF IInv, RegistryBound
  <1> QED BY <1>2, <1>3

-----------------------------------------------------------------------------
(* The inductive invariant.                                                *)

(* What a request holds in each phase follows from the phase each action   *)
(* leaves and enters.                                                      *)
LEMMA TypeStep == TypeOK /\ [Next]_vars => TypeOK'
  <1> SUFFICES ASSUME TypeOK, [Next]_vars PROVE TypeOK'
    OBVIOUS
  <1> USE CapacityType, PeerType DEF TypeOK, Goto, Phases, registryVars, permitVars
  <1>1. CASE Tick
    BY <1>1 DEF Tick
  <1>2. ASSUME NEW r \in Requests, Begin(r) PROVE TypeOK'
    BY <1>2 DEF Begin
  <1>3. ASSUME NEW r \in Requests, Lookup(r) PROVE TypeOK'
    <2>1. CASE LookupHit(r)
      BY <2>1 DEF LookupHit
    <2>2. CASE LookupInsert(r)
      BY <2>2 DEF LookupInsert, KeepAndAdd
    <2>3. CASE LookupRefuse(r)
      BY <2>3 DEF LookupRefuse, KeepOnly
    <2> QED BY <1>3, <2>1, <2>2, <2>3 DEF Lookup
  <1>4. ASSUME NEW r \in Requests, TryRequest(r) PROVE TypeOK'
    BY <1>4 DEF TryRequest, AcquireRequest, RefuseRequest
  <1>5. ASSUME NEW r \in Requests, Await(r) PROVE TypeOK'
    BY <1>5 DEF Await, AcquireStream, AcquireGlobal
  <1>6. ASSUME NEW r \in Requests, Abandon(r) \/ DropAbandoned(r) PROVE TypeOK'
    BY <1>6 DEF Abandon, DropAbandoned, AbandonClient, AbandonRequest
  <1>7. ASSUME NEW r \in Requests, Finish(r) \/ DropPermit(r) PROVE TypeOK'
    BY <1>7 DEF Finish, DropPermit, DropRequest, DropStream, DropGlobal
  <1>8. CASE UNCHANGED vars
    BY <1>8 DEF vars
  <1> QED
    BY <1>1, <1>2, <1>3, <1>4, <1>5, <1>6, <1>7, <1>8 DEF Next, Step

(* Every action moves a request to the phase that matches what it then     *)
(* holds, and touches no other request.                                    *)
LEMMA HoldingsStep ==
    ASSUME IInv, [Next]_vars
    PROVE  Holdings'
  <1> USE NoLimitOutside DEF IInv, TypeOK, Holdings, Goto, permitVars,
          HoldsClient, HoldsRequest, HoldsStream, HoldsGlobal
  <1>1. CASE Tick
    BY <1>1 DEF Tick
  <1>2. ASSUME NEW r \in Requests, Begin(r) PROVE Holdings'
    BY <1>2 DEF Begin
  <1>3. ASSUME NEW r \in Requests, Lookup(r) PROVE Holdings'
    <2>1. CASE LookupHit(r)
      BY <2>1 DEF LookupHit
    <2>2. CASE LookupInsert(r)
      BY <2>2 DEF LookupInsert
    <2>3. CASE LookupRefuse(r)
      BY <2>3 DEF LookupRefuse
    <2> QED BY <1>3, <2>1, <2>2, <2>3 DEF Lookup
  <1>4. ASSUME NEW r \in Requests, TryRequest(r) PROVE Holdings'
    BY <1>4 DEF TryRequest, AcquireRequest, RefuseRequest
  <1>5. ASSUME NEW r \in Requests, Await(r) PROVE Holdings'
    BY <1>5 DEF Await, AcquireStream, AcquireGlobal
  <1>6. ASSUME NEW r \in Requests, Abandon(r) \/ DropAbandoned(r) PROVE Holdings'
    BY <1>6 DEF Abandon, DropAbandoned, AbandonClient, AbandonRequest
  <1>7. ASSUME NEW r \in Requests, Finish(r) \/ DropPermit(r) PROVE Holdings'
    BY <1>7 DEF Finish, DropPermit, DropRequest, DropStream, DropGlobal
  <1>8. CASE UNCHANGED vars
    BY <1>8 DEF vars
  <1> QED
    BY <1>1, <1>2, <1>3, <1>4, <1>5, <1>6, <1>7, <1>8 DEF Next, Step

(* Only a lookup changes the registry; every other step keeps each Arc or  *)
(* drops it.                                                               *)
LEMMA RegistryStep ==
    ASSUME IInv, [Next]_vars
    PROVE  LiveEntryRetained' /\ RegistryBound'
  <1> DEFINE Kept == /\ registry' = registry
                     /\ \A r \in Requests : client'[r] \in {client[r], NoLimit}
  <1>1. ASSUME Kept PROVE LiveEntryRetained' /\ RegistryBound'
    BY <1>1 DEF IInv, LiveEntryRetained, RegistryBound, Registered
  <1>2. CASE Tick \/ UNCHANGED vars
    BY <1>1, <1>2 DEF Tick, vars, registryVars
  <1>3. ASSUME NEW r \in Requests, Lookup(r)
        PROVE  LiveEntryRetained' /\ RegistryBound'
    <2>1. CASE LookupHit(r)
      BY <2>1, PeerType
         DEF LookupHit, IInv, TypeOK, LiveEntryRetained, RegistryBound, Registered
    <2> QED
      BY <1>3, <2>1, InsertKeepsEntries, RefuseKeepsEntries DEF Lookup
  <1>4. ASSUME NEW r \in Requests, Step(r), ~Lookup(r) PROVE Kept
    BY <1>4 DEF Step, Begin, TryRequest, AcquireRequest, RefuseRequest,
                Await, AcquireStream, AcquireGlobal, Abandon, DropAbandoned,
                AbandonClient, AbandonRequest, Finish, DropPermit, DropRequest,
                DropStream, DropGlobal, registryVars, IInv, TypeOK
  <1> QED BY <1>1, <1>2, <1>3, <1>4 DEF Next

(* A permit is taken only below the semaphore's bound.                     *)
LEMMA SemaphoreStep ==
    ASSUME IInv, [Next]_vars
    PROVE  SemaphoreBounds'
  <1> USE DEF IInv
  <1>1. CASE Tick \/ UNCHANGED vars
    BY <1>1, FewerPermits DEF Tick, vars, permitVars
  <1>2. ASSUME NEW r \in Requests, AcquireRequest(r) PROVE SemaphoreBounds'
    <2>1. \A l \in Limits : (RequestPermitsOut(l))' <= ClientRequests
      <3> SUFFICES ASSUME NEW l \in Limits
                   PROVE  (RequestPermitsOut(l))' <= ClientRequests
        OBVIOUS
      <3> DEFINE S == {s \in Requests : request[s] = l}
                 T == {s \in Requests : request'[s] = l}
      <3>1. IsFiniteSet(S)
        BY PermitSetsFinite
      <3>2. CASE l = client[r]
        <4>1. T \subseteq S \cup {r} /\ Cardinality(S) < ClientRequests
          BY <1>2, <3>2 DEF AcquireRequest, RequestPermitsOut, TypeOK
        <4> QED
          BY <3>1, <4>1, AddOneCount, CapacityType DEF RequestPermitsOut
      <3>3. CASE l # client[r]
        <4>1. T \subseteq S
          BY <1>2, <3>3 DEF AcquireRequest, TypeOK
        <4>2. Cardinality(S) <= ClientRequests
          BY DEF SemaphoreBounds, RequestPermitsOut
        <4> QED
          BY <3>1, <4>1, <4>2, SubsetCount, CapacityType DEF RequestPermitsOut
      <3> QED BY <3>2, <3>3
    <2> QED
      BY <1>2, <2>1 DEF AcquireRequest, SemaphoreBounds, StreamPermitsOut,
                        GlobalPermitsOut
  <1>3. ASSUME NEW r \in Requests, AcquireStream(r) PROVE SemaphoreBounds'
    <2>1. \A l \in Limits : (StreamPermitsOut(l))' <= ClientStreams
      <3> SUFFICES ASSUME NEW l \in Limits
                   PROVE  (StreamPermitsOut(l))' <= ClientStreams
        OBVIOUS
      <3> DEFINE S == {s \in Requests : stream[s] = l}
                 T == {s \in Requests : stream'[s] = l}
      <3>1. IsFiniteSet(S)
        BY PermitSetsFinite
      <3>2. CASE l = client[r]
        <4>1. T \subseteq S \cup {r} /\ Cardinality(S) < ClientStreams
          BY <1>3, <3>2 DEF AcquireStream, StreamPermitsOut, TypeOK
        <4> QED
          BY <3>1, <4>1, AddOneCount, CapacityType DEF StreamPermitsOut
      <3>3. CASE l # client[r]
        <4>1. T \subseteq S
          BY <1>3, <3>3 DEF AcquireStream, TypeOK
        <4>2. Cardinality(S) <= ClientStreams
          BY DEF SemaphoreBounds, StreamPermitsOut
        <4> QED
          BY <3>1, <4>1, <4>2, SubsetCount, CapacityType DEF StreamPermitsOut
      <3> QED BY <3>2, <3>3
    <2> QED
      BY <1>3, <2>1 DEF AcquireStream, SemaphoreBounds, RequestPermitsOut,
                        GlobalPermitsOut
  <1>4. ASSUME NEW r \in Requests, AcquireGlobal(r) PROVE SemaphoreBounds'
    <2> DEFINE S == {s \in Requests : global[s]}
               T == {s \in Requests : global'[s]}
    <2>1. T \subseteq S \cup {r} /\ Cardinality(S) < GlobalStreams
      BY <1>4 DEF AcquireGlobal, GlobalPermitsOut, TypeOK
    <2>2. GlobalPermitsOut' <= GlobalStreams
      BY <2>1, PermitSetsFinite, AddOneCount, CapacityType DEF GlobalPermitsOut
    <2> QED
      BY <1>4, <2>2 DEF AcquireGlobal, SemaphoreBounds, RequestPermitsOut,
                        StreamPermitsOut
  <1>5. ASSUME NEW r \in Requests, Step(r),
               ~AcquireRequest(r), ~AcquireStream(r), ~AcquireGlobal(r)
        PROVE  SemaphoreBounds'
    <2>1. \A s \in Requests :
             /\ request'[s] \in {request[s], NoLimit}
             /\ stream'[s] \in {stream[s], NoLimit}
             /\ global'[s] => global[s]
      BY <1>5 DEF Step, Begin, Lookup, LookupHit, LookupInsert, LookupRefuse,
                  TryRequest, RefuseRequest, Await, Abandon, DropAbandoned,
                  AbandonClient, AbandonRequest, Finish, DropPermit, DropRequest,
                  DropStream, DropGlobal, permitVars, TypeOK
    <2> QED BY <2>1, FewerPermits
  <1> QED BY <1>1, <1>2, <1>3, <1>4, <1>5 DEF Next

(* The invariant holds initially: no permit is out and no entry exists.    *)
LEMMA InitInv == Init => IInv
  <1> SUFFICES ASSUME Init PROVE IInv
    OBVIOUS
  <1>1. TypeOK /\ Holdings /\ LiveEntryRetained
    BY CapacityType DEF Init, TypeOK, Phases, Holdings, LiveEntryRetained,
       HoldsClient, HoldsRequest, HoldsStream, HoldsGlobal
  <1>2. \A l \in Limits : /\ {r \in Requests : request[r] = l} = {}
                          /\ {r \in Requests : stream[r] = l} = {}
    BY NoLimitOutside DEF Init
  <1>3. {r \in Requests : global[r]} = {} /\ Registered = {}
    BY DEF Init, Registered
  <1>4. SemaphoreBounds /\ RegistryBound
    BY <1>2, <1>3, FS_EmptySet, CapacityType
       DEF SemaphoreBounds, RegistryBound, RequestPermitsOut, StreamPermitsOut,
           GlobalPermitsOut
  <1> QED BY <1>1, <1>4 DEF IInv

(* The inductive invariant holds of every reachable state.                 *)
THEOREM Invariance == Spec => []IInv
  <1>1. IInv /\ [Next]_vars => IInv'
    BY TypeStep, HoldingsStep, RegistryStep, SemaphoreStep DEF IInv
  <1> QED BY InitInv, <1>1, PTL DEF Spec

-----------------------------------------------------------------------------
(* The live streams (and requests) of an address all hold permits of its   *)
(* registered limit, so the semaphore's bound is theirs.                   *)
LEMMA LiveShareOneLimit ==
    ASSUME IInv, NEW c \in Clients
    PROVE  /\ Cardinality(LiveStreams(c)) <= ClientStreams
           /\ Cardinality(LiveRequests(c)) <= ClientRequests
  <1> DEFINE l == registry[c]
             S == {r \in Requests : stream[r] = l}
             R == {r \in Requests : request[r] = l}
  <1>1. \A r \in Requests :
           /\ pc[r] \in {"stream", "global", "active"} =>
                 /\ client[r] = registry[Peer[r]] /\ request[r] = client[r]
                 /\ client[r] # NoLimit
           /\ pc[r] \in {"global", "active"} => stream[r] = client[r]
    BY DEF IInv, Holdings, HoldsClient, LiveEntryRetained
  <1>2. LiveStreams(c) \subseteq S /\ LiveRequests(c) \subseteq R
    BY <1>1 DEF LiveStreams, LiveRequests
  <1>3. IsFiniteSet(S) /\ IsFiniteSet(R)
    BY PermitSetsFinite
  <1>4. CASE l \in Limits
    <2>1. Cardinality(S) <= ClientStreams /\ Cardinality(R) <= ClientRequests
      BY <1>4 DEF IInv, SemaphoreBounds, StreamPermitsOut, RequestPermitsOut
    <2> QED BY <1>2, <1>3, <2>1, SubsetCount, CapacityType
  <1>5. CASE l \notin Limits
    <2>1. l = NoLimit
      BY <1>5 DEF IInv, TypeOK
    <2>2. LiveStreams(c) = {} /\ LiveRequests(c) = {}
      BY <1>1, <2>1 DEF LiveStreams, LiveRequests
    <2> QED BY <2>2, FS_EmptySet, CapacityType
  <1> QED BY <1>4, <1>5

(* Every value of every variable is of its type, whatever the bounds.      *)
THEOREM TypeCorrect == Spec => []TypeOK
  BY Invariance, PTL DEF IInv

(* A live request's entry is never reclaimed or evicted, so all Arcs of an *)
(* address refer to its one registered limit (StreamAdmission::client).    *)
THEOREM LiveEntriesRetained == Spec => []LiveEntryRetained
  BY Invariance, PTL DEF IInv

(* The per-address limits of acquire hold for any registry capacity.       *)
THEOREM ClientsBounded == Spec => []ClientBounds
  <1>1. IInv => ClientBounds
    BY LiveShareOneLimit DEF ClientBounds
  <1> QED BY <1>1, Invariance, PTL

(* The registry and the global semaphore keep their bounds.                *)
THEOREM CapacityBounded == Spec => []CapacityBounds
  <1>1. IInv => CapacityBounds
    BY DEF IInv, RegistryBound, SemaphoreBounds, CapacityBounds
  <1> QED BY <1>1, Invariance, PTL

(* Every path through acquire and every drop returns what was taken.       *)
THEOREM NoLeaks == Spec => []NothingLeaks
  <1>1. IInv => NothingLeaks
    BY DEF IInv, Holdings, NothingLeaks, HoldsClient, HoldsRequest,
           HoldsStream, HoldsGlobal
  <1> QED BY <1>1, Invariance, PTL

-----------------------------------------------------------------------------
(* Admission implements the quota.                                         *)

(* The quota counts with the same Cardinality.                             *)
LEMMA SameCardinality == \A S : Quota!Cardinality(S) = Cardinality(S)
  BY DEF Quota!Cardinality, Cardinality

(* A request that has just its request permit to take joins: fewer than    *)
(* ClientRequests of its address are present.                              *)
LEMMA JoinStep ==
    ASSUME IInv, NEW r \in Requests, AcquireRequest(r)
    PROVE  Quota!Join(r)
  <1> DEFINE c == Peer[r]
             R == {s \in Requests : request[s] = client[r]}
  <1>1. pc[r] = "request" /\ pc' = [pc EXCEPT ![r] = "stream"]
    BY DEF AcquireRequest, Goto
  <1>2. Quota!Present(c) \subseteq R
    <2> SUFFICES ASSUME NEW s \in Requests, Peer[s] = c,
                        pc[s] \in {"stream", "global", "active"}
                 PROVE  request[s] = client[r]
      BY DEF Quota!Present, StageOf
    <2>1. request[s] = client[s] /\ client[s] # NoLimit /\ client[r] # NoLimit
      BY <1>1 DEF IInv, Holdings, HoldsClient
    <2> QED BY <2>1 DEF IInv, LiveEntryRetained
  <1>3. Cardinality(R) < ClientRequests
    BY DEF AcquireRequest, RequestPermitsOut
  <1>4. Cardinality(Quota!Present(c)) < ClientRequests
    BY <1>2, <1>3, PermitSetsFinite, SubsetCount, CapacityType
  <1> QED
    BY <1>1, <1>4, SameCardinality DEF Quota!Join, StageOf, IInv, TypeOK

(* A request that takes its global permit is admitted: it already holds    *)
(* one of its address's stream permits, so the others hold fewer.          *)
LEMMA AdmitStep ==
    ASSUME IInv, NEW r \in Requests, AcquireGlobal(r)
    PROVE  Quota!Admit(r)
  <1> DEFINE c == Peer[r]
             S == LiveStreams(c)
             G == {s \in Requests : global[s]}
  <1>1. pc[r] = "global" /\ pc' = [pc EXCEPT ![r] = "active"]
    BY DEF AcquireGlobal, Goto
  <1>2. /\ Quota!Streaming(c) \subseteq S \ {r}
        /\ r \in S
    BY <1>1 DEF Quota!Streaming, StageOf, LiveStreams
  <1>3. IsFiniteSet(S) /\ Cardinality(S) <= ClientStreams
    BY LiveShareOneLimit, RequestsFinite, FS_Subset, PeerType DEF LiveStreams
  <1>4. Cardinality(S \ {r}) = Cardinality(S) - 1 /\ IsFiniteSet(S \ {r})
    BY <1>2, <1>3, FS_RemoveElement
  <1>5. Cardinality(Quota!Streaming(c)) < ClientStreams
    BY <1>2, <1>3, <1>4, SubsetCount, CapacityType
  <1>6. Quota!AllStreaming \subseteq G
    BY DEF Quota!AllStreaming, StageOf, IInv, Holdings, HoldsGlobal
  <1>7. Cardinality(Quota!AllStreaming) < GlobalStreams
    BY <1>6, PermitSetsFinite, SubsetCount, CapacityType
       DEF AcquireGlobal, GlobalPermitsOut
  <1> QED
    BY <1>1, <1>5, <1>7, SameCardinality DEF Quota!Admit, StageOf, IInv, TypeOK

(* Dynamic limiters with eviction behave as one permanent quota per        *)
(* address: every step of admission is a step of ClientQuota or a stutter. *)
THEOREM ImplementsQuota == Spec => QuotaSpec
  <1> DEFINE stageBar == [r \in Requests |-> StageOf(pc[r])]
  <1>1. Init => Quota!Init
    BY DEF Init, Quota!Init, StageOf
  <1>2. ASSUME IInv, [Next]_vars PROVE [Quota!Next]_stageBar
    <2>1. CASE Tick \/ UNCHANGED vars
      BY <2>1 DEF Tick, vars
    <2>2. ASSUME NEW r \in Requests, AcquireRequest(r) PROVE Quota!Next
      BY <2>2, <1>2, JoinStep DEF Quota!Next
    <2>3. ASSUME NEW r \in Requests, AcquireGlobal(r) PROVE Quota!Next
      BY <2>3, <1>2, AdmitStep DEF Quota!Next
    <2>4. ASSUME NEW r \in Requests, Abandon(r) \/ Finish(r) PROVE Quota!Next
      <3>1. Quota!Leave(r)
        BY <2>4, <1>2
           DEF Abandon, Finish, Goto, Quota!Leave, StageOf, IInv, TypeOK
      <3> QED BY <3>1 DEF Quota!Next
    <2>5. ASSUME NEW r \in Requests, Step(r),
                 ~AcquireRequest(r), ~AcquireGlobal(r), ~Abandon(r), ~Finish(r)
          PROVE  UNCHANGED stageBar
      <3>1. PICK phase \in Phases :
               /\ pc' = [pc EXCEPT ![r] = phase]
               /\ StageOf(phase) = StageOf(pc[r])
        BY <2>5 DEF Step, Begin, Lookup, LookupHit, LookupInsert, LookupRefuse,
                    TryRequest, RefuseRequest, Await, AcquireStream,
                    DropAbandoned, AbandonClient, AbandonRequest, DropPermit,
                    DropRequest, DropStream, DropGlobal, Goto, StageOf, Phases
      <3> QED BY <1>2, <3>1 DEF IInv, TypeOK
    <2> QED BY <1>2, <2>1, <2>2, <2>3, <2>4, <2>5 DEF Next
  <1> QED
    BY <1>1, <1>2, Invariance, PTL DEF Spec, QuotaSpec, Quota!Spec
=============================================================================
