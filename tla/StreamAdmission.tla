--------------------------- MODULE StreamAdmission ---------------------------
(***************************************************************************)
(* Bounded, per-client admission of downloads (src/src/admission.rs).      *)
(*                                                                         *)
(* One action is one atomic operation of one request's thread: a section   *)
(* under the registry's mutex, one semaphore operation, or the drop of one *)
(* reference.  A ClientLimit (the pair of semaphores one address shares)   *)
(* is a heap object, so it has an identity, and every holder remembers the *)
(* object its permit came from.  Semaphore counts are not stored: a permit *)
(* is out exactly while some request holds it.  Tokio hands a released     *)
(* permit to the longest waiter; here any waiter may take it, which allows *)
(* more orders than the program has.                                       *)
(***************************************************************************)
EXTENDS Naturals, FiniteSets

CONSTANTS
    Requests,        \* request slots; a slot is one content request at a time
    Clients,         \* client addresses (IpAddr)
    Peer,            \* the address each slot's connection comes from
    Limits,          \* heap identities of ClientLimit objects
    NoLimit,         \* no object: an absent entry or a dropped reference
    GlobalStreams,   \* permits of the global semaphore, 16 in the code
    ClientStreams,   \* permits of ClientLimit.streams, 4 in the code
    ClientRequests,  \* permits of ClientLimit.requests, 16 in the code
    ClientCapacity,  \* CLIENT_CAPACITY, 1024 in the code
    ClientIdle,      \* CLIENT_IDLE in ticks of the clock
    MaxTime          \* bound on the clock

ASSUME RequestsFinite == IsFiniteSet(Requests)
ASSUME ClientsFinite == IsFiniteSet(Clients)
ASSUME PeerType == Peer \in [Requests -> Clients]
ASSUME NoLimitOutside == NoLimit \notin Limits
ASSUME CapacityType ==
    /\ GlobalStreams \in Nat /\ ClientStreams \in Nat /\ ClientRequests \in Nat
    /\ ClientCapacity \in Nat \ {0}
    /\ ClientIdle \in Nat \ {0}
    /\ MaxTime \in Nat

VARIABLES
    clock,     \* Instant::now()
    registry,  \* StreamAdmission.clients: each address's ClientLimit, or NoLimit
    accessed,  \* Entry.accessed of each registered address
    pc,        \* where each request is
    now,       \* the Instant a request read before it locked the registry
    client,    \* the Arc<ClientLimit> a request holds
    request,   \* the ClientLimit its request permit came from
    stream,    \* the ClientLimit its stream permit came from
    global     \* whether it holds a global permit

registryVars == <<registry, accessed>>
permitVars == <<request, stream, global>>
vars == <<clock, registry, accessed, pc, now, client, request, stream, global>>

(* idle: no request.  lookup, request, stream, global: about to perform    *)
(* that step of acquire.  active: the body is streaming and owns a         *)
(* StreamPermit.  drop*: the fields of a finished StreamPermit still to be *)
(* dropped.  abandon*: what a timed-out or cancelled acquire still holds.  *)
Phases == {"idle", "lookup", "request", "stream", "global", "active",
           "dropRequest", "dropStream", "dropGlobal",
           "abandonClient", "abandonRequest"}

Init ==
    /\ clock = 0
    /\ registry = [c \in Clients |-> NoLimit]
    /\ accessed = [c \in Clients |-> 0]
    /\ pc = [r \in Requests |-> "idle"]
    /\ now = [r \in Requests |-> 0]
    /\ client = [r \in Requests |-> NoLimit]
    /\ request = [r \in Requests |-> NoLimit]
    /\ stream = [r \in Requests |-> NoLimit]
    /\ global = [r \in Requests |-> FALSE]

Goto(r, phase) == pc' = [pc EXCEPT ![r] = phase]

-----------------------------------------------------------------------------
(* The registry of clients.                                                *)

Registered == {c \in Clients : registry[c] # NoLimit}

(* Arc::strong_count(limit) > 1: some request holds the Arc as well.  A    *)
(* permit keeps its semaphore alive but is no reference to the limit.      *)
Referenced(l) == \E r \in Requests : client[r] = l

(* Mutant of Retained: reclaim looks at the age of an entry only.          *)
RetainedByAge(t) == {c \in Registered : t < accessed[c] + ClientIdle}

(* The entries clients.retain keeps at instant t (duration_since saturates *)
(* at zero when the entry was accessed after t).                           *)
Retained(t) ==
    {c \in Registered : Referenced(registry[c]) \/ t < accessed[c] + ClientIdle}

(* Mutant of Unreferenced: capacity eviction takes live entries too.       *)
UnreferencedOrLive(S) == S

(* The unreferenced entries of S, and the least recently accessed of them. *)
Unreferenced(S) == {c \in S : ~Referenced(registry[c])}
Oldest(S) ==
    {c \in Unreferenced(S) : \A d \in Unreferenced(S) : accessed[c] <= accessed[d]}

Fresh(l) ==
    /\ \A c \in Clients : registry[c] # l
    /\ \A r \in Requests : client[r] # l /\ request[r] # l /\ stream[r] # l

(* The registry that keeps the entries of S only.                          *)
KeepOnly(S) ==
    /\ registry' = [c \in Clients |-> IF c \in S THEN registry[c] ELSE NoLimit]
    /\ accessed' = [c \in Clients |-> IF c \in S THEN accessed[c] ELSE 0]

(* The registry that keeps the entries of S and adds one for address c.    *)
KeepAndAdd(S, c, l, t) ==
    /\ registry' = [d \in Clients |->
                       IF d = c THEN l ELSE IF d \in S THEN registry[d] ELSE NoLimit]
    /\ accessed' = [d \in Clients |->
                       IF d = c THEN t ELSE IF d \in S THEN accessed[d] ELSE 0]

-----------------------------------------------------------------------------
(* StreamAdmission::client: the clock is read first, the lock taken after. *)

Begin(r) ==
    /\ pc[r] = "idle"
    /\ now' = [now EXCEPT ![r] = clock]
    /\ Goto(r, "lookup")
    /\ UNCHANGED <<clock, registryVars, client, permitVars>>

LookupHit(r) ==
    LET c == Peer[r] IN
    /\ pc[r] = "lookup"
    /\ registry[c] # NoLimit
    /\ accessed' = [accessed EXCEPT ![c] = now[r]]
    /\ client' = [client EXCEPT ![r] = registry[c]]
    /\ now' = [now EXCEPT ![r] = 0]
    /\ Goto(r, "request")
    /\ UNCHANGED <<clock, registry, permitVars>>

(* What survives an insertion: the retained entries, less the oldest       *)
(* unreferenced one when they fill the registry.                           *)
Survivors(t) ==
    IF Cardinality(Retained(t)) < ClientCapacity
    THEN {Retained(t)}
    ELSE {Retained(t) \ {c} : c \in Oldest(Retained(t))}

LookupInsert(r) ==
    LET c == Peer[r] IN
    /\ pc[r] = "lookup"
    /\ registry[c] = NoLimit
    /\ \E kept \in Survivors(now[r]), l \in Limits :
          /\ Fresh(l)
          /\ KeepAndAdd(kept, c, l, now[r])
          /\ client' = [client EXCEPT ![r] = l]
    /\ now' = [now EXCEPT ![r] = 0]
    /\ Goto(r, "request")
    /\ UNCHANGED <<clock, permitVars>>

(* "too many active clients": retain has already run.                      *)
LookupRefuse(r) ==
    /\ pc[r] = "lookup"
    /\ registry[Peer[r]] = NoLimit
    /\ Survivors(now[r]) = {}
    /\ KeepOnly(Retained(now[r]))
    /\ now' = [now EXCEPT ![r] = 0]
    /\ Goto(r, "idle")
    /\ UNCHANGED <<clock, client, permitVars>>

-----------------------------------------------------------------------------
(* acquire_with_timeout: a request permit at once or not at all, then a    *)
(* stream permit, then a global permit, both awaited under one timeout.    *)

RequestPermitsOut(l) == Cardinality({r \in Requests : request[r] = l})
StreamPermitsOut(l) == Cardinality({r \in Requests : stream[r] = l})
GlobalPermitsOut == Cardinality({r \in Requests : global[r]})

AcquireRequest(r) ==
    /\ pc[r] = "request"
    /\ RequestPermitsOut(client[r]) < ClientRequests
    /\ request' = [request EXCEPT ![r] = client[r]]
    /\ Goto(r, "stream")
    /\ UNCHANGED <<clock, registryVars, now, client, stream, global>>

(* "too many pending requests from this client".                           *)
RefuseRequest(r) ==
    /\ pc[r] = "request"
    /\ RequestPermitsOut(client[r]) >= ClientRequests
    /\ client' = [client EXCEPT ![r] = NoLimit]
    /\ Goto(r, "idle")
    /\ UNCHANGED <<clock, registryVars, now, permitVars>>

(* Mutant of AcquireStream: one permit too many.                           *)
AcquireStreamOffByOne(r) ==
    /\ pc[r] = "stream"
    /\ StreamPermitsOut(client[r]) <= ClientStreams
    /\ stream' = [stream EXCEPT ![r] = client[r]]
    /\ Goto(r, "global")
    /\ UNCHANGED <<clock, registryVars, now, client, request, global>>

AcquireStream(r) ==
    /\ pc[r] = "stream"
    /\ StreamPermitsOut(client[r]) < ClientStreams
    /\ stream' = [stream EXCEPT ![r] = client[r]]
    /\ Goto(r, "global")
    /\ UNCHANGED <<clock, registryVars, now, client, request, global>>

AcquireGlobal(r) ==
    /\ pc[r] = "global"
    /\ GlobalPermitsOut < GlobalStreams
    /\ global' = [global EXCEPT ![r] = TRUE]
    /\ Goto(r, "active")
    /\ UNCHANGED <<clock, registryVars, now, client, request, stream>>

(* Mutant of Abandon: the stream permit is forgotten, not dropped.         *)
AbandonForgetting(r) ==
    /\ pc[r] \in {"stream", "global"}
    /\ Goto(r, "abandonClient")
    /\ UNCHANGED <<clock, registryVars, now, client, request, stream, global>>

(* Mutant of Abandon: the timeout covers the wait for the client's own     *)
(* semaphore, not the wait for the global one.                             *)
AbandonClientWaitOnly(r) ==
    /\ pc[r] = "stream"
    /\ stream' = [stream EXCEPT ![r] = NoLimit]
    /\ Goto(r, "abandonClient")
    /\ UNCHANGED <<clock, registryVars, now, client, request, global>>

(* WAIT_TIMEOUT expires or the client disconnects: the future is dropped,  *)
(* its local stream permit first, then the Arc and the request permit it   *)
(* captured.                                                               *)
Abandon(r) ==
    /\ pc[r] \in {"stream", "global"}
    /\ stream' = [stream EXCEPT ![r] = NoLimit]
    /\ Goto(r, "abandonClient")
    /\ UNCHANGED <<clock, registryVars, now, client, request, global>>

AbandonClient(r) ==
    /\ pc[r] = "abandonClient"
    /\ client' = [client EXCEPT ![r] = NoLimit]
    /\ Goto(r, "abandonRequest")
    /\ UNCHANGED <<clock, registryVars, now, permitVars>>

AbandonRequest(r) ==
    /\ pc[r] = "abandonRequest"
    /\ request' = [request EXCEPT ![r] = NoLimit]
    /\ Goto(r, "idle")
    /\ UNCHANGED <<clock, registryVars, now, client, stream, global>>

-----------------------------------------------------------------------------
(* The body ends, fails or is dropped: the fields of StreamPermit go in    *)
(* the order they are declared, _client, _request, _stream, _global.       *)

Finish(r) ==
    /\ pc[r] = "active"
    /\ client' = [client EXCEPT ![r] = NoLimit]
    /\ Goto(r, "dropRequest")
    /\ UNCHANGED <<clock, registryVars, now, permitVars>>

DropRequest(r) ==
    /\ pc[r] = "dropRequest"
    /\ request' = [request EXCEPT ![r] = NoLimit]
    /\ Goto(r, "dropStream")
    /\ UNCHANGED <<clock, registryVars, now, client, stream, global>>

DropStream(r) ==
    /\ pc[r] = "dropStream"
    /\ stream' = [stream EXCEPT ![r] = NoLimit]
    /\ Goto(r, "dropGlobal")
    /\ UNCHANGED <<clock, registryVars, now, client, request, global>>

DropGlobal(r) ==
    /\ pc[r] = "dropGlobal"
    /\ global' = [global EXCEPT ![r] = FALSE]
    /\ Goto(r, "idle")
    /\ UNCHANGED <<clock, registryVars, now, client, request, stream>>

-----------------------------------------------------------------------------
Tick ==
    /\ clock < MaxTime
    /\ clock' = clock + 1
    /\ UNCHANGED <<registryVars, pc, now, client, permitVars>>

Lookup(r) == LookupHit(r) \/ LookupInsert(r) \/ LookupRefuse(r)
TryRequest(r) == AcquireRequest(r) \/ RefuseRequest(r)
Await(r) == AcquireStream(r) \/ AcquireGlobal(r)
DropAbandoned(r) == AbandonClient(r) \/ AbandonRequest(r)
DropPermit(r) == DropRequest(r) \/ DropStream(r) \/ DropGlobal(r)

Step(r) ==
    \/ Begin(r) \/ Lookup(r) \/ TryRequest(r) \/ Await(r)
    \/ Abandon(r) \/ DropAbandoned(r) \/ Finish(r) \/ DropPermit(r)

Next == Tick \/ \E r \in Requests : Step(r)

(* A worker runs every request that can run, and the timer of an acquire   *)
(* fires.  Nothing makes a client finish its download or send a request.   *)
Fairness ==
    \A r \in Requests :
        /\ WF_vars(Lookup(r) \/ TryRequest(r))
        /\ WF_vars(Abandon(r))
        /\ WF_vars(DropAbandoned(r))
        /\ WF_vars(DropPermit(r))

Spec == Init /\ [][Next]_vars
FairSpec == Spec /\ Fairness

-----------------------------------------------------------------------------
(* Properties.                                                             *)

(* Registry and permits refer to limit objects, and no entry was accessed  *)
(* after the clock's bound.                                                *)
TypeOK ==
    /\ clock \in 0..MaxTime
    /\ registry \in [Clients -> Limits \cup {NoLimit}]
    /\ accessed \in [Clients -> 0..MaxTime]
    /\ pc \in [Requests -> Phases]
    /\ now \in [Requests -> 0..MaxTime]
    /\ client \in [Requests -> Limits \cup {NoLimit}]
    /\ request \in [Requests -> Limits \cup {NoLimit}]
    /\ stream \in [Requests -> Limits \cup {NoLimit}]
    /\ global \in [Requests -> BOOLEAN]

(* While a request waits or streams it holds the Arc of its address's      *)
(* registered limit: neither idle reclaim nor capacity eviction, decided   *)
(* on an instant read before the lock, ever removes the entry of a live    *)
(* request ("live/waiting permits retain their entry", admission.rs:51).   *)
LiveEntryRetained ==
    \A r \in Requests : client[r] # NoLimit => client[r] = registry[Peer[r]]

(* The requests of address c that hold a stream permit and have not        *)
(* started to give it back, and all that were admitted to wait.            *)
LiveStreams(c) == {r \in Requests : Peer[r] = c /\ pc[r] \in {"global", "active"}}
LiveRequests(c) ==
    {r \in Requests : Peer[r] = c /\ pc[r] \in {"stream", "global", "active"}}

(* However often its entry is evicted and rebuilt, one address has at most *)
(* ClientStreams live streams and ClientRequests live requests, counted    *)
(* over all the limit objects it was ever given.                           *)
ClientBounds ==
    \A c \in Clients :
        /\ Cardinality(LiveStreams(c)) <= ClientStreams
        /\ Cardinality(LiveRequests(c)) <= ClientRequests

(* The registry never outgrows CLIENT_CAPACITY, and at most GlobalStreams  *)
(* streams are served, those still giving their permits back included.     *)
CapacityBounds ==
    /\ Cardinality(Registered) <= ClientCapacity
    /\ GlobalPermitsOut <= GlobalStreams

(* On every path out (refused, timed out, cancelled, finished) a request   *)
(* has returned all it took: an idle slot holds nothing.                   *)
NothingLeaks ==
    \A r \in Requests :
        pc[r] = "idle" =>
            /\ client[r] = NoLimit /\ request[r] = NoLimit
            /\ stream[r] = NoLimit /\ ~global[r]

(* No client waits for ever behind stalled downloads: every content        *)
(* request is answered, by a stream or by an error.                        *)
EveryRequestAnswered ==
    \A r \in Requests : pc[r] = "lookup" ~> pc[r] \in {"idle", "active"}

(* "an IP can never acquire a second independent semaphore"                *)
(* (admission.rs:52): all stream permits out for an address come from one  *)
(* semaphore.                                                              *)
OneSemaphorePerAddress ==
    \A r, s \in Requests :
        /\ Peer[r] = Peer[s]
        /\ stream[r] # NoLimit /\ stream[s] # NoLimit
        => stream[r] = stream[s]

(* Admission implements the quota: a request is waiting once it has its    *)
(* request permit, streaming while its body owns a whole StreamPermit, and *)
(* out of the building from the first drop on.                             *)
StageOf(phase) ==
    IF phase \in {"stream", "global"} THEN "waiting"
    ELSE IF phase = "active" THEN "streaming" ELSE "out"

Quota == INSTANCE ClientQuota WITH stage <- [r \in Requests |-> StageOf(pc[r])]
QuotaSpec == Quota!Spec
=============================================================================
