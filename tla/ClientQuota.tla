----------------------------- MODULE ClientQuota -----------------------------
(***************************************************************************)
(* What download admission promises, with no registry, no reference counts *)
(* and no clock: every client address owns one quota for ever.  At most    *)
(* ClientRequests of its requests are in the building, at most             *)
(* ClientStreams of them stream, and at most GlobalStreams stream in all.  *)
(***************************************************************************)
EXTENDS Naturals, FiniteSets

CONSTANTS
    Requests,        \* request slots
    Clients,         \* client addresses
    Peer,            \* the address each request comes from
    GlobalStreams,   \* streams the gateway serves at once
    ClientStreams,   \* streams one client may have
    ClientRequests   \* requests one client may have, waiting ones included

VARIABLE stage       \* where each request is: out, waiting or streaming

Stages == {"out", "waiting", "streaming"}

Init == stage = [r \in Requests |-> "out"]

Present(c) == {r \in Requests : Peer[r] = c /\ stage[r] # "out"}
Streaming(c) == {r \in Requests : Peer[r] = c /\ stage[r] = "streaming"}
AllStreaming == {r \in Requests : stage[r] = "streaming"}

Join(r) ==
    /\ stage[r] = "out"
    /\ Cardinality(Present(Peer[r])) < ClientRequests
    /\ stage' = [stage EXCEPT ![r] = "waiting"]

Admit(r) ==
    /\ stage[r] = "waiting"
    /\ Cardinality(Streaming(Peer[r])) < ClientStreams
    /\ Cardinality(AllStreaming) < GlobalStreams
    /\ stage' = [stage EXCEPT ![r] = "streaming"]

Leave(r) ==
    /\ stage[r] # "out"
    /\ stage' = [stage EXCEPT ![r] = "out"]

Next == \E r \in Requests : Join(r) \/ Admit(r) \/ Leave(r)

Spec == Init /\ [][Next]_stage

(* The promise: the limits hold at all times, whoever comes and goes.      *)
QuotaKept ==
    /\ \A c \in Clients :
          /\ Cardinality(Present(c)) <= ClientRequests
          /\ Cardinality(Streaming(c)) <= ClientStreams
    /\ Cardinality(AllStreaming) <= GlobalStreams
=============================================================================
