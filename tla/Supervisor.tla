----------------------------- MODULE Supervisor -----------------------------
(***************************************************************************)
(* WebGatewaySupervisor (src/src/lib.rs): calls of reconfigure replace one *)
(* generation of the web server by the next, under an async mutex, while   *)
(* the serve task and the connections of every generation run on their     *)
(* own.  A generation is named by the call that started it.                *)
(*                                                                         *)
(* An action runs a call or a task to its next await or lock.  Aborting a  *)
(* serve task drops its listeners, but axum has spawned every connection   *)
(* as a task of its own: those live on, with the old settings and the      *)
(* shared session store.  axum::serve itself never returns an error.       *)
(***************************************************************************)
EXTENDS Naturals, FiniteSets, Sequences

CONSTANTS
    Calls,        \* calls of reconfigure, each made once
    NoCall,
    Ports,
    Disabled,     \* settings with enabled = false
    MaxConns,     \* bound on a generation's connections
    MaxSessions   \* bound on the sessions a generation's connections create

ASSUME CallsType == IsFiniteSet(Calls) /\ NoCall \notin Calls
ASSUME PortsType == Disabled \notin Ports
ASSUME BoundsType == MaxConns \in Nat /\ MaxSessions \in Nat

Families == {"ipv4", "ipv6"}

VARIABLES
    queue,      \* the inner mutex: its holder, then its waiters in order
    pc,         \* where each call is
    settings,   \* the port each call asks for, or Disabled
    outcome,    \* what it is about to report: "off", "failed" or "on"
    running,    \* SupervisorInner.running: the generation that can be stopped
    stopping,   \* the generation the mutex's holder took and waits for
    status,     \* the RwLock'ed WebGatewayStatus
    event,      \* the value subscribers of the status watch see
    task,       \* each generation's serve task
    shutdown,   \* its shutdown watch
    aborted,    \* whether abort was called on it
    listeners,  \* its bound sockets
    conns,      \* its connections with a request in flight
    sessions,   \* the live sessions its connections created
    cancelled   \* history: some call's future was dropped before it returned

callVars == <<queue, pc, settings, outcome, running, stopping>>
statusVars == <<status, event>>
serverVars == <<task, shutdown, aborted, listeners>>
vars == <<callVars, statusVars, serverVars, conns, sessions, cancelled>>

Init ==
    /\ queue = <<>>
    /\ pc = [c \in Calls |-> "new"]
    /\ settings = [c \in Calls |-> Disabled]
    /\ outcome = [c \in Calls |-> "off"]
    /\ running = NoCall
    /\ stopping = NoCall
    /\ status = [of |-> NoCall, running |-> FALSE, failed |-> FALSE]
    /\ event = status
    /\ task = [c \in Calls |-> "none"]
    /\ shutdown = [c \in Calls |-> FALSE]
    /\ aborted = [c \in Calls |-> FALSE]
    /\ listeners = [c \in Calls |-> {}]
    /\ conns = [c \in Calls |-> 0]
    /\ sessions = [c \in Calls |-> 0]
    /\ cancelled = FALSE

Goto(c, label) == pc' = [pc EXCEPT ![c] = label]

-----------------------------------------------------------------------------
(* reconfigure                                                             *)

Call(c, port) ==
    /\ pc[c] = "new"
    /\ settings' = [settings EXCEPT ![c] = port]
    /\ queue' = Append(queue, c)
    /\ Goto(c, "queued")
    /\ UNCHANGED <<outcome, running, stopping, statusVars, serverVars, conns, sessions,
                   cancelled>>

(* Mutants of Enter: the mutex covers the taking only; the old task is     *)
(* signalled and not waited for; the server is signalled and not taken.    *)
EnterReleasing(c) ==
    /\ pc[c] = "queued" /\ Head(queue) = c
    /\ running' = NoCall /\ stopping' = running
    /\ IF running = NoCall
       THEN Goto(c, "revoke") /\ UNCHANGED shutdown
       ELSE Goto(c, "stopping") /\ shutdown' = [shutdown EXCEPT ![running] = TRUE]
    /\ queue' = Tail(queue)
    /\ UNCHANGED <<settings, outcome, statusVars, task, aborted, listeners,
                   conns, sessions, cancelled>>

EnterWithoutWaiting(c) ==
    /\ pc[c] = "queued" /\ Head(queue) = c
    /\ running' = NoCall /\ stopping' = NoCall
    /\ shutdown' = IF running = NoCall THEN shutdown
                   ELSE [shutdown EXCEPT ![running] = TRUE]
    /\ Goto(c, "revoke")
    /\ UNCHANGED <<queue, settings, outcome, statusVars, task, aborted, listeners,
                   conns, sessions, cancelled>>

EnterWithoutTaking(c) ==
    /\ pc[c] = "queued" /\ Head(queue) = c
    /\ stopping' = running
    /\ IF running = NoCall
       THEN Goto(c, "revoke") /\ UNCHANGED shutdown
       ELSE Goto(c, "stopping") /\ shutdown' = [shutdown EXCEPT ![running] = TRUE]
    /\ UNCHANGED <<queue, settings, outcome, running, statusVars, task, aborted,
                   listeners, conns, sessions, cancelled>>

(* The mutex is the caller's: it takes the running server and signals it.  *)
Enter(c) ==
    /\ pc[c] = "queued" /\ Head(queue) = c
    /\ running' = NoCall /\ stopping' = running
    /\ IF running = NoCall
       THEN Goto(c, "revoke") /\ UNCHANGED shutdown
       ELSE Goto(c, "stopping") /\ shutdown' = [shutdown EXCEPT ![running] = TRUE]
    /\ UNCHANGED <<queue, settings, outcome, statusVars, task, aborted, listeners,
                   conns, sessions, cancelled>>

(* Mutant of Stopped: an aborted task is not awaited.                      *)
StoppedOnAbort(c) ==
    /\ \/ pc[c] = "stopping" /\ task[stopping] \in {"done", "aborted"}
       \/ pc[c] = "aborting"
    /\ stopping' = NoCall
    /\ Goto(c, "revoke")
    /\ UNCHANGED <<queue, settings, outcome, running, statusVars, serverVars, conns,
                   sessions, cancelled>>

(* The old task ends by itself, or five seconds pass and it is aborted.    *)
Stopped(c) ==
    /\ pc[c] \in {"stopping", "aborting"}
    /\ task[stopping] \in {"done", "aborted"}
    /\ stopping' = NoCall
    /\ Goto(c, "revoke")
    /\ UNCHANGED <<queue, settings, outcome, running, statusVars, serverVars, conns,
                   sessions, cancelled>>

(* Mutant of Abort: only a task with no connection left is given up.       *)
AbortWhenQuiet(c) ==
    /\ pc[c] = "stopping" /\ conns[stopping] = 0
    /\ aborted' = [aborted EXCEPT ![stopping] = TRUE]
    /\ Goto(c, "aborting")
    /\ UNCHANGED <<queue, settings, outcome, running, stopping, statusVars, task,
                   shutdown, listeners, conns, sessions, cancelled>>

Abort(c) ==
    /\ pc[c] = "stopping"
    /\ aborted' = [aborted EXCEPT ![stopping] = TRUE]
    /\ Goto(c, "aborting")
    /\ UNCHANGED <<queue, settings, outcome, running, stopping, statusVars, task,
                   shutdown, listeners, conns, sessions, cancelled>>

NoSessions == [c \in Calls |-> 0]

(* Mutant of Revoke: sessions are revoked only when the gateway goes off.  *)
RevokeWhenDisabled(c) ==
    /\ pc[c] = "revoke"
    /\ sessions' = IF settings[c] = Disabled THEN NoSessions ELSE sessions
    /\ Goto(c, IF settings[c] = Disabled THEN "write" ELSE "bind")
    /\ outcome' = [outcome EXCEPT ![c] = "off"]
    /\ UNCHANGED <<queue, settings, running, stopping, statusVars, serverVars, conns,
                   cancelled>>

Revoke(c) ==
    /\ pc[c] = "revoke"
    /\ sessions' = NoSessions
    /\ Goto(c, IF settings[c] = Disabled THEN "write" ELSE "bind")
    /\ outcome' = [outcome EXCEPT ![c] = "off"]
    /\ UNCHANGED <<queue, settings, running, stopping, statusVars, serverVars, conns,
                   cancelled>>

(* A port of ours or of another process cannot be bound again; without its *)
(* IPv6 socket the gateway goes on with IPv4 alone.                        *)
Free(family, port) ==
    \A g \in Calls : settings[g] = port => family \notin listeners[g]

Bind(c) ==
    /\ pc[c] = "bind"
    /\ \/ /\ Free("ipv4", settings[c])
          /\ outcome' = [outcome EXCEPT ![c] = "on"]
          /\ \E families \in {{"ipv4"}, Families} :
                /\ "ipv6" \in families => Free("ipv6", settings[c])
                /\ listeners' = [listeners EXCEPT ![c] = families]
       \/ outcome' = [outcome EXCEPT ![c] = "failed"] /\ UNCHANGED listeners
    /\ Goto(c, "write")
    /\ UNCHANGED <<queue, settings, running, stopping, statusVars, task, shutdown,
                   aborted, conns, sessions, cancelled>>

StatusOf(c) ==
    [of |-> c, running |-> outcome[c] = "on", failed |-> outcome[c] = "failed"]

Write(c) ==
    /\ pc[c] = "write"
    /\ status' = StatusOf(c)
    /\ Goto(c, "announce")
    /\ UNCHANGED <<queue, settings, outcome, running, stopping, event, serverVars, conns,
                   sessions, cancelled>>

(* A failed bind announces the status it reads back, the others their own. *)
Announce(c) ==
    /\ pc[c] = "announce"
    /\ event' = IF outcome[c] = "failed" THEN status ELSE StatusOf(c)
    /\ IF outcome[c] = "on"
       THEN Goto(c, "spawn") /\ UNCHANGED queue
       ELSE Goto(c, "returned") /\ queue' = Tail(queue)
    /\ UNCHANGED <<settings, outcome, running, stopping, status, serverVars, conns,
                   sessions, cancelled>>

Spawn(c) ==
    /\ pc[c] = "spawn"
    /\ task' = [task EXCEPT ![c] = "serving"]
    /\ running' = c
    /\ queue' = Tail(queue)
    /\ Goto(c, "returned")
    /\ UNCHANGED <<settings, outcome, stopping, statusVars, shutdown, aborted, listeners,
                   conns, sessions, cancelled>>

(* The queue of the mutex without its i-th member.                         *)
Without(i) == [j \in 1..(Len(queue) - 1) |-> IF j < i THEN queue[j] ELSE queue[j + 1]]

(* The caller drops the future at one of its awaits.  What it had bound is *)
(* closed, what it had taken is detached, and the mutex is free.           *)
Cancel(c) ==
    /\ \/ pc[c] \in {"queued", "stopping", "aborting", "bind", "write"}
       \/ pc[c] = "announce" /\ outcome[c] = "failed"
    /\ \E i \in 1..Len(queue) : queue[i] = c /\ queue' = Without(i)
    /\ stopping' = IF pc[c] \in {"stopping", "aborting"} THEN NoCall ELSE stopping
    /\ listeners' = [listeners EXCEPT ![c] = {}]
    /\ Goto(c, "cancelled")
    /\ cancelled' = TRUE
    /\ UNCHANGED <<settings, outcome, running, statusVars, task, shutdown, aborted,
                   conns, sessions>>

-----------------------------------------------------------------------------
(* The serve task of generation g.                                         *)

(* One listener's accept loop sees the signal and drops its socket.        *)
CloseListener(g, family) ==
    /\ task[g] = "serving" /\ shutdown[g]
    /\ family \in listeners[g]
    /\ listeners' = [listeners EXCEPT ![g] = @ \ {family}]
    /\ UNCHANGED <<callVars, statusVars, task, shutdown, aborted, conns, sessions,
                   cancelled>>

(* Both listeners are down and every connection has ended.                 *)
Drained(g) ==
    /\ task[g] = "serving" /\ shutdown[g]
    /\ listeners[g] = {} /\ conns[g] = 0
    /\ task' = [task EXCEPT ![g] = "finishing"]
    /\ UNCHANGED <<callVars, statusVars, shutdown, aborted, listeners, conns, sessions,
                   cancelled>>

(* The task's last act, announced while it holds the status lock.          *)
Finish(g) ==
    /\ task[g] = "finishing"
    /\ status' = [status EXCEPT !.running = FALSE]
    /\ event' = status'
    /\ task' = [task EXCEPT ![g] = "done"]
    /\ UNCHANGED <<callVars, shutdown, aborted, listeners, conns, sessions, cancelled>>

(* An aborted task is dropped the next time it would be polled.            *)
Dropped(g) ==
    /\ aborted[g] /\ task[g] \in {"serving", "finishing"}
    /\ task' = [task EXCEPT ![g] = "aborted"]
    /\ listeners' = [listeners EXCEPT ![g] = {}]
    /\ UNCHANGED <<callVars, statusVars, shutdown, aborted, conns, sessions, cancelled>>

-----------------------------------------------------------------------------
(* The connections of generation g, and sessions.                          *)

Accept(g) ==
    /\ task[g] = "serving" /\ listeners[g] # {} /\ conns[g] < MaxConns
    /\ conns' = [conns EXCEPT ![g] = @ + 1]
    /\ UNCHANGED <<callVars, statusVars, serverVars, sessions, cancelled>>

EndConnection(g) ==
    /\ conns[g] > 0
    /\ conns' = [conns EXCEPT ![g] = @ - 1]
    /\ UNCHANGED <<callVars, statusVars, serverVars, sessions, cancelled>>

(* A request unlocks a share: create_or_authorize makes a session.         *)
Unlock(g) ==
    /\ conns[g] > 0 /\ sessions[g] < MaxSessions
    /\ sessions' = [sessions EXCEPT ![g] = @ + 1]
    /\ UNCHANGED <<callVars, statusVars, serverVars, conns, cancelled>>

(* revoke_sessions without a share.                                        *)
RevokeSessions ==
    /\ sessions # NoSessions
    /\ sessions' = NoSessions
    /\ UNCHANGED <<callVars, statusVars, serverVars, conns, cancelled>>

-----------------------------------------------------------------------------
Proceed(c) ==
    \/ Enter(c) \/ Stopped(c) \/ Abort(c) \/ Revoke(c) \/ Bind(c)
    \/ Write(c) \/ Announce(c) \/ Spawn(c)

Serve(g) ==
    \/ \E family \in Families : CloseListener(g, family)
    \/ Drained(g) \/ Finish(g)

Next ==
    \/ \E c \in Calls :
          \/ \E port \in Ports \cup {Disabled} : Call(c, port)
          \/ Proceed(c) \/ Cancel(c)
          \/ Serve(c) \/ Dropped(c)
          \/ Accept(c) \/ EndConnection(c) \/ Unlock(c)
    \/ RevokeSessions

(* The runtime polls what is ready and timers fire.  A connection may stay *)
(* for ever: nothing makes its client read.                                *)
Fairness ==
    \A c \in Calls : WF_vars(Proceed(c)) /\ WF_vars(Serve(c)) /\ WF_vars(Dropped(c))

Spec == Init /\ [][Next]_vars
FairSpec == Spec /\ Fairness

-----------------------------------------------------------------------------
(* Properties.  Idle: no call is under way.  Those that assume that no     *)
(* future of reconfigure was dropped say so.                               *)

Statuses == [of : Calls \cup {NoCall}, running : BOOLEAN, failed : BOOLEAN]

Holding == {"stopping", "aborting", "revoke", "bind", "write", "announce", "spawn"}

(* A status names the call that wrote it; a call past its lock is the      *)
(* mutex's holder, and what it has taken it is waiting for.                *)
TypeOK ==
    /\ queue \in Seq(Calls)
    /\ pc \in [Calls -> Holding \cup {"new", "queued", "returned", "cancelled"}]
    /\ settings \in [Calls -> Ports \cup {Disabled}]
    /\ outcome \in [Calls -> {"off", "failed", "on"}]
    /\ running \in Calls \cup {NoCall}
    /\ stopping \in Calls \cup {NoCall}
    /\ status \in Statuses /\ event \in Statuses
    /\ task \in [Calls -> {"none", "serving", "finishing", "done", "aborted"}]
    /\ shutdown \in [Calls -> BOOLEAN] /\ aborted \in [Calls -> BOOLEAN]
    /\ listeners \in [Calls -> SUBSET Families]
    /\ conns \in [Calls -> 0..MaxConns]
    /\ sessions \in [Calls -> 0..MaxSessions]
    /\ cancelled \in BOOLEAN
    /\ \A c \in Calls :
          pc[c] \in Holding => queue # <<>> /\ Head(queue) = c
    /\ stopping # NoCall <=> \E c \in Calls : pc[c] \in {"stopping", "aborting"}

Idle == queue = <<>>

(* Between calls the status and the last event agree, and they say running *)
(* exactly when a serve task is up that the next call can stop: no task of *)
(* an older generation, drained late or aborted, wrote over them.          *)
StatusTruthful ==
    Idle /\ ~cancelled =>
        /\ event = status
        /\ status.running <=> running # NoCall
        /\ running # NoCall =>
              status.of = running /\ task[running] = "serving" /\ ~shutdown[running]

(* Generations never overlap: when a call binds, every older listener is   *)
(* closed, so that no bind fails because of a listener of the gateway's    *)
(* own, and at no time do two generations accept connections.              *)
GenerationsDisjoint ==
    ~cancelled =>
        /\ \A c \in Calls : pc[c] = "bind" => \A g \in Calls : listeners[g] = {}
        /\ Cardinality({g \in Calls : listeners[g] # {}}) <= 1

(* Sessions end with the generation that created them: between calls only  *)
(* the running generation has any, unless an older one was cut off after   *)
(* the timeout and one of its connections was still unlocking a share.     *)
SessionsEndWithGeneration ==
    Idle /\ ~cancelled =>
        \A g \in Calls \ {running} : sessions[g] > 0 => task[g] = "aborted"

(* No server escapes control, dropped calls included: a serve task that    *)
(* has not been told to stop is the one the next call will find and stop.  *)
NoOrphanServer ==
    \A g \in Calls : running = g <=> task[g] = "serving" /\ ~shutdown[g]

(* Every call of reconfigure returns, however long a client keeps its      *)
(* connection to the old generation open, and whichever calls are dropped. *)
EveryCallReturns ==
    \A c \in Calls : pc[c] = "queued" ~> pc[c] \in {"returned", "cancelled"}
=============================================================================
