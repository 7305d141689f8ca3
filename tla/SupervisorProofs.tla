-------------------------- MODULE SupervisorProofs --------------------------
(***************************************************************************)
(* Generations of the web server, for any number of calls, ports,          *)
(* connections and sessions.                                               *)
(*                                                                         *)
(* The argument.  One call at a time is past the lock (Mutex); while it    *)
(* is, nothing can be stopped by another, and what it took has been told   *)
(* to stop (Taken).  As long as no call is dropped, a server that was told *)
(* to stop and has not ended is the one being waited for (Waited).  From   *)
(* these follow who may still write a status, hold a socket or have        *)
(* sessions.                                                               *)
(***************************************************************************)
EXTENDS Supervisor, FiniteSetTheorems, SequenceTheorems, TLAPS

Phases == Holding \cup {"new", "queued", "returned", "cancelled"}

Types ==
    /\ queue \in Seq(Calls)
    /\ pc \in [Calls -> Phases]
    /\ settings \in [Calls -> Ports \cup {Disabled}]
    /\ outcome \in [Calls -> {"off", "failed", "on"}]
    /\ running \in Calls \cup {NoCall}
    /\ stopping \in Calls \cup {NoCall}
    /\ status \in Statuses /\ event \in Statuses
    /\ task \in [Calls -> {"none", "serving", "finishing", "done", "aborted"}]
    /\ shutdown \in [Calls -> BOOLEAN] /\ aborted \in [Calls -> BOOLEAN]
    /\ listeners \in [Calls -> SUBSET Families]
    /\ conns \in [Calls -> 0..MaxConns]
    /\ sessions \in [Calls -> 0..MaxSessions]
    /\ cancelled \in BOOLEAN

(* The queue holds every call that waits or is past the lock, once, and    *)
(* the one that is past it comes first.                                    *)
Mutex ==
    /\ \A i, j \in 1..Len(queue) : queue[i] = queue[j] => i = j
    /\ \A c \in Calls :
          pc[c] \in Holding \cup {"queued"} <=> \E i \in 1..Len(queue) : queue[i] = c
    /\ \A c \in Calls : pc[c] \in Holding => queue[1] = c

Waiting == {"stopping", "aborting"}

(* What a call took it waits for, and what is up was spawned.              *)
Taken ==
    /\ stopping # NoCall <=> \E c \in Calls : pc[c] \in Waiting
    /\ \A c \in Calls : pc[c] \in Holding => running = NoCall
    /\ \A g \in Calls :
          /\ stopping = g => shutdown[g]
          /\ pc[g] # "returned" => task[g] = "none"
          /\ shutdown[g] => task[g] # "none"
          /\ aborted[g] => shutdown[g]
          /\ task[g] = "finishing" => shutdown[g]
          /\ running = g <=> (task[g] = "serving" /\ ~shutdown[g])

(* A socket is a serving task's, or the caller's that is about to spawn    *)
(* one; a connection ends before its task does, unless that is aborted.    *)
Owned ==
    \A g \in Calls :
        /\ listeners[g] # {} => \/ task[g] = "serving"
                                \/ /\ pc[g] \in {"write", "announce", "spawn"}
                                   /\ outcome[g] = "on"
        /\ conns[g] > 0 => task[g] \in {"serving", "aborted"}

Waited ==
    ~cancelled => \A g \in Calls :
        shutdown[g] /\ task[g] \in {"serving", "finishing"} => stopping = g

Quiet == \A c \in Calls : pc[c] \notin Holding

Reported ==
    ~cancelled =>
        /\ \A c \in Calls : pc[c] \in {"announce", "spawn"} => status = StatusOf(c)
        /\ \A c \in Calls : pc[c] = "spawn" => event = status /\ outcome[c] = "on"
        /\ Quiet => /\ event = status
                    /\ status.running <=> running # NoCall
                    /\ running # NoCall => status.of = running

Ended ==
    ~cancelled /\ (\A c \in Calls : pc[c] \notin Waiting \cup {"revoke"}) =>
        \A g \in Calls : g # running /\ sessions[g] > 0 => task[g] = "aborted"

IInv ==
    /\ Types /\ Mutex /\ Taken /\ Owned
    /\ Waited /\ Reported /\ Ended

-----------------------------------------------------------------------------
(* The mutex.                                                              *)

LEMMA OneHolder ==
    ASSUME Mutex, NEW c \in Calls, NEW d \in Calls, pc[c] \in Holding, pc[d] \in Holding
    PROVE  c = d
  BY DEF Mutex

LEMMA TailIs ==
    ASSUME queue \in Seq(Calls), NEW i \in 1..Len(queue)
    PROVE  Tail(queue) = Without(1)
  <1>1. Len(queue) \in Nat /\ queue # <<>>
    OBVIOUS
  <1>2. /\ Tail(queue) \in Seq(Calls)
        /\ Len(Tail(queue)) = Len(queue) - 1
        /\ \A j \in 1..(Len(queue) - 1) : Tail(queue)[j] = queue[j + 1]
    BY <1>1
  <1>3. Tail(queue) = [j \in 1..(Len(queue) - 1) |-> Tail(queue)[j]]
    <2>1. PICK t \in Seq(Calls) : t = Tail(queue)
      BY <1>2
    <2>2. t = [j \in 1..Len(t) |-> t[j]]
      OBVIOUS
    <2> QED BY <1>2, <2>1, <2>2
  <1>4. \A j \in 1..(Len(queue) - 1) : ~(j < 1)
    BY <1>1
  <1> QED BY <1>2, <1>3, <1>4 DEF Without

LEMMA WithoutIs ==
    ASSUME queue \in Seq(Calls), NEW i \in 1..Len(queue)
    PROVE  /\ Without(i) \in Seq(Calls)
           /\ Len(Without(i)) = Len(queue) - 1
           /\ \A j \in 1..(Len(queue) - 1) :
                 Without(i)[j] = IF j < i THEN queue[j] ELSE queue[j + 1]
  <1>1. Len(queue) \in Nat /\ Len(queue) - 1 \in Nat
    OBVIOUS
  <1>2. \A j \in 1..(Len(queue) - 1) : j \in 1..Len(queue) /\ j + 1 \in 1..Len(queue)
    BY <1>1
  <1>3. \A j \in 1..(Len(queue) - 1) :
           (IF j < i THEN queue[j] ELSE queue[j + 1]) \in Calls
    BY <1>1, <1>2
  <1>4. \A n \in Nat : \A f \in [1..n -> Calls] : f \in Seq(Calls) /\ Len(f) = n
    OBVIOUS
  <1>5. Without(i) \in [1..(Len(queue) - 1) -> Calls]
    BY <1>3 DEF Without
  <1>6. Without(i) \in Seq(Calls) /\ Len(Without(i)) = Len(queue) - 1
    BY <1>1, <1>4, <1>5
  <1> QED BY <1>6 DEF Without

(* A call that leaves the queue, from wherever it stands.                  *)
LEMMA LeaveStep ==
    ASSUME Types, Mutex, NEW c \in Calls, NEW i \in 1..Len(queue), queue[i] = c,
           queue' = Without(i), NEW l \in {"returned", "cancelled"}, pc' = [pc EXCEPT ![c] = l]
    PROVE  Mutex' /\ queue' \in Seq(Calls)
  <1> DEFINE n == Len(queue) - 1
             at(j) == IF j < i THEN j ELSE j + 1
  <1>1. Len(queue) \in Nat /\ i \in Nat
    BY DEF Types
  <1>2. /\ queue' \in Seq(Calls)
        /\ Len(queue') = n
        /\ \A j \in 1..n : queue'[j] = queue[at(j)]
    BY WithoutIs DEF Types
  <1>3. \A j \in 1..n : at(j) \in 1..Len(queue) /\ at(j) # i
    BY <1>1
  <1>4. \A j, k \in 1..n : at(j) = at(k) => j = k
    BY <1>1
  <1>5. \A k \in 1..Len(queue) : k # i => \E j \in 1..n : at(j) = k
    <2> TAKE k \in 1..Len(queue)
    <2>1. k < i => k \in 1..n /\ at(k) = k
      BY <1>1
    <2>2. k > i => k - 1 \in 1..n /\ at(k - 1) = k
      BY <1>1
    <2> QED BY <1>1, <2>1, <2>2
  <1> HIDE DEF n, at
  <1>6. \A j, k \in 1..Len(queue') : queue'[j] = queue'[k] => j = k
    BY <1>2, <1>3, <1>4 DEF Mutex
  <1>7. \A d \in Calls : (\E j \in 1..Len(queue') : queue'[j] = d)
                            <=> d # c /\ \E k \in 1..Len(queue) : queue[k] = d
    <2> TAKE d \in Calls
    <2>1. ASSUME NEW j \in 1..n, queue'[j] = d
          PROVE  d # c /\ \E k \in 1..Len(queue) : queue[k] = d
      BY <1>2, <1>3, <2>1 DEF Mutex
    <2>2. ASSUME d # c, NEW k \in 1..Len(queue), queue[k] = d
          PROVE  \E j \in 1..n : queue'[j] = d
      <3>1. k # i
        BY <2>2
      <3>2. PICK j \in 1..n : at(j) = k
        BY <1>5, <3>1
      <3> QED BY <1>2, <2>2, <3>2
    <2> QED BY <1>2, <2>1, <2>2
  <1>8. \A d \in Calls : pc'[d] = IF d = c THEN l ELSE pc[d]
    BY DEF Types
  <1>9. l \notin Holding \cup {"queued"}
    BY DEF Holding
  <1>10. \A d \in Calls :
            pc'[d] \in Holding \cup {"queued"} <=> \E j \in 1..Len(queue') : queue'[j] = d
    BY <1>7, <1>8, <1>9 DEF Mutex
  <1>11. \A d \in Calls : pc'[d] \in Holding => queue'[1] = d
    <2> SUFFICES ASSUME NEW d \in Calls, pc'[d] \in Holding
                 PROVE  queue'[1] = d
      OBVIOUS
    <2>1. d # c /\ pc[d] \in Holding
      BY <1>8, <1>9
    <2>2. queue[1] = d
      BY <2>1 DEF Mutex
    <2>3. i # 1 /\ 1 \in 1..n
      <3>1. i # 1
        BY <2>1, <2>2
      <3> QED BY <1>1, <3>1 DEF n
    <2>4. at(1) = 1
      BY <1>1, <2>3 DEF at
    <2> QED BY <1>2, <2>2, <2>3, <2>4
  <1> QED BY <1>2, <1>6, <1>10, <1>11 DEF Mutex

(* A call joins the queue.                                                 *)
LEMMA JoinStep ==
    ASSUME Types, Mutex, NEW c \in Calls, pc[c] = "new", queue' = Append(queue, c),
           pc' = [pc EXCEPT ![c] = "queued"]
    PROVE  Mutex' /\ queue' \in Seq(Calls)
  <1> DEFINE n == Len(queue)
  <1>1. /\ n \in Nat
        /\ queue' \in Seq(Calls)
        /\ Len(queue') = n + 1
        /\ \A j \in 1..n : queue'[j] = queue[j]
        /\ queue'[n + 1] = c
    BY DEF Types
  <1>2. \A j \in 1..n : queue[j] # c
    BY DEF Mutex, Holding
  <1>3. \A j \in 1..(n + 1) : j \in 1..n \/ j = n + 1
    BY <1>1
  <1>4. 1..n \subseteq 1..(n + 1) /\ n + 1 \in 1..(n + 1)
    BY <1>1
  <1> HIDE DEF n
  <1>5. \A j, k \in 1..Len(queue') : queue'[j] = queue'[k] => j = k
    BY <1>1, <1>2, <1>3 DEF Mutex, n
  <1>6. \A d \in Calls : (\E j \in 1..Len(queue') : queue'[j] = d)
                            <=> d = c \/ \E k \in 1..n : queue[k] = d
    BY <1>1, <1>3, <1>4
  <1>7. \A d \in Calls : pc'[d] = IF d = c THEN "queued" ELSE pc[d]
    BY DEF Types
  <1>8. \A d \in Calls : pc'[d] \in Holding => queue'[1] = d
    <2> SUFFICES ASSUME NEW d \in Calls, pc'[d] \in Holding
                 PROVE  queue'[1] = d
      OBVIOUS
    <2>1. pc[d] \in Holding
      BY <1>7 DEF Holding
    <2>2. queue[1] = d /\ \E k \in 1..n : queue[k] = d
      BY <2>1 DEF Mutex, n
    <2>3. 1 \in 1..n
      BY <1>1, <2>2
    <2> QED BY <1>1, <2>2, <2>3
  <1> QED BY <1>1, <1>5, <1>6, <1>7, <1>8 DEF Mutex, n

(* The head of the queue moves on past the lock.                           *)
LEMMA HoldStep ==
    ASSUME Types, Mutex, NEW c \in Calls,
           pc[c] \in Holding \/ (pc[c] = "queued" /\ Head(queue) = c),
           queue' = queue, NEW l \in Holding, pc' = [pc EXCEPT ![c] = l]
    PROVE  Mutex' /\ queue' \in Seq(Calls)
  <1>1. \A d \in Calls : pc'[d] = IF d = c THEN l ELSE pc[d]
    BY DEF Types
  <1>2. queue[1] = c
    <2>1. CASE pc[c] \in Holding
      BY <2>1 DEF Mutex
    <2>2. CASE pc[c] = "queued" /\ Head(queue) = c
      <3>1. Len(queue) # 0 /\ queue \in Seq(Calls)
        BY <2>2 DEF Mutex, Types
      <3> QED BY <2>2, <3>1
    <2> QED BY <2>1, <2>2
  <1>3. pc[c] \in Holding \cup {"queued"}
    OBVIOUS
  <1> QED BY <1>1, <1>2, <1>3 DEF Mutex, Types

LEMMA HolderFirst ==
    ASSUME Types, Mutex, NEW c \in Calls, pc[c] \in Holding
    PROVE  /\ 1 \in 1..Len(queue)
           /\ queue[1] = c
           /\ Head(queue) = c
           /\ queue # <<>>
           /\ Tail(queue) = Without(1)
  <1>1. queue[1] = c /\ \E i \in 1..Len(queue) : queue[i] = c
    BY DEF Mutex
  <1>2. queue \in Seq(Calls) /\ Len(queue) \in Nat
    BY DEF Types
  <1>3. 1 \in 1..Len(queue)
    BY <1>1, <1>2
  <1>4. Head(queue) = queue[1] /\ queue # <<>>
    BY <1>2, <1>3
  <1> QED BY <1>1, <1>2, <1>3, <1>4, TailIs

-----------------------------------------------------------------------------
(* What a step does to the calls and to their mutex.                       *)

(* A task, a connection or a session moves; no call does.                  *)
Elsewhere(g) ==
    \/ Serve(g) \/ Dropped(g) \/ Accept(g) \/ EndConnection(g) \/ Unlock(g)
    \/ RevokeSessions

LEMMA MutexStep ==
    ASSUME Types, Mutex, [Next]_vars
    PROVE  Mutex' /\ queue' \in Seq(Calls)
  <1>1. ASSUME UNCHANGED <<queue, pc>>
        PROVE  Mutex' /\ queue' \in Seq(Calls)
    BY <1>1 DEF Mutex, Types
  <1>2. ASSUME NEW c \in Calls, NEW port, Call(c, port)
        PROVE  Mutex' /\ queue' \in Seq(Calls)
    BY <1>2, JoinStep DEF Call, Goto
  <1>3. ASSUME NEW c \in Calls, Enter(c)
        PROVE  Mutex' /\ queue' \in Seq(Calls)
    <2>1. \E l \in Holding : pc' = [pc EXCEPT ![c] = l]
      BY <1>3 DEF Enter, Goto, Holding
    <2>2. pc[c] = "queued" /\ Head(queue) = c /\ queue' = queue
      BY <1>3 DEF Enter
    <2> QED BY <2>1, <2>2, HoldStep
  <1>4. ASSUME NEW c \in Calls,
               Stopped(c) \/ Abort(c) \/ Revoke(c) \/ Bind(c) \/ Write(c)
        PROVE  Mutex' /\ queue' \in Seq(Calls)
    <2>1. /\ pc[c] \in Holding /\ queue' = queue
          /\ \E l \in Holding : pc' = [pc EXCEPT ![c] = l]
      BY <1>4 DEF Stopped, Abort, Revoke, Bind, Write, Goto, Holding
    <2>2. PICK l \in Holding : pc' = [pc EXCEPT ![c] = l]
      BY <2>1
    <2>3. queue' = queue /\ pc[c] \in Holding
      BY <2>1
    <2> QED BY <2>2, <2>3, HoldStep
  <1>5. ASSUME NEW c \in Calls, Announce(c) \/ Spawn(c)
        PROVE  Mutex' /\ queue' \in Seq(Calls)
    <2>1. pc[c] \in Holding
      BY <1>5 DEF Announce, Spawn, Holding
    <2>2. CASE queue' = queue /\ Goto(c, "spawn")
      <3>1. "spawn" \in Holding /\ pc' = [pc EXCEPT ![c] = "spawn"]
        BY <2>2 DEF Goto, Holding
      <3> QED BY <2>1, <2>2, <3>1, HoldStep
    <2>3. CASE queue' = Tail(queue) /\ Goto(c, "returned")
      BY <2>1, <2>3, HolderFirst, LeaveStep DEF Goto
    <2> QED BY <1>5, <2>2, <2>3 DEF Announce, Spawn
  <1>6. ASSUME NEW c \in Calls, Cancel(c)
        PROVE  Mutex' /\ queue' \in Seq(Calls)
    BY <1>6, LeaveStep DEF Cancel, Goto
  <1>7. ASSUME NEW g \in Calls, Elsewhere(g)
        PROVE  UNCHANGED <<queue, pc>>
    BY <1>7 DEF Elsewhere, Serve, CloseListener, Drained, Finish, Dropped, Accept, EndConnection,
       Unlock, RevokeSessions, callVars
  <1>8. UNCHANGED vars => UNCHANGED <<queue, pc>>
    BY DEF vars, callVars
  <1>9. CASE RevokeSessions
    BY <1>1, <1>9 DEF RevokeSessions, callVars
  <1> QED BY <1>1, <1>2, <1>3, <1>4, <1>5, <1>6, <1>7, <1>8, <1>9 DEF Next, Proceed, Elsewhere

LEMMA TypesStep ==
    ASSUME CallsType, BoundsType, Types, Mutex, [Next]_vars
    PROVE  Types'
  <1>1. queue' \in Seq(Calls)
    BY MutexStep
  <1> HIDE DEF Mutex
  <1>2. ASSUME NEW c \in Calls, NEW port \in Ports \cup {Disabled}, Call(c, port)
        PROVE  Types'
    BY <1>1, <1>2 DEF Call, Goto, Types, Phases, Holding, statusVars, serverVars
  <1>3. ASSUME NEW c \in Calls, Enter(c) \/ Stopped(c) \/ Abort(c)
        PROVE  Types'
    BY <1>1, <1>3 DEF Enter, Stopped, Abort, Goto, Types, Phases, Holding, statusVars, serverVars
  <1>4. ASSUME NEW c \in Calls, Revoke(c)
        PROVE  Types'
    <2>1. NoSessions \in [Calls -> 0..MaxSessions]
      BY DEF NoSessions, BoundsType
    <2>2. /\ pc' \in [Calls -> Phases]
          /\ outcome' \in [Calls -> {"off", "failed", "on"}]
          /\ sessions' \in [Calls -> 0..MaxSessions]
      BY <1>4, <2>1 DEF Revoke, Goto, Types, Phases, Holding
    <2> QED BY <1>1, <1>4, <2>2 DEF Revoke, Types, statusVars, serverVars
  <1>5. ASSUME NEW c \in Calls, Bind(c)
        PROVE  Types'
    <2>1. /\ pc' \in [Calls -> Phases]
          /\ outcome' \in [Calls -> {"off", "failed", "on"}]
      BY <1>5 DEF Bind, Goto, Types, Phases, Holding
    <2>2. listeners' \in [Calls -> SUBSET Families]
      <3>1. {{"ipv4"}, Families} \subseteq SUBSET Families
        BY DEF Families
      <3>2. ASSUME NEW f \in SUBSET Families, listeners' = [listeners EXCEPT ![c] = f]
            PROVE  listeners' \in [Calls -> SUBSET Families]
        BY <3>2 DEF Types
      <3>3. CASE UNCHANGED listeners
        BY <3>3 DEF Types
      <3>4. CASE \E f \in {{"ipv4"}, Families} : listeners' = [listeners EXCEPT ![c] = f]
        BY <3>1, <3>2, <3>4
      <3> QED BY <1>5, <3>3, <3>4 DEF Bind
    <2> QED BY <1>1, <1>5, <2>1, <2>2 DEF Bind, Types, statusVars
  <1>6. ASSUME NEW c \in Calls, Write(c) \/ Announce(c)
        PROVE  Types'
    <2>1. StatusOf(c) \in Statuses
      BY DEF StatusOf, Statuses
    <2> QED BY <1>1, <1>6, <2>1 DEF Write, Announce, Goto, Types, Phases, Holding, serverVars
  <1>7. ASSUME NEW c \in Calls, Spawn(c)
        PROVE  Types'
    BY <1>1, <1>7 DEF Spawn, Goto, Types, Phases, Holding, statusVars
  <1>8. ASSUME NEW c \in Calls, Cancel(c)
        PROVE  Types'
    BY <1>1, <1>8 DEF Cancel, Goto, Types, Phases, Holding, statusVars
  <1>9. ASSUME NEW g \in Calls, Serve(g) \/ Dropped(g)
        PROVE  Types'
    <2>1. [status EXCEPT !.running = FALSE] \in Statuses
      BY DEF Types, Statuses
    <2>2. ASSUME NEW family, CloseListener(g, family)
          PROVE  Types'
      BY <2>2 DEF CloseListener, Types, callVars, statusVars
    <2>3. ASSUME Drained(g) \/ Dropped(g)
          PROVE  Types'
      BY <2>3 DEF Drained, Dropped, Types, callVars, statusVars
    <2>4. ASSUME Finish(g)
          PROVE  Types'
      BY <2>1, <2>4 DEF Finish, Types, callVars
    <2> QED BY <1>9, <2>2, <2>3, <2>4 DEF Serve
  <1>10. ASSUME NEW g \in Calls, Accept(g) \/ EndConnection(g) \/ Unlock(g)
         PROVE  Types'
    <2>1. conns' \in [Calls -> 0..MaxConns] /\ sessions' \in [Calls -> 0..MaxSessions]
      <3>1. \A n \in 0..MaxConns : /\ n < MaxConns => n + 1 \in 0..MaxConns
                                  /\ n > 0 => n - 1 \in 0..MaxConns
        BY DEF BoundsType
      <3>2. \A n \in 0..MaxSessions : n < MaxSessions => n + 1 \in 0..MaxSessions
        BY DEF BoundsType
      <3>3. Accept(g) => conns' \in [Calls -> 0..MaxConns] /\ sessions' = sessions
        BY <3>1 DEF Accept, Types
      <3>4. EndConnection(g) => conns' \in [Calls -> 0..MaxConns] /\ sessions' = sessions
        BY <3>1 DEF EndConnection, Types
      <3>5. Unlock(g) => sessions' \in [Calls -> 0..MaxSessions] /\ conns' = conns
        BY <3>2 DEF Unlock, Types
      <3> QED BY <1>10, <3>3, <3>4, <3>5 DEF Types
    <2>2. UNCHANGED <<callVars, statusVars, serverVars, cancelled>>
      BY <1>10 DEF Accept, EndConnection, Unlock
    <2> QED BY <2>1, <2>2 DEF Types, callVars, statusVars, serverVars
  <1>11. CASE RevokeSessions
    <2>1. sessions' \in [Calls -> 0..MaxSessions]
      BY <1>11 DEF RevokeSessions, NoSessions, BoundsType
    <2> QED BY <1>11, <2>1 DEF RevokeSessions, Types, callVars, statusVars, serverVars
  <1>12. CASE UNCHANGED vars
    BY <1>12 DEF vars, Types, callVars, statusVars, serverVars
  <1> QED BY <1>2, <1>3, <1>4, <1>5, <1>6, <1>7, <1>8, <1>9, <1>10, <1>11, <1>12 DEF Next, Proceed

-----------------------------------------------------------------------------
(* The strengthening is inductive.                                         *)

LEMMA EnterQuiet ==
    ASSUME Types, Mutex, NEW c \in Calls, Enter(c)
    PROVE  Quiet
  <1>1. pc[c] = "queued" /\ Head(queue) = c
    BY DEF Enter
  <1> QED BY <1>1, HolderFirst DEF Quiet, Holding

LEMMA TakenStep ==
    ASSUME CallsType, IInv, [Next]_vars
    PROVE  Taken'
  <1>1. ASSUME NEW c \in Calls, NEW port \in Ports \cup {Disabled}, Call(c, port)
        PROVE  Taken'
    BY <1>1 DEF Call, Goto, IInv, Taken, Holding, Waiting, serverVars
  <1>2. ASSUME NEW c \in Calls, Enter(c)
        PROVE  Taken'
    <2>1. Quiet /\ stopping = NoCall /\ c # NoCall
      BY <1>2, EnterQuiet DEF IInv, Taken, Quiet, Holding, Waiting, CallsType
    <2>2. \A d \in Calls : d # c => pc'[d] = pc[d]
      BY <1>2 DEF Enter, Goto, IInv, Types
    <2>3. CASE running = NoCall
      <3>1. pc'[c] = "revoke" /\ shutdown' = shutdown /\ stopping' = NoCall /\ running' = NoCall
        BY <1>2, <2>3 DEF Enter, Goto, IInv, Types
      <3> QED BY <1>2, <2>1, <2>2, <2>3, <3>1 DEF Enter, IInv, Taken, Types, Quiet, Holding,
               Waiting, CallsType
    <2>4. CASE running # NoCall
      <3>1. /\ pc'[c] = "stopping" /\ stopping' = running /\ running' = NoCall
            /\ \A g \in Calls : shutdown'[g] = (shutdown[g] \/ g = running)
        BY <1>2, <2>4 DEF Enter, Goto, IInv, Types
      <3>2. running \in Calls /\ task[running] = "serving" /\ pc[running] = "returned" /\ running # c
        BY <1>2, <2>4 DEF Enter, IInv, Types, Taken
      <3>3. task' = task /\ aborted' = aborted
        BY <1>2 DEF Enter
      <3>4. stopping' # NoCall <=> \E d \in Calls : pc'[d] \in Waiting
        BY <2>4, <3>1 DEF Waiting
      <3>5. ASSUME NEW g \in Calls
            PROVE  /\ stopping' = g => shutdown'[g]
                   /\ pc'[g] # "returned" => task'[g] = "none"
                   /\ shutdown'[g] => task'[g] # "none"
                   /\ aborted'[g] => shutdown'[g]
                   /\ task'[g] = "finishing" => shutdown'[g]
        BY <1>2, <2>2, <3>1, <3>2, <3>3 DEF Enter, IInv, Taken
      <3>6. ASSUME NEW g \in Calls
            PROVE  ~(task'[g] = "serving" /\ ~shutdown'[g])
        BY <3>1, <3>3 DEF IInv, Taken
      <3> QED BY <3>1, <3>4, <3>5, <3>6 DEF Taken, CallsType
    <2> QED BY <2>3, <2>4
  <1>3. ASSUME NEW c \in Calls, Stopped(c)
        PROVE  Taken'
    BY <1>3, OneHolder DEF Stopped, Goto, IInv, Taken, Types, Holding, Waiting, serverVars
  <1>4. ASSUME NEW c \in Calls, Abort(c)
        PROVE  Taken'
    BY <1>4, OneHolder DEF Abort, Goto, IInv, Taken, Holding, Waiting
  <1>5. ASSUME NEW c \in Calls, Revoke(c)
        PROVE  Taken'
    BY <1>5 DEF Revoke, Goto, IInv, Taken, Holding, Waiting, serverVars
  <1>6. ASSUME NEW c \in Calls, Bind(c)
        PROVE  Taken'
    BY <1>6 DEF Bind, Goto, IInv, Taken, Holding, Waiting
  <1>7. ASSUME NEW c \in Calls, Write(c)
        PROVE  Taken'
    BY <1>7, OneHolder DEF Write, Goto, IInv, Taken, Holding, Waiting, serverVars
  <1>8. ASSUME NEW c \in Calls, Announce(c)
        PROVE  Taken'
    <2>1. \A d \in Calls : pc'[d] \in Holding => pc[d] \in Holding
      BY <1>8 DEF Announce, Goto, IInv, Types, Holding
    <2>2. \A d \in Calls : pc'[d] \in Waiting <=> pc[d] \in Waiting
      BY <1>8 DEF Announce, Goto, IInv, Types, Waiting
    <2>3. \A d \in Calls : pc'[d] # "returned" => pc[d] # "returned"
      BY <1>8 DEF Announce, Goto, IInv, Types
    <2>4. UNCHANGED <<running, stopping, task, shutdown, aborted>>
      BY <1>8 DEF Announce, serverVars
    <2> QED BY <2>1, <2>2, <2>3, <2>4 DEF IInv, Taken
  <1>9. ASSUME NEW c \in Calls, Spawn(c)
        PROVE  Taken'
    BY <1>9, OneHolder DEF Spawn, Goto, IInv, Taken, Types, Holding, Waiting
  <1>10. ASSUME NEW c \in Calls, Cancel(c)
        PROVE  Taken'
    <2>1. \A d \in Calls : pc'[d] = IF d = c THEN "cancelled" ELSE pc[d]
      BY <1>10 DEF Cancel, Goto, IInv, Types
    <2>2. pc[c] # "returned" /\ UNCHANGED <<running, task, shutdown, aborted>>
      BY <1>10 DEF Cancel
    <2>3. CASE pc[c] \in Waiting
      <3>1. stopping' = NoCall /\ \A d \in Calls : pc'[d] \notin Waiting
        BY <1>10, <2>1, <2>3, OneHolder DEF Cancel, IInv, Waiting, Holding
      <3> QED BY <2>1, <2>2, <3>1 DEF IInv, Taken, Holding, Waiting, CallsType
    <2>4. CASE pc[c] \notin Waiting
      <3>1. stopping' = stopping /\ \A d \in Calls : pc'[d] \in Waiting <=> pc[d] \in Waiting
        BY <1>10, <2>1, <2>4 DEF Cancel, Waiting
      <3> QED BY <2>1, <2>2, <3>1 DEF IInv, Taken, Holding, Waiting
    <2> QED BY <2>3, <2>4
  <1>11. ASSUME NEW c \in Calls, NEW family \in Families, CloseListener(c, family)
        PROVE  Taken'
    BY <1>11 DEF CloseListener, IInv, Taken, callVars
  <1>12. ASSUME NEW c \in Calls, Drained(c)
        PROVE  Taken'
    BY <1>12 DEF Drained, IInv, Taken, callVars
  <1>13. ASSUME NEW c \in Calls, Finish(c)
        PROVE  Taken'
    BY <1>13 DEF Finish, IInv, Taken, callVars
  <1>14. ASSUME NEW c \in Calls, Dropped(c)
        PROVE  Taken'
    BY <1>14 DEF Dropped, IInv, Taken, callVars
  <1>15. ASSUME NEW c \in Calls, Accept(c)
        PROVE  Taken'
    BY <1>15 DEF Accept, IInv, Taken, callVars, serverVars
  <1>16. ASSUME NEW c \in Calls, EndConnection(c)
        PROVE  Taken'
    BY <1>16 DEF EndConnection, IInv, Taken, callVars, serverVars
  <1>17. ASSUME NEW c \in Calls, Unlock(c)
        PROVE  Taken'
    BY <1>17 DEF Unlock, IInv, Taken, callVars, serverVars
  <1>18. ASSUME RevokeSessions
        PROVE  Taken'
    BY <1>18 DEF RevokeSessions, IInv, Taken, callVars, serverVars
  <1>19. ASSUME UNCHANGED vars
        PROVE  Taken'
    BY <1>19 DEF vars, IInv, Taken, callVars, serverVars
  <1> QED BY <1>1, <1>2, <1>3, <1>4, <1>5, <1>6, <1>7, <1>8, <1>9, <1>10, <1>11, <1>12, <1>13, <1>14, <1>15, <1>16, <1>17, <1>18, <1>19 DEF Next, Proceed, Serve

LEMMA OwnedStep ==
    ASSUME CallsType, IInv, [Next]_vars
    PROVE  Owned'
  <1>1. ASSUME NEW c \in Calls, NEW port \in Ports \cup {Disabled}, Call(c, port)
        PROVE  Owned'
    BY <1>1 DEF Call, Goto, IInv, Owned, serverVars
  <1>2. ASSUME NEW c \in Calls, Enter(c)
        PROVE  Owned'
    BY <1>2, OneHolder DEF Enter, Goto, IInv, Owned, Types, Holding, Waiting
  <1>3. ASSUME NEW c \in Calls, Stopped(c)
        PROVE  Owned'
    BY <1>3 DEF Stopped, Goto, IInv, Owned, serverVars
  <1>4. ASSUME NEW c \in Calls, Abort(c)
        PROVE  Owned'
    BY <1>4 DEF Abort, Goto, IInv, Owned
  <1>5. ASSUME NEW c \in Calls, Revoke(c)
        PROVE  Owned'
    BY <1>5 DEF Revoke, Goto, IInv, Owned, serverVars
  <1>6. ASSUME NEW c \in Calls, Bind(c)
        PROVE  Owned'
    BY <1>6 DEF Bind, Goto, IInv, Owned, Types
  <1>7. ASSUME NEW c \in Calls, Write(c)
        PROVE  Owned'
    BY <1>7 DEF Write, Goto, IInv, Owned, serverVars
  <1>8. ASSUME NEW c \in Calls, Announce(c)
        PROVE  Owned'
    <2>1. outcome[c] = "on" => pc'[c] = "spawn"
      BY <1>8 DEF Announce, Goto, IInv, Types
    <2>2. \A d \in Calls : d # c => pc'[d] = pc[d]
      BY <1>8 DEF Announce, Goto, IInv, Types
    <2>3. UNCHANGED <<outcome, task, listeners, conns>>
      BY <1>8 DEF Announce, serverVars
    <2> QED BY <2>1, <2>2, <2>3 DEF IInv, Owned
  <1>9. ASSUME NEW c \in Calls, Spawn(c)
        PROVE  Owned'
    BY <1>9 DEF Spawn, Goto, IInv, Owned, Types
  <1>10. ASSUME NEW c \in Calls, Cancel(c)
        PROVE  Owned'
    BY <1>10 DEF Cancel, Goto, IInv, Owned, Types
  <1>11. ASSUME NEW c \in Calls, NEW family \in Families, CloseListener(c, family)
        PROVE  Owned'
    BY <1>11 DEF CloseListener, IInv, Owned, callVars
  <1>12. ASSUME NEW c \in Calls, Drained(c)
        PROVE  Owned'
    BY <1>12 DEF Drained, IInv, Owned, callVars
  <1>13. ASSUME NEW c \in Calls, Finish(c)
        PROVE  Owned'
    BY <1>13 DEF Finish, IInv, Owned, callVars
  <1>14. ASSUME NEW c \in Calls, Dropped(c)
        PROVE  Owned'
    BY <1>14 DEF Dropped, IInv, Owned, Types, callVars
  <1>15. ASSUME NEW c \in Calls, Accept(c)
        PROVE  Owned'
    BY <1>15 DEF Accept, IInv, Owned, callVars, serverVars
  <1>16. ASSUME NEW c \in Calls, EndConnection(c)
        PROVE  Owned'
    BY <1>16 DEF EndConnection, IInv, Owned, callVars, serverVars
  <1>17. ASSUME NEW c \in Calls, Unlock(c)
        PROVE  Owned'
    BY <1>17 DEF Unlock, IInv, Owned, callVars, serverVars
  <1>18. ASSUME RevokeSessions
        PROVE  Owned'
    BY <1>18 DEF RevokeSessions, IInv, Owned, callVars, serverVars
  <1>19. ASSUME UNCHANGED vars
        PROVE  Owned'
    BY <1>19 DEF vars, IInv, Owned, callVars, serverVars
  <1> QED BY <1>1, <1>2, <1>3, <1>4, <1>5, <1>6, <1>7, <1>8, <1>9, <1>10, <1>11, <1>12, <1>13, <1>14, <1>15, <1>16, <1>17, <1>18, <1>19 DEF Next, Proceed, Serve

LEMMA WaitedStep ==
    ASSUME CallsType, IInv, [Next]_vars
    PROVE  Waited'
  <1>1. ASSUME NEW c \in Calls, NEW port \in Ports \cup {Disabled}, Call(c, port)
        PROVE  Waited'
    BY <1>1 DEF Call, IInv, Waited, serverVars
  <1>2. ASSUME NEW c \in Calls, Enter(c)
        PROVE  Waited'
    <2>1. Quiet /\ stopping = NoCall
      BY <1>2, EnterQuiet DEF IInv, Taken, Quiet, Holding, Waiting
    <2>2. \A g \in Calls : shutdown'[g] => shutdown[g] \/ g = running
      BY <1>2 DEF Enter, IInv, Types
    <2>3. stopping' = running /\ UNCHANGED <<task, cancelled>>
      BY <1>2 DEF Enter
    <2> QED BY <2>1, <2>2, <2>3 DEF IInv, Waited, CallsType
  <1>3. ASSUME NEW c \in Calls, Stopped(c)
        PROVE  Waited'
    BY <1>3 DEF Stopped, IInv, Waited, serverVars
  <1>4. ASSUME NEW c \in Calls, Abort(c)
        PROVE  Waited'
    BY <1>4 DEF Abort, IInv, Waited, Taken
  <1>5. ASSUME NEW c \in Calls, Revoke(c)
        PROVE  Waited'
    BY <1>5 DEF Revoke, IInv, Waited, serverVars
  <1>6. ASSUME NEW c \in Calls, Bind(c)
        PROVE  Waited'
    BY <1>6 DEF Bind, IInv, Waited, Taken
  <1>7. ASSUME NEW c \in Calls, Write(c)
        PROVE  Waited'
    BY <1>7 DEF Write, IInv, Waited, serverVars
  <1>8. ASSUME NEW c \in Calls, Announce(c)
        PROVE  Waited'
    BY <1>8 DEF Announce, IInv, Waited, serverVars
  <1>9. ASSUME NEW c \in Calls, Spawn(c)
        PROVE  Waited'
    BY <1>9 DEF Spawn, IInv, Waited, Taken
  <1>10. ASSUME NEW c \in Calls, Cancel(c)
        PROVE  Waited'
    BY <1>10 DEF Cancel, IInv, Waited, Taken
  <1>11. ASSUME NEW c \in Calls, NEW family \in Families, CloseListener(c, family)
        PROVE  Waited'
    BY <1>11 DEF CloseListener, IInv, Waited, callVars
  <1>12. ASSUME NEW c \in Calls, Drained(c)
        PROVE  Waited'
    BY <1>12 DEF Drained, IInv, Waited, callVars
  <1>13. ASSUME NEW c \in Calls, Finish(c)
        PROVE  Waited'
    BY <1>13 DEF Finish, IInv, Waited, Types, Taken
  <1>14. ASSUME NEW c \in Calls, Dropped(c)
        PROVE  Waited'
    BY <1>14 DEF Dropped, IInv, Waited, Types, Taken
  <1>15. ASSUME NEW c \in Calls, Accept(c)
        PROVE  Waited'
    BY <1>15 DEF Accept, IInv, Waited, callVars, serverVars
  <1>16. ASSUME NEW c \in Calls, EndConnection(c)
        PROVE  Waited'
    BY <1>16 DEF EndConnection, IInv, Waited, callVars, serverVars
  <1>17. ASSUME NEW c \in Calls, Unlock(c)
        PROVE  Waited'
    BY <1>17 DEF Unlock, IInv, Waited, callVars, serverVars
  <1>18. ASSUME RevokeSessions
        PROVE  Waited'
    BY <1>18 DEF RevokeSessions, IInv, Waited, callVars, serverVars
  <1>19. ASSUME UNCHANGED vars
        PROVE  Waited'
    BY <1>19 DEF vars, IInv, Waited, callVars, serverVars
  <1> QED BY <1>1, <1>2, <1>3, <1>4, <1>5, <1>6, <1>7, <1>8, <1>9, <1>10, <1>11, <1>12, <1>13, <1>14, <1>15, <1>16, <1>17, <1>18, <1>19 DEF Next, Proceed, Serve

LEMMA ReportedStep ==
    ASSUME CallsType, IInv, [Next]_vars
    PROVE  Reported'
  <1>1. ASSUME NEW c \in Calls, NEW port \in Ports \cup {Disabled}, Call(c, port)
        PROVE  Reported'
    BY <1>1 DEF Call, Goto, IInv, Reported, Holding, statusVars, Quiet, StatusOf
  <1>2. ASSUME NEW c \in Calls, Enter(c)
        PROVE  Reported'
    BY <1>2 DEF Enter, Goto, IInv, Reported, Types, Holding, statusVars, Quiet, StatusOf
  <1>3. ASSUME NEW c \in Calls, Stopped(c)
        PROVE  Reported'
    BY <1>3 DEF Stopped, Goto, IInv, Reported, Holding, statusVars, Quiet, StatusOf
  <1>4. ASSUME NEW c \in Calls, Abort(c)
        PROVE  Reported'
    BY <1>4 DEF Abort, Goto, IInv, Reported, Holding, statusVars, Quiet, StatusOf
  <1>5. ASSUME NEW c \in Calls, Revoke(c)
        PROVE  Reported'
    BY <1>5 DEF Revoke, Goto, IInv, Reported, Holding, statusVars, Quiet, StatusOf
  <1>6. ASSUME NEW c \in Calls, Bind(c)
        PROVE  Reported'
    BY <1>6 DEF Bind, Goto, IInv, Reported, Types, Holding, statusVars, Quiet, StatusOf
  <1>7. ASSUME NEW c \in Calls, Write(c)
        PROVE  Reported'
    BY <1>7, OneHolder DEF Write, Goto, IInv, Reported, Holding, Quiet, StatusOf
  <1>8. ASSUME NEW c \in Calls, Announce(c)
        PROVE  Reported'
    BY <1>8 DEF Announce, Goto, IInv, Reported, Types, Holding, Taken, Quiet, StatusOf
  <1>9. ASSUME NEW c \in Calls, Spawn(c)
        PROVE  Reported'
    <2>1. \A d \in Calls : pc'[d] = IF d = c THEN "returned" ELSE pc[d]
      BY <1>9 DEF Spawn, Goto, IInv, Types
    <2>2. \A d \in Calls : pc'[d] \notin {"announce", "spawn"}
      BY <1>9, <2>1, OneHolder DEF Spawn, IInv, Holding
    <2>3. ~cancelled => event = status /\ status.running /\ status.of = c
      <3>1. ~cancelled => status = StatusOf(c) /\ event = status /\ outcome[c] = "on"
        BY <1>9 DEF Spawn, IInv, Reported
      <3>2. outcome[c] = "on" => StatusOf(c).running = TRUE /\ StatusOf(c).of = c
        BY DEF StatusOf
      <3> QED BY <3>1, <3>2
    <2>4. running' = c /\ UNCHANGED <<cancelled, status, event>> /\ c # NoCall
      BY <1>9 DEF Spawn, statusVars, CallsType
    <2> QED BY <2>2, <2>3, <2>4 DEF Reported
  <1>10. ASSUME NEW c \in Calls, Cancel(c)
        PROVE  Reported'
    BY <1>10 DEF Cancel, IInv, Reported, Taken
  <1>11. ASSUME NEW c \in Calls, NEW family \in Families, CloseListener(c, family)
        PROVE  Reported'
    BY <1>11 DEF CloseListener, IInv, Reported, callVars, statusVars, Quiet, StatusOf
  <1>12. ASSUME NEW c \in Calls, Drained(c)
        PROVE  Reported'
    BY <1>12 DEF Drained, IInv, Reported, callVars, statusVars, Quiet, StatusOf
  <1>13. ASSUME NEW c \in Calls, Finish(c)
        PROVE  Reported'
    BY <1>13, OneHolder DEF Finish, IInv, Reported, Holding, Waiting, callVars, Taken, Waited
  <1>14. ASSUME NEW c \in Calls, Dropped(c)
        PROVE  Reported'
    BY <1>14 DEF Dropped, IInv, Reported, callVars, statusVars, Quiet, StatusOf
  <1>15. ASSUME NEW c \in Calls, Accept(c)
        PROVE  Reported'
    BY <1>15 DEF Accept, IInv, Reported, callVars, statusVars, Quiet, StatusOf
  <1>16. ASSUME NEW c \in Calls, EndConnection(c)
        PROVE  Reported'
    BY <1>16 DEF EndConnection, IInv, Reported, callVars, statusVars, Quiet, StatusOf
  <1>17. ASSUME NEW c \in Calls, Unlock(c)
        PROVE  Reported'
    BY <1>17 DEF Unlock, IInv, Reported, callVars, statusVars, Quiet, StatusOf
  <1>18. ASSUME RevokeSessions
        PROVE  Reported'
    BY <1>18 DEF RevokeSessions, IInv, Reported, callVars, statusVars, Quiet, StatusOf
  <1>19. ASSUME UNCHANGED vars
        PROVE  Reported'
    BY <1>19 DEF vars, IInv, Reported, callVars, statusVars, Quiet, StatusOf
  <1> QED BY <1>1, <1>2, <1>3, <1>4, <1>5, <1>6, <1>7, <1>8, <1>9, <1>10, <1>11, <1>12, <1>13, <1>14, <1>15, <1>16, <1>17, <1>18, <1>19 DEF Next, Proceed, Serve

LEMMA EndedStep ==
    ASSUME CallsType, IInv, [Next]_vars
    PROVE  Ended'
  <1>1. ASSUME NEW c \in Calls, NEW port \in Ports \cup {Disabled}, Call(c, port)
        PROVE  Ended'
    BY <1>1 DEF Call, Goto, IInv, Ended, Waiting, serverVars
  <1>2. ASSUME NEW c \in Calls, Enter(c)
        PROVE  Ended'
    BY <1>2 DEF Enter, Goto, IInv, Ended, Types, Waiting
  <1>3. ASSUME NEW c \in Calls, Stopped(c)
        PROVE  Ended'
    BY <1>3 DEF Stopped, Goto, IInv, Ended, Types
  <1>4. ASSUME NEW c \in Calls, Abort(c)
        PROVE  Ended'
    BY <1>4 DEF Abort, Goto, IInv, Ended, Waiting
  <1>5. ASSUME NEW c \in Calls, Revoke(c)
        PROVE  Ended'
    BY <1>5 DEF Revoke, NoSessions, IInv, Ended
  <1>6. ASSUME NEW c \in Calls, Bind(c)
        PROVE  Ended'
    BY <1>6 DEF Bind, Goto, IInv, Ended, Waiting
  <1>7. ASSUME NEW c \in Calls, Write(c)
        PROVE  Ended'
    BY <1>7 DEF Write, Goto, IInv, Ended, Waiting, serverVars
  <1>8. ASSUME NEW c \in Calls, Announce(c)
        PROVE  Ended'
    BY <1>8 DEF Announce, Goto, IInv, Ended, Types, Waiting, serverVars
  <1>9. ASSUME NEW c \in Calls, Spawn(c)
        PROVE  Ended'
    BY <1>9 DEF Spawn, Goto, IInv, Ended, Holding, Waiting, Taken
  <1>10. ASSUME NEW c \in Calls, Cancel(c)
        PROVE  Ended'
    BY <1>10 DEF Cancel, IInv, Ended, Taken
  <1>11. ASSUME NEW c \in Calls, NEW family \in Families, CloseListener(c, family)
        PROVE  Ended'
    BY <1>11 DEF CloseListener, IInv, Ended, callVars
  <1>12. ASSUME NEW c \in Calls, Drained(c)
        PROVE  Ended'
    BY <1>12 DEF Drained, IInv, Ended, callVars
  <1>13. ASSUME NEW c \in Calls, Finish(c)
        PROVE  Ended'
    BY <1>13 DEF Finish, IInv, Ended, callVars
  <1>14. ASSUME NEW c \in Calls, Dropped(c)
        PROVE  Ended'
    BY <1>14 DEF Dropped, IInv, Ended, callVars
  <1>15. ASSUME NEW c \in Calls, Accept(c)
        PROVE  Ended'
    BY <1>15 DEF Accept, IInv, Ended, callVars, serverVars
  <1>16. ASSUME NEW c \in Calls, EndConnection(c)
        PROVE  Ended'
    BY <1>16 DEF EndConnection, IInv, Ended, callVars, serverVars
  <1>17. ASSUME NEW c \in Calls, Unlock(c)
        PROVE  Ended'
    BY <1>17 DEF Unlock, IInv, Ended, callVars, serverVars, Taken, Waited, Owned
  <1>18. ASSUME RevokeSessions
        PROVE  Ended'
    BY <1>18 DEF RevokeSessions, NoSessions, IInv, Ended
  <1>19. ASSUME UNCHANGED vars
        PROVE  Ended'
    BY <1>19 DEF vars, IInv, Ended, callVars, serverVars
  <1> QED BY <1>1, <1>2, <1>3, <1>4, <1>5, <1>6, <1>7, <1>8, <1>9, <1>10, <1>11, <1>12, <1>13, <1>14, <1>15, <1>16, <1>17, <1>18, <1>19 DEF Next, Proceed, Serve
LEMMA Initially ==
    ASSUME CallsType, BoundsType, Init
    PROVE  IInv
  <1>1. queue = <<>> /\ Len(queue) = 0 /\ \A i \in 1..Len(queue) : FALSE
    BY DEF Init
  <1>2. /\ \A c \in Calls : pc[c] = "new" /\ task[c] = "none" /\ listeners[c] = {}
        /\ \A c \in Calls : ~shutdown[c] /\ ~aborted[c] /\ conns[c] = 0 /\ sessions[c] = 0
        /\ running = NoCall /\ stopping = NoCall
    BY DEF Init
  <1>3. Types
    <2>1. 0 \in 0..MaxConns /\ 0 \in 0..MaxSessions /\ <<>> \in Seq(Calls)
      BY DEF BoundsType
    <2>2. status \in Statuses /\ event \in Statuses
      BY DEF Init, Statuses
    <2>3. /\ pc \in [Calls -> Phases]
          /\ outcome \in [Calls -> {"off", "failed", "on"}]
          /\ task \in [Calls -> {"none", "serving", "finishing", "done", "aborted"}]
          /\ settings \in [Calls -> Ports \cup {Disabled}]
      BY DEF Init, Phases
    <2>4. /\ listeners \in [Calls -> SUBSET Families]
          /\ conns \in [Calls -> 0..MaxConns] /\ sessions \in [Calls -> 0..MaxSessions]
          /\ shutdown \in [Calls -> BOOLEAN] /\ aborted \in [Calls -> BOOLEAN]
      BY <2>1 DEF Init
    <2>5. /\ queue \in Seq(Calls) /\ cancelled \in BOOLEAN
          /\ running \in Calls \cup {NoCall} /\ stopping \in Calls \cup {NoCall}
      BY <2>1 DEF Init
    <2> QED BY <2>2, <2>3, <2>4, <2>5 DEF Types
  <1>4. Mutex
    BY <1>1, <1>2 DEF Mutex, Holding
  <1>5. Taken
    BY <1>2 DEF Taken, Holding, Waiting, CallsType
  <1>6. Owned /\ Waited /\ Ended
    BY <1>2 DEF Owned, Waited, Ended
  <1>7. Reported
    BY <1>2 DEF Init, Reported
  <1> QED BY <1>3, <1>4, <1>5, <1>6, <1>7 DEF IInv

(* In every reachable state the calls exclude each other past the lock,    *)
(* and every server is running, waited for, ended, or (once a call has     *)
(* been dropped) told to stop.                                             *)
THEOREM Invariance == Spec => []IInv
  <1>1. IInv /\ [Next]_vars => IInv'
    BY CallsType, BoundsType, TypesStep, MutexStep, TakenStep, OwnedStep, WaitedStep,
       ReportedStep, EndedStep DEF IInv
  <1> QED BY <1>1, CallsType, BoundsType, Initially, PTL DEF Spec

(* Every variable has its type; a call past its lock heads the queue, and  *)
(* a server is being waited for exactly while some call waits.             *)
THEOREM TypeCorrect == Spec => []TypeOK
  <1>1. IInv => TypeOK
    <2> SUFFICES ASSUME IInv PROVE TypeOK
      OBVIOUS
    <2>1. \A c \in Calls : pc[c] \in Holding => queue # <<>> /\ Head(queue) = c
      BY HolderFirst DEF IInv
    <2> QED BY <2>1 DEF IInv, Types, Taken, Waiting, TypeOK, Phases
  <1> QED BY <1>1, Invariance, PTL

(* Dropped calls included: a serve task that has not been told to stop is  *)
(* the one the supervisor's inner state names.                             *)
THEOREM NoServerEscapes == Spec => []NoOrphanServer
  <1>1. IInv => NoOrphanServer
    BY DEF IInv, Taken, NoOrphanServer
  <1> QED BY <1>1, Invariance, PTL

LEMMA IdleIsQuiet ==
    ASSUME IInv, Idle
    PROVE  Quiet
  <1>1. Len(queue) = 0 /\ \A i \in 1..Len(queue) : FALSE
    BY DEF Idle
  <1> QED BY <1>1 DEF IInv, Mutex, Quiet

(* Between calls the status and the last event tell whether a server is    *)
(* up and which, whatever older generations did late.                      *)
THEOREM StatusIsTruthful == Spec => []StatusTruthful
  <1>1. IInv => StatusTruthful
    <2> SUFFICES ASSUME IInv, Idle, ~cancelled
                 PROVE  /\ event = status
                        /\ status.running <=> running # NoCall
                        /\ running # NoCall => /\ status.of = running
                                               /\ task[running] = "serving"
                                               /\ ~shutdown[running]
      BY DEF StatusTruthful
    <2>1. /\ event = status
          /\ status.running <=> running # NoCall
          /\ running # NoCall => status.of = running
      BY IdleIsQuiet DEF IInv, Reported
    <2>2. running # NoCall => task[running] = "serving" /\ ~shutdown[running]
      BY DEF IInv, Types, Taken
    <2> QED BY <2>1, <2>2
  <1> QED BY <1>1, Invariance, PTL

(* Between calls only the running generation has sessions, unless an older *)
(* one was aborted with a connection still unlocking a share.              *)
THEOREM SessionsEnd == Spec => []SessionsEndWithGeneration
  <1>1. IInv => SessionsEndWithGeneration
    <2> SUFFICES ASSUME IInv, Idle, ~cancelled,
                        NEW g \in Calls \ {running}, sessions[g] > 0
                 PROVE  task[g] = "aborted"
      BY DEF SessionsEndWithGeneration
    <2>1. \A c \in Calls : pc[c] \notin Waiting \cup {"revoke"}
      BY IdleIsQuiet DEF Quiet, Holding, Waiting
    <2> QED BY <2>1 DEF IInv, Ended
  <1> QED BY <1>1, Invariance, PTL

(* A generation with sockets is the caller's that is past its bind, the    *)
(* one being waited for, or the running one, and never two of these.       *)
LEMMA OneOwner ==
    ASSUME CallsType, IInv, ~cancelled, NEW g \in Calls, listeners[g] # {},
           NEW h \in Calls, listeners[h] # {}
    PROVE  g = h
  <1> DEFINE Binder(x) == pc[x] \in {"write", "announce", "spawn"}
  <1>1. \A x \in Calls : listeners[x] # {} => Binder(x) \/ stopping = x \/ running = x
    BY DEF IInv, Owned, Waited, Taken, Types
  <1>2. \A x \in Calls : Binder(x) => stopping = NoCall /\ running = NoCall
    BY OneHolder DEF IInv, Taken, Holding, Waiting
  <1>3. stopping # NoCall => running = NoCall
    BY DEF IInv, Taken, Holding, Waiting
  <1>4. \A x, y \in Calls : Binder(x) /\ Binder(y) => x = y
    BY OneHolder DEF IInv, Holding
  <1> HIDE DEF Binder
  <1> QED BY <1>1, <1>2, <1>3, <1>4 DEF CallsType

(* No two generations hold sockets, and a call that binds finds none held. *)
THEOREM GenerationsAreDisjoint == Spec => []GenerationsDisjoint
  <1>1. IInv => GenerationsDisjoint
    <2> SUFFICES ASSUME IInv, ~cancelled
                 PROVE  GenerationsDisjoint
      BY DEF GenerationsDisjoint
    <2> DEFINE open == {g \in Calls : listeners[g] # {}}
    <2>1. ASSUME NEW c \in Calls, pc[c] = "bind", NEW g \in Calls
          PROVE  listeners[g] = {}
      <3>1. stopping = NoCall /\ running = NoCall
        BY <2>1, OneHolder DEF IInv, Taken, Holding, Waiting
      <3>2. task[g] # "serving"
        BY <3>1, CallsType DEF IInv, Taken, Waited, CallsType, Types
      <3>3. pc[g] \notin {"write", "announce", "spawn"}
        BY <2>1, OneHolder DEF IInv, Holding
      <3> QED BY <3>2, <3>3 DEF IInv, Owned
    <2>2. Cardinality(open) <= 1
      <3>1. CASE open = {}
        BY <3>1, FS_EmptySet
      <3>2. CASE open # {}
        <4>1. PICK g \in Calls : listeners[g] # {}
          BY <3>2
        <4>2. open = {g}
          BY <4>1, CallsType, OneOwner
        <4>3. Cardinality({g}) = 1
          BY FS_Singleton
        <4> HIDE DEF open
        <4> QED BY <4>2, <4>3
      <3> QED BY <3>1, <3>2
    <2> QED BY <2>1, <2>2 DEF GenerationsDisjoint
  <1> QED BY <1>1, Invariance, PTL

=============================================================================
