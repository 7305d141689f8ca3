---------------------------- MODULE AuthFailures ----------------------------
(***************************************************************************)
(* The table of failed password attempts (src/src/server.rs, failed_auth)  *)
(* and the three operations under its mutex.  An absent key of the map is  *)
(* the empty sequence: no operation leaves an empty deque behind.          *)
(***************************************************************************)
EXTENDS Naturals, FiniteSets, Sequences

CONSTANTS
    Keys,            \* (source address, share id) pairs
    MaxFailures,     \* MAX_FAILED_ATTEMPTS_PER_MINUTE, 5 in the code
    MaxAuthClients,  \* MAX_AUTH_CLIENTS, 4096 in the code
    AuthWindow       \* AUTH_WINDOW in ticks

ASSUME LimitsType ==
    /\ MaxFailures \in Nat \ {0}
    /\ MaxAuthClients \in Nat \ {0}
    /\ AuthWindow \in Nat \ {0}

VARIABLES
    clock,    \* Instant::now()
    failures  \* failed_auth: the instants of each key's recent failures

FailuresInit == failures = [k \in Keys |-> <<>>]

(* At instant t a failure is old once the window has passed since it (an   *)
(* elapsed time that would be negative is zero).                           *)
Old(attempt, t) == attempt + AuthWindow <= t

(* Pop from the front while the front is old.                              *)
PopOld(attempts, t) ==
    LET popped == CHOOSE n \in 0..Len(attempts) :
                     /\ \A i \in 1..n : Old(attempts[i], t)
                     /\ n < Len(attempts) => ~Old(attempts[n + 1], t)
    IN  SubSeq(attempts, popped + 1, Len(attempts))

(* Mutant of Pruned: nothing is ever popped.                               *)
PrunedNever(t) == failures

(* prune_auth_failures                                                     *)
Pruned(t) == [k \in Keys |-> PopOld(failures[k], t)]

Recorded(table) == {k \in Keys : table[k] # <<>>}
(* Mutant of Full: the last place is never given.                          *)
FullOffByOne(table) == Cardinality(Recorded(table)) + 1 >= MaxAuthClients

Full(table) == Cardinality(Recorded(table)) >= MaxAuthClients

(* Mutant of Limited: a full deque is not yet a limit.                     *)
LimitedOffByOne(k, t) ==
    LET table == Pruned(t) IN
    \/ Len(table[k]) > MaxFailures
    \/ k \notin Recorded(table) /\ Full(table)

(* auth_rate_limited with the instant t its caller read before the lock.   *)
Limited(k, t) ==
    LET table == Pruned(t) IN
    \/ Len(table[k]) >= MaxFailures
    \/ k \notin Recorded(table) /\ Full(table)

CheckLimit(k, t, limited) ==
    /\ limited = Limited(k, t)
    /\ failures' = Pruned(t)

(* Mutants of RecordFailure: no bound on the deque, no bound on the table. *)
RecordUncapped(k, t) ==
    LET table == Pruned(t) IN
    failures' = IF Full(table) /\ k \notin Recorded(table)
                THEN table
                ELSE [table EXCEPT ![k] = Append(@, t)]

RecordWhenFull(k, t) ==
    LET table == Pruned(t) IN
    failures' = IF Len(table[k]) >= MaxFailures
                THEN table
                ELSE [table EXCEPT ![k] = Append(@, t)]

(* record_auth_failure reads the clock under the lock.                     *)
RecordFailure(k, t) ==
    LET table == Pruned(t) IN
    failures' = IF \/ Full(table) /\ k \notin Recorded(table)
                   \/ Len(table[k]) >= MaxFailures
                THEN table
                ELSE [table EXCEPT ![k] = Append(@, t)]

(* clear_auth_failures                                                     *)
ClearFailures(k) == failures' = [failures EXCEPT ![k] = <<>>]
=============================================================================
