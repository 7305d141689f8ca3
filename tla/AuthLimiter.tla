----------------------------- MODULE AuthLimiter -----------------------------
(***************************************************************************)
(* Password attempts that run side by side against one failure table: the  *)
(* steps of the unlock handler (src/src/server.rs) that touch it.  The     *)
(* check and the record are two critical sections with a password hash on  *)
(* another thread between them; a client that disconnects while it waits   *)
(* for the hash takes its handler, and the record, with it.                *)
(***************************************************************************)
EXTENDS AuthFailures

CONSTANTS
    Attempts,     \* unlock requests in progress at once
    MaxTime,      \* bound on the clock
    MaxAttempts   \* bound on the attempts begun

ASSUME AttemptsType ==
    /\ IsFiniteSet(Attempts) /\ Attempts # {}
    /\ MaxTime \in Nat
    /\ MaxAttempts \in Nat

VARIABLES
    pc,     \* where each attempt is
    key,    \* the pair it is for
    now,    \* the instant auth_rate_limited read before it took the lock
    wrong,  \* history: each key's reported failures since its last success
    lost,   \* history: the keys with a failure no entry was left for
    begun   \* history: how many attempts have begun

vars == <<clock, failures, pc, key, now, wrong, lost, begun>>

Phases == {"idle", "check", "verify", "failed", "passed"}

Init ==
    /\ clock = 0
    /\ FailuresInit
    /\ pc = [a \in Attempts |-> "idle"]
    /\ key \in [Attempts -> Keys]
    /\ now = [a \in Attempts |-> 0]
    /\ wrong = [k \in Keys |-> <<>>]
    /\ lost = {}
    /\ begun = 0

Goto(a, phase) == pc' = [pc EXCEPT ![a] = phase]

Begin(a, k) ==
    /\ pc[a] = "idle"
    /\ begun < MaxAttempts
    /\ begun' = begun + 1
    /\ key' = [key EXCEPT ![a] = k]
    /\ now' = [now EXCEPT ![a] = clock]
    /\ Goto(a, "check")
    /\ UNCHANGED <<clock, failures, wrong, lost>>

(* "too many attempts; try again later"                                    *)
Refuse(a) ==
    /\ pc[a] = "check"
    /\ CheckLimit(key[a], now[a], TRUE)
    /\ Goto(a, "idle")
    /\ UNCHANGED <<clock, key, now, wrong, lost, begun>>

Admit(a) ==
    /\ pc[a] = "check"
    /\ CheckLimit(key[a], now[a], FALSE)
    /\ Goto(a, "verify")
    /\ UNCHANGED <<clock, key, now, wrong, lost, begun>>

(* verify_web_password returns on its blocking thread.                     *)
Verify(a) ==
    /\ pc[a] = "verify"
    /\ Goto(a, "failed") \/ Goto(a, "passed")
    /\ UNCHANGED <<clock, failures, key, now, wrong, lost, begun>>

(* The client disconnects during the hash: the handler is dropped.         *)
Disconnect(a) ==
    /\ pc[a] = "verify"
    /\ Goto(a, "idle")
    /\ UNCHANGED <<clock, failures, key, now, wrong, lost, begun>>

(* Mutant of Record: the instant of the check is reused for the record.    *)
RecordLate(a) ==
    /\ pc[a] = "failed"
    /\ RecordFailure(key[a], now[a])
    /\ wrong' = [wrong EXCEPT ![key[a]] = Append(@, clock)]
    /\ lost' = lost \cup {k \in {key[a]} : failures'[k] = <<>>}
    /\ Goto(a, "idle")
    /\ UNCHANGED <<clock, key, now, begun>>

Record(a) ==
    /\ pc[a] = "failed"
    /\ RecordFailure(key[a], clock)
    /\ wrong' = [wrong EXCEPT ![key[a]] = Append(@, clock)]
    /\ lost' = lost \cup {k \in {key[a]} : failures'[k] = <<>>}
    /\ Goto(a, "idle")
    /\ UNCHANGED <<clock, key, now, begun>>

Clear(a) ==
    /\ pc[a] = "passed"
    /\ ClearFailures(key[a])
    /\ wrong' = [wrong EXCEPT ![key[a]] = <<>>]
    /\ lost' = lost \ {key[a]}
    /\ Goto(a, "idle")
    /\ UNCHANGED <<clock, key, now, begun>>

Tick ==
    /\ clock < MaxTime
    /\ clock' = clock + 1
    /\ UNCHANGED <<failures, pc, key, now, wrong, lost, begun>>

Next ==
    \/ Tick
    \/ \E a \in Attempts :
          \/ \E k \in Keys : Begin(a, k)
          \/ Refuse(a) \/ Admit(a) \/ Verify(a) \/ Disconnect(a)
          \/ Record(a) \/ Clear(a)

Spec == Init /\ [][Next]_vars

-----------------------------------------------------------------------------
(* Properties.                                                             *)

(* The table holds at most MaxAuthClients keys and MaxFailures instants of *)
(* each, oldest first, so that popping from the front finds every old one. *)
TypeOK ==
    /\ clock \in 0..MaxTime
    /\ pc \in [Attempts -> Phases]
    /\ key \in [Attempts -> Keys]
    /\ now \in [Attempts -> 0..MaxTime]
    /\ lost \subseteq Keys
    /\ begun \in 0..MaxAttempts
    /\ failures \in [Keys -> Seq(0..clock)]
    /\ wrong \in [Keys -> Seq(0..clock)]
    /\ \A k \in Keys : Len(failures[k]) <= MaxFailures
    /\ Cardinality(Recorded(failures)) <= MaxAuthClients

YoungWrong(k, t) == {i \in DOMAIN wrong[k] : ~Old(wrong[k][i], t)}

(* What the limiter does bound.  A attempts in progress at once can all    *)
(* pass the check before the first of them records its failure, and those  *)
(* that find the deque full leave no trace, so each of the MaxFailures     *)
(* slots of a window can let A of them through, after A - 1 left over from *)
(* the window before.  (A failure that arrives at a full table of other    *)
(* pairs is not recorded at all; such a pair is left out.)                 *)
FailuresBounded ==
    \A k \in Keys \ lost :
        Cardinality(YoungWrong(k, clock))
            <= (MaxFailures + 1) * Cardinality(Attempts) - 1

(* "MAX_FAILED_ATTEMPTS_PER_MINUTE" (server.rs:28): a pair is told of no   *)
(* more wrong passwords than that within one window.                       *)
FailuresPerMinute ==
    \A k \in Keys : Cardinality(YoungWrong(k, clock)) <= MaxFailures

(* A refusal is for a reason that is still current at the instant the      *)
(* handler read: this pair has MaxFailures failures inside the window, or  *)
(* a full table of other pairs has one each.  Success and time lift it.    *)
RefusalJustified ==
    [][\A a \in Attempts :
          pc[a] = "check" /\ pc'[a] = "idle" =>
             \/ Cardinality(YoungWrong(key[a], now[a])) >= MaxFailures
             \/ Cardinality({k \in Keys \ {key[a]} : YoungWrong(k, now[a]) # {}})
                   >= MaxAuthClients]_vars

(* Neither a check nor a record leaves an old failure in the table, though *)
(* a check prunes at an instant read before other failures were recorded.  *)
PruneComplete ==
    [][\A a \in Attempts, k \in Keys :
          LET t == IF pc[a] = "check" THEN now[a] ELSE clock IN
          pc[a] \in {"check", "failed"} /\ pc'[a] # pc[a] =>
             \A i \in DOMAIN failures'[k] : ~Old(failures'[k][i], t)]_vars
=============================================================================
