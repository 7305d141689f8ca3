-------------------------- MODULE AuthLimiterProofs --------------------------
(***************************************************************************)
(* Any number of attempts against any failure table: the bounds of the     *)
(* table, that pruning from the front finds every old failure, and that a  *)
(* refusal has a reason.  The first two rest on the instants of a deque    *)
(* being ordered, the last on every instant being that of a wrong password *)
(* of its own.                                                             *)
(***************************************************************************)
EXTENDS AuthLimiter, WellFoundedInduction, SequenceTheorems, FiniteSetTheorems,
        FunctionTheorems, TLAPS

-----------------------------------------------------------------------------
(* The operations on any table: pruning keeps the youngest part of each    *)
(* deque, and recording adds one instant to a deque that has room for it,  *)
(* in a table that has room for its key.                                   *)

(* Every non-empty set of natural numbers has a least element.             *)
LEMMA LeastNatural ==
    ASSUME NEW S \in SUBSET Nat, S # {}
    PROVE  \E m \in S : \A y \in S : m <= y
  <1>1. \E x \in S : \A y \in S : ~(<<y, x>> \in OpToRel(<, Nat))
    BY NatLessThanWellFounded, WFMin
  <1>2. \A x, y \in Nat : <<y, x>> \in OpToRel(<, Nat) <=> y < x
    BY DEF OpToRel
  <1>3. PICK m \in S : \A y \in S : ~(<<y, m>> \in OpToRel(<, Nat))
    BY <1>1
  <1>4. \A y \in S : m <= y
    <2> TAKE y \in S
    <2>1. m \in Nat /\ y \in Nat
      OBVIOUS
    <2>2. ~(y < m)
      BY <1>2, <1>3, <2>1
    <2> QED BY <2>1, <2>2
  <1> QED BY <1>4

Poppable(s, t, n) ==
    /\ \A i \in 1..n : Old(s[i], t)
    /\ n < Len(s) => ~Old(s[n + 1], t)

(* What is popped ends before the first young instant.                     *)
LEMMA PoppedExists ==
    ASSUME NEW s, Len(s) \in Nat, NEW t
    PROVE  \E n \in 0..Len(s) : Poppable(s, t, n)
  <1> DEFINE Young == {i \in Nat : i \in 1..Len(s) /\ ~Old(s[i], t)}
  <1>1. CASE Young = {}
    <2>1. \A i \in 1..Len(s) : Old(s[i], t)
      BY <1>1
    <2> HIDE DEF Young
    <2>2. Len(s) \in 0..Len(s) /\ ~(Len(s) < Len(s))
      OBVIOUS
    <2> QED BY <2>1, <2>2 DEF Poppable
  <1>2. CASE Young # {}
    <2>1. PICK m \in Young : \A y \in Young : m <= y
      BY <1>2, LeastNatural
    <2>2. /\ m - 1 \in 0..Len(s)
          /\ m - 1 + 1 = m
          /\ \A i \in 1..(m - 1) : i \notin Young /\ i \in 1..Len(s)
      BY <2>1
    <2> HIDE DEF Young
    <2>3. /\ \A i \in 1..(m - 1) : Old(s[i], t)
          /\ ~Old(s[m], t)
      BY <2>1, <2>2 DEF Young
    <2> QED BY <2>2, <2>3 DEF Poppable
  <1> QED BY <1>1, <1>2

(* A deque after popping is the rest of it from the first young instant.   *)
LEMMA PopOldIs ==
    ASSUME NEW S, NEW s \in Seq(S), NEW t
    PROVE  \E n \in 0..Len(s) :
              /\ Poppable(s, t, n)
              /\ PopOld(s, t) \in Seq(S)
              /\ Len(PopOld(s, t)) = Len(s) - n
              /\ \A i \in 1..(Len(s) - n) : PopOld(s, t)[i] = s[n + i]
  <1> DEFINE popped == CHOOSE n \in 0..Len(s) : Poppable(s, t, n)
  <1>1. Len(s) \in Nat
    OBVIOUS
  <1>2. popped \in 0..Len(s) /\ Poppable(s, t, popped)
    BY <1>1, PoppedExists
  <1>3. PopOld(s, t) = SubSeq(s, popped + 1, Len(s))
    BY DEF PopOld, Poppable
  <1> HIDE DEF popped
  <1>4. PICK n \in 0..Len(s) : n = popped
    BY <1>2
  <1>5. \A i \in (n + 1)..Len(s) : s[i] \in S
    BY <1>1, ElementOfSeq
  <1>6. /\ SubSeq(s, n + 1, Len(s)) \in Seq(S)
        /\ Len(SubSeq(s, n + 1, Len(s))) = IF n + 1 <= Len(s) THEN Len(s) - (n + 1) + 1 ELSE 0
        /\ \A i \in 1..(Len(s) - (n + 1) + 1) : SubSeq(s, n + 1, Len(s))[i] = s[n + 1 + i - 1]
    <2>1. n + 1 \in Int /\ Len(s) \in Int
      BY <1>1, <1>4
    <2> QED BY <2>1, <1>5, SubSeqProperties
  <1>7. \A i \in 1..(Len(s) - n) : n + 1 + i - 1 = n + i
    BY <1>1
  <1>8. Len(SubSeq(s, n + 1, Len(s))) = Len(s) - n
    BY <1>1, <1>6
  <1> QED BY <1>1, <1>2, <1>3, <1>4, <1>6, <1>7, <1>8

(* Instants in the order of their recording.                               *)
Ordered(s) == \A i, j \in 1..Len(s) : i <= j => s[i] <= s[j]

(* Popping keeps the order, and of an ordered deque it leaves nothing old. *)
LEMMA PopOldYoung ==
    ASSUME AuthWindow \in Nat, NEW s \in Seq(Nat), NEW t \in Nat, Ordered(s)
    PROVE  /\ Ordered(PopOld(s, t))
           /\ \A i \in 1..Len(PopOld(s, t)) : ~Old(PopOld(s, t)[i], t)
  <1>1. PICK n \in 0..Len(s) :
              /\ Poppable(s, t, n)
              /\ PopOld(s, t) \in Seq(Nat)
              /\ Len(PopOld(s, t)) = Len(s) - n
              /\ \A i \in 1..(Len(s) - n) : PopOld(s, t)[i] = s[n + i]
    BY PopOldIs
  <1>2. Len(s) \in Nat
    OBVIOUS
  <1>3. Ordered(PopOld(s, t))
    <2> SUFFICES ASSUME NEW i \in 1..(Len(s) - n), NEW j \in 1..(Len(s) - n), i <= j
                 PROVE  PopOld(s, t)[i] <= PopOld(s, t)[j]
      BY <1>1 DEF Ordered
    <2>1. n + i \in 1..Len(s) /\ n + j \in 1..Len(s) /\ n + i <= n + j
      BY <1>2
    <2>2. s[n + i] <= s[n + j]
      BY <2>1 DEF Ordered
    <2> QED BY <1>1, <2>2
  <1>4. ASSUME NEW i \in 1..(Len(s) - n)
        PROVE  ~Old(PopOld(s, t)[i], t)
    <2>1. n < Len(s) /\ n + 1 \in 1..Len(s) /\ n + i \in 1..Len(s) /\ n + 1 <= n + i
      BY <1>2, <1>4
    <2>2. s[n + 1] <= s[n + i] /\ s[n + 1] \in Nat /\ s[n + i] \in Nat
      BY <2>1, ElementOfSeq DEF Ordered
    <2>3. ~Old(s[n + 1], t)
      BY <1>1, <2>1 DEF Poppable
    <2>4. \A a, b \in Nat : a <= b /\ ~Old(a, t) => ~Old(b, t)
      BY DEF Old
    <2>5. ~Old(s[n + i], t)
      BY <2>2, <2>3, <2>4
    <2> QED BY <1>1, <2>5
  <1> QED BY <1>1, <1>3, <1>4

-----------------------------------------------------------------------------
(* The table.                                                              *)

Tables(S) == [Keys -> Seq(S)]

(* Pruning only shortens deques, and so frees places of the table.         *)
LEMMA PrunedTable ==
    ASSUME NEW S, failures \in Tables(S), NEW t
    PROVE  /\ Pruned(t) \in Tables(S)
           /\ \A k \in Keys : Len(Pruned(t)[k]) <= Len(failures[k])
           /\ Recorded(Pruned(t)) \subseteq Recorded(failures)
  <1>1. ASSUME NEW k \in Keys
        PROVE  /\ Pruned(t)[k] = PopOld(failures[k], t)
               /\ Pruned(t)[k] \in Seq(S)
               /\ Len(Pruned(t)[k]) <= Len(failures[k])
               /\ failures[k] = <<>> => Pruned(t)[k] = <<>>
    <2>1. failures[k] \in Seq(S)
      BY DEF Tables
    <2>2. PICK n \in 0..Len(failures[k]) :
              /\ PopOld(failures[k], t) \in Seq(S)
              /\ Len(PopOld(failures[k], t)) = Len(failures[k]) - n
      BY <2>1, PopOldIs
    <2>3. Pruned(t)[k] = PopOld(failures[k], t)
      BY DEF Pruned
    <2>4. Len(failures[k]) \in Nat
      BY <2>1
    <2>5. failures[k] = <<>> => PopOld(failures[k], t) = <<>>
      <3>1. ASSUME failures[k] = <<>>  PROVE  Len(PopOld(failures[k], t)) = 0
        BY <2>2, <3>1
      <3> QED BY <2>2, <3>1, EmptySeq
    <2> QED BY <2>2, <2>3, <2>4, <2>5
  <1>2. Pruned(t) \in Tables(S)
    BY <1>1 DEF Pruned, Tables
  <1>3. Recorded(Pruned(t)) \subseteq Recorded(failures)
    BY <1>1 DEF Recorded
  <1> QED BY <1>1, <1>2, <1>3

(* A table with the bounds that the two operations keep.                   *)
Bounded(table) ==
    /\ \A k \in Keys : Len(table[k]) <= MaxFailures
    /\ IsFiniteSet(Recorded(table))
    /\ Cardinality(Recorded(table)) <= MaxAuthClients

LEMMA PrunedBounded ==
    ASSUME LimitsType, NEW S, failures \in Tables(S),
           Bounded(failures), NEW t
    PROVE  Bounded(Pruned(t))
  <1>1. \A k \in Keys : Len(Pruned(t)[k]) <= MaxFailures
    <2> TAKE k \in Keys
    <2>1. Len(Pruned(t)[k]) <= Len(failures[k]) /\ Len(failures[k]) <= MaxFailures
      BY PrunedTable DEF Bounded
    <2>2. Len(Pruned(t)[k]) \in Nat /\ Len(failures[k]) \in Nat
      <3>1. Pruned(t)[k] \in Seq(S) /\ failures[k] \in Seq(S)
        BY PrunedTable DEF Tables
      <3> QED BY <3>1
    <2> QED BY <2>1, <2>2 DEF LimitsType
  <1>2. /\ IsFiniteSet(Recorded(Pruned(t)))
        /\ Cardinality(Recorded(Pruned(t))) <= MaxAuthClients
    <2>1. Recorded(Pruned(t)) \subseteq Recorded(failures)
      BY PrunedTable
    <2>2. IsFiniteSet(Recorded(failures))
      BY DEF Bounded
    <2>3. /\ IsFiniteSet(Recorded(Pruned(t)))
          /\ Cardinality(Recorded(Pruned(t))) <= Cardinality(Recorded(failures))
      BY <2>1, <2>2, FS_Subset
    <2>4. Cardinality(Recorded(Pruned(t))) \in Nat /\ Cardinality(Recorded(failures)) \in Nat
      BY <2>2, <2>3, FS_CardinalityType
    <2> QED BY <2>3, <2>4 DEF Bounded, LimitsType
  <1> QED BY <1>1, <1>2 DEF Bounded

(* Recording adds the instant at the end of one deque, or only prunes.     *)
LEMMA RecordIs ==
    ASSUME NEW S, failures \in Tables(S), NEW k \in Keys, NEW t \in S, RecordFailure(k, t)
    PROVE  /\ failures' \in Tables(S)
           /\ \A j \in Keys \ {k} : failures'[j] = Pruned(t)[j]
           /\ \/ failures' = Pruned(t)
              \/ /\ ~(Len(Pruned(t)[k]) >= MaxFailures)
                 /\ k \in Recorded(Pruned(t)) \/ ~Full(Pruned(t))
                 /\ failures'[k] = Append(Pruned(t)[k], t)
  <1>1. Pruned(t) \in Tables(S)
    BY PrunedTable
  <1>2. Append(Pruned(t)[k], t) \in Seq(S)
    BY <1>1 DEF Tables
  <1>3. failures' = Pruned(t)
          \/ /\ ~(Len(Pruned(t)[k]) >= MaxFailures)
             /\ k \in Recorded(Pruned(t)) \/ ~Full(Pruned(t))
             /\ failures' = [Pruned(t) EXCEPT ![k] = Append(Pruned(t)[k], t)]
    BY DEF RecordFailure
  <1> QED BY <1>1, <1>2, <1>3 DEF Tables

LEMMA RecordBounded ==
    ASSUME LimitsType, NEW S, failures \in Tables(S),
           Bounded(failures), NEW k \in Keys, NEW t \in S, RecordFailure(k, t)
    PROVE  Bounded(failures')
  <1> DEFINE table == Pruned(t)
  <1>1. Bounded(table) /\ table \in Tables(S)
    BY PrunedBounded, PrunedTable
  <1> HIDE DEF table
  <1>2. CASE failures' = table
    BY <1>1, <1>2 DEF Bounded
  <1>3. CASE /\ ~(Len(table[k]) >= MaxFailures)
             /\ k \in Recorded(table) \/ ~Full(table)
             /\ failures'[k] = Append(table[k], t)
             /\ \A j \in Keys \ {k} : failures'[j] = table[j]
    <2>1. \A j \in Keys : Len(failures'[j]) <= MaxFailures
      <3>1. table[k] \in Seq(S)
        BY <1>1 DEF Tables
      <3>2. Len(Append(table[k], t)) = Len(table[k]) + 1 /\ Len(table[k]) \in Nat
        BY <3>1
      <3>3. Len(failures'[k]) <= MaxFailures
        BY <1>3, <3>2 DEF LimitsType
      <3> QED BY <1>1, <1>3, <3>3 DEF Bounded
    <2>2. Recorded(failures') \subseteq Recorded(table) \cup {k}
      BY <1>3 DEF Recorded
    <2>3. IsFiniteSet(Recorded(table))
      BY <1>1 DEF Bounded
    <2>4. Cardinality(Recorded(table)) \in Nat
      BY <2>3, FS_CardinalityType
    <2>5. /\ IsFiniteSet(Recorded(table) \cup {k})
          /\ Cardinality(Recorded(table) \cup {k}) <= MaxAuthClients
      <3>1. /\ IsFiniteSet(Recorded(table) \cup {k})
            /\ Cardinality(Recorded(table) \cup {k}) =
                  IF k \in Recorded(table) THEN Cardinality(Recorded(table))
                  ELSE Cardinality(Recorded(table)) + 1
        BY <2>3, FS_AddElement
      <3>2. CASE k \in Recorded(table)
        BY <1>1, <3>1, <3>2 DEF Bounded
      <3>3. CASE k \notin Recorded(table)
        <4>1. ~(Cardinality(Recorded(table)) >= MaxAuthClients)
          BY <1>3, <3>3 DEF Full
        <4> QED BY <2>4, <3>1, <3>3, <4>1 DEF LimitsType
      <3> QED BY <3>2, <3>3, <3>1
    <2>6. /\ IsFiniteSet(Recorded(failures'))
          /\ Cardinality(Recorded(failures')) <= Cardinality(Recorded(table) \cup {k})
          /\ Cardinality(Recorded(failures')) \in Nat
          /\ Cardinality(Recorded(table) \cup {k}) \in Nat
      BY <2>2, <2>5, FS_Subset, FS_CardinalityType
    <2>7. Cardinality(Recorded(failures')) <= MaxAuthClients
      BY <2>5, <2>6 DEF LimitsType
    <2> QED BY <2>1, <2>6, <2>7 DEF Bounded
  <1>4. \/ failures' = table
        \/ /\ ~(Len(table[k]) >= MaxFailures)
           /\ k \in Recorded(table) \/ ~Full(table)
           /\ failures'[k] = Append(table[k], t)
    BY RecordIs DEF table
  <1>5. \A j \in Keys \ {k} : failures'[j] = table[j]
    BY RecordIs DEF table
  <1> QED BY <1>2, <1>3, <1>4, <1>5

-----------------------------------------------------------------------------
(* The invariant.                                                          *)

Deques == \A k \in Keys : Ordered(failures[k]) /\ Ordered(wrong[k])

(* f gives each recorded instant the reported failure it stands for.       *)
TracedBy(f, recorded, reported) ==
    /\ f \in [1..Len(recorded) -> 1..Len(reported)]
    /\ \A i, j \in 1..Len(recorded) : f[i] = f[j] => i = j
    /\ \A i \in 1..Len(recorded) : recorded[i] = reported[f[i]]

Traced(recorded, reported) ==
    \E f \in [1..Len(recorded) -> 1..Len(reported)] : TracedBy(f, recorded, reported)

Traces == \A k \in Keys : Traced(failures[k], wrong[k])

(* The failure table and the history of what was reported.                 *)
Table ==
    /\ failures \in Tables(0..clock)
    /\ wrong \in Tables(0..clock)
    /\ Bounded(failures)
    /\ IsFiniteSet(Recorded(wrong))
    /\ Deques
    /\ Traces

(* The attempts.                                                           *)
Control ==
    /\ clock \in 0..MaxTime
    /\ pc \in [Attempts -> Phases]
    /\ key \in [Attempts -> Keys]
    /\ now \in [Attempts -> 0..MaxTime]
    /\ \A a \in Attempts : now[a] <= clock
    /\ lost \subseteq Keys
    /\ begun \in 0..MaxAttempts

IInv == Control /\ Table

-----------------------------------------------------------------------------
(* Deques.                                                                 *)

LEMMA SeqOfLater ==
    ASSUME NEW a \in Nat, NEW b \in Nat, a <= b, NEW s \in Seq(0..a)
    PROVE  s \in Seq(0..b)
  <1>1. Len(s) \in Nat /\ s = [i \in 1..Len(s) |-> s[i]]
    OBVIOUS
  <1>2. \A i \in 1..Len(s) : s[i] \in 0..a
    BY <1>1, ElementOfSeq
  <1>3. \A i \in 1..Len(s) : s[i] \in 0..b
    BY <1>2
  <1> QED BY <1>1, <1>3, IsASeq

LEMMA SeqOfNat ==
    ASSUME NEW a \in Nat, NEW s \in Seq(0..a)
    PROVE  s \in Seq(Nat)
  <1>1. Len(s) \in Nat /\ s = [i \in 1..Len(s) |-> s[i]]
    OBVIOUS
  <1>2. \A i \in 1..Len(s) : s[i] \in 0..a
    BY <1>1, ElementOfSeq
  <1>3. \A i \in 1..Len(s) : s[i] \in Nat
    BY <1>2
  <1> QED BY <1>1, <1>3, IsASeq

(* A failure appended at the latest instant keeps the order.               *)
LEMMA AppendOrdered ==
    ASSUME NEW t \in Nat, NEW s \in Seq(0..t), Ordered(s)
    PROVE  Ordered(Append(s, t))
  <1>1. /\ Len(s) \in Nat
        /\ Len(Append(s, t)) = Len(s) + 1
        /\ \A i \in 1..Len(s) : Append(s, t)[i] = s[i]
        /\ Append(s, t)[Len(s) + 1] = t
    OBVIOUS
  <1>2. \A i \in 1..Len(s) : s[i] \in 0..t
    BY <1>1, ElementOfSeq
  <1> SUFFICES ASSUME NEW i \in 1..(Len(s) + 1), NEW j \in 1..(Len(s) + 1), i <= j
               PROVE  Append(s, t)[i] <= Append(s, t)[j]
    BY <1>1 DEF Ordered
  <1>3. CASE j = Len(s) + 1 /\ i = Len(s) + 1
    BY <1>1, <1>3
  <1>4. CASE j = Len(s) + 1 /\ i # Len(s) + 1
    <2>1. i \in 1..Len(s)
      BY <1>1, <1>4
    <2> QED BY <1>1, <1>2, <1>4, <2>1
  <1>5. CASE j # Len(s) + 1
    <2>1. i \in 1..Len(s) /\ j \in 1..Len(s)
      BY <1>1, <1>5
    <2> QED BY <1>1, <2>1 DEF Ordered
  <1> QED BY <1>3, <1>4, <1>5

-----------------------------------------------------------------------------
(* Traces.                                                                 *)

(* Popping and a failure that is only reported keep a trace.               *)
LEMMA TracedPop ==
    ASSUME NEW S, NEW s \in Seq(S), NEW w \in Seq(S), NEW t, Traced(s, w)
    PROVE  Traced(PopOld(s, t), w)
  <1>1. PICK f \in [1..Len(s) -> 1..Len(w)] : TracedBy(f, s, w)
    BY DEF Traced
  <1>2. PICK n \in 0..Len(s) :
              /\ Poppable(s, t, n)
              /\ PopOld(s, t) \in Seq(S)
              /\ Len(PopOld(s, t)) = Len(s) - n
              /\ \A i \in 1..(Len(s) - n) : PopOld(s, t)[i] = s[n + i]
    BY PopOldIs
  <1>3. Len(s) \in Nat
    OBVIOUS
  <1>4. \A i \in 1..(Len(s) - n) : n + i \in 1..Len(s)
    BY <1>3
  <1> DEFINE g == [i \in 1..(Len(s) - n) |-> f[n + i]]
  <1>5. g \in [1..(Len(s) - n) -> 1..Len(w)]
    BY <1>4
  <1>6. \A i, j \in 1..(Len(s) - n) : g[i] = g[j] => i = j
    <2> TAKE i, j \in 1..(Len(s) - n)
    <2>1. f[n + i] = f[n + j] => n + i = n + j
      BY <1>1, <1>4 DEF TracedBy
    <2> QED BY <2>1, <1>3
  <1>7. \A i \in 1..(Len(s) - n) : PopOld(s, t)[i] = w[g[i]]
    BY <1>1, <1>2, <1>4 DEF TracedBy
  <1> HIDE DEF g
  <1>8. PICK p : p = PopOld(s, t)
    OBVIOUS
  <1>9. TracedBy(g, p, w) /\ g \in [1..Len(p) -> 1..Len(w)]
    BY <1>2, <1>5, <1>6, <1>7, <1>8 DEF TracedBy
  <1>10. Traced(p, w)
    BY <1>9 DEF Traced
  <1> QED BY <1>8, <1>10

LEMMA TracedReported ==
    ASSUME NEW S, NEW s \in Seq(S), NEW w \in Seq(S), NEW t \in S, Traced(s, w)
    PROVE  Traced(s, Append(w, t))
  <1>1. PICK f \in [1..Len(s) -> 1..Len(w)] : TracedBy(f, s, w)
    BY DEF Traced
  <1>2. /\ Len(w) \in Nat
        /\ Len(Append(w, t)) = Len(w) + 1
        /\ \A i \in 1..Len(w) : Append(w, t)[i] = w[i]
    OBVIOUS
  <1>3. f \in [1..Len(s) -> 1..(Len(w) + 1)]
    BY <1>2
  <1>4. \A i \in 1..Len(s) : s[i] = Append(w, t)[f[i]]
    BY <1>1, <1>2 DEF TracedBy
  <1> QED BY <1>1, <1>2, <1>3, <1>4 DEF Traced, TracedBy

LEMMA TracedRecorded ==
    ASSUME NEW S, NEW s \in Seq(S), NEW w \in Seq(S), NEW t \in S, Traced(s, w)
    PROVE  Traced(Append(s, t), Append(w, t))
  <1>1. PICK f \in [1..Len(s) -> 1..Len(w)] : TracedBy(f, s, w)
    BY DEF Traced
  <1>2. /\ Len(w) \in Nat
        /\ Len(Append(w, t)) = Len(w) + 1
        /\ \A i \in 1..Len(w) : Append(w, t)[i] = w[i]
        /\ Append(w, t)[Len(w) + 1] = t
    OBVIOUS
  <1>3. /\ Len(s) \in Nat
        /\ Len(Append(s, t)) = Len(s) + 1
        /\ \A i \in 1..Len(s) : Append(s, t)[i] = s[i]
        /\ Append(s, t)[Len(s) + 1] = t
    OBVIOUS
  <1> DEFINE g == [i \in 1..(Len(s) + 1) |-> IF i = Len(s) + 1 THEN Len(w) + 1 ELSE f[i]]
  <1>4. \A i \in 1..(Len(s) + 1) : i # Len(s) + 1 => i \in 1..Len(s)
    BY <1>3
  <1>5. \A i \in 1..Len(s) : f[i] \in 1..Len(w)
    OBVIOUS
  <1>6. g \in [1..(Len(s) + 1) -> 1..(Len(w) + 1)]
    <2> SUFFICES ASSUME NEW i \in 1..(Len(s) + 1)
                 PROVE  g[i] \in 1..(Len(w) + 1)
      OBVIOUS
    <2> QED BY <1>2, <1>4, <1>5
  <1>7. \A i, j \in 1..(Len(s) + 1) : g[i] = g[j] => i = j
    <2> SUFFICES ASSUME NEW i \in 1..(Len(s) + 1), NEW j \in 1..(Len(s) + 1), g[i] = g[j]
                 PROVE  i = j
      OBVIOUS
    <2>1. CASE i = Len(s) + 1 /\ j # Len(s) + 1
      <3>1. g[i] = Len(w) + 1 /\ g[j] \in 1..Len(w)
        BY <1>4, <1>5, <2>1
      <3> QED BY <3>1, <1>2
    <2>2. CASE i # Len(s) + 1 /\ j = Len(s) + 1
      <3>1. g[j] = Len(w) + 1 /\ g[i] \in 1..Len(w)
        BY <1>4, <1>5, <2>2
      <3> QED BY <3>1, <1>2
    <2>3. CASE i # Len(s) + 1 /\ j # Len(s) + 1
      <3>1. i \in 1..Len(s) /\ j \in 1..Len(s) /\ f[i] = f[j]
        BY <1>4, <2>3
      <3> QED BY <1>1, <3>1 DEF TracedBy
    <2> QED BY <2>1, <2>2, <2>3
  <1>8. \A i \in 1..(Len(s) + 1) : Append(s, t)[i] = Append(w, t)[g[i]]
    <2> SUFFICES ASSUME NEW i \in 1..(Len(s) + 1)
                 PROVE  Append(s, t)[i] = Append(w, t)[g[i]]
      OBVIOUS
    <2>1. CASE i = Len(s) + 1
      <3>1. g[i] = Len(w) + 1
        BY <2>1
      <3> QED BY <1>2, <1>3, <2>1, <3>1
    <2>2. CASE i # Len(s) + 1
      <3>1. i \in 1..Len(s) /\ g[i] = f[i]
        BY <1>4, <2>2
      <3> QED BY <1>1, <1>2, <1>3, <1>5, <3>1 DEF TracedBy
    <2> QED BY <2>1, <2>2
  <1> HIDE DEF g
  <1>9. PICK p, v : p = Append(s, t) /\ v = Append(w, t)
    OBVIOUS
  <1>10. TracedBy(g, p, v) /\ g \in [1..Len(p) -> 1..Len(v)]
    BY <1>2, <1>3, <1>6, <1>7, <1>8, <1>9 DEF TracedBy
  <1>11. Traced(p, v)
    BY <1>10 DEF Traced
  <1> QED BY <1>9, <1>11

LEMMA TracedEmpty ==
    Traced(<<>>, <<>>)
  <1>1. Len(<<>>) = 0 /\ 1..0 = {}
    OBVIOUS
  <1> DEFINE f == [i \in {} |-> 0]
  <1>2. f \in [1..Len(<<>>) -> 1..Len(<<>>)]
    BY <1>1
  <1>3. TracedBy(f, <<>>, <<>>)
    BY <1>1, <1>2 DEF TracedBy
  <1> QED BY <1>2, <1>3 DEF Traced
-----------------------------------------------------------------------------
(* The inductive invariant.                                                *)

LEMMA InitInvariant == Init => IInv
  <1> SUFFICES ASSUME Init
               PROVE  IInv
    OBVIOUS
  <1> USE LimitsType, AttemptsType
  <1>1. Control
    BY DEF Init, Control, Phases, AttemptsType
  <1>2. /\ <<>> \in Seq(0..clock)
        /\ \A k \in Keys : failures[k] = <<>> /\ wrong[k] = <<>>
        /\ failures = [k \in Keys |-> <<>>] /\ wrong = [k \in Keys |-> <<>>]
    BY DEF Init, FailuresInit
  <1>3. failures \in Tables(0..clock) /\ wrong \in Tables(0..clock)
    BY <1>2 DEF Tables
  <1>4. Bounded(failures) /\ IsFiniteSet(Recorded(wrong))
    <2>1. Recorded(failures) = {} /\ Recorded(wrong) = {}
      BY <1>2 DEF Recorded
    <2>2. /\ Cardinality(Recorded(failures)) = 0
          /\ IsFiniteSet(Recorded(failures)) /\ IsFiniteSet(Recorded(wrong))
      BY <2>1, FS_EmptySet
    <2>3. \A k \in Keys : Len(failures[k]) = 0
      BY <1>2
    <2>4. Bounded(failures)
      BY <2>2, <2>3 DEF Bounded, LimitsType
    <2> QED BY <2>2, <2>4
  <1>5. Deques
    <2>1. Len(<<>>) = 0 /\ 1..0 = {}
      OBVIOUS
    <2> QED BY <1>2, <2>1 DEF Deques, Ordered
  <1>6. Traces
    BY <1>2, TracedEmpty DEF Traces
  <1> QED BY <1>1, <1>3, <1>4, <1>5, <1>6 DEF IInv, Table

(* Pruning, at whatever instant it was asked for, keeps the table.         *)
LEMMA PruneKeepsTable ==
    ASSUME LimitsType, AttemptsType, Control, Table, NEW t \in Nat,
           failures' = Pruned(t), UNCHANGED <<clock, wrong>>
    PROVE  Table'
  <1>1. Pruned(t) \in Tables(0..clock) /\ Bounded(Pruned(t))
    BY PrunedTable, PrunedBounded DEF Table
  <1>2. ASSUME NEW k \in Keys
        PROVE  Ordered(Pruned(t)[k]) /\ Ordered(wrong[k]) /\ Traced(Pruned(t)[k], wrong[k])
    <2>1. failures[k] \in Seq(0..clock) /\ wrong[k] \in Seq(0..clock) /\ clock \in Nat
      BY DEF Table, Tables, Control, AttemptsType
    <2>2. failures[k] \in Seq(Nat)
      BY <2>1, SeqOfNat
    <2>3. Pruned(t)[k] = PopOld(failures[k], t)
      BY DEF Pruned
    <2>4. Ordered(PopOld(failures[k], t))
      BY <2>2, PopOldYoung DEF Table, Deques, LimitsType
    <2>5. Traced(PopOld(failures[k], t), wrong[k])
      BY <2>1, TracedPop DEF Table, Traces
    <2> QED BY <2>3, <2>4, <2>5 DEF Table, Deques
  <1>3. failures' \in Tables(0..clock) /\ wrong' \in Tables(0..clock) /\ Bounded(failures')
    BY <1>1 DEF Table
  <1>4. \A k \in Keys :
           Ordered(failures'[k]) /\ Ordered(wrong'[k]) /\ Traced(failures'[k], wrong'[k])
    BY <1>2
  <1>5. IsFiniteSet(Recorded(wrong)')
    BY DEF Table, Recorded
  <1> QED BY <1>3, <1>4, <1>5 DEF Table, Deques, Traces, Tables, Bounded, Recorded

(* A failure recorded at the latest instant and reported keeps it too.     *)
LEMMA RecordKeepsTable ==
    ASSUME LimitsType, AttemptsType, Control, Table, NEW k \in Keys,
           RecordFailure(k, clock), clock' = clock,
           wrong' = [wrong EXCEPT ![k] = Append(@, clock)]
    PROVE  Table'
  <1> DEFINE table == Pruned(clock)
  <1>1. clock \in Nat /\ clock \in 0..clock
    BY DEF Control, AttemptsType
  <1>2. /\ failures' \in Tables(0..clock)
        /\ \A j \in Keys \ {k} : failures'[j] = table[j]
        /\ \/ failures'[k] = table[k]
           \/ failures'[k] = Append(table[k], clock)
    <2>1. /\ failures' \in Tables(0..clock)
          /\ \A j \in Keys \ {k} : failures'[j] = table[j]
          /\ \/ failures' = table
             \/ failures'[k] = Append(table[k], clock)
      BY <1>1, RecordIs DEF Table
    <2> QED BY <2>1
  <1>3. Bounded(failures')
    BY <1>1, RecordBounded DEF Table
  <1>4. /\ wrong' \in Tables(0..clock)
        /\ \A j \in Keys \ {k} : wrong'[j] = wrong[j]
        /\ wrong'[k] = Append(wrong[k], clock)
    BY <1>1 DEF Table, Tables
  <1>5. ASSUME NEW j \in Keys
        PROVE  /\ table[j] \in Seq(0..clock)
               /\ wrong[j] \in Seq(0..clock)
               /\ Ordered(table[j]) /\ Ordered(wrong[j])
               /\ Traced(table[j], wrong[j])
    <2>1. failures[j] \in Seq(0..clock) /\ wrong[j] \in Seq(0..clock)
      BY DEF Table, Tables
    <2>2. failures[j] \in Seq(Nat)
      BY <1>1, <2>1, SeqOfNat
    <2>3. table[j] = PopOld(failures[j], clock)
      BY DEF Pruned
    <2>4. Ordered(PopOld(failures[j], clock))
      BY <1>1, <2>2, PopOldYoung DEF Table, Deques, LimitsType
    <2>5. Traced(PopOld(failures[j], clock), wrong[j])
      BY <2>1, TracedPop DEF Table, Traces
    <2>6. table[j] \in Seq(0..clock)
      BY PrunedTable DEF Table, Tables
    <2> QED BY <2>1, <2>3, <2>4, <2>5, <2>6 DEF Table, Deques
  <1> HIDE DEF table
  <1>6. \A j \in Keys \ {k} :
           Ordered(failures'[j]) /\ Ordered(wrong'[j]) /\ Traced(failures'[j], wrong'[j])
    BY <1>2, <1>4, <1>5
  <1>7. Ordered(failures'[k]) /\ Ordered(wrong'[k]) /\ Traced(failures'[k], wrong'[k])
    <2>1. /\ Ordered(Append(table[k], clock)) /\ Ordered(table[k])
          /\ Ordered(Append(wrong[k], clock))
      BY <1>1, <1>5, AppendOrdered
    <2>2. Traced(Append(table[k], clock), Append(wrong[k], clock))
      BY <1>1, <1>5, TracedRecorded
    <2>3. Traced(table[k], Append(wrong[k], clock))
      BY <1>1, <1>5, TracedReported
    <2>4. PICK s, w : s = failures'[k] /\ w = wrong'[k]
      OBVIOUS
    <2>5. w = Append(wrong[k], clock) /\ (s = table[k] \/ s = Append(table[k], clock))
      BY <1>2, <1>4, <2>4
    <2>6. Ordered(s) /\ Ordered(w) /\ Traced(s, w)
      BY <2>1, <2>2, <2>3, <2>5
    <2> QED BY <2>4, <2>6
  <1>8. \A j \in Keys :
           Ordered(failures'[j]) /\ Ordered(wrong'[j]) /\ Traced(failures'[j], wrong'[j])
    BY <1>6, <1>7
  <1>9. IsFiniteSet(Recorded(wrong'))
    <2>1. Recorded(wrong') \subseteq Recorded(wrong) \cup {k}
      BY <1>4 DEF Recorded
    <2> QED BY <2>1, FS_AddElement, FS_Subset DEF Table
  <1> QED BY <1>2, <1>3, <1>4, <1>8, <1>9 DEF Table, Deques, Traces, Tables, Bounded, Recorded

(* A success forgets the failures and their history together.              *)
LEMMA ClearKeepsTable ==
    ASSUME LimitsType, AttemptsType, Control, Table, NEW k \in Keys,
           ClearFailures(k), clock' = clock, wrong' = [wrong EXCEPT ![k] = <<>>]
    PROVE  Table'
  <1>1. /\ failures' \in Tables(0..clock) /\ wrong' \in Tables(0..clock)
        /\ failures'[k] = <<>> /\ wrong'[k] = <<>>
        /\ \A j \in Keys \ {k} : failures'[j] = failures[j] /\ wrong'[j] = wrong[j]
    BY DEF ClearFailures, Table, Tables
  <1>2. Len(<<>>) = 0 /\ 1..0 = {}
    OBVIOUS
  <1>3. Bounded(failures') /\ IsFiniteSet(Recorded(wrong'))
    <2>1. \A j \in Keys : Len(failures'[j]) <= MaxFailures
      <3> TAKE j \in Keys
      <3>1. CASE j = k
        BY <1>1, <1>2, <3>1 DEF LimitsType
      <3>2. CASE j # k
        BY <1>1, <3>2 DEF Table, Bounded
      <3> QED BY <3>1, <3>2
    <2>2. /\ Recorded(failures') \subseteq Recorded(failures)
          /\ Recorded(wrong') \subseteq Recorded(wrong)
      BY <1>1 DEF Recorded
    <2>3. IsFiniteSet(Recorded(failures)) /\ IsFiniteSet(Recorded(wrong))
      BY DEF Table, Bounded
    <2>4. /\ IsFiniteSet(Recorded(failures')) /\ IsFiniteSet(Recorded(wrong'))
          /\ Cardinality(Recorded(failures')) <= Cardinality(Recorded(failures))
          /\ Cardinality(Recorded(failures')) \in Nat
          /\ Cardinality(Recorded(failures)) \in Nat
      BY <2>2, <2>3, FS_Subset, FS_CardinalityType
    <2>5. Cardinality(Recorded(failures)) <= MaxAuthClients
      BY DEF Table, Bounded
    <2> QED BY <2>1, <2>4, <2>5 DEF Bounded, LimitsType
  <1>4. \A j \in Keys : Ordered(failures'[j]) /\ Ordered(wrong'[j])
    <2> TAKE j \in Keys
    <2>1. CASE j = k
      BY <1>1, <1>2, <2>1 DEF Ordered
    <2>2. CASE j # k
      BY <1>1, <2>2 DEF Table, Deques
    <2> QED BY <2>1, <2>2
  <1>5. \A j \in Keys : Traced(failures'[j], wrong'[j])
    <2> TAKE j \in Keys
    <2>1. CASE j = k
      BY <1>1, <2>1, TracedEmpty
    <2>2. CASE j # k
      BY <1>1, <2>2 DEF Table, Traces
    <2> QED BY <2>1, <2>2
  <1> QED BY <1>1, <1>3, <1>4, <1>5 DEF Table, Deques, Traces, Tables, Bounded, Recorded

(* Time alone changes only what the clock may be compared with.            *)
LEMMA LaterTable ==
    ASSUME LimitsType, AttemptsType, Control, Table,
           clock' = clock \/ clock' = clock + 1, UNCHANGED <<failures, wrong>>
    PROVE  Table'
  <1>1. clock \in Nat /\ clock' \in Nat /\ clock <= clock'
    BY DEF Control, AttemptsType
  <1>2. PICK c : c = clock'
    OBVIOUS
  <1>3. \A k \in Keys : failures[k] \in Seq(0..clock) /\ wrong[k] \in Seq(0..clock)
    BY DEF Table, Tables
  <1>4. \A k \in Keys : failures[k] \in Seq(0..c) /\ wrong[k] \in Seq(0..c)
    BY <1>1, <1>2, <1>3, SeqOfLater
  <1>5. failures \in Tables(0..c) /\ wrong \in Tables(0..c)
    BY <1>4 DEF Table, Tables
  <1> QED BY <1>2, <1>5 DEF Table, Deques, Traces, Tables, Bounded, Recorded

LEMMA NextInvariant == IInv /\ [Next]_vars => IInv'
  <1> SUFFICES ASSUME Control, Table, [Next]_vars
               PROVE  Control' /\ Table'
    BY DEF IInv
  <1> USE LimitsType, AttemptsType
  <1>1. CASE Tick
    <2>1. Control'
      BY <1>1 DEF Tick, Control, AttemptsType
    <2> QED BY <1>1, <2>1, LaterTable DEF Tick
  <1>2. ASSUME NEW a \in Attempts, NEW k \in Keys, Begin(a, k)
        PROVE  Control' /\ Table'
    <2>1. Control'
      BY <1>2 DEF Begin, Goto, Control, Phases, AttemptsType
    <2> QED BY <1>2, <2>1, LaterTable DEF Begin
  <1>3. ASSUME NEW a \in Attempts, Refuse(a) \/ Admit(a)
        PROVE  Control' /\ Table'
    <2>1. Control'
      BY <1>3 DEF Refuse, Admit, CheckLimit, Goto, Control, Phases, AttemptsType
    <2>2. now[a] \in Nat /\ failures' = Pruned(now[a]) /\ UNCHANGED <<clock, wrong>>
      BY <1>3 DEF Refuse, Admit, CheckLimit, Control, AttemptsType
    <2> QED BY <2>1, <2>2, PruneKeepsTable
  <1>4. ASSUME NEW a \in Attempts, Verify(a) \/ Disconnect(a)
        PROVE  Control' /\ Table'
    <2>1. Control'
      BY <1>4 DEF Verify, Disconnect, Goto, Control, Phases, AttemptsType
    <2> QED BY <1>4, <2>1, LaterTable DEF Verify, Disconnect
  <1>5. ASSUME NEW a \in Attempts, Record(a)
        PROVE  Control' /\ Table'
    <2>1. key[a] \in Keys
      BY DEF Control
    <2>2. Control'
      BY <1>5, <2>1 DEF Record, Goto, Control, Phases, AttemptsType
    <2> QED BY <1>5, <2>1, <2>2, RecordKeepsTable DEF Record
  <1>6. ASSUME NEW a \in Attempts, Clear(a)
        PROVE  Control' /\ Table'
    <2>1. key[a] \in Keys
      BY DEF Control
    <2>2. Control'
      BY <1>6, <2>1 DEF Clear, Goto, Control, Phases, AttemptsType
    <2> QED BY <1>6, <2>1, <2>2, ClearKeepsTable DEF Clear
  <1>7. CASE UNCHANGED vars
    <2>1. Control'
      BY <1>7 DEF vars, Control
    <2> QED BY <1>7, <2>1, LaterTable DEF vars
  <1> QED BY <1>1, <1>2, <1>3, <1>4, <1>5, <1>6, <1>7 DEF Next

THEOREM Invariant == Spec => []IInv
  BY InitInvariant, NextInvariant, PTL DEF Spec

(* The table stays within its two bounds and everything has its type, for  *)
(* any keys, attempts and limits.                                          *)
THEOREM TypeCorrect == Spec => []TypeOK
  <1>1. IInv => TypeOK
    BY DEF IInv, Control, Table, TypeOK, Tables, Bounded
  <1> QED BY <1>1, Invariant, PTL

-----------------------------------------------------------------------------
(* What a step may do.                                                     *)

LEMMA PrunedYoung ==
    ASSUME LimitsType, AttemptsType, Control, Table, NEW t \in Nat, NEW k \in Keys
    PROVE  \A i \in DOMAIN Pruned(t)[k] : ~Old(Pruned(t)[k][i], t)
  <1>1. failures[k] \in Seq(0..clock) /\ clock \in Nat
    BY DEF Table, Tables, Control, AttemptsType
  <1>2. failures[k] \in Seq(Nat)
    BY <1>1, SeqOfNat
  <1>3. \A i \in 1..Len(PopOld(failures[k], t)) : ~Old(PopOld(failures[k], t)[i], t)
    BY <1>2, PopOldYoung DEF Table, Deques, LimitsType
  <1>4. Pruned(t)[k] = PopOld(failures[k], t)
    BY DEF Pruned
  <1>5. Pruned(t)[k] \in Seq(0..clock)
    BY PrunedTable DEF Table, Tables
  <1>6. DOMAIN Pruned(t)[k] = 1..Len(Pruned(t)[k])
    BY <1>5
  <1> QED BY <1>3, <1>4, <1>6

(* No check and no record leaves an old failure behind, at whatever        *)
(* earlier instant the check was asked for.                                *)
THEOREM PruningComplete == Spec => PruneComplete
  <1> DEFINE Complete(a, k) ==
          LET t == IF pc[a] = "check" THEN now[a] ELSE clock IN
          pc[a] \in {"check", "failed"} /\ pc'[a] # pc[a] =>
             \A i \in DOMAIN failures'[k] : ~Old(failures'[k][i], t)
  <1>1. ASSUME Control, Table, [Next]_vars, NEW a \in Attempts, NEW k \in Keys
        PROVE  Complete(a, k)
    <2> USE <1>1, LimitsType, AttemptsType
    <2> SUFFICES ASSUME pc[a] \in {"check", "failed"}, pc'[a] # pc[a]
                 PROVE  \A i \in DOMAIN failures'[k] :
                           ~Old(failures'[k][i], IF pc[a] = "check" THEN now[a] ELSE clock)
      OBVIOUS
    <2>1. \/ Refuse(a) \/ Admit(a) \/ Record(a)
      <3>1. ASSUME NEW b \in Attempts, b # a,
                   \/ \E j \in Keys : Begin(b, j)
                   \/ Refuse(b) \/ Admit(b) \/ Verify(b) \/ Disconnect(b)
                   \/ Record(b) \/ Clear(b)
            PROVE  pc'[a] = pc[a]
        BY <3>1 DEF Begin, Refuse, Admit, Verify, Disconnect, Record, Clear, Goto, Control
      <3>2. Tick \/ UNCHANGED vars => pc'[a] = pc[a]
        BY DEF Tick, vars
      <3>3. ~Verify(a) /\ ~Disconnect(a) /\ ~Clear(a) /\ \A j \in Keys : ~Begin(a, j)
        BY DEF Begin, Verify, Disconnect, Clear
      <3> QED BY <3>1, <3>2, <3>3 DEF Next
    <2>2. CASE Refuse(a) \/ Admit(a)
      <3>1. pc[a] = "check" /\ failures' = Pruned(now[a]) /\ now[a] \in Nat
        BY <2>2 DEF Refuse, Admit, CheckLimit, Control, AttemptsType
      <3> QED BY <3>1, PrunedYoung
    <2>3. CASE Record(a)
      <3>1. /\ pc[a] = "failed" /\ RecordFailure(key[a], clock) /\ key[a] \in Keys
            /\ clock \in Nat /\ clock \in 0..clock
        BY <2>3 DEF Record, Control, AttemptsType
      <3>2. /\ \A j \in Keys \ {key[a]} : failures'[j] = Pruned(clock)[j]
            /\ \/ failures' = Pruned(clock)
               \/ failures'[key[a]] = Append(Pruned(clock)[key[a]], clock)
        BY <3>1, RecordIs DEF Table
      <3>3. \A i \in DOMAIN Pruned(clock)[k] : ~Old(Pruned(clock)[k][i], clock)
        BY <3>1, PrunedYoung
      <3>4. CASE failures'[k] = Pruned(clock)[k]
        BY <3>1, <3>3, <3>4
      <3>5. CASE failures'[k] = Append(Pruned(clock)[k], clock)
        <4>1. Pruned(clock)[k] \in Seq(0..clock)
          BY PrunedTable DEF Table, Tables
        <4>2. PICK s \in Seq(0..clock) : s = Pruned(clock)[k]
          BY <4>1
        <4>3. /\ Len(s) \in Nat
              /\ DOMAIN s = 1..Len(s)
              /\ DOMAIN Append(s, clock) = 1..(Len(s) + 1)
              /\ \A i \in 1..Len(s) : Append(s, clock)[i] = s[i]
              /\ Append(s, clock)[Len(s) + 1] = clock
          BY <3>1
        <4>4. ~Old(clock, clock)
          BY <3>1 DEF Old, LimitsType
        <4>5. \A i \in DOMAIN Append(s, clock) : ~Old(Append(s, clock)[i], clock)
          <5> TAKE i \in DOMAIN Append(s, clock)
          <5>1. i = Len(s) + 1 \/ i \in 1..Len(s)
            BY <4>3
          <5> QED BY <5>1, <3>3, <4>2, <4>3, <4>4
        <4> QED BY <3>1, <3>5, <4>2, <4>5
      <3> QED BY <3>1, <3>2, <3>4, <3>5
    <2> QED BY <2>1, <2>2, <2>3
  <1>2. IInv /\ [Next]_vars => \A a \in Attempts, k \in Keys : Complete(a, k)
    BY <1>1 DEF IInv
  <1> QED BY <1>2, Invariant, PTL DEF Spec, PruneComplete

(* The instants a prune leaves are those of as many young failures.        *)
LEMMA PrunedReported ==
    ASSUME LimitsType, AttemptsType, Control, Table, NEW t \in Nat, NEW k \in Keys
    PROVE  /\ Len(Pruned(t)[k]) \in Nat
           /\ IsFiniteSet(YoungWrong(k, t))
           /\ Cardinality(YoungWrong(k, t)) \in Nat
           /\ Len(Pruned(t)[k]) <= Cardinality(YoungWrong(k, t))
           /\ Pruned(t)[k] # <<>> => YoungWrong(k, t) # {}
  <1> DEFINE p == Pruned(t)[k]
  <1>1. /\ failures[k] \in Seq(0..clock)
        /\ wrong[k] \in Seq(0..clock)
        /\ p \in Seq(0..clock)
        /\ p = PopOld(failures[k], t)
    BY PrunedTable DEF Table, Tables, Pruned
  <1>2. Traced(p, wrong[k])
    BY <1>1, TracedPop DEF Table, Traces
  <1>3. \A i \in DOMAIN p : ~Old(p[i], t)
    BY PrunedYoung
  <1> HIDE DEF p
  <1>4. PICK f \in [1..Len(p) -> 1..Len(wrong[k])] : TracedBy(f, p, wrong[k])
    BY <1>2 DEF Traced
  <1>5. /\ Len(p) \in Nat
        /\ Len(wrong[k]) \in Nat
        /\ DOMAIN p = 1..Len(p)
        /\ DOMAIN wrong[k] = 1..Len(wrong[k])
    BY <1>1
  <1>6. \A i \in 1..Len(p) : f[i] \in YoungWrong(k, t)
    <2> TAKE i \in 1..Len(p)
    <2>1. f[i] \in DOMAIN wrong[k] /\ p[i] = wrong[k][f[i]]
      BY <1>4, <1>5 DEF TracedBy
    <2>2. ~Old(p[i], t)
      BY <1>3, <1>5
    <2> QED BY <2>1, <2>2 DEF YoungWrong
  <1>7. f \in Injection(1..Len(p), YoungWrong(k, t))
    <2>1. f \in [1..Len(p) -> YoungWrong(k, t)]
      BY <1>6
    <2>2. \A i, j \in 1..Len(p) : f[i] = f[j] => i = j
      BY <1>4 DEF TracedBy
    <2> QED BY <2>1, <2>2, Fun_IsInj
  <1>8. IsFiniteSet(YoungWrong(k, t))
    <2>1. IsFiniteSet(1..Len(wrong[k]))
      BY <1>5, FS_Interval
    <2>2. YoungWrong(k, t) \subseteq 1..Len(wrong[k])
      BY <1>5 DEF YoungWrong
    <2> QED BY <2>1, <2>2, FS_Subset
  <1>9. Cardinality(1..Len(p)) <= Cardinality(YoungWrong(k, t))
    BY <1>7, <1>8, FS_Injection
  <1>10. Cardinality(1..Len(p)) = Len(p)
    <2>1. \A n \in Nat : Cardinality(1..n) = n
      <3> TAKE n \in Nat
      <3>1. 1 \in Int /\ n \in Int
        OBVIOUS
      <3>2. Cardinality(1..n) = IF 1 > n THEN 0 ELSE n - 1 + 1
        BY <3>1, FS_Interval
      <3> QED BY <3>2
    <2> QED BY <1>5, <2>1
  <1>11. p # <<>> => YoungWrong(k, t) # {}
    <2> HAVE p # <<>>
    <2>1. 1 \in 1..Len(p)
      <3>1. Len(p) # 0
        BY <1>1, EmptySeq
      <3> QED BY <1>5, <3>1
    <2> QED BY <1>6, <2>1
  <1> QED BY <1>5, <1>8, <1>9, <1>10, <1>11, FS_CardinalityType DEF p

(* A refused attempt was refused for failures that were reported: enough   *)
(* young ones of its own key, or one each of a full table of other keys.   *)
THEOREM RefusalsJustified == Spec => RefusalJustified
  <1> DEFINE Justified(a) ==
          pc[a] = "check" /\ pc'[a] = "idle" =>
             \/ Cardinality(YoungWrong(key[a], now[a])) >= MaxFailures
             \/ Cardinality({k \in Keys \ {key[a]} : YoungWrong(k, now[a]) # {}})
                   >= MaxAuthClients
  <1>1. ASSUME Control, Table, [Next]_vars, NEW a \in Attempts
        PROVE  Justified(a)
    <2> USE <1>1, LimitsType, AttemptsType
    <2> SUFFICES ASSUME pc[a] = "check", pc'[a] = "idle"
                 PROVE  \/ Cardinality(YoungWrong(key[a], now[a])) >= MaxFailures
                        \/ Cardinality({k \in Keys \ {key[a]} : YoungWrong(k, now[a]) # {}})
                              >= MaxAuthClients
      OBVIOUS
    <2>1. Refuse(a)
      <3>1. ASSUME NEW b \in Attempts, b # a,
                   \/ \E j \in Keys : Begin(b, j)
                   \/ Refuse(b) \/ Admit(b) \/ Verify(b) \/ Disconnect(b)
                   \/ Record(b) \/ Clear(b)
            PROVE  pc'[a] = pc[a]
        BY <3>1 DEF Begin, Refuse, Admit, Verify, Disconnect, Record, Clear, Goto, Control
      <3>2. Tick \/ UNCHANGED vars => pc'[a] = pc[a]
        BY DEF Tick, vars
      <3>3. /\ ~Verify(a) /\ ~Disconnect(a) /\ ~Record(a) /\ ~Clear(a)
            /\ \A j \in Keys : ~Begin(a, j)
        BY DEF Begin, Verify, Disconnect, Record, Clear
      <3>4. ~Admit(a)
        BY DEF Admit, Goto, Control
      <3> QED BY <3>1, <3>2, <3>3, <3>4 DEF Next
    <2>2. PICK k, t : k = key[a] /\ t = now[a]
      OBVIOUS
    <2>3. k \in Keys /\ t \in Nat /\ Limited(k, t)
      BY <2>1, <2>2 DEF Refuse, CheckLimit, Control, AttemptsType
    <2>4. CASE Len(Pruned(t)[k]) >= MaxFailures
      <3>1. Cardinality(YoungWrong(k, t)) >= MaxFailures
        BY <2>3, <2>4, PrunedReported DEF LimitsType
      <3> QED BY <2>2, <3>1
    <2>5. CASE k \notin Recorded(Pruned(t)) /\ Full(Pruned(t))
      <3> DEFINE Others == {j \in Keys \ {k} : YoungWrong(j, t) # {}}
      <3>1. Recorded(Pruned(t)) \subseteq Others
        BY <2>3, <2>5, PrunedReported DEF Recorded
      <3>2. IsFiniteSet(Others)
        <4>1. Others \subseteq Recorded(wrong)
          <5> SUFFICES ASSUME NEW j \in Keys, wrong[j] = <<>>
                       PROVE  YoungWrong(j, t) = {}
            BY DEF Recorded
          <5> QED BY DEF YoungWrong
        <4> QED BY <4>1, FS_Subset DEF Table
      <3> HIDE DEF Others
      <3>3. /\ Cardinality(Recorded(Pruned(t))) <= Cardinality(Others)
            /\ Cardinality(Recorded(Pruned(t))) \in Nat
            /\ Cardinality(Others) \in Nat
        BY <3>1, <3>2, FS_Subset, FS_CardinalityType
      <3>4. Cardinality(Others) >= MaxAuthClients
        BY <2>5, <3>3 DEF Full, LimitsType
      <3> QED BY <2>2, <3>4 DEF Others
    <2> QED BY <2>3, <2>4, <2>5 DEF Limited
  <1>2. IInv /\ [Next]_vars => \A a \in Attempts : Justified(a)
    BY <1>1 DEF IInv
  <1> QED BY <1>2, Invariant, PTL DEF Spec, RefusalJustified

-----------------------------------------------------------------------------
(* How many wrong passwords fit into a window.                             *)

InProgress == Cardinality(Attempts)

LEMMA InProgressType ==
    ASSUME AttemptsType
    PROVE  InProgress \in Nat \ {0}
  <1>1. Cardinality(Attempts) \in Nat /\ Cardinality(Attempts) # 0
    BY FS_CardinalityType, FS_EmptySet DEF AttemptsType
  <1> QED BY <1>1 DEF InProgress

(* What is used of the product with the number of attempts.                *)
LEMMA Times ==
    ASSUME NEW a \in Nat
    PROVE  \A x \in Nat :
              /\ x * a \in Nat
              /\ (x + 1) * a = x * a + a
              /\ \A y \in Nat : x <= y => x * a <= y * a
  <1> TAKE x \in Nat
  <1>1. x * a \in Nat
    OBVIOUS
  <1>2. (x + 1) * a = x * a + a
    OBVIOUS
  <1>3. ASSUME NEW y \in Nat, x <= y  PROVE  x * a <= y * a
    <2>1. PICK d \in Nat : y = x + d
      <3>1. y - x \in Nat /\ y = x + (y - x)
        BY <1>3
      <3> QED BY <3>1
    <2>2. (x + d) * a = x * a + d * a /\ d * a \in Nat
      OBVIOUS
    <2> QED BY <1>1, <2>1, <2>2
  <1> QED BY <1>1, <1>2, <1>3

(* The deque s against the reported failures w at instant t: f gives each  *)
(* recorded instant its place in w, and 0 the place up to which everything *)
(* is old.  At most InProgress failures are reported from one recorded     *)
(* place to the next, and after the last place no more than u.             *)
PlacedBy(f, s, w, t, u) ==
    /\ f[0] = 0 \/ Old(w[f[0]], t)
    /\ \A j \in 1..Len(s) : f[j] # 0 /\ w[f[j]] = s[j]
    /\ \A j \in 0..Len(s) : Len(w) - f[j] <= (Len(s) - j) * InProgress + u

Placed(s, w, t, u) ==
    \E f \in [0..Len(s) -> 0..Len(w)] : PlacedBy(f, s, w, t, u)

(* Attempts past the check whose failure may still come.                   *)
Pending(k) == {a \in Attempts : key[a] = k /\ pc[a] \in {"verify", "failed"}}

(* A full deque with a young front admits nobody, so that the failures     *)
(* that it has no place for are those of attempts already pending.         *)
Spent(k) ==
    \E u \in 0..(InProgress - 1) :
        /\ Placed(failures[k], wrong[k], clock, u)
        /\ Len(failures[k]) = MaxFailures /\ ~Old(failures[k][1], clock)
              => u + Cardinality(Pending(k)) <= InProgress - 1

Spending == \A k \in Keys \ lost : Spent(k)

LEMMA OldLater ==
    ASSUME LimitsType, NEW a \in Nat, NEW t \in Nat, NEW v \in Nat, t <= v, Old(a, t)
    PROVE  Old(a, v)
  BY DEF Old, LimitsType

(* Time makes what is old no younger.                                      *)
LEMMA PlacedLater ==
    ASSUME LimitsType, NEW s \in Seq(Nat), NEW w \in Seq(Nat), NEW u \in Nat,
           NEW t \in Nat, NEW v \in Nat, t <= v, Placed(s, w, t, u)
    PROVE  Placed(s, w, v, u)
  <1>1. PICK f \in [0..Len(s) -> 0..Len(w)] : PlacedBy(f, s, w, t, u)
    BY DEF Placed
  <1>2. f[0] \in 0..Len(w)
    <2>1. 0 \in 0..Len(s)
      OBVIOUS
    <2> QED BY <2>1
  <1>3. f[0] # 0 => w[f[0]] \in Nat
    <2>1. f[0] # 0 => f[0] \in 1..Len(w)
      BY <1>2
    <2> QED BY <2>1, ElementOfSeq
  <1>4. f[0] = 0 \/ Old(w[f[0]], v)
    BY <1>1, <1>3, OldLater DEF PlacedBy
  <1> QED BY <1>1, <1>4 DEF Placed, PlacedBy

(* Popping moves the place up to which everything is old.                  *)
LEMMA PlacedPop ==
    ASSUME LimitsType, NEW s \in Seq(Nat), NEW w \in Seq(Nat), NEW u \in Nat,
           NEW t \in Nat, NEW v \in Nat, v <= t, Placed(s, w, t, u)
    PROVE  Placed(PopOld(s, v), w, t, u)
  <1>1. PICK f \in [0..Len(s) -> 0..Len(w)] : PlacedBy(f, s, w, t, u)
    BY DEF Placed
  <1>2. PICK n \in 0..Len(s) :
              /\ Poppable(s, v, n)
              /\ PopOld(s, v) \in Seq(Nat)
              /\ Len(PopOld(s, v)) = Len(s) - n
              /\ \A i \in 1..(Len(s) - n) : PopOld(s, v)[i] = s[n + i]
    BY PopOldIs
  <1>3. Len(s) \in Nat /\ Len(w) \in Nat
    OBVIOUS
  <1> DEFINE g == [j \in 0..(Len(s) - n) |-> f[n + j]]
  <1>4. /\ \A j \in 0..(Len(s) - n) : n + j \in 0..Len(s)
        /\ \A j \in 1..(Len(s) - n) : n + j \in 1..Len(s) /\ j \in 0..(Len(s) - n)
        /\ 0 \in 0..(Len(s) - n)
        /\ n + 0 = n
    BY <1>3
  <1>5. g \in [0..(Len(s) - n) -> 0..Len(w)]
    BY <1>4
  <1>6. g[0] = 0 \/ Old(w[g[0]], t)
    <2>1. g[0] = f[n]
      BY <1>4
    <2>2. CASE n = 0
      BY <1>1, <2>1, <2>2 DEF PlacedBy
    <2>3. CASE n # 0
      <3>1. n \in 1..n /\ n \in 1..Len(s)
        BY <2>3, <1>3
      <3>2. w[f[n]] = s[n] /\ s[n] \in Nat /\ Old(s[n], v)
        BY <1>1, <1>2, <3>1, ElementOfSeq DEF PlacedBy, Poppable
      <3>3. Old(s[n], t)
        BY <3>2, OldLater
      <3> QED BY <2>1, <3>2, <3>3
    <2> QED BY <2>2, <2>3
  <1>7. \A j \in 1..(Len(s) - n) : g[j] # 0 /\ w[g[j]] = PopOld(s, v)[j]
    BY <1>1, <1>2, <1>4 DEF PlacedBy
  <1>8. \A j \in 0..(Len(s) - n) : Len(w) - g[j] <= ((Len(s) - n) - j) * InProgress + u
    <2> TAKE j \in 0..(Len(s) - n)
    <2>1. Len(w) - f[n + j] <= (Len(s) - (n + j)) * InProgress + u
      BY <1>1, <1>4 DEF PlacedBy
    <2>2. Len(s) - (n + j) = (Len(s) - n) - j
      BY <1>3
    <2>3. g[j] = f[n + j]
      OBVIOUS
    <2> HIDE DEF g
    <2> QED BY <2>1, <2>2, <2>3
  <1> HIDE DEF g
  <1>9. PICK p : p = PopOld(s, v)
    OBVIOUS
  <1>10. PlacedBy(g, p, w, t, u) /\ g \in [0..Len(p) -> 0..Len(w)]
    BY <1>2, <1>5, <1>6, <1>7, <1>8, <1>9 DEF PlacedBy
  <1>11. Placed(p, w, t, u)
    BY <1>10 DEF Placed
  <1> QED BY <1>9, <1>11

(* A failure without a place counts after the last one.                    *)
LEMMA PlacedUnrecorded ==
    ASSUME AttemptsType, NEW s \in Seq(Nat), NEW w \in Seq(Nat), NEW u \in Nat,
           NEW t \in Nat, Placed(s, w, t, u)
    PROVE  Placed(s, Append(w, t), t, u + 1)
  <1>1. PICK f \in [0..Len(s) -> 0..Len(w)] : PlacedBy(f, s, w, t, u)
    BY DEF Placed
  <1>2. /\ Len(w) \in Nat /\ Len(s) \in Nat
        /\ Len(Append(w, t)) = Len(w) + 1
        /\ \A i \in 1..Len(w) : Append(w, t)[i] = w[i]
    OBVIOUS
  <1>3. \A j \in 0..Len(s) : f[j] \in 0..Len(w) /\ (f[j] # 0 => f[j] \in 1..Len(w))
    <2>1. \A n \in Nat : \A x \in 0..n : x # 0 => x \in 1..n
      OBVIOUS
    <2>2. \A j \in 0..Len(s) : f[j] \in 0..Len(w)
      OBVIOUS
    <2> QED BY <1>2, <2>1, <2>2
  <1>4. f \in [0..Len(s) -> 0..(Len(w) + 1)]
    <2>1. 0..Len(w) \subseteq 0..(Len(w) + 1)
      BY <1>2
    <2> QED BY <2>1
  <1>5. f[0] = 0 \/ Old(Append(w, t)[f[0]], t)
    <2>1. 0 \in 0..Len(s)
      BY <1>2
    <2> QED BY <1>1, <1>2, <1>3, <2>1 DEF PlacedBy
  <1>6. \A j \in 1..Len(s) : f[j] # 0 /\ Append(w, t)[f[j]] = s[j]
    <2>1. \A j \in 1..Len(s) : j \in 0..Len(s)
      OBVIOUS
    <2> QED BY <1>1, <1>2, <1>3, <2>1 DEF PlacedBy
  <1>7. \A j \in 0..Len(s) : (Len(w) + 1) - f[j] <= (Len(s) - j) * InProgress + (u + 1)
    <2> TAKE j \in 0..Len(s)
    <2>1. Len(w) - f[j] <= (Len(s) - j) * InProgress + u
      BY <1>1 DEF PlacedBy
    <2>2. (Len(s) - j) * InProgress \in Nat
      BY <1>2, InProgressType, Times
    <2>3. PICK m \in Nat : m = (Len(s) - j) * InProgress
      BY <2>2
    <2> QED BY <1>2, <1>3, <2>1, <2>3
  <1>8. PICK v : v = Append(w, t)
    OBVIOUS
  <1>9. PlacedBy(f, s, v, t, u + 1) /\ f \in [0..Len(s) -> 0..Len(v)]
    BY <1>2, <1>4, <1>5, <1>6, <1>7, <1>8 DEF PlacedBy
  <1>10. Placed(s, v, t, u + 1)
    BY <1>9 DEF Placed
  <1> QED BY <1>8, <1>10

(* A recorded failure is the last place, and the count starts anew.        *)
LEMMA PlacedRecorded ==
    ASSUME AttemptsType, NEW s \in Seq(Nat), NEW w \in Seq(Nat),
           NEW u \in 0..(InProgress - 1), NEW t \in Nat, Placed(s, w, t, u)
    PROVE  Placed(Append(s, t), Append(w, t), t, 0)
  <1>1. PICK f \in [0..Len(s) -> 0..Len(w)] : PlacedBy(f, s, w, t, u)
    BY DEF Placed
  <1>2. /\ Len(w) \in Nat
        /\ Len(Append(w, t)) = Len(w) + 1
        /\ \A i \in 1..Len(w) : Append(w, t)[i] = w[i]
        /\ Append(w, t)[Len(w) + 1] = t
    OBVIOUS
  <1>3. /\ Len(s) \in Nat
        /\ Len(Append(s, t)) = Len(s) + 1
        /\ \A i \in 1..Len(s) : Append(s, t)[i] = s[i]
        /\ Append(s, t)[Len(s) + 1] = t
    OBVIOUS
  <1>4. /\ \A j \in 0..(Len(s) + 1) : j = Len(s) + 1 \/ j \in 0..Len(s)
        /\ \A j \in 1..(Len(s) + 1) : j = Len(s) + 1 \/ j \in 1..Len(s)
        /\ \A j \in 0..Len(s) : j \in 0..(Len(s) + 1) /\ j # Len(s) + 1
        /\ Len(s) + 1 \in 0..(Len(s) + 1)
        /\ 0 \in 0..Len(s)
        /\ \A j \in 1..Len(s) : j \in 0..Len(s)
    BY <1>3
  <1>5. \A j \in 0..Len(s) : f[j] \in 0..Len(w) /\ (f[j] # 0 => f[j] \in 1..Len(w))
    <2>1. \A j \in 0..Len(s) : f[j] \in 0..Len(w)
      OBVIOUS
    <2> QED BY <1>2, <2>1
  <1> DEFINE g == [j \in 0..(Len(s) + 1) |-> IF j = Len(s) + 1 THEN Len(w) + 1 ELSE f[j]]
  <1>6. /\ g[Len(s) + 1] = Len(w) + 1
        /\ \A j \in 0..Len(s) : g[j] = f[j]
    BY <1>4
  <1>7. g \in [0..(Len(s) + 1) -> 0..(Len(w) + 1)]
    <2>1. \A j \in 0..(Len(s) + 1) : g[j] \in 0..(Len(w) + 1)
      BY <1>2, <1>4, <1>5, <1>6
    <2> QED BY <2>1
  <1> HIDE DEF g
  <1>8. g[0] = 0 \/ Old(Append(w, t)[g[0]], t)
    BY <1>1, <1>2, <1>4, <1>5, <1>6 DEF PlacedBy
  <1>9. \A j \in 1..(Len(s) + 1) : g[j] # 0 /\ Append(w, t)[g[j]] = Append(s, t)[j]
    <2> TAKE j \in 1..(Len(s) + 1)
    <2>1. CASE j = Len(s) + 1
      BY <1>2, <1>3, <1>6, <2>1
    <2>2. CASE j \in 1..Len(s)
      BY <1>1, <1>2, <1>3, <1>4, <1>5, <1>6, <2>2 DEF PlacedBy
    <2> QED BY <1>4, <2>1, <2>2
  <1>10. \A j \in 0..(Len(s) + 1) :
            (Len(w) + 1) - g[j] <= ((Len(s) + 1) - j) * InProgress + 0
    <2> TAKE j \in 0..(Len(s) + 1)
    <2>1. CASE j = Len(s) + 1
      <3>1. ((Len(s) + 1) - j) * InProgress = 0
        BY <1>3, <2>1, InProgressType
      <3> QED BY <1>2, <1>6, <2>1, <3>1
    <2>2. CASE j \in 0..Len(s)
      <3>1. Len(w) - f[j] <= (Len(s) - j) * InProgress + u
        BY <1>1, <2>2 DEF PlacedBy
      <3>2. PICK x \in Nat : x = Len(s) - j
        <4>1. Len(s) - j \in Nat
          BY <1>3, <2>2
        <4> QED BY <4>1
      <3>3. (Len(s) + 1) - j = x + 1
        BY <1>3, <2>2, <3>2
      <3>4. x * InProgress \in Nat /\ (x + 1) * InProgress = x * InProgress + InProgress
        BY InProgressType, Times
      <3>5. PICK m \in Nat : m = x * InProgress
        BY <3>4
      <3>6. PICK e \in 0..Len(w) : e = f[j]
        BY <1>5, <2>2
      <3>7. (Len(w) + 1) - f[j] <= m + InProgress
        <4>1. Len(w) - e <= m + u
          BY <3>1, <3>2, <3>5, <3>6
        <4>2. PICK n \in Nat : n = Len(w)
          BY <1>2
        <4>3. PICK a \in Nat \ {0} : a = InProgress
          BY InProgressType
        <4>4. u \in 0..(a - 1) /\ e \in 0..n /\ n - e <= m + u
          BY <4>1, <4>2, <4>3
        <4>5. (n + 1) - e <= m + a
          BY <4>4
        <4> QED BY <3>6, <4>2, <4>3, <4>5
      <3>8. ((Len(s) + 1) - j) * InProgress = m + InProgress
        BY <3>3, <3>4, <3>5
      <3>9. PICK b \in Nat : b = m + InProgress
        BY InProgressType
      <3>10. b + 0 = b /\ g[j] = f[j]
        BY <1>6, <2>2
      <3> QED BY <3>7, <3>8, <3>9, <3>10
    <2> QED BY <1>4, <2>1, <2>2
  <1>11. PICK p, v : p = Append(s, t) /\ v = Append(w, t)
    OBVIOUS
  <1>12. PlacedBy(g, p, v, t, 0) /\ g \in [0..Len(p) -> 0..Len(v)]
    BY <1>2, <1>3, <1>7, <1>8, <1>9, <1>10, <1>11 DEF PlacedBy
  <1>13. Placed(p, v, t, 0)
    BY <1>12 DEF Placed
  <1> QED BY <1>11, <1>13

LEMMA PlacedEmpty ==
    ASSUME AttemptsType, NEW t
    PROVE  Placed(<<>>, <<>>, t, 0)
  <1>1. Len(<<>>) = 0 /\ 1..0 = {} /\ 0..0 = {0}
    OBVIOUS
  <1> DEFINE f == [j \in {0} |-> 0]
  <1>2. f \in [0..Len(<<>>) -> 0..Len(<<>>)] /\ f[0] = 0
    BY <1>1
  <1>3. 0 * InProgress = 0
    BY InProgressType
  <1> HIDE DEF f
  <1>4. PlacedBy(f, <<>>, <<>>, t, 0)
    <2>1. \A j \in 0..0 : 0 - f[j] <= (0 - j) * InProgress + 0
      BY <1>1, <1>2, <1>3
    <2> QED BY <1>1, <1>2, <2>1 DEF PlacedBy
  <1> QED BY <1>2, <1>4 DEF Placed

(* What is young comes after the place up to which everything is old.      *)
LEMMA PlacedBounds ==
    ASSUME LimitsType, AttemptsType, NEW s \in Seq(Nat), NEW w \in Seq(Nat),
           NEW t \in Nat, NEW u \in 0..(InProgress - 1), Placed(s, w, t, u),
           Ordered(w), Len(s) <= MaxFailures
    PROVE  Cardinality({i \in DOMAIN w : ~Old(w[i], t)})
               <= (MaxFailures + 1) * InProgress - 1
  <1> DEFINE Young == {i \in DOMAIN w : ~Old(w[i], t)}
  <1>1. PICK f \in [0..Len(s) -> 0..Len(w)] : PlacedBy(f, s, w, t, u)
    BY DEF Placed
  <1>2. Len(w) \in Nat /\ Len(s) \in Nat /\ DOMAIN w = 1..Len(w)
    OBVIOUS
  <1>3. PICK z \in 0..Len(w) : z = f[0]
    BY <1>2
  <1>4. Young \subseteq (z + 1)..Len(w)
    <2> SUFFICES ASSUME NEW i \in 1..Len(w), ~Old(w[i], t)
                 PROVE  i \in (z + 1)..Len(w)
      BY <1>2
    <2>1. CASE z = 0
      BY <1>2, <2>1
    <2>2. CASE z # 0 /\ i <= z
      <3>1. z \in 1..Len(w) /\ Old(w[z], t)
        BY <1>1, <1>2, <1>3, <2>2 DEF PlacedBy
      <3>2. w[i] <= w[z] /\ w[i] \in Nat /\ w[z] \in Nat
        BY <2>2, <3>1, ElementOfSeq DEF Ordered
      <3>3. PICK x \in Nat : x = w[i]
        BY <3>2
      <3>4. PICK y \in Nat : y = w[z]
        BY <3>2
      <3>5. x <= y /\ y + AuthWindow <= t /\ AuthWindow \in Nat
        BY <3>1, <3>2, <3>3, <3>4 DEF Old, LimitsType
      <3>6. x + AuthWindow <= t
        BY <3>5
      <3> QED BY <3>3, <3>6 DEF Old
    <2>3. CASE ~(i <= z)
      BY <1>2, <2>3
    <2> QED BY <2>1, <2>2, <2>3
  <1>5. /\ IsFiniteSet((z + 1)..Len(w))
        /\ Cardinality((z + 1)..Len(w)) = Len(w) - z
    <2>1. z + 1 \in Int /\ Len(w) \in Int
      BY <1>2
    <2>2. /\ IsFiniteSet((z + 1)..Len(w))
          /\ Cardinality((z + 1)..Len(w))
                = IF z + 1 > Len(w) THEN 0 ELSE Len(w) - (z + 1) + 1
      BY <2>1, FS_Interval
    <2>3. (IF z + 1 > Len(w) THEN 0 ELSE Len(w) - (z + 1) + 1) = Len(w) - z
      <3>1. PICK n \in Nat : n = Len(w)
        BY <1>2
      <3>2. z \in 0..n
        BY <3>1
      <3>3. (IF z + 1 > n THEN 0 ELSE n - (z + 1) + 1) = n - z
        BY <3>2
      <3> QED BY <3>1, <3>3
    <2> QED BY <2>2, <2>3
  <1> HIDE DEF Young
  <1>6. Cardinality(Young) \in Nat /\ Cardinality(Young) <= Len(w) - z
    <2>1. IsFiniteSet(Young) /\ Cardinality(Young) <= Cardinality((z + 1)..Len(w))
      BY <1>4, <1>5, FS_Subset
    <2> QED BY <1>5, <2>1, FS_CardinalityType
  <1>7. Len(w) - z <= Len(s) * InProgress + u
    <2>1. 0 \in 0..Len(s) /\ Len(s) - 0 = Len(s)
      BY <1>2
    <2>2. Len(w) - f[0] <= (Len(s) - 0) * InProgress + u
      BY <1>1, <2>1 DEF PlacedBy
    <2> QED BY <1>3, <2>1, <2>2
  <1>8. /\ Len(s) * InProgress <= MaxFailures * InProgress
        /\ (MaxFailures + 1) * InProgress = MaxFailures * InProgress + InProgress
        /\ Len(s) * InProgress \in Nat
        /\ MaxFailures * InProgress \in Nat
    BY <1>2, InProgressType, Times DEF LimitsType
  <1>9. PICK l \in Nat : l = Len(s) * InProgress
    BY <1>8
  <1>10. PICK m \in Nat : m = MaxFailures * InProgress
    BY <1>8
  <1>11. Cardinality(Young) <= (MaxFailures + 1) * InProgress - 1
    <2>1. Len(w) - z <= l + u /\ l <= m
      BY <1>7, <1>8, <1>9, <1>10
    <2>2. Cardinality(Young) <= m + InProgress - 1
      <3>1. PICK n \in Nat : n = Len(w)
        BY <1>2
      <3>2. PICK a \in Nat \ {0} : a = InProgress
        BY InProgressType
      <3>3. PICK c \in Nat : c = Cardinality(Young)
        BY <1>6
      <3>4. u \in 0..(a - 1) /\ z \in 0..n /\ c <= n - z /\ n - z <= l + u /\ l <= m
        BY <1>6, <2>1, <3>1, <3>2, <3>3
      <3>5. c <= m + a - 1
        BY <3>4
      <3> QED BY <3>2, <3>3, <3>5
    <2>3. PICK b : b = (MaxFailures + 1) * InProgress
      OBVIOUS
    <2>4. b = m + InProgress
      BY <1>8, <1>10, <2>3
    <2>5. Cardinality(Young) <= b - 1
      BY <1>6, <2>2, <2>4, InProgressType
    <2> QED BY <2>3, <2>5
  <1> QED BY <1>11 DEF Young

-----------------------------------------------------------------------------
(* The steps of the limiter against what is spent.                         *)

LEMMA PendingCount ==
    ASSUME AttemptsType, NEW k
    PROVE  IsFiniteSet(Pending(k)) /\ Cardinality(Pending(k)) \in Nat
  <1>1. Pending(k) \subseteq Attempts
    BY DEF Pending
  <1> QED BY <1>1, FS_Subset, FS_CardinalityType DEF AttemptsType

(* Fewer pending attempts are no more.                                     *)
LEMMA PendingFewer ==
    ASSUME AttemptsType, NEW k, Pending(k)' \subseteq Pending(k)
    PROVE  /\ Cardinality(Pending(k)') \in Nat
           /\ Cardinality(Pending(k)') <= Cardinality(Pending(k))
  <1>1. IsFiniteSet(Pending(k)) /\ Cardinality(Pending(k)) \in Nat
    BY PendingCount
  <1> QED BY <1>1, FS_Subset, FS_CardinalityType

(* One that reports its failure is one less.                               *)
LEMMA PendingOneLess ==
    ASSUME AttemptsType, NEW k, NEW a \in Pending(k), Pending(k)' = Pending(k) \ {a}
    PROVE  /\ Cardinality(Pending(k)') \in Nat
           /\ Cardinality(Pending(k)') = Cardinality(Pending(k)) - 1
           /\ Cardinality(Pending(k)) \in Nat
           /\ Cardinality(Pending(k)) <= InProgress
  <1>1. IsFiniteSet(Pending(k)) /\ Cardinality(Pending(k)) \in Nat
    BY PendingCount
  <1>2. /\ IsFiniteSet(Pending(k) \ {a})
        /\ Cardinality(Pending(k) \ {a}) = Cardinality(Pending(k)) - 1
    BY <1>1, FS_RemoveElement
  <1>3. Pending(k) \subseteq Attempts
    BY DEF Pending
  <1>4. Cardinality(Pending(k)) <= InProgress
    BY <1>3, FS_Subset DEF AttemptsType, InProgress
  <1> QED BY <1>1, <1>2, <1>4, FS_CardinalityType

LEMMA TableSequences ==
    ASSUME AttemptsType, Control, Table, NEW k \in Keys
    PROVE  /\ failures[k] \in Seq(Nat) /\ wrong[k] \in Seq(Nat)
           /\ clock \in Nat
           /\ Len(failures[k]) \in Nat
           /\ Len(failures[k]) <= MaxFailures
           /\ Ordered(wrong[k])
  <1>1. clock \in Nat /\ failures[k] \in Seq(0..clock) /\ wrong[k] \in Seq(0..clock)
    BY DEF Control, Table, Tables, AttemptsType
  <1>2. failures[k] \in Seq(Nat) /\ wrong[k] \in Seq(Nat)
    BY <1>1, SeqOfNat
  <1> QED BY <1>1, <1>2 DEF Table, Bounded, Deques

(* What leaves a deque and its history alone and admits nobody.            *)
LEMMA SpentKept ==
    ASSUME LimitsType, AttemptsType, Control, Table, NEW k \in Keys, Spent(k),
           failures'[k] = failures[k], wrong'[k] = wrong[k],
           clock' \in Nat, clock <= clock', Pending(k)' \subseteq Pending(k)
    PROVE  Spent(k)'
  <1>1. PICK u \in 0..(InProgress - 1) :
            /\ Placed(failures[k], wrong[k], clock, u)
            /\ Len(failures[k]) = MaxFailures /\ ~Old(failures[k][1], clock)
                  => u + Cardinality(Pending(k)) <= InProgress - 1
    BY DEF Spent
  <1>2. InProgress \in Nat \ {0} /\ u \in Nat
    BY InProgressType
  <1>3. PICK s, w, v : s = failures[k] /\ w = wrong[k] /\ v = clock'
    OBVIOUS
  <1>4. s \in Seq(Nat) /\ w \in Seq(Nat) /\ clock \in Nat /\ v \in Nat /\ clock <= v
    BY <1>3, TableSequences
  <1>5. Placed(s, w, v, u)
    BY <1>1, <1>2, <1>3, <1>4, PlacedLater
  <1>6. ASSUME Len(s) = MaxFailures, ~Old(s[1], v)
        PROVE  u + Cardinality(Pending(k)') <= InProgress - 1
    <2>1. s[1] \in Nat
      <3>1. 1 \in 1..Len(s)
        BY <1>6 DEF LimitsType
      <3> QED BY <1>4, <3>1, ElementOfSeq
    <2>2. ~Old(s[1], clock)
      BY <1>4, <1>6, <2>1, OldLater
    <2>3. u + Cardinality(Pending(k)) <= InProgress - 1
      BY <1>1, <1>3, <1>6, <2>2
    <2>4. /\ Cardinality(Pending(k)) \in Nat /\ Cardinality(Pending(k)') \in Nat
          /\ Cardinality(Pending(k)') <= Cardinality(Pending(k))
      BY PendingCount, PendingFewer
    <2> QED BY <1>2, <2>3, <2>4
  <1>7. /\ Placed(failures'[k], wrong'[k], clock', u)
        /\ Len(failures'[k]) = MaxFailures /\ ~Old(failures'[k][1], clock')
              => u + Cardinality(Pending(k)') <= InProgress - 1
    BY <1>3, <1>5, <1>6
  <1> QED BY <1>7 DEF Spent, Placed, PlacedBy, Old, InProgress

(* Pruning, when nobody is admitted or the deque has room.                 *)
LEMMA SpentPruned ==
    ASSUME LimitsType, AttemptsType, Control, Table, NEW k \in Keys, Spent(k),
           NEW t \in Nat, t <= clock, failures'[k] = Pruned(t)[k],
           wrong'[k] = wrong[k], clock' = clock,
           ~(Len(Pruned(t)[k]) >= MaxFailures) \/ Pending(k)' \subseteq Pending(k)
    PROVE  Spent(k)'
  <1>1. PICK u \in 0..(InProgress - 1) :
            /\ Placed(failures[k], wrong[k], clock, u)
            /\ Len(failures[k]) = MaxFailures /\ ~Old(failures[k][1], clock)
                  => u + Cardinality(Pending(k)) <= InProgress - 1
    BY DEF Spent
  <1>2. InProgress \in Nat \ {0} /\ u \in Nat
    BY InProgressType
  <1>3. PICK s, w, p : s = failures[k] /\ w = wrong[k] /\ p = PopOld(s, t)
    OBVIOUS
  <1>4. /\ s \in Seq(Nat) /\ w \in Seq(Nat) /\ clock \in Nat
        /\ Len(s) \in Nat /\ Len(s) <= MaxFailures
    BY <1>3, TableSequences
  <1>5. failures'[k] = p /\ Pruned(t)[k] = p
    BY <1>3 DEF Pruned
  <1>6. Placed(p, w, clock, u)
    BY <1>1, <1>2, <1>3, <1>4, PlacedPop
  <1>7. PICK n \in 0..Len(s) :
              /\ Len(p) = Len(s) - n
              /\ \A i \in 1..(Len(s) - n) : p[i] = s[n + i]
    <2>1. PICK n \in 0..Len(s) :
              /\ Poppable(s, t, n)
              /\ PopOld(s, t) \in Seq(Nat)
              /\ Len(PopOld(s, t)) = Len(s) - n
              /\ \A i \in 1..(Len(s) - n) : PopOld(s, t)[i] = s[n + i]
      BY <1>4, PopOldIs
    <2> QED BY <1>3, <2>1
  <1>8. ASSUME Len(p) = MaxFailures, ~Old(p[1], clock)
        PROVE  u + Cardinality(Pending(k)') <= InProgress - 1
    <2>1. n = 0 /\ Len(s) = MaxFailures /\ 1 \in 1..(Len(s) - n)
      BY <1>4, <1>7, <1>8 DEF LimitsType
    <2>2. p[1] = s[1]
      <3>1. p[1] = s[n + 1] /\ n + 1 = 1
        BY <1>7, <2>1
      <3> QED BY <3>1
    <2>3. u + Cardinality(Pending(k)) <= InProgress - 1
      BY <1>1, <1>3, <1>8, <2>1, <2>2
    <2>4. Pending(k)' \subseteq Pending(k)
      BY <1>5, <1>8 DEF LimitsType
    <2>5. /\ Cardinality(Pending(k)) \in Nat /\ Cardinality(Pending(k)') \in Nat
          /\ Cardinality(Pending(k)') <= Cardinality(Pending(k))
      BY <2>4, PendingCount, PendingFewer
    <2> QED BY <1>2, <2>3, <2>5
  <1>9. /\ Placed(failures'[k], wrong'[k], clock', u)
        /\ Len(failures'[k]) = MaxFailures /\ ~Old(failures'[k][1], clock')
              => u + Cardinality(Pending(k)') <= InProgress - 1
    BY <1>3, <1>5, <1>6, <1>8
  <1> QED BY <1>9 DEF Spent, Placed, PlacedBy, Old, InProgress

(* A reported failure of a key that keeps a place is recorded, or is one   *)
(* of those that were pending when the deque filled up.                    *)
LEMMA SpentRecorded ==
    ASSUME LimitsType, AttemptsType, Control, Table,
           NEW a \in Attempts, Record(a), NEW k \in Keys, key[a] = k,
           Spent(k), k \notin lost'
    PROVE  Spent(k)'
  <1>1. k = key[a]
    OBVIOUS
  <1>2. PICK u \in 0..(InProgress - 1) :
            /\ Placed(failures[k], wrong[k], clock, u)
            /\ Len(failures[k]) = MaxFailures /\ ~Old(failures[k][1], clock)
                  => u + Cardinality(Pending(k)) <= InProgress - 1
    BY <1>1 DEF Spent
  <1>3. PICK s, w, p : s = failures[k] /\ w = wrong[k] /\ p = PopOld(s, clock)
    OBVIOUS
  <1>4. /\ s \in Seq(Nat) /\ w \in Seq(Nat) /\ clock \in Nat
        /\ Len(s) \in Nat /\ Len(s) <= MaxFailures
        /\ clock \in 0..clock
    BY <1>3, TableSequences
  <1>5. PICK n \in 0..Len(s) :
            /\ Poppable(s, clock, n)
            /\ p \in Seq(Nat)
            /\ Len(p) = Len(s) - n
            /\ \A i \in 1..(Len(s) - n) : p[i] = s[n + i]
    <2>1. PICK n \in 0..Len(s) :
              /\ Poppable(s, clock, n)
              /\ PopOld(s, clock) \in Seq(Nat)
              /\ Len(PopOld(s, clock)) = Len(s) - n
              /\ \A i \in 1..(Len(s) - n) : PopOld(s, clock)[i] = s[n + i]
      BY <1>4, PopOldIs
    <2> QED BY <1>3, <2>1
  <1>6. Placed(p, w, clock, u)
    <2>1. u \in Nat
      BY InProgressType
    <2> QED BY <1>2, <1>3, <1>4, <2>1, PlacedPop
  <1>7. /\ clock' = clock
        /\ wrong'[k] = Append(w, clock)
        /\ key' = key /\ pc[a] = "failed" /\ pc' = [pc EXCEPT ![a] = "idle"]
        /\ failures'[k] # <<>>
        /\ RecordFailure(k, clock)
    BY <1>1, <1>3 DEF Record, Goto, Table, Tables
  <1>8. Pruned(clock)[k] = p
    BY <1>3 DEF Pruned
  <1>9. a \in Pending(k) /\ Pending(k)' = Pending(k) \ {a}
    BY <1>1, <1>7 DEF Pending, Control
  <1>10. /\ Cardinality(Pending(k)') \in Nat
         /\ Cardinality(Pending(k)') = Cardinality(Pending(k)) - 1
         /\ Cardinality(Pending(k)) \in Nat
         /\ Cardinality(Pending(k)) <= InProgress
    BY <1>9, PendingOneLess
  <1>11. CASE failures'[k] = Append(p, clock)
    <2>1. Placed(Append(p, clock), Append(w, clock), clock, 0)
      BY <1>4, <1>5, <1>6, PlacedRecorded
    <2>2. 0 \in 0..(InProgress - 1) /\ 0 + Cardinality(Pending(k)') <= InProgress - 1
      BY <1>10, InProgressType
    <2>3. Placed(failures'[k], wrong'[k], clock', 0)
      BY <1>7, <1>11, <2>1
    <2> QED BY <1>1, <1>7, <2>2, <2>3 DEF Spent, Placed, PlacedBy, Old, InProgress
  <1>12. CASE failures'[k] = p /\ Len(p) >= MaxFailures
    <2>1. Len(s) = MaxFailures /\ n = 0 /\ 1 \in 1..Len(s) /\ 0 < Len(s)
      BY <1>4, <1>5, <1>12 DEF LimitsType
    <2>2. ~Old(s[1], clock)
      <3>1. 0 + 1 = 1
        OBVIOUS
      <3> QED BY <1>5, <2>1, <3>1 DEF Poppable
    <2>3. u + Cardinality(Pending(k)) <= InProgress - 1
      BY <1>2, <1>3, <2>1, <2>2
    <2>4. /\ u + 1 \in 0..(InProgress - 1)
          /\ (u + 1) + Cardinality(Pending(k)') <= InProgress - 1
      BY <1>10, <2>3, InProgressType
    <2>5. Placed(p, Append(w, clock), clock, u + 1)
      <3>1. u \in Nat
        BY InProgressType
      <3> QED BY <1>4, <1>5, <1>6, <3>1, PlacedUnrecorded
    <2>6. Placed(failures'[k], wrong'[k], clock', u + 1)
      BY <1>7, <1>12, <2>5
    <2> QED BY <1>1, <1>7, <2>4, <2>6 DEF Spent, Placed, PlacedBy, Old, InProgress
  <1>13. \/ failures'[k] = Append(p, clock)
         \/ failures'[k] = p /\ Len(p) >= MaxFailures
    <2>1. PICK q : q = Pruned(clock)
      OBVIOUS
    <2>2. q[k] = p /\ DOMAIN q = Keys
      BY <1>8, <2>1 DEF Pruned
    <2>3. CASE Len(p) >= MaxFailures
      <3>1. failures' = q
        BY <1>7, <2>1, <2>2, <2>3 DEF RecordFailure
      <3> QED BY <2>2, <2>3, <3>1
    <2>4. CASE Full(q) /\ k \notin Recorded(q)
      <3>1. failures' = q /\ q[k] = <<>>
        BY <1>7, <2>1, <2>4 DEF RecordFailure, Recorded
      <3> QED BY <1>7, <3>1
    <2>5. CASE ~(Len(p) >= MaxFailures) /\ ~(Full(q) /\ k \notin Recorded(q))
      <3>1. failures' = [q EXCEPT ![k] = Append(q[k], clock)]
        BY <1>7, <2>1, <2>2, <2>5 DEF RecordFailure
      <3>2. failures'[k] = Append(q[k], clock)
        BY <2>2, <3>1
      <3> QED BY <2>2, <3>2
    <2> QED BY <2>3, <2>4, <2>5
  <1> QED BY <1>1, <1>11, <1>12, <1>13
(* After a success nothing is spent.                                       *)
LEMMA SpentCleared ==
    ASSUME LimitsType, AttemptsType, NEW k \in Keys,
           failures'[k] = <<>>, wrong'[k] = <<>>
    PROVE  Spent(k)'
  <1>1. PICK v : v = clock'
    OBVIOUS
  <1>2. Placed(<<>>, <<>>, v, 0)
    BY PlacedEmpty
  <1>3. Placed(failures'[k], wrong'[k], clock', 0)
    BY <1>1, <1>2
  <1>4. 0 \in 0..(InProgress - 1)
    BY InProgressType
  <1>5. Len(<<>>) # MaxFailures
    BY DEF LimitsType
  <1>6. Len(failures'[k]) # MaxFailures
    BY <1>5
  <1> QED BY <1>3, <1>4, <1>6 DEF Spent, Placed, PlacedBy, Old, InProgress

LEMMA InitSpending == Init => Spending
  <1> SUFFICES ASSUME Init, NEW k \in Keys
               PROVE  Spent(k)
    BY DEF Spending
  <1> USE LimitsType, AttemptsType
  <1>1. failures[k] = <<>> /\ wrong[k] = <<>>
    BY DEF Init, FailuresInit
  <1>2. Placed(<<>>, <<>>, clock, 0)
    BY PlacedEmpty
  <1>3. 0 \in 0..(InProgress - 1) /\ Len(<<>>) # MaxFailures
    BY InProgressType DEF LimitsType
  <1>4. Placed(failures[k], wrong[k], clock, 0) /\ Len(failures[k]) # MaxFailures
    BY <1>1, <1>2, <1>3
  <1> QED BY <1>3, <1>4 DEF Spent

LEMMA NextSpending == IInv /\ Spending /\ [Next]_vars => Spending'
  <1> SUFFICES ASSUME Control, Table, Spending, [Next]_vars,
                      NEW k \in Keys, k \notin lost'
               PROVE  Spent(k)'
    BY DEF IInv, Spending
  <1> USE LimitsType, AttemptsType
  <1>1. clock \in Nat
    BY DEF Control, AttemptsType
  <1>2. CASE Tick
    <2>1. Spent(k)
      BY <1>2 DEF Tick, Spending
    <2> QED BY <1>1, <1>2, <2>1, SpentKept DEF Tick, Pending
  <1>3. ASSUME NEW a \in Attempts, NEW j \in Keys, Begin(a, j)
        PROVE  Spent(k)'
    <2>1. Spent(k)
      BY <1>3 DEF Begin, Spending
    <2>2. Pending(k)' \subseteq Pending(k)
      BY <1>3 DEF Begin, Goto, Pending, Control
    <2> QED BY <1>1, <1>3, <2>1, <2>2, SpentKept DEF Begin
  <1>4. ASSUME NEW a \in Attempts, Refuse(a)
        PROVE  Spent(k)'
    <2>1. Spent(k)
      BY <1>4 DEF Refuse, Spending
    <2>2. Pending(k)' \subseteq Pending(k)
      BY <1>4 DEF Refuse, Goto, Pending, Control
    <2>3. now[a] \in Nat /\ now[a] <= clock
      BY DEF Control, AttemptsType
    <2> QED BY <1>4, <2>1, <2>2, <2>3, SpentPruned DEF Refuse, CheckLimit
  <1>5. ASSUME NEW a \in Attempts, Admit(a)
        PROVE  Spent(k)'
    <2>1. Spent(k)
      BY <1>5 DEF Admit, Spending
    <2>2. key[a] # k => Pending(k)' \subseteq Pending(k)
      BY <1>5 DEF Admit, Goto, Pending, Control
    <2>3. now[a] \in Nat /\ now[a] <= clock
      BY DEF Control, AttemptsType
    <2>4. key[a] = k => ~(Len(Pruned(now[a])[k]) >= MaxFailures)
      BY <1>5 DEF Admit, CheckLimit, Limited
    <2> QED BY <1>5, <2>1, <2>2, <2>3, <2>4, SpentPruned DEF Admit, CheckLimit
  <1>6. ASSUME NEW a \in Attempts, Verify(a) \/ Disconnect(a)
        PROVE  Spent(k)'
    <2>1. Spent(k)
      BY <1>6 DEF Verify, Disconnect, Spending
    <2>2. Pending(k)' \subseteq Pending(k)
      BY <1>6 DEF Verify, Disconnect, Goto, Pending, Control
    <2> QED BY <1>1, <1>6, <2>1, <2>2, SpentKept DEF Verify, Disconnect
  <1>7. ASSUME NEW a \in Attempts, Record(a)
        PROVE  Spent(k)'
    <2>1. Spent(k)
      BY <1>7 DEF Record, Spending
    <2>2. CASE key[a] = k
      BY <1>7, <2>1, <2>2, SpentRecorded
    <2>3. CASE key[a] # k
      <3>1. Pending(k)' \subseteq Pending(k)
        BY <1>7 DEF Record, Goto, Pending, Control
      <3>2. key[a] \in Keys /\ clock \in 0..clock
        BY <1>1 DEF Control
      <3>3. failures'[k] = Pruned(clock)[k]
        BY <1>7, <2>3, <3>2, RecordIs DEF Record, Table
      <3>4. wrong'[k] = wrong[k] /\ clock' = clock
        BY <1>7, <2>3 DEF Record, Table, Tables
      <3> QED BY <1>1, <2>1, <3>1, <3>3, <3>4, SpentPruned
    <2> QED BY <2>2, <2>3
  <1>8. ASSUME NEW a \in Attempts, Clear(a)
        PROVE  Spent(k)'
    <2>1. CASE key[a] = k
      <3>1. failures'[k] = <<>> /\ wrong'[k] = <<>>
        BY <1>8, <2>1 DEF Clear, ClearFailures, Table, Tables
      <3> QED BY <3>1, SpentCleared
    <2>2. CASE key[a] # k
      <3>1. Spent(k)
        BY <1>8, <2>2 DEF Clear, Spending
      <3>2. Pending(k)' \subseteq Pending(k)
        BY <1>8 DEF Clear, Goto, Pending, Control
      <3>3. failures'[k] = failures[k] /\ wrong'[k] = wrong[k] /\ clock' = clock
        BY <1>8, <2>2 DEF Clear, ClearFailures, Table, Tables
      <3> QED BY <1>1, <3>1, <3>2, <3>3, SpentKept
    <2> QED BY <2>1, <2>2
  <1>9. CASE UNCHANGED vars
    <2>1. Spent(k)
      BY <1>9 DEF vars, Spending
    <2> QED BY <1>1, <1>9, <2>1, SpentKept DEF vars, Pending
  <1> QED BY <1>2, <1>3, <1>4, <1>5, <1>6, <1>7, <1>8, <1>9 DEF Next

(* However many attempts run side by side, and however the checks, hashes  *)
(* and records of their handlers interleave, a pair that was never left    *)
(* without a place is told of no more wrong passwords within a window than *)
(* MaxFailures + 1 rounds of all the attempts that can be in progress.     *)
THEOREM FailuresAreBounded == Spec => []FailuresBounded
  <1>1. IInv /\ Spending => FailuresBounded
    <2> SUFFICES ASSUME Control, Table, Spending, NEW k \in Keys \ lost
                 PROVE  Cardinality(YoungWrong(k, clock))
                           <= (MaxFailures + 1) * Cardinality(Attempts) - 1
      BY DEF IInv, FailuresBounded
    <2>1. PICK u \in 0..(InProgress - 1) : Placed(failures[k], wrong[k], clock, u)
      BY DEF Spending, Spent
    <2>2. /\ failures[k] \in Seq(Nat) /\ wrong[k] \in Seq(Nat) /\ clock \in Nat
          /\ Len(failures[k]) <= MaxFailures /\ Ordered(wrong[k])
      BY AttemptsType, TableSequences
    <2>3. Cardinality({i \in DOMAIN wrong[k] : ~Old(wrong[k][i], clock)})
             <= (MaxFailures + 1) * InProgress - 1
      BY <2>1, <2>2, LimitsType, AttemptsType, PlacedBounds
    <2> QED BY <2>3 DEF YoungWrong, InProgress
  <1> QED BY <1>1, InitSpending, NextSpending, Invariant, PTL DEF Spec
=============================================================================
