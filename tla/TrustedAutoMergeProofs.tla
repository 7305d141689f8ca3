----------------------- MODULE TrustedAutoMergeProofs -----------------------
(***************************************************************************)
(* What the script merges and dispatches, for any pull requests, commits   *)
(* and checks.                                                             *)
(*                                                                         *)
(* The argument.  An approval of the bot names the commit whose checks the *)
(* script has seen to succeed, and GitHub merges only a head that somebody *)
(* has approved; so it matters only what has been approved, or is about to *)
(* be (Checked), not when auto-merge was enabled.  A merged pull request   *)
(* is not looked at again, so a run that has passed its look finds nothing *)
(* dispatched.  Of its reviews the script looks at the last of the bot:    *)
(* while all are on the page it reads, an approval of the head by the bot  *)
(* is that one, and a push in between has dismissed it (Approvals).  And   *)
(* whoever is ready to merge is in line, underway or done (Watched): an    *)
(* event that ends the wait of one either covers it or adds it to lost.    *)
(***************************************************************************)
EXTENDS TrustedAutoMerge, FiniteSetTheorems, TLAPS

Reviews ==
    [by : {"bot", "other"}, commit : Commits, state : {"APPROVED", "DISMISSED", "COMMENTED"}]

Runs == [pc : Phases, todo : SUBSET Prs, pr : Prs \cup {None}, sha : Commits \cup {NoCommit}]

Types ==
    /\ state \in [Prs -> {"open", "closed", "merged"}]
    /\ head \in [Prs -> Commits]
    /\ reported \in [Prs -> [Commits -> SUBSET Checks]]
    /\ \A p \in Prs, c \in Commits : green[p][c] \subseteq reported[p][c]
    /\ green \in [Prs -> [Commits -> SUBSET Checks]]
    /\ reviews \in [Prs -> Seq(Reviews)]
    /\ auto \in [Prs -> BOOLEAN]
    /\ dispatched \in [Prs -> Nat]
    /\ lost \subseteq Prs

Looking == {"idle", "list", "pr"}

(* A run, and the event that may wait behind it.                           *)
Shape(r, w) ==
    /\ r \in Runs
    /\ w \in Prs \cup {None, All}
    /\ r.pc = "idle" => w = None /\ r = NotRunning
    /\ (r.sha = NoCommit) = (r.pc \in Looking)
    /\ r.pr \notin r.todo
    /\ r.pc \notin {"idle", "list"} => r.pr \in Prs

(* What the bot has approved or is about to approve has had its checks in  *)
(* order, and so has what is merged, unless somebody else has approved it. *)
Checked ==
    /\ \A p \in Prs, c \in Commits : AllGreen(p, c) => <<p, c>> \in passed
    /\ \A p \in Prs : \A i \in DOMAIN reviews[p] :
          reviews[p][i].state = "APPROVED" =>
             reviews[p][i].by = "other" \/ <<p, reviews[p][i].commit>> \in passed
    /\ run.pc \in {"reviews", "approve", "merge"} => <<run.pr, run.sha>> \in passed
    /\ MergedWasChecked

Sparing ==
    /\ DispatchedOnce
    /\ run.pc \notin Looking => dispatched[run.pr] = 0
    /\ run.pc = "dispatch" => state[run.pr] = "merged"

IInv == Types /\ Shape(run, waiting) /\ Checked /\ Sparing

-----------------------------------------------------------------------------
(* Runs.                                                                   *)

LEMMA StartedShape ==
    ASSUME MergeAssumption, NEW event \in Prs \cup {None, All}
    PROVE  /\ Shape(Started(event), None)
           /\ Started(event).pc \in Looking
  BY DEF MergeAssumption, Shape, Started, NotRunning, Runs, Phases, Looking

LEMMA EndRunShape ==
    ASSUME MergeAssumption, Shape(run, waiting), EndRun
    PROVE  Shape(run', waiting') /\ run'.pc \in Looking
  BY StartedShape DEF EndRun, Shape

LEMMA NextPrShape ==
    ASSUME MergeAssumption, Shape(run, waiting), run.pc # "idle", NextPr
    PROVE  Shape(run', waiting') /\ run'.pc \in Looking
  <1>1. CASE EndRun
    BY <1>1, EndRunShape
  <1>2. ASSUME NEW p \in run.todo, UNCHANGED waiting,
               run' = [pc |-> "pr", todo |-> run.todo \ {p}, pr |-> p, sha |-> NoCommit]
        PROVE  Shape(run', waiting') /\ run'.pc \in Looking
    BY <1>2 DEF Shape, Runs, Phases, Looking
  <1> QED BY <1>1, <1>2 DEF NextPr

LEMMA GotoShape ==
    ASSUME MergeAssumption, Shape(run, waiting), run.pc \notin Looking,
           NEW pc \in Phases \ Looking, Goto(pc)
    PROVE  /\ Shape(run', waiting')
           /\ run'.pc = pc /\ run'.pr = run.pr /\ run'.sha = run.sha
  BY DEF Goto, Shape, Runs, Looking

LEMMA TriggerShape ==
    ASSUME MergeAssumption, Types, Shape(run, waiting), NEW event \in Prs \cup {All},
           Trigger(event)
    PROVE  /\ Shape(run', waiting')
           /\ run' = run \/ run'.pc \in Looking
           /\ lost' \subseteq Prs
  <1>1. CASE run.pc = "idle"
    BY <1>1, StartedShape DEF Trigger, Shape, Types
  <1>2. CASE run.pc # "idle"
    BY <1>2 DEF Trigger, Shape, Types, Covers
  <1> QED BY <1>1, <1>2

-----------------------------------------------------------------------------
(* The invariant is inductive.                                             *)

(* A step that changes no head, check, review or merge.                    *)
LEMMA CheckedKept ==
    ASSUME Checked, UNCHANGED <<head, reported, green, reviews, passed>>,
           \A p \in Prs : state'[p] = "merged" => state[p] = "merged",
           run'.pc \in {"reviews", "approve", "merge"} => <<run'.pr, run'.sha>> \in passed
    PROVE  Checked'
  BY DEF Checked, MergedWasChecked, AllGreen, ApprovedBy, Approves

(* A step that leaves GitHub alone, and a run that has looked at nothing.  *)
LEMMA LookingStep ==
    ASSUME IInv, UNCHANGED <<state, head, reported, green, reviews, auto, dispatched, passed>>,
           lost' \subseteq Prs, Shape(run', waiting'), run'.pc \in Looking
    PROVE  IInv'
  <1>1. run'.pc \notin {"reviews", "approve", "merge", "dispatch"}
    BY DEF Looking
  <1>2. Checked'
    BY <1>1, CheckedKept DEF IInv
  <1> QED BY <1>1, <1>2 DEF IInv, Types, Sparing, DispatchedOnce

LEMMA RunAt ==
    ASSUME IInv, run.pc \notin {"idle", "list"}
    PROVE  /\ run.pr \in Prs
           /\ run.pc \notin Looking => run.sha \in Commits
  BY DEF IInv, Shape, Runs

LEMMA ReadStep ==
    ASSUME MergeAssumption, IInv, \/ List \/ ReadPr \/ ReadChecks \/ ReadReviews
                                  \/ ReadMerged \/ CallFails
    PROVE  IInv'
  <1> USE MergeAssumption
  <1>1. CASE List
    <2>1. Shape(run', waiting') /\ run'.pc \in Looking
      <3>1. CASE EndRun
        BY <3>1, EndRunShape DEF IInv
      <3>2. ASSUME NEW p \in Prs, NEW todo \in SUBSET Prs, UNCHANGED waiting,
                   run' = [pc |-> "pr", todo |-> todo \ {p}, pr |-> p, sha |-> NoCommit]
            PROVE  Shape(run', waiting') /\ run'.pc \in Looking
        BY <3>2 DEF IInv, Shape, Runs, Phases, Looking
      <3> QED BY <1>1, <3>1, <3>2 DEF List
    <2> QED BY <1>1, <2>1, LookingStep DEF List, github, IInv, Types
  <1>2. CASE ReadPr
    <2>1. CASE NextPr
      <3>1. Shape(run', waiting') /\ run'.pc \in Looking
        BY <1>2, <2>1, NextPrShape DEF ReadPr, IInv
      <3> QED BY <1>2, <3>1, LookingStep DEF ReadPr, github, IInv, Types
    <2>2. CASE /\ Eligible(run.pr) /\ UNCHANGED waiting
               /\ run' = [run EXCEPT !.pc = "checks", !.sha = head[run.pr]]
      <3>1. run.pr \in Prs /\ head[run.pr] \in Commits /\ head[run.pr] # NoCommit
        BY <1>2, RunAt DEF ReadPr, IInv, Types, MergeAssumption
      <3>2. Shape(run', waiting') /\ run'.pc = "checks" /\ run'.pr = run.pr
        <4>1. PICK c : c = head[run.pr] /\ c \in Commits /\ c # NoCommit
          BY <3>1
        <4>2. run' = [pc |-> "checks", todo |-> run.todo, pr |-> run.pr, sha |-> c]
          BY <2>2, <4>1 DEF IInv, Shape, Runs
        <4>3. /\ run.todo \in SUBSET Prs /\ run.pr \notin run.todo
              /\ waiting' \in Prs \cup {None, All}
          BY <2>2 DEF IInv, Shape, Runs
        <4> QED BY <3>1, <4>1, <4>2, <4>3 DEF Shape, Runs, Phases, Looking
      <3>3. dispatched[run.pr] = 0
        <4>1. state[run.pr] # "merged"
          BY <2>2 DEF Eligible
        <4>2. dispatched[run.pr] <= 0
          BY <3>1, <4>1 DEF IInv, Sparing, DispatchedOnce
        <4> QED BY <3>1, <4>2 DEF IInv, Types
      <3>4. Checked'
        BY <1>2, <3>2, <3>3, CheckedKept DEF ReadPr, github, IInv
      <3> QED BY <1>2, <3>2, <3>3, <3>4 DEF ReadPr, github, IInv,
                                            Types, Sparing, DispatchedOnce, Looking
    <2> QED BY <1>2, <2>1, <2>2 DEF ReadPr
  <1>3. CASE ReadChecks
    <2>1. CASE NextPr
      <3>1. Shape(run', waiting') /\ run'.pc \in Looking
        BY <1>3, <2>1, NextPrShape DEF ReadChecks, IInv
      <3> QED BY <1>3, <3>1, LookingStep DEF ReadChecks, github, IInv, Types
    <2>2. CASE ChecksPassed(run.pr, run.sha) /\ Goto("reviews")
      <3>1. run.pr \in Prs /\ run.sha \in Commits /\ run.pc \notin Looking
        BY <1>3, RunAt DEF ReadChecks, Looking
      <3>2. <<run.pr, run.sha>> \in passed
        BY <2>2, <3>1 DEF ChecksPassed, IInv, Checked
      <3>3. "reviews" \in Phases \ Looking
        BY DEF Phases, Looking
      <3>4. /\ Shape(run', waiting')
            /\ run'.pc = "reviews" /\ run'.pr = run.pr /\ run'.sha = run.sha
        BY <2>2, <3>1, <3>3, GotoShape DEF IInv
      <3>5. Checked'
        BY <1>3, <3>1, <3>2, <3>4, CheckedKept DEF ReadChecks, github, IInv
      <3> QED BY <1>3, <3>1, <3>2, <3>4, <3>5 DEF ReadChecks, github, IInv,
                                                  Types, Sparing, DispatchedOnce
    <2> QED BY <1>3, <2>1, <2>2 DEF ReadChecks
  <1>4. CASE ReadReviews
    <2>1. run.pc \notin Looking
      BY <1>4 DEF ReadReviews, Looking
    <2>2. PICK pc \in {"merge", "approve"} : Goto(pc)
      BY <1>4 DEF ReadReviews
    <2>3. pc \in Phases \ Looking
      BY DEF Phases, Looking
    <2>4. /\ Shape(run', waiting')
          /\ run'.pc = pc /\ run'.pr = run.pr /\ run'.sha = run.sha
      BY <2>1, <2>2, <2>3, GotoShape DEF IInv
    <2>5. Checked'
      BY <1>4, <2>1, <2>4, CheckedKept DEF ReadReviews, github, IInv, Checked
    <2> QED BY <1>4, <2>1, <2>4, <2>5 DEF ReadReviews, github, IInv, Types, Sparing, DispatchedOnce
  <1>5. CASE ReadMerged
    <2>1. CASE NextPr
      <3>1. Shape(run', waiting') /\ run'.pc \in Looking
        BY <1>5, <2>1, NextPrShape DEF ReadMerged, IInv
      <3> QED BY <1>5, <3>1, LookingStep DEF ReadMerged, github, IInv, Types
    <2>2. CASE state[run.pr] = "merged" /\ Goto("dispatch")
      <3>1. run.pc \notin Looking
        BY <1>5 DEF ReadMerged, Looking
      <3>2. "dispatch" \in Phases \ Looking
        BY DEF Phases, Looking
      <3>3. Shape(run', waiting') /\ run'.pc = "dispatch" /\ run'.pr = run.pr
        BY <2>2, <3>1, <3>2, GotoShape DEF IInv
      <3>4. Checked'
        BY <1>5, <2>2, <3>1, <3>3, CheckedKept DEF ReadMerged, github, IInv
      <3> QED BY <1>5, <2>2, <3>1, <3>3, <3>4 DEF ReadMerged, github, IInv,
                                                  Types, Sparing, DispatchedOnce
    <2> QED BY <1>5, <2>1, <2>2 DEF ReadMerged
  <1>6. CASE CallFails
    <2>1. Shape(run', waiting') /\ run'.pc \in Looking
      BY <1>6, EndRunShape DEF CallFails, Abort, IInv
    <2>2. lost' \subseteq Prs
      BY <1>6, RunAt DEF CallFails, Abort, IInv, Types, Shape, Runs
    <2> QED BY <1>6, <2>1, <2>2, LookingStep DEF CallFails, github
  <1> QED BY <1>1, <1>2, <1>3, <1>4, <1>5, <1>6

(* A review is added to a pull request.                                    *)
LEMMA ReviewIs ==
    ASSUME Types, NEW p \in Prs, NEW by \in {"bot", "other"}, NEW c \in Commits,
           NEW s \in {"APPROVED", "DISMISSED", "COMMENTED"}, Review(p, by, s, c)
    PROVE  /\ reviews' \in [Prs -> Seq(Reviews)]
           /\ \A q \in Prs : \A i \in DOMAIN reviews'[q] :
                 \/ i \in DOMAIN reviews[q] /\ reviews'[q][i] = reviews[q][i]
                 \/ /\ q = p /\ reviews'[q][i].by = by
                    /\ reviews'[q][i].state = s /\ reviews'[q][i].commit = c
           /\ \A q \in Prs : \A i \in DOMAIN reviews[q] :
                 i \in DOMAIN reviews'[q] /\ reviews'[q][i] = reviews[q][i]
  <1> DEFINE r == [by |-> by, state |-> s, commit |-> c]
  <1>1. r \in Reviews /\ r.by = by /\ r.state = s /\ r.commit = c
    BY DEF Reviews
  <1> HIDE DEF r
  <1>2. /\ reviews' = [reviews EXCEPT ![p] = Append(reviews[p], r)]
        /\ reviews \in [Prs -> Seq(Reviews)]
    BY DEF Review, Types, r
  <1>3. \A q \in Prs : reviews'[q] = IF q = p THEN Append(reviews[p], r) ELSE reviews[q]
    BY <1>2
  <1>4. ASSUME NEW t \in Seq(Reviews)
        PROVE  /\ Append(t, r) \in Seq(Reviews)
               /\ \A i \in DOMAIN Append(t, r) :
                     \/ i \in DOMAIN t /\ Append(t, r)[i] = t[i]
                     \/ Append(t, r)[i] = r
               /\ \A i \in DOMAIN t : i \in DOMAIN Append(t, r) /\ Append(t, r)[i] = t[i]
    BY <1>1
  <1> QED BY <1>1, <1>2, <1>3, <1>4

(* Whom somebody else has approved stays so under a further review.        *)
LEMMA ReviewKeepsMerged ==
    ASSUME IInv, UNCHANGED <<state, head, passed>>,
           \A q \in Prs : \A i \in DOMAIN reviews[q] :
              i \in DOMAIN reviews'[q] /\ reviews'[q][i] = reviews[q][i]
    PROVE  MergedWasChecked'
  <1> SUFFICES ASSUME NEW q \in Prs, state[q] = "merged"
               PROVE  <<q, head[q]>> \in passed \/ ApprovedBy(q, "other")'
    BY DEF MergedWasChecked
  <1>1. ApprovedBy(q, "other") => ApprovedBy(q, "other")'
    BY DEF ApprovedBy, Approves
  <1> QED BY <1>1 DEF IInv, Checked, MergedWasChecked

LEMMA ApproveStep ==
    ASSUME MergeAssumption, IInv, Approve
    PROVE  IInv'
  <1>1. /\ run.pr \in Prs /\ run.sha \in Commits /\ run.pc \notin Looking
        /\ <<run.pr, run.sha>> \in passed
    BY RunAt DEF Approve, Looking, IInv, Checked
  <1>2. /\ reviews' \in [Prs -> Seq(Reviews)]
        /\ \A q \in Prs : \A i \in DOMAIN reviews'[q] :
              \/ i \in DOMAIN reviews[q] /\ reviews'[q][i] = reviews[q][i]
              \/ q = run.pr /\ reviews'[q][i].commit = run.sha
        /\ \A q \in Prs : \A i \in DOMAIN reviews[q] :
              i \in DOMAIN reviews'[q] /\ reviews'[q][i] = reviews[q][i]
    BY <1>1, ReviewIs DEF Approve, IInv
  <1>3. "merge" \in Phases \ Looking
    BY DEF Phases, Looking
  <1>4. /\ Shape(run', waiting')
        /\ run'.pc = "merge" /\ run'.pr = run.pr /\ run'.sha = run.sha
    BY <1>1, <1>3, GotoShape DEF IInv, Approve
  <1>5. UNCHANGED <<state, head, reported, green, auto, dispatched, lost, passed>>
    BY DEF Approve
  <1>6. MergedWasChecked'
    BY <1>2, <1>5, ReviewKeepsMerged
  <1>7. Types'
    BY <1>2, <1>5 DEF IInv, Types
  <1>8. Checked'
    <2>1. \A p \in Prs, c \in Commits : AllGreen(p, c)' => <<p, c>> \in passed'
      BY <1>5 DEF IInv, Checked, AllGreen
    <2>2. \A p \in Prs : \A i \in DOMAIN reviews'[p] :
             reviews'[p][i].state = "APPROVED" =>
                reviews'[p][i].by = "other" \/ <<p, reviews'[p][i].commit>> \in passed'
      <3> SUFFICES ASSUME NEW p \in Prs, NEW i \in DOMAIN reviews'[p],
                          reviews'[p][i].state = "APPROVED"
                   PROVE  reviews'[p][i].by = "other" \/ <<p, reviews'[p][i].commit>> \in passed
        BY <1>5
      <3>1. CASE i \in DOMAIN reviews[p] /\ reviews'[p][i] = reviews[p][i]
        BY <3>1 DEF IInv, Checked
      <3>2. CASE p = run.pr /\ reviews'[p][i].commit = run.sha
        BY <1>1, <3>2
      <3> QED BY <1>2, <3>1, <3>2
    <2> QED BY <1>1, <1>4, <1>5, <1>6, <2>1, <2>2 DEF Checked
  <1>9. Sparing'
    BY <1>1, <1>4, <1>5 DEF IInv, Sparing, DispatchedOnce
  <1> QED BY <1>4, <1>7, <1>8, <1>9 DEF IInv

(* May be merged as far as MergedWasChecked goes.                          *)
Allowed(p) == <<p, head[p]>> \in passed \/ ApprovedBy(p, "other")

(* A protected head has an approval: the bot's, or somebody else's.        *)
LEMMA ProtectedAllowed ==
    ASSUME IInv, NEW p \in Prs, Protected(p)
    PROVE  Allowed(p)
  BY DEF IInv, Checked, Protected, Allowed, ApprovedBy, Approves

LEMMA MergedStep ==
    ASSUME IInv, NEW p \in Prs, Allowed(p),
           state' = [state EXCEPT ![p] = "merged"] \/ state' = state,
           auto' \in [Prs -> BOOLEAN],
           UNCHANGED <<head, reported, green, reviews, dispatched, lost, passed>>
    PROVE  Types' /\ MergedWasChecked' /\ DispatchedOnce'
  <1>1. \A q \in Prs : state'[q] = state[q] \/ (q = p /\ state'[q] = "merged")
    BY DEF IInv, Types
  <1>2. Types'
    BY DEF IInv, Types
  <1>3. MergedWasChecked'
    <2> SUFFICES ASSUME NEW q \in Prs, state'[q] = "merged"
                 PROVE  <<q, head[q]>> \in passed \/ ApprovedBy(q, "other")'
      BY DEF MergedWasChecked
    <2>1. ApprovedBy(q, "other") => ApprovedBy(q, "other")'
      BY DEF ApprovedBy, Approves
    <2> QED BY <1>1, <2>1 DEF IInv, Checked, MergedWasChecked, Allowed
  <1>4. DispatchedOnce'
    <2> SUFFICES ASSUME NEW q \in Prs
                 PROVE  dispatched'[q] <= IF state'[q] = "merged" THEN 1 ELSE 0
      BY DEF DispatchedOnce
    <2>1. dispatched[q] \in Nat /\ dispatched[q] <= IF state[q] = "merged" THEN 1 ELSE 0
      BY DEF IInv, Types, Sparing, DispatchedOnce
    <2> QED BY <1>1, <2>1
  <1> QED BY <1>2, <1>3, <1>4

LEMMA RequestMergeStep ==
    ASSUME MergeAssumption, IInv, RequestMerge
    PROVE  IInv'
  <1>1. /\ run.pr \in Prs /\ run.pc \notin Looking
        /\ <<run.pr, run.sha>> \in passed
    BY RunAt DEF RequestMerge, Looking, IInv, Checked
  <1>2. "merged" \in Phases \ Looking
    BY DEF Phases, Looking
  <1>3. Shape(run', waiting') /\ run'.pc = "merged" /\ run'.pr = run.pr
    BY <1>1, <1>2, GotoShape DEF IInv, RequestMerge
  <1>4. UNCHANGED <<head, reported, green, reviews, dispatched, lost, passed>>
    BY DEF RequestMerge
  <1>5. /\ Allowed(run.pr)
        /\ state' = [state EXCEPT ![run.pr] = "merged"] \/ state' = state
        /\ auto' \in [Prs -> BOOLEAN]
    BY <1>1 DEF RequestMerge, IInv, Types, Checked, MergedWasChecked, Allowed
  <1>6. Types' /\ MergedWasChecked' /\ DispatchedOnce'
    BY <1>1, <1>4, <1>5, MergedStep
  <1> QED BY <1>1, <1>3, <1>4, <1>6 DEF IInv, Checked, Sparing, AllGreen

LEMMA DispatchStep ==
    ASSUME MergeAssumption, IInv, Dispatch
    PROVE  IInv'
  <1>1. /\ run.pr \in Prs /\ run.pc \notin Looking /\ run.pc # "idle"
        /\ dispatched[run.pr] = 0 /\ state[run.pr] = "merged"
    BY RunAt DEF Dispatch, Looking, IInv, Sparing
  <1>2. Shape(run', waiting') /\ run'.pc \in Looking
    BY <1>1, NextPrShape DEF Dispatch, IInv
  <1>3. /\ dispatched' \in [Prs -> Nat]
        /\ \A q \in Prs : dispatched'[q] = IF q = run.pr THEN 1 ELSE dispatched[q]
    BY <1>1 DEF Dispatch, IInv, Types
  <1>4. DispatchedOnce'
    BY <1>1, <1>3 DEF Dispatch, github, IInv, Sparing, DispatchedOnce
  <1>5. run'.pc \notin {"reviews", "approve", "merge", "dispatch"}
    BY <1>2 DEF Looking
  <1>6. Checked'
    BY <1>5, CheckedKept DEF Dispatch, github, IInv
  <1> QED BY <1>2, <1>3, <1>4, <1>5, <1>6 DEF Dispatch, github, IInv, Types, Sparing

LEMMA OutsideStep ==
    ASSUME MergeAssumption, IInv, Outside
    PROVE  IInv'
  <1> USE MergeAssumption
  <1>1. ASSUME NEW p \in Prs, NEW c \in Commits, Push(p, c)
        PROVE  IInv'
    <2>1. /\ Shape(run', waiting') /\ lost' \subseteq Prs
          /\ run' = run \/ run'.pc \in Looking
      BY <1>1, TriggerShape DEF Push, IInv
    <2>2. head' \in [Prs -> Commits] /\ auto' \in [Prs -> BOOLEAN]
      BY <1>1 DEF Push, IInv, Types
    <2>3. UNCHANGED <<state, reported, green, dispatched, passed>>
      BY <1>1 DEF Push
    <2>4. /\ reviews' \in [Prs -> Seq(Reviews)]
          /\ \A q \in Prs : \A i \in DOMAIN reviews'[q] :
                /\ i \in DOMAIN reviews[q]
                /\ reviews'[q][i].state = "APPROVED" =>
                      reviews[q][i].state = "APPROVED" /\ reviews'[q][i] = reviews[q][i]
      <3> DEFINE dismissed == [i \in DOMAIN reviews[p] |-> Dismissed(reviews[p][i])]
      <3>1. ASSUME NEW r \in Reviews
            PROVE  /\ Dismissed(r) \in Reviews
                   /\ Dismissed(r).state # "APPROVED"
        BY DEF Reviews, Dismissed
      <3>2. reviews[p] \in Seq(Reviews)
        BY DEF IInv, Types
      <3>3. dismissed \in Seq(Reviews) /\ DOMAIN dismissed = DOMAIN reviews[p]
        <4>1. \A i \in DOMAIN reviews[p] : reviews[p][i] \in Reviews
          BY <3>2
        <4>2. dismissed \in [1..Len(reviews[p]) -> Reviews]
          BY <3>1, <3>2, <4>1
        <4>3. \A n \in Nat : \A f \in [1..n -> Reviews] : f \in Seq(Reviews)
          OBVIOUS
        <4> QED BY <3>2, <4>2, <4>3
      <3>4. \A i \in DOMAIN dismissed : dismissed[i].state # "APPROVED"
        BY <3>1, <3>2
      <3>5. \A q \in Prs : reviews'[q] = IF q = p THEN dismissed ELSE reviews[q]
        BY <1>1 DEF Push, IInv, Types
      <3>6. reviews' = [reviews EXCEPT ![p] = dismissed]
        BY <1>1 DEF Push
      <3> HIDE DEF dismissed
      <3>7. reviews' \in [Prs -> Seq(Reviews)]
        BY <3>3, <3>6 DEF IInv, Types
      <3> QED BY <3>3, <3>4, <3>5, <3>7
    <2>5. Types'
      BY <2>1, <2>2, <2>3, <2>4 DEF IInv, Types
    <2>6. MergedWasChecked'
      <3>1. \A q \in Prs : state[q] = "merged" => head'[q] = head[q] /\ reviews'[q] = reviews[q]
        BY <1>1 DEF Push, IInv, Types
      <3> QED BY <2>3, <3>1 DEF IInv, Checked, MergedWasChecked, ApprovedBy, Approves
    <2>7. Checked'
      BY <2>1, <2>3, <2>4, <2>6 DEF IInv, Checked, Looking, AllGreen
    <2>8. Sparing'
      BY <2>1, <2>3 DEF IInv, Sparing, DispatchedOnce, Looking
    <2> QED BY <2>1, <2>5, <2>7, <2>8 DEF IInv
  <1>2. ASSUME NEW p \in Prs, NEW c \in Commits, NEW k \in Checks, CheckStarts(p, c, k)
        PROVE  IInv'
    <2>1. /\ reported' \in [Prs -> [Commits -> SUBSET Checks]]
          /\ green' \in [Prs -> [Commits -> SUBSET Checks]]
      BY <1>2 DEF CheckStarts, IInv, Types
    <2>2. \A q \in Prs, d \in Commits :
             /\ reported'[q][d] = reported[q][d] \cup {x \in {k} : q = p /\ d = c}
             /\ green'[q][d] = green[q][d] \ {x \in {k} : q = p /\ d = c}
      BY <1>2 DEF CheckStarts, IInv, Types
    <2>3. \A q \in Prs, d \in Commits : green'[q][d] \subseteq reported'[q][d]
      BY <2>2 DEF IInv, Types
    <2>4. \A q \in Prs, d \in Commits : AllGreen(q, d)' => AllGreen(q, d)
      BY <2>2 DEF AllGreen
    <2>5. UNCHANGED <<state, head, reviews, auto, dispatched, run, waiting, lost, passed>>
      BY <1>2 DEF CheckStarts, actions
    <2>6. Types' /\ Sparing'
      BY <2>1, <2>3, <2>5 DEF IInv, Types, Sparing, DispatchedOnce
    <2>7. Checked'
      BY <2>4, <2>5 DEF IInv, Checked, MergedWasChecked, ApprovedBy, Approves
    <2> QED BY <2>5, <2>6, <2>7 DEF IInv
  <1>3. ASSUME NEW p \in Prs, NEW c \in Commits, NEW k \in Checks, NEW success \in BOOLEAN,
               CheckEnds(p, c, k, success)
        PROVE  IInv'
    <2>1. /\ Shape(run', waiting') /\ lost' \subseteq Prs
          /\ run' = run \/ run'.pc \in Looking
      BY <1>3, TriggerShape DEF CheckEnds, IInv
    <2>2. /\ reported' \in [Prs -> [Commits -> SUBSET Checks]]
          /\ green' \in [Prs -> [Commits -> SUBSET Checks]]
          /\ \A q \in Prs, d \in Commits : green'[q][d] \subseteq reported'[q][d]
      BY <1>3 DEF CheckEnds, IInv, Types
    <2>3. passed \subseteq passed'
      BY <1>3 DEF CheckEnds
    <2>4. \A q \in Prs, d \in Commits : AllGreen(q, d)' => <<q, d>> \in passed'
      <3> SUFFICES ASSUME NEW q \in Prs, NEW d \in Commits, AllGreen(q, d)'
                   PROVE  <<q, d>> \in passed'
        OBVIOUS
      <3>1. CASE q = p /\ d = c
        BY <1>3, <3>1 DEF CheckEnds
      <3>2. CASE ~(q = p /\ d = c)
        <4>1. green'[q][d] = green[q][d] /\ reported'[q][d] = reported[q][d]
          BY <1>3, <3>2 DEF CheckEnds, IInv, Types
        <4> QED BY <2>3, <4>1 DEF IInv, Checked, AllGreen
      <3> QED BY <3>1, <3>2
    <2>5. UNCHANGED <<state, head, reviews, auto, dispatched>>
      BY <1>3 DEF CheckEnds
    <2>6. Types'
      BY <2>1, <2>2, <2>5 DEF IInv, Types
    <2>7. Checked'
      BY <2>1, <2>3, <2>4, <2>5 DEF IInv, Checked, MergedWasChecked, ApprovedBy, Approves, Looking
    <2>8. Sparing'
      BY <2>1, <2>5 DEF IInv, Sparing, DispatchedOnce, Looking
    <2> QED BY <2>1, <2>6, <2>7, <2>8 DEF IInv
  <1>4. ASSUME NEW p \in Prs, Edit(p)
        PROVE  IInv'
    <2>1. /\ Shape(run', waiting') /\ lost' \subseteq Prs
          /\ run' = run \/ run'.pc \in Looking
      BY <1>4, TriggerShape DEF Edit, IInv
    <2>2. UNCHANGED <<state, head, reported, green, reviews, auto, dispatched, passed>>
      BY <1>4 DEF Edit, github
    <2>3. Checked'
      BY <2>1, <2>2, CheckedKept DEF IInv, Checked, Looking
    <2> QED BY <2>1, <2>2, <2>3 DEF IInv, Types, Sparing, DispatchedOnce, Looking
  <1>5. ASSUME NEW p \in Prs, Close(p)
        PROVE  IInv'
    <2>1. \A q \in Prs : state'[q] = "merged" <=> state[q] = "merged"
      BY <1>5 DEF Close, IInv, Types
    <2>2. Types'
      BY <1>5 DEF Close, actions, IInv, Types
    <2>3. run.pc = "dispatch" => run.pr \in Prs
      BY RunAt
    <2>4. Checked'
      BY <1>5, <2>1, CheckedKept DEF Close, actions, IInv, Checked
    <2> QED BY <1>5, <2>1, <2>2, <2>3, <2>4 DEF Close, actions, IInv, Sparing, DispatchedOnce
  <1>6. ASSUME NEW p \in Prs, Reopen(p)
        PROVE  IInv'
    <2>1. /\ Shape(run', waiting') /\ lost' \subseteq Prs
          /\ run' = run \/ run'.pc \in Looking
      BY <1>6, TriggerShape DEF Reopen, IInv
    <2>2. /\ UNCHANGED <<head, reported, green, reviews, dispatched, passed>>
          /\ state' \in [Prs -> {"open", "closed", "merged"}]
          /\ auto' \in [Prs -> BOOLEAN]
          /\ \A q \in Prs : state'[q] = "merged" <=> state[q] = "merged"
      BY <1>6 DEF Reopen, IInv, Types
    <2>3. Types'
      BY <2>1, <2>2 DEF IInv, Types
    <2>4. Checked'
      BY <2>1, <2>2, CheckedKept DEF IInv, Checked, Looking
    <2>5. run.pc = "dispatch" => run.pr \in Prs
      BY RunAt
    <2>6. Sparing'
      BY <2>1, <2>2, <2>5 DEF IInv, Sparing, DispatchedOnce, Looking
    <2> QED BY <2>1, <2>3, <2>4, <2>6 DEF IInv
  <1>7. ASSUME NEW p \in Prs, NEW by \in {"bot", "other"}, Comment(p, by) \/ ApproveByHand(p)
        PROVE  IInv'
    <2>1. /\ head[p] \in Commits
          /\ UNCHANGED <<state, head, reported, green, auto,
                        dispatched, run, waiting, lost, passed>>
      BY <1>7 DEF IInv, Types, Comment, ApproveByHand, actions
    <2>2. /\ reviews' \in [Prs -> Seq(Reviews)]
          /\ \A q \in Prs : \A i \in DOMAIN reviews'[q] :
                \/ i \in DOMAIN reviews[q] /\ reviews'[q][i] = reviews[q][i]
                \/ reviews'[q][i].state = "COMMENTED" \/ reviews'[q][i].by = "other"
          /\ \A q \in Prs : \A i \in DOMAIN reviews[q] :
                i \in DOMAIN reviews'[q] /\ reviews'[q][i] = reviews[q][i]
      <3>1. CASE Comment(p, by)
        BY <2>1, <3>1, ReviewIs DEF Comment, IInv
      <3>2. CASE ApproveByHand(p)
        BY <2>1, <3>2, ReviewIs DEF ApproveByHand, IInv
      <3> QED BY <1>7, <3>1, <3>2
    <2>3. MergedWasChecked'
      BY <2>1, <2>2, ReviewKeepsMerged
    <2>4. Types' /\ Sparing'
      BY <2>1, <2>2 DEF IInv, Types, Sparing, DispatchedOnce
    <2>5. Checked'
      BY <2>1, <2>2, <2>3 DEF IInv, Checked, AllGreen
    <2> QED BY <2>1, <2>4, <2>5 DEF IInv
  <1>8. ASSUME NEW p \in Prs, AutoMerge(p) \/ MergeByHand(p)
        PROVE  IInv'
    <2>1. Merge(p) /\ Allowed(p)
      BY <1>8, ProtectedAllowed DEF AutoMerge, MergeByHand, Merge
    <2>2. /\ state' = [state EXCEPT ![p] = "merged"]
          /\ auto' \in [Prs -> BOOLEAN]
          /\ UNCHANGED <<head, reported, green, reviews, dispatched, lost, passed, run, waiting>>
      BY <2>1 DEF Merge, actions, IInv, Types
    <2>3. Types' /\ MergedWasChecked' /\ DispatchedOnce'
      BY <2>1, <2>2, MergedStep
    <2>4. run.pc = "dispatch" => state'[run.pr] = "merged"
      BY <2>2, RunAt DEF IInv, Types, Sparing
    <2> QED BY <2>2, <2>3, <2>4 DEF IInv, Checked, Sparing, AllGreen
  <1> QED BY <1>1, <1>2, <1>3, <1>4, <1>5, <1>6, <1>7, <1>8 DEF Outside

LEMMA Initially ==
    ASSUME MergeAssumption, ChecksAssumption, Init
    PROVE  IInv
  <1>1. Types
    BY DEF Init, Types
  <1>2. Shape(run, waiting) /\ run.pc \in Looking
    BY StartedShape DEF Init, Shape, Started, MergeAssumption
  <1>3. Checked
    BY <1>2 DEF Init, Checked, MergedWasChecked, AllGreen, ChecksAssumption, Looking
  <1>4. Sparing
    BY <1>2 DEF Init, Sparing, DispatchedOnce, Looking
  <1> QED BY <1>1, <1>2, <1>3, <1>4 DEF IInv

(* In every reachable state whatever the bot has approved or is about to   *)
(* approve has had its checks in order, what is merged as well unless      *)
(* somebody else approved it, and only what is merged has been dispatched. *)
THEOREM Invariance == Spec => []IInv
  <1>1. ASSUME IInv, [Next]_vars
        PROVE  IInv'
    <2>1. CASE UNCHANGED vars
      <3>1. Checked'
        BY <1>1, <2>1, CheckedKept DEF vars, github, actions, IInv, Checked
      <3> QED BY <1>1, <2>1, <3>1 DEF vars, github, actions, IInv, Types, Sparing, DispatchedOnce
    <2> QED BY <1>1, <2>1, MergeAssumption, ReadStep, ApproveStep, RequestMergeStep,
             DispatchStep, OutsideStep DEF Next, Script
  <1>2. Init => IInv
    BY MergeAssumption, ChecksAssumption, Initially
  <1> QED BY <1>1, <1>2, PTL DEF Spec

(* Every variable has its type; nothing waits while nothing runs, and the  *)
(* script has a head in hand exactly from its look to its last call.       *)
THEOREM TypeCorrect == Spec => []TypeOK
  <1>1. IInv => TypeOK
    <2> SUFFICES ASSUME IInv
                 PROVE  TypeOK
      OBVIOUS
    <2>1. \A p \in Prs : \A i \in DOMAIN reviews[p] : reviews[p][i] \in Reviews
      BY DEF IInv, Types
    <2> QED BY <2>1 DEF IInv, Types, Shape, Runs, Looking, Reviews, TypeOK
  <1> QED BY <1>1, Invariance, PTL

(* Only a commit of which every expected and every reported check has      *)
(* succeeded is merged, or one that somebody else has approved, however    *)
(* pushes, checks and auto-merge interleave with the script.               *)
THEOREM MergesAreChecked == Spec => []MergedWasChecked
  <1>1. IInv => MergedWasChecked
    BY DEF IInv, Checked
  <1> QED BY <1>1, Invariance, PTL

(* CI of main is dispatched at most once for a pull request, and only for  *)
(* one that is merged.                                                     *)
THEOREM DispatchesOnce == Spec => []DispatchedOnce
  <1>1. IInv => DispatchedOnce
    BY DEF IInv, Sparing
  <1> QED BY <1>1, Invariance, PTL

-----------------------------------------------------------------------------
(* The bot never has two approvals of one commit in force.                 *)

Deciding == {"checks", "reviews", "approve"}

(* The places of the bot's reviews.                                        *)
OfBot(p) == {i \in DOMAIN reviews[p] :
                reviews[p][i].by = "bot" /\ reviews[p][i].state # "COMMENTED"}

(* Its approval of the head is its last review.                            *)
HeadIsLast == \A p \in Prs : Len(reviews[p]) <= PageSize =>
    \A i, j \in OfBot(p) : Approves(reviews[p][i], head[p]) => j <= i

(* A push that overtakes the script has dismissed all of the bot's.        *)
Overtaken == run.pc \in Deciding /\ run.sha # head[run.pr] =>
    \A i \in OfBot(run.pr) : reviews[run.pr][i].state # "APPROVED"

(* The script approves what the bot has not approved.                      *)
NotYet == run.pc = "approve" /\ Len(reviews[run.pr]) <= PageSize =>
    \A i \in OfBot(run.pr) : ~Approves(reviews[run.pr][i], run.sha)

OfOne == \A p \in Prs, c \in Commits : Len(reviews[p]) <= PageSize =>
    \A i, j \in OfBot(p) :
       Approves(reviews[p][i], c) /\ Approves(reviews[p][j], c) => i = j

Approvals == HeadIsLast /\ Overtaken /\ NotYet /\ OfOne

(* A step of the script or of GitHub that pushes and reviews nothing, and  *)
(* leaves the run as it is or out of its decision.                         *)
LEMMA ApprovalsKept ==
    ASSUME Approvals, UNCHANGED <<head, reviews>>, run' = run \/ run'.pc \notin Deciding
    PROVE  Approvals'
  BY DEF Approvals, OfBot, HeadIsLast, Overtaken, NotYet, OfOne, Deciding

LEMMA LookingIsNotDeciding == Looking \cap Deciding = {}
  BY DEF Looking, Deciding

LEMMA PushKeepsApprovals ==
    ASSUME MergeAssumption, IInv, Approvals, NEW p \in Prs, NEW c \in Commits, Push(p, c)
    PROVE  Approvals'
  <1>1. run' = run \/ run'.pc \notin Deciding
    BY TriggerShape, LookingIsNotDeciding DEF Push, IInv
  <1>2. \A q \in Prs \ {p} : reviews'[q] = reviews[q] /\ head'[q] = head[q]
    BY DEF Push, IInv, Types
  <1>3. \A i \in DOMAIN reviews'[p] : reviews'[p][i].state # "APPROVED"
    <2> SUFFICES ASSUME NEW i \in DOMAIN reviews[p]
                 PROVE  Dismissed(reviews[p][i]).state # "APPROVED"
      BY DEF Push, IInv, Types
    <2>1. reviews[p][i] \in Reviews
      BY DEF IInv, Types
    <2> QED BY <2>1 DEF Reviews, Dismissed
  <1>4. run'.pc \in Deciding => run' = run /\ run.pr \in Prs
    BY <1>1, RunAt DEF Deciding
  <1>5. run'.pc = "approve" => run'.pc \in Deciding
    BY DEF Deciding
  <1>6. \A q \in Prs \ {p} : OfBot(q)' = OfBot(q)
    BY <1>2 DEF OfBot
  <1>7. \A i \in OfBot(p)' : reviews'[p][i].state # "APPROVED"
    BY <1>3 DEF OfBot
  <1>8. HeadIsLast'
    BY <1>2, <1>6, <1>7 DEF Approvals, HeadIsLast, Approves
  <1>9. Overtaken'
    BY <1>2, <1>4, <1>6, <1>7 DEF Approvals, Overtaken
  <1>10. NotYet'
    <2> SUFFICES ASSUME run'.pc = "approve", Len(reviews'[run'.pr]) <= PageSize,
                        NEW i \in DOMAIN reviews'[run'.pr], reviews'[run'.pr][i].by = "bot"
                 PROVE  ~Approves(reviews'[run'.pr][i], run'.sha)
      BY DEF NotYet, OfBot
    <2>1. run' = run /\ run.pr \in Prs
      BY <1>4, <1>5
    <2>2. CASE run.pr = p
      BY <1>3, <2>1, <2>2 DEF Approves
    <2>3. CASE run.pr # p
      BY <1>2, <2>1, <2>3 DEF Approvals, NotYet, OfBot, Approves
    <2> QED BY <2>2, <2>3
  <1>11. OfOne'
    BY <1>2, <1>6, <1>7 DEF Approvals, OfOne, Approves
  <1> QED BY <1>8, <1>9, <1>10, <1>11 DEF Approvals

(* A review is appended to a pull request, and what is there stays.        *)
LEMMA ReviewAppends ==
    ASSUME Types, NEW p \in Prs, NEW by \in {"bot", "other"}, NEW c \in Commits,
           NEW s \in {"APPROVED", "DISMISSED", "COMMENTED"}, Review(p, by, s, c)
    PROVE  /\ \A q \in Prs \ {p} : reviews'[q] = reviews[q]
           /\ Len(reviews[p]) \in Nat /\ Len(reviews'[p]) = Len(reviews[p]) + 1
           /\ DOMAIN reviews[p] = 1..Len(reviews[p])
           /\ DOMAIN reviews'[p] = 1..(Len(reviews[p]) + 1)
           /\ \A i \in DOMAIN reviews[p] : reviews'[p][i] = reviews[p][i]
           /\ LET new == reviews'[p][Len(reviews[p]) + 1] IN
              new.by = by /\ new.state = s /\ new.commit = c
  <1> DEFINE r == [by |-> by, state |-> s, commit |-> c]
  <1>1. r \in Reviews /\ r.by = by /\ r.state = s /\ r.commit = c
    BY DEF Reviews
  <1> HIDE DEF r
  <1>2. reviews[p] \in Seq(Reviews)
    BY DEF Types
  <1>3. /\ reviews'[p] = Append(reviews[p], r)
        /\ \A q \in Prs \ {p} : reviews'[q] = reviews[q]
    BY DEF Review, Types, r
  <1> QED BY <1>1, <1>2, <1>3

(* What others say, and what the bot only comments, changes nothing.       *)
LEMMA OthersKeepApprovals ==
    ASSUME MergeAssumption, IInv, Approvals, NEW p \in Prs, NEW by \in {"bot", "other"},
           Comment(p, by) \/ ApproveByHand(p)
    PROVE  Approvals'
  <1>1. head[p] \in Commits /\ Types /\ UNCHANGED <<head, run>>
    BY DEF IInv, Types, Comment, ApproveByHand, actions
  <1> DEFINE n == Len(reviews[p])
  <1>2. /\ \A q \in Prs \ {p} : reviews'[q] = reviews[q]
        /\ n \in Nat /\ Len(reviews'[p]) = n + 1
        /\ DOMAIN reviews[p] = 1..n /\ DOMAIN reviews'[p] = 1..(n + 1)
        /\ \A i \in DOMAIN reviews[p] : reviews'[p][i] = reviews[p][i]
        /\ \/ reviews'[p][n + 1].by # "bot"
           \/ reviews'[p][n + 1].state = "COMMENTED"
    <2>1. CASE Comment(p, by)
      BY <1>1, <2>1, ReviewAppends DEF Comment
    <2>2. CASE ApproveByHand(p)
      BY <1>1, <2>2, ReviewAppends DEF ApproveByHand
    <2> QED BY <2>1, <2>2
  <1>3. run.pc \in Deciding => run.pr \in Prs
    BY RunAt DEF Deciding
  <1>4. "approve" \in Deciding
    BY DEF Deciding
  <1> HIDE DEF n
  <1>5. ASSUME NEW q \in Prs
        PROVE  /\ Len(reviews'[q]) <= PageSize => Len(reviews[q]) <= PageSize
               /\ OfBot(q)' = OfBot(q)
               /\ \A i \in OfBot(q) : reviews'[q][i] = reviews[q][i]
    <2>1. CASE q # p
      BY <1>2, <2>1 DEF OfBot
    <2>2. CASE q = p
      <3>1. Len(reviews'[p]) <= PageSize => Len(reviews[p]) <= PageSize
        BY <1>2 DEF MergeAssumption, n
      <3>2. \A i \in DOMAIN reviews'[p] : i \in DOMAIN reviews[p] \/ i = n + 1
        BY <1>2
      <3>3. DOMAIN reviews[p] \subseteq DOMAIN reviews'[p]
        BY <1>2
      <3>4. OfBot(p)' = OfBot(p)
        BY <1>2, <3>2, <3>3 DEF OfBot
      <3>5. \A i \in OfBot(p) : reviews'[p][i] = reviews[p][i]
        BY <1>2 DEF OfBot
      <3> QED BY <2>2, <3>1, <3>4, <3>5
    <2> QED BY <2>1, <2>2
  <1>6. HeadIsLast'
    BY <1>1, <1>5 DEF Approvals, HeadIsLast
  <1>7. Overtaken'
    BY <1>1, <1>3, <1>5 DEF Approvals, Overtaken
  <1>8. NotYet'
    BY <1>1, <1>3, <1>4, <1>5 DEF Approvals, NotYet
  <1>9. OfOne'
    BY <1>5 DEF Approvals, OfOne
  <1> QED BY <1>6, <1>7, <1>8, <1>9 DEF Approvals

LEMMA ApproveKeepsApprovals ==
    ASSUME MergeAssumption, IInv, Approvals, Approve
    PROVE  Approvals'
  <1> USE MergeAssumption
  <1>1. /\ run.pr \in Prs /\ run.sha \in Commits /\ run.pc \notin Looking
        /\ run.pc = "approve" /\ run.pc \in Deciding
    BY RunAt DEF Approve, Looking, Deciding
  <1>p. PICK p \in Prs : p = run.pr
    BY <1>1
  <1>n. PICK n : n = Len(reviews[p])
    OBVIOUS
  <1>2. /\ \A q \in Prs \ {p} : reviews'[q] = reviews[q]
        /\ n \in Nat /\ Len(reviews'[p]) = n + 1
        /\ DOMAIN reviews[p] = 1..n /\ DOMAIN reviews'[p] = 1..(n + 1)
        /\ \A i \in DOMAIN reviews[p] : reviews'[p][i] = reviews[p][i]
        /\ reviews'[p][n + 1].by = "bot" /\ reviews'[p][n + 1].state = "APPROVED"
        /\ reviews'[p][n + 1].commit = run.sha
    BY <1>1, <1>p, <1>n, ReviewAppends DEF Approve, IInv
  <1>3. run'.pc \notin Deciding
    <2>1. "merge" \in Phases \ Looking
      BY DEF Phases, Looking
    <2> QED BY <1>1, <2>1, GotoShape DEF Approve, IInv, Deciding
  <1>4. UNCHANGED head
    BY DEF Approve
  <1>5. n + 1 <= PageSize => n <= PageSize
    BY <1>2 DEF MergeAssumption
  <1>6. ASSUME n <= PageSize, NEW i \in OfBot(p)
        PROVE  ~Approves(reviews[p][i], run.sha) /\ ~Approves(reviews[p][i], head[p])
    BY <1>1, <1>p, <1>n, <1>6 DEF Approvals, NotYet, Overtaken, OfBot, Approves
  <1>7. /\ OfBot(p)' = OfBot(p) \cup {n + 1}
        /\ \A i \in OfBot(p) : i <= n /\ i # n + 1 /\ reviews'[p][i] = reviews[p][i]
    <2>1. DOMAIN reviews'[p] = DOMAIN reviews[p] \cup {n + 1}
      BY <1>2
    <2>2. \A i \in DOMAIN reviews[p] : i <= n /\ i # n + 1
      BY <1>2
    <2>3. ASSUME NEW i \in DOMAIN reviews'[p]
          PROVE  i \in OfBot(p)' <=> i \in OfBot(p) \/ i = n + 1
      <3>1. CASE i = n + 1
        BY <1>2, <3>1 DEF OfBot
      <3>2. CASE i \in DOMAIN reviews[p]
        BY <1>2, <2>2, <3>2 DEF OfBot
      <3> QED BY <2>1, <3>1, <3>2
    <2>4. /\ OfBot(p)' \subseteq DOMAIN reviews'[p] /\ OfBot(p) \subseteq DOMAIN reviews[p]
      BY DEF OfBot
    <2> QED BY <1>2, <2>1, <2>2, <2>3, <2>4
  <1>8. \A q \in Prs \ {p} : OfBot(q)' = OfBot(q)
    BY <1>2 DEF OfBot
  <1>9. HeadIsLast'
    <2> SUFFICES ASSUME NEW q \in Prs, Len(reviews'[q]) <= PageSize,
                        NEW i \in OfBot(q)', NEW j \in OfBot(q)',
                        Approves(reviews'[q][i], head[q])
                 PROVE  j <= i
      BY <1>4 DEF HeadIsLast
    <2>1. CASE q = p
      <3>1. i = n + 1
        BY <1>2, <1>5, <1>6, <1>7, <2>1
      <3> QED BY <1>2, <1>7, <2>1, <3>1
    <2>2. CASE q # p
      <3>1. reviews'[q] = reviews[q] /\ OfBot(q)' = OfBot(q)
        BY <1>2, <1>8, <2>2
      <3> QED BY <3>1 DEF Approvals, HeadIsLast
    <2> QED BY <2>1, <2>2
  <1>10. OfOne'
    <2> SUFFICES ASSUME NEW q \in Prs, NEW c \in Commits, Len(reviews'[q]) <= PageSize,
                        NEW i \in OfBot(q)', NEW j \in OfBot(q)',
                        Approves(reviews'[q][i], c), Approves(reviews'[q][j], c)
                 PROVE  i = j
      BY DEF OfOne
    <2>1. CASE q = p /\ c = run.sha
      <3>1. i = n + 1 /\ j = n + 1
        BY <1>2, <1>5, <1>6, <1>7, <2>1
      <3> QED BY <3>1
    <2>2. CASE q = p /\ c # run.sha
      <3>1. i # n + 1 /\ j # n + 1
        BY <1>2, <2>2 DEF Approves
      <3>2. /\ i \in OfBot(p) /\ Approves(reviews[p][i], c)
            /\ j \in OfBot(p) /\ Approves(reviews[p][j], c)
        BY <1>7, <2>2, <3>1
      <3>3. Len(reviews[p]) <= PageSize
        BY <1>2, <1>5, <1>n, <2>2
      <3> QED BY <3>2, <3>3 DEF Approvals, OfOne
    <2>3. CASE q # p
      <3>1. reviews'[q] = reviews[q] /\ OfBot(q)' = OfBot(q)
        BY <1>2, <1>8, <2>3
      <3> QED BY <3>1 DEF Approvals, OfOne
    <2> QED BY <2>1, <2>2, <2>3
  <1>11. "approve" \in Deciding
    BY DEF Deciding
  <1>12. Overtaken' /\ NotYet'
    BY <1>3, <1>11 DEF Overtaken, NotYet
  <1> QED BY <1>9, <1>10, <1>12 DEF Approvals

LEMMA DecisionKeepsApprovals ==
    ASSUME MergeAssumption, IInv, Approvals, ReadPr \/ ReadChecks \/ ReadReviews
    PROVE  Approvals'
  <1> USE MergeAssumption
  <1>0. UNCHANGED <<head, reviews>>
    BY DEF ReadPr, ReadChecks, ReadReviews, github
  <1>1. ASSUME NextPr, run.pc # "idle"
        PROVE  Approvals'
    BY <1>0, <1>1, NextPrShape, ApprovalsKept, LookingIsNotDeciding DEF IInv
  <1>2. CASE ReadPr
    <2>1. CASE run' = [run EXCEPT !.pc = "checks", !.sha = head[run.pr]]
      <3>1. run'.pc = "checks" /\ run'.sha = head[run'.pr]
        BY <2>1 DEF IInv, Shape, Runs
      <3> QED BY <1>0, <3>1 DEF Approvals, OfBot, HeadIsLast, Overtaken, NotYet, OfOne
    <2> QED BY <1>1, <1>2, <2>1 DEF ReadPr
  <1>3. CASE ReadChecks
    <2>1. CASE Goto("reviews")
      <3>1. "reviews" \in Phases \ Looking /\ run.pc \notin Looking
        BY <1>3 DEF ReadChecks, Phases, Looking
      <3>2. run'.pc = "reviews" /\ run'.pr = run.pr /\ run'.sha = run.sha
        BY <2>1, <3>1, GotoShape DEF IInv
      <3>3. run.pc \in Deciding
        BY <1>3 DEF ReadChecks, Deciding
      <3> QED BY <1>0, <3>2, <3>3 DEF Approvals, OfBot, HeadIsLast, Overtaken, NotYet, OfOne
    <2> QED BY <1>1, <1>3, <2>1 DEF ReadChecks
  <1>4. CASE ReadReviews
    <2>0. run.pr \in Prs /\ run.sha \in Commits /\ run.pc \notin Looking /\ run.pc \in Deciding
      BY <1>4, RunAt DEF ReadReviews, Looking, Deciding
    <2>1. CASE Goto("merge")
      <3>1. "merge" \in Phases \ Looking
        BY DEF Phases, Looking
      <3>2. run'.pc = "merge"
        BY <2>0, <2>1, <3>1, GotoShape DEF IInv
      <3> QED BY <1>0, <3>2, ApprovalsKept DEF Deciding
    <2>2. CASE Goto("approve") /\ ~Current(run.pr, run.sha)
      <3>1. "approve" \in Phases \ Looking
        BY DEF Phases, Looking
      <3>2. run'.pc = "approve" /\ run'.pr = run.pr /\ run'.sha = run.sha
        BY <2>0, <2>2, <3>1, GotoShape DEF IInv
      <3>3. ASSUME Len(reviews[run.pr]) <= PageSize, NEW i \in OfBot(run.pr),
                   Approves(reviews[run.pr][i], run.sha)
            PROVE  FALSE
        <4>1. run.sha = head[run.pr]
          BY <2>0, <3>3 DEF Approvals, Overtaken, Approves
        <4>2. i \in DOMAIN reviews[run.pr]
          BY DEF OfBot
        <4>3. \A j \in OfBot(run.pr) : j <= i
          BY <2>0, <3>3, <4>1 DEF Approvals, HeadIsLast
        <4>4. i <= PageSize
          <5>1. reviews[run.pr] \in Seq(Reviews)
            BY <2>0 DEF IInv, Types
          <5>2. i \in 1..Len(reviews[run.pr]) /\ Len(reviews[run.pr]) \in Nat
            BY <4>2, <5>1
          <5> QED BY <3>3, <5>2 DEF MergeAssumption
        <4>5. i \in BotReviews(run.pr) /\ BotReviews(run.pr) \subseteq OfBot(run.pr)
          BY <4>4 DEF BotReviews, OfBot
        <4> QED BY <2>2, <3>3, <4>3, <4>5 DEF Current
      <3> QED BY <1>0, <2>0, <3>2, <3>3
             DEF Approvals, OfBot, HeadIsLast, Overtaken, NotYet, OfOne
    <2> QED BY <1>4, <2>1, <2>2 DEF ReadReviews
  <1> QED BY <1>2, <1>3, <1>4

LEMMA ApprovalsInitially ==
    ASSUME Init
    PROVE  Approvals
  <1>1. run.pc \notin Deciding /\ run.pc # "approve"
    BY DEF Init, NotRunning, Deciding
  <1>2. \A p \in Prs : DOMAIN reviews[p] = {}
    BY DEF Init
  <1> QED BY <1>1, <1>2 DEF Approvals, OfBot, HeadIsLast, Overtaken, NotYet, OfOne

LEMMA ApprovalsStep ==
    ASSUME MergeAssumption, IInv, Approvals, Next
    PROVE  Approvals'
  <1> USE MergeAssumption
  <1>1. ASSUME UNCHANGED <<head, reviews>>, run'.pc \in Looking
        PROVE  Approvals'
    BY <1>1, ApprovalsKept, LookingIsNotDeciding
  <1>2. CASE List
    <2>1. CASE EndRun
      BY <1>1, <1>2, <2>1, EndRunShape DEF List, github, IInv
    <2>2. CASE run'.pc = "pr"
      BY <1>1, <1>2, <2>2 DEF List, github, Looking
    <2> QED BY <1>2, <2>1, <2>2 DEF List
  <1>3. CASE ReadPr \/ ReadChecks \/ ReadReviews
    BY <1>3, DecisionKeepsApprovals
  <1>4. CASE Approve
    BY <1>4, ApproveKeepsApprovals
  <1>5. CASE RequestMerge
    <2>1. run.pc \notin Looking /\ "merged" \in Phases \ Looking
      BY <1>5 DEF RequestMerge, Phases, Looking
    <2>2. run'.pc = "merged"
      BY <1>5, <2>1, GotoShape DEF RequestMerge, IInv
    <2> QED BY <1>5, <2>2, ApprovalsKept DEF RequestMerge, Deciding
  <1>6. CASE ReadMerged
    <2>1. CASE NextPr
      BY <1>1, <1>6, <2>1, NextPrShape DEF ReadMerged, github, IInv
    <2>2. CASE Goto("dispatch")
      <3>1. run.pc \notin Looking /\ "dispatch" \in Phases \ Looking
        BY <1>6 DEF ReadMerged, Phases, Looking
      <3>2. run'.pc = "dispatch"
        BY <2>2, <3>1, GotoShape DEF IInv
      <3> QED BY <1>6, <3>2, ApprovalsKept DEF ReadMerged, github, Deciding
    <2> QED BY <1>6, <2>1, <2>2 DEF ReadMerged
  <1>7. CASE Dispatch
    BY <1>1, <1>7, NextPrShape DEF Dispatch, github, IInv
  <1>8. CASE CallFails
    BY <1>1, <1>8, EndRunShape DEF CallFails, Abort, github, IInv
  <1>9. CASE Outside
    <2>1. ASSUME NEW p \in Prs, NEW event \in Prs \cup {All}, Trigger(event),
                 UNCHANGED <<head, reviews>>
          PROVE  Approvals'
      BY <2>1, TriggerShape, ApprovalsKept, LookingIsNotDeciding DEF IInv
    <2>2. ASSUME NEW p \in Prs, NEW c \in Commits, Push(p, c)
          PROVE  Approvals'
      BY <2>2, PushKeepsApprovals
    <2>3. ASSUME NEW p \in Prs, NEW c \in Commits, NEW k \in Checks,
                 CheckStarts(p, c, k) \/ \E success \in BOOLEAN : CheckEnds(p, c, k, success)
          PROVE  Approvals'
      <3>1. CASE CheckStarts(p, c, k)
        BY <3>1, ApprovalsKept DEF CheckStarts, actions
      <3>2. CASE \E success \in BOOLEAN : CheckEnds(p, c, k, success)
        BY <2>1, <3>2 DEF CheckEnds
      <3> QED BY <2>3, <3>1, <3>2
    <2>4. ASSUME NEW p \in Prs, Edit(p)
          PROVE  Approvals'
      BY <2>1, <2>4 DEF Edit, github
    <2>5. ASSUME NEW p \in Prs, Close(p) \/ AutoMerge(p) \/ MergeByHand(p)
          PROVE  Approvals'
      BY <2>5, ApprovalsKept DEF Close, AutoMerge, MergeByHand, Merge, actions
    <2>6. ASSUME NEW p \in Prs, Reopen(p)
          PROVE  Approvals'
      BY <2>1, <2>6 DEF Reopen
    <2>7. ASSUME NEW p \in Prs, NEW by \in {"bot", "other"}, Comment(p, by) \/ ApproveByHand(p)
          PROVE  Approvals'
      BY <2>7, OthersKeepApprovals
    <2> QED BY <1>9, <2>2, <2>3, <2>4, <2>5, <2>6, <2>7 DEF Outside
  <1> QED BY <1>2, <1>3, <1>4, <1>5, <1>6, <1>7, <1>8, <1>9 DEF Next, Script

(* As long as one page holds all reviews of a pull request, the bot has at *)
(* most one approval of a commit in force, whatever is pushed, dismissed,  *)
(* commented or approved by others.                                        *)
THEOREM ApprovalsAreSingle == Spec => []OneApprovalInForce
  <1>1. ASSUME IInv, Approvals, [Next]_vars
        PROVE  Approvals'
    <2>1. CASE UNCHANGED vars
      BY <1>1, <2>1, ApprovalsKept DEF vars, github, actions
    <2> QED BY <1>1, <2>1, MergeAssumption, ApprovalsStep
  <1>2. Approvals => OneApprovalInForce
    <2> SUFFICES ASSUME Approvals, NEW p \in Prs, NEW c \in Commits, Len(reviews[p]) <= PageSize
                 PROVE  Cardinality({i \in DOMAIN reviews[p] :
                            reviews[p][i].by = "bot" /\ Approves(reviews[p][i], c)}) <= 1
      BY DEF OneApprovalInForce
    <2> DEFINE S == {i \in DOMAIN reviews[p] :
                        reviews[p][i].by = "bot" /\ Approves(reviews[p][i], c)}
    <2>1. \A i, j \in S : i = j
      BY DEF Approvals, OfOne, OfBot, Approves
    <2> HIDE DEF S
    <2>2. CASE S = {}
      <3>1. Cardinality(S) = 0
        BY <2>2, FS_EmptySet
      <3> QED BY <3>1 DEF S
    <2>3. CASE \E i \in S : S = {i}
      <3>1. Cardinality(S) = 1
        BY <2>3, FS_Singleton
      <3> QED BY <3>1 DEF S
    <2> QED BY <2>1, <2>2, <2>3
  <1> QED BY <1>1, <1>2, Invariance, ApprovalsInitially, PTL DEF Spec

-----------------------------------------------------------------------------
(* No pull request is forgotten.                                           *)

(* Run r, or the event w that waits, is still to look at p.                *)
Pending(p, r, w) ==
    \/ p \in Covers(w)
    \/ r.pc = "list" \/ p \in r.todo
    \/ r.pr = p /\ r.pc = "pr"

Approved(p) == ApprovedBy(p, "bot")

(* The run has the head of p in hand, and is to have it approved.          *)
Underway(p) ==
    /\ run.pr = p /\ run.sha = head[p]
    /\ run.pc \in Deciding \/ (run.pc = "merge" /\ Approved(p))

Ready(p) == state[p] = "open" /\ AllGreen(p, head[p])

Cared(p) == Pending(p, run, waiting) \/ (auto[p] /\ Approved(p)) \/ Underway(p)

Watched == \A p \in Prs \ lost : Ready(p) => Cared(p)

LEMMA StartedPending ==
    ASSUME MergeAssumption, NEW p \in Prs, NEW w \in Prs \cup {None, All}, p \in Covers(w)
    PROVE  Pending(p, Started(w), None)
  BY DEF MergeAssumption, Covers, Started, NotRunning, Pending

(* Whoever waits is looked at by the run that starts.                      *)
LEMMA EndRunPending ==
    ASSUME MergeAssumption, IInv, NEW p \in Prs, p \in Covers(waiting), EndRun
    PROVE  Pending(p, run', waiting')
  BY StartedPending DEF EndRun, IInv, Shape

LEMMA NextPrPending ==
    ASSUME MergeAssumption, IInv, NEW p \in Prs, NextPr,
           Pending(p, run, waiting), run.pc \notin {"list", "pr"}
    PROVE  Pending(p, run', waiting')
  <1>1. CASE run.todo = {} /\ EndRun
    BY <1>1, EndRunPending DEF Pending
  <1>2. ASSUME NEW q \in run.todo, UNCHANGED waiting,
               run' = [pc |-> "pr", todo |-> run.todo \ {q}, pr |-> q, sha |-> NoCommit]
        PROVE  Pending(p, run', waiting')
    BY <1>2 DEF Pending
  <1> QED BY <1>1, <1>2 DEF NextPr

(* An event puts the pull requests it covers in line, and takes out of it  *)
(* only what it adds to lost.                                              *)
LEMMA TriggerPending ==
    ASSUME MergeAssumption, IInv, NEW event \in Prs \cup {All}, Trigger(event), NEW p \in Prs
    PROVE  /\ p \in Covers(event) => Pending(p, run', waiting')
           /\ p \notin lost' /\ Pending(p, run, waiting) => Pending(p, run', waiting')
           /\ Underway(p) => run' = run
           /\ lost \subseteq lost'
  <1>1. CASE run.pc = "idle"
    <2>1. run = NotRunning /\ waiting = None
      BY <1>1 DEF IInv, Shape
    <2>2. ~Pending(p, run, waiting)
      BY <2>1 DEF Pending, Covers, NotRunning, MergeAssumption
    <2>3. ~Underway(p)
      BY <1>1 DEF Underway, Deciding
    <2>4. run' = Started(event) /\ UNCHANGED <<waiting, lost>>
      BY <1>1 DEF Trigger
    <2> QED BY <2>1, <2>2, <2>3, <2>4, StartedPending
  <1>2. CASE run.pc # "idle"
    BY <1>2 DEF Trigger, Pending
  <1> QED BY <1>1, <1>2

(* A step after which whoever was pending is so, and nobody's own concerns *)
(* have changed.                                                           *)
LEMMA OthersWatched ==
    ASSUME IInv, Watched, NEW p \in Prs \ lost, Ready(p)', ~Underway(p),
           UNCHANGED <<state[p], head[p], reviews[p], auto[p]>>,
           AllGreen(p, head[p])' => AllGreen(p, head[p]),
           Pending(p, run, waiting) => Pending(p, run', waiting')
    PROVE  Cared(p)'
  BY DEF Watched, Ready, Cared, Approved, ApprovedBy, Approves

LEMMA WatchedReads ==
    ASSUME MergeAssumption, IInv, Watched, \/ List \/ ReadPr \/ ReadChecks \/ ReadReviews
                                          \/ ReadMerged \/ Dispatch \/ CallFails
    PROVE  Watched'
  <1> USE MergeAssumption
  <1> SUFFICES ASSUME NEW p \in Prs \ lost', Ready(p)'
               PROVE  Cared(p)'
    BY DEF Watched
  <1>0. /\ UNCHANGED <<state, head, reported, green, reviews, auto>>
        /\ Ready(p)
    BY DEF List, ReadPr, ReadChecks, ReadReviews, ReadMerged, Dispatch, CallFails, github, Ready,
       AllGreen
  <1>a. ASSUME p \notin lost, ~Underway(p),
               Pending(p, run, waiting) => Pending(p, run', waiting')
        PROVE  Cared(p)'
    BY <1>0, <1>a, OthersWatched DEF AllGreen
  <1>b. ASSUME p \notin lost, ~Underway(p), NextPr, run.pc \notin {"list", "pr"}
        PROVE  Cared(p)'
    BY <1>a, <1>b, NextPrPending
  <1>1. CASE List
    <2>1. ~Underway(p) /\ p \notin lost
      BY <1>1 DEF List, Underway, Deciding
    <2>2. Pending(p, run', waiting')
      BY <1>0, <1>1 DEF List, Ready, Pending
    <2> QED BY <2>2 DEF Cared
  <1>2. CASE ReadPr
    <2>0. run.pr \in Prs /\ run.pc = "pr" /\ ~Underway(p)
      BY <1>2, RunAt DEF ReadPr, Underway, Deciding
    <2>1. CASE p = run.pr
      <3>1. run' = [run EXCEPT !.pc = "checks", !.sha = head[run.pr]]
        BY <1>0, <1>2, <2>1 DEF ReadPr, Eligible, Ready
      <3>2. run'.pr = p /\ run'.sha = head[p] /\ run'.pc = "checks"
        BY <2>1, <3>1 DEF IInv, Shape, Runs
      <3> QED BY <1>0, <3>2 DEF Cared, Underway, Deciding
    <2>2. CASE p # run.pr
      <3>1. p \notin lost
        BY <1>2, <2>2 DEF ReadPr
      <3>2. CASE NextPr
        <4>1. CASE run.todo = {} /\ EndRun
          <5>1. Pending(p, run, waiting) => p \in Covers(waiting)
            BY <2>0, <2>2, <4>1 DEF Pending
          <5> QED BY <1>a, <2>0, <3>1, <4>1, <5>1, EndRunPending
        <4>2. ASSUME NEW q \in run.todo, UNCHANGED waiting,
                     run' = [pc |-> "pr", todo |-> run.todo \ {q}, pr |-> q, sha |-> NoCommit]
              PROVE  Cared(p)'
          <5>1. Pending(p, run, waiting) => Pending(p, run', waiting')
            BY <2>0, <2>2, <4>2 DEF Pending
          <5> QED BY <1>a, <2>0, <3>1, <5>1
        <4> QED BY <3>2, <4>1, <4>2 DEF NextPr
      <3>3. CASE /\ run' = [run EXCEPT !.pc = "checks", !.sha = head[run.pr]]
                 /\ UNCHANGED waiting
        <4>1. run'.todo = run.todo
          BY <3>3 DEF IInv, Shape, Runs
        <4>2. Pending(p, run, waiting) => Pending(p, run', waiting')
          BY <2>0, <2>2, <3>3, <4>1 DEF Pending
        <4> QED BY <1>a, <2>0, <3>1, <4>2
      <3> QED BY <1>2, <3>2, <3>3 DEF ReadPr
    <2> QED BY <2>1, <2>2
  <1>c. ASSUME p \notin lost, NEW pc \in Phases \ Looking, Goto(pc), run.pc \notin Looking
        PROVE  /\ run'.pc = pc /\ run'.pr = run.pr /\ run'.sha = run.sha
               /\ Pending(p, run, waiting) => Pending(p, run', waiting')
    <2>1. run' = [run EXCEPT !.pc = pc] /\ UNCHANGED waiting /\ run \in Runs
      BY <1>c DEF Goto, IInv, Shape
    <2>2. run'.pc = pc /\ run'.pr = run.pr /\ run'.sha = run.sha /\ run'.todo = run.todo
      BY <2>1 DEF Runs
    <2> QED BY <1>c, <2>1, <2>2 DEF Pending, Looking
  <1>3. CASE ReadChecks
    <2>0. p \notin lost /\ run.pc = "checks" /\ run.pc \notin Looking
          /\ "reviews" \in Phases \ Looking /\ run.pc \notin {"list", "pr"}
      BY <1>3 DEF ReadChecks, Phases, Looking
    <2>1. CASE Underway(p)
      <3>1. Goto("reviews")
        BY <1>0, <1>3, <2>1 DEF ReadChecks, ChecksPassed, Underway, Ready
      <3>2. run'.pc = "reviews" /\ run'.pr = run.pr /\ run'.sha = run.sha
        BY <1>c, <2>0, <3>1
      <3> QED BY <1>0, <2>1, <3>2 DEF Cared, Underway, Deciding
    <2>2. CASE ~Underway(p) /\ NextPr
      BY <1>b, <2>0, <2>2
    <2>3. CASE ~Underway(p) /\ Goto("reviews")
      BY <1>a, <1>c, <2>0, <2>3
    <2> QED BY <1>3, <2>1, <2>2, <2>3 DEF ReadChecks
  <1>4. CASE ReadReviews
    <2>0. p \notin lost /\ run.pc \notin Looking /\ {"merge", "approve"} \subseteq Phases \ Looking
      BY <1>4 DEF ReadReviews, Phases, Looking
    <2>1. CASE Goto("approve") /\ Underway(p)
      <3>1. run'.pc = "approve" /\ run'.pr = run.pr /\ run'.sha = run.sha
        BY <1>c, <2>0, <2>1
      <3> QED BY <1>0, <2>1, <3>1 DEF Cared, Underway, Deciding
    <2>2. CASE Goto("merge") /\ Underway(p) /\ Current(run.pr, run.sha)
      <3>1. run'.pc = "merge" /\ run'.pr = run.pr /\ run'.sha = run.sha
        BY <1>c, <2>0, <2>2
      <3>2. Approved(p)
        BY <2>2 DEF Underway, Current, BotReviews, Approves, Approved, ApprovedBy
      <3> QED BY <1>0, <2>2, <3>1, <3>2 DEF Cared, Underway, Approved, ApprovedBy, Approves
    <2>3. CASE ~Underway(p) /\ (Goto("merge") \/ Goto("approve"))
      BY <1>a, <1>c, <2>0, <2>3
    <2> QED BY <1>4, <2>1, <2>2, <2>3 DEF ReadReviews
  <1>5. CASE ReadMerged \/ Dispatch
    <2>0. /\ p \notin lost /\ run.pc \notin Looking /\ "dispatch" \in Phases \ Looking
          /\ run.pc \notin {"list", "pr"} /\ ~Underway(p)
      BY <1>5 DEF ReadMerged, Dispatch, Phases, Looking, Underway, Deciding
    <2>1. CASE NextPr
      BY <1>b, <2>0, <2>1
    <2>2. CASE Goto("dispatch")
      BY <1>a, <1>c, <2>0, <2>2
    <2> QED BY <1>5, <2>1, <2>2 DEF ReadMerged, Dispatch
  <1>6. CASE CallFails
    <2>1. /\ p \notin lost /\ run.pc # "list" /\ p \notin run.todo /\ p # run.pr /\ EndRun
      BY <1>6 DEF CallFails, Abort
    <2>2. ~Underway(p) /\ (Pending(p, run, waiting) => p \in Covers(waiting))
      BY <2>1 DEF Underway, Pending
    <2> QED BY <1>a, <2>1, <2>2, EndRunPending
  <1> QED BY <1>1, <1>2, <1>3, <1>4, <1>5, <1>6

LEMMA WatchedApprove ==
    ASSUME MergeAssumption, IInv, Watched, Approve
    PROVE  Watched'
  <1> USE MergeAssumption
  <1> SUFFICES ASSUME NEW p \in Prs \ lost', Ready(p)'
               PROVE  Cared(p)'
    BY DEF Watched
  <1>1. /\ run.pr \in Prs /\ run.sha \in Commits /\ run.pc \notin Looking
        /\ run.pc = "approve"
    BY RunAt DEF Approve, Looking
  <1>2. /\ UNCHANGED <<state, head, reported, green, auto, waiting>> /\ p \notin lost
        /\ run' = [run EXCEPT !.pc = "merge"] /\ run \in Runs
    BY DEF Approve, Goto, IInv, Shape
  <1>3. run'.pc = "merge" /\ run'.pr = run.pr /\ run'.sha = run.sha /\ run'.todo = run.todo
    BY <1>2 DEF Runs
  <1>4. Pending(p, run, waiting) => Pending(p, run', waiting')
    BY <1>1, <1>2, <1>3 DEF Pending
  <1> DEFINE n == Len(reviews[run.pr])
  <1>5. /\ \A q \in Prs \ {run.pr} : reviews'[q] = reviews[q]
        /\ n + 1 \in DOMAIN reviews'[run.pr]
        /\ reviews'[run.pr][n + 1].by = "bot" /\ reviews'[run.pr][n + 1].state = "APPROVED"
        /\ reviews'[run.pr][n + 1].commit = run.sha
        /\ \A i \in DOMAIN reviews[run.pr] :
              i \in DOMAIN reviews'[run.pr] /\ reviews'[run.pr][i] = reviews[run.pr][i]
    BY <1>1, ReviewAppends DEF Approve, IInv
  <1> HIDE DEF n
  <1>6. Approved(p) => Approved(p)'
    BY <1>2, <1>5 DEF Approved, ApprovedBy, Approves
  <1>7. CASE Underway(p)
    BY <1>2, <1>3, <1>5, <1>7 DEF Underway, Cared, Approved, ApprovedBy, Approves
  <1>8. CASE ~Underway(p)
    BY <1>2, <1>4, <1>6, <1>8 DEF Watched, Ready, Cared, AllGreen
  <1> QED BY <1>7, <1>8

LEMMA WatchedRequestMerge ==
    ASSUME MergeAssumption, IInv, Watched, RequestMerge
    PROVE  Watched'
  <1> USE MergeAssumption
  <1> SUFFICES ASSUME NEW p \in Prs \ lost', Ready(p)'
               PROVE  Cared(p)'
    BY DEF Watched
  <1>1. run.pr \in Prs /\ run.pc = "merge" /\ p \notin lost
    BY RunAt DEF RequestMerge
  <1>2. /\ UNCHANGED <<head, reported, green, reviews, waiting>>
        /\ run' = [run EXCEPT !.pc = "merged"] /\ run \in Runs
    BY DEF RequestMerge, Goto, IInv, Shape
  <1>3. run'.pr = run.pr /\ run'.todo = run.todo
    BY <1>2 DEF Runs
  <1>4. Pending(p, run, waiting) => Pending(p, run', waiting')
    BY <1>1, <1>2, <1>3 DEF Pending
  <1>5. Approved(p) => Approved(p)'
    BY <1>2 DEF Approved, ApprovedBy, Approves
  <1>6. CASE p # run.pr
    <2>1. UNCHANGED <<state[p], auto[p]>> /\ ~Underway(p)
      BY <1>6 DEF RequestMerge, IInv, Types, Underway
    <2> QED BY <1>1, <1>2, <1>4, <2>1, OthersWatched DEF AllGreen
  <1>7. CASE p = run.pr
    <2>1. state'[p] = "open"
      BY DEF Ready
    <2>2. state[p] = "open" /\ auto' = [auto EXCEPT ![p] = TRUE]
      BY <1>1, <1>7, <2>1 DEF RequestMerge, IInv, Types
    <2>3. auto'[p] = TRUE
      BY <2>2 DEF IInv, Types
    <2>4. Ready(p)
      BY <1>2, <2>2 DEF Ready, AllGreen
    <2>5. Pending(p, run, waiting) \/ Approved(p)
      BY <1>1, <2>4 DEF Watched, Cared, Underway, Deciding
    <2> QED BY <1>4, <1>5, <2>3, <2>5 DEF Cared
  <1> QED BY <1>6, <1>7

LEMMA WatchedOutside ==
    ASSUME MergeAssumption, IInv, Watched, Outside
    PROVE  Watched'
  <1> USE MergeAssumption
  <1> SUFFICES ASSUME NEW p \in Prs \ lost', Ready(p)'
               PROVE  Cared(p)'
    BY DEF Watched
  (* A pull request that no event covers, and that nothing else happens to. *)
  <1>a. ASSUME NEW event \in Prs \cup {All}, Trigger(event),
               \/ p \in Covers(event)
               \/ UNCHANGED <<state[p], head[p], reported[p], green[p], reviews[p], auto[p]>>
        PROVE  Cared(p)'
    <2>1. /\ p \in Covers(event) => Pending(p, run', waiting')
          /\ Pending(p, run, waiting) => Pending(p, run', waiting')
          /\ Underway(p) => run' = run
          /\ p \notin lost
      BY <1>a, TriggerPending
    <2>2. CASE p \in Covers(event)
      BY <2>1, <2>2 DEF Cared
    <2>3. CASE UNCHANGED <<state[p], head[p], reported[p], green[p], reviews[p], auto[p]>>
      <3>1. Ready(p) /\ (Approved(p) => Approved(p)')
        BY <2>3 DEF Ready, Approved, AllGreen, ApprovedBy, Approves
      <3>2. Underway(p) => Underway(p)'
        BY <2>1, <2>3, <3>1 DEF Underway
      <3> QED BY <2>1, <2>3, <3>1, <3>2 DEF Watched, Cared
    <2> QED BY <1>a, <2>2, <2>3
  (* A step without an event, after which p is as it was but for a comment. *)
  <1>b. ASSUME UNCHANGED <<run, waiting, lost, head, auto>>,
               state'[p] = "open" => state[p] = "open", Approved(p) => Approved(p)',
               AllGreen(p, head[p])' => AllGreen(p, head[p])
        PROVE  Cared(p)'
    <2>1. Ready(p)
      BY <1>b DEF Ready
    <2>2. Underway(p) => Underway(p)'
      BY <1>b DEF Underway
    <2> QED BY <1>b, <2>1, <2>2 DEF Watched, Cared
  <1>1. ASSUME NEW q \in Prs, NEW c \in Commits, Push(q, c)
        PROVE  Cared(p)'
    <2>1. p = q => p \in Covers(q)
      BY DEF Covers, MergeAssumption
    <2>2. p # q => UNCHANGED <<state[p], head[p], reported[p], green[p], reviews[p], auto[p]>>
      BY <1>1 DEF Push, IInv, Types
    <2> QED BY <1>1, <1>a, <2>1, <2>2 DEF Push
  <1>2. ASSUME NEW q \in Prs, NEW c \in Commits, NEW k \in Checks, CheckStarts(q, c, k)
        PROVE  Cared(p)'
    <2>1. head[p] \in Commits
      BY DEF IInv, Types
    <2>2. AllGreen(p, head[p])' => AllGreen(p, head[p])
      BY <1>2, <2>1 DEF CheckStarts, IInv, Types, AllGreen
    <2>3. Approved(p) => Approved(p)'
      BY <1>2 DEF CheckStarts, Approved, ApprovedBy, Approves
    <2> QED BY <1>2, <1>b, <2>2, <2>3 DEF CheckStarts, actions
  <1>3. ASSUME NEW q \in Prs, NEW c \in Commits, NEW k \in Checks, NEW success \in BOOLEAN,
               CheckEnds(q, c, k, success)
        PROVE  Cared(p)'
    <2>1. p \in Covers(All)
      BY DEF Covers
    <2> QED BY <1>3, <1>a, <2>1 DEF CheckEnds
  <1>4. ASSUME NEW q \in Prs, Edit(q)
        PROVE  Cared(p)'
    BY <1>4, <1>a DEF Edit, github
  <1>5. ASSUME NEW q \in Prs, Close(q) \/ AutoMerge(q) \/ MergeByHand(q)
        PROVE  Cared(p)'
    <2>1. state'[p] = "open" => state[p] = "open"
      BY <1>5 DEF Close, AutoMerge, MergeByHand, Merge, IInv, Types
    <2>2. Approved(p) => Approved(p)'
      BY <1>5 DEF Close, AutoMerge, MergeByHand, Merge, Approved, ApprovedBy, Approves
    <2>3. AllGreen(p, head[p])' => AllGreen(p, head[p])
      BY <1>5 DEF Close, AutoMerge, MergeByHand, Merge, AllGreen
    <2> QED BY <1>5, <1>b, <2>1, <2>2, <2>3 DEF Close, AutoMerge, MergeByHand, Merge, actions
  <1>6. ASSUME NEW q \in Prs, Reopen(q)
        PROVE  Cared(p)'
    <2>1. p = q => p \in Covers(q)
      BY DEF Covers, MergeAssumption
    <2>2. p # q => UNCHANGED <<state[p], head[p], reported[p], green[p], reviews[p], auto[p]>>
      BY <1>6 DEF Reopen, IInv, Types
    <2> QED BY <1>6, <1>a, <2>1, <2>2 DEF Reopen
  <1>7. ASSUME NEW q \in Prs, NEW by \in {"bot", "other"}, Comment(q, by) \/ ApproveByHand(q)
        PROVE  Cared(p)'
    <2>1. head[q] \in Commits /\ UNCHANGED <<state, head, reported, green, auto, actions>>
      BY <1>7 DEF IInv, Types, Comment, ApproveByHand
    <2>2. /\ \A r \in Prs \ {q} : reviews'[r] = reviews[r]
          /\ \A i \in DOMAIN reviews[q] :
                i \in DOMAIN reviews'[q] /\ reviews'[q][i] = reviews[q][i]
      <3>1. CASE Comment(q, by)
        BY <2>1, <3>1, ReviewAppends DEF Comment, IInv
      <3>2. CASE ApproveByHand(q)
        BY <2>1, <3>2, ReviewAppends DEF ApproveByHand, IInv
      <3> QED BY <1>7, <3>1, <3>2
    <2>3. Approved(p) => Approved(p)'
      BY <2>1, <2>2 DEF Approved, ApprovedBy, Approves
    <2>4. AllGreen(p, head[p])' => AllGreen(p, head[p])
      BY <2>1 DEF AllGreen
    <2> QED BY <1>b, <2>1, <2>3, <2>4 DEF actions
  <1> QED BY <1>1, <1>2, <1>3, <1>4, <1>5, <1>6, <1>7 DEF Outside

(* Whenever no run is left, every open pull request whose checks are in    *)
(* order is approved by the bot and set to merge, unless the look at it    *)
(* was cancelled or broken off.                                            *)
THEOREM NoneIsForgotten == Spec => []NothingForgotten
  <1>1. ASSUME IInv, Watched, [Next]_vars
        PROVE  Watched'
    <2>1. CASE UNCHANGED vars
      BY <1>1, <2>1 DEF vars, github, actions, Watched, Ready, Cared, Pending, Approved, Underway,
         AllGreen, ApprovedBy, Approves
    <2> QED BY <1>1, <2>1, MergeAssumption, WatchedReads, WatchedApprove, WatchedRequestMerge,
             WatchedOutside DEF Next, Script
  <1>2. Init => Watched
    <2> SUFFICES ASSUME Init, NEW p \in Prs
                 PROVE  ~Ready(p)
      BY DEF Watched
    <2>1. reported[p][head[p]] = {}
      BY DEF Init
    <2> QED BY <2>1, ChecksAssumption DEF Ready, AllGreen
  <1>3. IInv /\ Watched => NothingForgotten
    <2> SUFFICES ASSUME IInv, Watched, run.pc = "idle", NEW p \in Prs \ lost, Ready(p)
                 PROVE  auto[p] /\ Approved(p)
      BY DEF NothingForgotten, Ready, Approved
    <2>1. run = NotRunning /\ waiting = None
      BY DEF IInv, Shape
    <2>2. ~Pending(p, run, waiting)
      BY <2>1, MergeAssumption DEF Pending, Covers, NotRunning, MergeAssumption
    <2>3. ~Underway(p)
      BY DEF Underway, Deciding
    <2> QED BY <2>2, <2>3 DEF Watched, Cared
  <1> QED BY <1>1, <1>2, <1>3, Invariance, PTL DEF Spec
=============================================================================
