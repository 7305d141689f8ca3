--------------------------- MODULE TrustedAutoMerge ---------------------------
(***************************************************************************)
(* The script that approves the pull requests of trusted maintainers       *)
(* (src/.github/scripts/trusted_auto_merge.py) and the workflow that runs  *)
(* it (src/.github/workflows/trusted-auto-merge.yml), against GitHub:      *)
(* pushes, check results, dismissed reviews and the protected merge.       *)
(*                                                                         *)
(* Every call of gh is one step, so that anything may happen between two   *)
(* of them.  Every pull request is a maintainer's, for main and no draft.  *)
(*                                                                         *)
(* People may push, comment, approve, merge, edit, close and reopen.  What *)
(* they are taken not to do: dismiss a review, enable or disable auto-merge *)
(* or override the protection of main.  That protection dismisses every    *)
(* approval at a push.  And each check is one of a workflow this one runs  *)
(* after, so that its end is an event.                                     *)
(***************************************************************************)
EXTENDS Naturals, Sequences, FiniteSets

CONSTANTS
    Prs,         \* numbers of pull requests
    Commits,     \* what their heads may be
    NoCommit,
    Checks,      \* all that may be reported
    Expected,    \* EXPECTED_TECHNICAL_CHECKS
    Required,    \* the checks that the protection of main requires
    None,        \* no event
    All,         \* an event that names no pull request
    PageSize,    \* reviews in the page that is read, 100 in the code
    MaxPushes,   \* bound on the pushes
    MaxResults,  \* bound on the check results
    MaxEdits     \* bound on edits, closings, checks started and reviews of others

ASSUME MergeAssumption ==
    /\ Expected \cup Required \subseteq Checks
    /\ NoCommit \notin Commits
    /\ {None, All} \cap Prs = {} /\ None # All
    /\ PageSize \in Nat \ {0}
    /\ {MaxPushes, MaxResults, MaxEdits} \subseteq Nat

(* EXPECTED_TECHNICAL_CHECKS names some.                                   *)
ASSUME ChecksAssumption == Expected # {}

VARIABLES
    state,       \* open, closed or merged
    head,        \* the commit of each pull request
    reported,    \* the checks reported so far, of each of its commits
    green,       \* those of them that have succeeded
    reviews,     \* its reviews, oldest first
    auto,        \* auto-merge is enabled
    dispatched,  \* how often CI of main was dispatched after its merge
    run,         \* the run of the workflow in progress
    waiting,     \* the event of the one that waits for it, or None
    spent,       \* history: pushes, results and edits so far, and the heads there were
    passed,      \* history: commits of which AllGreen has been true
    lost         \* history: pull requests whose look was cancelled or broken off

github == <<state, head, reported, green, reviews, auto>>
actions == <<run, waiting, lost>>
vars == <<github, dispatched, actions, spent, passed>>

NotRunning == [pc |-> "idle", todo |-> {}, pr |-> None, sha |-> NoCommit]

Init ==
    /\ state = [p \in Prs |-> "open"]
    /\ head \in [Prs -> Commits]
    /\ reported = [p \in Prs |-> [c \in Commits |-> {}]]
    /\ green = reported
    /\ reviews = [p \in Prs |-> <<>>]
    /\ auto = [p \in Prs |-> FALSE]
    /\ dispatched = [p \in Prs |-> 0]
    /\ run = NotRunning
    /\ waiting = None
    /\ spent = [push |-> 0, result |-> 0, edit |-> 0, heads |-> [p \in Prs |-> {head[p]}]]
    /\ passed = {}
    /\ lost = {}

Spend(what, bound) ==
    /\ spent[what] < bound
    /\ spent' = [spent EXCEPT ![what] = @ + 1]

-----------------------------------------------------------------------------
(* The workflow and its concurrency group.                                 *)

Covers(event) == IF event = All THEN Prs ELSE {event} \cap Prs

Started(event) ==
    IF event = None THEN NotRunning
    ELSE IF event = All THEN [NotRunning EXCEPT !.pc = "list"]
    ELSE [NotRunning EXCEPT !.pc = "pr", !.pr = event]

(* Mutant of Trigger: an event during a run is not kept.                   *)
TriggerIgnored(event) ==
    IF run.pc = "idle"
    THEN /\ run' = Started(event)
         /\ UNCHANGED <<waiting, lost>>
    ELSE UNCHANGED <<run, waiting, lost>>

(* One run at a time; of those that wait only the newest is kept.          *)
Trigger(event) ==
    IF run.pc = "idle"
    THEN /\ run' = Started(event)
         /\ UNCHANGED <<waiting, lost>>
    ELSE /\ waiting' = event
         /\ lost' = lost \cup (Covers(waiting) \ Covers(event))
         /\ UNCHANGED run

(* Mutant of EndRun: the run that waits is not started.                    *)
EndRunAlone == run' = NotRunning /\ UNCHANGED waiting

EndRun == run' = Started(waiting) /\ waiting' = None

(* A call fails: the script ends, whatever it had still to do.             *)
Abort ==
    /\ EndRun
    /\ lost' = lost \cup IF run.pc = "list" THEN Prs ELSE run.todo \cup {run.pr}

-----------------------------------------------------------------------------
(* External: what people, checks and GitHub itself do.                     *)

Dismissed(review) == [review EXCEPT !.state = IF @ = "APPROVED" THEN "DISMISSED" ELSE @]

(* A push, forced or not, dismisses the approvals; auto-merge stays        *)
(* enabled or not, as the rights of whoever pushes have it.                *)
Push(p, c) ==
    /\ spent.push < MaxPushes
    /\ spent' = [spent EXCEPT !.push = @ + 1, !.heads[p] = @ \cup {c}]
    /\ state[p] = "open" /\ c # head[p]
    /\ head' = [head EXCEPT ![p] = c]
    /\ reviews' = [reviews EXCEPT ![p] =
                      [i \in DOMAIN reviews[p] |-> Dismissed(reviews[p][i])]]
    /\ \/ auto' = [auto EXCEPT ![p] = FALSE]
       \/ UNCHANGED auto
    /\ Trigger(p)
    /\ UNCHANGED <<state, reported, green, dispatched, passed>>

(* The checks of a commit are in order: the expected ones are reported,    *)
(* and whatever is reported has succeeded.                                 *)
AllGreen(p, c) ==
    /\ Expected \subseteq reported[p][c]
    /\ reported[p][c] \subseteq green[p][c]

(* A check of a commit begins, or runs again after it has succeeded.       *)
CheckStarts(p, c, k) ==
    /\ Spend("edit", MaxEdits)
    /\ c \in spent.heads[p]
    /\ k \in reported[p][c] => k \in green[p][c]
    /\ reported' = [reported EXCEPT ![p][c] = @ \cup {k}]
    /\ green' = [green EXCEPT ![p][c] = @ \ {k}]
    /\ UNCHANGED <<state, head, reviews, auto, dispatched, actions, passed>>

(* One that has not succeeded, or runs again, ends.                        *)
CheckEnds(p, c, k, success) ==
    /\ Spend("result", MaxResults)
    /\ c \in spent.heads[p] /\ k \notin green[p][c]
    /\ reported' = [reported EXCEPT ![p][c] = @ \cup {k}]
    /\ green' = [green EXCEPT ![p][c] = IF success THEN @ \cup {k} ELSE @]
    /\ passed' = passed \cup {pc \in {<<p, c>>} : AllGreen(p, c)'}
    /\ Trigger(All)
    /\ UNCHANGED <<state, head, reviews, auto, dispatched>>

(* The title or the text of a pull request is edited, in any state.        *)
Edit(p) ==
    /\ Spend("edit", MaxEdits)
    /\ Trigger(p)
    /\ UNCHANGED <<github, dispatched, passed>>

Close(p) ==
    /\ Spend("edit", MaxEdits)
    /\ state[p] = "open"
    /\ state' = [state EXCEPT ![p] = "closed"]
    /\ UNCHANGED <<head, reported, green, reviews, auto, dispatched, actions, passed>>

(* Auto-merge may have been given up when it was closed.                   *)
Reopen(p) ==
    /\ state[p] = "closed"
    /\ state' = [state EXCEPT ![p] = "open"]
    /\ \/ auto' = [auto EXCEPT ![p] = FALSE]
       \/ UNCHANGED auto
    /\ Trigger(p)
    /\ UNCHANGED <<head, reported, green, reviews, dispatched, spent, passed>>

Review(p, by, s, c) ==
    reviews' = [reviews EXCEPT ![p] = Append(@, [by |-> by, state |-> s, commit |-> c])]

(* A review without approval, also by another workflow of the same bot.    *)
Comment(p, by) ==
    /\ Spend("edit", MaxEdits)
    /\ Review(p, by, "COMMENTED", head[p])
    /\ UNCHANGED <<state, head, reported, green, auto, dispatched, actions, passed>>

(* Somebody else approves the head, whatever its checks say.               *)
ApproveByHand(p) ==
    /\ Spend("edit", MaxEdits)
    /\ state[p] = "open"
    /\ Review(p, "other", "APPROVED", head[p])
    /\ UNCHANGED <<state, head, reported, green, auto, dispatched, actions, passed>>

(* The protection of main: an approval of the head and the required checks. *)
Protected(p) ==
    /\ \E i \in DOMAIN reviews[p] :
          reviews[p][i].state = "APPROVED" /\ reviews[p][i].commit = head[p]
    /\ Required \subseteq green[p][head[p]]

Merge(p) ==
    /\ state[p] = "open" /\ Protected(p)
    /\ state' = [state EXCEPT ![p] = "merged"]
    /\ UNCHANGED <<head, reported, green, reviews, auto, dispatched, actions, spent, passed>>

AutoMerge(p) == auto[p] /\ Merge(p)

(* Somebody merges what the protection lets through.                       *)
MergeByHand(p) == ~auto[p] /\ Merge(p)

-----------------------------------------------------------------------------
(* The script.                                                             *)

NextPr ==
    /\ \/ run.todo = {} /\ EndRun
       \/ \E p \in run.todo :
             /\ run' = [pc |-> "pr", todo |-> run.todo \ {p}, pr |-> p, sha |-> NoCommit]
             /\ UNCHANGED waiting

Goto(pc) == run' = [run EXCEPT !.pc = pc] /\ UNCHANGED waiting

(* gh pr list                                                              *)
List ==
    /\ run.pc = "list"
    /\ LET open == {p \in Prs : state[p] = "open"} IN
       \/ open = {} /\ EndRun
       \/ \E p \in open :
             /\ run' = [pc |-> "pr", todo |-> open \ {p}, pr |-> p, sha |-> NoCommit]
             /\ UNCHANGED waiting
    /\ UNCHANGED <<github, dispatched, lost, spent, passed>>

Eligible(p) == state[p] = "open"

ReadPr ==
    /\ run.pc = "pr"
    /\ lost' = lost \ {run.pr}
    /\ IF Eligible(run.pr)
       THEN /\ run' = [run EXCEPT !.pc = "checks", !.sha = head[run.pr]]
            /\ UNCHANGED waiting
       ELSE NextPr
    /\ UNCHANGED <<github, dispatched, spent, passed>>

(* Mutant of ChecksPassed: of whatever head there is now.                  *)
ChecksPassedAnyHead(p, sha) == AllGreen(p, head[p])

(* quality_checks_passed: head and checks are of one moment.               *)
ChecksPassed(p, sha) == head[p] = sha /\ AllGreen(p, sha)

ReadChecks ==
    /\ run.pc = "checks"
    /\ IF ChecksPassed(run.pr, run.sha) THEN Goto("reviews") ELSE NextPr
    /\ UNCHANGED <<github, dispatched, lost, spent, passed>>

(* Mutant of BotReviews: its comments are taken for reviews.               *)
BotReviewsAndComments(p) ==
    {i \in DOMAIN reviews[p] : i <= PageSize /\ reviews[p][i].by = "bot"}

(* The reviews of the bot on the first page, its comments left aside.      *)
BotReviews(p) ==
    {i \in DOMAIN reviews[p] :
        /\ i <= PageSize
        /\ reviews[p][i].by = "bot" /\ reviews[p][i].state # "COMMENTED"}

Approves(review, sha) == review.state = "APPROVED" /\ review.commit = sha

Current(p, sha) ==
    \E i \in BotReviews(p) :
        Approves(reviews[p][i], sha) /\ \A j \in BotReviews(p) : j <= i

ReadReviews ==
    /\ run.pc = "reviews"
    /\ Goto(IF Current(run.pr, run.sha) THEN "merge" ELSE "approve")
    /\ UNCHANGED <<github, dispatched, lost, spent, passed>>

(* The approval names the commit.                                          *)
Approve ==
    /\ run.pc = "approve"
    /\ Review(run.pr, "bot", "APPROVED", run.sha)
    /\ Goto("merge")
    /\ UNCHANGED <<state, head, reported, green, auto, dispatched, lost, spent, passed>>

(* gh pr merge --auto --match-head-commit merges at once what it can.  It  *)
(* fails if the head has moved or the pull request is closed; whether it   *)
(* fails for one that is merged already is left open.                      *)
RequestMerge ==
    LET p == run.pr IN
    /\ run.pc = "merge"
    /\ \/ /\ state[p] = "open" /\ head[p] = run.sha
          /\ IF Protected(p)
             THEN state' = [state EXCEPT ![p] = "merged"] /\ UNCHANGED auto
             ELSE auto' = [auto EXCEPT ![p] = TRUE] /\ UNCHANGED state
          /\ Goto("merged")
       \/ state[p] = "merged" /\ Goto("merged") /\ UNCHANGED <<state, auto>>
    /\ UNCHANGED <<head, reported, green, reviews, dispatched, lost, spent, passed>>

(* Mutant of ReadMerged: a merge requested is taken for done.              *)
ReadMergedUnread ==
    /\ run.pc = "merged"
    /\ Goto("dispatch")
    /\ UNCHANGED <<github, dispatched, lost, spent, passed>>

ReadMerged ==
    /\ run.pc = "merged"
    /\ IF state[run.pr] = "merged" THEN Goto("dispatch") ELSE NextPr
    /\ UNCHANGED <<github, dispatched, lost, spent, passed>>

Dispatch ==
    /\ run.pc = "dispatch"
    /\ dispatched' = [dispatched EXCEPT ![run.pr] = @ + 1]
    /\ NextPr
    /\ UNCHANGED <<github, lost, spent, passed>>

(* Any call of gh may fail; a merge request certainly does if it must.     *)
CallFails ==
    /\ run.pc # "idle"
    /\ Abort
    /\ UNCHANGED <<github, dispatched, spent, passed>>

-----------------------------------------------------------------------------
Script ==
    \/ List \/ ReadPr \/ ReadChecks \/ ReadReviews \/ Approve \/ RequestMerge
    \/ ReadMerged \/ Dispatch \/ CallFails

Outside ==
    \E p \in Prs :
       \/ \E c \in Commits :
             \/ Push(p, c)
             \/ \E k \in Checks :
                   CheckStarts(p, c, k) \/ \E success \in BOOLEAN : CheckEnds(p, c, k, success)
       \/ Edit(p) \/ Close(p) \/ Reopen(p) \/ ApproveByHand(p)
       \/ \E by \in {"bot", "other"} : Comment(p, by)
       \/ AutoMerge(p) \/ MergeByHand(p)

Next == Script \/ Outside

Spec == Init /\ [][Next]_vars

-----------------------------------------------------------------------------
(* Properties.                                                             *)

Phases == {"idle", "list", "pr", "checks", "reviews", "approve", "merge", "merged", "dispatch"}

(* Types, and that nothing waits while nothing runs, and that the script   *)
(* has a head in hand exactly between its look at it and its last call.    *)
TypeOK ==
    /\ state \in [Prs -> {"open", "closed", "merged"}]
    /\ head \in [Prs -> Commits]
    /\ reported \in [Prs -> [Commits -> SUBSET Checks]]
    /\ green \in [Prs -> [Commits -> SUBSET Checks]]
    /\ \A p \in Prs, c \in Commits : green[p][c] \subseteq reported[p][c]
    /\ \A p \in Prs : \A i \in DOMAIN reviews[p] :
          reviews[p][i] \in [by : {"bot", "other"}, commit : Commits,
                             state : {"APPROVED", "DISMISSED", "COMMENTED"}]
    /\ auto \in [Prs -> BOOLEAN]
    /\ run \in [pc : Phases, todo : SUBSET Prs, pr : Prs \cup {None},
                sha : Commits \cup {NoCommit}]
    /\ waiting \in Prs \cup {None, All}
    /\ run.pc = "idle" => waiting = None /\ run = NotRunning
    /\ (run.sha = NoCommit) = (run.pc \in {"idle", "list", "pr"})
    /\ run.pr \notin run.todo
    /\ lost \subseteq Prs

ApprovedBy(p, by) ==
    \E i \in DOMAIN reviews[p] : reviews[p][i].by = by /\ Approves(reviews[p][i], head[p])

(* What is merged is a commit of which every expected and every reported   *)
(* check, not only the required ones, has been seen to succeed, however    *)
(* heads move, checks are run again and auto-merge outlives a push while   *)
(* the script is at work.  The exception is a commit that somebody else    *)
(* has approved: auto-merge that was enabled for an earlier head, or that  *)
(* person, merges it as soon as the required checks have succeeded.        *)
MergedWasChecked ==
    \A p \in Prs : state[p] = "merged" =>
        <<p, head[p]>> \in passed \/ ApprovedBy(p, "other")

(* The bot never has two approvals of one commit in force: it does not add *)
(* to its own approval, whatever others push or say in between, as long as *)
(* one page holds all reviews.  (Beyond it the script no longer sees its   *)
(* latest review.  A commit whose approval a push has dismissed is         *)
(* approved anew if it becomes the head again.  An approval that comes     *)
(* just after a push stays beside the next one: they name two commits.)    *)
OneApprovalInForce ==
    \A p \in Prs, c \in Commits :
        Len(reviews[p]) <= PageSize =>
            Cardinality({i \in DOMAIN reviews[p] :
                            reviews[p][i].by = "bot" /\ Approves(reviews[p][i], c)}) <= 1

(* Whenever no run is left, every open pull request whose checks are in    *)
(* order is approved by the bot and set to merge: there is no order of     *)
(* pushes, results and looks in which it is forgotten.  The exceptions are *)
(* those whose look was cancelled in favour of a newer event about another *)
(* one, or cut short by a call that failed for it or for one before it.    *)
NothingForgotten ==
    run.pc = "idle" =>
        \A p \in Prs \ lost :
            state[p] = "open" /\ AllGreen(p, head[p]) => auto[p] /\ ApprovedBy(p, "bot")

(* CI of main is dispatched at most once for a pull request, and only for  *)
(* one that is merged.  (One that merges after the script has looked is    *)
(* never dispatched: nothing asks again for a merged pull request.)        *)
DispatchedOnce ==
    \A p \in Prs : dispatched[p] <= (IF state[p] = "merged" THEN 1 ELSE 0)
=============================================================================
