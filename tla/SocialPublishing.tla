-------------------------- MODULE SocialPublishing --------------------------
(***************************************************************************)
(* One scheduled social-media post (apps/admin/lib/social/posts.ts), the   *)
(* cron job that claims it when it is due, and the workflow that publishes *)
(* it to its targets (apps/admin/lib/cron/social-publish).                 *)
(*                                                                         *)
(* The claim is a transaction; everything else reads the post document and *)
(* updates it later.  The workflow's steps are retried by its runtime; a   *)
(* step that keeps failing ends the run.  The texts and media of the post, *)
(* and tenants, are left out.                                              *)
(***************************************************************************)
EXTENDS Integers, FiniteSets

CONSTANTS
    Runs,       \* workflow runs, one per claim of the post
    Pages,      \* ids of the connected Facebook pages
    Instagram,  \* ids of the Instagram accounts connected to them
    Targets,    \* the ids the post goes to
    MaxTries,   \* how often a step is retried
    Environments \* the circumstances to look at, see Circumstances

\* May staff's calls be in flight when the cron job claims the post?  Are
\* writes, answers and whole invocations lost?  Which claims are there?
Circumstances == [overlap : BOOLEAN, faults : BOOLEAN, runs : SUBSET Runs]

ASSUME SocialAssumption ==
    /\ Pages \cap Instagram = {}
    /\ Targets \subseteq Pages \cup Instagram
    /\ MaxTries \in Nat
    /\ Environments \subseteq Circumstances

NoTarget == "none"

VARIABLES
    status,   \* SocialPost.status, or "deleted"
    due,      \* has scheduledAt passed?
    results,  \* status of each target in SocialPost.targets
    calls,    \* calls of staff that have read the post and not written it yet
    pc,       \* where each run is
    linked,   \* did it find Meta's credentials?
    todo,     \* targets it has not gone through
    current,  \* the target it is at
    outcome,  \* what it is to record for it
    seen,     \* the target statuses it has read in order to write them back
    tries,    \* retries of its current step
    posted,   \* how often the post is visible at each target
    others    \* the circumstances: chosen once

postVars == <<status, due, results>>
runVars == <<pc, linked, todo, current, outcome, seen, tries>>
vars == <<status, due, results, calls, pc, linked, todo, current, outcome, seen, tries,
          posted, others>>

Faults == others.faults

\* Nothing is lost, and staff's calls and claims exclude each other.
Quiet == ~ others.faults /\ ~ others.overlap

Outcomes == {"published", "failed"}

TargetStatuses == [Targets -> {"pending"} \cup Outcomes]

Settled == {"published", "partial", "failed"}

TypeOK ==
    /\ status \in {"draft", "scheduled", "publishing", "deleted"} \cup Settled
    /\ due \in BOOLEAN
    /\ results \in TargetStatuses
    /\ calls \subseteq {"edit", "schedule", "cancel"}
    /\ pc \in [Runs -> {"unused", "claimed", "load", "targets", "call", "record", "write",
                        "conclude", "done"}]
    /\ linked \in [Runs -> BOOLEAN]
    /\ todo \in [Runs -> SUBSET Targets]
    /\ current \in [Runs -> Targets \cup {NoTarget}]
    /\ outcome \in [Runs -> Outcomes]
    /\ seen \in [Runs -> TargetStatuses]
    /\ tries \in [Runs -> 0..MaxTries]
    /\ posted \in [Targets -> Nat]
    /\ others \in Environments

Init ==
    /\ status = "draft"
    /\ due = FALSE
    /\ results = [t \in Targets |-> "pending"]
    /\ calls = {}
    /\ pc = [r \in Runs |-> "unused"]
    /\ linked = [r \in Runs |-> TRUE]
    /\ todo = [r \in Runs |-> {}]
    /\ current = [r \in Runs |-> NoTarget]
    /\ outcome = [r \in Runs |-> "failed"]
    /\ seen = [r \in Runs |-> [t \in Targets |-> "pending"]]
    /\ tries = [r \in Runs |-> 0]
    /\ posted = [t \in Targets |-> 0]
    /\ others \in Environments

-----------------------------------------------------------------------------
(***************************************************************************)
(* Staff.                                                                  *)
(***************************************************************************)

\* Mutant: posts can be edited until they are settled.
Editable_UntilSettled == status \in {"draft", "scheduled", "publishing"}

\* isEditable.
Editable == status \in {"draft", "scheduled"}

\* updatePost, setPostSchedule and cancelSchedule look at the status ...
Read(call) ==
    /\ call \notin calls
    /\ IF call = "cancel" THEN status = "scheduled" ELSE Editable
    /\ calls' = calls \cup {call}
    /\ UNCHANGED <<postVars, runVars, posted, others>>

\* ... and write without looking again.
Write(call) ==
    /\ call \in calls
    /\ calls' = calls \ {call}
    /\ IF status = "deleted" THEN UNCHANGED postVars
       ELSE \/ /\ call = "edit"
               /\ results' = [t \in Targets |-> "pending"]
               /\ UNCHANGED <<status, due>>
            \/ /\ call = "schedule"
               /\ status' = "scheduled"
               /\ due' = FALSE
               /\ UNCHANGED results
            \/ /\ call = "cancel"
               /\ status' = "draft"
               /\ due' = FALSE
               /\ UNCHANGED results
    /\ UNCHANGED <<runVars, posted, others>>

\* deletePost.
Delete ==
    /\ status # "deleted"
    /\ status' = "deleted"
    /\ UNCHANGED <<due, results, calls, runVars, posted, others>>

\* The time the post is scheduled for comes.
ComeDue ==
    /\ status = "scheduled"
    /\ ~ due
    /\ due' = TRUE
    /\ UNCHANGED <<status, results, calls, runVars, posted, others>>

-----------------------------------------------------------------------------
(***************************************************************************)
(* The cron job.                                                           *)
(***************************************************************************)

\* claimDuePosts.
Claim(r) ==
    /\ r \in others.runs
    /\ pc[r] = "unused"
    /\ status = "scheduled"
    /\ due
    /\ others.overlap \/ calls = {}
    /\ status' = "publishing"
    /\ pc' = [pc EXCEPT ![r] = "claimed"]
    /\ UNCHANGED <<due, results, calls, linked, todo, current, outcome, seen, tries, posted, others>>

\* The route starts a workflow run for each claimed post, unless it is killed
\* before.
Start(r) ==
    /\ pc[r] = "claimed"
    /\ \/ pc' = [pc EXCEPT ![r] = "load"]
       \/ Faults /\ pc' = [pc EXCEPT ![r] = "done"]
    /\ UNCHANGED <<postVars, calls, linked, todo, current, outcome, seen, tries, posted, others>>

-----------------------------------------------------------------------------
(***************************************************************************)
(* The workflow.                                                           *)
(***************************************************************************)

\* The step fails: it starts over, unless it has too often.
Retry(r) ==
    IF tries[r] < MaxTries
    THEN /\ tries' = [tries EXCEPT ![r] = @ + 1]
         /\ pc' = [pc EXCEPT ![r] = IF linked[r] THEN "targets" ELSE "load"]
    ELSE /\ pc' = [pc EXCEPT ![r] = "done"]
         /\ UNCHANGED tries

\* loadPublishablePostStep; Meta may not be connected any more.
Load(r, connected) ==
    /\ pc[r] = "load"
    /\ IF status # "publishing"
       THEN pc' = [pc EXCEPT ![r] = "done"] /\ UNCHANGED <<linked, todo>>
       ELSE /\ pc' = [pc EXCEPT ![r] = "targets"]
            /\ linked' = [linked EXCEPT ![r] = connected]
            /\ todo' = [todo EXCEPT ![r] =
                 {t \in Targets : IF connected THEN results[t] # "published"
                                  ELSE results[t] = "pending"}]
    /\ UNCHANGED <<postVars, calls, current, outcome, seen, tries, posted, others>>

\* Without credentials every pending target fails.
Refuse(r, t) ==
    /\ pc[r] = "targets"
    /\ ~ linked[r]
    /\ t \in todo[r]
    /\ pc' = [pc EXCEPT ![r] = "record"]
    /\ current' = [current EXCEPT ![r] = t]
    /\ outcome' = [outcome EXCEPT ![r] = "failed"]
    /\ UNCHANGED <<postVars, calls, linked, todo, seen, tries, posted, others>>

\* The publishing step looks for the page whose id the target has.
HasAccount(t) == t \in Pages

\* Mutant: the outcome is taken for published before Meta answers.
Check_Optimistic(r, t) ==
    /\ pc[r] = "targets"
    /\ linked[r]
    /\ t \in todo[r]
    /\ current' = [current EXCEPT ![r] = t]
    /\ IF status = "deleted" \/ results[t] = "published"
       THEN /\ todo' = [todo EXCEPT ![r] = @ \ {t}]
            /\ tries' = [tries EXCEPT ![r] = 0]
            /\ UNCHANGED <<pc, outcome>>
       ELSE /\ pc' = [pc EXCEPT ![r] = IF HasAccount(t) THEN "call" ELSE "record"]
            /\ outcome' = [outcome EXCEPT ![r] = IF HasAccount(t) THEN "published" ELSE "failed"]
            /\ UNCHANGED <<todo, tries>>
    /\ UNCHANGED <<postVars, calls, linked, seen, posted, others>>

\* publishTargetStep until it calls Meta: targets that are published, and those
\* of a deleted post, are skipped.
Check(r, t) ==
    /\ pc[r] = "targets"
    /\ linked[r]
    /\ t \in todo[r]
    /\ current' = [current EXCEPT ![r] = t]
    /\ IF status = "deleted" \/ results[t] = "published"
       THEN /\ todo' = [todo EXCEPT ![r] = @ \ {t}]
            /\ tries' = [tries EXCEPT ![r] = 0]
            /\ UNCHANGED <<pc, outcome>>
       ELSE /\ pc' = [pc EXCEPT ![r] = IF HasAccount(t) THEN "call" ELSE "record"]
            /\ outcome' = [outcome EXCEPT ![r] = "failed"]
            /\ UNCHANGED <<todo, tries>>
    /\ UNCHANGED <<postVars, calls, linked, seen, posted, others>>

\* Meta publishes the post.  The answer may be lost: the client then reports an
\* error that is worth a retry, or one that is not.
CallPublishes(r) ==
    /\ pc[r] = "call"
    /\ posted' = [posted EXCEPT ![current[r]] = @ + 1]
    /\ \/ /\ pc' = [pc EXCEPT ![r] = "record"]
          /\ outcome' = [outcome EXCEPT ![r] = "published"]
          /\ UNCHANGED tries
       \/ Faults /\ Retry(r) /\ UNCHANGED outcome
       \/ /\ Faults
          /\ pc' = [pc EXCEPT ![r] = "record"]
          /\ UNCHANGED <<outcome, tries>>
    /\ UNCHANGED <<postVars, calls, linked, todo, current, seen, others>>

\* Meta does not publish it, for good or for now.
CallFails(r) ==
    /\ pc[r] = "call"
    /\ \/ pc' = [pc EXCEPT ![r] = "record"] /\ UNCHANGED tries
       \/ Faults /\ Retry(r)
    /\ UNCHANGED <<postVars, calls, linked, todo, current, outcome, seen, posted, others>>

\* recordTargetResult reads the targets ...
RecordRead(r) ==
    /\ pc[r] = "record"
    /\ status # "deleted"
    /\ seen' = [seen EXCEPT ![r] = results]
    /\ pc' = [pc EXCEPT ![r] = "write"]
    /\ UNCHANGED <<postVars, calls, linked, todo, current, outcome, tries, posted, others>>

\* The current target is done with.
TargetDone(r) ==
    /\ pc' = [pc EXCEPT ![r] = "targets"]
    /\ todo' = [todo EXCEPT ![r] = @ \ {current[r]}]
    /\ tries' = IF linked[r] THEN [tries EXCEPT ![r] = 0] ELSE tries
    /\ UNCHANGED outcome

\* The catch block of publishTargetStep: what went wrong is recorded as a
\* failure; if that goes wrong, or the process dies, the step fails.
Thrown(r) ==
    \/ /\ outcome[r] = "published"
       /\ outcome' = [outcome EXCEPT ![r] = "failed"]
       /\ pc' = [pc EXCEPT ![r] = "record"]
       /\ UNCHANGED <<todo, tries>>
    \/ /\ outcome[r] = "failed" \/ Faults
       /\ Retry(r)
       /\ UNCHANGED <<todo, outcome>>

\* Mutant: the outcome is written for every target that is not settled.
RecordWrite_All(r) ==
    /\ pc[r] = "write"
    /\ status # "deleted"
    /\ results' = [t \in Targets |-> IF seen[r][t] = "pending" THEN outcome[r] ELSE seen[r][t]]
    /\ TargetDone(r) \/ (Faults /\ Thrown(r))
    /\ UNCHANGED <<status, due, calls, linked, current, seen, posted, others>>

\* ... and writes them all back; that it did may not reach the step.
RecordWrite(r) ==
    /\ pc[r] = "write"
    /\ status # "deleted"
    /\ results' = [seen[r] EXCEPT ![current[r]] = outcome[r]]
    /\ TargetDone(r) \/ (Faults /\ Thrown(r))
    /\ UNCHANGED <<status, due, calls, linked, current, seen, posted, others>>

\* The result is not recorded.
RecordFails(r) ==
    /\ pc[r] \in {"record", "write"}
    /\ Faults \/ status = "deleted"
    /\ Thrown(r)
    /\ UNCHANGED <<postVars, calls, linked, current, seen, posted, others>>

\* finalizePost reads the targets ...
ConcludeRead(r) ==
    /\ pc[r] = "targets"
    /\ todo[r] = {}
    /\ IF status = "deleted"
       THEN pc' = [pc EXCEPT ![r] = "done"] /\ UNCHANGED seen
       ELSE /\ seen' = [seen EXCEPT ![r] = results]
            /\ pc' = [pc EXCEPT ![r] = "conclude"]
    /\ UNCHANGED <<postVars, calls, linked, todo, current, outcome, tries, posted, others>>

Aggregate(s) ==
    IF \A t \in Targets : s[t] # "published" THEN "failed"
    ELSE IF \A t \in Targets : s[t] = "published" THEN "published"
    ELSE "partial"

\* Mutant: the run ends without writing the status.
ConcludeWrite_Nothing(r) ==
    /\ pc[r] = "conclude"
    /\ pc' = [pc EXCEPT ![r] = "done"]
    /\ UNCHANGED <<postVars, calls, linked, todo, current, outcome, seen, tries, posted, others>>

\* ... and writes the status they add up to.
ConcludeWrite(r) ==
    /\ pc[r] = "conclude"
    /\ pc' = [pc EXCEPT ![r] = "done"]
    /\ status' = IF status = "deleted" THEN status ELSE Aggregate(seen[r])
    /\ UNCHANGED <<due, results, calls, linked, todo, current, outcome, seen, tries, posted, others>>

\* It does not, or that it did does not reach the step, which is retried.
ConcludeFails(r) ==
    /\ pc[r] = "conclude"
    /\ Faults
    /\ status' \in {status, IF status = "deleted" THEN status ELSE Aggregate(seen[r])}
    /\ Retry(r)
    /\ UNCHANGED <<due, results, calls, linked, todo, current, outcome, seen, posted, others>>

RunStep(r) ==
    \/ Start(r)
    \/ \E connected \in BOOLEAN : Load(r, connected)
    \/ \E t \in Targets : Refuse(r, t) \/ Check(r, t)
    \/ CallPublishes(r) \/ CallFails(r)
    \/ RecordRead(r) \/ RecordWrite(r) \/ RecordFails(r)
    \/ ConcludeRead(r) \/ ConcludeWrite(r) \/ ConcludeFails(r)

Next ==
    \/ \E call \in {"edit", "schedule", "cancel"} : Read(call) \/ Write(call)
    \/ Delete
    \/ ComeDue
    \/ \E r \in Runs : Claim(r) \/ RunStep(r)

Spec == Init /\ [][Next]_vars

\* The runtime goes on with every run.
LiveSpec == Spec /\ \A r \in Runs : WF_vars(RunStep(r))

-----------------------------------------------------------------------------
(***************************************************************************)
(* Properties.                                                             *)
(***************************************************************************)

\* A target recorded as published shows the post, whatever staff, overlapping
\* runs and stale write-backs do.
RecordedIsReal == \A t \in Targets : results[t] = "published" => posted[t] > 0

\* A post said to be published is visible at every target.
PublishedIsReal == status = "published" => \A t \in Targets : posted[t] > 0

\* "acting as a double-publish guard" (claimDuePosts), "Idempotency: skip
\* already-published targets" (publishTargetStep): no target gets the post
\* twice.
PublishedOnce == \A t \in Targets : posted[t] <= 1

\* It does not where no call of staff overlaps the claim and no answer is lost,
\* however often the post is edited, cancelled and scheduled again before.
GuardHolds == Quiet => PublishedOnce

\* What a settled post says of its targets is what happened, there.
SettledIsTrue ==
    (Quiet /\ status \in Settled) =>
        \A t \in Targets : results[t] = "published" <=> posted[t] > 0

\* A post that is being published gets a final status, where nothing is lost,
\* or is taken back by a call that overlaps.
Settles == (status = "publishing" /\ ~ Faults) ~> (status # "publishing")
=============================================================================
