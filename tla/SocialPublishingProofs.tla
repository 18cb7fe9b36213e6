----------------------- MODULE SocialPublishingProofs -----------------------
(***************************************************************************)
(* For any number of runs, targets and retries, with staff's calls in      *)
(* flight and every failure: what a post says was published was published. *)
(* The argument follows the evidence that Meta published something from its*)
(* answer, through the run that writes it back, to the document.  And where*)
(* no call of staff overlaps the claim and no answer is lost, a target gets*)
(* the post once and is settled truthfully.                                *)
(***************************************************************************)
EXTENDS SocialPublishing, TLAPS

-----------------------------------------------------------------------------
(***************************************************************************)
(* Types.                                                                  *)
(***************************************************************************)

\* The types of the post and of what happens outside the runs.
PostTypeOK ==
    /\ status \in {"draft", "scheduled", "publishing", "deleted"} \cup Settled
    /\ due \in BOOLEAN
    /\ results \in TargetStatuses
    /\ calls \subseteq {"edit", "schedule", "cancel"}
    /\ posted \in [Targets -> Nat]
    /\ others \in Environments

RunTypeOK ==
    /\ pc \in [Runs -> {"unused", "claimed", "load", "targets", "call", "record", "write",
                        "conclude", "done"}]
    /\ linked \in [Runs -> BOOLEAN]
    /\ todo \in [Runs -> SUBSET Targets]
    /\ current \in [Runs -> Targets \cup {NoTarget}]
    /\ outcome \in [Runs -> Outcomes]
    /\ seen \in [Runs -> TargetStatuses]
    /\ tries \in [Runs -> 0..MaxTries]

\* A run that is publishing or recording is at a target.
AtTarget == \A r \in Runs : pc[r] \in {"call", "record", "write"} => current[r] \in Targets

Typed == PostTypeOK /\ RunTypeOK /\ AtTarget

\* A step that fails is retried at most MaxTries times, from where it starts.
LEMMA RetryTyped ==
    ASSUME NEW r \in Runs, RunTypeOK, Retry(r)
    PROVE  /\ tries' \in [Runs -> 0..MaxTries]
           /\ pc' \in [Runs -> {"unused", "claimed", "load", "targets", "call", "record", "write",
                                "conclude", "done"}]
           /\ pc'[r] \in {"load", "targets", "done"}
           /\ \A q \in Runs \ {r} : pc'[q] = pc[q]
BY SocialAssumption DEF RunTypeOK, Retry

LEMMA ThrownTyped ==
    ASSUME NEW r \in Runs, RunTypeOK, Thrown(r)
    PROVE  /\ tries' \in [Runs -> 0..MaxTries]
           /\ todo' \in [Runs -> SUBSET Targets]
           /\ outcome' \in [Runs -> Outcomes]
           /\ pc' \in [Runs -> {"unused", "claimed", "load", "targets", "call", "record", "write",
                                "conclude", "done"}]
           /\ pc'[r] \in {"load", "targets", "done", "record"}
           /\ pc'[r] = "record" => outcome'[r] = "failed"
           /\ \A q \in Runs \ {r} : pc'[q] = pc[q] /\ outcome'[q] = outcome[q]
<1>1. CASE outcome[r] = "published" /\ outcome' = [outcome EXCEPT ![r] = "failed"]
           /\ pc' = [pc EXCEPT ![r] = "record"] /\ UNCHANGED <<todo, tries>>
  BY <1>1 DEF RunTypeOK, Outcomes
<1>2. CASE Retry(r) /\ UNCHANGED <<todo, outcome>>
  BY <1>2, RetryTyped DEF RunTypeOK
<1> QED  BY <1>1, <1>2 DEF Thrown

LEMMA TypedInit == Init => Typed
<1> SUFFICES ASSUME Init PROVE Typed
  OBVIOUS
<1>1. [t \in Targets |-> "pending"] \in TargetStatuses
  BY DEF TargetStatuses
<1>2. PostTypeOK
  BY <1>1 DEF Init, PostTypeOK
<1>3. RunTypeOK
  BY <1>1, SocialAssumption DEF Init, RunTypeOK, Outcomes
<1>4. AtTarget
  BY DEF Init, AtTarget
<1> QED  BY <1>2, <1>3, <1>4 DEF Typed

LEMMA TypedStep == Typed /\ [Next]_vars => Typed'
<1> SUFFICES ASSUME Typed, [Next]_vars PROVE Typed'
  OBVIOUS
<1> USE DEF Typed
<1>1. ASSUME NEW call \in {"edit", "schedule", "cancel"}, Read(call) \/ Write(call) PROVE Typed'
  BY <1>1 DEF Read, Write, PostTypeOK, RunTypeOK, AtTarget, TargetStatuses, Outcomes, postVars,
              runVars
<1>2. ASSUME Delete \/ ComeDue PROVE Typed'
  BY <1>2 DEF Delete, ComeDue, PostTypeOK, RunTypeOK, AtTarget, runVars
<1>3. ASSUME NEW r \in Runs, Claim(r) \/ Start(r) PROVE Typed'
  BY <1>3 DEF Claim, Start, PostTypeOK, RunTypeOK, AtTarget, postVars
<1>4. ASSUME NEW r \in Runs, NEW connected \in BOOLEAN, Load(r, connected) PROVE Typed'
  BY <1>4 DEF Load, PostTypeOK, RunTypeOK, AtTarget, postVars
<1>5. ASSUME NEW r \in Runs, NEW t \in Targets, Refuse(r, t) \/ Check(r, t) PROVE Typed'
  <2>1. CASE Refuse(r, t)
    BY <2>1 DEF Refuse, PostTypeOK, RunTypeOK, AtTarget, Outcomes, postVars
  <2>2. CASE Check(r, t)
    BY <2>2, SocialAssumption DEF Check, PostTypeOK, RunTypeOK, AtTarget, Outcomes, postVars
  <2> QED  BY <1>5, <2>1, <2>2
<1>6. ASSUME NEW r \in Runs, CallPublishes(r) \/ CallFails(r) PROVE Typed'
  <2>1. posted' \in [Targets -> Nat] /\ UNCHANGED <<postVars, calls, linked, todo, current, seen, others>>
    BY <1>6 DEF CallPublishes, CallFails, PostTypeOK
  <2>2. CASE Retry(r) /\ UNCHANGED outcome
    BY <2>1, <2>2, RetryTyped DEF PostTypeOK, RunTypeOK, AtTarget, postVars
  <2>3. CASE /\ pc[r] = "call"
             /\ pc' = [pc EXCEPT ![r] = "record"]
             /\ outcome' \in {outcome, [outcome EXCEPT ![r] = "published"]}
             /\ UNCHANGED tries
    BY <2>1, <2>3 DEF PostTypeOK, RunTypeOK, AtTarget, Outcomes, postVars
  <2> QED  BY <1>6, <2>2, <2>3 DEF CallPublishes, CallFails
<1>7. ASSUME NEW r \in Runs, RecordRead(r) \/ RecordWrite(r) \/ RecordFails(r) PROVE Typed'
  <2>1. CASE RecordRead(r)
    BY <2>1 DEF RecordRead, PostTypeOK, RunTypeOK, AtTarget, postVars
  <2>2. CASE RecordWrite(r)
    <3>1. PostTypeOK'
      BY <2>2 DEF RecordWrite, PostTypeOK, RunTypeOK, TargetStatuses, Outcomes
    <3>2. CASE TargetDone(r)
      BY <2>2, <3>1, <3>2, SocialAssumption DEF RecordWrite, TargetDone, RunTypeOK, AtTarget
    <3>3. CASE Thrown(r)
      BY <2>2, <3>1, <3>3, ThrownTyped DEF RecordWrite, RunTypeOK, AtTarget
    <3> QED  BY <2>2, <3>2, <3>3 DEF RecordWrite
  <2>3. CASE RecordFails(r)
    BY <2>3, ThrownTyped DEF RecordFails, PostTypeOK, RunTypeOK, AtTarget, postVars
  <2> QED  BY <1>7, <2>1, <2>2, <2>3
<1>8. ASSUME NEW r \in Runs, ConcludeRead(r) \/ ConcludeWrite(r) \/ ConcludeFails(r) PROVE Typed'
  <2>1. CASE ConcludeRead(r)
    BY <2>1 DEF ConcludeRead, PostTypeOK, RunTypeOK, AtTarget, postVars
  <2>2. CASE ConcludeWrite(r)
    BY <2>2 DEF ConcludeWrite, Aggregate, Settled, PostTypeOK, RunTypeOK, AtTarget
  <2>3. CASE ConcludeFails(r)
    <3>1. status' \in {status} \cup Settled
      BY <2>3 DEF ConcludeFails, Aggregate, Settled
    <3> QED  BY <2>3, <3>1, RetryTyped DEF ConcludeFails, PostTypeOK, RunTypeOK, AtTarget
  <2> QED  BY <1>8, <2>1, <2>2, <2>3
<1>9. CASE UNCHANGED vars
  BY <1>9 DEF vars, PostTypeOK, RunTypeOK, AtTarget
<1> QED
  BY <1>1, <1>2, <1>3, <1>4, <1>5, <1>6, <1>7, <1>8, <1>9 DEF Next, RunStep

\* Every variable keeps its type: TypeOK.
THEOREM SocialTypes == Spec => []TypeOK
<1>1. Typed => TypeOK
  BY DEF Typed, PostTypeOK, RunTypeOK, TypeOK
<1> QED  BY TypedInit, TypedStep, <1>1, PTL DEF Spec

-----------------------------------------------------------------------------
(***************************************************************************)
(* Evidence.                                                               *)
(***************************************************************************)

\* A run is to record a success only where there was one ...
RunKnows ==
    \A r \in Runs :
      /\ pc[r] = "call" => outcome[r] = "failed"
      /\ pc[r] \in {"record", "write"} /\ outcome[r] = "published" => posted[current[r]] > 0

\* ... and the successes it writes back are real.
CopyIsReal == \A r \in Runs : \A t \in Targets : seen[r][t] = "published" => posted[t] > 0

Evidence == RunKnows /\ CopyIsReal /\ RecordedIsReal /\ PublishedIsReal

\* Meta's side only grows.
LEMMA PostedGrows ==
    Typed /\ [Next]_vars => \A t \in Targets : posted[t] > 0 => posted'[t] > 0
<1> SUFFICES ASSUME Typed, [Next]_vars
             PROVE  \A t \in Targets : posted[t] > 0 => posted'[t] > 0
  OBVIOUS
<1>1. ASSUME NEW r \in Runs, CallPublishes(r)
      PROVE  \A t \in Targets : posted[t] > 0 => posted'[t] > 0
  BY <1>1 DEF Typed, PostTypeOK, CallPublishes
<1>2. CASE UNCHANGED posted
  BY <1>2
<1>3. (\E r \in Runs : CallPublishes(r)) \/ UNCHANGED posted
  BY DEF Next, vars, Read, Write, Delete, ComeDue, Claim, RunStep, Start, Load, Refuse, Check,
         CallFails, RecordRead, RecordWrite, RecordFails, ConcludeRead, ConcludeWrite, ConcludeFails
<1> QED  BY <1>1, <1>2, <1>3

LEMMA EvidenceStep == Typed /\ Evidence /\ [Next]_vars => Evidence'
<1> SUFFICES ASSUME Typed, Evidence, [Next]_vars PROVE Evidence'
  OBVIOUS
<1>0. (\A t \in Targets : posted[t] > 0 => posted'[t] > 0) /\ Typed'
  BY PostedGrows, TypedStep
<1> USE DEF Evidence
<1>1. ASSUME NEW call \in {"edit", "schedule", "cancel"}, Read(call) \/ Write(call)
      PROVE  Evidence'
  BY <1>1 DEF Read, Write, RunKnows, CopyIsReal, RecordedIsReal, PublishedIsReal, postVars, runVars
<1>2. ASSUME Delete \/ ComeDue PROVE Evidence'
  BY <1>2 DEF Delete, ComeDue, RunKnows, CopyIsReal, RecordedIsReal, PublishedIsReal, runVars
<1>3. ASSUME NEW r \in Runs, Claim(r) \/ Start(r) PROVE Evidence'
  BY <1>3 DEF Claim, Start, Typed, RunTypeOK, RunKnows, CopyIsReal, RecordedIsReal,
              PublishedIsReal, postVars
<1>4. ASSUME NEW r \in Runs, NEW connected \in BOOLEAN, Load(r, connected) PROVE Evidence'
  BY <1>4 DEF Load, Typed, RunTypeOK, RunKnows, CopyIsReal, RecordedIsReal, PublishedIsReal,
              postVars
<1>5. ASSUME NEW r \in Runs, NEW t \in Targets, Refuse(r, t) \/ Check(r, t) PROVE Evidence'
  <2>1. UNCHANGED <<postVars, seen, posted>>
    BY <1>5 DEF Refuse, Check
  <2>2. RunKnows'
    BY <1>5 DEF Refuse, Check, Typed, RunTypeOK, RunKnows
  <2> QED  BY <2>1, <2>2 DEF CopyIsReal, RecordedIsReal, PublishedIsReal, postVars
<1>6. ASSUME NEW r \in Runs, CallPublishes(r) \/ CallFails(r) PROVE Evidence'
  <2>1. UNCHANGED <<postVars, current, seen>>
    BY <1>6 DEF CallPublishes, CallFails
  <2>2. CopyIsReal' /\ RecordedIsReal' /\ PublishedIsReal'
    BY <1>0, <2>1 DEF CopyIsReal, RecordedIsReal, PublishedIsReal, postVars
  <2>3. ASSUME NEW q \in Runs \ {r} PROVE pc'[q] = pc[q] /\ outcome'[q] = outcome[q]
    BY <1>6, RetryTyped DEF CallPublishes, CallFails, Typed, RunTypeOK
  <2>4. pc'[r] # "call"
    BY <1>6, RetryTyped DEF CallPublishes, CallFails, Typed, RunTypeOK
  <2>5. CASE CallPublishes(r)
    <3>1. current[r] \in Targets /\ posted'[current[r]] > 0
      BY <2>5 DEF CallPublishes, Typed, AtTarget, PostTypeOK
    <3> QED  BY <1>0, <2>1, <2>2, <2>3, <2>4, <3>1 DEF RunKnows, Typed, AtTarget
  <2>6. CASE CallFails(r)
    <3>1. outcome'[r] = "failed"
      BY <2>6 DEF CallFails, RunKnows
    <3> QED  BY <1>0, <2>1, <2>2, <2>3, <2>4, <3>1 DEF RunKnows, Typed, AtTarget
  <2> QED  BY <1>6, <2>5, <2>6
<1>7. ASSUME NEW r \in Runs, RecordRead(r) \/ RecordWrite(r) \/ RecordFails(r) PROVE Evidence'
  <2>1. UNCHANGED <<status, current, posted>>
    BY <1>7 DEF RecordRead, RecordWrite, RecordFails, postVars
  <2>2. CASE RecordRead(r)
    BY <2>1, <2>2 DEF RecordRead, Typed, RunTypeOK, RunKnows, CopyIsReal, RecordedIsReal,
                      PublishedIsReal, postVars
  <2>3. CASE RecordWrite(r)
    <3>1. RecordedIsReal'
      BY <2>1, <2>3 DEF RecordWrite, Typed, RunTypeOK, TargetStatuses, RunKnows, CopyIsReal,
                        RecordedIsReal
    <3>2. RunKnows'
      <4>1. CASE TargetDone(r)
        BY <2>1, <4>1 DEF TargetDone, Typed, RunTypeOK, RunKnows
      <4>2. CASE Thrown(r)
        BY <2>1, <4>2, ThrownTyped DEF Typed, RunKnows
      <4> QED  BY <2>3, <4>1, <4>2 DEF RecordWrite
    <3> QED  BY <2>1, <2>3, <3>1, <3>2 DEF RecordWrite, CopyIsReal, PublishedIsReal
  <2>4. CASE RecordFails(r)
    <3>1. RunKnows'
      BY <2>1, <2>4, ThrownTyped DEF RecordFails, Typed, RunKnows
    <3> QED  BY <2>1, <2>4, <3>1 DEF RecordFails, CopyIsReal, RecordedIsReal, PublishedIsReal,
                                     postVars
  <2> QED  BY <1>7, <2>2, <2>3, <2>4
<1>8. ASSUME NEW r \in Runs, ConcludeRead(r) \/ ConcludeWrite(r) \/ ConcludeFails(r)
      PROVE  Evidence'
  <2>1. CASE ConcludeRead(r)
    BY <2>1 DEF ConcludeRead, Typed, RunTypeOK, RunKnows, CopyIsReal, RecordedIsReal,
                PublishedIsReal, postVars
  <2>2. CASE ConcludeWrite(r)
    <3>1. Aggregate(seen[r]) = "published" => \A t \in Targets : seen[r][t] = "published"
      BY DEF Aggregate
    <3>2. PublishedIsReal'
      BY <2>2, <3>1 DEF ConcludeWrite, CopyIsReal, PublishedIsReal
    <3> QED  BY <2>2, <3>2 DEF ConcludeWrite, Typed, RunTypeOK, RunKnows, CopyIsReal,
                               RecordedIsReal
  <2>3. CASE ConcludeFails(r)
    <3>1. Aggregate(seen[r]) = "published" => \A t \in Targets : seen[r][t] = "published"
      BY DEF Aggregate
    <3>2. PublishedIsReal'
      BY <2>3, <3>1 DEF ConcludeFails, CopyIsReal, PublishedIsReal
    <3> QED  BY <2>3, <3>2, RetryTyped DEF ConcludeFails, Typed, RunKnows, CopyIsReal,
                                           RecordedIsReal
  <2> QED  BY <1>8, <2>1, <2>2, <2>3
<1>9. CASE UNCHANGED vars
  BY <1>9 DEF vars, RunKnows, CopyIsReal, RecordedIsReal, PublishedIsReal
<1> QED
  BY <1>1, <1>2, <1>3, <1>4, <1>5, <1>6, <1>7, <1>8, <1>9 DEF Next, RunStep

LEMMA EvidenceAlways == Spec => [](Typed /\ Evidence)
<1>1. Init => Evidence
  BY DEF Init, Evidence, RunKnows, CopyIsReal, RecordedIsReal, PublishedIsReal
<1> QED  BY TypedInit, TypedStep, EvidenceStep, <1>1, PTL DEF Spec

\* A target recorded as published shows the post, whatever staff, overlapping
\* runs, lost answers and stale write-backs do: RecordedIsReal.
THEOREM RecordedTruthfully == Spec => []RecordedIsReal
BY EvidenceAlways, PTL DEF Evidence

\* A post said to be published is visible at every target, although its status
\* is added up from a copy that may be stale: PublishedIsReal.
THEOREM PublishedTruthfully == Spec => []PublishedIsReal
BY EvidenceAlways, PTL DEF Evidence

-----------------------------------------------------------------------------
(***************************************************************************)
(* The double-publish guard, where nothing interferes with the publishing. *)
(***************************************************************************)

Begun(r) == pc[r] # "unused"

Untouched == \A t \in Targets : posted[t] = 0

\* Meta's success at t is in the document, or a run is about to write it.
Noted(t) ==
    \/ results[t] = "published"
    \/ \E r \in Runs : pc[r] \in {"record", "write"} /\ current[r] = t /\ outcome[r] = "published"

\* The run that claimed the post: the status keeps everybody else away, it is
\* at a target that has not got the post, and what it read still stands.
RunAlone(r) ==
    Begun(r) =>
      /\ calls = {} /\ status \notin {"draft", "scheduled"}
      /\ pc[r] # "done" => status \in {"publishing", "deleted"}
      /\ pc[r] \in {"claimed", "load"} \/ ~ linked[r] => Untouched
      /\ pc[r] \in {"call", "record", "write"} => results[current[r]] # "published"
      /\ pc[r] = "call" => linked[r] /\ posted[current[r]] = 0
      /\ pc[r] = "write" /\ status # "deleted" => seen[r] = results

Once ==
    /\ \A t \in Targets : posted[t] <= 1
    /\ status # "deleted" => \A t \in Targets : posted[t] > 0 => Noted(t)
    /\ (\A r \in Runs : ~ Begun(r)) => Untouched

AloneInv ==
    /\ \A q, r \in Runs : Begun(q) /\ Begun(r) => q = r
    /\ \A r \in Runs : RunAlone(r)
    /\ Once

\* The steps of staff and of the clock.
LEMMA StaffAlone ==
    ASSUME Typed, Quiet, AloneInv,
           \/ \E call \in {"edit", "schedule", "cancel"} : Read(call) \/ Write(call)
           \/ Delete \/ ComeDue
    PROVE  AloneInv'
<1> USE DEF Typed, AloneInv
<1>1. UNCHANGED <<runVars, posted>>
  BY DEF Read, Write, Delete, ComeDue
<1>2. CASE \A r \in Runs : ~ Begun(r)
  BY <1>1, <1>2 DEF Begun, RunAlone, Once, Untouched, runVars, Typed, PostTypeOK
<1>3. ASSUME NEW r \in Runs, Begun(r) PROVE AloneInv'
  <2>1. calls = {} /\ status \notin {"draft", "scheduled"}
    BY <1>3 DEF RunAlone
  <2>2. UNCHANGED <<results, calls>> /\ (status' = status \/ status' = "deleted")
    BY <2>1 DEF Read, Write, Delete, ComeDue, Editable
  <2>3. \A t : Noted(t)' <=> Noted(t)
    BY <1>1, <2>2 DEF Noted, runVars
  <2>4. \A q \in Runs : RunAlone(q)'
    BY <1>1, <2>2 DEF RunAlone, Begun, Untouched, runVars
  <2>5. Once'
    BY <1>1, <2>2, <2>3 DEF Once, Begun, Untouched, runVars
  <2> QED  BY <1>1, <2>4, <2>5 DEF Begun, runVars
<1> QED  BY <1>2, <1>3

LEMMA ClaimAlone ==
    ASSUME Typed, Quiet, AloneInv, NEW r \in Runs, Claim(r)
    PROVE  AloneInv'
<1>1. /\ calls = {} /\ calls' = {} /\ status = "scheduled" /\ status' = "publishing"
      /\ pc'[r] = "claimed" /\ \A q \in Runs \ {r} : pc'[q] = pc[q]
      /\ UNCHANGED <<results, posted>>
  BY DEF Claim, Quiet, Typed, RunTypeOK
<1>2. \A q \in Runs : ~ Begun(q)
  BY <1>1 DEF AloneInv, RunAlone
<1>3. Untouched /\ Untouched'
  BY <1>1, <1>2 DEF AloneInv, Once, Untouched
<1>4. \A q \in Runs : Begun(q)' => q = r
  BY <1>1, <1>2 DEF Begun
<1>5. RunAlone(r)'
  BY <1>1, <1>3 DEF RunAlone
<1>6. Once'
  BY <1>3 DEF Once, Untouched, Typed, PostTypeOK
<1> QED  BY <1>4, <1>5, <1>6 DEF AloneInv, RunAlone

\* A step of the run that is publishing.  The document and Meta's side change
\* in two of them only.
LEMMA RunAloneStep ==
    ASSUME Typed, Typed', Quiet, RecordedIsReal, AloneInv, NEW r \in Runs, RunStep(r)
    PROVE  AloneInv'
<1> USE DEF Typed
<1>0. /\ ~ Faults /\ Begun(r) /\ RunAlone(r)
      /\ \A q \in Runs \ {r} : ~ Begun(q) /\ pc'[q] = pc[q]
      /\ pc'[r] # "unused" /\ calls' = calls
  <2>1. ~ Faults /\ Begun(r)
    BY DEF Quiet, Faults, Begun, RunStep, Start, Load, Refuse, Check, CallPublishes, CallFails,
       RecordRead, RecordWrite, RecordFails, ConcludeRead, ConcludeWrite, ConcludeFails
  <2>2. pc'[r] # "unused" /\ \A q \in Runs \ {r} : pc'[q] = pc[q]
    BY <2>1, RetryTyped, ThrownTyped DEF RunTypeOK, RunStep, Start, Load, Refuse, Check,
       CallPublishes, CallFails, RecordRead, RecordWrite, TargetDone, RecordFails, ConcludeRead,
       ConcludeWrite, ConcludeFails, Begun
  <2>3. calls' = calls
    BY DEF RunStep, Start, Load, Refuse, Check, CallPublishes, CallFails, RecordRead,
       RecordWrite, RecordFails, ConcludeRead, ConcludeWrite, ConcludeFails
  <2> QED  BY <2>1, <2>2, <2>3 DEF AloneInv
<1>a. ASSUME RunAlone(r)', Once' PROVE AloneInv'
  BY <1>0, <1>a DEF AloneInv, RunAlone, Begun
<1>n. \A t : Noted(t) <=> \/ results[t] = "published"
                          \/ pc[r] \in {"record", "write"} /\ current[r] = t /\ outcome[r] = "published"
  BY <1>0 DEF Noted, Begun
<1>o. \A t : Noted(t)' <=> \/ results'[t] = "published"
                           \/ /\ pc'[r] \in {"record", "write"} /\ current'[r] = t
                              /\ outcome'[r] = "published"
  BY <1>0 DEF Noted, Begun
<1>p. posted \in [Targets -> Nat] /\ \A t \in Targets : posted[t] <= 1
  BY DEF PostTypeOK, AloneInv, Once
<1>s. status # "deleted" => \A t \in Targets : posted[t] > 0 => Noted(t)
  BY DEF AloneInv, Once
\* Steps that leave the document and Meta's side as they are.
<1>q. ASSUME UNCHANGED <<status, results, posted>>, RunAlone(r)',
             status # "deleted" => \A t \in Targets : posted[t] > 0 => Noted(t)'
      PROVE  AloneInv'
  <2>1. Once'
    BY <1>0, <1>p, <1>q DEF Once, Begun
  <2> QED  BY <1>a, <1>q, <2>1
<1>1. CASE Start(r)
  <2>1. pc[r] = "claimed" /\ pc'[r] = "load" /\ UNCHANGED <<status, results, posted, linked>>
    BY <1>0, <1>1 DEF Start, RunTypeOK, postVars
  <2>2. RunAlone(r)'
    BY <1>0, <2>1 DEF RunAlone, Untouched, Begun
  <2> QED  BY <1>n, <1>o, <1>q, <1>s, <2>1, <2>2
<1>2. ASSUME NEW connected \in BOOLEAN, Load(r, connected) PROVE AloneInv'
  <2>1. pc[r] = "load" /\ pc'[r] \in {"done", "targets"} /\ UNCHANGED <<status, results, posted>>
    BY <1>0, <1>2 DEF Load, RunTypeOK, postVars
  <2>2. RunAlone(r)'
    BY <1>0, <2>1 DEF RunAlone, Untouched, Begun
  <2> QED  BY <1>n, <1>o, <1>q, <1>s, <2>1, <2>2
<1>3. ASSUME NEW t \in Targets, Refuse(r, t) \/ Check(r, t) PROVE AloneInv'
  <2>1. /\ pc[r] = "targets" /\ UNCHANGED <<status, results, posted, linked>>
        /\ current'[r] = t /\ pc'[r] \in {"targets", "call", "record"}
    BY <1>0, <1>3 DEF Refuse, Check, RunTypeOK, postVars
  <2>2. pc'[r] \in {"call", "record"} => results[t] # "published"
    <3>1. CASE Refuse(r, t)
      BY <1>0, <3>1 DEF Refuse, RunAlone, Untouched, RecordedIsReal, PostTypeOK
    <3>2. CASE Check(r, t)
      BY <2>1, <3>2 DEF Check
    <3> QED  BY <1>3, <3>1, <3>2
  <2>3. pc'[r] = "call" => linked[r] /\ status # "deleted"
    BY <1>0, <1>3 DEF Refuse, Check, RunTypeOK
  <2>4. pc'[r] = "call" => posted[t] = 0
    BY <1>n, <1>p, <1>s, <2>1, <2>2, <2>3
  <2>5. RunAlone(r)'
    BY <1>0, <2>1, <2>2, <2>3, <2>4 DEF RunAlone, Untouched, Begun
  <2> QED  BY <1>n, <1>o, <1>q, <1>s, <2>1, <2>5
<1>4. CASE CallPublishes(r)
  <2> DEFINE t == current[r]
  <2>1. /\ pc[r] = "call" /\ t \in Targets /\ pc'[r] = "record" /\ outcome'[r] = "published"
        /\ posted' = [posted EXCEPT ![t] = @ + 1]
        /\ UNCHANGED <<status, results, current, linked>>
    BY <1>0, <1>4 DEF CallPublishes, AtTarget, RunTypeOK, postVars
  <2>2. linked[r] /\ posted[t] = 0
    BY <1>0, <2>1 DEF RunAlone
  <2>3. RunAlone(r)'
    BY <1>0, <2>1, <2>2 DEF RunAlone, Begun
  <2> HIDE DEF t
  <2>4. posted'[t] = 1 /\ \A u \in Targets \ {t} : posted'[u] = posted[u]
    BY <1>p, <2>1, <2>2
  <2>5. Once'
    <3>1. \A u \in Targets : posted'[u] <= 1
      BY <1>p, <2>4
    <3>2. ASSUME status # "deleted", NEW u \in Targets, posted'[u] > 0 PROVE Noted(u)'
      BY <1>n, <1>o, <1>s, <2>1, <2>4, <3>2 DEF t
    <3> QED  BY <1>0, <2>1, <3>1, <3>2 DEF Once, Begun
  <2> QED  BY <1>a, <2>3, <2>5
<1>5. CASE CallFails(r)
  <2>1. /\ pc[r] = "call" /\ pc'[r] = "record"
        /\ UNCHANGED <<status, results, posted, current, linked, outcome>>
    BY <1>0, <1>5 DEF CallFails, RunTypeOK, postVars
  <2>2. RunAlone(r)'
    BY <1>0, <2>1 DEF RunAlone, Untouched, Begun
  <2> QED  BY <1>n, <1>o, <1>q, <1>s, <2>1, <2>2
<1>6. CASE RecordRead(r)
  <2>1. /\ pc[r] = "record" /\ pc'[r] = "write" /\ seen'[r] = results
        /\ UNCHANGED <<status, results, posted, current, linked, outcome>>
    BY <1>0, <1>6 DEF RecordRead, RunTypeOK, postVars
  <2>2. RunAlone(r)'
    BY <1>0, <2>1 DEF RunAlone, Untouched, Begun
  <2> QED  BY <1>n, <1>o, <1>q, <1>s, <2>1, <2>2
<1>7. CASE RecordWrite(r)
  <2> DEFINE t == current[r]
  <2>1. /\ pc[r] = "write" /\ status # "deleted" /\ pc'[r] = "targets" /\ t \in Targets
        /\ UNCHANGED <<status, posted, linked>>
    BY <1>0, <1>7 DEF RecordWrite, TargetDone, AtTarget, RunTypeOK
  <2>2. results' = [results EXCEPT ![t] = outcome[r]]
    BY <1>0, <1>7, <2>1 DEF RecordWrite, RunAlone
  <2>3. RunAlone(r)'
    BY <1>0, <2>1 DEF RunAlone, Untouched, Begun
  <2>4. results[t] # "published"
    BY <1>0, <2>1 DEF RunAlone
  <2> HIDE DEF t
  <2>5. results'[t] = outcome[r] /\ \A u \in Targets \ {t} : results'[u] = results[u]
    BY <2>1, <2>2 DEF PostTypeOK, TargetStatuses
  <2>6. \A u \in Targets : Noted(u) => Noted(u)'
    BY <1>n, <1>o, <2>4, <2>5 DEF t
  <2>7. Once'
    BY <1>0, <1>p, <1>s, <2>1, <2>6 DEF Once, Begun
  <2> QED  BY <1>a, <2>3, <2>7
<1>8. CASE RecordFails(r)
  <2>1. /\ status = "deleted" /\ UNCHANGED <<status, results, posted, linked, current>>
        /\ pc[r] \in {"record", "write"} /\ pc'[r] \in {"load", "targets", "done", "record"}
    BY <1>0, <1>8, ThrownTyped DEF RecordFails, postVars
  <2>2. pc'[r] = "load" => ~ linked[r]
    BY <1>0, <1>8 DEF RecordFails, Thrown, Retry, RunTypeOK
  <2>3. RunAlone(r)'
    BY <1>0, <2>1, <2>2 DEF RunAlone, Untouched, Begun
  <2> QED  BY <1>q, <2>1, <2>3
<1>9. CASE ConcludeRead(r)
  <2>1. /\ pc[r] = "targets" /\ pc'[r] \in {"done", "conclude"}
        /\ UNCHANGED <<status, results, posted, linked, current>>
    BY <1>0, <1>9 DEF ConcludeRead, RunTypeOK, postVars
  <2>2. RunAlone(r)'
    BY <1>0, <2>1 DEF RunAlone, Untouched, Begun
  <2> QED  BY <1>n, <1>o, <1>q, <1>s, <2>1, <2>2
<1>10. CASE ConcludeWrite(r)
  <2>1. /\ pc[r] = "conclude" /\ pc'[r] = "done"
        /\ UNCHANGED <<results, posted, linked, current>>
        /\ status' \in Settled \cup {"deleted"} /\ (status = "deleted" => status' = "deleted")
    BY <1>0, <1>10 DEF ConcludeWrite, Aggregate, Settled, RunTypeOK
  <2>2. RunAlone(r)'
    BY <1>0, <2>1 DEF RunAlone, Untouched, Begun, Settled
  <2>3. Once'
    BY <1>0, <1>n, <1>o, <1>p, <1>s, <2>1 DEF Once, Begun
  <2> QED  BY <1>a, <2>2, <2>3
<1> QED
  BY <1>0, <1>1, <1>2, <1>3, <1>4, <1>5, <1>6, <1>7, <1>8, <1>9, <1>10
     DEF RunStep, ConcludeFails

LEMMA QuietStays == [Next]_vars => others' = others
BY DEF Next, vars, Read, Write, Delete, ComeDue, Claim, RunStep, Start, Load, Refuse, Check,
       CallPublishes, CallFails, RecordRead, RecordWrite, RecordFails, ConcludeRead,
       ConcludeWrite, ConcludeFails

LEMMA AloneAlways == Spec => [](Quiet => AloneInv)
<1>1. Init => AloneInv
  BY DEF Init, AloneInv, Begun, RunAlone, Once, Untouched
<1>2. Typed /\ Typed' /\ RecordedIsReal /\ (Quiet => AloneInv) /\ [Next]_vars
        => (Quiet => AloneInv)'
  <2> SUFFICES ASSUME Typed, Typed', RecordedIsReal, Quiet, AloneInv, [Next]_vars
               PROVE  AloneInv'
    BY QuietStays DEF Quiet
  <2>1. CASE UNCHANGED vars
    BY <2>1 DEF vars, AloneInv, Begun, RunAlone, Once, Untouched, Noted
  <2> QED  BY <2>1, StaffAlone, ClaimAlone, RunAloneStep DEF Next
<1> QED
  BY <1>1, <1>2, EvidenceAlways, PTL DEF Spec, Evidence

\* Where no call of staff overlaps the claim and nothing is lost, no target
\* gets the post twice, however often it is edited, cancelled and scheduled
\* again before, and though it may be deleted at any time: GuardHolds.
THEOREM GuardIsKept == Spec => []GuardHolds
<1>1. (Quiet => AloneInv) => GuardHolds
  BY DEF AloneInv, Once, GuardHolds, PublishedOnce
<1> QED  BY <1>1, AloneAlways, PTL

\* Then the targets of a settled post are recorded as published just where the
\* post is visible: SettledIsTrue.
THEOREM SettledTruthfully == Spec => []SettledIsTrue
<1>1. Typed /\ RecordedIsReal /\ (Quiet => AloneInv) => SettledIsTrue
  <2> SUFFICES ASSUME Typed, RecordedIsReal, AloneInv, status \in Settled, NEW t \in Targets
               PROVE  results[t] = "published" <=> posted[t] > 0
    BY DEF SettledIsTrue
  <2>1. \A r \in Runs : pc[r] \notin {"record", "write"}
    BY DEF AloneInv, RunAlone, Begun, Settled
  <2> QED  BY <2>1 DEF AloneInv, Once, Noted, RecordedIsReal, Settled
<1> QED  BY <1>1, AloneAlways, EvidenceAlways, PTL DEF Evidence
=============================================================================
