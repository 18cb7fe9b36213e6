---------------------------- MODULE InboundEmail ----------------------------
(***************************************************************************)
(* Inbound e-mails (apps/admin/app/api/resend/inbound/route.ts and         *)
(* lib/ai/inbound-email): Resend delivers the webhook of a message at      *)
(* least once; the route stores the message and starts a durable workflow, *)
(* which lets a metered AI call decide and reports to the forwarding       *)
(* admin.  A message whose channel or admin did not resolve is blocked,    *)
(* and a later delivery of it repairs that once it resolves.               *)
(*                                                                         *)
(* The AI call of the n-th attempt of message m's routing step is the call *)
(* <<m, n>> of AiUsageMetering.                                            *)
(***************************************************************************)
EXTENDS AiUsageMetering

CONSTANTS
    Mails,       \* messages
    Deliveries,  \* concurrent invocations of the webhook route
    StepTries    \* attempts of a workflow step

ASSUME MailAssumption ==
    /\ StepTries \in Nat \ {0}
    /\ Mails # {}
    /\ Mails \X (1..StepTries) \subseteq Calls

VARIABLES
    resolves,  \* per message: its channel and a forwarding admin are found
    mail,      \* the inboundEmails documents
    agent,     \* the status in the agents document of the message's run
    started,   \* runs started per message
    mailRun,   \* the workflow runs
    delivery   \* the invocations of the route

mailVars == <<resolves, mail, agent, started, mailRun, delivery>>

MailStatus == {"none", "received", "blocked", "processing", "awaiting-manual-create", "failed"}

\* "unresolved" stands for the block reasons no-channel and no-forwarding-admin.
Mail == [status : MailStatus, reason : {"none", "unresolved", "route"}, runId : BOOLEAN]

MailRun == [pc : {"none", "mark", "route", "asking", "persist", "reply", "fail",
                  "completed", "failed"},
            tries : 0..(StepTries - 1)]

Delivery == [pc : {"idle", "repair", "claim", "load", "persist", "block", "start", "started"},
             mail : Mails,
             resolved : BOOLEAN]

MailTypeOK ==
    /\ resolves \in [Mails -> BOOLEAN]
    /\ mail \in [Mails -> Mail]
    /\ agent \in [Mails -> {"none", "processing", "completed", "failed"}]
    /\ started \in [Mails -> Nat]
    /\ mailRun \in [Mails -> MailRun]
    /\ delivery \in [Deliveries -> Delivery]

MailInit ==
    /\ resolves = [m \in Mails |-> FALSE]
    /\ mail = [m \in Mails |-> [status |-> "none", reason |-> "none", runId |-> FALSE]]
    /\ agent = [m \in Mails |-> "none"]
    /\ started = [m \in Mails |-> 0]
    /\ mailRun = [m \in Mails |-> [pc |-> "none", tries |-> 0]]
    /\ delivery = [d \in Deliveries |->
                     [pc |-> "idle", mail |-> CHOOSE m \in Mails : TRUE, resolved |-> FALSE]]

\* Messages arrive in the settings in which their AI calls may be made.
Receives(m) == setting.kind[<<m, 1>>] = "text"

\* Staff add or remove a channel's alias or forwarding admin.
ContextChanges(m) ==
    /\ Receives(m)
    /\ resolves' = [resolves EXCEPT ![m] = ~ @]
    /\ UNCHANGED <<usageVars, mail, agent, started, mailRun, delivery>>

-----------------------------------------------------------------------------
(***************************************************************************)
(* The webhook route.                                                      *)
(***************************************************************************)

DeliveryAt(d, pc) == delivery[d].pc = pc

DeliveryTo(d, pc) == delivery' = [delivery EXCEPT ![d].pc = pc]

\* shouldRepairBlockedStartContextRecord.
Repairable(m) ==
    mail[m].status = "blocked" /\ ~ mail[m].runId /\ mail[m].reason = "unresolved"

\* The record is read: unknown, to be repaired, or answered as a duplicate.
Deliver(d, m) ==
    /\ Receives(m)
    /\ DeliveryAt(d, "idle")
    /\ mail[m].status = "none" \/ Repairable(m)
    /\ delivery' = [delivery EXCEPT
          ![d] = [pc |-> IF mail[m].status = "none" THEN "load" ELSE "repair",
                  mail |-> m, resolved |-> FALSE]]
    /\ UNCHANGED <<usageVars, resolves, mail, agent, started, mailRun>>

\* The start context is loaded; an unresolved one repairs nothing.
LoadContext(d) ==
    /\ DeliveryAt(d, "load") \/ DeliveryAt(d, "repair")
    /\ LET found == resolves[delivery[d].mail]
           next == IF DeliveryAt(d, "load") THEN "persist"
                   ELSE IF found THEN "claim" ELSE "idle"
       IN delivery' = [delivery EXCEPT ![d].pc = next, ![d].resolved = found]
    /\ UNCHANGED <<usageVars, resolves, mail, agent, started, mailRun>>

\* Mutant: the claim trusts the record that was read before.
Claim_Unchecked(d) ==
    LET m == delivery[d].mail IN
    /\ DeliveryAt(d, "claim")
    /\ mail' = [mail EXCEPT ![m].status = "received", ![m].reason = "none"]
    /\ DeliveryTo(d, "start")
    /\ UNCHANGED <<usageVars, resolves, agent, started, mailRun>>

\* The transaction of claimInboundEmailStartContextResolved.
Claim(d) ==
    LET m == delivery[d].mail IN
    /\ DeliveryAt(d, "claim")
    /\ IF Repairable(m)
       THEN /\ mail' = [mail EXCEPT ![m].status = "received", ![m].reason = "none"]
            /\ DeliveryTo(d, "start")
       ELSE DeliveryTo(d, "idle") /\ UNCHANGED mail
    /\ UNCHANGED <<usageVars, resolves, agent, started, mailRun>>

\* The transaction of persistInboundEmailRecordIfNew.
Persist(d) ==
    LET m == delivery[d].mail IN
    /\ DeliveryAt(d, "persist")
    /\ IF mail[m].status = "none"
       THEN /\ mail' = [mail EXCEPT ![m].status = "received"]
            /\ DeliveryTo(d, IF delivery[d].resolved THEN "start" ELSE "block")
       ELSE DeliveryTo(d, "idle") /\ UNCHANGED mail
    /\ UNCHANGED <<usageVars, resolves, agent, started, mailRun>>

\* persistBlockedInboundEmail.
Block(d) ==
    /\ DeliveryAt(d, "block")
    /\ mail' = [mail EXCEPT ![delivery[d].mail].status = "blocked",
                            ![delivery[d].mail].reason = "unresolved"]
    /\ DeliveryTo(d, "idle")
    /\ UNCHANGED <<usageVars, resolves, agent, started, mailRun>>

\* start(runInboundEmailWorkflow).
Start(d) ==
    LET m == delivery[d].mail IN
    /\ DeliveryAt(d, "start")
    /\ started' = [started EXCEPT ![m] = @ + 1]
    /\ mailRun' = [mailRun EXCEPT ![m].pc = "mark", ![m].tries = 0]
    /\ DeliveryTo(d, "started")
    /\ UNCHANGED <<usageVars, resolves, mail, agent>>

\* markInboundEmailWorkflowStarted.
MarkStarted(d) ==
    /\ DeliveryAt(d, "started")
    /\ mail' = [mail EXCEPT ![delivery[d].mail].runId = TRUE]
    /\ DeliveryTo(d, "idle")
    /\ UNCHANGED <<usageVars, resolves, agent, started, mailRun>>

\* The invocation throws, which answers 500, or is killed.  Resend delivers
\* again, and the message that was stored is taken for a duplicate.
DeliveryFails(d) ==
    /\ Fault("store") \/ Fault("death")
    /\ ~ DeliveryAt(d, "idle")
    /\ DeliveryTo(d, "idle")
    /\ UNCHANGED <<usageVars, resolves, mail, agent, started, mailRun>>

DeliveryStep(d) ==
    \/ LoadContext(d) \/ Claim(d) \/ Persist(d) \/ Block(d)
    \/ Start(d) \/ MarkStarted(d) \/ DeliveryFails(d)

-----------------------------------------------------------------------------
(***************************************************************************)
(* The steps of runInboundEmailWorkflow.                                   *)
(***************************************************************************)

RunAt(m, pc) == mailRun[m].pc = pc

Onward(r, pc) == [r EXCEPT !.pc = pc, !.tries = 0]

\* A step that threw is repeated; at last the error is thrown in the workflow.
Failed(r, catch) ==
    IF r.tries + 1 < StepTries THEN [r EXCEPT !.tries = @ + 1] ELSE Onward(r, catch)

RunTo(m, r) == mailRun' = [mailRun EXCEPT ![m] = r]

\* A step's writes are done, all of them, or some before it threw.
MarkProcessingWrites(m) ==
    /\ mail' = [mail EXCEPT ![m].status = "processing", ![m].runId = TRUE]
    /\ agent' = [agent EXCEPT ![m] = "processing"]

MarkProcessing(m) ==
    /\ RunAt(m, "mark")
    /\ MarkProcessingWrites(m)
    /\ RunTo(m, Onward(mailRun[m], "route"))
    /\ UNCHANGED <<usageVars, resolves, started, delivery>>

RouteWrite(m, outcome) ==
    mail' = [mail EXCEPT ![m].status = outcome,
                         ![m].reason = IF outcome = "blocked" THEN "route" ELSE "none"]

AfterRoute(outcome) == IF outcome = "blocked" THEN "reply" ELSE "persist"

\* A sender that is not trusted or not one exact customer is blocked at once.
RouteBlocks(m) ==
    /\ RunAt(m, "route")
    /\ RouteWrite(m, "blocked")
    /\ RunTo(m, Onward(mailRun[m], "reply"))
    /\ UNCHANGED <<usageVars, resolves, agent, started, delivery>>

Asked(m) == <<m, mailRun[m].tries + 1>>

\* Otherwise the attempt makes a metered call of the model.  (A second call,
\* with the customer's recent orders, is left out.)
RouteAsks(m, mode) ==
    /\ RunAt(m, "route")
    /\ Prepare(Asked(m), mode)
    /\ RunTo(m, [mailRun[m] EXCEPT !.pc = "asking"])
    /\ UNCHANGED <<resolves, mail, agent, started, delivery>>

\* The decision that follows from the answer is saved.
RouteDecides(m, outcome) ==
    /\ RunAt(m, "asking") /\ call[Asked(m)].pc = "done"
    /\ RouteWrite(m, outcome)
    /\ RunTo(m, Onward(mailRun[m], AfterRoute(outcome)))
    /\ UNCHANGED <<usageVars, resolves, agent, started, delivery>>

\* The call was denied, failed or was killed with the attempt.
RouteThrows(m) ==
    /\ RunAt(m, "asking")
    /\ call[Asked(m)].pc \in {"denied", "failed", "gone"}
    /\ RunTo(m, Failed([mailRun[m] EXCEPT !.pc = "route"], "fail"))
    /\ UNCHANGED <<usageVars, resolves, mail, agent, started, delivery>>

\* persistInboundEmailManualCreateStep.
PersistWrites(m) ==
    /\ mail' = [mail EXCEPT ![m].status = "awaiting-manual-create"]
    /\ agent' = [agent EXCEPT ![m] = "completed"]

PersistManualCreate(m) ==
    /\ RunAt(m, "persist")
    /\ PersistWrites(m)
    /\ RunTo(m, Onward(mailRun[m], "reply"))
    /\ UNCHANGED <<usageVars, resolves, started, delivery>>

\* sendInboundAdminReplyStep, which knows the agent from the record's runId.
ReplyWrites(m) ==
    agent' = IF mail[m].runId THEN [agent EXCEPT ![m] = "completed"] ELSE agent

Reply(m) ==
    /\ RunAt(m, "reply")
    /\ ReplyWrites(m)
    /\ RunTo(m, Onward(mailRun[m], "completed"))
    /\ UNCHANGED <<usageVars, resolves, mail, started, delivery>>

\* The reply is returned without being awaited in the try block: its error
\* ends the run without the catch block.
ReplyThrows(m) ==
    /\ Fault("send") \/ Fault("store")
    /\ RunAt(m, "reply")
    /\ \/ UNCHANGED agent
       \/ Fault("store") /\ ReplyWrites(m)
    /\ RunTo(m, Failed(mailRun[m], "failed"))
    /\ UNCHANGED <<usageVars, resolves, mail, started, delivery>>

\* Mutant: the failure is only thrown on.
FailureWrites_None(m) == UNCHANGED <<mail, agent>>

\* markInboundEmailFailureStep, in the catch block.
FailureWrites(m) ==
    /\ mail' = [mail EXCEPT ![m].status = "failed", ![m].runId = TRUE]
    /\ agent' = [agent EXCEPT ![m] = "failed"]

MarkFailure(m) ==
    /\ RunAt(m, "fail")
    /\ FailureWrites(m)
    /\ RunTo(m, Onward(mailRun[m], "failed"))
    /\ UNCHANGED <<usageVars, resolves, started, delivery>>

\* The writes of a step that throws are each applied or not.
Partly(m, writes) ==
    \E applied \in SUBSET {"mail", "agent"} :
        /\ mail' = IF "mail" \in applied THEN [mail EXCEPT ![m] = writes.mail] ELSE mail
        /\ agent' = IF "agent" \in applied THEN [agent EXCEPT ![m] = writes.agent] ELSE agent

StepFails(m) ==
    /\ Fault("store")
    /\ \/ /\ RunAt(m, "mark")
          /\ Partly(m, [mail |-> [mail[m] EXCEPT !.status = "processing", !.runId = TRUE],
                        agent |-> "processing"])
          /\ RunTo(m, Failed(mailRun[m], "fail"))
       \/ /\ RunAt(m, "route") \/ (RunAt(m, "asking") /\ call[Asked(m)].pc = "done")
          /\ \/ UNCHANGED mail
             \/ \E outcome \in {"blocked", "processing"} : RouteWrite(m, outcome)
          /\ UNCHANGED agent
          /\ RunTo(m, Failed([mailRun[m] EXCEPT !.pc = "route"], "fail"))
       \/ /\ RunAt(m, "persist")
          /\ Partly(m, [mail |-> [mail[m] EXCEPT !.status = "awaiting-manual-create"],
                        agent |-> "completed"])
          /\ RunTo(m, Failed(mailRun[m], "fail"))
       \/ /\ RunAt(m, "fail")
          /\ Partly(m, [mail |-> [mail[m] EXCEPT !.status = "failed", !.runId = TRUE],
                        agent |-> "failed"])
          /\ RunTo(m, Failed(mailRun[m], "failed"))
    /\ UNCHANGED <<usageVars, resolves, started, delivery>>

MailStep(m) ==
    \/ MarkProcessing(m)
    \/ RouteBlocks(m) \/ RouteThrows(m)
    \/ \E mode \in Modes : RouteAsks(m, mode)
    \/ \E outcome \in {"blocked", "processing"} : RouteDecides(m, outcome)
    \/ PersistManualCreate(m)
    \/ Reply(m) \/ ReplyThrows(m)
    \/ MarkFailure(m)
    \/ StepFails(m)

-----------------------------------------------------------------------------
(***************************************************************************)
(* Properties.                                                             *)
(***************************************************************************)

\* An invocation that will start a run of the message, or block it.
Decides(d, m) == delivery[d].mail = m /\ delivery[d].pc \in {"start", "block"}

\* However many deliveries of a message overlap, and although a blocked one
\* is repaired by a later delivery, at most one run works on it: one
\* invocation decides, and none after a run was started.
OneRunPerMail ==
    \A m \in Mails :
        /\ started[m] <= 1
        /\ \A d, e \in Deliveries : Decides(d, m) /\ Decides(e, m) => d = e
        /\ started[m] = 1 => ~ \E d \in Deliveries : Decides(d, m)

\* The test "marks the inbound email as failed when a workflow step throws":
\* the message of a run that failed is marked as failed.
FailedRunMarked ==
    \A m \in Mails : RunAt(m, "failed") => mail[m].status = "failed"
=============================================================================
