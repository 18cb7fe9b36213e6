---------------------------- MODULE AiWorkflows ----------------------------
(***************************************************************************)
(* One tenant's use of AI: calls made by requests, images made by durable  *)
(* workflows and the workflows that read inbound e-mails, all of which     *)
(* share the tenant's usage counters.                                      *)
(***************************************************************************)
EXTENDS ImageGeneration, InboundEmail

\* Everything but the calls that the e-mail workflow makes.
DirectCalls == Calls \ (Mails \X (1..StepTries))

vars == <<usageVars, imageVars, mailVars>>

TypeOK == UsageTypeOK /\ ImageTypeOK /\ MailTypeOK

Init == UsageInit /\ ImageInit /\ MailInit

UsageNext ==
    /\ \/ \E ws \in SUBSET Windows : Tick(ws)
       \/ \E c \in DirectCalls, mode \in Modes : Prepare(c, mode)
       \/ \E c \in Calls : CallStep(c)
    /\ UNCHANGED <<imageVars, mailVars>>

ImageNext ==
    /\ ToggleQuota \/ \E c \in Calls : ImageStep(c)
    /\ UNCHANGED mailVars

MailNext ==
    /\ \/ \E m \in Mails : ContextChanges(m) \/ MailStep(m)
       \/ \E d \in Deliveries : DeliveryStep(d)
       \/ \E d \in Deliveries, m \in Mails : Deliver(d, m)
    /\ UNCHANGED imageVars

Next == UsageNext \/ ImageNext \/ MailNext

Spec == Init /\ [][Next]_vars

\* What was begun goes on: an invocation runs to its end or is killed, and
\* the runtime takes up every run again.  A call and the workflow around it
\* are one process.  Nobody has to call, to deliver a message or to change a
\* setting, and nothing is assumed when something may fail.
CallProcess(c) ==
    /\ Reliable
    /\ \/ CallStep(c) /\ UNCHANGED <<imageVars, mailVars>>
       \/ ImageStep(c) /\ UNCHANGED mailVars

MailProcess(m) ==
    /\ Reliable
    /\ \/ MailStep(m) /\ UNCHANGED imageVars
       \/ \E n \in 1..StepTries : CallStep(<<m, n>>) /\ UNCHANGED <<imageVars, mailVars>>

Fairness ==
    /\ \A c \in DirectCalls : WF_vars(CallProcess(c))
    /\ \A m \in Mails : WF_vars(MailProcess(m))
    /\ \A d \in Deliveries :
          WF_vars(Reliable /\ DeliveryStep(d) /\ UNCHANGED imageVars)

FairSpec == Spec /\ Fairness

-----------------------------------------------------------------------------

\* A job whose booking was refused: its workflow fails before the block whose
\* error handling releases the tenant's reservation.
Refused(c) == run[c].pc = "failed" /\ job[c].status \in {"none", "created", "reserved"}

\* A stream that broke off, of which nobody takes care any more.
Broken(c) == Kind(c) = "stream" /\ call[c].pc = "gone"

\* The comment of generateImagesWorkflow that a reservation is always
\* released, and the catch and finally blocks of the actions: unless a write
\* fails or an invocation is killed, every reservation of the tenant is finalized
\* or released in the end, whatever fails in the model and in whichever step of a
\* job.  Two keep theirs: a job whose booking was refused, and a stream that the
\* provider or the client breaks off.
ReservationSettles ==
    \A c \in Calls :
        (Reliable /\ Open(c)) ~> (Settlements(c) = 1 \/ Refused(c) \/ Broken(c))

\* What a job reserved of the account's budget is charged or given back,
\* whatever fails in the model or the upload.
BudgetFreed ==
    \A c \in DirectCalls :
        (Reliable /\ job[c].period # 0) ~> job[c].finalized

\* A message that was stored gets an outcome, although the model may refuse,
\* fail or answer late, unless a write fails or an invocation is killed.
OutcomeReached ==
    \A m \in Mails :
        (Reliable /\ mail[m].status \in {"received", "processing"})
            ~> (mail[m].status \in {"blocked", "awaiting-manual-create", "failed"})
=============================================================================
