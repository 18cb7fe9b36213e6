-------------------------- MODULE ImageGeneration --------------------------
(***************************************************************************)
(* Images made by a durable workflow                                       *)
(* (apps/admin/lib/ai/image-generation/workflow.ts, steps.server.ts and    *)
(* app/actions/generate-images-workflow.ts): the action reserves usage of  *)
(* the tenant and starts a run, whose steps reserve, charge and free the   *)
(* account's monthly budget.  A job and its run belong to one metered call *)
(* of AiUsageMetering; all jobs are of one account.                        *)
(*                                                                         *)
(* The runtime repeats a step whose attempt threw, or whose result was     *)
(* lost, up to MaxTries times; then the step throws in the workflow.       *)
(***************************************************************************)
EXTENDS AiUsageMetering

CONSTANTS
    Budget,    \* the account's monthly limit
    Price,     \* estimateMaxUsdCentsForReservation of a request
    Charges,   \* what a request may cost
    MaxTries   \* attempts of a step

ASSUME ImageAssumption ==
    /\ Budget \in Nat
    /\ Price \in Nat \ {0}
    /\ Charges \subseteq Nat
    /\ MaxTries \in Nat \ {0}

VARIABLES
    quota,     \* whether the account quota is enabled
    spent,     \* usedUsdCents per month
    booked,    \* reservedUsdCents per month
    job,       \* the job documents
    run        \* the workflow runs

budgetVars == <<spent, booked>>
imageVars == <<quota, budgetVars, job, run>>

Images == {c \in Calls : Kind(c) = "image"}

\* A period of 0 in a run stands for a null reservation.
Job == [status : {"none", "created", "reserved", "completed", "failed"},
        period : 0..Periods,
        stored : BOOLEAN,     \* the images are in the document
        charge : Nat,
        finalized : BOOLEAN,  \* quotaFinalizedAt
        counted : BOOLEAN]    \* the charge was added to the month

Run == [pc : {"none", "book", "generate", "finalize", "usage", "undo", "release",
              "completed", "failed"},
        tries : 0..(MaxTries - 1),
        period : 0..Periods,
        charge : Nat]

ImageTypeOK ==
    /\ quota \in BOOLEAN
    /\ spent \in [Period -> Nat]
    /\ booked \in [Period -> Nat]
    /\ job \in [Calls -> Job]
    /\ run \in [Calls -> Run]

ImageInit ==
    /\ quota = FALSE
    /\ spent = [p \in Period |-> 0]
    /\ booked = [p \in Period |-> 0]
    /\ job = [c \in Calls |-> [status |-> "none", period |-> 0, stored |-> FALSE,
                               charge |-> 0, finalized |-> FALSE, counted |-> FALSE]]
    /\ run = [c \in Calls |-> [pc |-> "none", tries |-> 0, period |-> 0, charge |-> 0]]

\* Staff switch the account quota on or off while there are jobs.
ToggleQuota ==
    /\ Images # {}
    /\ quota' = ~ quota
    /\ UNCHANGED <<usageVars, budgetVars, job, run>>

-----------------------------------------------------------------------------
(***************************************************************************)
(* startImageGenerationWorkflow, after reserveAiUsage.                     *)
(***************************************************************************)

Launch(c) ==
    /\ c \in Images /\ At(c, "running")
    /\ run[c].pc = "none"
    /\ run' = [run EXCEPT ![c].pc = "book"]
    /\ UNCHANGED <<usageVars, quota, budgetVars, job>>

\* start throws before there is a run; the action releases the usage.
LaunchThrows(c) ==
    /\ c \in Images /\ At(c, "running")
    /\ run[c].pc = "none"
    /\ Goto(c, "release")
    /\ UNCHANGED <<setting, now, counterVars, imageVars>>

ActionDies(c) ==
    /\ Fault("death")
    /\ c \in Images /\ call[c].pc \in {"reserve", "running", "release"}
    /\ run[c].pc = "none"
    /\ Goto(c, "gone")
    /\ UNCHANGED <<setting, now, counterVars, imageVars>>

-----------------------------------------------------------------------------
(***************************************************************************)
(* The steps of generateImagesWorkflow.                                    *)
(***************************************************************************)

In(c, pc) == c \in Images /\ run[c].pc = pc

\* A run that goes on to its next step, and one whose step threw: the runtime
\* tries again or the workflow goes to where the error takes it.
On(r, pc) == [r EXCEPT !.pc = pc, !.tries = 0]

Threw(r, pc) ==
    IF r.tries + 1 < MaxTries THEN [r EXCEPT !.tries = @ + 1] ELSE On(r, pc)

\* An attempt that leaves the run as r, or whose result the run never gets.
Ends(c, r, pc, catch) ==
    {On(r, pc)} \cup (IF Fault("store") THEN {Threw(run[c], catch)} ELSE {})

Month == now["month"]

\* Mutants: what other jobs have reserved is not counted.
OverBudget_SpentOnly == spent[Month] + Price > Budget

OverBudget == spent[Month] + booked[Month] + Price > Budget

\* reserveProjectWideImageQuotaStep, which is outside of the try block: its
\* reservation is reused when the job has one of this month.
BookQuota(c) ==
    LET reuse == job[c].status = "reserved" /\ job[c].period = Month IN
    /\ In(c, "book")
    /\ quota \/ reuse => reuse \/ ~ OverBudget
    /\ run' \in {[run EXCEPT ![c] = r] : r \in
                   Ends(c, [run[c] EXCEPT !.period = IF reuse \/ quota THEN Month ELSE 0],
                        "generate", "failed")}
    /\ CASE reuse            -> UNCHANGED <<booked, job>>
         [] ~ reuse /\ quota ->
              /\ booked' = [booked EXCEPT ![Month] = @ + Price]
              /\ job' = [job EXCEPT ![c].status = "reserved", ![c].period = Month]
         [] OTHER            ->
              /\ job' = [job EXCEPT ![c].status = "created"]
              /\ UNCHANGED booked
    /\ UNCHANGED <<usageVars, quota, spent>>

\* A request without a prompt or for an unknown model, a limit that is not valid
\* or an exhausted budget: the FatalError is not repeated, and nothing is released.
BookRefused(c) ==
    /\ In(c, "book")
    /\ ~ (job[c].status = "reserved" /\ job[c].period = Month)
    /\ quota \/ job[c].status = "none"
    /\ run' = [run EXCEPT ![c] = On(@, "failed")]
    /\ UNCHANGED <<usageVars, quota, budgetVars, job>>

\* generateAndUploadImagesStep: what an earlier attempt stored is returned.
Generate(c) ==
    LET known == job[c].status = "completed" /\ job[c].stored IN
    /\ In(c, "generate")
    /\ \E charge \in (IF known THEN {job[c].charge} ELSE Charges) :
         /\ job' = [job EXCEPT ![c].status = "completed", ![c].stored = TRUE,
                               ![c].charge = charge]
         /\ run' \in {[run EXCEPT ![c] = r] : r \in
                        Ends(c, [run[c] EXCEPT !.charge = charge], "finalize", "undo")}
    /\ UNCHANGED <<usageVars, quota, budgetVars>>

\* The model or the upload fails, or refuses for good (FatalError), which a
\* job that got no image says.
GenerateFails(c) ==
    /\ In(c, "generate")
    /\ ~ (job[c].status = "completed" /\ job[c].stored)
    /\ \/ /\ job' = [job EXCEPT ![c].status = "created"]
          /\ run' = [run EXCEPT ![c] = Threw(@, "undo")]
       \/ /\ \E status \in {"created", "failed"} : job' = [job EXCEPT ![c].status = status]
          /\ run' = [run EXCEPT ![c] = On(@, "undo")]
    /\ UNCHANGED <<usageVars, quota, budgetVars>>

\* Mutant: the job's quotaFinalizedAt is not looked at.
FinalizeQuota_Again(c, charge, status) ==
    LET p == run[c].period
        counts == quota /\ charge > 0
    IN IF p = 0
       THEN /\ job' = IF status = "failed" THEN [job EXCEPT ![c].status = status] ELSE job
            /\ UNCHANGED <<spent, booked>>
       ELSE /\ booked' = [booked EXCEPT ![p] = IF @ < Price THEN 0 ELSE @ - Price]
            /\ spent' = [spent EXCEPT ![p] = IF counts THEN @ + charge ELSE @]
            /\ job' = [job EXCEPT ![c].status = status, ![c].charge = charge,
                                  ![c].finalized = TRUE, ![c].counted = counts]

\* finalizeProjectWideImageQuotaStep, one transaction, which does nothing for
\* a job that was finalized before.
FinalizeQuota(c, charge, status) ==
    LET p == run[c].period
        counts == quota /\ charge > 0
    IN CASE p = 0 ->
              /\ job' = IF status = "failed" THEN [job EXCEPT ![c].status = status] ELSE job
              /\ UNCHANGED <<spent, booked>>
         [] p # 0 /\ job[c].finalized -> UNCHANGED <<spent, booked, job>>
         [] p # 0 /\ ~ job[c].finalized ->
              /\ booked' = [booked EXCEPT ![p] = IF @ < Price THEN 0 ELSE @ - Price]
              /\ spent' = [spent EXCEPT ![p] = IF counts THEN @ + charge ELSE @]
              /\ job' = [job EXCEPT ![c].status = status, ![c].charge = charge,
                                    ![c].finalized = TRUE, ![c].counted = counts]

\* An attempt of a step that throws before it wrote anything.
StepThrows(c, pc, catch) ==
    /\ Fault("store")
    /\ In(c, pc)
    /\ run' = [run EXCEPT ![c] = Threw(@, catch)]
    /\ UNCHANGED <<usageVars, quota, budgetVars, job>>

\* The usage of the tenant is finalized next, by the steps of the call, with the
\* images there are, which may be fewer than were requested.
AfterFinalize(c, r) ==
    /\ run' = [run EXCEPT ![c] = r]
    /\ \E images \in 1..Estimate :
          call' = IF r.pc # "usage" THEN call
                  ELSE [call EXCEPT ![c].pc = IF call[c].mode = "disabled"
                                              THEN "done" ELSE "merge",
                                    ![c].actual = images]

FinalizeCharge(c) ==
    /\ In(c, "finalize")
    /\ FinalizeQuota(c, run[c].charge, "completed")
    /\ \E r \in Ends(c, run[c], "usage", "undo") : AfterFinalize(c, r)
    /\ UNCHANGED <<setting, now, counterVars, quota>>

\* finalizeAiImageUsageStep is done, or is repeated from its beginning: after
\* a write that threw, or when the result of the last one is lost.
UsageFinalized(c) ==
    /\ In(c, "usage") /\ call[c].pc = "done"
    /\ run' = [run EXCEPT ![c] = On(@, "completed")]
    /\ UNCHANGED <<usageVars, quota, budgetVars, job>>

UsageThrows(c) ==
    /\ In(c, "usage")
    /\ call[c].pc = "thrown" \/ (call[c].pc = "done" /\ call[c].mode # "disabled" /\ Fault("store"))
    /\ run' = [run EXCEPT ![c] = Threw(@, "undo")]
    /\ IF run'[c].pc = "usage" THEN Goto(c, "merge") ELSE UNCHANGED call
    /\ UNCHANGED <<setting, now, counterVars, quota, budgetVars, job>>

\* Mutant: the catch block only throws on.
UndoQuota_Skip(c) == UNCHANGED <<spent, booked, job>>

UndoQuota(c) == FinalizeQuota(c, 0, "failed")

\* The catch block: the account's reservation first, then the tenant's.
Undo(c) ==
    /\ In(c, "undo")
    /\ UndoQuota(c)
    /\ \E r \in Ends(c, run[c], "release", "failed") :
         /\ run' = [run EXCEPT ![c] = r]
         /\ IF r.pc = "release" THEN Goto(c, "release") ELSE UNCHANGED call
    /\ UNCHANGED <<setting, now, counterVars, quota>>

Released(c) ==
    /\ In(c, "release") /\ call[c].pc = "failed"
    /\ run' = [run EXCEPT ![c] = On(@, "failed")]
    /\ UNCHANGED <<usageVars, quota, budgetVars, job>>

ReleaseRepeated(c) ==
    /\ In(c, "release") /\ call[c].pc = "thrown"
    /\ run' = [run EXCEPT ![c] = Threw(@, "failed")]
    /\ Goto(c, IF run'[c].pc = "release" THEN "release" ELSE "failed")
    /\ UNCHANGED <<setting, now, counterVars, quota, budgetVars, job>>

\* A release of the action itself that threw is not repeated.
LaunchReleaseThrew(c) ==
    /\ c \in Images /\ run[c].pc = "none" /\ call[c].pc = "thrown"
    /\ Goto(c, "failed")
    /\ UNCHANGED <<setting, now, counterVars, imageVars>>

ImageStep(c) ==
    \/ Launch(c) \/ LaunchThrows(c) \/ ActionDies(c) \/ LaunchReleaseThrew(c)
    \/ BookQuota(c) \/ BookRefused(c) \/ StepThrows(c, "book", "failed")
    \/ Generate(c) \/ GenerateFails(c) \/ StepThrows(c, "generate", "undo")
    \/ FinalizeCharge(c) \/ StepThrows(c, "finalize", "undo")
    \/ UsageFinalized(c) \/ UsageThrows(c)
    \/ Undo(c) \/ StepThrows(c, "undo", "failed")
    \/ Released(c) \/ ReleaseRepeated(c)

-----------------------------------------------------------------------------
(***************************************************************************)
(* Properties.                                                             *)
(***************************************************************************)

\* Jobs that run at once, are repeated or span the end of a month do not
\* take an account beyond its budget, while no request costs more than was
\* estimated for it.
BudgetKept ==
    (\A c \in Images : job[c].charge <= Price) =>
        \A p \in Period : spent[p] + booked[p] <= Budget

ChargedIn(p) == {c \in Images : job[c].counted /\ run[c].period = p}

\* The account pays for each job once, however often the steps are repeated,
\* and pays what the job document says.
ChargedOnce ==
    \A p \in Period : spent[p] = SumFunction([c \in ChargedIn(p) |-> job[c].charge])
=============================================================================
