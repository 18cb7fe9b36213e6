-------------------------- MODULE AiUsageMetering --------------------------
(***************************************************************************)
(* Metering one tenant's AI calls (apps/admin/lib/ai/usage-metering.ts):   *)
(* a call reserves an estimate before it asks the provider, and afterwards *)
(* finalizes the reservation with what it used or releases it.  Text is    *)
(* limited per week and per five hours, images and videos per month.       *)
(*                                                                         *)
(* A call is a process with a reservation of its own.  Each awaited write  *)
(* is a step; a Firestore transaction is one atomic step.                  *)
(***************************************************************************)
EXTENDS Integers, FiniteSets, Functions

CONSTANTS
    Calls,         \* the AI calls of the tenant
    Limit,         \* units a window may hold
    Estimate,      \* units a call reserves
    Actuals,       \* units a call may turn out to use
    Periods,       \* bound on the periods of a window
    Circumstances  \* the settings to consider, see Setting

Windows == {"five_hour", "week", "month"}

\* How a call is made: by runMeteredAiText, by the streaming helper, by an
\* action that settles in a finally block, or by the durable image workflow.
\* (Images and videos have counters of their own: "media" is one of them.)
Kinds == {"text", "stream", "media", "image"}

Modes == {"enforce", "log-only", "disabled"}

FaultKinds ==
    { "store",    \* a Firestore write throws, applied or not
      "death",    \* an invocation is killed
      "send" }    \* an e-mail cannot be sent

Setting == [kind : [Calls -> Kinds \cup {"none"}],
            modes : SUBSET Modes,
            faults : SUBSET FaultKinds]

ASSUME UsageAssumption ==
    /\ IsFiniteSet(Calls)
    /\ Limit \in [Windows -> Nat]
    /\ Estimate \in Nat \ {0}
    /\ Actuals \subseteq Nat
    /\ Periods \in Nat \ {0}
    /\ Circumstances \subseteq Setting

VARIABLES
    setting,   \* who calls, in which modes, and what may fail: does not change
    now,       \* the current period of each window
    reserved,  \* the counters of aiUsageWeekly, aiUsage5h and aiUsageMonthly,
    used,      \*   per window and period
    summary,   \* usageWindowSummaries and usageSummaries
    call       \* the calls, with their reservation

counterVars == <<reserved, used, summary>>
usageVars == <<setting, now, counterVars, call>>

Period == 1..Periods

Counters == [Windows -> [Period -> Int]]

Callers == {c \in Calls : setting.kind[c] # "none"}

Kind(c) == setting.kind[c]

Fault(f) == f \in setting.faults

WindowsOf(kind) ==
    IF kind \in {"text", "stream"} THEN {"five_hour", "week"} ELSE {"month"}

Pc == {"idle", "reserve", "running", "merge", "event", "summary", "release",
       "thrown", "done", "failed", "denied", "gone"}

Call == [pc : Pc,
         mode : Modes,
         period : [Windows -> Period],
         actual : Nat,
         held : BOOLEAN,        \* the reservation was written
         merges : Nat,          \* times the usage was merged,
         releases : Nat,        \*   and the reservation released
         recorded : SUBSET Windows]  \* control events written under its id

UsageTypeOK ==
    /\ setting \in Circumstances
    /\ now \in [Windows -> Period]
    /\ reserved \in Counters
    /\ used \in Counters
    /\ summary \in Counters
    /\ call \in [Calls -> Call]

UsageInit ==
    /\ setting \in Circumstances
    /\ now = [w \in Windows |-> 1]
    /\ reserved = [w \in Windows |-> [p \in Period |-> 0]]
    /\ used = [w \in Windows |-> [p \in Period |-> 0]]
    /\ summary = [w \in Windows |-> [p \in Period |-> 0]]
    /\ call = [c \in Calls |->
                 [pc |-> "idle", mode |-> "enforce",
                  period |-> [w \in Windows |-> 1], actual |-> 0, held |-> FALSE,
                  merges |-> 0, releases |-> 0, recorded |-> {}]]

-----------------------------------------------------------------------------

Goto(c, pc) == call' = [call EXCEPT ![c].pc = pc]

At(c, pc) == c \in Callers /\ call[c].pc = pc

\* A counter with n added in call c's own period of each of the windows ws.
Add(counter, c, ws, n) ==
    [w \in Windows |-> [p \in Period |->
        IF w \in ws /\ p = call[c].period[w]
        THEN counter[w][p] + n ELSE counter[w][p]]]

InUse == UNION {WindowsOf(Kind(c)) : c \in Callers}

\* A new five-hour block begins, maybe with a new week or month.  Windows that
\* no caller uses stand still.
Tick(ws) ==
    /\ ws \subseteq InUse /\ ws # {}
    /\ "five_hour" \in InUse => "five_hour" \in ws
    /\ \A w \in ws : now[w] < Periods
    /\ now' = [w \in Windows |-> IF w \in ws THEN now[w] + 1 ELSE now[w]]
    /\ UNCHANGED <<setting, counterVars, call>>

\* The beginning of reserveAiUsage: the mode is read and the period keys are
\* made, before the transaction.  Without enforcement nothing is reserved; a
\* module or a model the plan does not include is denied at once.
Prepare(c, mode) ==
    /\ At(c, "idle")
    /\ mode \in setting.modes
    /\ \E next \in (IF mode = "enforce" THEN {"reserve", "denied"} ELSE {"running"}) :
          call' = [call EXCEPT ![c].pc = next, ![c].mode = mode, ![c].period = now]
    /\ UNCHANGED <<setting, now, counterVars>>

\* getMonthlyUsageForModality: reservations count for text only.
Current(c, w) ==
    LET p == call[c].period[w] IN
    used[w][p] + (IF WindowsOf(Kind(c)) = {"month"} THEN 0 ELSE reserved[w][p])

\* Mutants: only the week is checked; only what was used counts.
Allowed_WeekOnly(c) ==
    \A w \in WindowsOf(Kind(c)) \ {"five_hour"} : Current(c, w) + Estimate <= Limit[w]

Allowed(c) ==
    \A w \in WindowsOf(Kind(c)) : Current(c, w) + Estimate <= Limit[w]

ReserveWrite(c) == reserved' = Add(reserved, c, WindowsOf(Kind(c)), Estimate)

\* The transaction of reserveInTransaction: all windows or none.
Reserve(c) ==
    /\ At(c, "reserve")
    /\ IF Allowed(c)
       THEN /\ ReserveWrite(c)
            /\ call' = [call EXCEPT ![c].pc = "running", ![c].held = TRUE]
       ELSE Goto(c, "denied") /\ UNCHANGED reserved
    /\ UNCHANGED <<setting, now, used, summary>>

\* The transaction throws; when it was applied nobody knows the reservation.
ReserveThrows(c) ==
    /\ Fault("store")
    /\ At(c, "reserve")
    /\ \/ UNCHANGED reserved /\ Goto(c, "failed")
       \/ /\ Allowed(c)
          /\ ReserveWrite(c)
          /\ call' = [call EXCEPT ![c].pc = "failed", ![c].held = TRUE]
    /\ UNCHANGED <<setting, now, used, summary>>

\* The provider has answered; a mode of "disabled" records nothing.
Answered(c, actual) ==
    /\ At(c, "running") /\ Kind(c) # "image"
    /\ IF call[c].mode = "disabled"
       THEN Goto(c, "done")
       ELSE call' = [call EXCEPT ![c].pc = "merge", ![c].actual = actual]
    /\ UNCHANGED <<setting, now, counterVars>>

\* Mutant: the error is thrown on without a release.
ProviderFails_Thrown(c) ==
    /\ At(c, "running") /\ Kind(c) # "image"
    /\ Goto(c, "failed")
    /\ UNCHANGED <<setting, now, counterVars>>

\* The provider fails, or streamText itself throws before it returns a stream:
\* the catch block or the finally block releases.
ProviderFails(c) ==
    /\ At(c, "running") /\ Kind(c) # "image"
    /\ Goto(c, "release")
    /\ UNCHANGED <<setting, now, counterVars>>

\* The provider fails while the answer is streamed, or the client leaves.  The
\* stream was returned without being awaited: the catch block is behind, and
\* onEnd is never called.
StreamBreaks(c) ==
    /\ At(c, "running") /\ Kind(c) = "stream"
    /\ Goto(c, "gone")
    /\ UNCHANGED <<setting, now, counterVars>>

\* Where a call goes on when finalizeAiUsage throws: into the catch block of
\* runMeteredAiText, out of the stream's callback, past the swallowed error of
\* a finally block, or back to the workflow, which has its own retries.
AfterThrow(c) ==
    CASE Kind(c) = "text"   -> "release"
      [] Kind(c) = "stream" -> "failed"
      [] Kind(c) = "media"  -> "done"
      [] Kind(c) = "image"  -> "thrown"

Enforced(c) == call[c].mode = "enforce"

\* mergeMonthlyUsage, one transaction.
MergeWrite(c) ==
    /\ used' = Add(used, c, WindowsOf(Kind(c)), call[c].actual)
    /\ reserved' = IF Enforced(c)
                   THEN Add(reserved, c, WindowsOf(Kind(c)), 0 - Estimate)
                   ELSE reserved

Merge(c) ==
    /\ At(c, "merge")
    /\ MergeWrite(c)
    /\ call' = [call EXCEPT ![c].pc = "event", ![c].merges = @ + 1]
    /\ UNCHANGED <<setting, now, summary>>

MergeThrows(c) ==
    /\ Fault("store")
    /\ At(c, "merge")
    /\ \/ Goto(c, AfterThrow(c)) /\ UNCHANGED <<used, reserved>>
       \/ /\ MergeWrite(c)
          /\ call' = [call EXCEPT ![c].pc = AfterThrow(c), ![c].merges = @ + 1]
    /\ UNCHANGED <<setting, now, summary>>

\* recordAiUsageEvent adds a document, after which the control events follow.
RecordEvent(c) ==
    /\ At(c, "event")
    /\ Goto(c, "summary")
    /\ UNCHANGED <<setting, now, counterVars>>

RecordEventThrows(c) ==
    /\ Fault("store")
    /\ At(c, "event")
    /\ Goto(c, AfterThrow(c))
    /\ UNCHANGED <<setting, now, counterVars>>

\* Mutant: an event that exists is counted again.
Unrecorded_Any(c) == WindowsOf(Kind(c))

Unrecorded(c) == WindowsOf(Kind(c)) \ call[c].recorded

\* recordUsageControlEvent: one transaction for each window's event, which
\* does nothing when the event's id exists, and whose failure is swallowed.
\* The two windows' transactions commute and are written as one step.
Summarise(c) ==
    /\ At(c, "summary")
    /\ \E ws \in SUBSET Unrecorded(c) :
          /\ ws # Unrecorded(c) => Fault("store")
          /\ summary' = Add(summary, c, ws, call[c].actual)
          /\ call' = [call EXCEPT ![c].pc = "done", ![c].recorded = @ \cup ws]
    /\ UNCHANGED <<setting, now, reserved, used>>

\* Mutant: the release goes to the windows' current period.
ReleaseWrite_Current(c) ==
    reserved' = [w \in Windows |->
        IF w \in WindowsOf(Kind(c)) /\ Enforced(c)
        THEN [reserved[w] EXCEPT ![now[w]] = @ - Estimate] ELSE reserved[w]]

\* The transaction of releaseAiUsageReservation, which returns at once when
\* nothing was enforced.
ReleaseWrite(c) ==
    reserved' = IF Enforced(c)
                THEN Add(reserved, c, WindowsOf(Kind(c)), 0 - Estimate) ELSE reserved

\* The error is thrown on, whether or not the released event is recorded.
Release(c) ==
    /\ At(c, "release")
    /\ ReleaseWrite(c)
    /\ call' = [call EXCEPT ![c].pc = "failed", ![c].releases = @ + 1]
    /\ UNCHANGED <<setting, now, used, summary>>

\* A release that throws, applied or not; the workflow retries it.
ReleaseThrows(c) ==
    /\ Fault("store")
    /\ At(c, "release")
    /\ LET next == IF Kind(c) = "image" THEN "thrown" ELSE "failed" IN
       \/ Goto(c, next) /\ UNCHANGED reserved
       \/ /\ ReleaseWrite(c)
          /\ call' = [call EXCEPT ![c].pc = next, ![c].releases = @ + 1]
    /\ UNCHANGED <<setting, now, used, summary>>

\* The invocation is killed.
Vanish(c) ==
    /\ Fault("death")
    /\ c \in Callers /\ Kind(c) # "image"
    /\ call[c].pc \in {"reserve", "running", "merge", "event", "summary", "release"}
    /\ Goto(c, "gone")
    /\ UNCHANGED <<setting, now, counterVars>>

CallStep(c) ==
    \/ Reserve(c) \/ ReserveThrows(c)
    \/ (\E actual \in Actuals : Answered(c, actual)) \/ ProviderFails(c)
    \/ StreamBreaks(c)
    \/ Merge(c) \/ MergeThrows(c)
    \/ RecordEvent(c) \/ RecordEventThrows(c)
    \/ Summarise(c)
    \/ Release(c) \/ ReleaseThrows(c)
    \/ Vanish(c)

-----------------------------------------------------------------------------
(***************************************************************************)
(* Properties.                                                             *)
(***************************************************************************)

Settlements(c) == call[c].merges + call[c].releases

\* A reservation that was written and neither finalized nor released.
Open(c) == call[c].held /\ Settlements(c) = 0

OpenIn(w, p) == {c \in Callers : Open(c) /\ w \in WindowsOf(Kind(c)) /\ call[c].period[w] = p}

Reliable == ~ Fault("store") /\ ~ Fault("death")

\* What a window has reserved is what the calls that were neither finalized
\* nor released have reserved in it: calls settle once, and in the window and
\* the period they reserved in, although periods end while they run.
ReservedIsOpen ==
    ~ Fault("store") =>
        \A w \in Windows, p \in Period :
            reserved[w][p] = Estimate * Cardinality(OpenIn(w, p))

\* While every call is enforced, no call uses more than it reserved and the
\* store works, what was used and what running calls may still use fits both
\* text windows, although calls reserve and settle concurrently and a window
\* may end in between.
TextWithinWindows ==
    (/\ setting.modes = {"enforce"}
     /\ ~ Fault("store")
     /\ \A c \in Callers : call[c].actual <= Estimate) =>
        \A w \in {"five_hour", "week"}, p \in Period :
            used[w][p] + Estimate * Cardinality(OpenIn(w, p)) <= Limit[w]

CountedIn(w, p) == {c \in Callers : call[c].period[w] = p /\ w \in call[c].recorded}

\* However often the settlement of a call is repeated after a failure, the
\* tenant's summaries count the call once.
CountedOnce ==
    \A w \in Windows, p \in Period :
        summary[w][p] = SumFunction([c \in CountedIn(w, p) |-> call[c].actual])
=============================================================================
