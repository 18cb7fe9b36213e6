------------------------- MODULE AiWorkflowsProofs -------------------------
(***************************************************************************)
(* For any number of calls, jobs, messages and deliveries: types, one run  *)
(* per message and how it ends, the tenant's windows, the summaries, and   *)
(* the budget and the charges of an account.                               *)
(***************************************************************************)
EXTENDS AiWorkflows, Sums

-----------------------------------------------------------------------------
(***************************************************************************)
(* Types of the metering.                                                  *)
(***************************************************************************)

\* A call that is replaced by a well-formed one leaves well-formed calls.
LEMMA CallReplaced ==
    ASSUME NEW c \in Calls, call \in [Calls -> Call], NEW r \in Call
    PROVE  [call EXCEPT ![c] = r] \in [Calls -> Call]
OBVIOUS

\* Changing one field of a call.
LEMMA CallFields ==
    ASSUME NEW c \in Calls, call \in [Calls -> Call]
    PROVE  /\ \A pc \in Pc : [call EXCEPT ![c].pc = pc] \in [Calls -> Call]
           /\ \A pc \in Pc, h \in BOOLEAN :
                 [call EXCEPT ![c].pc = pc, ![c].held = h] \in [Calls -> Call]
           /\ \A pc \in Pc, a \in Nat :
                 [call EXCEPT ![c].pc = pc, ![c].actual = a] \in [Calls -> Call]
           /\ \A pc \in Pc : [call EXCEPT ![c].pc = pc, ![c].merges = @ + 1] \in [Calls -> Call]
           /\ \A pc \in Pc : [call EXCEPT ![c].pc = pc, ![c].releases = @ + 1] \in [Calls -> Call]
           /\ \A pc \in Pc, ws \in SUBSET Windows :
                 [call EXCEPT ![c].pc = pc, ![c].recorded = @ \cup ws] \in [Calls -> Call]
           /\ \A pc \in Pc, mode \in Modes, p \in [Windows -> Period] :
                 [call EXCEPT ![c].pc = pc, ![c].mode = mode, ![c].period = p]
                    \in [Calls -> Call]
<1>0. call[c] \in Call /\ call[c].recorded \subseteq Windows
  BY DEF Call
<1>1. ASSUME NEW pc \in Pc
      PROVE  /\ [call[c] EXCEPT !.pc = pc] \in Call
             /\ [call[c] EXCEPT !.pc = pc, !.merges = @ + 1] \in Call
             /\ [call[c] EXCEPT !.pc = pc, !.releases = @ + 1] \in Call
  <2>1. call[c].merges + 1 \in Nat /\ call[c].releases + 1 \in Nat
    BY <1>0 DEF Call
  <2>2. [call[c] EXCEPT !.pc = pc] \in Call
    BY <1>0, <1>1 DEF Call
  <2>3. [call[c] EXCEPT !.pc = pc, !.merges = @ + 1] \in Call
    BY <1>0, <1>1, <2>1 DEF Call
  <2>4. [call[c] EXCEPT !.pc = pc, !.releases = @ + 1] \in Call
    BY <1>0, <1>1, <2>1 DEF Call
  <2> QED  BY <2>2, <2>3, <2>4
<1>2. ASSUME NEW pc \in Pc, NEW h \in BOOLEAN
      PROVE  [call[c] EXCEPT !.pc = pc, !.held = h] \in Call
  BY <1>0, <1>2 DEF Call
<1>3. ASSUME NEW pc \in Pc, NEW a \in Nat
      PROVE  [call[c] EXCEPT !.pc = pc, !.actual = a] \in Call
  BY <1>0, <1>3 DEF Call
<1>4. ASSUME NEW pc \in Pc, NEW ws \in SUBSET Windows
      PROVE  [call[c] EXCEPT !.pc = pc, !.recorded = @ \cup ws] \in Call
  <2>1. call[c].recorded \cup ws \in SUBSET Windows
    BY <1>0, <1>4
  <2> QED  BY <1>0, <1>4, <2>1 DEF Call
<1>5. ASSUME NEW pc \in Pc, NEW mode \in Modes, NEW p \in [Windows -> Period]
      PROVE  [call[c] EXCEPT !.pc = pc, !.mode = mode, !.period = p] \in Call
  BY <1>0, <1>5 DEF Call
<1> QED
  BY <1>1, <1>2, <1>3, <1>4, <1>5

LEMMA AddTyped ==
    ASSUME NEW c \in Calls, call \in [Calls -> Call], NEW counter \in Counters,
           NEW ws, NEW n \in Int
    PROVE  Add(counter, c, ws, n) \in Counters
BY DEF Add, Counters, Call

\* The steps of a call, of the e-mail workflow's calls too.
LEMMA CallStepTyped ==
    ASSUME UsageTypeOK, NEW c \in Calls, CallStep(c)
    PROVE  UsageTypeOK'
<1> USE UsageAssumption DEF UsageTypeOK, At, Goto, Pc, counterVars
<1>e. Estimate \in Int /\ 0 - Estimate \in Int
  OBVIOUS
<1>a. call[c] \in Call /\ call[c].actual \in Int
  BY DEF Call
<1>w. ReserveWrite(c) => reserved' \in Counters
  BY <1>e, AddTyped DEF ReserveWrite
<1>m. MergeWrite(c) => reserved' \in Counters /\ used' \in Counters
  BY <1>e, <1>a, AddTyped DEF MergeWrite
<1>r. ReleaseWrite(c) => reserved' \in Counters
  BY <1>e, AddTyped DEF ReleaseWrite
<1>t. AfterThrow(c) \in {"release", "failed", "done", "thrown"} \/ Kind(c) \notin Kinds
  BY DEF AfterThrow, Kinds
<1>pc. \A pc \in Pc : [call EXCEPT ![c].pc = pc] \in [Calls -> Call]
  BY CallFields
<1>1. CASE Reserve(c)
  <2>1. [call EXCEPT ![c].pc = "running", ![c].held = TRUE] \in [Calls -> Call]
    BY CallFields
  <2>2. call' \in [Calls -> Call]
    BY <1>1, <1>pc, <2>1 DEF Reserve
  <2> QED  BY <1>1, <1>w, <2>2 DEF Reserve
<1>2. CASE ReserveThrows(c)
  <2>1. [call EXCEPT ![c].pc = "failed", ![c].held = TRUE] \in [Calls -> Call]
    BY CallFields
  <2>2. call' \in [Calls -> Call]
    BY <1>2, <1>pc, <2>1 DEF ReserveThrows
  <2> QED  BY <1>2, <1>w, <2>2 DEF ReserveThrows
<1>3. CASE \E actual \in Actuals : Answered(c, actual)
  <2>1. PICK actual \in Actuals : Answered(c, actual)
    BY <1>3
  <2>2. [call EXCEPT ![c].pc = "merge", ![c].actual = actual] \in [Calls -> Call]
    BY CallFields
  <2> QED  BY <2>1, <2>2, <1>pc DEF Answered
<1>4. CASE ProviderFails(c)
  BY <1>4, <1>pc DEF ProviderFails
<1>5. CASE Merge(c)
  <2>1. [call EXCEPT ![c].pc = "event", ![c].merges = @ + 1] \in [Calls -> Call]
    BY CallFields
  <2> QED  BY <1>5, <1>m, <2>1 DEF Merge
<1>6. CASE MergeThrows(c)
  <2>1. AfterThrow(c) \in Pc
    BY <1>6, <1>t DEF MergeThrows, Callers, Setting, Kind
  <2>2. [call EXCEPT ![c].pc = AfterThrow(c), ![c].merges = @ + 1] \in [Calls -> Call]
    BY <2>1, CallFields
  <2>3. call' \in [Calls -> Call]
    BY <1>6, <1>pc, <2>1, <2>2 DEF MergeThrows
  <2> QED  BY <1>6, <1>m, <2>3 DEF MergeThrows
<1>7. CASE RecordEvent(c)
  BY <1>7, <1>pc DEF RecordEvent
<1>8. CASE RecordEventThrows(c)
  <2>1. AfterThrow(c) \in Pc
    BY <1>8, <1>t DEF RecordEventThrows, Callers, Setting, Kind
  <2> QED  BY <1>8, <2>1, <1>pc DEF RecordEventThrows
<1>9. CASE Summarise(c)
  <2>1. PICK ws \in SUBSET Unrecorded(c) :
          /\ summary' = Add(summary, c, ws, call[c].actual)
          /\ call' = [call EXCEPT ![c].pc = "done", ![c].recorded = @ \cup ws]
    BY <1>9 DEF Summarise
  <2>2. ws \in SUBSET Windows
    BY DEF Unrecorded, WindowsOf, Windows
  <2>3. [call EXCEPT ![c].pc = "done", ![c].recorded = @ \cup ws] \in [Calls -> Call]
    BY <2>2, CallFields
  <2>4. summary' \in Counters
    BY <2>1, <1>a, AddTyped
  <2> QED  BY <1>9, <2>1, <2>3, <2>4 DEF Summarise
<1>10. CASE Release(c)
  <2>1. [call EXCEPT ![c].pc = "failed", ![c].releases = @ + 1] \in [Calls -> Call]
    BY CallFields
  <2> QED  BY <1>10, <1>r, <2>1 DEF Release
<1>11. CASE ReleaseThrows(c)
  <2>1. \A pc \in {"thrown", "failed"} :
          [call EXCEPT ![c].pc = pc, ![c].releases = @ + 1] \in [Calls -> Call]
    BY CallFields
  <2>2. [call EXCEPT ![c].pc = "thrown", ![c].releases = @ + 1] \in [Calls -> Call]
    BY <2>1
  <2>3. [call EXCEPT ![c].pc = "failed", ![c].releases = @ + 1] \in [Calls -> Call]
    BY <2>1
  <2>4. call' \in [Calls -> Call]
    BY <1>11, <1>pc, <2>2, <2>3 DEF ReleaseThrows
  <2> QED  BY <1>11, <1>r, <2>4 DEF ReleaseThrows
<1>12. CASE StreamBreaks(c) \/ Vanish(c)
  BY <1>12, <1>pc DEF StreamBreaks, Vanish
<1> QED
  BY <1>1, <1>2, <1>3, <1>4, <1>5, <1>6, <1>7, <1>8, <1>9, <1>10, <1>11, <1>12 DEF CallStep

LEMMA PrepareTyped ==
    ASSUME UsageTypeOK, NEW c, NEW mode \in Modes, Prepare(c, mode)
    PROVE  UsageTypeOK'
<1>1. c \in Calls
  BY DEF Prepare, At, Callers
<1>2. \A pc \in Pc :
        [call EXCEPT ![c].pc = pc, ![c].mode = mode, ![c].period = now] \in [Calls -> Call]
  BY <1>1, CallFields DEF UsageTypeOK
<1>3. call' \in [Calls -> Call]
  BY <1>2 DEF Prepare, Pc
<1> QED  BY <1>3 DEF Prepare, UsageTypeOK, counterVars

LEMMA TickTyped ==
    ASSUME UsageTypeOK, NEW ws, Tick(ws)
    PROVE  UsageTypeOK'
BY UsageAssumption DEF UsageTypeOK, Tick, Period, counterVars

-----------------------------------------------------------------------------
(***************************************************************************)
(* Types of the image workflow.                                            *)
(***************************************************************************)

RunPc == {"none", "book", "generate", "finalize", "usage", "undo", "release",
          "completed", "failed"}

\* A run that goes on, and one whose step threw, are well formed.
LEMMA RunFields ==
    ASSUME NEW r \in Run, NEW pc \in RunPc
    PROVE  /\ On(r, pc) \in Run
           /\ Threw(r, pc) \in Run
           /\ \A p \in 0..Periods : [r EXCEPT !.period = p] \in Run
           /\ \A n \in Nat : [r EXCEPT !.charge = n] \in Run
<1> USE ImageAssumption DEF RunPc
<1>0. 0 \in 0..(MaxTries - 1)
  OBVIOUS
<1>1. On(r, pc) \in Run
  BY <1>0 DEF On, Run
<1>2. r.tries \in 0..(MaxTries - 1)
  BY DEF Run
<1>3. r.tries + 1 < MaxTries => [r EXCEPT !.tries = @ + 1] \in Run
  BY <1>2 DEF Run
<1>4. ASSUME NEW p \in 0..Periods PROVE [r EXCEPT !.period = p] \in Run
  BY <1>4 DEF Run
<1>5. ASSUME NEW n \in Nat PROVE [r EXCEPT !.charge = n] \in Run
  BY <1>5 DEF Run
<1> QED  BY <1>1, <1>3, <1>4, <1>5 DEF Threw

\* What Ends and Threw make of the run of c.
LEMMA EndsTyped ==
    ASSUME NEW c \in Calls, run \in [Calls -> Run], NEW r \in Run,
           NEW pc \in RunPc, NEW catch \in RunPc
    PROVE  Ends(c, r, pc, catch) \subseteq Run
BY RunFields DEF Ends

LEMMA RunReplaced ==
    ASSUME NEW c \in Calls, run \in [Calls -> Run], NEW r \in Run
    PROVE  [run EXCEPT ![c] = r] \in [Calls -> Run]
OBVIOUS

\* The updates of the job of c.
LEMMA JobFields ==
    ASSUME NEW c \in Calls, job \in [Calls -> Job],
           NEW status \in {"none", "created", "reserved", "completed", "failed"}
    PROVE  /\ [job EXCEPT ![c].status = status] \in [Calls -> Job]
           /\ \A p \in 0..Periods :
                 [job EXCEPT ![c].status = status, ![c].period = p] \in [Calls -> Job]
           /\ \A n \in Nat : [job EXCEPT ![c].status = status, ![c].stored = TRUE,
                                          ![c].charge = n] \in [Calls -> Job]
           /\ \A n \in Nat, counts \in BOOLEAN :
                 [job EXCEPT ![c].status = status, ![c].charge = n, ![c].finalized = TRUE,
                             ![c].counted = counts] \in [Calls -> Job]
<1>0. job[c] \in Job
  OBVIOUS
<1>1. [job[c] EXCEPT !.status = status] \in Job
  BY <1>0 DEF Job
<1>2. ASSUME NEW p \in 0..Periods
      PROVE  [job[c] EXCEPT !.status = status, !.period = p] \in Job
  BY <1>0, <1>2 DEF Job
<1>3. ASSUME NEW n \in Nat
      PROVE  [job[c] EXCEPT !.status = status, !.stored = TRUE, !.charge = n] \in Job
  BY <1>0, <1>3 DEF Job
<1>4. ASSUME NEW n \in Nat, NEW counts \in BOOLEAN
      PROVE  [job[c] EXCEPT !.status = status, !.charge = n, !.finalized = TRUE,
                            !.counted = counts] \in Job
  BY <1>0, <1>4 DEF Job
<1> QED  BY <1>1, <1>2, <1>3, <1>4

\* The transaction that finalizes the account's reservation.
LEMMA FinalizeTyped ==
    ASSUME ImageTypeOK, NEW c \in Calls, NEW charge \in Nat,
           NEW status \in {"completed", "failed"}, FinalizeQuota(c, charge, status)
    PROVE  /\ job' \in [Calls -> Job]
           /\ spent' \in [Period -> Nat]
           /\ booked' \in [Period -> Nat]
<1> USE ImageAssumption DEF ImageTypeOK, FinalizeQuota
<1>0. run[c].period \in 0..Periods
  BY DEF Run
<1>1. [job EXCEPT ![c].status = status] \in [Calls -> Job]
  BY JobFields
<1>2. CASE run[c].period = 0
  BY <1>1, <1>2
<1>3. CASE run[c].period # 0 /\ job[c].finalized
  BY <1>3
<1>4. CASE run[c].period # 0 /\ ~ job[c].finalized
  <2> DEFINE p == run[c].period
             counts == quota /\ charge > 0
  <2>1. p \in Period
    BY <1>0, <1>4 DEF Period
  <2>2. [job EXCEPT ![c].status = status, ![c].charge = charge, ![c].finalized = TRUE,
                    ![c].counted = counts] \in [Calls -> Job]
    BY JobFields
  <2>3. /\ (IF booked[p] < Price THEN 0 ELSE booked[p] - Price) \in Nat
        /\ (IF counts THEN spent[p] + charge ELSE spent[p]) \in Nat
    BY <2>1
  <2>4. /\ booked' = [booked EXCEPT ![p] = IF @ < Price THEN 0 ELSE @ - Price]
        /\ spent' = [spent EXCEPT ![p] = IF counts THEN @ + charge ELSE @]
        /\ job' = [job EXCEPT ![c].status = status, ![c].charge = charge,
                              ![c].finalized = TRUE, ![c].counted = counts]
    BY <1>4
  <2> HIDE DEF p, counts
  <2>5. booked' \in [Period -> Nat] /\ spent' \in [Period -> Nat]
    BY <2>1, <2>3, <2>4
  <2> QED  BY <2>2, <2>4, <2>5
<1> QED  BY <1>2, <1>3, <1>4

LEMMA ImageStepTyped ==
    ASSUME UsageTypeOK, ImageTypeOK, NEW c \in Calls, ImageStep(c)
    PROVE  UsageTypeOK' /\ ImageTypeOK'
<1> USE UsageAssumption, ImageAssumption DEF ImageTypeOK, budgetVars, In, Images
<1>c. /\ call \in [Calls -> Call] /\ run \in [Calls -> Run] /\ job \in [Calls -> Job]
      /\ call[c] \in Call /\ run[c] \in Run /\ job[c] \in Job
  BY DEF UsageTypeOK
<1>n. run[c].charge \in Nat /\ job[c].charge \in Nat /\ Month \in Period
  BY <1>c DEF Run, Job, Month, UsageTypeOK, Windows
<1>t. \A pc \in RunPc : On(run[c], pc) \in Run /\ Threw(run[c], pc) \in Run
  BY <1>c, RunFields
<1>g. \A pc \in Pc : [call EXCEPT ![c].pc = pc] \in [Calls -> Call]
  BY <1>c, CallFields
\* The steps that leave the metering alone, or only move the call on.
<1>u. UNCHANGED usageVars => UsageTypeOK'
  BY DEF usageVars, counterVars, UsageTypeOK
<1>v. call' \in [Calls -> Call] /\ UNCHANGED <<setting, now, counterVars>> => UsageTypeOK'
  BY DEF counterVars, UsageTypeOK
<1>r. \A r \in Run : [run EXCEPT ![c] = r] \in [Calls -> Run]
  BY <1>c
<1>1. CASE Launch(c)
  <2>1. [run[c] EXCEPT !.pc = "book"] \in Run
    BY <1>c DEF Run
  <2>2. run' = [run EXCEPT ![c] = [run[c] EXCEPT !.pc = "book"]]
    BY <1>1 DEF Launch
  <2>3. run' \in [Calls -> Run]
    BY <2>1, <2>2, <1>r
  <2> QED  BY <1>1, <1>u, <2>3 DEF Launch
<1>2. CASE LaunchThrows(c)
  <2>1. call' \in [Calls -> Call]
    BY <1>2, <1>g DEF LaunchThrows, Goto, Pc
  <2> QED  BY <1>2, <1>v, <2>1 DEF LaunchThrows, imageVars
<1>3. CASE ActionDies(c)
  <2>1. call' \in [Calls -> Call]
    BY <1>3, <1>g DEF ActionDies, Goto, Pc
  <2> QED  BY <1>3, <1>v, <2>1 DEF ActionDies, imageVars
<1>4. CASE LaunchReleaseThrew(c)
  <2>1. call' \in [Calls -> Call]
    BY <1>4, <1>g DEF LaunchReleaseThrew, Goto, Pc
  <2> QED  BY <1>4, <1>v, <2>1 DEF LaunchReleaseThrew, imageVars
<1>5. CASE BookQuota(c)
  <2> DEFINE reuse == job[c].status = "reserved" /\ job[c].period = Month
             before == [run[c] EXCEPT !.period = IF reuse \/ quota THEN Month ELSE 0]
  <2>1. (IF reuse \/ quota THEN Month ELSE 0) \in 0..Periods
    BY <1>n DEF Period
  <2>2. before \in Run
    BY <2>1, <1>c, RunFields DEF RunPc
  <2>3. PICK r \in Ends(c, before, "generate", "failed") : run' = [run EXCEPT ![c] = r]
    BY <1>5 DEF BookQuota
  <2> HIDE DEF before
  <2>4. r \in Run
    BY <2>2, <2>3, <1>c, EndsTyped DEF RunPc
  <2>5. run' \in [Calls -> Run]
    BY <2>3, <2>4, <1>r
  <2>6. /\ [job EXCEPT ![c].status = "reserved", ![c].period = Month] \in [Calls -> Job]
        /\ [job EXCEPT ![c].status = "created"] \in [Calls -> Job]
    <3>1. Month \in 0..Periods
      BY <1>n DEF Period
    <3>2. [job EXCEPT ![c].status = "reserved", ![c].period = Month] \in [Calls -> Job]
      BY <3>1, <1>c, JobFields
    <3>3. [job EXCEPT ![c].status = "created"] \in [Calls -> Job]
      BY <1>c, JobFields
    <3> QED  BY <3>2, <3>3
  <2>7. [booked EXCEPT ![Month] = @ + Price] \in [Period -> Nat]
    BY <1>n
  <2>8. job' \in [Calls -> Job] /\ booked' \in [Period -> Nat]
    <3>1. CASE reuse
      BY <1>5, <3>1 DEF BookQuota
    <3>2. CASE ~ reuse /\ quota
      BY <1>5, <3>2, <2>6, <2>7 DEF BookQuota
    <3>3. CASE ~ reuse /\ ~ quota
      BY <1>5, <3>3, <2>6 DEF BookQuota
    <3> QED  BY <3>1, <3>2, <3>3
  <2> QED  BY <1>5, <1>u, <2>5, <2>8 DEF BookQuota
<1>6. CASE BookRefused(c)
  <2>1. run' \in [Calls -> Run]
    BY <1>6, <1>t, <1>r DEF BookRefused, RunPc
  <2> QED  BY <1>6, <1>u, <2>1 DEF BookRefused
<1>7. ASSUME NEW pc, NEW catch \in RunPc, StepThrows(c, pc, catch)
      PROVE  UsageTypeOK' /\ ImageTypeOK'
  <2>1. run' \in [Calls -> Run]
    BY <1>7, <1>t, <1>r DEF StepThrows
  <2> QED  BY <1>7, <1>u, <2>1 DEF StepThrows
<1>8. CASE Generate(c)
  <2>1. PICK charge \in Charges \cup {job[c].charge} :
          /\ job' = [job EXCEPT ![c].status = "completed", ![c].stored = TRUE,
                                ![c].charge = charge]
          /\ run' \in {[run EXCEPT ![c] = r] : r \in
                         Ends(c, [run[c] EXCEPT !.charge = charge], "finalize", "undo")}
    BY <1>8 DEF Generate
  <2>2. charge \in Nat
    BY <1>n
  <2> DEFINE before == [run[c] EXCEPT !.charge = charge]
  <2>3. before \in Run
    BY <1>c, <2>2, RunFields DEF RunPc
  <2>4. PICK r \in Ends(c, before, "finalize", "undo") : run' = [run EXCEPT ![c] = r]
    BY <2>1
  <2> HIDE DEF before
  <2>5. r \in Run
    BY <2>3, <2>4, <1>c, EndsTyped DEF RunPc
  <2>6. run' \in [Calls -> Run]
    BY <2>4, <2>5, <1>r
  <2>7. job' \in [Calls -> Job]
    BY <2>1, <2>2, <1>c, JobFields
  <2> QED  BY <1>8, <1>u, <2>6, <2>7 DEF Generate
<1>9. CASE GenerateFails(c)
  <2>1. run' \in [Calls -> Run]
    BY <1>9, <1>t, <1>r DEF GenerateFails, RunPc
  <2>2. job' \in [Calls -> Job]
    <3>1. PICK status \in {"created", "failed"} : job' = [job EXCEPT ![c].status = status]
      BY <1>9 DEF GenerateFails
    <3> QED  BY <3>1, <1>c, JobFields
  <2> QED  BY <1>9, <1>u, <2>1, <2>2 DEF GenerateFails
<1>10. CASE FinalizeCharge(c)
  <2>1. PICK r \in Ends(c, run[c], "usage", "undo") : AfterFinalize(c, r)
    BY <1>10 DEF FinalizeCharge
  <2>2. r \in Run
    BY <2>1, <1>c, EndsTyped DEF RunPc
  <2>3. run' \in [Calls -> Run]
    BY <2>1, <2>2, <1>r DEF AfterFinalize
  <2>4. \A pc \in Pc, n \in 1..Estimate :
           [call EXCEPT ![c].pc = pc, ![c].actual = n] \in [Calls -> Call]
    <3>1. \A n \in 1..Estimate : n \in Nat
      BY UsageAssumption
    <3> QED  BY <3>1, <1>c, CallFields
  <2>5. call' \in [Calls -> Call]
    <3>1. CASE r.pc # "usage"
      BY <3>1, <2>1, <1>c DEF AfterFinalize
    <3>2. CASE r.pc = "usage" /\ call[c].mode = "disabled"
      <4>1. PICK n \in 1..Estimate : call' = [call EXCEPT ![c].pc = "done", ![c].actual = n]
        BY <3>2, <2>1 DEF AfterFinalize
      <4> QED  BY <4>1, <2>4 DEF Pc
    <3>3. CASE r.pc = "usage" /\ call[c].mode # "disabled"
      <4>1. PICK n \in 1..Estimate : call' = [call EXCEPT ![c].pc = "merge", ![c].actual = n]
        BY <3>3, <2>1 DEF AfterFinalize
      <4> QED  BY <4>1, <2>4 DEF Pc
    <3> QED  BY <3>1, <3>2, <3>3
  <2>6. /\ job' \in [Calls -> Job]
        /\ spent' \in [Period -> Nat]
        /\ booked' \in [Period -> Nat]
    BY <1>10, <1>n, FinalizeTyped DEF FinalizeCharge
  <2> QED  BY <1>10, <1>v, <2>3, <2>5, <2>6 DEF FinalizeCharge
<1>11. CASE UsageFinalized(c)
  <2>1. run' \in [Calls -> Run]
    BY <1>11, <1>t, <1>r DEF UsageFinalized, RunPc
  <2> QED  BY <1>11, <1>u, <2>1 DEF UsageFinalized
<1>12. CASE UsageThrows(c)
  <2>1. run' \in [Calls -> Run]
    BY <1>12, <1>t, <1>r DEF UsageThrows, RunPc
  <2>2. call' \in [Calls -> Call]
    BY <1>12, <1>c, <1>g DEF UsageThrows, Goto, Pc
  <2> QED  BY <1>12, <1>v, <2>1, <2>2 DEF UsageThrows
<1>13. CASE Undo(c)
  <2>1. PICK r \in Ends(c, run[c], "release", "failed") :
          /\ run' = [run EXCEPT ![c] = r]
          /\ IF r.pc = "release" THEN Goto(c, "release") ELSE UNCHANGED call
    BY <1>13 DEF Undo
  <2>2. r \in Run
    BY <2>1, <1>c, EndsTyped DEF RunPc
  <2>3. run' \in [Calls -> Run]
    BY <2>1, <2>2, <1>r
  <2>4. call' \in [Calls -> Call]
    BY <2>1, <1>c, <1>g DEF Goto, Pc
  <2>5. /\ job' \in [Calls -> Job]
        /\ spent' \in [Period -> Nat]
        /\ booked' \in [Period -> Nat]
    BY <1>13, FinalizeTyped DEF Undo, UndoQuota
  <2> QED  BY <1>13, <1>v, <2>3, <2>4, <2>5 DEF Undo
<1>14. CASE Released(c)
  <2>1. run' \in [Calls -> Run]
    BY <1>14, <1>t, <1>r DEF Released, RunPc
  <2> QED  BY <1>14, <1>u, <2>1 DEF Released
<1>15. CASE ReleaseRepeated(c)
  <2>1. run' \in [Calls -> Run]
    BY <1>15, <1>t, <1>r DEF ReleaseRepeated, RunPc
  <2>2. call' \in [Calls -> Call]
    BY <1>15, <1>c, <1>g DEF ReleaseRepeated, Goto, Pc
  <2> QED  BY <1>15, <1>v, <2>1, <2>2 DEF ReleaseRepeated
<1> QED
  BY <1>1, <1>2, <1>3, <1>4, <1>5, <1>6, <1>7, <1>8, <1>9, <1>10, <1>11, <1>12, <1>13, <1>14,
     <1>15 DEF ImageStep, RunPc

-----------------------------------------------------------------------------
(***************************************************************************)
(* Types of the e-mail pipeline.                                           *)
(***************************************************************************)

MailRunPc == {"none", "mark", "route", "asking", "persist", "reply", "fail", "completed", "failed"}

DeliveryPc == {"idle", "repair", "claim", "load", "persist", "block", "start", "started"}

\* A run that goes on, and one whose step threw, are well formed.
LEMMA MailRunFields ==
    ASSUME NEW r \in MailRun, NEW pc \in MailRunPc
    PROVE  /\ Onward(r, pc) \in MailRun
           /\ Failed(r, pc) \in MailRun
           /\ [r EXCEPT !.pc = pc] \in MailRun
<1> USE MailAssumption DEF MailRunPc
<1>1. 0 \in 0..(StepTries - 1) /\ r.tries \in 0..(StepTries - 1)
  BY DEF MailRun
<1>2. Onward(r, pc) \in MailRun
  BY <1>1 DEF Onward, MailRun
<1>3. r.tries + 1 < StepTries => [r EXCEPT !.tries = @ + 1] \in MailRun
  BY <1>1 DEF MailRun
<1>4. [r EXCEPT !.pc = pc] \in MailRun
  BY DEF MailRun
<1> QED  BY <1>2, <1>3, <1>4 DEF Failed

LEMMA MailRunTyped ==
    ASSUME MailTypeOK, NEW m \in Mails, NEW r \in MailRun, RunTo(m, r)
    PROVE  mailRun' \in [Mails -> MailRun]
BY DEF MailTypeOK, RunTo

\* The updates of a message's document.
LEMMA MailFields ==
    ASSUME mail \in [Mails -> Mail], NEW m \in Mails, NEW status \in MailStatus
    PROVE  /\ [mail EXCEPT ![m].status = status] \in [Mails -> Mail]
           /\ \A reason \in {"none", "unresolved", "route"} :
                 [mail EXCEPT ![m].status = status, ![m].reason = reason] \in [Mails -> Mail]
           /\ [mail EXCEPT ![m].status = status, ![m].runId = TRUE] \in [Mails -> Mail]
           /\ [mail EXCEPT ![m].runId = TRUE] \in [Mails -> Mail]
           /\ [mail[m] EXCEPT !.status = status] \in Mail
           /\ [mail[m] EXCEPT !.status = status, !.runId = TRUE] \in Mail
<1>0. mail[m] \in Mail
  OBVIOUS
<1>1. [mail[m] EXCEPT !.status = status] \in Mail
  BY <1>0 DEF Mail
<1>2. ASSUME NEW reason \in {"none", "unresolved", "route"}
      PROVE  [mail[m] EXCEPT !.status = status, !.reason = reason] \in Mail
  BY <1>0, <1>2 DEF Mail
<1>3. [mail[m] EXCEPT !.status = status, !.runId = TRUE] \in Mail
  BY <1>0 DEF Mail
<1>4. [mail[m] EXCEPT !.runId = TRUE] \in Mail
  BY <1>0 DEF Mail
<1> QED  BY <1>1, <1>2, <1>3, <1>4

LEMMA DeliveryFields ==
    ASSUME delivery \in [Deliveries -> Delivery], NEW d \in Deliveries, NEW pc \in DeliveryPc
    PROVE  /\ [delivery EXCEPT ![d].pc = pc] \in [Deliveries -> Delivery]
           /\ \A found \in BOOLEAN :
                 [delivery EXCEPT ![d].pc = pc, ![d].resolved = found]
                    \in [Deliveries -> Delivery]
<1>0. delivery[d] \in Delivery
  OBVIOUS
<1>1. [delivery[d] EXCEPT !.pc = pc] \in Delivery
  BY <1>0 DEF Delivery, DeliveryPc
<1>2. ASSUME NEW found \in BOOLEAN
      PROVE  [delivery[d] EXCEPT !.pc = pc, !.resolved = found] \in Delivery
  BY <1>0, <1>2 DEF Delivery, DeliveryPc
<1> QED  BY <1>1, <1>2

LEMMA DeliverTyped ==
    ASSUME MailTypeOK, NEW d \in Deliveries, NEW m \in Mails, Deliver(d, m)
    PROVE  MailTypeOK'
<1> DEFINE new == [pc |-> IF mail[m].status = "none" THEN "load" ELSE "repair",
                   mail |-> m, resolved |-> FALSE]
<1>1. new \in Delivery
  BY DEF Delivery
<1>2. delivery' = [delivery EXCEPT ![d] = new]
  BY DEF Deliver
<1> HIDE DEF new
<1>3. delivery' \in [Deliveries -> Delivery]
  BY <1>1, <1>2 DEF MailTypeOK
<1> QED  BY <1>3 DEF Deliver, MailTypeOK

LEMMA DeliveryStepTyped ==
    ASSUME MailTypeOK, NEW d \in Deliveries, DeliveryStep(d)
    PROVE  MailTypeOK'
<1> USE DEF MailTypeOK, DeliveryTo
<1> DEFINE m == delivery[d].mail
<1>0. m \in Mails /\ delivery \in [Deliveries -> Delivery] /\ mail \in [Mails -> Mail]
  BY DEF Delivery
<1>a. \A pc \in DeliveryPc : [delivery EXCEPT ![d].pc = pc] \in [Deliveries -> Delivery]
  BY DeliveryFields
<1>1. CASE LoadContext(d)
  <2> DEFINE found == resolves[m]
             next == IF DeliveryAt(d, "load") THEN "persist"
                     ELSE IF found THEN "claim" ELSE "idle"
  <2>1. found \in BOOLEAN /\ next \in DeliveryPc
    BY <1>0 DEF DeliveryPc
  <2>2. delivery' = [delivery EXCEPT ![d].pc = next, ![d].resolved = found]
    BY <1>1 DEF LoadContext
  <2> HIDE DEF found, next
  <2>3. delivery' \in [Deliveries -> Delivery]
    BY <2>1, <2>2, DeliveryFields
  <2> QED  BY <1>1, <2>3 DEF LoadContext
<1>2. CASE Claim(d)
  <2>1. [mail EXCEPT ![m].status = "received", ![m].reason = "none"] \in [Mails -> Mail]
    BY <1>0, MailFields DEF MailStatus
  <2> QED  BY <1>2, <1>a, <2>1 DEF Claim, DeliveryPc
<1>3. CASE Persist(d)
  <2>1. [mail EXCEPT ![m].status = "received"] \in [Mails -> Mail]
    BY <1>0, MailFields DEF MailStatus
  <2> QED  BY <1>3, <1>a, <2>1 DEF Persist, DeliveryPc
<1>4. CASE Block(d)
  <2>1. [mail EXCEPT ![m].status = "blocked", ![m].reason = "unresolved"] \in [Mails -> Mail]
    BY <1>0, MailFields DEF MailStatus
  <2> QED  BY <1>4, <1>a, <2>1 DEF Block, DeliveryPc
<1>5. CASE Start(d)
  <2>1. 0 \in 0..(StepTries - 1)
    BY MailAssumption
  <2>2. [mailRun[m] EXCEPT !.pc = "mark", !.tries = 0] \in MailRun
    BY <1>0, <2>1 DEF MailRun
  <2>3. mailRun' = [mailRun EXCEPT ![m] = [mailRun[m] EXCEPT !.pc = "mark", !.tries = 0]]
    BY <1>5 DEF Start
  <2>4. mailRun' \in [Mails -> MailRun]
    BY <1>0, <2>2, <2>3
  <2>5. started' \in [Mails -> Nat]
    BY <1>5, <1>0 DEF Start
  <2> QED  BY <1>5, <1>a, <2>4, <2>5 DEF Start, DeliveryPc
<1>6. CASE MarkStarted(d)
  <2>1. [mail EXCEPT ![m].runId = TRUE] \in [Mails -> Mail]
    BY <1>0, MailFields DEF MailStatus
  <2> QED  BY <1>6, <1>a, <2>1 DEF MarkStarted, DeliveryPc
<1>7. CASE DeliveryFails(d)
  BY <1>7, <1>a DEF DeliveryFails, DeliveryPc
<1> QED  BY <1>1, <1>2, <1>3, <1>4, <1>5, <1>6, <1>7 DEF DeliveryStep

LEMMA PartlyTyped ==
    ASSUME MailTypeOK, NEW m \in Mails, NEW r \in Mail,
           NEW status \in {"processing", "completed", "failed"},
           Partly(m, [mail |-> r, agent |-> status])
    PROVE  mail' \in [Mails -> Mail] /\ agent' \in [Mails -> {"none", "processing", "completed", "failed"}]
BY DEF Partly, MailTypeOK

LEMMA MailStepTyped ==
    ASSUME UsageTypeOK, MailTypeOK, NEW m \in Mails, MailStep(m)
    PROVE  UsageTypeOK' /\ MailTypeOK'
<1> USE DEF MailTypeOK
<1>0. mailRun[m] \in MailRun /\ mail \in [Mails -> Mail]
  OBVIOUS
<1>u. UNCHANGED usageVars => UsageTypeOK'
  BY DEF usageVars, counterVars, UsageTypeOK
<1>r. \A pc \in MailRunPc :
        /\ Onward(mailRun[m], pc) \in MailRun
        /\ Failed(mailRun[m], pc) \in MailRun
        /\ [mailRun[m] EXCEPT !.pc = pc] \in MailRun
  BY <1>0, MailRunFields
<1>f. Failed([mailRun[m] EXCEPT !.pc = "route"], "fail") \in MailRun
  BY <1>r, MailRunFields DEF MailRunPc
<1>g. \A r \in MailRun : RunTo(m, r) => mailRun' \in [Mails -> MailRun]
  BY MailRunTyped
<1>w. \A outcome \in {"blocked", "processing"} : RouteWrite(m, outcome) => mail' \in [Mails -> Mail]
  <2>1. \A status \in MailStatus, reason \in {"none", "unresolved", "route"} :
          [mail EXCEPT ![m].status = status, ![m].reason = reason] \in [Mails -> Mail]
    BY MailFields
  <2>2. RouteWrite(m, "blocked") => mail' \in [Mails -> Mail]
    BY <2>1 DEF RouteWrite, MailStatus
  <2>3. RouteWrite(m, "processing") => mail' \in [Mails -> Mail]
    BY <2>1 DEF RouteWrite, MailStatus
  <2> QED  BY <2>2, <2>3
<1>1. CASE MarkProcessing(m)
  <2>1. [mail EXCEPT ![m].status = "processing", ![m].runId = TRUE] \in [Mails -> Mail]
    BY MailFields DEF MailStatus
  <2>2. mailRun' \in [Mails -> MailRun]
    BY <1>1, <1>r, <1>g DEF MarkProcessing, MailRunPc
  <2> QED  BY <1>1, <1>u, <2>1, <2>2 DEF MarkProcessing, MarkProcessingWrites
<1>2. CASE RouteBlocks(m)
  <2>1. mailRun' \in [Mails -> MailRun]
    BY <1>2, <1>r, <1>g DEF RouteBlocks, MailRunPc
  <2> QED  BY <1>2, <1>u, <1>w, <2>1 DEF RouteBlocks
<1>3. CASE RouteThrows(m)
  BY <1>3, <1>u, <1>f, <1>g DEF RouteThrows
<1>4. ASSUME NEW mode \in Modes, RouteAsks(m, mode)
      PROVE  UsageTypeOK' /\ MailTypeOK'
  <2>1. UsageTypeOK'
    BY <1>4, PrepareTyped DEF RouteAsks
  <2>2. mailRun' \in [Mails -> MailRun]
    BY <1>4, <1>r, <1>g DEF RouteAsks, MailRunPc
  <2> QED  BY <1>4, <2>1, <2>2 DEF RouteAsks
<1>5. ASSUME NEW outcome \in {"blocked", "processing"}, RouteDecides(m, outcome)
      PROVE  UsageTypeOK' /\ MailTypeOK'
  <2>1. AfterRoute(outcome) \in MailRunPc
    BY DEF AfterRoute, MailRunPc
  <2>2. mailRun' \in [Mails -> MailRun]
    BY <1>5, <2>1, <1>r, <1>g DEF RouteDecides
  <2> QED  BY <1>5, <1>u, <1>w, <2>2 DEF RouteDecides
<1>6. CASE PersistManualCreate(m)
  <2>1. [mail EXCEPT ![m].status = "awaiting-manual-create"] \in [Mails -> Mail]
    BY MailFields DEF MailStatus
  <2>2. mailRun' \in [Mails -> MailRun]
    BY <1>6, <1>r, <1>g DEF PersistManualCreate, MailRunPc
  <2> QED  BY <1>6, <1>u, <2>1, <2>2 DEF PersistManualCreate, PersistWrites
<1>7. CASE Reply(m)
  <2>1. mailRun' \in [Mails -> MailRun]
    BY <1>7, <1>r, <1>g DEF Reply, MailRunPc
  <2> QED  BY <1>7, <1>u, <2>1 DEF Reply, ReplyWrites
<1>8. CASE ReplyThrows(m)
  <2>1. mailRun' \in [Mails -> MailRun]
    BY <1>8, <1>r, <1>g DEF ReplyThrows, MailRunPc
  <2> QED  BY <1>8, <1>u, <2>1 DEF ReplyThrows, ReplyWrites
<1>9. CASE MarkFailure(m)
  <2>1. [mail EXCEPT ![m].status = "failed", ![m].runId = TRUE] \in [Mails -> Mail]
    BY MailFields DEF MailStatus
  <2>2. mailRun' \in [Mails -> MailRun]
    BY <1>9, <1>r, <1>g DEF MarkFailure, MailRunPc
  <2> QED  BY <1>9, <1>u, <2>1, <2>2 DEF MarkFailure, FailureWrites
<1>10. CASE StepFails(m)
  <2>1. mailRun' \in [Mails -> MailRun]
    BY <1>10, <1>r, <1>f, <1>g DEF StepFails, MailRunPc
  <2>2. \A status \in MailStatus :
          /\ [mail[m] EXCEPT !.status = status] \in Mail
          /\ [mail[m] EXCEPT !.status = status, !.runId = TRUE] \in Mail
    BY MailFields
  <2>3. /\ [mail[m] EXCEPT !.status = "processing", !.runId = TRUE] \in Mail
        /\ [mail[m] EXCEPT !.status = "awaiting-manual-create"] \in Mail
        /\ [mail[m] EXCEPT !.status = "failed", !.runId = TRUE] \in Mail
    BY <2>2 DEF MailStatus
  <2>4. mail' \in [Mails -> Mail] /\ agent' \in [Mails -> {"none", "processing", "completed", "failed"}]
    BY <1>10, <1>w, <2>3, PartlyTyped DEF StepFails
  <2> QED  BY <1>10, <1>u, <2>1, <2>4 DEF StepFails
<1> QED
  BY <1>1, <1>2, <1>3, <1>4, <1>5, <1>6, <1>7, <1>8, <1>9, <1>10 DEF MailStep

LEMMA InitTyped == Init => TypeOK
<1> SUFFICES ASSUME Init PROVE TypeOK
  OBVIOUS
<1> USE UsageAssumption, ImageAssumption, MailAssumption
<1>1. UsageTypeOK
  <2>1. 1 \in Period /\ 0 \in Int
    BY DEF Period
  <2>2. \A c \in Calls : call[c] \in Call
    BY <2>1 DEF Init, UsageInit, Call, Pc, Modes
  <2>3. call \in [Calls -> Call]
    BY <2>2 DEF Init, UsageInit
  <2> QED  BY <2>1, <2>3 DEF Init, UsageInit, UsageTypeOK, Counters
<1>2. ImageTypeOK
  <2>1. 0 \in 0..Periods /\ 0 \in 0..(MaxTries - 1)
    OBVIOUS
  <2> QED  BY <2>1 DEF Init, ImageInit, ImageTypeOK, Job, Run
<1>3. MailTypeOK
  <2>1. 0 \in 0..(StepTries - 1)
    OBVIOUS
  <2>2. (CHOOSE m \in Mails : TRUE) \in Mails
    OBVIOUS
  <2>3. \A d \in Deliveries : delivery[d] \in Delivery
    BY <2>2 DEF Init, MailInit, Delivery
  <2>4. delivery \in [Deliveries -> Delivery]
    BY <2>3 DEF Init, MailInit
  <2> QED  BY <2>1, <2>4 DEF Init, MailInit, MailTypeOK, Mail, MailStatus, MailRun
<1> QED  BY <1>1, <1>2, <1>3 DEF TypeOK

LEMMA NextTyped == TypeOK /\ [Next]_vars => TypeOK'
<1> SUFFICES ASSUME TypeOK, [Next]_vars PROVE TypeOK'
  OBVIOUS
<1> USE DEF TypeOK
<1>u. UNCHANGED usageVars => UsageTypeOK'
  BY DEF usageVars, counterVars, UsageTypeOK
<1>i. UNCHANGED imageVars => ImageTypeOK'
  BY DEF imageVars, budgetVars, ImageTypeOK
<1>m. UNCHANGED mailVars => MailTypeOK'
  BY DEF mailVars, MailTypeOK
<1>1. CASE UsageNext
  <2>1. UsageTypeOK'
    BY <1>1, TickTyped, PrepareTyped, CallStepTyped DEF UsageNext
  <2> QED  BY <1>1, <1>i, <1>m, <2>1 DEF UsageNext
<1>2. CASE ImageNext
  <2>1. CASE ToggleQuota
    BY <1>2, <1>u, <1>m, <2>1 DEF ImageNext, ToggleQuota, ImageTypeOK, budgetVars
  <2>2. CASE \E c \in Calls : ImageStep(c)
    BY <1>2, <1>m, <2>2, ImageStepTyped DEF ImageNext
  <2> QED  BY <1>2, <2>1, <2>2 DEF ImageNext
<1>3. CASE MailNext
  <2>1. ASSUME NEW m \in Mails, ContextChanges(m) PROVE UsageTypeOK' /\ MailTypeOK'
    BY <2>1, <1>u DEF ContextChanges, MailTypeOK
  <2>2. ASSUME NEW m \in Mails, MailStep(m) PROVE UsageTypeOK' /\ MailTypeOK'
    BY <2>2, MailStepTyped
  <2>3. ASSUME NEW d \in Deliveries, DeliveryStep(d) PROVE UsageTypeOK' /\ MailTypeOK'
    <3>1. UNCHANGED usageVars
      BY <2>3 DEF DeliveryStep, LoadContext, Claim, Persist, Block, Start, MarkStarted,
                  DeliveryFails
    <3> QED  BY <2>3, <3>1, <1>u, DeliveryStepTyped
  <2>4. ASSUME NEW d \in Deliveries, NEW m \in Mails, Deliver(d, m)
        PROVE  UsageTypeOK' /\ MailTypeOK'
    <3>1. UNCHANGED usageVars
      BY <2>4 DEF Deliver
    <3> QED  BY <2>4, <3>1, <1>u, DeliverTyped
  <2> QED  BY <1>3, <1>i, <2>1, <2>2, <2>3, <2>4 DEF MailNext
<1>4. CASE UNCHANGED vars
  BY <1>4, <1>u, <1>i, <1>m DEF vars
<1> QED  BY <1>1, <1>2, <1>3, <1>4 DEF Next

\* Calls, counters, jobs, runs, messages and deliveries are always well
\* formed: periods stay within their range, and the budget's counters do not
\* become negative, although a finalization gives back what it did not book.
THEOREM AiTypes == Spec => []TypeOK
<1> QED  BY InitTyped, NextTyped, PTL DEF Spec

-----------------------------------------------------------------------------
(***************************************************************************)
(* One run per message.                                                    *)
(***************************************************************************)

\* One invocation decides, none does once a run was started, and while one
\* decides the message is in the state in which nobody else may decide.
OneRunInv(m) ==
    /\ \A d, e \in Deliveries : Decides(d, m) /\ Decides(e, m) => d = e
    /\ (\E d \in Deliveries : Decides(d, m)) =>
          started[m] = 0 /\ mail[m].status = "received" /\ mail[m].reason = "none"
    /\ started[m] <= 1
    /\ started[m] # 0 => mail[m].status # "none" /\ mail[m].reason # "unresolved"
    /\ mail[m].status = "none" => mail[m].reason = "none"
    /\ mailRun[m].pc # "none" => started[m] # 0

\* A step of a delivery leaves other messages alone.
LEMMA DeliveryElsewhere ==
    ASSUME MailTypeOK, NEW d \in Deliveries, DeliveryStep(d), NEW m \in Mails,
           delivery[d].mail # m, OneRunInv(m)
    PROVE  OneRunInv(m)'
<1> USE DEF MailTypeOK, DeliveryTo
<1>0. delivery[d] \in Delivery /\ delivery[d].mail \in Mails
  BY DEF Delivery
<1>1. mail'[m] = mail[m] /\ started'[m] = started[m] /\ mailRun'[m] = mailRun[m]
  BY <1>0 DEF DeliveryStep, LoadContext, Claim, Persist, Block, Start, MarkStarted, DeliveryFails
<1>2. /\ delivery'[d].mail # m
      /\ \A e \in Deliveries \ {d} : delivery'[e] = delivery[e]
  BY <1>0 DEF DeliveryStep, LoadContext, Claim, Persist, Block, Start, MarkStarted,
              DeliveryFails, Delivery
<1>3. \A e \in Deliveries : Decides(e, m)' => Decides(e, m)
  BY <1>2 DEF Decides
<1> QED  BY <1>1, <1>3 DEF OneRunInv

\* A step of a delivery of the message.
LEMMA DeliveryHere ==
    ASSUME MailTypeOK, NEW d \in Deliveries, DeliveryStep(d), NEW m \in Mails,
           delivery[d].mail = m, OneRunInv(m)
    PROVE  OneRunInv(m)'
<1> USE DEF MailTypeOK, DeliveryTo, DeliveryAt
<1>0. delivery[d] \in Delivery /\ mail[m] \in Mail /\ mailRun[m] \in MailRun /\ started[m] \in Nat
  OBVIOUS
<1>e. \A e \in Deliveries \ {d} : delivery'[e] = delivery[e]
  BY DEF DeliveryStep, LoadContext, Claim, Persist, Block, Start, MarkStarted, DeliveryFails
<1>o. \A e \in Deliveries \ {d} : Decides(e, m)' <=> Decides(e, m)
  BY <1>e DEF Decides
\* A step after which d does not decide, and that leaves the rest.
<1>s. ASSUME UNCHANGED <<mail, started, mailRun>>, ~ Decides(d, m)'
      PROVE  OneRunInv(m)'
  BY <1>s, <1>o DEF OneRunInv
<1>1. CASE LoadContext(d)
  <2>1. delivery'[d].pc \in {"persist", "claim", "idle"}
    BY <1>1, <1>0 DEF LoadContext, Delivery
  <2> QED  BY <1>1, <1>s, <2>1 DEF LoadContext, Decides
<1>2. CASE Claim(d)
  <2>1. CASE Repairable(m)
    <3>1. started[m] = 0
      BY <2>1 DEF Repairable, OneRunInv
    <3>2. \A e \in Deliveries : ~ Decides(e, m)
      BY <2>1 DEF Repairable, OneRunInv
    <3>3. mail'[m].status = "received" /\ mail'[m].reason = "none"
      BY <1>2, <2>1, <1>0 DEF Claim, Mail
    <3> QED  BY <1>2, <1>o, <3>1, <3>2, <3>3 DEF Claim, OneRunInv
  <2>2. CASE ~ Repairable(m)
    <3>1. delivery'[d].pc = "idle"
      BY <1>2, <2>2, <1>0 DEF Claim, Delivery
    <3> QED  BY <1>2, <2>2, <1>s, <3>1 DEF Claim, Decides
  <2> QED  BY <2>1, <2>2
<1>3. CASE Persist(d)
  <2>1. CASE mail[m].status = "none"
    <3>1. started[m] = 0 /\ mail[m].reason = "none"
      BY <2>1 DEF OneRunInv
    <3>2. \A e \in Deliveries : ~ Decides(e, m)
      BY <2>1 DEF OneRunInv
    <3>3. mail'[m].status = "received" /\ mail'[m].reason = "none"
      BY <1>3, <2>1, <3>1, <1>0 DEF Persist, Mail
    <3> QED  BY <1>3, <1>o, <3>1, <3>2, <3>3 DEF Persist, OneRunInv
  <2>2. CASE mail[m].status # "none"
    <3>1. delivery'[d].pc = "idle"
      BY <1>3, <2>2, <1>0 DEF Persist, Delivery
    <3> QED  BY <1>3, <2>2, <1>s, <3>1 DEF Persist, Decides
  <2> QED  BY <2>1, <2>2
<1>4. CASE Block(d)
  <2>1. Decides(d, m)
    BY <1>4 DEF Block, Decides
  <2>2. started[m] = 0 /\ \A e \in Deliveries \ {d} : ~ Decides(e, m)
    BY <2>1 DEF OneRunInv
  <2>3. delivery'[d].pc = "idle"
    BY <1>4, <1>0 DEF Block, Delivery
  <2>4. \A e \in Deliveries : ~ Decides(e, m)'
    BY <1>o, <2>2, <2>3 DEF Decides
  <2>5. mail'[m].status = "blocked"
    BY <1>4, <1>0 DEF Block, Mail
  <2> QED  BY <1>4, <2>2, <2>4, <2>5 DEF Block, OneRunInv
<1>5. CASE Start(d)
  <2>1. Decides(d, m)
    BY <1>5 DEF Start, Decides
  <2>2. /\ started[m] = 0 /\ mail[m].status = "received" /\ mail[m].reason = "none"
        /\ \A e \in Deliveries \ {d} : ~ Decides(e, m)
    BY <2>1 DEF OneRunInv
  <2>3. delivery'[d].pc = "started"
    BY <1>5, <1>0 DEF Start, Delivery
  <2>4. \A e \in Deliveries : ~ Decides(e, m)'
    BY <1>o, <2>2, <2>3 DEF Decides
  <2>5. started'[m] = 1
    BY <1>5, <2>2 DEF Start
  <2> QED  BY <1>5, <2>2, <2>4, <2>5 DEF Start, OneRunInv
<1>6. CASE MarkStarted(d)
  <2>1. mail'[m].status = mail[m].status /\ mail'[m].reason = mail[m].reason
    BY <1>6, <1>0 DEF MarkStarted, Mail
  <2>2. delivery'[d].pc = "idle"
    BY <1>6, <1>0 DEF MarkStarted, Delivery
  <2> QED  BY <1>6, <1>o, <2>1, <2>2 DEF MarkStarted, OneRunInv, Decides
<1>7. CASE DeliveryFails(d)
  <2>1. delivery'[d].pc = "idle"
    BY <1>7, <1>0 DEF DeliveryFails, Delivery
  <2> QED  BY <1>7, <1>s, <2>1 DEF DeliveryFails, Decides
<1> QED  BY <1>1, <1>2, <1>3, <1>4, <1>5, <1>6, <1>7 DEF DeliveryStep

\* A step of a run leaves the deliveries alone, and its message known and not
\* unresolved.
LEMMA RunKeepsOne ==
    ASSUME MailTypeOK, NEW n \in Mails, MailStep(n), NEW m \in Mails, OneRunInv(m)
    PROVE  OneRunInv(m)'
<1> USE DEF MailTypeOK, RunTo
<1>0. mail[m] \in Mail /\ mail[n] \in Mail /\ started[m] \in Nat /\ mailRun[n] \in MailRun
  OBVIOUS
<1>1. delivery' = delivery /\ started' = started
  BY DEF MailStep, MarkProcessing, RouteBlocks, RouteThrows, RouteAsks, RouteDecides,
         PersistManualCreate, Reply, ReplyThrows, MarkFailure, StepFails
<1>2. mailRun[n].pc # "none"
  BY DEF MailStep, MarkProcessing, RouteBlocks, RouteThrows, RouteAsks, RouteDecides,
         PersistManualCreate, Reply, ReplyThrows, MarkFailure, StepFails, RunAt
<1>3. \A d \in Deliveries : Decides(d, m)' <=> Decides(d, m)
  BY <1>1 DEF Decides
<1>4. \E r : mailRun' = [mailRun EXCEPT ![n] = r]
  BY DEF MailStep, MarkProcessing, RouteBlocks, RouteThrows, RouteAsks, RouteDecides,
         PersistManualCreate, Reply, ReplyThrows, MarkFailure, StepFails
<1>5. \E r : /\ mail' = [mail EXCEPT ![n] = r]
             /\ r = mail[n] \/ (r.status # "none" /\ r.reason \in {mail[n].reason, "none", "route"})
  <2> DEFINE Good(r) == /\ mail' = [mail EXCEPT ![n] = r]
                        /\ \/ r = mail[n]
                           \/ r.status # "none" /\ r.reason \in {mail[n].reason, "none", "route"}
  <2>s. UNCHANGED mail => Good(mail[n])
    OBVIOUS
  <2>w. \A outcome \in {"blocked", "processing"} : RouteWrite(n, outcome) => \E r : Good(r)
    <3>1. ASSUME NEW outcome \in {"blocked", "processing"}, RouteWrite(n, outcome)
          PROVE  Good([mail[n] EXCEPT !.status = outcome,
                                      !.reason = IF outcome = "blocked" THEN "route" ELSE "none"])
      BY <3>1, <1>0 DEF RouteWrite, Mail
    <3> QED  BY <3>1
  <2>p. ASSUME NEW status \in {"processing", "awaiting-manual-create", "failed"}
        PROVE  /\ mail' = [mail EXCEPT ![n] = [mail[n] EXCEPT !.status = status]]
                     => Good([mail[n] EXCEPT !.status = status])
               /\ mail' = [mail EXCEPT ![n] = [mail[n] EXCEPT !.status = status, !.runId = TRUE]]
                     => Good([mail[n] EXCEPT !.status = status, !.runId = TRUE])
    BY <1>0, <2>p DEF Mail
  <2>g. SUFFICES \E r : Good(r)
    OBVIOUS
  <2> HIDE DEF Good
  <2>1. CASE MarkProcessing(n)
    <3>1. mail' = [mail EXCEPT ![n] = [mail[n] EXCEPT !.status = "processing", !.runId = TRUE]]
      BY <2>1 DEF MarkProcessing, MarkProcessingWrites
    <3> QED  BY <3>1, <2>p
  <2>2. CASE RouteBlocks(n)
    BY <2>2, <2>w DEF RouteBlocks
  <2>3. CASE \E outcome \in {"blocked", "processing"} : RouteDecides(n, outcome)
    BY <2>3, <2>w DEF RouteDecides
  <2>4. CASE PersistManualCreate(n)
    <3>1. mail' = [mail EXCEPT ![n] = [mail[n] EXCEPT !.status = "awaiting-manual-create"]]
      BY <2>4 DEF PersistManualCreate, PersistWrites
    <3> QED  BY <3>1, <2>p
  <2>5. CASE MarkFailure(n)
    <3>1. mail' = [mail EXCEPT ![n] = [mail[n] EXCEPT !.status = "failed", !.runId = TRUE]]
      BY <2>5 DEF MarkFailure, FailureWrites
    <3> QED  BY <3>1, <2>p
  <2>6. CASE StepFails(n)
    <3>1. \/ mail' = mail
          \/ \E outcome \in {"blocked", "processing"} : RouteWrite(n, outcome)
          \/ mail' = [mail EXCEPT ![n] = [mail[n] EXCEPT !.status = "processing", !.runId = TRUE]]
          \/ mail' = [mail EXCEPT ![n] = [mail[n] EXCEPT !.status = "awaiting-manual-create"]]
          \/ mail' = [mail EXCEPT ![n] = [mail[n] EXCEPT !.status = "failed", !.runId = TRUE]]
      BY <2>6 DEF StepFails, Partly
    <3> QED  BY <3>1, <2>s, <2>w, <2>p
  <2>7. CASE UNCHANGED mail
    BY <2>7, <2>s
  <2> QED
    BY <2>1, <2>2, <2>3, <2>4, <2>5, <2>6, <2>7
       DEF MailStep, RouteThrows, RouteAsks, Reply, ReplyThrows
<1>6. CASE m = n
  <2>1. started[m] # 0 /\ \A d \in Deliveries : ~ Decides(d, m)
    BY <1>2, <1>6 DEF OneRunInv
  <2>2. mail'[m].status # "none" /\ mail'[m].reason # "unresolved"
    BY <1>5, <1>6, <2>1 DEF OneRunInv
  <2> QED  BY <1>1, <1>3, <2>1, <2>2 DEF OneRunInv
<1>7. CASE m # n
  <2>1. mail'[m] = mail[m] /\ mailRun'[m] = mailRun[m]
    BY <1>4, <1>5, <1>7
  <2> QED  BY <1>1, <1>3, <2>1 DEF OneRunInv
<1> QED  BY <1>6, <1>7

\* The steps of the tenant's calls and jobs.
LEMMA OthersKeepOne ==
    ASSUME UNCHANGED <<mail, started, mailRun, delivery>>, NEW m \in Mails, OneRunInv(m)
    PROVE  OneRunInv(m)'
BY DEF OneRunInv, Decides

LEMMA NextKeepsOne ==
    ASSUME TypeOK, [Next]_vars, NEW m \in Mails, OneRunInv(m)
    PROVE  OneRunInv(m)'
<1> USE DEF TypeOK
<1>1. CASE UsageNext
  BY <1>1, OthersKeepOne DEF UsageNext, mailVars
<1>2. CASE ImageNext
  BY <1>2, OthersKeepOne DEF ImageNext, mailVars
<1>3. CASE MailNext
  <2>1. ASSUME NEW n \in Mails, ContextChanges(n) PROVE OneRunInv(m)'
    BY <2>1, OthersKeepOne DEF ContextChanges
  <2>2. ASSUME NEW n \in Mails, MailStep(n) PROVE OneRunInv(m)'
    BY <2>2, RunKeepsOne
  <2>3. ASSUME NEW d \in Deliveries, DeliveryStep(d) PROVE OneRunInv(m)'
    BY <2>3, DeliveryHere, DeliveryElsewhere
  <2>4. ASSUME NEW d \in Deliveries, NEW n \in Mails, Deliver(d, n) PROVE OneRunInv(m)'
    <3>1. \A e \in Deliveries : Decides(e, m)' => Decides(e, m)
      BY <2>4 DEF Deliver, Decides, MailTypeOK
    <3> QED  BY <2>4, <3>1 DEF Deliver, OneRunInv
  <2> QED  BY <1>3, <2>1, <2>2, <2>3, <2>4 DEF MailNext
<1>4. CASE UNCHANGED vars
  BY <1>4, OthersKeepOne DEF vars, mailVars
<1> QED  BY <1>1, <1>2, <1>3, <1>4 DEF Next

\* However many deliveries of a message overlap, whatever a killed or failed
\* invocation leaves behind and however often a blocked message is repaired,
\* at most one run is started for it.
THEOREM OneRun == Spec => []OneRunPerMail
<1>1. Init => \A m \in Mails : OneRunInv(m)
  <2> SUFFICES ASSUME Init, NEW m \in Mails PROVE OneRunInv(m)
    OBVIOUS
  <2>1. \A d \in Deliveries : ~ Decides(d, m)
    <3>1. \A d \in Deliveries : delivery[d].pc = "idle"
      BY DEF Init, MailInit
    <3> QED  BY <3>1 DEF Decides
  <2>2. /\ started[m] = 0 /\ mailRun[m].pc = "none"
        /\ mail[m].status = "none" /\ mail[m].reason = "none"
    BY DEF Init, MailInit
  <2> QED  BY <2>1, <2>2 DEF OneRunInv
<1>2. TypeOK /\ (\A m \in Mails : OneRunInv(m)) /\ [Next]_vars
        => (\A m \in Mails : OneRunInv(m))'
  BY NextKeepsOne
<1>3. (\A m \in Mails : OneRunInv(m)) => OneRunPerMail
  BY DEF OneRunInv, OneRunPerMail
<1> QED  BY <1>1, <1>2, <1>3, AiTypes, PTL DEF Spec

-----------------------------------------------------------------------------
(***************************************************************************)
(* Settlements, when writes do not fail.                                   *)
(***************************************************************************)

\* A call is settled once, from a state in which it holds a reservation just
\* when it was enforced, and the workflow of an image waits with its call
\* running until it finalizes or releases it.
SettleInv(c) ==
    /\ call[c].pc # "thrown"
    /\ call[c].pc \in {"idle", "reserve"} => ~ call[c].held /\ Settlements(c) = 0
    /\ call[c].pc \in {"running", "merge", "release"} =>
          Settlements(c) = 0 /\ (call[c].held <=> Enforced(c))
    /\ call[c].pc = "reserve" => Enforced(c)
    /\ call[c].pc \in {"idle", "reserve", "running"} => call[c].actual = 0
    /\ setting.modes = {"enforce"} => Enforced(c)
    /\ run[c].pc \in {"book", "generate", "finalize", "undo"} => call[c].pc = "running"
    /\ run[c].pc # "none" => Kind(c) = "image"

Settled == ~ Fault("store") => \A c \in Calls : SettleInv(c)

LEMMA SettingStays == [Next]_vars => setting' = setting
<1> USE DEF usageVars, counterVars, imageVars, mailVars, vars
<1>1. \A c \in Calls : CallStep(c) => setting' = setting
  BY DEF CallStep, Reserve, ReserveThrows, Answered, ProviderFails, Merge, MergeThrows,
         RecordEvent, RecordEventThrows, Summarise, Release, ReleaseThrows, StreamBreaks, Vanish
<1>2. \A c \in Calls : ImageStep(c) => setting' = setting
  BY DEF ImageStep, Launch, LaunchThrows, ActionDies, LaunchReleaseThrew, BookQuota,
         BookRefused, StepThrows, Generate, GenerateFails, FinalizeCharge, UsageFinalized,
         UsageThrows, Undo, Released, ReleaseRepeated
<1>3. MailNext => setting' = setting
  BY DEF MailNext, ContextChanges, Deliver, DeliveryStep, LoadContext, Claim, Persist, Block,
         Start, MarkStarted, DeliveryFails, MailStep, MarkProcessing, RouteBlocks,
         RouteThrows, RouteAsks, RouteDecides, PersistManualCreate, Reply, ReplyThrows,
         MarkFailure, StepFails, Prepare
<1> QED
  BY <1>1, <1>2, <1>3 DEF Next, UsageNext, ImageNext, Tick, Prepare, ToggleQuota

LEMMA CallKeepsSettle ==
    ASSUME UsageTypeOK, ~ Fault("store"), NEW c \in Calls, CallStep(c), run' = run,
           SettleInv(c)
    PROVE  SettleInv(c)' /\ \A e \in Calls \ {c} : call'[e] = call[e]
<1> USE DEF At, Goto, Enforced, Settlements, SettleInv, Kind
<1>0. /\ call[c] \in Call /\ call \in [Calls -> Call]
      /\ call[c].merges \in Nat /\ call[c].releases \in Nat
  BY DEF UsageTypeOK, Call
<1>1. CASE Reserve(c)
  <2>1. call'[c] \in {[call[c] EXCEPT !.pc = "running", !.held = TRUE],
                      [call[c] EXCEPT !.pc = "denied"]}
    BY <1>0, <1>1 DEF Reserve
  <2>2. setting' = setting /\ \A e \in Calls \ {c} : call'[e] = call[e]
    BY <1>0, <1>1 DEF Reserve
  <2> QED  BY <1>0, <1>1, <2>1, <2>2 DEF Reserve, Call
<1>2. CASE \E actual \in Actuals : Answered(c, actual)
  <2>1. \/ call'[c] = [call[c] EXCEPT !.pc = "done"]
        \/ \E actual : call'[c] = [call[c] EXCEPT !.pc = "merge", !.actual = actual]
    BY <1>0, <1>2 DEF Answered
  <2>2. setting' = setting /\ \A e \in Calls \ {c} : call'[e] = call[e]
    BY <1>0, <1>2 DEF Answered
  <2> QED  BY <1>0, <1>2, <2>1, <2>2 DEF Answered, Call
<1>3. CASE ProviderFails(c)
  BY <1>0, <1>3 DEF ProviderFails, Call
<1>4. CASE Merge(c)
  <2>1. call'[c] = [call[c] EXCEPT !.pc = "event", !.merges = call[c].merges + 1]
    BY <1>0, <1>4 DEF Merge
  <2>2. setting' = setting /\ \A e \in Calls \ {c} : call'[e] = call[e]
    BY <1>0, <1>4 DEF Merge
  <2> QED  BY <1>0, <1>4, <2>1, <2>2 DEF Merge, Call
<1>5. CASE RecordEvent(c)
  BY <1>0, <1>5 DEF RecordEvent, Call
<1>6. CASE Summarise(c)
  <2>1. \E ws : call'[c] = [call[c] EXCEPT !.pc = "done", !.recorded = ws]
    BY <1>0, <1>6 DEF Summarise
  <2>2. setting' = setting /\ \A e \in Calls \ {c} : call'[e] = call[e]
    BY <1>0, <1>6 DEF Summarise
  <2> QED  BY <1>0, <1>6, <2>1, <2>2 DEF Summarise, Call
<1>7. CASE Release(c)
  <2>1. call'[c] = [call[c] EXCEPT !.pc = "failed", !.releases = call[c].releases + 1]
    BY <1>0, <1>7 DEF Release
  <2>2. setting' = setting /\ \A e \in Calls \ {c} : call'[e] = call[e]
    BY <1>0, <1>7 DEF Release
  <2> QED  BY <1>0, <1>7, <2>1, <2>2 DEF Release, Call
<1>8. CASE StreamBreaks(c) \/ Vanish(c)
  <2>1. run[c].pc \notin {"book", "generate", "finalize", "undo"}
    BY <1>8 DEF StreamBreaks, Vanish
  <2> QED  BY <1>0, <1>8, <2>1 DEF StreamBreaks, Vanish, Call
<1> QED
  BY <1>1, <1>2, <1>3, <1>4, <1>5, <1>6, <1>7, <1>8
     DEF CallStep, ReserveThrows, MergeThrows, RecordEventThrows, ReleaseThrows

LEMMA PrepareKeepsSettle ==
    ASSUME UsageTypeOK, NEW c \in Calls, NEW mode \in Modes, Prepare(c, mode), run' = run,
           SettleInv(c)
    PROVE  SettleInv(c)' /\ \A e \in Calls \ {c} : call'[e] = call[e]
<1> USE DEF Enforced, Settlements, SettleInv, Kind
<1>0. call[c] \in Call /\ call \in [Calls -> Call]
  BY DEF UsageTypeOK
<1>1. /\ call[c].pc = "idle" /\ mode \in setting.modes
      /\ setting' = setting /\ \A e \in Calls \ {c} : call'[e] = call[e]
  BY <1>0 DEF Prepare, At
<1>2. \E next \in (IF mode = "enforce" THEN {"reserve", "denied"} ELSE {"running"}) :
        call'[c] = [call[c] EXCEPT !.pc = next, !.mode = mode, !.period = now]
  BY <1>0 DEF Prepare
<1> QED  BY <1>0, <1>1, <1>2 DEF Call

LEMMA ImageKeepsSettle ==
    ASSUME UsageTypeOK, ImageTypeOK, ~ Fault("store"), NEW c \in Calls, ImageStep(c),
           SettleInv(c)
    PROVE  /\ SettleInv(c)'
           /\ \A e \in Calls \ {c} : call'[e] = call[e] /\ run'[e] = run[e]
<1> USE DEF At, Goto, Enforced, Settlements, SettleInv, Kind, In, Images, On, Ends
<1>0. /\ call[c] \in Call /\ call \in [Calls -> Call]
      /\ run[c] \in Run /\ run \in [Calls -> Run]
  BY DEF UsageTypeOK, ImageTypeOK
<1>s. setting' = setting
  BY DEF ImageStep, Launch, LaunchThrows, ActionDies, LaunchReleaseThrew, BookQuota,
         BookRefused, StepThrows, Generate, GenerateFails, FinalizeCharge, UsageFinalized,
         UsageThrows, Undo, Released, ReleaseRepeated, usageVars
\* A step of the run only.
<1>r. ASSUME NEW pc \in {"book", "generate", "finalize", "undo", "release", "completed", "failed"},
             call' = call, run'[c].pc = pc, \A e \in Calls \ {c} : run'[e] = run[e],
             pc \in {"book", "generate", "finalize", "undo"} => call[c].pc = "running",
             Kind(c) = "image"
      PROVE  SettleInv(c)' /\ \A e \in Calls \ {c} : call'[e] = call[e] /\ run'[e] = run[e]
  BY <1>r, <1>s
\* A step that moves a call on, not to the end of a reservation.
<1>p. ASSUME NEW pc \in {"release", "gone"}, call' = [call EXCEPT ![c].pc = pc],
             run' = run, run[c].pc = "none",
             pc = "release" => call[c].pc = "running"
      PROVE  SettleInv(c)' /\ \A e \in Calls \ {c} : call'[e] = call[e] /\ run'[e] = run[e]
  BY <1>0, <1>p, <1>s DEF Call
<1>1. CASE Launch(c)
  BY <1>0, <1>1, <1>r DEF Launch, usageVars, Run
<1>2. CASE LaunchThrows(c)
  BY <1>2, <1>p DEF LaunchThrows, imageVars
<1>3. CASE ActionDies(c)
  BY <1>3, <1>p DEF ActionDies, imageVars
<1>4. CASE BookQuota(c)
  <2>1. \E p : run' = [run EXCEPT ![c] = [[run[c] EXCEPT !.period = p]
                                            EXCEPT !.pc = "generate", !.tries = 0]]
    BY <1>4 DEF BookQuota
  <2>2. run'[c].pc = "generate" /\ \A e \in Calls \ {c} : run'[e] = run[e]
    BY <1>0, <2>1 DEF Run
  <2>3. call' = call /\ call[c].pc = "running" /\ setting.kind[c] = "image"
    BY <1>4 DEF BookQuota, usageVars
  <2> QED  BY <2>2, <2>3, <1>s
<1>5. CASE BookRefused(c)
  <2>1. run'[c].pc = "failed" /\ \A e \in Calls \ {c} : run'[e] = run[e]
    BY <1>0, <1>5 DEF BookRefused, Run
  <2> QED  BY <1>5, <2>1, <1>s DEF BookRefused, usageVars
<1>6. CASE Generate(c)
  <2>1. \E charge : run' = [run EXCEPT ![c] = [[run[c] EXCEPT !.charge = charge]
                                                 EXCEPT !.pc = "finalize", !.tries = 0]]
    BY <1>6 DEF Generate
  <2>2. run'[c].pc = "finalize" /\ \A e \in Calls \ {c} : run'[e] = run[e]
    BY <1>0, <2>1 DEF Run
  <2> QED  BY <1>6, <2>2, <1>s DEF Generate, usageVars
<1>7. CASE GenerateFails(c)
  <2>1. run'[c].pc \in {"generate", "undo"} /\ \A e \in Calls \ {c} : run'[e] = run[e]
    BY <1>0, <1>7 DEF GenerateFails, Run, Threw
  <2> QED  BY <1>7, <2>1, <1>s DEF GenerateFails, usageVars
<1>8. CASE FinalizeCharge(c)
  <2>1. PICK images \in 1..Estimate :
          /\ run' = [run EXCEPT ![c] = [run[c] EXCEPT !.pc = "usage", !.tries = 0]]
          /\ call' = [call EXCEPT ![c].pc = IF call[c].mode = "disabled" THEN "done" ELSE "merge",
                                  ![c].actual = images]
    BY <1>0, <1>8 DEF FinalizeCharge, AfterFinalize, Run
  <2>2. run'[c].pc = "usage" /\ \A e \in Calls \ {c} : run'[e] = run[e] /\ call'[e] = call[e]
    BY <1>0, <2>1 DEF Run
  <2>3. call'[c] = [call[c] EXCEPT !.pc = IF call[c].mode = "disabled" THEN "done" ELSE "merge",
                                   !.actual = images]
    BY <1>0, <2>1
  <2>4. call[c].pc = "running" /\ Kind(c) = "image"
    BY <1>8 DEF FinalizeCharge
  <2> QED  BY <1>0, <2>2, <2>3, <2>4, <1>s DEF Call
<1>9. CASE UsageFinalized(c)
  <2>1. run'[c].pc = "completed" /\ \A e \in Calls \ {c} : run'[e] = run[e]
    BY <1>0, <1>9 DEF UsageFinalized, Run
  <2> QED  BY <1>9, <2>1, <1>s DEF UsageFinalized, usageVars
<1>10. CASE Undo(c)
  <2>1. /\ run' = [run EXCEPT ![c] = [run[c] EXCEPT !.pc = "release", !.tries = 0]]
        /\ call' = [call EXCEPT ![c].pc = "release"]
    BY <1>0, <1>10 DEF Undo, Run
  <2>2. run'[c].pc = "release" /\ \A e \in Calls \ {c} : run'[e] = run[e] /\ call'[e] = call[e]
    BY <1>0, <2>1 DEF Run
  <2>3. call'[c] = [call[c] EXCEPT !.pc = "release"]
    BY <1>0, <2>1
  <2>4. call[c].pc = "running" /\ Kind(c) = "image"
    BY <1>10 DEF Undo
  <2> QED  BY <1>0, <2>2, <2>3, <2>4, <1>s DEF Call
<1>11. CASE Released(c)
  <2>1. run'[c].pc = "failed" /\ \A e \in Calls \ {c} : run'[e] = run[e]
    BY <1>0, <1>11 DEF Released, Run
  <2> QED  BY <1>11, <2>1, <1>s DEF Released, usageVars
<1> QED
  BY <1>1, <1>2, <1>3, <1>4, <1>5, <1>6, <1>7, <1>8, <1>9, <1>10, <1>11
     DEF ImageStep, StepThrows, LaunchReleaseThrew, UsageThrows, ReleaseRepeated

\* A call and a run that nobody touched.
LEMMA OthersKeepSettle ==
    ASSUME NEW c, call'[c] = call[c], run'[c] = run[c], setting' = setting, SettleInv(c)
    PROVE  SettleInv(c)'
BY DEF SettleInv, Settlements, Enforced, Kind

\* The steps of an e-mail's run and of its deliveries, but for asking a model.
LEMMA MailLeavesUsage ==
    ASSUME MailNext
    PROVE  \/ \E m \in Mails, mode \in Modes : RouteAsks(m, mode)
           \/ UNCHANGED usageVars
BY DEF MailNext, ContextChanges, Deliver, DeliveryStep, LoadContext, Claim, Persist, Block,
       Start, MarkStarted, DeliveryFails, MailStep, MarkProcessing, RouteBlocks, RouteThrows,
       RouteDecides, PersistManualCreate, Reply, ReplyThrows, MarkFailure, StepFails

\* What the steps of the whole system are to the tenant's calls.
LEMMA StepsOfCalls ==
    ASSUME [Next]_vars
    PROVE  \/ \E ws : Tick(ws) /\ run' = run
           \/ \E c \in Calls, mode \in Modes : Prepare(c, mode) /\ run' = run
           \/ \E c \in Calls : CallStep(c) /\ run' = run
           \/ \E c \in Calls : ImageStep(c)
           \/ UNCHANGED <<usageVars, run>>
<1> USE DEF imageVars
<1>1. CASE UsageNext
  BY <1>1 DEF UsageNext, DirectCalls
<1>2. CASE ImageNext
  BY <1>2 DEF ImageNext, ToggleQuota
<1>3. CASE MailNext
  <2>1. run' = run
    BY <1>3 DEF MailNext
  <2>2. ASSUME NEW m \in Mails, NEW mode \in Modes, RouteAsks(m, mode)
        PROVE  \E c \in Calls : Prepare(c, mode)
    BY <2>2 DEF RouteAsks, Prepare, At, Callers
  <2> QED  BY <1>3, <2>1, <2>2, MailLeavesUsage
<1>4. CASE UNCHANGED vars
  BY <1>4 DEF vars
<1> QED  BY <1>1, <1>2, <1>3, <1>4 DEF Next

LEMMA NextKeepsSettled ==
    ASSUME TypeOK, Settled, [Next]_vars
    PROVE  Settled'
<1> USE DEF TypeOK
<1>1. setting' = setting
  BY SettingStays
<1> SUFFICES ASSUME ~ Fault("store"), NEW e \in Calls PROVE SettleInv(e)'
  BY <1>1 DEF Settled, Fault
<1>2. \A c \in Calls : SettleInv(c)
  BY DEF Settled
<1>3. CASE \E ws : Tick(ws) /\ run' = run
  BY <1>1, <1>2, <1>3, OthersKeepSettle DEF Tick
<1>4. ASSUME NEW c \in Calls, NEW mode \in Modes, Prepare(c, mode), run' = run
      PROVE  SettleInv(e)'
  <2>1. SettleInv(c)' /\ \A f \in Calls \ {c} : call'[f] = call[f]
    BY <1>2, <1>4, PrepareKeepsSettle
  <2> QED  BY <1>1, <1>2, <1>4, <2>1, OthersKeepSettle
<1>5. ASSUME NEW c \in Calls, CallStep(c), run' = run
      PROVE  SettleInv(e)'
  <2>1. SettleInv(c)' /\ \A f \in Calls \ {c} : call'[f] = call[f]
    BY <1>2, <1>5, CallKeepsSettle
  <2> QED  BY <1>1, <1>2, <1>5, <2>1, OthersKeepSettle
<1>6. ASSUME NEW c \in Calls, ImageStep(c)
      PROVE  SettleInv(e)'
  <2>1. SettleInv(c)' /\ \A f \in Calls \ {c} : call'[f] = call[f] /\ run'[f] = run[f]
    BY <1>2, <1>6, ImageKeepsSettle
  <2> QED  BY <1>1, <1>2, <2>1, OthersKeepSettle
<1>7. CASE UNCHANGED <<usageVars, run>>
  BY <1>1, <1>2, <1>7, OthersKeepSettle DEF usageVars
<1> QED  BY <1>3, <1>4, <1>5, <1>6, <1>7, StepsOfCalls

-----------------------------------------------------------------------------
(***************************************************************************)
(* Reservations.                                                           *)
(***************************************************************************)

LEMMA OpenFinite ==
    ASSUME setting \in Circumstances, NEW w, NEW p
    PROVE  IsFiniteSet(OpenIn(w, p)) /\ Cardinality(OpenIn(w, p)) \in Nat
<1>1. OpenIn(w, p) \subseteq Calls
  BY DEF OpenIn, Callers
<1> QED  BY <1>1, UsageAssumption, FS_Subset, FS_CardinalityType

LEMMA Times == \A k, n \in Int : k * (n + 1) = k * n + k
OBVIOUS

\* When no call's reservation is written or settled the open ones stay.
LEMMA OpenStays ==
    ASSUME setting' = setting,
           \A c \in Calls : /\ Open(c)' <=> Open(c)
                            /\ Open(c) => call'[c].period = call[c].period,
           NEW w, NEW p
    PROVE  OpenIn(w, p)' = OpenIn(w, p)
BY DEF OpenIn, Callers, Kind

Quiet ==
    /\ UNCHANGED <<reserved, used>>
    /\ \A c \in Calls :
          /\ Open(c)' <=> Open(c)
          /\ Open(c) => call'[c].period = call[c].period

\* With writes that work only these steps touch the reservations.
LEMMA QuietSteps ==
    ASSUME TypeOK, ~ Fault("store"), \A c \in Calls : SettleInv(c), [Next]_vars
    PROVE  \/ \E c \in Calls : Reserve(c) \/ Merge(c) \/ Release(c)
           \/ Quiet
<1> USE DEF TypeOK, UsageTypeOK, Open, Settlements, Goto, counterVars, usageVars
<1>0. call \in [Calls -> Call]
  OBVIOUS
\* A step that changes neither the reservation nor the period of a call.
<1>q. ASSUME UNCHANGED <<reserved, used>>,
             \A c \in Calls : /\ call'[c].held = call[c].held
                              /\ call'[c].merges = call[c].merges
                              /\ call'[c].releases = call[c].releases
                              /\ call'[c].period = call[c].period
      PROVE  Quiet
  BY <1>q DEF Quiet
<1>f. ASSUME NEW c \in Calls, NEW pc, NEW n,
             \/ call' = [call EXCEPT ![c].pc = pc]
             \/ call' = [call EXCEPT ![c].pc = pc, ![c].actual = n]
      PROVE  \A e \in Calls : /\ call'[e].held = call[e].held
                              /\ call'[e].merges = call[e].merges
                              /\ call'[e].releases = call[e].releases
                              /\ call'[e].period = call[e].period
  BY <1>0, <1>f DEF Call
<1>1. CASE \E ws : Tick(ws)
  BY <1>1, <1>q DEF Tick
<1>2. ASSUME NEW c \in Calls, NEW mode \in Modes, Prepare(c, mode) PROVE Quiet
  <2>1. ~ call[c].held
    BY <1>2 DEF Prepare, At, SettleInv
  <2>2. \A e \in Calls : /\ call'[e].held = call[e].held
                         /\ call'[e].merges = call[e].merges
                         /\ call'[e].releases = call[e].releases
                         /\ e # c => call'[e].period = call[e].period
    BY <1>0, <1>2 DEF Prepare, Call
  <2> QED  BY <1>2, <2>1, <2>2 DEF Prepare, Quiet
<1>3. ASSUME NEW c \in Calls, CallStep(c)
      PROVE  Reserve(c) \/ Merge(c) \/ Release(c) \/ Quiet
  <2>1. CASE \E actual \in Actuals : Answered(c, actual)
    <3>1. \/ call' = [call EXCEPT ![c].pc = "done"]
          \/ \E n : call' = [call EXCEPT ![c].pc = "merge", ![c].actual = n]
      BY <2>1 DEF Answered
    <3> QED  BY <2>1, <3>1, <1>f, <1>q DEF Answered
  <2>2. CASE ProviderFails(c)
    BY <1>0, <2>2, <1>q DEF ProviderFails, Call
  <2>3. CASE RecordEvent(c)
    BY <1>0, <2>3, <1>q DEF RecordEvent, Call
  <2>4. CASE Summarise(c)
    <3>1. \E ws : call' = [call EXCEPT ![c].pc = "done", ![c].recorded = @ \cup ws]
      BY <2>4 DEF Summarise
    <3> QED  BY <1>0, <2>4, <3>1, <1>q DEF Summarise, Call
  <2>5. CASE StreamBreaks(c) \/ Vanish(c)
    <3>1. call' = [call EXCEPT ![c].pc = "gone"] /\ UNCHANGED <<reserved, used>>
      BY <2>5 DEF StreamBreaks, Vanish
    <3> QED  BY <3>1, <1>f, <1>q
  <2> QED
    BY <1>3, <2>1, <2>2, <2>3, <2>4, <2>5
       DEF CallStep, ReserveThrows, MergeThrows, RecordEventThrows, ReleaseThrows
<1>4. ASSUME NEW c \in Calls, ImageStep(c) PROVE Quiet
  <2>1. UNCHANGED <<reserved, used>>
    BY <1>4 DEF ImageStep, Launch, LaunchThrows, ActionDies, LaunchReleaseThrew, BookQuota,
           BookRefused, StepThrows, Generate, GenerateFails, FinalizeCharge, UsageFinalized,
           UsageThrows, Undo, Released, ReleaseRepeated
  <2>2. \/ call' = call
        \/ \E pc : call' = [call EXCEPT ![c].pc = pc]
        \/ \E pc, n : call' = [call EXCEPT ![c].pc = pc, ![c].actual = n]
    BY <1>4 DEF ImageStep, Launch, LaunchThrows, ActionDies, LaunchReleaseThrew, BookQuota,
           BookRefused, StepThrows, Generate, GenerateFails, FinalizeCharge, AfterFinalize,
           UsageFinalized, UsageThrows, Undo, Released, ReleaseRepeated
  <2> QED  BY <2>1, <2>2, <1>f, <1>q
<1>5. CASE UNCHANGED usageVars
  BY <1>5, <1>q
<1> QED  BY <1>1, <1>2, <1>3, <1>4, <1>5, StepsOfCalls

\* What an open reservation's begin and end do to the open ones.
LEMMA OpenChanges ==
    ASSUME TypeOK, NEW c \in Callers, setting' = setting,
           \A e \in Calls : call'[e].period = call[e].period,
           \A e \in Calls \ {c} : Open(e)' <=> Open(e),
           NEW w, NEW p,
           w \in WindowsOf(Kind(c)) /\ call[c].period[w] = p
    PROVE  /\ ~ Open(c) /\ Open(c)' =>
                 Cardinality(OpenIn(w, p)') = Cardinality(OpenIn(w, p)) + 1
           /\ Open(c) /\ ~ Open(c)' =>
                 Cardinality(OpenIn(w, p)) = Cardinality(OpenIn(w, p)') + 1
<1>f. IsFiniteSet(OpenIn(w, p)) /\ Cardinality(OpenIn(w, p)) \in Nat
  BY OpenFinite DEF TypeOK, UsageTypeOK
<1>c. c \in Calls
  BY DEF Callers
<1>1. ASSUME ~ Open(c), Open(c)'
      PROVE  Cardinality(OpenIn(w, p)') = Cardinality(OpenIn(w, p)) + 1
  <2>1. OpenIn(w, p)' = OpenIn(w, p) \cup {c} /\ c \notin OpenIn(w, p)
    BY <1>c, <1>1 DEF OpenIn, Callers, Kind
  <2> QED  BY <1>f, <2>1, FS_AddElement
<1>2. ASSUME Open(c), ~ Open(c)'
      PROVE  Cardinality(OpenIn(w, p)) = Cardinality(OpenIn(w, p)') + 1
  <2>1. OpenIn(w, p)' = OpenIn(w, p) \ {c} /\ c \in OpenIn(w, p)
    BY <1>c, <1>2 DEF OpenIn, Callers, Kind
  <2>2. Cardinality(OpenIn(w, p)') = Cardinality(OpenIn(w, p)) - 1
    BY <1>f, <2>1, FS_RemoveElement
  <2> QED  BY <1>f, <2>2
<1> QED  BY <1>1, <1>2

LEMMA OpenElsewhere ==
    ASSUME NEW c \in Callers, setting' = setting,
           \A e \in Calls : call'[e].period = call[e].period,
           \A e \in Calls \ {c} : Open(e)' <=> Open(e),
           NEW w, NEW p,
           ~ (w \in WindowsOf(Kind(c)) /\ call[c].period[w] = p)
    PROVE  OpenIn(w, p)' = OpenIn(w, p)
BY DEF OpenIn, Callers, Kind

LEMMA AddedAt ==
    ASSUME NEW counter, NEW c, NEW ws, NEW n, NEW w \in Windows, NEW p \in Period
    PROVE  Add(counter, c, ws, n)[w][p] =
              IF w \in ws /\ call[c].period[w] = p THEN counter[w][p] + n ELSE counter[w][p]
BY DEF Add

\* A step of the call of c that is the only one to write or settle.
LEMMA OnlyOne ==
    ASSUME TypeOK, NEW c \in Calls, Reserve(c) \/ Merge(c) \/ Release(c)
    PROVE  /\ c \in Callers
           /\ \A e \in Calls : /\ call'[e].period = call[e].period
                               /\ call'[e].mode = call[e].mode
                               /\ call'[e].actual = call[e].actual
           /\ \A e \in Calls \ {c} : Open(e)' <=> Open(e)
<1> USE DEF Open, Settlements
<1>0. call \in [Calls -> Call]
  BY DEF TypeOK, UsageTypeOK
<1>1. CASE Reserve(c)
  <2>1. \/ call' = [call EXCEPT ![c].pc = "running", ![c].held = TRUE]
        \/ call' = [call EXCEPT ![c].pc = "denied"]
    BY <1>1 DEF Reserve, Goto
  <2> QED  BY <1>0, <1>1, <2>1 DEF Reserve, At, Call
<1>2. CASE Merge(c)
  BY <1>0, <1>2 DEF Merge, At, Call
<1>3. CASE Release(c)
  BY <1>0, <1>3 DEF Release, At, Call
<1> QED  BY <1>1, <1>2, <1>3

LEMMA NextKeepsReserved ==
    ASSUME TypeOK, Settled, ReservedIsOpen, [Next]_vars
    PROVE  ReservedIsOpen'
<1>s. setting' = setting
  BY SettingStays
<1> SUFFICES ASSUME ~ Fault("store"), NEW w \in Windows, NEW p \in Period
             PROVE  reserved'[w][p] = Estimate * Cardinality(OpenIn(w, p)')
  BY <1>s DEF ReservedIsOpen, Fault
<1>1. \A c \in Calls : SettleInv(c)
  BY DEF Settled
<1>2. reserved[w][p] = Estimate * Cardinality(OpenIn(w, p))
  BY DEF ReservedIsOpen
<1>3. Estimate \in Int /\ Cardinality(OpenIn(w, p)) \in Int
  BY UsageAssumption, OpenFinite DEF TypeOK, UsageTypeOK
<1>t. Cardinality(OpenIn(w, p)') \in Int
  <2>1. setting' \in Circumstances
    BY <1>s DEF TypeOK, UsageTypeOK
  <2>2. OpenIn(w, p)' \subseteq Calls
    BY <1>s DEF OpenIn, Callers
  <2> QED  BY <2>2, UsageAssumption, FS_Subset, FS_CardinalityType
<1>4. CASE Quiet
  <2>1. OpenIn(w, p)' = OpenIn(w, p)
    BY <1>s, <1>4, OpenStays DEF Quiet
  <2> QED  BY <1>2, <1>4, <2>1 DEF Quiet
<1>5. ASSUME NEW c \in Calls, Reserve(c) \/ Merge(c) \/ Release(c)
      PROVE  reserved'[w][p] = Estimate * Cardinality(OpenIn(w, p)')
  <2>0. /\ call \in [Calls -> Call] /\ call[c] \in Call
        /\ call[c].merges \in Nat /\ call[c].releases \in Nat
    BY DEF TypeOK, UsageTypeOK, Call
  <2> DEFINE Here == w \in WindowsOf(Kind(c)) /\ call[c].period[w] = p
  <2>1. ~ Here => OpenIn(w, p)' = OpenIn(w, p)
    BY <1>s, <1>5, OnlyOne, OpenElsewhere
  <2>2. Here /\ ~ Open(c) /\ Open(c)' =>
           Cardinality(OpenIn(w, p)') = Cardinality(OpenIn(w, p)) + 1
    BY <1>s, <1>5, OnlyOne, OpenChanges
  <2>3. Here /\ Open(c) /\ ~ Open(c)' =>
           Cardinality(OpenIn(w, p)) = Cardinality(OpenIn(w, p)') + 1
    BY <1>s, <1>5, OnlyOne, OpenChanges
  <2>4. (Open(c)' <=> Open(c)) => OpenIn(w, p)' = OpenIn(w, p)
    BY <1>s, <1>5, OnlyOne, OpenStays
  <2>a. \A n : Add(reserved, c, WindowsOf(Kind(c)), n)[w][p] =
                  IF Here THEN reserved[w][p] + n ELSE reserved[w][p]
    BY AddedAt
  <2> HIDE DEF Here
  <2>5. CASE Reserve(c) /\ Allowed(c)
    <3>1. ~ Open(c)
      BY <2>5, <1>1 DEF Reserve, At, SettleInv, Open
    <3>2. call'[c].held /\ call'[c].merges = call[c].merges
          /\ call'[c].releases = call[c].releases
      BY <2>0, <2>5 DEF Reserve, Call
    <3>3. Open(c)'
      BY <2>0, <2>5, <3>2, <1>1 DEF Reserve, At, SettleInv, Settlements, Open
    <3>4. reserved'[w][p] = IF Here THEN reserved[w][p] + Estimate ELSE reserved[w][p]
      BY <2>5, <2>a DEF Reserve, ReserveWrite
    <3> QED  BY <1>2, <1>3, <1>t, <2>1, <2>2, <3>1, <3>3, <3>4, Times
  <2>6. CASE Reserve(c) /\ ~ Allowed(c)
    <3>1. reserved' = reserved /\ call' = [call EXCEPT ![c].pc = "denied"]
      BY <2>6 DEF Reserve, Goto
    <3>2. Open(c)' <=> Open(c)
      BY <2>0, <3>1 DEF Open, Settlements, Call
    <3> QED  BY <1>2, <2>4, <3>1, <3>2
  <2>7. CASE Merge(c) \/ Release(c)
    <3>1. Settlements(c) = 0 /\ (call[c].held <=> Enforced(c))
      BY <2>7, <1>1 DEF Merge, Release, At, SettleInv
    <3>2. Open(c) <=> Enforced(c)
      BY <3>1 DEF Open
    <3>3. ~ Open(c)'
      <4>1. CASE Merge(c)
        <5>1. call'[c].merges = call[c].merges + 1 /\ call'[c].releases = call[c].releases
          BY <2>0, <4>1 DEF Merge, Call
        <5> QED  BY <2>0, <5>1 DEF Open, Settlements
      <4>2. CASE Release(c)
        <5>1. call'[c].releases = call[c].releases + 1 /\ call'[c].merges = call[c].merges
          BY <2>0, <4>2 DEF Release, Call
        <5> QED  BY <2>0, <5>1 DEF Open, Settlements
      <4> QED  BY <2>7, <4>1, <4>2
    <3>4. reserved' = IF Enforced(c)
                      THEN Add(reserved, c, WindowsOf(Kind(c)), 0 - Estimate) ELSE reserved
      BY <2>7 DEF Merge, Release, MergeWrite, ReleaseWrite
    <3>5. CASE Enforced(c)
      <4>1. reserved'[w][p] = IF Here THEN reserved[w][p] + (0 - Estimate) ELSE reserved[w][p]
        BY <2>a, <3>4, <3>5
      <4>2. Here => Cardinality(OpenIn(w, p)) = Cardinality(OpenIn(w, p)') + 1
        BY <2>3, <3>2, <3>3, <3>5
      <4> DEFINE n == Cardinality(OpenIn(w, p)')
      <4>3. Estimate * (n + 1) = Estimate * n + Estimate /\ Estimate * n \in Int
        BY <1>3, <1>t, Times
      <4> QED  BY <1>2, <1>3, <1>t, <2>1, <4>1, <4>2, <4>3
    <3>6. CASE ~ Enforced(c)
      BY <1>2, <2>4, <3>2, <3>3, <3>4, <3>6
    <3> QED  BY <3>5, <3>6
  <2> QED  BY <1>5, <2>5, <2>6, <2>7
<1> QED  BY <1>1, <1>4, <1>5, QuietSteps

-----------------------------------------------------------------------------
(***************************************************************************)
(* The text windows.                                                       *)
(***************************************************************************)

Modest ==
    /\ setting.modes = {"enforce"}
    /\ ~ Fault("store")
    /\ \A c \in Callers : call[c].actual <= Estimate

\* What was used and what is reserved fit each text window.
TextFits ==
    Modest => \A w \in {"five_hour", "week"}, p \in Period : used[w][p] + reserved[w][p] <= Limit[w]

\* What a call used is known once, after the call has run.
LEMMA ActualOnce ==
    ASSUME TypeOK, ~ Fault("store"), \A c \in Calls : SettleInv(c), [Next]_vars,
           NEW e \in Calls
    PROVE  call[e].actual = 0 \/ call'[e].actual = call[e].actual
<1> USE DEF TypeOK, UsageTypeOK, Goto, counterVars, usageVars, At
<1>0. call \in [Calls -> Call]
  OBVIOUS
<1>1. CASE \E ws : Tick(ws)
  BY <1>1 DEF Tick
<1>2. ASSUME NEW c \in Calls, NEW mode \in Modes, Prepare(c, mode)
      PROVE  call'[e].actual = call[e].actual
  BY <1>0, <1>2 DEF Prepare, Call
<1>3. ASSUME NEW c \in Calls, CallStep(c)
      PROVE  call[e].actual = 0 \/ call'[e].actual = call[e].actual
  <2>1. CASE Reserve(c) \/ Merge(c) \/ Release(c)
    BY <2>1, OnlyOne
  <2>2. CASE \E actual \in Actuals : Answered(c, actual)
    <3>1. call[c].actual = 0 /\ (e # c => call'[e] = call[e])
      BY <1>0, <2>2 DEF Answered, SettleInv
    <3> QED  BY <3>1
  <2>3. CASE Summarise(c)
    <3>1. \E ws : call' = [call EXCEPT ![c].pc = "done", ![c].recorded = @ \cup ws]
      BY <2>3 DEF Summarise
    <3> QED  BY <1>0, <3>1 DEF Call
  <2>4. CASE ProviderFails(c) \/ RecordEvent(c) \/ StreamBreaks(c) \/ Vanish(c)
    <3>1. \E pc : call' = [call EXCEPT ![c].pc = pc]
      BY <2>4 DEF ProviderFails, RecordEvent, StreamBreaks, Vanish
    <3> QED  BY <1>0, <3>1 DEF Call
  <2> QED
    BY <1>3, <2>1, <2>2, <2>3, <2>4
       DEF CallStep, ReserveThrows, MergeThrows, RecordEventThrows, ReleaseThrows
<1>4. ASSUME NEW c \in Calls, ImageStep(c)
      PROVE  call[e].actual = 0 \/ call'[e].actual = call[e].actual
  <2>1. CASE FinalizeCharge(c)
    <3>1. call[c].actual = 0
      BY <2>1 DEF FinalizeCharge, In, SettleInv
    <3>2. e # c => call'[e] = call[e]
      BY <1>0, <2>1 DEF FinalizeCharge, AfterFinalize
    <3> QED  BY <3>1, <3>2
  <2>2. CASE ~ FinalizeCharge(c)
    <3>1. call' = call \/ \E pc : call' = [call EXCEPT ![c].pc = pc]
      BY <1>4, <2>2 DEF ImageStep, Launch, LaunchThrows, ActionDies, LaunchReleaseThrew,
             BookQuota, BookRefused, StepThrows, Generate, GenerateFails, UsageFinalized,
             UsageThrows, Undo, Released, ReleaseRepeated
    <3> QED  BY <1>0, <3>1 DEF Call
  <2> QED  BY <2>1, <2>2
<1> QED  BY <1>1, <1>2, <1>3, <1>4, StepsOfCalls

LEMMA NextKeepsText ==
    ASSUME TypeOK, Settled, TextFits, [Next]_vars
    PROVE  TextFits'
<1>s. setting' = setting
  BY SettingStays
<1> SUFFICES ASSUME Modest', NEW w \in {"five_hour", "week"}, NEW p \in Period
             PROVE  used'[w][p] + reserved'[w][p] <= Limit[w]
  BY DEF TextFits
<1>0. ~ Fault("store") /\ setting.modes = {"enforce"} /\ \A c \in Calls : SettleInv(c)
  BY <1>s DEF Modest, Fault, Settled
<1>a. \A c \in Callers : call[c].actual <= Estimate
  <2>1. \A c \in Callers : c \in Calls /\ call'[c].actual <= Estimate
    BY <1>s DEF Modest, Callers
  <2>2. 0 <= Estimate
    BY UsageAssumption
  <2> QED  BY <1>0, <2>1, <2>2, ActualOnce
<1>b. used[w][p] + reserved[w][p] <= Limit[w]
  BY <1>0, <1>a DEF Modest, TextFits
<1>i. /\ used[w][p] \in Int /\ reserved[w][p] \in Int /\ Limit[w] \in Int
      /\ Estimate \in Int /\ Estimate > 0 /\ w \in Windows
  BY UsageAssumption DEF TypeOK, UsageTypeOK, Counters, Windows
<1>1. CASE Quiet
  BY <1>1, <1>b DEF Quiet
<1>2. ASSUME NEW c \in Calls, Reserve(c) \/ Merge(c) \/ Release(c)
      PROVE  used'[w][p] + reserved'[w][p] <= Limit[w]
  <2> DEFINE Here == w \in WindowsOf(Kind(c)) /\ call[c].period[w] = p
  <2>0. c \in Callers /\ Enforced(c) /\ call[c].actual \in Nat /\ call[c].actual <= Estimate
    BY <1>0, <1>2, <1>a, OnlyOne DEF SettleInv, TypeOK, UsageTypeOK, Call
  <2>1. \A counter : \A n : Add(counter, c, WindowsOf(Kind(c)), n)[w][p] =
                               IF Here THEN counter[w][p] + n ELSE counter[w][p]
    BY <1>i, AddedAt
  <2>2. CASE Reserve(c) /\ Allowed(c)
    <3>1. used' = used /\ reserved' = Add(reserved, c, WindowsOf(Kind(c)), Estimate)
      BY <2>2 DEF Reserve, ReserveWrite
    <3>2. reserved'[w][p] = IF Here THEN reserved[w][p] + Estimate ELSE reserved[w][p]
      BY <2>1, <3>1
    <3>3. Here => used[w][p] + reserved[w][p] + Estimate <= Limit[w]
      <4>1. Here => Current(c, w) + Estimate <= Limit[w]
        BY <2>2 DEF Allowed
      <4>2. Here => WindowsOf(Kind(c)) # {"month"}
        OBVIOUS
      <4> QED  BY <4>1, <4>2 DEF Current
    <3> HIDE DEF Here
    <3> QED  BY <1>b, <1>i, <3>1, <3>2, <3>3
  <2>3. CASE Reserve(c) /\ ~ Allowed(c)
    BY <1>b, <2>3 DEF Reserve
  <2>4. CASE Merge(c)
    <3>1. /\ used' = Add(used, c, WindowsOf(Kind(c)), call[c].actual)
          /\ reserved' = Add(reserved, c, WindowsOf(Kind(c)), 0 - Estimate)
      BY <2>0, <2>4 DEF Merge, MergeWrite
    <3>2. /\ used'[w][p] = IF Here THEN used[w][p] + call[c].actual ELSE used[w][p]
          /\ reserved'[w][p] = IF Here THEN reserved[w][p] + (0 - Estimate) ELSE reserved[w][p]
      BY <2>1, <3>1
    <3> HIDE DEF Here
    <3> QED  BY <1>b, <1>i, <2>0, <3>2
  <2>5. CASE Release(c)
    <3>1. used' = used /\ reserved' = Add(reserved, c, WindowsOf(Kind(c)), 0 - Estimate)
      BY <2>0, <2>5 DEF Release, ReleaseWrite
    <3>2. reserved'[w][p] = IF Here THEN reserved[w][p] + (0 - Estimate) ELSE reserved[w][p]
      BY <2>1, <3>1
    <3> HIDE DEF Here
    <3> QED  BY <1>b, <1>i, <3>1, <3>2
  <2> QED  BY <1>2, <2>2, <2>3, <2>4, <2>5
<1> QED  BY <1>0, <1>1, <1>2, QuietSteps

LEMMA InitReserved == Init => Settled /\ ReservedIsOpen /\ TextFits
<1> SUFFICES ASSUME Init PROVE Settled /\ ReservedIsOpen /\ TextFits
  OBVIOUS
<1>1. Settled
  <2>1. ASSUME NEW c \in Calls PROVE SettleInv(c)
    <3>1. /\ call[c].pc = "idle" /\ call[c].mode = "enforce" /\ call[c].actual = 0
          /\ call[c].held = FALSE /\ call[c].merges = 0 /\ call[c].releases = 0
          /\ run[c].pc = "none"
      BY DEF Init, UsageInit, ImageInit
    <3> QED  BY <3>1 DEF SettleInv, Settlements, Enforced
  <2> QED  BY <2>1 DEF Settled
<1>2. \A w \in Windows, p \in Period : reserved[w][p] = 0 /\ used[w][p] = 0
  BY DEF Init, UsageInit
<1>3. ReservedIsOpen
  <2>1. \A w, p : OpenIn(w, p) = {}
    <3>1. \A c \in Calls : ~ call[c].held
      BY DEF Init, UsageInit
    <3> QED  BY <3>1 DEF OpenIn, Open, Callers
  <2>2. Cardinality({}) = 0 /\ Estimate * 0 = 0
    BY UsageAssumption, FS_EmptySet
  <2> QED  BY <1>2, <2>1, <2>2 DEF ReservedIsOpen
<1>4. TextFits
  <2>1. \A w \in {"five_hour", "week"} : w \in Windows /\ Limit[w] >= 0
    BY UsageAssumption DEF Windows
  <2> QED  BY <1>2, <2>1 DEF TextFits
<1> QED  BY <1>1, <1>3, <1>4

LEMMA ReservedInv == Spec => [](TypeOK /\ Settled /\ ReservedIsOpen /\ TextFits)
<1>1. TypeOK /\ Settled /\ ReservedIsOpen /\ TextFits /\ [Next]_vars
        => (TypeOK /\ Settled /\ ReservedIsOpen /\ TextFits)'
  BY NextTyped, NextKeepsSettled, NextKeepsReserved, NextKeepsText
<1> QED  BY <1>1, InitTyped, InitReserved, PTL DEF Spec

\* With any number of calls, kinds of calls and ends of periods: the counter
\* of a window is the sum of the reservations that are open in it.
THEOREM ReservedAreOpen == Spec => []ReservedIsOpen
BY ReservedInv, PTL

\* Concurrent calls that are enforced and stay within their estimates do not
\* take a tenant over its weekly or five-hour limit.
THEOREM WindowsHold == Spec => []TextWithinWindows
<1>1. TypeOK /\ ReservedIsOpen /\ TextFits => TextWithinWindows
  <2> SUFFICES ASSUME TypeOK, ReservedIsOpen, TextFits, Modest,
                      NEW w \in {"five_hour", "week"}, NEW p \in Period
               PROVE  used[w][p] + Estimate * Cardinality(OpenIn(w, p)) <= Limit[w]
    BY DEF TextWithinWindows, Modest
  <2>1. reserved[w][p] = Estimate * Cardinality(OpenIn(w, p))
    BY DEF ReservedIsOpen, Modest, Windows
  <2> QED  BY <2>1 DEF TextFits
<1> QED  BY <1>1, ReservedInv, PTL

-----------------------------------------------------------------------------
(***************************************************************************)
(* The account's budget, whatever fails.                                   *)
(***************************************************************************)

\* A run knows the month its job is booked in, and after the finalization of
\* a job nothing is booked or made for it.
BookInv(c) ==
    /\ run[c].pc \in {"none", "book"} => run[c].period = 0
    /\ run[c].pc \in {"none", "book", "generate"} => ~ job[c].finalized
    /\ run[c].period # 0 => job[c].period = run[c].period
    /\ job[c].counted => job[c].finalized

BookedIn(p) == {c \in Images : job[c].period = p /\ ~ job[c].finalized}

\* At least the jobs that are not finalized are booked; more than those after
\* a booking whose result was lost at the end of a month.
BookedCovers == \A p \in Period : booked[p] >= Price * Cardinality(BookedIn(p))

BudgetFits ==
    (\A c \in Images : job[c].counted => job[c].charge <= Price) =>
        \A p \in Period : spent[p] + booked[p] <= Budget

BudgetInv ==
    /\ \A c \in Calls : BookInv(c)
    /\ BookedCovers
    /\ BudgetFits

\* Outside of the steps of image workflows.
LEMMA ImagesStand ==
    ASSUME setting' = setting, UNCHANGED <<spent, booked, job, run>>, BudgetInv
    PROVE  BudgetInv'
<1>1. \A p : BookedIn(p)' = BookedIn(p)
  BY DEF BookedIn, Images, Kind
<1> QED  BY <1>1 DEF BudgetInv, BookInv, BookedCovers, BudgetFits, Images, Kind

LEMMA BookedFinite ==
    ASSUME NEW p
    PROVE  IsFiniteSet(BookedIn(p)) /\ Cardinality(BookedIn(p)) \in Nat
<1>1. BookedIn(p) \subseteq Calls
  BY DEF BookedIn, Images
<1> QED  BY <1>1, UsageAssumption, FS_Subset, FS_CardinalityType

\* A step that leaves the budget, what jobs have booked and what was counted.
LEMMA BudgetStands ==
    ASSUME setting' = setting, UNCHANGED <<spent, booked>>, BudgetInv,
           \A c \in Calls : /\ job'[c].period = job[c].period
                            /\ job'[c].finalized = job[c].finalized
                            /\ job'[c].counted = job[c].counted
                            /\ job[c].counted => job'[c].charge = job[c].charge
    PROVE  BookedCovers' /\ BudgetFits'
<1>1. \A p : BookedIn(p)' = BookedIn(p)
  BY DEF BookedIn, Images, Kind
<1> QED  BY <1>1 DEF BudgetInv, BookedCovers, BudgetFits, Images, Kind

LEMMA BookQuotaKeeps ==
    ASSUME TypeOK, NEW c \in Calls, BookQuota(c), setting' = setting, BudgetInv
    PROVE  BudgetInv'
<1> USE DEF TypeOK, ImageTypeOK, In
<1> DEFINE reuse == job[c].status = "reserved" /\ job[c].period = Month
           before == [run[c] EXCEPT !.period = IF reuse \/ quota THEN Month ELSE 0]
<1>0. /\ job[c] \in Job /\ run[c] \in Run /\ c \in Images /\ run[c].pc = "book"
      /\ job \in [Calls -> Job] /\ run \in [Calls -> Run]
  BY DEF BookQuota
<1>m. Month \in Period /\ Month \in Nat /\ Month # 0
  BY UsageAssumption DEF Month, UsageTypeOK, Windows, Period
<1>b. run[c].period = 0 /\ ~ job[c].finalized /\ ~ job[c].counted
  BY <1>0 DEF BudgetInv, BookInv
<1>i. Price \in Int /\ \A p \in Period : booked[p] \in Int /\ spent[p] \in Int
  BY ImageAssumption
<1>1. /\ \A e \in Calls \ {c} : job'[e] = job[e] /\ run'[e] = run[e]
      /\ job'[c].finalized = job[c].finalized /\ job'[c].counted = job[c].counted
      /\ job'[c].charge = job[c].charge
      /\ job'[c].period = IF quota /\ ~ reuse THEN Month ELSE job[c].period
  BY <1>0 DEF BookQuota, Job, Ends
<1>2. BookInv(c)'
  <2>1. PICK r \in Ends(c, before, "generate", "failed") : run' = [run EXCEPT ![c] = r]
    BY DEF BookQuota
  <2>2. run'[c] = r
    BY <1>0, <2>1
  <2>3. \/ r.period = 0 /\ r.pc \in {"book", "failed"}
        \/ r.pc = "generate" /\ r.period = IF reuse \/ quota THEN Month ELSE 0
    BY <1>0, <1>b, <2>1 DEF Ends, On, Threw, Run
  <2>4. r.period # 0 => job'[c].period = r.period
    BY <1>1, <2>3
  <2> HIDE DEF reuse, before
  <2> QED  BY <1>1, <1>b, <2>2, <2>3, <2>4 DEF BookInv
<1>3. \A e \in Calls : BookInv(e)'
  BY <1>1, <1>2 DEF BudgetInv, BookInv
<1>4. CASE reuse \/ ~ quota
  <2>1. UNCHANGED <<spent, booked>>
    BY <1>4 DEF BookQuota
  <2>2. \A e \in Calls : /\ job'[e].period = job[e].period
                         /\ job'[e].finalized = job[e].finalized
                         /\ job'[e].counted = job[e].counted
                         /\ job[e].counted => job'[e].charge = job[e].charge
    BY <1>1, <1>4
  <2> QED  BY <1>3, <2>1, <2>2, BudgetStands DEF BudgetInv
<1>5. CASE ~ reuse /\ quota
  <2>1. booked' = [booked EXCEPT ![Month] = @ + Price] /\ spent' = spent /\ ~ OverBudget
    BY <1>5 DEF BookQuota
  <2>2. \A p \in Period : booked'[p] = IF p = Month THEN booked[p] + Price ELSE booked[p]
    BY <1>m, <2>1
  <2>3. \A p \in Period :
          BookedIn(p)' = IF p = Month THEN BookedIn(p) \cup {c} ELSE BookedIn(p) \ {c}
    BY <1>0, <1>1, <1>5, <1>b DEF BookedIn, Images, Kind
  <2>4. BookedCovers'
    <3>1. SUFFICES ASSUME NEW p \in Period
                   PROVE  booked'[p] >= Price * Cardinality(BookedIn(p)')
      BY DEF BookedCovers
    <3>2. /\ IsFiniteSet(BookedIn(p)) /\ Cardinality(BookedIn(p)) \in Nat
          /\ booked[p] >= Price * Cardinality(BookedIn(p))
      BY BookedFinite DEF BudgetInv, BookedCovers
    <3> DEFINE n == Cardinality(BookedIn(p))
    <3>3. Price * n \in Int /\ Price * (n + 1) = Price * n + Price /\ Price > 0
      BY <1>i, <3>2, Times, ImageAssumption
    <3>4. CASE p = Month
      <4>1. Cardinality(BookedIn(p)') \in {n, n + 1}
        BY <2>3, <3>2, <3>4, FS_AddElement
      <4> HIDE DEF n
      <4>2. Price * Cardinality(BookedIn(p)') \in {Price * n, Price * (n + 1)}
        BY <4>1
      <4> QED  BY <1>i, <2>2, <3>2, <3>3, <3>4, <4>2 DEF n
    <3>5. CASE p # Month
      <4>1. Cardinality(BookedIn(p)') \in {n, n - 1} /\ Cardinality(BookedIn(p)') \in Nat
        <5>1. CASE c \in BookedIn(p)
          BY <2>3, <3>2, <3>5, <5>1, FS_RemoveElement, FS_CardinalityType
        <5>2. CASE c \notin BookedIn(p)
          BY <2>3, <3>2, <3>5, <5>2
        <5> QED  BY <5>1, <5>2
      <4> HIDE DEF n
      <4>2. Price * (n - 1) = Price * n - Price
        BY <1>i, <3>2 DEF n
      <4>3. Price * Cardinality(BookedIn(p)') \in {Price * n, Price * (n - 1)}
        BY <4>1
      <4> QED  BY <1>i, <2>2, <3>2, <3>3, <3>5, <4>2, <4>3 DEF n
    <3> QED  BY <3>4, <3>5
  <2>5. BudgetFits'
    <3>1. SUFFICES ASSUME \A e \in Images' : job'[e].counted => job'[e].charge <= Price,
                          NEW p \in Period
                   PROVE  spent'[p] + booked'[p] <= Budget
      BY DEF BudgetFits
    <3>2. \A e \in Images : job[e].counted => job[e].charge <= Price
      BY <3>1, <1>0, <1>1 DEF Images, Kind
    <3>3. spent[p] + booked[p] <= Budget
      BY <3>2 DEF BudgetInv, BudgetFits
    <3>4. spent[Month] + booked[Month] + Price <= Budget
      BY <1>i, <1>m, <2>1, ImageAssumption DEF OverBudget
    <3> QED  BY <1>i, <2>1, <2>2, <3>3, <3>4
  <2> QED  BY <1>3, <2>4, <2>5 DEF BudgetInv
<1> QED  BY <1>4, <1>5

\* The finalization's transaction, in the step of a run or in its undoing.
LEMMA FinalizeKeeps ==
    ASSUME TypeOK, NEW c \in Images, NEW charge \in Nat,
           NEW status \in {"completed", "failed"}, FinalizeQuota(c, charge, status),
           setting' = setting, BudgetInv
    PROVE  /\ BookedCovers' /\ BudgetFits'
           /\ \A e \in Calls : /\ job'[e].period = job[e].period
                               /\ e # c => job'[e] = job[e]
           /\ job'[c].finalized = (job[c].finalized \/ run[c].period # 0)
           /\ job'[c].counted => job'[c].finalized
<1> USE DEF TypeOK, ImageTypeOK
<1>0. /\ c \in Calls /\ job[c] \in Job /\ run[c] \in Run /\ job \in [Calls -> Job]
      /\ run[c].period \in 0..Periods /\ BookInv(c)
  BY DEF Images, BudgetInv, Run
<1>i. /\ Price \in Int /\ Price > 0
      /\ \A p \in Period : booked[p] \in Nat /\ spent[p] \in Nat
  BY ImageAssumption
\* When only the status changes, or nothing.
<1>s. ASSUME UNCHANGED <<spent, booked>>,
             job' = job \/ job' = [job EXCEPT ![c].status = status]
      PROVE  /\ BookedCovers' /\ BudgetFits'
             /\ \A e \in Calls : /\ job'[e].period = job[e].period
                                 /\ e # c => job'[e] = job[e]
             /\ job'[c].finalized = job[c].finalized /\ job'[c].counted = job[c].counted
  <2>1. \A e \in Calls : /\ job'[e].period = job[e].period
                         /\ job'[e].finalized = job[e].finalized
                         /\ job'[e].counted = job[e].counted
                         /\ job'[e].charge = job[e].charge
                         /\ e # c => job'[e] = job[e]
    BY <1>0, <1>s DEF Job
  <2> QED  BY <1>0, <1>s, <2>1, BudgetStands
<1>1. CASE run[c].period = 0
  <2>1. UNCHANGED <<spent, booked>> /\ (job' = job \/ job' = [job EXCEPT ![c].status = status])
    BY <1>1 DEF FinalizeQuota
  <2> QED  BY <1>0, <1>1, <1>s, <2>1 DEF BookInv, Job
<1>2. CASE run[c].period # 0 /\ job[c].finalized
  <2>1. UNCHANGED <<spent, booked, job>>
    BY <1>2 DEF FinalizeQuota
  <2> QED  BY <1>0, <1>2, <1>s, <2>1 DEF BookInv
<1>3. CASE run[c].period # 0 /\ ~ job[c].finalized
  <2>q. PICK q \in Period : q = run[c].period
    BY <1>0, <1>3 DEF Period
  <2> DEFINE counts == quota /\ charge > 0
  <2>0. q \in Period /\ job[c].period = q /\ ~ job[c].counted
    BY <1>0, <1>3, <2>q DEF BookInv
  <2>1. /\ booked' = [booked EXCEPT ![q] = IF @ < Price THEN 0 ELSE @ - Price]
        /\ spent' = [spent EXCEPT ![q] = IF counts THEN @ + charge ELSE @]
        /\ job' = [job EXCEPT ![c].status = status, ![c].charge = charge,
                              ![c].finalized = TRUE, ![c].counted = counts]
    BY <1>3, <2>q DEF FinalizeQuota
  <2>2. /\ job'[c].period = q /\ job'[c].finalized = TRUE /\ job'[c].counted = counts
        /\ job'[c].charge = charge
        /\ \A e \in Calls \ {c} : job'[e] = job[e]
    BY <1>0, <2>0, <2>1 DEF Job
  <2> HIDE DEF counts
  <2>3. \A p \in Period :
          /\ booked'[p] = IF p # q THEN booked[p]
                          ELSE IF booked[p] < Price THEN 0 ELSE booked[p] - Price
          /\ spent'[p] = IF p = q /\ counts THEN spent[p] + charge ELSE spent[p]
    BY <2>0, <2>1
  <2>4. \A p \in Period :
          /\ IsFiniteSet(BookedIn(p)) /\ Cardinality(BookedIn(p)) \in Nat
          /\ booked[p] >= Price * Cardinality(BookedIn(p))
    BY BookedFinite DEF BudgetInv, BookedCovers
  <2>5. c \in BookedIn(q) /\ BookedIn(q)' = BookedIn(q) \ {c}
    BY <1>3, <2>0, <2>2 DEF BookedIn, Images, Kind
  <2>6. \A p \in Period : p # q => BookedIn(p)' = BookedIn(p)
    BY <1>3, <2>0, <2>2 DEF BookedIn, Images, Kind
  <2> DEFINE n == Cardinality(BookedIn(q)')
  <2>7. n \in Nat /\ Cardinality(BookedIn(q)) = n + 1
    <3>1. IsFiniteSet(BookedIn(q)) /\ Cardinality(BookedIn(q)) \in Nat
      BY <2>4
    <3>2. /\ IsFiniteSet(BookedIn(q) \ {c})
          /\ Cardinality(BookedIn(q) \ {c}) = Cardinality(BookedIn(q)) - 1
      BY <2>5, <3>1, FS_RemoveElement
    <3>3. Cardinality(BookedIn(q) \ {c}) \in Nat
      BY <3>2, FS_CardinalityType
    <3> QED  BY <2>5, <3>1, <3>2, <3>3
  <2>8. Price * (n + 1) = Price * n + Price /\ Price * n \in Nat
    <3>1. Price * (n + 1) = Price * n + Price
      BY <1>i, <2>7, Times
    <3>2. Price \in Nat
      BY ImageAssumption
    <3> HIDE DEF n
    <3>3. Price * n \in Nat
      BY <2>7, <3>2
    <3> QED  BY <3>1, <3>3
  <2>9. booked[q] >= Price * n + Price /\ booked'[q] = booked[q] - Price
    <3>1. booked[q] >= Price * Cardinality(BookedIn(q))
      BY <2>0, <2>4
    <3>2. booked[q] >= Price * n + Price
      BY <2>7, <2>8, <3>1
    <3> HIDE DEF n
    <3> QED  BY <1>i, <2>0, <2>3, <2>8, <3>2
  <2>10. BookedCovers'
    <3>1. SUFFICES ASSUME NEW p \in Period
                   PROVE  booked'[p] >= Price * Cardinality(BookedIn(p)')
      BY DEF BookedCovers
    <3>2. CASE p = q
      <4>1. booked'[q] >= Price * n
        <5> HIDE DEF n
        <5> QED  BY <1>i, <2>0, <2>8, <2>9
      <4> QED  BY <3>2, <4>1
    <3>3. CASE p # q
      BY <2>3, <2>4, <2>6, <3>3
    <3> QED  BY <3>2, <3>3
  <2>11. BudgetFits'
    <3>1. SUFFICES ASSUME \A e \in Images' : job'[e].counted => job'[e].charge <= Price,
                          NEW p \in Period
                   PROVE  spent'[p] + booked'[p] <= Budget
      BY DEF BudgetFits
    <3>2. \A e \in Images : job[e].counted => job[e].charge <= Price
      BY <3>1, <2>0, <2>2 DEF Images, Kind
    <3>3. spent[p] + booked[p] <= Budget
      BY <3>2 DEF BudgetInv, BudgetFits
    <3>4. counts => charge <= Price
      BY <3>1, <2>2 DEF Images, Kind
    <3> HIDE DEF n
    <3>5. CASE p = q
      BY <1>i, <2>0, <2>3, <2>9, <3>3, <3>4, <3>5, ImageAssumption
    <3>6. CASE p # q
      BY <2>3, <3>3, <3>6
    <3> QED  BY <3>5, <3>6
  <2>12. \A e \in Calls : job'[e].period = job[e].period /\ (e # c => job'[e] = job[e])
    BY <2>0, <2>2
  <2> QED  BY <1>3, <2>2, <2>10, <2>11, <2>12
<1> QED  BY <1>1, <1>2, <1>3

LEMMA ImageKeepsBudget ==
    ASSUME TypeOK, NEW c \in Calls, ImageStep(c), setting' = setting, BudgetInv
    PROVE  BudgetInv'
<1> USE DEF TypeOK, ImageTypeOK, In
<1>0. /\ job[c] \in Job /\ run[c] \in Run /\ BookInv(c)
      /\ job \in [Calls -> Job] /\ run \in [Calls -> Run]
  BY DEF BudgetInv
\* A step of the run alone, to a place from which nothing more is booked.
<1>r. ASSUME UNCHANGED <<spent, booked, job>>,
             \A e \in Calls \ {c} : run'[e] = run[e],
             run'[c].period = run[c].period,
             run'[c].pc \in {"none", "book"} => run[c].pc \in {"none", "book"},
             run'[c].pc = "generate" => run[c].pc = "generate"
      PROVE  BudgetInv'
  <2>1. \A e \in Calls : BookInv(e)'
    BY <1>0, <1>r DEF BudgetInv, BookInv
  <2> QED  BY <1>r, <2>1, BudgetStands DEF BudgetInv
<1>1. CASE Launch(c)
  BY <1>0, <1>1, <1>r DEF Launch, Run, budgetVars
<1>2. CASE LaunchThrows(c) \/ ActionDies(c) \/ LaunchReleaseThrew(c)
  BY <1>2, <1>r DEF LaunchThrows, ActionDies, LaunchReleaseThrew, imageVars, budgetVars
<1>3. CASE BookQuota(c)
  BY <1>3, BookQuotaKeeps
<1>4. CASE BookRefused(c)
  BY <1>0, <1>4, <1>r DEF BookRefused, On, Run, budgetVars
<1>5. ASSUME NEW pc, NEW catch \in {"undo", "failed"}, StepThrows(c, pc, catch)
      PROVE  BudgetInv'
  BY <1>0, <1>5, <1>r DEF StepThrows, Threw, On, Run, budgetVars
<1>6. CASE Generate(c)
  <2>1. PICK charge : /\ job' = [job EXCEPT ![c].status = "completed", ![c].stored = TRUE,
                                            ![c].charge = charge]
                      /\ run' \in {[run EXCEPT ![c] = r] : r \in
                             Ends(c, [run[c] EXCEPT !.charge = charge], "finalize", "undo")}
    BY <1>6 DEF Generate
  <2>2. PICK r \in Ends(c, [run[c] EXCEPT !.charge = charge], "finalize", "undo") :
          run' = [run EXCEPT ![c] = r]
    BY <2>1
  <2>3. r.period = run[c].period /\ r.pc \in {"generate", "finalize", "undo"}
    BY <1>0, <1>6, <2>2 DEF Ends, On, Threw, Run, Generate
  <2>4. /\ run'[c] = r /\ \A e \in Calls \ {c} : run'[e] = run[e] /\ job'[e] = job[e]
        /\ job'[c].period = job[c].period /\ job'[c].finalized = job[c].finalized
        /\ job'[c].counted = job[c].counted
    BY <1>0, <2>1, <2>2 DEF Job
  <2>5. run[c].pc = "generate" /\ ~ job[c].finalized /\ ~ job[c].counted
    BY <1>0, <1>6 DEF Generate, BookInv
  <2>6. \A e \in Calls : BookInv(e)'
    BY <1>0, <2>3, <2>4, <2>5 DEF BudgetInv, BookInv
  <2> QED  BY <1>6, <2>4, <2>5, <2>6, BudgetStands DEF BudgetInv, Generate, budgetVars
<1>7. CASE GenerateFails(c)
  <2>1. PICK r \in {Threw(run[c], "undo"), On(run[c], "undo")} : run' = [run EXCEPT ![c] = r]
    BY <1>7 DEF GenerateFails
  <2>2. r.period = run[c].period /\ r.pc \in {"generate", "undo"}
    BY <1>0, <1>7, <2>1 DEF On, Threw, Run, GenerateFails
  <2>3. /\ run'[c] = r /\ \A e \in Calls \ {c} : run'[e] = run[e] /\ job'[e] = job[e]
        /\ job'[c].period = job[c].period /\ job'[c].finalized = job[c].finalized
        /\ job'[c].counted = job[c].counted /\ job'[c].charge = job[c].charge
    BY <1>0, <1>7, <2>1 DEF GenerateFails, Job
  <2>4. run[c].pc = "generate"
    BY <1>7 DEF GenerateFails
  <2>5. \A e \in Calls : BookInv(e)'
    BY <1>0, <2>2, <2>3, <2>4 DEF BudgetInv, BookInv
  <2> QED  BY <1>7, <2>3, <2>5, BudgetStands DEF BudgetInv, GenerateFails, budgetVars
<1>8. CASE FinalizeCharge(c) \/ Undo(c)
  <2>1. PICK charge \in Nat, status \in {"completed", "failed"} : FinalizeQuota(c, charge, status)
    BY <1>0, <1>8 DEF FinalizeCharge, Undo, UndoQuota, Run
  <2>2. c \in Images /\ run[c].pc \in {"finalize", "undo"}
    BY <1>8 DEF FinalizeCharge, Undo
  <2>3. /\ BookedCovers' /\ BudgetFits'
        /\ \A e \in Calls : job'[e].period = job[e].period /\ (e # c => job'[e] = job[e])
        /\ job'[c].counted => job'[c].finalized
    BY <2>1, <2>2, FinalizeKeeps
  <2>4. PICK r \in Ends(c, run[c], "usage", "undo") \cup Ends(c, run[c], "release", "failed") :
          run' = [run EXCEPT ![c] = r]
    BY <1>8 DEF FinalizeCharge, AfterFinalize, Undo
  <2>5. r.period = run[c].period /\ r.pc \in {"finalize", "usage", "undo", "release", "failed"}
    BY <1>0, <2>2, <2>4 DEF Ends, On, Threw, Run
  <2>6. run'[c] = r /\ \A e \in Calls \ {c} : run'[e] = run[e]
    BY <1>0, <2>4
  <2>7. \A e \in Calls : BookInv(e)'
    BY <1>0, <2>3, <2>5, <2>6 DEF BudgetInv, BookInv
  <2> QED  BY <2>3, <2>7 DEF BudgetInv
<1>9. CASE UsageFinalized(c) \/ Released(c)
  BY <1>0, <1>9, <1>r DEF UsageFinalized, Released, On, Run, budgetVars
<1>10. CASE UsageThrows(c)
  BY <1>0, <1>10, <1>r DEF UsageThrows, Threw, On, Run, budgetVars
<1>11. CASE ReleaseRepeated(c)
  BY <1>0, <1>11, <1>r DEF ReleaseRepeated, Threw, On, Run, budgetVars
<1> QED
  BY <1>1, <1>2, <1>3, <1>4, <1>5, <1>6, <1>7, <1>8, <1>9, <1>10, <1>11 DEF ImageStep

LEMMA NextKeepsBudget ==
    ASSUME TypeOK, [Next]_vars, BudgetInv
    PROVE  BudgetInv'
<1>s. setting' = setting
  BY SettingStays
<1>1. CASE UsageNext
  BY <1>1, <1>s, ImagesStand DEF UsageNext, imageVars, budgetVars
<1>2. CASE ImageNext
  BY <1>2, <1>s, ImagesStand, ImageKeepsBudget DEF ImageNext, ToggleQuota, budgetVars
<1>3. CASE MailNext
  BY <1>3, <1>s, ImagesStand DEF MailNext, imageVars, budgetVars
<1>4. CASE UNCHANGED vars
  BY <1>4, <1>s, ImagesStand DEF vars, imageVars, budgetVars
<1> QED  BY <1>1, <1>2, <1>3, <1>4 DEF Next

LEMMA BudgetIsInvariant == Spec => []BudgetInv
<1>1. Init => BudgetInv
  <2> SUFFICES ASSUME Init PROVE BudgetInv
    OBVIOUS
  <2>1. /\ \A c \in Calls : /\ run[c].pc = "none" /\ run[c].period = 0
                            /\ job[c].period = 0 /\ job[c].finalized = FALSE
                            /\ job[c].counted = FALSE
        /\ \A p \in Period : spent[p] = 0 /\ booked[p] = 0
    BY DEF Init, ImageInit
  <2>2. \A p \in Period : BookedIn(p) = {}
    BY <2>1 DEF BookedIn, Images, Period
  <2>3. Cardinality({}) = 0 /\ Price * 0 = 0 /\ Budget >= 0
    BY ImageAssumption, FS_EmptySet
  <2> QED  BY <2>1, <2>2, <2>3 DEF BudgetInv, BookInv, BookedCovers, BudgetFits
<1>2. TypeOK /\ BudgetInv /\ [Next]_vars => BudgetInv'
  BY NextKeepsBudget
<1> QED  BY <1>1, <1>2, AiTypes, PTL DEF Spec

\* Any number of jobs, in any order and with any repetitions of their steps,
\* keep an account within its budget as long as none of them costs more than
\* was estimated.
THEOREM BudgetHolds == Spec => []BudgetKept
<1>1. BudgetInv => BudgetKept
  BY DEF BudgetInv, BudgetFits, BudgetKept
<1> QED  BY <1>1, BudgetIsInvariant, PTL

-----------------------------------------------------------------------------
(***************************************************************************)
(* What the account pays, whatever fails.                                  *)
(***************************************************************************)

LEMMA ChargedFacts ==
    ASSUME ImageTypeOK, NEW p
    PROVE  /\ IsFiniteSet(ChargedIn(p)) /\ ChargedIn(p) \subseteq Calls
           /\ SumFunction([c \in ChargedIn(p) |-> job[c].charge])
                 = Sum([c \in ChargedIn(p) |-> job[c].charge], ChargedIn(p))
<1>1. ChargedIn(p) \subseteq Calls
  BY DEF ChargedIn, Images
<1> QED  BY <1>1, UsageAssumption, FS_Subset DEF SumFunction, Sum

\* A step that pays for nothing and leaves what was paid for as it is.
LEMMA ChargesStand ==
    ASSUME setting' = setting, spent' = spent, ChargedOnce,
           \A c \in Calls : /\ job'[c].counted = job[c].counted
                            /\ job[c].counted => /\ job'[c].charge = job[c].charge
                                                 /\ run'[c].period = run[c].period
    PROVE  ChargedOnce'
<1> SUFFICES ASSUME NEW p \in Period
             PROVE  spent[p] = SumFunction([c \in ChargedIn(p)' |-> job'[c].charge])
  BY DEF ChargedOnce
<1>1. ChargedIn(p)' = ChargedIn(p)
  BY DEF ChargedIn, Images, Kind
<1>2. [c \in ChargedIn(p)' |-> job'[c].charge] = [c \in ChargedIn(p) |-> job[c].charge]
  BY <1>1 DEF ChargedIn, Images
<1> QED  BY <1>2 DEF ChargedOnce

\* A job is charged by the transaction that finalizes it, and by no other.
LEMMA FinalizeCharges ==
    ASSUME TypeOK, NEW c \in Images, NEW charge \in Nat, NEW status,
           FinalizeQuota(c, charge, status), setting' = setting,
           \A e \in Calls : run'[e].period = run[e].period, BudgetInv, ChargedOnce
    PROVE  ChargedOnce'
<1> USE DEF TypeOK, ImageTypeOK
<1> DEFINE q == run[c].period
           counts == quota /\ charge > 0
<1>0. /\ job \in [Calls -> Job] /\ c \in Calls /\ spent \in [Period -> Nat] /\ q \in 0..Periods
      /\ job[c] \in Job /\ run[c] \in Run /\ BookInv(c)
  BY DEF Images, BudgetInv, Run
<1>1. CASE q = 0 \/ job[c].finalized \/ ~ counts
  <2>1. spent' = spent
    BY <1>0, <1>1 DEF FinalizeQuota
  <2>2. \/ job' = job \/ job' = [job EXCEPT ![c].status = status]
        \/ /\ ~ job[c].finalized /\ ~ counts
           /\ job' = [job EXCEPT ![c].status = status, ![c].charge = charge,
                                 ![c].finalized = TRUE, ![c].counted = counts]
    BY <1>1 DEF FinalizeQuota
  <2> HIDE DEF counts
  <2>3. /\ job'[c].counted = job[c].counted
        /\ job[c].counted => job'[c].charge = job[c].charge
        /\ \A e \in Calls \ {c} : job'[e] = job[e]
    <3>1. CASE job' = job
      BY <3>1
    <3>2. CASE job' = [job EXCEPT ![c].status = status]
      BY <1>0, <3>2 DEF Job
    <3>3. CASE /\ ~ job[c].finalized /\ ~ counts
               /\ job' = [job EXCEPT ![c].status = status, ![c].charge = charge,
                                     ![c].finalized = TRUE, ![c].counted = counts]
      <4>1. /\ job'[c].counted = counts
            /\ \A e \in Calls \ {c} : job'[e] = job[e]
        BY <1>0, <3>3 DEF Job
      <4>2. counts = FALSE /\ job[c].counted = FALSE
        BY <1>0, <3>3 DEF BookInv, Job, counts
      <4> QED  BY <4>1, <4>2
    <3> QED  BY <2>2, <3>1, <3>2, <3>3
  <2> QED  BY <2>1, <2>3, ChargesStand
<1>2. CASE q # 0 /\ ~ job[c].finalized /\ counts
  <2>0. q \in Period /\ ~ job[c].counted
    BY <1>0, <1>2 DEF Period, BookInv
  <2>1. /\ spent' = [spent EXCEPT ![q] = @ + charge]
        /\ job' = [job EXCEPT ![c].status = status, ![c].charge = charge,
                              ![c].finalized = TRUE, ![c].counted = TRUE]
    BY <1>0, <1>2 DEF FinalizeQuota
  <2>2. /\ job'[c].charge = charge /\ job'[c].counted
        /\ \A e \in Calls \ {c} : job'[e] = job[e]
        /\ Images' = Images /\ run'[c].period = q
    BY <1>0, <2>1 DEF Job, Images, Kind
  <2> HIDE DEF q, counts
  <2>3. SUFFICES ASSUME NEW p \in Period
                 PROVE  spent'[p] = SumFunction([e \in ChargedIn(p)' |-> job'[e].charge])
    BY DEF ChargedOnce
  <2> DEFINE before == [e \in ChargedIn(p) |-> job[e].charge]
             after == [e \in ChargedIn(p)' |-> job'[e].charge]
  <2>4. /\ spent[p] = Sum(before, ChargedIn(p))
        /\ IsFiniteSet(ChargedIn(p)) /\ ChargedIn(p) \subseteq Calls
    BY ChargedFacts DEF ChargedOnce
  <2>5. \A e \in Calls : job[e].charge \in Nat
    BY <1>0 DEF Job
  <2>6. CASE p = q
    <3>1. ChargedIn(p)' = ChargedIn(p) \cup {c} /\ c \notin ChargedIn(p)
      BY <1>0, <2>0, <2>2, <2>6 DEF ChargedIn, Images
    <3>2. /\ \A e \in ChargedIn(p) : after[e] = before[e]
          /\ \A e \in ChargedIn(p) \cup {c} : after[e] \in Int
          /\ after[c] = charge
      BY <2>2, <2>4, <2>5, <3>1
    <3>3. SumFunction(after) = Sum(after, ChargedIn(p) \cup {c})
      BY <3>1 DEF SumFunction, Sum
    <3> HIDE DEF before, after
    <3>4. Sum(after, ChargedIn(p) \cup {c}) = after[c] + Sum(after, ChargedIn(p))
      BY <2>4, <3>1, <3>2, SumAdd
    <3>5. Sum(after, ChargedIn(p)) = Sum(before, ChargedIn(p))
      BY <2>4, <3>2, SumSame
    <3>6. spent'[p] = spent[p] + charge /\ spent[p] \in Nat
      BY <1>0, <2>1, <2>6
    <3>7. SumFunction(after) = spent'[p]
      BY <2>4, <3>2, <3>3, <3>4, <3>5, <3>6
    <3> QED  BY <3>7 DEF after
  <2>7. CASE p # q
    <3>1. ChargedIn(p)' = ChargedIn(p) /\ c \notin ChargedIn(p)
      BY <1>0, <2>0, <2>2, <2>7 DEF ChargedIn, Images
    <3>2. spent'[p] = spent[p]
      BY <1>0, <2>1, <2>7
    <3>3. after = before
      BY <2>2, <2>4, <3>1
    <3> QED  BY <3>2, <3>3 DEF ChargedOnce
  <2> QED  BY <2>6, <2>7
<1> QED  BY <1>1, <1>2

LEMMA ImageKeepsCharges ==
    ASSUME TypeOK, NEW c \in Calls, ImageStep(c), setting' = setting, BudgetInv, ChargedOnce
    PROVE  ChargedOnce'
<1> USE DEF TypeOK, ImageTypeOK
<1>0. /\ job[c] \in Job /\ run[c] \in Run /\ BookInv(c)
      /\ job \in [Calls -> Job] /\ run \in [Calls -> Run]
  BY DEF BudgetInv
<1>q. \A pc : \A r \in Run : On(r, pc).period = r.period /\ Threw(r, pc).period = r.period
  BY DEF On, Threw, Run
<1>1. CASE \/ Launch(c) \/ LaunchThrows(c) \/ ActionDies(c) \/ LaunchReleaseThrew(c)
           \/ BookRefused(c) \/ UsageFinalized(c) \/ UsageThrows(c) \/ Released(c)
           \/ ReleaseRepeated(c) \/ \E pc, catch : StepThrows(c, pc, catch)
  <2>1. UNCHANGED <<spent, job>>
    BY <1>1 DEF Launch, LaunchThrows, ActionDies, LaunchReleaseThrew, BookRefused,
       UsageFinalized, UsageThrows, Released, ReleaseRepeated, StepThrows, imageVars, budgetVars
  <2>2. \A e \in Calls : run'[e].period = run[e].period
    BY <1>0, <1>1, <1>q DEF Launch, LaunchThrows, ActionDies, LaunchReleaseThrew, BookRefused,
       UsageFinalized, UsageThrows, Released, ReleaseRepeated, StepThrows, imageVars, Run
  <2> QED  BY <2>1, <2>2, ChargesStand
<1>2. CASE BookQuota(c)
  <2>1. /\ spent' = spent /\ run[c].pc = "book"
        /\ \A e \in Calls \ {c} : job'[e] = job[e] /\ run'[e] = run[e]
        /\ job'[c].counted = job[c].counted
    BY <1>0, <1>2 DEF BookQuota, In, Job
  <2> QED  BY <1>0, <2>1, ChargesStand DEF BookInv
<1>3. CASE Generate(c) \/ GenerateFails(c)
  <2>1. spent' = spent /\ run[c].pc = "generate"
    BY <1>3 DEF Generate, GenerateFails, In, budgetVars
  <2>2. \A e \in Calls \ {c} : job'[e] = job[e] /\ run'[e] = run[e]
    BY <1>0, <1>3 DEF Generate, GenerateFails
  <2>3. CASE Generate(c)
    <3>1. PICK charge : job' = [job EXCEPT ![c].status = "completed", ![c].stored = TRUE,
                                           ![c].charge = charge]
      BY <2>3 DEF Generate
    <3>2. job'[c].counted = job[c].counted
      BY <1>0, <3>1 DEF Job
    <3> QED  BY <1>0, <2>1, <2>2, <3>2, ChargesStand DEF BookInv
  <2>4. CASE GenerateFails(c)
    <3>1. job'[c].counted = job[c].counted
      BY <1>0, <2>4 DEF GenerateFails, Job
    <3> QED  BY <1>0, <2>1, <2>2, <3>1, ChargesStand DEF BookInv
  <2> QED  BY <1>3, <2>3, <2>4
<1>4. CASE FinalizeCharge(c) \/ Undo(c)
  <2>1. PICK charge \in Nat, status \in {"completed", "failed"} : FinalizeQuota(c, charge, status)
    BY <1>0, <1>4 DEF FinalizeCharge, Undo, UndoQuota, Run
  <2>2. PICK r \in Ends(c, run[c], "usage", "undo") \cup Ends(c, run[c], "release", "failed") :
          run' = [run EXCEPT ![c] = r]
    BY <1>4 DEF FinalizeCharge, AfterFinalize, Undo
  <2>3. r.period = run[c].period
    BY <1>0, <1>q, <2>2 DEF Ends
  <2>4. \A e \in Calls : run'[e].period = run[e].period
    BY <1>0, <2>2, <2>3
  <2>5. c \in Images
    BY <1>4 DEF FinalizeCharge, Undo, In
  <2> QED  BY <2>1, <2>4, <2>5, FinalizeCharges
<1> QED  BY <1>1, <1>2, <1>3, <1>4 DEF ImageStep

\* Whatever steps are repeated, lose their results or fail, what the account
\* has paid in a month is what its jobs of that month were charged, each once.
THEOREM JobsChargedOnce == Spec => []ChargedOnce
<1>1. Init => ChargedOnce
  <2> SUFFICES ASSUME Init PROVE ChargedOnce
    OBVIOUS
  <2>1. \A p \in Period : spent[p] = 0 /\ ChargedIn(p) = {}
    BY DEF Init, ImageInit, ChargedIn, Images
  <2>2. ImageTypeOK
    BY InitTyped DEF TypeOK
  <2>3. \A p \in Period : SumFunction([c \in ChargedIn(p) |-> job[c].charge]) = 0
    BY <2>1, <2>2, ChargedFacts, SumEmpty
  <2> QED  BY <2>1, <2>3 DEF ChargedOnce
<1>2. TypeOK /\ BudgetInv /\ ChargedOnce /\ [Next]_vars => ChargedOnce'
  <2> SUFFICES ASSUME TypeOK, BudgetInv, ChargedOnce, [Next]_vars PROVE ChargedOnce'
    OBVIOUS
  <2>1. setting' = setting
    BY SettingStays
  <2>2. ASSUME UNCHANGED <<spent, job, run>> PROVE ChargedOnce'
    BY <2>1, <2>2, ChargesStand
  <2>3. CASE ImageNext
    BY <2>1, <2>2, <2>3, ImageKeepsCharges DEF ImageNext, ToggleQuota, budgetVars
  <2> QED  BY <2>2, <2>3 DEF Next, UsageNext, MailNext, vars, imageVars, budgetVars
<1> QED  BY <1>1, <1>2, AiTypes, BudgetIsInvariant, PTL DEF Spec

-----------------------------------------------------------------------------
(***************************************************************************)
(* Summaries, whatever fails.                                              *)
(***************************************************************************)

\* A call of which an event is recorded has its answer behind it; an image's
\* workflow waits with its call running until it knows the usage.
CountInv(c) ==
    /\ call[c].pc \in {"idle", "reserve", "running"} => call[c].recorded = {}
    /\ run[c].pc \in {"book", "generate", "finalize"} =>
          call[c].pc = "running" /\ Kind(c) = "image"

\* A call that neither records an event nor changes what it has recorded.
CountStands(c) ==
    /\ call'[c].recorded = call[c].recorded
    /\ call[c].recorded # {} =>
          call'[c].actual = call[c].actual /\ call'[c].period = call[c].period

\* What a call of a model does to its records.
LEMMA CallKeepsCount ==
    ASSUME UsageTypeOK, NEW c \in Calls, CallStep(c), run' = run, CountInv(c)
    PROVE  /\ CountInv(c)' /\ \A e \in Calls \ {c} : call'[e] = call[e]
           /\ Summarise(c) \/ (summary' = summary /\ CountStands(c))
<1> USE DEF At, Goto, Enforced, CountInv, CountStands, Kind
<1> DEFINE SameUsage == /\ call'[c].recorded = call[c].recorded
                        /\ call'[c].actual = call[c].actual
                        /\ call'[c].period = call[c].period
<1>0. call[c] \in Call /\ call \in [Calls -> Call]
  BY DEF UsageTypeOK
<1>1. CASE Reserve(c) \/ ReserveThrows(c)
  <2>1. call'[c].pc \in {"running", "denied", "failed"} /\ SameUsage
    BY <1>0, <1>1 DEF Reserve, ReserveThrows, Call
  <2>2. /\ setting' = setting /\ summary' = summary /\ call[c].pc = "reserve"
        /\ \A e \in Calls \ {c} : call'[e] = call[e]
    BY <1>0, <1>1 DEF Reserve, ReserveThrows
  <2> QED  BY <1>0, <2>1, <2>2
<1>2. CASE \E actual \in Actuals : Answered(c, actual)
  <2>1. call'[c].pc \in {"done", "merge"} /\ call'[c].recorded = call[c].recorded
    BY <1>0, <1>2 DEF Answered, Call
  <2>2. /\ setting' = setting /\ summary' = summary /\ call[c].pc = "running"
        /\ Kind(c) # "image" /\ \A e \in Calls \ {c} : call'[e] = call[e]
    BY <1>0, <1>2 DEF Answered, counterVars
  <2> QED  BY <1>0, <2>1, <2>2
<1>3. CASE ProviderFails(c)
  BY <1>0, <1>3 DEF ProviderFails, Call, counterVars
<1>4. CASE Merge(c) \/ MergeThrows(c) \/ RecordEvent(c) \/ RecordEventThrows(c)
  <2>1. call'[c].pc \in {"event", "summary", AfterThrow(c)} /\ SameUsage
    BY <1>0, <1>4 DEF Merge, MergeThrows, RecordEvent, RecordEventThrows, Call
  <2>2. /\ setting' = setting /\ summary' = summary /\ call[c].pc \in {"merge", "event"}
        /\ c \in Callers /\ \A e \in Calls \ {c} : call'[e] = call[e]
    BY <1>0, <1>4 DEF Merge, MergeThrows, RecordEvent, RecordEventThrows, counterVars
  <2>3. AfterThrow(c) \in {"release", "failed", "done", "thrown"}
    BY <2>2, UsageAssumption DEF AfterThrow, Callers, Setting, Kinds, UsageTypeOK
  <2> QED  BY <1>0, <2>1, <2>2, <2>3
<1>5. CASE Summarise(c)
  <2>1. \E ws : call'[c] = [call[c] EXCEPT !.pc = "done", !.recorded = ws]
    BY <1>0, <1>5 DEF Summarise
  <2>2. setting' = setting /\ \A e \in Calls \ {c} : call'[e] = call[e]
    BY <1>0, <1>5 DEF Summarise
  <2> QED  BY <1>0, <1>5, <2>1, <2>2 DEF Summarise, Call
<1>6. CASE Release(c) \/ ReleaseThrows(c)
  <2>1. call'[c].pc \in {"failed", "thrown"} /\ SameUsage
    BY <1>0, <1>6 DEF Release, ReleaseThrows, Call
  <2>2. /\ setting' = setting /\ summary' = summary /\ call[c].pc = "release"
        /\ \A e \in Calls \ {c} : call'[e] = call[e]
    BY <1>0, <1>6 DEF Release, ReleaseThrows
  <2> QED  BY <1>0, <2>1, <2>2
<1>7. CASE StreamBreaks(c) \/ Vanish(c)
  <2>1. run[c].pc \notin {"book", "generate", "finalize"}
    BY <1>7 DEF StreamBreaks, Vanish
  <2> QED  BY <1>0, <1>7, <2>1 DEF StreamBreaks, Vanish, Call, counterVars
<1> QED  BY <1>1, <1>2, <1>3, <1>4, <1>5, <1>6, <1>7 DEF CallStep

LEMMA PrepareKeepsCount ==
    ASSUME UsageTypeOK, NEW c \in Calls, NEW mode \in Modes, Prepare(c, mode), run' = run,
           CountInv(c)
    PROVE  /\ CountInv(c)' /\ \A e \in Calls \ {c} : call'[e] = call[e]
           /\ summary' = summary /\ CountStands(c)
<1>0. call[c] \in Call /\ call \in [Calls -> Call]
  BY DEF UsageTypeOK
<1>1. /\ call[c].pc = "idle" /\ setting' = setting /\ summary' = summary
      /\ \A e \in Calls \ {c} : call'[e] = call[e]
  BY <1>0 DEF Prepare, At, counterVars
<1>2. \E next \in {"reserve", "denied", "running"} :
        call'[c] = [call[c] EXCEPT !.pc = next, !.mode = mode, !.period = now]
  BY <1>0 DEF Prepare
<1> QED  BY <1>0, <1>1, <1>2 DEF Call, CountInv, CountStands, Kind

\* A step of an image's workflow records nothing, and lets a call that has an
\* event recorded go on with the usage it has.
LEMMA ImageKeepsCount ==
    ASSUME UsageTypeOK, ImageTypeOK, NEW c \in Calls, ImageStep(c), CountInv(c)
    PROVE  /\ CountInv(c)' /\ summary' = summary /\ CountStands(c)
           /\ \A e \in Calls \ {c} : call'[e] = call[e] /\ run'[e] = run[e]
<1> DEFINE Goal == /\ CountInv(c)' /\ CountStands(c)
                   /\ \A e \in Calls \ {c} : call'[e] = call[e] /\ run'[e] = run[e]
<1>0. /\ call[c] \in Call /\ call \in [Calls -> Call]
      /\ run[c] \in Run /\ run \in [Calls -> Run]
  BY DEF UsageTypeOK, ImageTypeOK
<1>s. c \in Images /\ setting' = setting /\ summary' = summary
  BY DEF ImageStep, Launch, LaunchThrows, ActionDies, LaunchReleaseThrew, BookQuota,
         BookRefused, StepThrows, Generate, GenerateFails, FinalizeCharge, UsageFinalized,
         UsageThrows, Undo, Released, ReleaseRepeated, In, usageVars, counterVars
<1>k. Kind(c) = "image" /\ Kind(c)' = "image"
  BY <1>s DEF Images, Kind
\* A step of the run only.
<1>r. ASSUME call' = call, \A e \in Calls \ {c} : run'[e] = run[e],
             run'[c].pc \in {"book", "generate", "finalize"} =>
                call[c].pc = "running" \/ run[c].pc \in {"book", "generate", "finalize"}
      PROVE  Goal
  BY <1>0, <1>k, <1>r DEF CountInv, CountStands
\* A step that moves the call on, or back to a settlement that is repeated.
<1>p. ASSUME \A e \in Calls \ {c} : call'[e] = call[e] /\ run'[e] = run[e],
             run'[c].pc \notin {"book", "generate", "finalize"},
             call'[c].pc \notin {"idle", "reserve", "running"},
             call'[c].recorded = call[c].recorded, call'[c].actual = call[c].actual,
             call'[c].period = call[c].period
      PROVE  Goal
  BY <1>0, <1>k, <1>p DEF CountInv, CountStands
<1> SUFFICES Goal
  BY <1>s
<1> HIDE DEF Goal
<1>q. \A pc : On(run[c], pc).pc = pc /\ Threw(run[c], pc).pc \in {run[c].pc, pc}
  BY <1>0 DEF On, Threw, Run
<1>1. CASE Launch(c)
  <2>1. run'[c].pc = "book" /\ \A e \in Calls \ {c} : run'[e] = run[e]
    BY <1>0, <1>1 DEF Launch, Run
  <2>2. call' = call /\ call[c].pc = "running"
    BY <1>1 DEF Launch, usageVars, At
  <2> QED  BY <1>r, <2>1, <2>2
<1>2. CASE LaunchThrows(c) \/ ActionDies(c) \/ LaunchReleaseThrew(c)
  <2>1. run' = run /\ run[c].pc = "none"
    BY <1>2 DEF LaunchThrows, ActionDies, LaunchReleaseThrew, imageVars
  <2>2. /\ call'[c].pc \in {"release", "gone", "failed"} /\ call'[c].recorded = call[c].recorded
        /\ call'[c].actual = call[c].actual /\ call'[c].period = call[c].period
        /\ \A e \in Calls \ {c} : call'[e] = call[e]
    BY <1>0, <1>2 DEF LaunchThrows, ActionDies, LaunchReleaseThrew, Goto, Call
  <2> QED  BY <1>p, <2>1, <2>2
<1>3. CASE \/ BookQuota(c) \/ BookRefused(c) \/ Generate(c) \/ GenerateFails(c)
           \/ StepThrows(c, "book", "failed") \/ StepThrows(c, "generate", "undo")
           \/ StepThrows(c, "finalize", "undo") \/ StepThrows(c, "undo", "failed")
  <2>1. \A e \in Calls \ {c} : run'[e] = run[e]
    BY <1>0, <1>3 DEF BookQuota, BookRefused, Generate, GenerateFails, StepThrows
  <2>2. call' = call
    BY <1>3 DEF BookQuota, BookRefused, Generate, GenerateFails, StepThrows, usageVars
  <2>3. run[c].pc \in {"book", "generate", "finalize"} \/ StepThrows(c, "undo", "failed")
    BY <1>3 DEF BookQuota, BookRefused, Generate, GenerateFails, StepThrows, In
  <2>4. ASSUME StepThrows(c, "undo", "failed") PROVE run'[c].pc \in {"undo", "failed"}
    <3>1. run'[c] = Threw(run[c], "failed") /\ run[c].pc = "undo"
      BY <1>0, <2>4 DEF StepThrows, In
    <3> QED  BY <3>1, <1>q
  <2> QED  BY <1>r, <2>1, <2>2, <2>3, <2>4
<1>4. CASE FinalizeCharge(c)
  <2>1. PICK r \in Ends(c, run[c], "usage", "undo") : AfterFinalize(c, r)
    BY <1>4 DEF FinalizeCharge
  <2>2. r.pc \in {"usage", "undo", "finalize"} /\ run[c].pc = "finalize"
    BY <1>4, <2>1, <1>q DEF Ends, FinalizeCharge, In
  <2>3. call[c].recorded = {}
    BY <2>2 DEF CountInv
  <2>4. CASE r.pc = "usage"
    <3>1. PICK images \in 1..Estimate :
            /\ run' = [run EXCEPT ![c] = r]
            /\ call' = [call EXCEPT ![c].pc = IF call[c].mode = "disabled" THEN "done" ELSE "merge",
                                    ![c].actual = images]
      BY <2>1, <2>4 DEF AfterFinalize
    <3>2. /\ call'[c].recorded = {} /\ call'[c].pc \in {"done", "merge"} /\ run'[c].pc = "usage"
          /\ \A e \in Calls \ {c} : call'[e] = call[e] /\ run'[e] = run[e]
      BY <1>0, <2>3, <2>4, <3>1 DEF Call
    <3> QED  BY <1>s, <2>3, <3>2 DEF CountInv, CountStands, Goal
  <2>5. CASE r.pc # "usage"
    <3>1. call' = call /\ run'[c] = r /\ \A e \in Calls \ {c} : run'[e] = run[e]
      BY <1>0, <2>1, <2>5 DEF AfterFinalize
    <3> QED  BY <2>2, <3>1, <1>r
  <2> QED  BY <2>4, <2>5
<1>5. CASE UsageFinalized(c) \/ Released(c)
  <2>1. /\ call' = call /\ run'[c].pc \in {"completed", "failed"}
        /\ \A e \in Calls \ {c} : run'[e] = run[e]
    BY <1>0, <1>5, <1>q DEF UsageFinalized, Released, usageVars
  <2> QED  BY <2>1, <1>r
<1>6. CASE UsageThrows(c) \/ ReleaseRepeated(c)
  <2>1. PICK catch \in {"undo", "failed"} :
          /\ run' = [run EXCEPT ![c] = Threw(run[c], catch)]
          /\ run[c].pc \in {"usage", "release"}
    BY <1>6 DEF UsageThrows, ReleaseRepeated, In
  <2>2. run'[c].pc \in {"usage", "release", "undo", "failed"}
        /\ \A e \in Calls \ {c} : run'[e] = run[e]
    BY <1>0, <1>q, <2>1
  <2>3. \/ call' = call
        \/ /\ call'[c].pc \in {"merge", "release", "failed"}
           /\ call'[c].recorded = call[c].recorded
           /\ call'[c].actual = call[c].actual /\ call'[c].period = call[c].period
           /\ \A e \in Calls \ {c} : call'[e] = call[e]
    BY <1>0, <1>6 DEF UsageThrows, ReleaseRepeated, Goto, Call
  <2> QED  BY <2>2, <2>3, <1>p, <1>r
<1>7. CASE Undo(c)
  <2>1. PICK r \in Ends(c, run[c], "release", "failed") :
          /\ run' = [run EXCEPT ![c] = r]
          /\ call' = call \/ call' = [call EXCEPT ![c].pc = "release"]
    BY <1>7 DEF Undo, Goto
  <2>2. r.pc \in {"release", "failed", "undo"}
    BY <1>7, <2>1, <1>q DEF Ends, Undo, In
  <2>3. run'[c].pc \in {"release", "failed", "undo"} /\ \A e \in Calls \ {c} : run'[e] = run[e]
    BY <1>0, <2>1, <2>2
  <2>4. \/ call' = call
        \/ /\ call'[c].pc = "release" /\ call'[c].recorded = call[c].recorded
           /\ call'[c].actual = call[c].actual /\ call'[c].period = call[c].period
           /\ \A e \in Calls \ {c} : call'[e] = call[e]
    BY <1>0, <2>1 DEF Call
  <2> QED  BY <2>3, <2>4, <1>p, <1>r
<1> QED
  BY <1>s, <1>1, <1>2, <1>3, <1>4, <1>5, <1>6, <1>7 DEF ImageStep

LEMMA OthersKeepCount ==
    ASSUME NEW c, call'[c] = call[c], run'[c] = run[c], setting' = setting, CountInv(c)
    PROVE  CountInv(c)' /\ CountStands(c)
BY DEF CountInv, CountStands, Kind

LEMMA NextKeepsCount ==
    ASSUME TypeOK, \A c \in Calls : CountInv(c), [Next]_vars
    PROVE  /\ \A c \in Calls : CountInv(c)'
           /\ \/ \E c \in Calls : Summarise(c)
              \/ summary' = summary /\ \A c \in Calls : CountStands(c)
<1> USE DEF TypeOK
<1>1. setting' = setting
  BY SettingStays
<1>2. CASE \E ws : Tick(ws) /\ run' = run
  BY <1>1, <1>2, OthersKeepCount DEF Tick, counterVars
<1>3. ASSUME NEW c \in Calls, NEW mode \in Modes, Prepare(c, mode), run' = run
      PROVE  summary' = summary /\ \A e \in Calls : CountInv(e)' /\ CountStands(e)
  <2>1. /\ CountInv(c)' /\ \A e \in Calls \ {c} : call'[e] = call[e]
        /\ summary' = summary /\ CountStands(c)
    BY <1>3, PrepareKeepsCount
  <2> QED  BY <1>1, <1>3, <2>1, OthersKeepCount
<1>4. ASSUME NEW c \in Calls, CallStep(c), run' = run
      PROVE  /\ \A e \in Calls : CountInv(e)'
             /\ Summarise(c) \/ (summary' = summary /\ \A e \in Calls : CountStands(e))
  <2>1. /\ CountInv(c)' /\ \A e \in Calls \ {c} : call'[e] = call[e]
        /\ Summarise(c) \/ (summary' = summary /\ CountStands(c))
    BY <1>4, CallKeepsCount
  <2> QED  BY <1>1, <1>4, <2>1, OthersKeepCount
<1>5. ASSUME NEW c \in Calls, ImageStep(c)
      PROVE  summary' = summary /\ \A e \in Calls : CountInv(e)' /\ CountStands(e)
  <2>1. /\ CountInv(c)' /\ summary' = summary /\ CountStands(c)
        /\ \A e \in Calls \ {c} : call'[e] = call[e] /\ run'[e] = run[e]
    BY <1>5, ImageKeepsCount
  <2> QED  BY <1>1, <2>1, OthersKeepCount
<1>6. CASE UNCHANGED <<usageVars, run>>
  BY <1>1, <1>6, OthersKeepCount DEF usageVars, counterVars
<1> QED  BY <1>2, <1>3, <1>4, <1>5, <1>6, StepsOfCalls

LEMMA CountedFacts ==
    ASSUME UsageTypeOK, NEW w, NEW p
    PROVE  /\ IsFiniteSet(CountedIn(w, p)) /\ CountedIn(w, p) \subseteq Calls
           /\ SumFunction([c \in CountedIn(w, p) |-> call[c].actual])
                 = Sum([c \in CountedIn(w, p) |-> call[c].actual], CountedIn(w, p))
<1>1. CountedIn(w, p) \subseteq Calls
  BY DEF CountedIn, Callers
<1> QED  BY <1>1, UsageAssumption, FS_Subset DEF SumFunction, Sum

\* Where no call records an event the sums stay what they were.
LEMMA SummariesStand ==
    ASSUME setting' = setting, summary' = summary, \A c \in Calls : CountStands(c), CountedOnce
    PROVE  CountedOnce'
<1> SUFFICES ASSUME NEW w \in Windows, NEW p \in Period
             PROVE  summary[w][p] = SumFunction([c \in CountedIn(w, p)' |-> call'[c].actual])
  BY DEF CountedOnce
<1>1. CountedIn(w, p)' = CountedIn(w, p)
  BY DEF CountedIn, Callers, Kind, CountStands
<1>2. \A c \in CountedIn(w, p) : call'[c].actual = call[c].actual
  BY DEF CountedIn, Callers, CountStands
<1>3. [c \in CountedIn(w, p)' |-> call'[c].actual] = [c \in CountedIn(w, p) |-> call[c].actual]
  BY <1>1, <1>2
<1> QED  BY <1>3 DEF CountedOnce

\* The events that a call records are new, and count in its own periods.
LEMMA SummarisedOnce ==
    ASSUME UsageTypeOK, UsageTypeOK', NEW c \in Calls, Summarise(c), CountedOnce
    PROVE  CountedOnce'
<1>0. call \in [Calls -> Call] /\ call' \in [Calls -> Call] /\ summary \in Counters
  BY DEF UsageTypeOK
<1>1. PICK ws \in SUBSET Unrecorded(c) :
        /\ summary' = Add(summary, c, ws, call[c].actual)
        /\ call' = [call EXCEPT ![c].pc = "done", ![c].recorded = @ \cup ws]
  BY DEF Summarise
<1>2. /\ c \in Callers /\ Callers' = Callers
      /\ \A e \in Calls : call'[e].actual = call[e].actual /\ call'[e].period = call[e].period
      /\ \A e \in Calls \ {c} : call'[e].recorded = call[e].recorded
      /\ call'[c].recorded = call[c].recorded \cup ws
  BY <1>0, <1>1 DEF Summarise, At, Callers, Call
<1>3. SUFFICES ASSUME NEW w \in Windows, NEW p \in Period
               PROVE  summary'[w][p] = SumFunction([e \in CountedIn(w, p)' |-> call'[e].actual])
  BY DEF CountedOnce
<1> DEFINE before == [e \in CountedIn(w, p) |-> call[e].actual]
           after == [e \in CountedIn(w, p)' |-> call'[e].actual]
<1>4. /\ summary[w][p] = Sum(before, CountedIn(w, p))
      /\ IsFiniteSet(CountedIn(w, p)) /\ CountedIn(w, p) \subseteq Calls
  BY CountedFacts DEF CountedOnce
<1>5. \A e \in Calls : call[e].actual \in Nat
  BY <1>0 DEF Call
<1>6. CASE w \in ws /\ call[c].period[w] = p
  <2>1. CountedIn(w, p)' = CountedIn(w, p) \cup {c} /\ c \notin CountedIn(w, p)
    BY <1>2, <1>6 DEF CountedIn, Unrecorded, Callers
  <2>2. summary'[w][p] = summary[w][p] + call[c].actual
    BY <1>1, <1>6, AddedAt
  <2>3. /\ \A e \in CountedIn(w, p) : after[e] = before[e]
        /\ \A e \in CountedIn(w, p) \cup {c} : after[e] \in Int
        /\ after[c] = call[c].actual
    BY <1>2, <1>4, <1>5, <2>1
  <2>4. SumFunction(after) = Sum(after, CountedIn(w, p) \cup {c})
    BY <2>1 DEF SumFunction, Sum
  <2> HIDE DEF before, after
  <2>5. Sum(after, CountedIn(w, p) \cup {c}) = after[c] + Sum(after, CountedIn(w, p))
    BY <1>4, <2>1, <2>3, SumAdd
  <2>6. Sum(after, CountedIn(w, p)) = Sum(before, CountedIn(w, p))
    BY <1>4, <2>3, SumSame
  <2>7. Sum(before, CountedIn(w, p)) \in Int
    BY <1>0, <1>3, <1>4 DEF Counters
  <2>8. SumFunction(after) = summary'[w][p]
    BY <1>4, <1>5, <2>2, <2>3, <2>4, <2>5, <2>6, <2>7
  <2> QED  BY <2>8 DEF after
<1>7. CASE ~ (w \in ws /\ call[c].period[w] = p)
  <2>1. CountedIn(w, p)' = CountedIn(w, p)
    BY <1>2, <1>7 DEF CountedIn, Callers
  <2>2. summary'[w][p] = summary[w][p]
    BY <1>1, <1>7, AddedAt
  <2>3. after = before
    BY <1>2, <1>4, <2>1
  <2> QED  BY <2>2, <2>3 DEF CountedOnce
<1> QED  BY <1>6, <1>7

\* Whatever is repeated, fails or is killed, the summaries of the tenant count
\* each recorded call once, with what it used.
THEOREM SummariesCount == Spec => []CountedOnce
<1>1. Init => (\A c \in Calls : CountInv(c)) /\ CountedOnce
  <2> SUFFICES ASSUME Init PROVE (\A c \in Calls : CountInv(c)) /\ CountedOnce
    OBVIOUS
  <2>1. \A c \in Calls : call[c].recorded = {} /\ run[c].pc = "none"
    BY DEF Init, UsageInit, ImageInit
  <2>2. \A w \in Windows, p \in Period : summary[w][p] = 0 /\ CountedIn(w, p) = {}
    BY <2>1 DEF Init, UsageInit, CountedIn, Callers
  <2>3. UsageTypeOK
    BY InitTyped DEF TypeOK
  <2>4. \A w \in Windows, p \in Period :
          SumFunction([c \in CountedIn(w, p) |-> call[c].actual]) = 0
    BY <2>2, <2>3, CountedFacts, SumEmpty
  <2> QED  BY <2>1, <2>2, <2>4 DEF CountInv, CountedOnce
<1>2. TypeOK /\ TypeOK' /\ (\A c \in Calls : CountInv(c)) /\ CountedOnce /\ [Next]_vars
        => (\A c \in Calls : CountInv(c))' /\ CountedOnce'
  BY NextKeepsCount, SettingStays, SummariesStand, SummarisedOnce DEF TypeOK
<1> QED  BY <1>1, <1>2, AiTypes, PTL DEF Spec

-----------------------------------------------------------------------------
(***************************************************************************)
(* How a message's run ends.                                               *)
(***************************************************************************)

\* The documents of a message agree with its run: the record knows the run once
\* it is marked, has an outcome when the reply is sent, and is marked as failed
\* when the run failed, unless the reply or a write did.
EndInv(m) ==
    /\ mailRun[m].pc \in {"route", "asking", "persist", "reply", "completed"} => mail[m].runId
    /\ mailRun[m].pc \in {"reply", "completed"} =>
          mail[m].status \in {"blocked", "awaiting-manual-create"}
    /\ mailRun[m].pc = "completed" => agent[m] = "completed"
    /\ mailRun[m].pc = "failed" =>
          mail[m].status = "failed" \/ Fault("send") \/ Fault("store")

\* Where a step leaves the message's run and agent alone, and the record its
\* status and its run, nothing changes.
LEMMA EndKept ==
    ASSUME NEW m \in Mails, EndInv(m), setting' = setting,
           mailRun'[m] = mailRun[m], agent'[m] = agent[m],
           mail'[m].status = mail[m].status, mail[m].runId => mail'[m].runId
    PROVE  EndInv(m)'
BY DEF EndInv, Fault

\* The webhook does not touch the status of a message whose run has started.
LEMMA DeliveryKeepsEnd ==
    ASSUME MailTypeOK, NEW d \in Deliveries, DeliveryStep(d), NEW m \in Mails,
           OneRunInv(m), EndInv(m), setting' = setting
    PROVE  EndInv(m)'
<1> USE DEF MailTypeOK
<1>0. mail[m] \in Mail /\ mailRun[m] \in MailRun /\ started[m] \in Nat /\ delivery[d].mail \in Mails
  BY DEF Delivery
<1>1. agent' = agent
  BY DEF DeliveryStep, LoadContext, Claim, Persist, Block, Start, MarkStarted, DeliveryFails
<1>2. CASE UNCHANGED <<mail, mailRun>>
  BY <1>1, <1>2, EndKept
<1>3. CASE delivery[d].mail # m
  <2>1. mail'[m] = mail[m] /\ mailRun'[m] = mailRun[m]
    BY <1>0, <1>3 DEF DeliveryStep, LoadContext, Claim, Persist, Block, Start, MarkStarted,
                      DeliveryFails
  <2> QED  BY <1>1, <2>1, EndKept
<1>4. CASE delivery[d].mail = m /\ Start(d)
  <2>1. mailRun'[m].pc = "mark"
    BY <1>0, <1>4 DEF Start, MailRun
  <2> QED  BY <2>1 DEF EndInv
<1>5. CASE delivery[d].mail = m /\ MarkStarted(d)
  <2>1. /\ mail'[m].status = mail[m].status /\ mail'[m].runId
        /\ mailRun' = mailRun
    BY <1>0, <1>5 DEF MarkStarted, Mail
  <2> QED  BY <1>1, <2>1, EndKept
<1>6. CASE delivery[d].mail = m /\ mail' # mail /\ (Claim(d) \/ Persist(d) \/ Block(d))
  <2>1. started[m] = 0
    <3>1. CASE Claim(d)
      BY <1>6, <3>1 DEF Claim, Repairable, OneRunInv
    <3>2. CASE Persist(d)
      BY <1>6, <3>2 DEF Persist, OneRunInv
    <3>3. CASE Block(d)
      BY <1>6, <3>3 DEF Block, DeliveryAt, Decides, OneRunInv
    <3> QED  BY <1>6, <3>1, <3>2, <3>3
  <2>2. mailRun'[m].pc = "none"
    BY <1>6, <2>1 DEF Claim, Persist, Block, OneRunInv
  <2> QED  BY <2>2 DEF EndInv
<1> QED
  BY <1>2, <1>3, <1>4, <1>5, <1>6
     DEF DeliveryStep, LoadContext, Claim, Persist, Block, DeliveryFails

\* Where a step of the message's own run leads.
LEMMA OwnStepKeepsEnd ==
    ASSUME MailTypeOK, NEW m \in Mails, MailStep(m), EndInv(m), setting' = setting
    PROVE  EndInv(m)'
<1> USE DEF MailTypeOK, RunTo, RunAt, Onward, Failed
<1>0. mail[m] \in Mail /\ mailRun[m] \in MailRun /\ DOMAIN mailRun = Mails /\ DOMAIN mail = Mails
      /\ DOMAIN agent = Mails
  OBVIOUS
<1>1. CASE MarkProcessing(m)
  <2>1. mailRun'[m].pc = "route" /\ mail'[m].runId
    BY <1>0, <1>1 DEF MarkProcessing, MarkProcessingWrites, Mail, MailRun
  <2> QED  BY <2>1 DEF EndInv
<1>2. ASSUME NEW outcome \in {"blocked", "processing"}, mailRun[m].pc \in {"route", "asking"},
             RouteWrite(m, outcome), mailRun'[m].pc = AfterRoute(outcome)
      PROVE  EndInv(m)'
  <2>1. mail'[m].status = outcome /\ mail'[m].runId
    BY <1>0, <1>2 DEF RouteWrite, Mail, EndInv
  <2> QED  BY <1>2, <2>1 DEF EndInv, AfterRoute
<1>3. CASE RouteBlocks(m)
  <2>1. mailRun'[m].pc = AfterRoute("blocked")
    BY <1>0, <1>3 DEF RouteBlocks, AfterRoute, MailRun
  <2> QED  BY <1>2, <1>3, <2>1 DEF RouteBlocks
<1>4. CASE \E outcome \in {"blocked", "processing"} : RouteDecides(m, outcome)
  <2>1. PICK outcome \in {"blocked", "processing"} : RouteDecides(m, outcome)
    BY <1>4
  <2>2. mailRun'[m].pc = AfterRoute(outcome)
    BY <1>0, <2>1 DEF RouteDecides, AfterRoute, MailRun
  <2> QED  BY <1>2, <2>1, <2>2 DEF RouteDecides
<1>5. CASE \E mode \in Modes : RouteAsks(m, mode)
  <2>1. mailRun[m].pc = "route" /\ mailRun'[m].pc = "asking" /\ mail' = mail
    BY <1>0, <1>5 DEF RouteAsks, MailRun
  <2> QED  BY <2>1 DEF EndInv
<1>6. CASE PersistManualCreate(m)
  <2>1. /\ mailRun[m].pc = "persist" /\ mailRun'[m].pc = "reply"
        /\ mail'[m].status = "awaiting-manual-create" /\ mail'[m].runId = mail[m].runId
    BY <1>0, <1>6 DEF PersistManualCreate, PersistWrites, Mail, MailRun
  <2> QED  BY <2>1 DEF EndInv
<1>7. CASE Reply(m)
  <2>1. /\ mailRun[m].pc = "reply" /\ mailRun'[m].pc = "completed" /\ mail' = mail
        /\ mail[m].runId => agent'[m] = "completed"
    BY <1>0, <1>7 DEF Reply, ReplyWrites, MailRun
  <2> QED  BY <2>1 DEF EndInv
<1>8. CASE ReplyThrows(m)
  <2>1. /\ mailRun[m].pc = "reply" /\ mailRun'[m].pc \in {"reply", "failed"} /\ mail' = mail
        /\ Fault("send") \/ Fault("store")
    BY <1>0, <1>8 DEF ReplyThrows, MailRun
  <2> QED  BY <2>1 DEF EndInv, Fault
<1>9. CASE MarkFailure(m)
  <2>1. mailRun'[m].pc = "failed" /\ mail'[m].status = "failed"
    BY <1>0, <1>9 DEF MarkFailure, FailureWrites, Mail, MailRun
  <2> QED  BY <2>1 DEF EndInv
<1>10. CASE RouteThrows(m)
  <2>1. mailRun[m].pc = "asking" /\ mailRun'[m].pc \in {"route", "fail"} /\ mail' = mail
    BY <1>0, <1>10 DEF RouteThrows, MailRun
  <2> QED  BY <2>1 DEF EndInv
<1>11. CASE StepFails(m)
  <2>0. Fault("store")'
    BY <1>11 DEF StepFails, Fault
  <2>a. mail'[m].runId = mail[m].runId \/ mailRun[m].pc \in {"mark", "fail"}
    <3>1. \A outcome \in {"blocked", "processing"} :
            RouteWrite(m, outcome) => mail'[m].runId = mail[m].runId
      BY <1>0 DEF RouteWrite, Mail
    <3>2. mail' = [mail EXCEPT ![m] = [mail[m] EXCEPT !.status = "awaiting-manual-create"]]
            => mail'[m].runId = mail[m].runId
      BY <1>0 DEF Mail
    <3> QED  BY <1>11, <3>1, <3>2 DEF StepFails, Partly
  <2>b. \/ mailRun[m].pc = "mark" /\ mailRun'[m].pc \in {"mark", "fail"}
        \/ mailRun[m].pc \in {"route", "asking"} /\ mailRun'[m].pc \in {"route", "fail"}
        \/ mailRun[m].pc = "persist" /\ mailRun'[m].pc \in {"persist", "fail"}
        \/ mailRun[m].pc = "fail" /\ mailRun'[m].pc \in {"fail", "failed"}
    <3>1. \A r \in MailRun : /\ Failed(r, "fail").pc \in {r.pc, "fail"}
                             /\ Failed(r, "failed").pc \in {r.pc, "failed"}
      BY DEF MailRun
    <3>2. [mailRun[m] EXCEPT !.pc = "route"] \in MailRun
          /\ [mailRun[m] EXCEPT !.pc = "route"].pc = "route"
      BY <1>0 DEF MailRun
    <3> DEFINE Catch(r, catch) == Failed(r, catch)
    <3>3. \/ mailRun[m].pc = "mark" /\ mailRun'[m] = Catch(mailRun[m], "fail")
          \/ mailRun[m].pc \in {"route", "asking"}
             /\ mailRun'[m] = Catch([mailRun[m] EXCEPT !.pc = "route"], "fail")
          \/ mailRun[m].pc = "persist" /\ mailRun'[m] = Catch(mailRun[m], "fail")
          \/ mailRun[m].pc = "fail" /\ mailRun'[m] = Catch(mailRun[m], "failed")
      BY <1>0, <1>11 DEF StepFails
    <3>4. \A r \in MailRun : /\ Catch(r, "fail").pc \in {r.pc, "fail"}
                             /\ Catch(r, "failed").pc \in {r.pc, "failed"}
      BY <3>1
    <3> HIDE DEF Catch
    <3> QED  BY <1>0, <3>2, <3>3, <3>4
  <2> QED  BY <2>0, <2>a, <2>b DEF EndInv
<1> QED
  BY <1>1, <1>3, <1>4, <1>5, <1>6, <1>7, <1>8, <1>9, <1>10, <1>11 DEF MailStep

LEMMA RunElsewhere ==
    ASSUME MailTypeOK, NEW n \in Mails, MailStep(n), NEW m \in Mails, m # n
    PROVE  mailRun'[m] = mailRun[m] /\ mail'[m] = mail[m] /\ agent'[m] = agent[m]
<1> USE DEF MailTypeOK
<1>1. mailRun'[m] = mailRun[m]
  BY DEF MailStep, MarkProcessing, RouteBlocks, RouteThrows, RouteAsks, RouteDecides,
         PersistManualCreate, Reply, ReplyThrows, MarkFailure, StepFails, RunTo
<1>2. mail'[m] = mail[m]
  BY DEF MailStep, MarkProcessing, RouteBlocks, RouteThrows, RouteAsks, RouteDecides,
         PersistManualCreate, Reply, ReplyThrows, MarkFailure, StepFails,
         MarkProcessingWrites, RouteWrite, PersistWrites, FailureWrites, Partly
<1>3. agent'[m] = agent[m]
  BY DEF MailStep, MarkProcessing, RouteBlocks, RouteThrows, RouteAsks, RouteDecides,
         PersistManualCreate, Reply, ReplyThrows, MarkFailure, StepFails,
         MarkProcessingWrites, ReplyWrites, PersistWrites, FailureWrites, Partly
<1> QED  BY <1>1, <1>2, <1>3

LEMMA NextKeepsEnd ==
    ASSUME TypeOK, [Next]_vars, NEW m \in Mails, OneRunInv(m), EndInv(m)
    PROVE  EndInv(m)'
<1>0. setting' = setting /\ MailTypeOK
  BY SettingStays DEF TypeOK
<1>1. CASE UNCHANGED <<mail, agent, mailRun>>
  BY <1>0, <1>1, EndKept
<1>2. ASSUME NEW n \in Mails, MailStep(n) PROVE EndInv(m)'
  <2>1. CASE m = n
    BY <1>0, <1>2, <2>1, OwnStepKeepsEnd
  <2>2. CASE m # n
    BY <1>0, <1>2, <2>2, RunElsewhere, EndKept
  <2> QED  BY <2>1, <2>2
<1>3. ASSUME NEW d \in Deliveries, DeliveryStep(d) PROVE EndInv(m)'
  BY <1>0, <1>3, DeliveryKeepsEnd
<1>4. MailNext => EndInv(m)'
  BY <1>1, <1>2, <1>3 DEF MailNext, ContextChanges, Deliver
<1> QED  BY <1>1, <1>4 DEF Next, UsageNext, ImageNext, vars, mailVars

\* A run that completed leaves a message that is blocked or awaits its order,
\* and an agent that is completed.
CompletedHasOutcome ==
    \A m \in Mails : RunAt(m, "completed") =>
        /\ mail[m].status \in {"blocked", "awaiting-manual-create"}
        /\ agent[m] = "completed"

\* For any messages and deliveries, whatever fails, is killed or is delivered
\* again, a completed run has given its message an outcome; and where e-mails can
\* be sent and writes do not fail, a run that failed has marked its message as
\* failed.  (Where the reply fails it has not: FailedRunMarked.)
THEOREM RunsEndTruthfully ==
    Spec => [](/\ CompletedHasOutcome
               /\ ~ Fault("send") /\ ~ Fault("store") => FailedRunMarked)
<1> DEFINE Inv == \A m \in Mails : OneRunInv(m) /\ EndInv(m)
<1>1. Init => Inv
  <2> SUFFICES ASSUME Init, NEW m \in Mails PROVE OneRunInv(m) /\ EndInv(m)
    OBVIOUS
  <2>1. /\ \A d \in Deliveries : delivery[d].pc = "idle"
        /\ started[m] = 0 /\ mailRun[m].pc = "none"
        /\ mail[m].status = "none" /\ mail[m].reason = "none"
    BY DEF Init, MailInit
  <2> QED  BY <2>1 DEF OneRunInv, EndInv, Decides
<1>2. TypeOK /\ Inv /\ [Next]_vars => Inv'
  BY NextKeepsOne, NextKeepsEnd
<1>3. Inv => /\ CompletedHasOutcome
             /\ ~ Fault("send") /\ ~ Fault("store") => FailedRunMarked
  BY DEF EndInv, CompletedHasOutcome, FailedRunMarked, RunAt
<1> QED  BY <1>1, <1>2, <1>3, AiTypes, PTL DEF Spec
=============================================================================
