------------------------- MODULE FulfillmentProofs -------------------------
(***************************************************************************)
(* For every set of warehouses: every reference to a request names one     *)
(* that exists; while only transactions write requests and assignments, one*)
(* warehouse at most has an item; and an item assigned through a request   *)
(* stays so where the order form does not write.                           *)
(***************************************************************************)
EXTENDS Fulfillment, TLAPS

-----------------------------------------------------------------------------
(***************************************************************************)
(* Types.                                                                  *)
(***************************************************************************)

\* The types of what the requests' and the item's actions write.
ItemTypeOK ==
    /\ request \in [Warehouses -> Statuses]
    /\ assigned \in Assignment
    /\ fulfilled \in BOOLEAN
    /\ others \in Environments
    /\ expired \subseteq Warehouses
    /\ form \in Assignment \cup {NoForm}

CronTypeOK ==
    /\ phase \in {"idle", "cancel", "query", "sync"}
    /\ picked \subseteq Warehouses
    /\ finishing \subseteq Warehouses
    /\ deaths \in 0..MaxDeaths

\* What the clean-up job and an open form hold on to exists.
Remembered ==
    /\ \A w \in picked : request[w] # "NONE"
    /\ form.warehouse \in Warehouses => request[form.warehouse] # "NONE"
    /\ assigned.warehouse \in Warehouses => request[assigned.warehouse] # "NONE"

FulfillmentInv == ItemTypeOK /\ CronTypeOK /\ Remembered

\* An assignment is a warehouse's or none.
LEMMA AssignmentCases ==
    ASSUME NEW a \in Assignment
    PROVE  /\ a.warehouse \in Warehouses \/ a = Unassigned
           /\ a.warehouse = NoWarehouse <=> a = Unassigned
BY FulfillmentAssumption DEF Assignment, Unassigned

LEMMA FulfillmentInit == Init => FulfillmentInv
<1> SUFFICES ASSUME Init PROVE FulfillmentInv
  OBVIOUS
<1>1. ItemTypeOK
  BY DEF Init, ItemTypeOK, Statuses, Assignment
<1>2. CronTypeOK
  BY FulfillmentAssumption DEF Init, CronTypeOK
<1>3. Remembered
  BY FulfillmentAssumption DEF Init, Remembered, Unassigned, NoForm
<1> QED  BY <1>1, <1>2, <1>3 DEF FulfillmentInv

LEMMA FulfillmentStep == FulfillmentInv /\ [Next]_vars => FulfillmentInv'
<1> SUFFICES ASSUME FulfillmentInv, [Next]_vars PROVE FulfillmentInv'
  OBVIOUS
<1> USE DEF FulfillmentInv
<1>1. ASSUME NEW w \in Warehouses, CreateRequest(w) PROVE FulfillmentInv'
  BY <1>1 DEF CreateRequest, ItemTypeOK, CronTypeOK, Remembered, Statuses, cronVars
<1>2. ASSUME NEW w \in Warehouses, Expire(w) PROVE FulfillmentInv'
  BY <1>2 DEF Expire, ItemTypeOK, CronTypeOK, Remembered, cronVars
<1>3. ASSUME NEW w \in Warehouses, Accept(w) PROVE FulfillmentInv'
  BY <1>3 DEF Accept, Withdrawn, ItemTypeOK, CronTypeOK, Remembered, Statuses, Assignment, cronVars
<1>4. ASSUME NEW w \in Warehouses, Reject(w) PROVE FulfillmentInv'
  BY <1>4 DEF Reject, ItemTypeOK, CronTypeOK, Remembered, Statuses, cronVars
<1>5. ASSUME NEW w \in OwnWarehouses, Assign(w) PROVE FulfillmentInv'
  <2>1. w \in Warehouses
    BY FulfillmentAssumption
  <2> QED
    BY <1>5, <2>1 DEF Assign, Withdrawn, Previous, ItemTypeOK, CronTypeOK, Remembered, Statuses,
                      Assignment, cronVars
<1>6. ASSUME Clear PROVE FulfillmentInv'
  <2>1. Unassigned \in Assignment /\ Unassigned.warehouse \notin Warehouses
    BY FulfillmentAssumption DEF Assignment, Unassigned
  <2> QED
    BY <1>6, <2>1 DEF Clear, Previous, ItemTypeOK, CronTypeOK, Remembered, Statuses, cronVars
<1>7. ASSUME NEW done \in BOOLEAN, MarkItem(done) \/ UpdateItemStatus(done)
      PROVE  FulfillmentInv'
  BY <1>7 DEF MarkItem, UpdateItemStatus, ItemTypeOK, CronTypeOK, Remembered, cronVars, requestVars
<1>8. ASSUME CronStep \/ CronDies PROVE FulfillmentInv'
  <2>1. CASE CronQueryExpired \/ CronQueryAccepted
    BY <2>1 DEF CronQueryExpired, CronQueryAccepted, ItemTypeOK, CronTypeOK, Remembered, requestVars
  <2>2. CASE CronCancel
    BY <2>2 DEF CronCancel, ItemTypeOK, CronTypeOK, Remembered, Statuses
  <2>3. CASE CronEnd
    BY <2>3 DEF CronEnd, ItemTypeOK, CronTypeOK, Remembered, requestVars
  <2>4. CASE CronDies
    BY <2>4, FulfillmentAssumption DEF CronDies, ItemTypeOK, CronTypeOK, Remembered, requestVars
  <2>5. ASSUME NEW w \in Warehouses, CronReadOrder(w) PROVE FulfillmentInv'
    BY <2>5 DEF CronReadOrder, ItemTypeOK, CronTypeOK, Remembered, requestVars
  <2>6. ASSUME NEW w \in Warehouses, CronFinish(w) PROVE FulfillmentInv'
    BY <2>6 DEF CronFinish, ItemTypeOK, CronTypeOK, Remembered, Statuses
  <2> QED  BY <1>8, <2>1, <2>2, <2>3, <2>4, <2>5, <2>6 DEF CronStep
<1>9. ASSUME FormOpen PROVE FulfillmentInv'
  BY <1>9 DEF FormOpen, ItemTypeOK, CronTypeOK, Remembered, requestVars, cronVars
<1>10. ASSUME FormSave PROVE FulfillmentInv'
  <2>1. NoForm.warehouse \notin Warehouses
    BY FulfillmentAssumption DEF NoForm
  <2> QED
    BY <1>10, <2>1 DEF FormSave, ItemTypeOK, CronTypeOK, Remembered, cronVars
<1>11. CASE UNCHANGED vars
  BY <1>11 DEF vars, ItemTypeOK, CronTypeOK, Remembered
<1> QED
  BY <1>1, <1>2, <1>3, <1>4, <1>5, <1>6, <1>7, <1>8, <1>9, <1>10, <1>11 DEF Next

\* Every variable keeps its type: TypeOK.
THEOREM FulfillmentTypes == Spec => []TypeOK
<1>1. FulfillmentInv => TypeOK
  BY DEF FulfillmentInv, ItemTypeOK, CronTypeOK, TypeOK
<1> QED  BY FulfillmentInit, FulfillmentStep, <1>1, PTL DEF Spec

\* An item is only ever assigned to a warehouse that has a request for it, the
\* stale writes of the clean-up job and of the order form included:
\* AssignedWasAsked.
THEOREM AskedBeforeAssigned == Spec => []AssignedWasAsked
<1>1. FulfillmentInv => AssignedWasAsked
  BY AssignmentCases DEF FulfillmentInv, ItemTypeOK, Remembered, AssignedWasAsked
<1> QED  BY FulfillmentInit, FulfillmentStep, <1>1, PTL DEF Spec

-----------------------------------------------------------------------------
(***************************************************************************)
(* One winner.                                                             *)
(***************************************************************************)

\* The job is not running and no form is open.
Quiet == phase = "idle" /\ finishing = {} /\ form = NoForm

\* While a warehouse has the item, no other can still accept.
NonePending == assigned # Unassigned => \A w \in Warehouses : request[w] # "PENDING"

AloneInv == Quiet /\ NonePending /\ WinnerHasItem

WinnerInv == FulfillmentInv /\ (others = {} => AloneInv)

LEMMA OthersChosenOnce == [Next]_vars => UNCHANGED others
BY DEF Next, CreateRequest, Expire, Accept, Reject, Assign, Clear, MarkItem, UpdateItemStatus,
       CronStep, CronQueryExpired, CronCancel, CronQueryAccepted, CronEnd, CronReadOrder,
       CronFinish, CronDies, FormOpen, FormSave, vars

LEMMA WinnerStep == WinnerInv /\ [Next]_vars => WinnerInv'
<1> SUFFICES ASSUME WinnerInv, [Next]_vars, others = {} PROVE AloneInv'
  BY FulfillmentStep, OthersChosenOnce DEF WinnerInv
<1>1. /\ assigned \in Assignment /\ request \in [Warehouses -> Statuses]
      /\ Quiet /\ NonePending /\ WinnerHasItem
  BY DEF WinnerInv, AloneInv, FulfillmentInv, ItemTypeOK
<1>2. /\ \A w \in Warehouses : w # NoWarehouse
      /\ assigned.warehouse = NoWarehouse <=> assigned = Unassigned
  BY <1>1, AssignmentCases, FulfillmentAssumption
<1>3. ASSUME NEW w \in Warehouses, CreateRequest(w) PROVE AloneInv'
  <2>1. assigned = Unassigned /\ assigned' = assigned
    BY <1>3 DEF CreateRequest
  <2>2. /\ request' = [request EXCEPT ![w] = "PENDING"] /\ request[w] = "NONE"
        /\ UNCHANGED <<phase, finishing, form>>
    BY <1>3 DEF CreateRequest, cronVars
  <2>3. WinnerHasItem'
    BY <1>1, <2>1, <2>2 DEF WinnerHasItem, Won
  <2> QED  BY <1>1, <2>1, <2>2, <2>3 DEF AloneInv, NonePending, Quiet
<1>4. ASSUME NEW w \in Warehouses, Accept(w) PROVE AloneInv'
  <2>1. assigned = Unassigned
    BY <1>1, <1>4 DEF Accept, NonePending
  <2>2. /\ UNCHANGED <<phase, finishing, form>>
        /\ assigned'.warehouse = w
        /\ request'[w] = "ACCEPTED"
        /\ \A v \in Warehouses \ {w} :
             request'[v] = IF request[v] = "PENDING" THEN "CANCELLED" ELSE request[v]
    BY <1>4 DEF Accept, Withdrawn, cronVars
  <2>3. WinnerHasItem'
    BY <1>1, <1>2, <2>1, <2>2 DEF WinnerHasItem, Won
  <2>4. NonePending'
    BY <2>2 DEF NonePending
  <2> QED  BY <1>1, <2>2, <2>3, <2>4 DEF AloneInv, Quiet
<1>5. ASSUME NEW w \in Warehouses, Reject(w) PROVE AloneInv'
  <2>1. /\ request' = [request EXCEPT ![w] = "REJECTED"] /\ request[w] = "PENDING"
        /\ UNCHANGED <<assigned, phase, finishing, form>>
    BY <1>5 DEF Reject, cronVars
  <2>2. WinnerHasItem' /\ NonePending'
    BY <1>1, <2>1 DEF WinnerHasItem, Won, NonePending
  <2> QED  BY <1>1, <2>1, <2>2 DEF AloneInv, Quiet
<1>6. ASSUME NEW w \in OwnWarehouses, Assign(w) PROVE AloneInv'
  <2>0. w \in Warehouses
    BY FulfillmentAssumption
  <2>1. /\ UNCHANGED <<phase, finishing, form>>
        /\ assigned'.warehouse = w
        /\ request'[w] = "ACCEPTED"
        /\ \A v \in Warehouses \ {w} :
             request'[v] = IF request[v] = "PENDING" \/ (v = assigned.warehouse /\ request[v] # "NONE")
                           THEN "CANCELLED" ELSE request[v]
    BY <1>6, <2>0 DEF Assign, Withdrawn, Previous, cronVars
  <2>2. \A v \in Warehouses \ {w} : ~ Won(v)' /\ request'[v] # "PENDING"
    BY <1>1, <2>1 DEF WinnerHasItem, Won
  <2>3. WinnerHasItem'
    BY <2>0, <2>1, <2>2 DEF WinnerHasItem, Won
  <2>4. NonePending'
    BY <2>1, <2>2 DEF NonePending
  <2> QED  BY <1>1, <2>1, <2>3, <2>4 DEF AloneInv, Quiet
<1>7. ASSUME Clear PROVE AloneInv'
  <2>1. /\ UNCHANGED <<phase, finishing, form>>
        /\ assigned' = Unassigned
        /\ \A v \in Warehouses :
             request'[v] = IF v = assigned.warehouse /\ request[v] # "NONE"
                           THEN "CANCELLED" ELSE request[v]
    BY <1>2, <1>7 DEF Clear, Previous, cronVars
  <2>2. \A v \in Warehouses : ~ Won(v)'
    BY <1>1, <2>1 DEF WinnerHasItem, Won
  <2>3. WinnerHasItem' /\ NonePending'
    BY <1>2, <2>1, <2>2 DEF WinnerHasItem, NonePending, Unassigned
  <2> QED  BY <1>1, <2>1, <2>3 DEF AloneInv, Quiet
<1>8. CASE UNCHANGED <<request, assigned, phase, finishing, form>>
  BY <1>1, <1>8 DEF AloneInv, Quiet, NonePending, WinnerHasItem, Won
<1>9. ~ CronStep /\ ~ CronDies /\ ~ FormOpen /\ ~ FormSave
  BY <1>1 DEF Quiet, CronStep, CronQueryExpired, CronCancel, CronQueryAccepted, CronEnd,
              CronReadOrder, CronFinish, CronDies, FormOpen, FormSave
<1> QED
  BY <1>3, <1>4, <1>5, <1>6, <1>7, <1>8, <1>9
     DEF Next, Expire, MarkItem, UpdateItemStatus, vars, cronVars, requestVars

\* While no request is sent for an item that has a warehouse, and neither the
\* clean-up job nor an order form writes beside the service, exactly the
\* warehouse an item is assigned to has its request accepted: OneWinner.
THEOREM WinnerIsUnique == Spec => []OneWinner
<1>1. Init => WinnerInv
  <2> SUFFICES ASSUME Init PROVE WinnerInv
    OBVIOUS
  <2>1. AloneInv
    BY FulfillmentAssumption
       DEF Init, AloneInv, Quiet, NonePending, WinnerHasItem, Won, Unassigned
  <2> QED  BY <2>1, FulfillmentInit DEF WinnerInv
<1>2. WinnerInv => OneWinner
  BY DEF WinnerInv, AloneInv, OneWinner
<1> QED  BY WinnerStep, <1>1, <1>2, PTL DEF Spec

-----------------------------------------------------------------------------
(***************************************************************************)
(* Without the order form.                                                 *)
(***************************************************************************)

\* An item is assigned through an accepted request.
ByRequest == assigned # Unassigned /\ ~ assigned.direct

\* Only the service's transactions write the assignment.
NoFormOpen == "form" \notin others /\ form = NoForm

\* The service's transactions leave an assignment by request to a request.
LEMMA ServiceKeepsRequest ==
    ASSUME FulfillmentInv, NoFormOpen, [Next]_vars, ByRequest
    PROVE  ByRequest'
<1>1. assigned \in Assignment /\ ~ CanChangeDirectly
  BY DEF FulfillmentInv, ItemTypeOK, ByRequest, CanChangeDirectly
<1>2. ASSUME NEW w \in Warehouses, Accept(w) PROVE ByRequest'
  <2>1. assigned' = [warehouse |-> w, direct |-> FALSE]
    BY <1>2 DEF Accept
  <2>2. w # NoWarehouse
    BY FulfillmentAssumption
  <2> QED  BY <2>1, <2>2 DEF ByRequest, Unassigned
<1>3. CASE UNCHANGED assigned
  BY <1>3 DEF ByRequest
<1> QED
  BY <1>1, <1>2, <1>3
     DEF NoFormOpen, Next, CreateRequest, Expire, Reject, Assign, Clear, MarkItem,
         UpdateItemStatus, CronStep, CronQueryExpired, CronCancel, CronQueryAccepted, CronEnd,
         CronReadOrder, CronFinish, CronDies, FormOpen, FormSave, vars, requestVars, cronVars

LEMMA FormStaysClosed == NoFormOpen /\ [Next]_vars => NoFormOpen'
<1> SUFFICES ASSUME NoFormOpen, [Next]_vars PROVE NoFormOpen'
  OBVIOUS
<1>1. UNCHANGED others
  BY OthersChosenOnce
<1>2. UNCHANGED form
  BY DEF NoFormOpen, Next, CreateRequest, Expire, Accept, Reject, Assign, Clear, MarkItem,
         UpdateItemStatus, CronStep, CronQueryExpired, CronCancel, CronQueryAccepted, CronEnd,
         CronReadOrder, CronFinish, CronDies, FormOpen, FormSave, vars, requestVars, cronVars
<1> QED  BY <1>1, <1>2 DEF NoFormOpen

\* "Only direct warehouse assignments can be changed manually" is true of the
\* service, its clean-up job and requests created late: where the order form
\* does not write, an item assigned through a request stays so, whatever staff
\* do (RequestAcceptedKept, which the form alone breaks).
THEOREM RequestKeptWithoutForm ==
    ASSUME \A e \in Environments : "form" \notin e
    PROVE  Spec => RequestAcceptedKept
<1>1. Init => NoFormOpen
  BY DEF Init, NoFormOpen
<1>2. FulfillmentInv /\ NoFormOpen /\ [Next]_vars =>
        [(assigned # Unassigned /\ ~ assigned.direct) =>
            (assigned' # Unassigned /\ ~ assigned'.direct)]_vars
  BY ServiceKeepsRequest DEF ByRequest, Unassigned
<1> QED
  BY FulfillmentInit, FulfillmentStep, FormStaysClosed, <1>1, <1>2, PTL
     DEF Spec, RequestAcceptedKept
=============================================================================
