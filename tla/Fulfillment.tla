---------------------------- MODULE Fulfillment ----------------------------
(***************************************************************************)
(* Who makes one item of an order (apps/admin/lib/fulfillment/service.ts). *)
(* Warehouses are sent requests, which they accept or reject; staff may    *)
(* assign a warehouse of its own directly; a cron job cancels requests     *)
(* that stay unanswered and marks those whose item was made.               *)
(*                                                                         *)
(* A function of the service that uses a transaction is one action.  The   *)
(* cron job reads by queries and writes later without looking again, so it *)
(* is several; so is the order form, which saves the items it was opened   *)
(* with.  The tenants' cooperation checks, the texts of the requests and   *)
(* the in-progress and hand-over marks of the item are left out.           *)
(***************************************************************************)
EXTENDS Integers

CONSTANTS
    Warehouses,     \* all that may be asked
    OwnWarehouses,  \* those of the order's tenant
    NoWarehouse,    \* the item is not assigned
    Environments,   \* which of OtherWriters there may be beside the service
    MaxDeaths       \* how often the clean-up job is killed

\* Requests created for an item that has a warehouse already, the clean-up
\* job, and the order form.
OtherWriters == {"late", "cron", "form"}

ASSUME FulfillmentAssumption ==
    /\ OwnWarehouses \subseteq Warehouses
    /\ NoWarehouse \notin Warehouses
    /\ Environments \subseteq SUBSET OtherWriters
    /\ MaxDeaths \in Nat

Unassigned == [warehouse |-> NoWarehouse, direct |-> FALSE]

\* OrderItem.warehouseId and fulfillmentAssignment.assignmentSource.
Assignment == [warehouse : Warehouses, direct : BOOLEAN] \cup {Unassigned}

Statuses == {"NONE", "PENDING", "ACCEPTED", "REJECTED", "FULFILLED", "CANCELLED"}

VARIABLES
    request,    \* status of the item's request to each warehouse
    assigned,   \* the item's assignment
    fulfilled,  \* is the item in Order.fulfilledItems?
    others,     \* which other writers there are: chosen once
    expired,    \* requests made two days ago or earlier
    phase,      \* of the clean-up job
    picked,     \* requests its last query returned
    finishing,  \* requests whose order it has read and found the item fulfilled
    deaths,     \* how often it was killed
    form        \* the assignment in an open order form, or NoForm

requestVars == <<request, assigned, fulfilled, expired>>
cronVars == <<phase, picked, finishing, deaths>>
vars == <<request, assigned, fulfilled, others, expired, phase, picked, finishing,
          deaths, form>>

NoForm == [warehouse |-> NoWarehouse, direct |-> TRUE]

TypeOK ==
    /\ request \in [Warehouses -> Statuses]
    /\ assigned \in Assignment
    /\ fulfilled \in BOOLEAN
    /\ others \in Environments
    /\ expired \subseteq Warehouses
    /\ phase \in {"idle", "cancel", "query", "sync"}
    /\ picked \subseteq Warehouses
    /\ finishing \subseteq Warehouses
    /\ deaths \in 0..MaxDeaths
    /\ form \in Assignment \cup {NoForm}

Init ==
    /\ request = [w \in Warehouses |-> "NONE"]
    /\ assigned = Unassigned
    /\ fulfilled = FALSE
    /\ others \in Environments
    /\ expired = {}
    /\ phase = "idle"
    /\ picked = {}
    /\ finishing = {}
    /\ deaths = 0
    /\ form = NoForm

-----------------------------------------------------------------------------
(***************************************************************************)
(* Requests and assignments.                                               *)
(***************************************************************************)

\* processOrderCreatedFulfillment, createManualFulfillmentRequest: neither
\* looks at the item's assignment.
CreateRequest(w) ==
    /\ request[w] = "NONE"
    /\ ("late" \in others) \/ assigned = Unassigned
    /\ request' = [request EXCEPT ![w] = "PENDING"]
    /\ UNCHANGED <<assigned, fulfilled, others, expired, cronVars, form>>

\* Two days pass.
Expire(w) ==
    /\ request[w] # "NONE"
    /\ w \notin expired
    /\ expired' = expired \cup {w}
    /\ UNCHANGED <<request, assigned, fulfilled, others, cronVars, form>>

\* The pending requests, other than w's, once w has the item.
Withdrawn(w) == {v \in Warehouses \ {w} : request[v] = "PENDING"}

\* Mutant: the other warehouses' requests are left open.
Accept_LeaveOpen(w) ==
    /\ request[w] = "PENDING"
    /\ request' = [request EXCEPT ![w] = "ACCEPTED"]
    /\ assigned' = [warehouse |-> w, direct |-> FALSE]
    /\ UNCHANGED <<fulfilled, others, expired, cronVars, form>>

\* acceptFulfillmentRequest, for an order that exists and has the item.
Accept(w) ==
    /\ request[w] = "PENDING"
    /\ request' = [v \in Warehouses |-> IF v = w THEN "ACCEPTED"
                                        ELSE IF v \in Withdrawn(w) THEN "CANCELLED"
                                        ELSE request[v]]
    /\ assigned' = [warehouse |-> w, direct |-> FALSE]
    /\ UNCHANGED <<fulfilled, others, expired, cronVars, form>>

\* rejectFulfillmentRequest.
Reject(w) ==
    /\ request[w] = "PENDING"
    /\ request' = [request EXCEPT ![w] = "REJECTED"]
    /\ UNCHANGED <<assigned, fulfilled, others, expired, cronVars, form>>

\* assertDirectWarehouseAssignmentCanChange.
CanChangeDirectly ==
    /\ ~ fulfilled
    /\ assigned # Unassigned => assigned.direct

\* The request behind the assignment that is being replaced.
Previous(w) == {v \in Warehouses \ {w} : v = assigned.warehouse /\ request[v] # "NONE"}

\* Mutant: only the order is written, as it is in the order form.
Assign_OrderOnly(w) ==
    /\ CanChangeDirectly
    /\ request' = [v \in Warehouses |->
                     IF v \in Withdrawn(w) \cup Previous(w) THEN "CANCELLED" ELSE request[v]]
    /\ assigned' = [warehouse |-> w, direct |-> TRUE]
    /\ expired' = expired \ {w}
    /\ UNCHANGED <<fulfilled, others, cronVars, form>>

\* assignOrderItemWarehouse, with a warehouse: its request is written anew.
Assign(w) ==
    /\ CanChangeDirectly
    /\ request' = [v \in Warehouses |->
                     IF v = w THEN "ACCEPTED"
                     ELSE IF v \in Withdrawn(w) \cup Previous(w) THEN "CANCELLED"
                     ELSE request[v]]
    /\ assigned' = [warehouse |-> w, direct |-> TRUE]
    /\ expired' = expired \ {w}
    /\ UNCHANGED <<fulfilled, others, cronVars, form>>

\* assignOrderItemWarehouse, without one: pending requests stay.
Clear ==
    /\ CanChangeDirectly
    /\ request' = [v \in Warehouses |->
                     IF v \in Previous(NoWarehouse) THEN "CANCELLED" ELSE request[v]]
    /\ assigned' = Unassigned
    /\ UNCHANGED <<fulfilled, others, expired, cronVars, form>>

-----------------------------------------------------------------------------
(***************************************************************************)
(* The item's status.                                                      *)
(***************************************************************************)

\* updateItemFulfillment and updateItemInProgress of the production view, and
\* the order page for items without a warehouse: a write of the order only.
MarkItem(done) ==
    /\ fulfilled' = done
    /\ UNCHANGED <<request, assigned, others, expired, cronVars, form>>

\* updateFulfillmentItemStatus.  It reads the request of the assigned
\* warehouse after it has written the order, which a Firestore transaction
\* refuses: nothing is written then.
UpdateItemStatus(done) ==
    /\ done => assigned = Unassigned
    /\ fulfilled' = done
    /\ UNCHANGED <<request, assigned, others, expired, cronVars, form>>

-----------------------------------------------------------------------------
(***************************************************************************)
(* cleanupExpiredFulfillmentRequests.                                      *)
(***************************************************************************)

\* Mutant: the comparison with the threshold is the wrong way round.
CronQueryExpired_Recent ==
    /\ "cron" \in others
    /\ phase = "idle"
    /\ phase' = "cancel"
    /\ picked' = {w \in Warehouses \ expired : request[w] = "PENDING"}
    /\ UNCHANGED <<requestVars, others, finishing, deaths, form>>

CronQueryExpired ==
    /\ "cron" \in others
    /\ phase = "idle"
    /\ phase' = "cancel"
    /\ picked' = {w \in expired : request[w] = "PENDING"}
    /\ UNCHANGED <<requestVars, others, finishing, deaths, form>>

\* The batch is committed whatever has happened to the requests since.
CronCancel ==
    /\ phase = "cancel"
    /\ request' = [w \in Warehouses |-> IF w \in picked THEN "CANCELLED" ELSE request[w]]
    /\ picked' = {}
    /\ phase' = "query"
    /\ UNCHANGED <<assigned, fulfilled, others, expired, finishing, deaths, form>>

\* Mutant: requests that are pending are looked at instead.
CronQueryAccepted_Pending ==
    /\ phase = "query"
    /\ phase' = "sync"
    /\ picked' = {w \in Warehouses : request[w] = "PENDING"}
    /\ UNCHANGED <<requestVars, others, finishing, deaths, form>>

CronQueryAccepted ==
    /\ phase = "query"
    /\ phase' = "sync"
    /\ picked' = {w \in Warehouses : request[w] = "ACCEPTED"}
    /\ UNCHANGED <<requestVars, others, finishing, deaths, form>>

CronReadOrder(w) ==
    /\ phase = "sync"
    /\ w \in picked
    /\ picked' = picked \ {w}
    /\ finishing' = IF fulfilled THEN finishing \cup {w} ELSE finishing
    /\ UNCHANGED <<requestVars, others, phase, deaths, form>>

CronFinish(w) ==
    /\ w \in finishing
    /\ request' = [request EXCEPT ![w] = "FULFILLED"]
    /\ finishing' = finishing \ {w}
    /\ UNCHANGED <<assigned, fulfilled, others, expired, phase, picked, deaths, form>>

CronEnd ==
    /\ phase = "sync" /\ picked = {} /\ finishing = {}
    /\ phase' = "idle"
    /\ UNCHANGED <<requestVars, others, picked, finishing, deaths, form>>

\* The function is killed, after which only the next run of the job goes on.
CronDies ==
    /\ phase # "idle"
    /\ deaths < MaxDeaths
    /\ deaths' = deaths + 1
    /\ phase' = "idle"
    /\ picked' = {}
    /\ finishing' = {}
    /\ UNCHANGED <<requestVars, others, form>>

CronStep ==
    \/ CronQueryExpired \/ CronCancel \/ CronQueryAccepted \/ CronEnd
    \/ \E w \in Warehouses : CronReadOrder(w) \/ CronFinish(w)

-----------------------------------------------------------------------------
(***************************************************************************)
(* The order form (handleUpdateOrder of OrderForm.tsx).                    *)
(***************************************************************************)

FormOpen ==
    /\ "form" \in others
    /\ form = NoForm
    /\ form' = assigned
    /\ UNCHANGED <<requestVars, others, cronVars>>

\* The items are written as the form has them.
FormSave ==
    /\ form # NoForm
    /\ assigned' = form
    /\ form' = NoForm
    /\ UNCHANGED <<request, fulfilled, others, expired, cronVars>>

Next ==
    \/ \E w \in Warehouses : CreateRequest(w) \/ Expire(w) \/ Accept(w) \/ Reject(w)
    \/ \E w \in OwnWarehouses : Assign(w)
    \/ Clear
    \/ \E done \in BOOLEAN : MarkItem(done) \/ UpdateItemStatus(done)
    \/ CronStep
    \/ CronDies
    \/ FormOpen
    \/ FormSave

Spec == Init /\ [][Next]_vars

\* The scheduler starts the job again and again, and time passes; nobody has
\* to answer a request or to fulfil an item.
LiveSpec ==
    /\ Spec
    /\ WF_vars(CronStep)
    /\ \A w \in Warehouses : /\ WF_vars(Expire(w))
                             /\ WF_vars(CronReadOrder(w))
                             /\ WF_vars(CronFinish(w))

-----------------------------------------------------------------------------
(***************************************************************************)
(* Properties.                                                             *)
(***************************************************************************)

Won(w) == request[w] \in {"ACCEPTED", "FULFILLED"}

WinnerHasItem == \A w \in Warehouses : Won(w) <=> assigned.warehouse = w

\* The item's warehouse is the one whose request is accepted: no second
\* warehouse believes it has the item, however acceptances, rejections and
\* direct assignments race.  (Only while the service's transactions are alone:
\* each of the other writers breaks it.)
OneWinner ==
    others = {} => WinnerHasItem

\* Whoever the item is assigned to was asked or assigned through the service,
\* whatever the cron job and a stale order form write.
AssignedWasAsked ==
    assigned # Unassigned => request[assigned.warehouse] # "NONE"

\* "Only direct warehouse assignments can be changed manually" (service.ts,
\* and the test "does not manually change request-accepted assignments").
RequestAcceptedKept ==
    [][(assigned # Unassigned /\ ~ assigned.direct) =>
          (assigned' # Unassigned /\ ~ assigned'.direct)]_vars

\* A request nobody answers does not stay pending where the job runs.
PendingEnds ==
    \A w \in Warehouses :
        ("cron" \in others /\ request[w] = "PENDING") ~> (request[w] # "PENDING")

\* The request of an item that was made is marked so, unless the item is taken
\* back, where the job runs.
FulfilledIsSynced ==
    \A w \in Warehouses :
        ("cron" \in others /\ request[w] = "ACCEPTED" /\ fulfilled)
            ~> (request[w] # "ACCEPTED" \/ ~ fulfilled)
=============================================================================
