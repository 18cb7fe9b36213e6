# A TLA+ model of konfi

konfi is a shop and back office for print shops: a storefront (`apps/store`), a
dashboard with its server services (`apps/admin`), Firebase functions
(`apps/functions`), a desktop shell (`apps/desktop`) and shared packages. All of
it works on the same Firestore documents, and nearly everything that can go
wrong comes from that: a request, a webhook delivery, a cron job or a browser is
a process of its own, there may be many of each, and each may be cut off between
two calls.

The rule that decides what is one step of a model is the database's: a
`runTransaction` callback is atomic; a read followed by an update outside of a
transaction is two steps, with everyone else in between; a call to a provider
(Stripe, Meta) is a step whose answer may be lost.

Paths below are relative to `src/`.

## 1. The system's components

| Component | State it keeps | Operations | Talks to | What is hard |
|---|---|---|---|---|
| Payment refunds (`apps/admin/lib/payments/admin.ts`) | `paymentRefunds/<id>`: refunded amount, history of requests | validate, ask the provider, record, ledger entry, order status | Stripe; order; ledger | the money moves outside of any transaction; five steps that can each fail |
| Payment webhooks (`packages/payments/src/webhooks`) | `order.paymentStatus`, `paymentLedgerEntries` | one handler per event type of Stripe; the notification of Przelewy24 | the same order and ledger | late, repeated and reordered deliveries; decides on an order read earlier |
| Stock ledger (`apps/admin/lib/stock`) | `stock` (total, allocated), `inventoryMovements`, `inventoryReservations` | reserve, deduct, release, adjust | store checkout, fulfilment, order form | calls repeated and in any order, partly applied, lines with a shared product |
| Fulfilment (`apps/admin/lib/fulfillment/service.ts`) | `fulfillmentRequests` per warehouse, the item's assignment | create, accept, reject, assign, clear, item status, clean-up job | order form, production view | competing warehouses; a job and a form that write what they read earlier |
| Order numbers (`packages/firebase`) | `counters/orders`, `order.number` | allocate on the server, create in the dashboard, number a replacement | checkout, e-mail pipeline, complaints | three ways to compute a number, one query outside of its transaction |
| Store checkout (`apps/store/lib/orders`) | cart, order, customer, promotion | `createStoreOrder` | stock, numbers, store credit, quota, payment provider | long sequence of reads before the transaction, work after the answer |
| Store credit | `customer.storeCreditBalance`, `storeCreditTransactions` | redeem, issue, deduct, reverse, complaint, business-account drawer | checkout | one balance, five writers |
| Social publishing (`apps/admin/lib/social`, `lib/cron/social-publish`) | `socialPosts`: status, results per target | edit, schedule, cancel, delete; claim; workflow steps | Meta | durable steps that are retried; publishing cannot be undone |
| AI usage metering (`apps/admin/lib/ai/usage-metering.ts`) | used and reserved units per week, five hours and month; summaries | reserve, finalize, release | all AI features | calls that fail, are left or die between reserving and settling; windows that end meanwhile |
| Image generation (`apps/admin/lib/ai/image-generation`) | the job, its run, the account's monthly budget | start; book, generate, finalize, undo | metering; the model; storage | durable steps repeated after they had an effect; two reservations to settle |
| Inbound e-mail (`apps/admin/app/api/resend/inbound`, `lib/ai/inbound-email`) | `inboundEmails/<id>`: status, reason, run; its agent | receive, repair, start; mark, route, persist, reply, fail | Resend; metering; the model | messages delivered again; a route that dies half-way; a step that fails for good |
| SaaS quotas (`packages/firebase/src/saas-runtime-quotas.ts`) | the tenant's limits and usage | assert, record | every creating operation | checked before, recorded after |
| Complaints and RMA (`apps/admin/app/actions/complaints.ts`) | `rmaRequests`, resolution events | create, resolve (refund, credit, replacement) | payments, store credit, numbers | a transaction followed by a provider refund |
| Invoicing, shipping clients, search index, pricing, imposition, desktop, UI, e-mails, tenants | see `PROJECT.json` | | | mostly mappings, pure functions and rendering |

`PROJECT.json` has the same list with the source files, what is modelled of each
and why the rest is not, and under "hazards" every place where the code is
exposed to something a unit test would hardly reach, with the properties that
would notice.

## 2. Modules

Each component has a specification, an `MC` module with the definitions TLC
needs, and, where theorems are proved, a `Proofs` module that extends the
specification.

| Module | Models |
|---|---|
| `PaymentRefund` | one order paid through Stripe or Przelewy24: concurrent admin refunds, webhook deliveries, the provider |
| `StockLedger` | the stock documents of a channel, movements, reservations |
| `Fulfillment` | one order item: requests, assignment, clean-up job, order form |
| `OrderNumbers` | the four writers that number the orders of a channel |
| `SocialPublishing` | one post: staff, claim, workflow runs |
| `StoreCheckout` | one customer: checkouts, cart, promotion, and all writers of the credit |
| `CreditAccount` | the abstract credit account that `StoreCheckout` implements |
| `RefundAudit` | the abstract audit document that `PaymentRefund` implements |
| `AiUsageMetering` | one tenant's counters and the calls that are metered |
| `ImageGeneration` | the image jobs of one account and their workflow runs; extends the metering |
| `InboundEmail` | messages, webhook deliveries and workflow runs; extends the metering |
| `AiWorkflows` | the three together, over the same counters |
| `Sums` | no code: the facts about sums over finite sets that the proofs cite |

How state and actions correspond to the code:

- **PaymentRefund.** `call[a]` is an invocation of `requestAdminPaymentRefund`:
  its `pc` is the await it is at. `Validate` is the transaction of
  `validateRefundableOrder`; `ProviderAnswers`, `AnswerLost` and
  `ProviderDeclines` are the call to Stripe under the request's idempotency key;
  `SaveResult` is the transaction that counts the refund; then
  `WriteRefundLedger`, `MarkOrderRefunded`. `StoreThrows` leads to the catch
  block (`RecordFailure`) and `CallDies` to nothing. `hook[w]` is an invocation
  of `processStripeEvent`, or of the handler of a verified Przelewy24
  notification: `Receive` reads the order (`seen`), `LinkIntent`,
  `WriteEventLedger` and `ApplyStatus` write. `IntentProceeds`, `RefundSettles`
  and `RefundReversed` are the provider, modelled from the events and statuses
  the code handles. Definitions keep Stripe's names where both do the same;
  Przelewy24 announces nothing but a payment that succeeded. `HookFails` ends a
  handler at any of its writes, applied or not, with an answer that makes the
  provider repeat the event (`Redeliver`); `acknowledged` is that the success of the
  payment was answered with 200. Whether `charge.refunded` carries the refunds is a
  circumstance (`namesRefund`): the pinned API version (`env.ts:1`) leaves them out,
  so that `stripe.ts:91` makes the entry's key of the event, and the payloads of the
  tests have them.
- **StockLedger.** A *subject* is a stock document, of a product or of an
  attribute's option; a *line* is what one order item asks of one subject. Every
  function is one transaction and one action. A movement's id is made of kind,
  line and quantity, which makes repetition a no-op: `movements` is a set.
  `StoreCheckout` is the checkout's reservation, which uses the product's stock
  always and writes no movement.
- **Fulfillment.** Service functions are one action each. The clean-up job is
  `CronQueryExpired`, `CronCancel`, `CronQueryAccepted`, `CronReadOrder`,
  `CronFinish`, `CronEnd`, and `CronDies` when its invocation is killed; the order
  form is `FormOpen` and `FormSave`.
- **OrderNumbers.** `ServerCreate` is a server transaction (checkout, e-mail);
  `DashboardRead`, `DashboardCommit` and `DashboardRetry` are the client's
  optimistic transaction; `ReplacementCount` and `ReplacementCommit` the complaint.
- **SocialPublishing.** `Read` and `Write` are the two halves of `updatePost`,
  `setPostSchedule` and `cancelSchedule`; `Claim` is the transaction of
  `claimDuePosts`; the other actions of a run are the workflow's steps, cut where
  they read, call Meta and write. A step that throws is retried `MaxTries` times
  and then ends the run.
- **StoreCheckout.** `call[c]` is an invocation of `createStoreOrder`: `Submit`
  reads the cart, `Quote` the promotion and the customer, `CheckQuota` the order
  quota, `OpenSession` calls the payment provider, `Commit` or `Refuse` is the
  transaction and `DeletePromotion` the work after the answer; `Die` ends a call
  anywhere. `Adjust`, `Reverse`, `ResolveRma`, `DrawerRead` and `DrawerWrite`
  are the other writers of the credit.
- **AiUsageMetering.** `call[c]` is a metered call, its `pc` the await it is at:
  `Prepare` is the beginning of `reserveAiUsage`, where the mode is read and the
  keys of the periods are made, `Reserve` its transaction; `Answered` or
  `ProviderFails` the provider; `Merge`, `RecordEvent`, `Summarise` are
  `finalizeAiUsage`; `Release` is the release. Each write has a twin that throws,
  applied or not (`...Throws`), and `AfterThrow` says where the four ways to make
  a call go on after that. `StreamBreaks` is a stream whose provider fails or whose
  client leaves: `server-vertex.ts:332` returns it without awaiting it, so neither the
  catch block nor `onEnd` runs. `Vanish` is an invocation that is killed. `Tick` ends
  periods.
- **ImageGeneration.** `Launch`, `LaunchThrows`, `ActionDies` are the action after
  its reservation. `run[c]` is the workflow's run: `BookQuota` and `BookRefused`
  (the step before the `try` block), `Generate` and `GenerateFails`,
  `FinalizeCharge`, the finalization of the usage (the call's own steps, repeated
  from their beginning by `UsageThrows`), and the catch block `Undo` and the
  release. A step whose attempt threw, or whose result was lost, is tried
  `MaxTries` times (`Threw`, `Ends`).
- **InboundEmail.** `delivery[d]` is an invocation of the webhook's route: `Deliver`
  reads the record, `LoadContext` the channel and the admin, `Persist`, `Block`,
  `Claim` write, `Start` and `MarkStarted` begin the run. `mailRun[m]` is the run:
  `MarkProcessing`, `RouteBlocks` or `RouteAsks` with `RouteDecides`,
  `PersistManualCreate`, `Reply`, `MarkFailure`. The AI call of the n-th attempt
  to route message `m` is the call `<<m, n>>` of `AiUsageMetering`.

Some variables do not change after the initial states: `others` (in `Fulfillment`,
`StoreCheckout` and `SocialPublishing`) says which of the writers that ignore the
protocol exist, `setting` (in `PaymentRefund` and `AiUsageMetering`) also which
provider or which calls there are, which deliveries overlap, what payloads carry and
what may fail. One run so covers many circumstances, and a property can say under which
of them it holds.

## 3. Runs

| Run | Asks | Instance | Result |
|---|---|---|---|
| `refund` | Do concurrent refunds, with every failure, keep the audit, the ledger and the order's status true? Does every request get one outcome and every payment reach the order? | 2 admins, 2 requests of 1 or 2 out of 2, two webhook deliveries; Stripe or Przelewy24, one delivery at a time, with all faults and events that do not name the refund, or with the provider's faults and events that do; and Stripe with deliveries that overlap | holds |
| `stock_ledger` | Do movements explain both counts, whatever is repeated? | two lines of one product (one edited), one line that tracks paper | holds |
| `fulfil_requests` | Does exactly one warehouse have the item? Does the job finish what is left? | an own and a partner warehouse, all 8 combinations of other writers | holds |
| `fulfil_form` | "Only direct warehouse assignments can be changed manually" | the order form alone | **violated** |
| `numbers_counter` | Are the numbers that go through the counter distinct? | 2 legacy orders, 2 store, 2 dashboard, 2 replacement orders | holds |
| `numbers_replacement` | Are all numbers distinct? | one order of each kind | **violated** |
| `social_posts` | Is what is recorded as published really published? Is everything published once and settled truthfully where nothing overlaps or is lost? | two targets; one claim with all losses and with staff's calls in flight, or two claims undisturbed | holds |
| `social_overlap` | "acting as a double-publish guard" | one target, two runs | **violated** |
| `store_orders` | Do credit, cart, stock and quota survive overlapping checkouts and staff? | two calls, two items, all combinations of other writers and of two limits | holds |
| `store_promotion` | "can only be used once" | two calls | **violated** |
| `ai_workflows` | Do calls stay within the windows and jobs within the budget? Is everything counted, charged and started once, and does all that was begun end? | two calls, or one message delivered by two invocations; ten circumstances | holds |
| `mail_reply` | "marks the inbound email as failed when a workflow step throws" | one message, the reply cannot be sent | **violated** |

Deadlock is not checked, as every one of these systems may stop: all refunds were
asked for, every order is created, every call is answered, the post is deleted,
nobody sends another message. What must not stop is what the liveness properties
say.

### Why the bounds are enough

- *Two of each actor.* The code's conflicts are between pairs: two refunds, two
  warehouses, a claim and an edit, two checkouts. A third actor repeats the
  pattern; the theorems of section 5 do not bound the actors at all.
- *`MaxAttempts` 2, `Total` 2*: a full refund, two partial ones, a second one that
  does not fit, and a request that follows a failed one. A third request meets only
  what the second did, and the theorems bound neither.
- *`Quantities`, `MaxTotal` 2*: one line can be edited to another quantity, two
  lines of a product can exceed together what each does not exceed alone, and
  staff can lower the total below what is allocated.
- *`MaxDeaths` 1* bounds how often the clean-up job is killed. A death takes it
  back to its start, so a second one leads to nothing new; without a bound, and
  with a job killed for ever, no liveness property could hold.
- *`MaxTries` 1*: one retry and one exhausted step. More repeat.
- *`MaxEntries` 2* bounds what staff do to the credit: an issue and a deduction,
  or an issue and its reversal; redemptions and the complaint's credit come on
  top.
- *`Limit` 2 and 3, `Estimate` 2, `Actuals` {1}*: the five-hour window has room for
  one reservation, the week for one and a settled call and not for two, so either
  of the windows may refuse a call; and a call uses less than it reserved, so
  what is settled differs from what is given back.
- *`Budget` 3, `Price` 2, `Charges` {1}*: the same for the account, where two jobs
  fit one after the other and not at once. *`Periods` 2*: a window ends once while
  calls run; a later end finds them as the first did.
- *`MaxTries` 2, `StepTries` 2*: a step is repeated once, then fails for good.
- *The ten circumstances of `ai_workflows`* (`MCCircumstances`): two calls of
  one kind or of two, undisturbed and with each kind of fault they know;
  two image jobs at once, which compete for the budget, and one with all faults
  and modes; a message whose reply fails, whose route dies, and whose writes fail.
  Images and text share no counter, so no circumstance has an image job and a
  text call.
- *`NumberBound`*: a number is never more than the count of orders, so the range
  the dashboard chooses from leaves nothing out. This is proved, for any sets of
  orders (`RangeIsEnough`).

### Fairness, and why the code justifies it

- `refund`: an invocation that has started runs on (weak fairness of its steps); the
  platform ends it otherwise, which is the fault `crash`. `RequestSettles` is about the
  settings without `crash` and `store`. The provider delivers the success of a payment
  again and again until a handler has answered it with 200, and not after that (strong
  fairness of `Redeliver`, as a handler may be busy with another event); handlers may
  fail at each of their writes, though not for ever.
- `fulfil_requests`: the cron route is called by a scheduler again and again (weak
  fairness of the job's steps, while it is killed at most `MaxDeaths` times), and
  time passes (`Expire`). No warehouse and no member of staff has to do anything.
- `social_posts`: the workflow runtime goes on with each run. Staff and the
  scheduler of the claim are free to do nothing.
- `ai_workflows`: an invocation runs to its end and the runtime takes up every run
  again (weak fairness of a call or job as one process, of a message's run and of a
  delivery), in the circumstances in which nothing is killed, left or lost
  (`Reliable`); elsewhere nothing is assumed. The model may refuse, fail, break off a
  stream or take its time; nobody has to call, to deliver or to send anything.
- `store_orders`, `stock_ledger` and `numbers_counter` are about safety only.

## 4. What the checks show

Properties that hold, in words:

- *Refunds.* The audit document works as a lock: at most one refund is between
  validation and recording (`OneRefundInFlight`). It implements `RefundAudit`
  (`KeepsAudit`): amounts are asked for one after the other, each fits what is left, and
  is counted once or not at all, so the count never exceeds the order although it is
  added in a later transaction than the one that checked it. A refund is on record
  before Stripe is asked (`RefundHasRequest`), nothing is counted that Stripe did not do
  (`AuditBackedByStripe`), and the order is REFUNDED only after a full refund
  (`RefundedOnlyWhenFull`). The REFUND entries show no more than Stripe refunded, but
  for the entry of `charge.refunded`, which adds the total once, less the latest refund
  where the payload names it (`LedgerRefundsExplained`). A payment reaches the order
  although handlers fail (`PaymentArrives`).
- *Stock.* `total` is the adjustments less the consumptions and `allocated` is
  what the movements and the store's orders say, each counted once.
- *Fulfilment.* While only the service's transactions write, the item's warehouse
  is exactly the one whose request is accepted (`OneWinner`). With the others,
  at least whoever has the item was asked (`AssignedWasAsked`).
- *Numbers.* Orders that go through the counter never share a number, although
  the dashboard's query is not validated by its transaction: what it can miss is
  only ever below the counter.
- *Publishing.* Results and status never claim more than Meta has, even when they
  are written back from a stale copy.
- *AI usage.* What a window has reserved is what open calls reserved in it
  (`ReservedIsOpen`), and used and reserved units fit both text windows together
  (`TextWithinWindows`), although calls reserve and settle concurrently and in a
  period that may have ended. A settlement that is repeated is counted once in the
  summaries (`CountedOnce`). Where nothing is lost every reservation is settled, except
  that of a job the budget step refused and of a stream that broke off
  (`ReservationSettles`).
- *Images.* Whatever fails or is repeated, the account stays within its budget
  (`BudgetKept`), pays for a job once (`ChargedOnce`) and, where nothing is lost,
  gets back what a job booked (`BudgetFreed`).
- *E-mails.* A message gets one run at most, however its deliveries overlap and
  although a blocked one is repaired (`OneRunPerMail`), and, where nothing is lost,
  an outcome (`OutcomeReached`).
- *Checkout.* Credit is the sum of the entries that stand (`CreditConserved`), a
  resubmitted cart is not bought twice unless the calls overlap
  (`CartBoughtOnce`), an item added during a checkout stays (`CartKept`), and
  blocked stock is not oversold (`StockKept`). The whole implements
  `CreditAccount` (`KeepsAccount`).

Where a property has a condition, the condition is the boundary of what the code
guarantees: `OneWinner` fails with each of the other writers, `QuotaKept` and
`CartBoughtOnce` with overlapping checkouts, `CreditConserved` with the
business-account drawer, `GuardHolds` and `SettledIsTrue` where a call of staff
overlaps the claim or an answer is lost, `ReservedIsOpen` and
`TextWithinWindows` where a write throws although it was applied, `BudgetKept`
where a job costs more than its estimate, `EveryRefundRecorded` where a refund
is reversed or was made although its request failed, `LedgerRefundsExplained` where a
refund is reversed, and `SettledNotDowngraded` where a delivery that had read the order
before it was settled is still running. `PaymentArrives` is about deliveries one at a
time, or until the success is answered: after an overlapping delivery has written last,
nothing is delivered again. `QuotaKept` is also about orders that are counted: while a
count that the tenant document holds lags behind (`saas-runtime-quotas.ts:545`),
checkouts one after the other exceed the limit too. `Settles` and `OutcomeReached` leave
out routes that are killed after the claim, which nothing takes up.

### Findings

The five violated properties, with the shortest counterexample. For three of them
section 5 proves that nothing else breaks the property: `RequestKeptWithoutForm`
(1), `AllDiffer` (2), `RunsEndTruthfully` (5).

1. `fulfil_form`. The order form is opened, a warehouse accepts the item, the
   form is saved: `OrderForm.tsx:3411` writes the items it was opened with. The
   service and its test say that only direct assignments can be changed by hand.
2. `numbers_replacement`. The orders are counted (`complaints.ts:613`), the store
   creates an order, the replacement is stored with the number of that order. The
   comment of the counter's helper says it centralises the allocation.
3. `social_overlap`. Staff's `setPostSchedule` reads the post, the job claims it,
   the write makes it claimable again: it is published twice. The comment of
   `claimDuePosts` calls the claim a double-publish guard.
4. `store_promotion`. A call is killed after its transaction, before
   `deleteAppliedOneTimePromotions`: the next order is discounted too.
5. `mail_reply`. The reply step throws in all its attempts. The workflow returns
   its promise from the `try` block without awaiting it
   (`inbound-email/workflow.ts:96`), so the catch block that marks the message as
   failed does not run, and the run fails. The test that says it is marked
   (`workflow.test.ts:198`) lets an awaited step throw.

Observed while modelling, with no run, because no interleaving is needed to see
it or nothing in the repository says otherwise:

- `updateFulfillmentItemStatus` reads after it has written in one transaction
  (`service.ts:1361`), which Firestore refuses; the model has the refusal.
- The clean-up job cancels by a batch whatever its query found pending
  (`service.ts:1424`), also what was accepted meanwhile; so `OneWinner` is about
  the service alone.
- A publish that succeeded and was not recorded is repeated by the retry
  (`social-publish/steps.ts:119`); so `GuardHolds` is about undisturbed claims.
- `reserveStock` does not look at what is available. The comment at
  `stock-management-admin.ts:539` suggests it does; the test at
  `stock-management-admin.test.ts:168` expects that it does not.
- A refund whose answer was lost and that is tried again is made twice, under two
  idempotency keys (`payments/admin.ts:1155`): Stripe then refunds more than is
  counted. And a pending refund that Stripe reverses leaves the order as it is.
- Under the pinned API version `charge.refunded` has no refunds, so its ledger entry has
  the event's id (`stripe.ts:91`, `289`) and stands beside the entry of the admin's call:
  the ledger of an order that was refunded in the dashboard shows the refund twice.
- A handler decides on the order it read when it began (`stripe.ts:268`): a late event
  whose delivery overlaps the one that settles the order takes a completed order
  back, and the success, which was answered, is not delivered again. The test "does not downgrade completed orders on late %s events"
  (`stripe.test.ts:206`) delivers one event after the other; so
  `SettledNotDowngraded` leaves out deliveries that are still running.
- A notification of Przelewy24 that is repeated after a refund, or a late
  `payment_intent.succeeded` of Stripe, shows a refunded order as paid
  (`przelewy24.ts:164`, `stripe.ts:268`); so `SettledNotDowngraded` allows it.
- `runMeteredAiText` releases in its catch block what it has already finalized,
  when the event after the merge cannot be written (`usage-metering.ts:1809`); the
  window then has less reserved than is open.
- Images and videos are limited by what was used, not by what is reserved
  (`getMonthlyUsageForModality`): calls at once may exceed the month together.
- A job that the account's budget refuses keeps the tenant's reservation: the
  booking step is outside of the `try` block whose comment says that a reservation
  is always released (`image-generation/workflow.ts:34`). Nor does anything release that
  of a stream whose provider fails or whose client leaves, as the `try` block of
  `streamMeteredText` ends when the stream is returned (`server-vertex.ts:332`), or of an
  invocation that is killed.
- When the result of the booking step is lost at the end of a month, its repetition
  books in the new month as well, and only that booking is given back.
- A route that is killed between storing a message and starting its run leaves a
  message that the next delivery takes for a duplicate (`resend/inbound/route.ts:116`);
  so `OutcomeReached` is about circumstances without such a loss.
- A reply whose attempt throws after it was sent is sent again.
- The business-account drawer (`b2b-workflow-drawer.tsx:165`) may undo a
  redemption; `CreditAccount` has it as `Restore`.

## 5. What is proved

For every value of the constants that meets the module's assumption. All safety
invariants, action properties and refinements of the passing runs are theorems:

| Theorem | Says | Argument |
|---|---|---|
| `PaymentRefundProofs!TypeCorrect`, `RefundMutex`, `RefundRecorded`, `RefundBounded` | types, one refund in flight, every refund on record, a bounded count | `LockInv` |
| `OutcomesAreFinal`, `SettledStays` | a request's outcome is final; a settled order is not taken back | `HistoryInv`; types, step by step |
| `AuditIsKept`, `OpenWithinTotal` | `PaymentRefund` implements `RefundAudit`; counted and open amounts fit the order | refinement, `LockInv`; the invariant of `RefundAudit` |
| `AuditBacked`, `CompletedAreCounted` | no phantom refund; what the history shows as completed is counted | `MoneyInv` |
| `RefundsAreRecorded` | the history shows exactly what was refunded | `MoneyInv`, `HistoryInv`, `StoreInv` |
| `LedgerIsExplained` | REFUND entries show what Stripe refunded, and the event's entry once, whether the event names the refund or not | `EntryInv`, `MoneyInv` |
| `RefundedIsFull` | REFUNDED only after a full refund | `BackedInv` |
| `StockLedgerProofs!TypeCorrect`, `TotalIsExplained`, `AllocatedIsExplained` | types; both counts are the sums of what is recorded | `BooksInv` |
| `ActiveRecorded` | an active reservation has its movement | inductive with its type |
| `FulfillmentProofs!FulfillmentTypes`, `AskedBeforeAssigned`, `WinnerIsUnique` | types; who has the item was asked; one winner | `FulfillmentInv`, `WinnerInv` |
| `RequestKeptWithoutForm` | an assignment through a request stays, where the form does not write | `FormStaysClosed` |
| `OrderNumbersProofs!NumberTypes`, `CountedDiffer`, `CounterMonotone`, `AllDiffer` | types; distinct numbers; the counter never goes back; without replacements all numbers differ | `KeptInv` |
| `RangeIsEnough` | no number reaches the count of orders | `RangeInv` |
| `SocialPublishingProofs!SocialTypes`, `RecordedTruthfully`, `PublishedTruthfully` | types; results and status are true | `Evidence` |
| `GuardIsKept`, `SettledTruthfully` | published once, settled truthfully, where nothing overlaps or is lost | `AloneInv` |
| `AiWorkflowsProofs!AiTypes`, `OneRun` | types; one run per message | `OneRunInv` |
| `RunsEndTruthfully` | a completed run gave its message an outcome; a failed one marked it, where the reply and the writes work | `EndInv` |
| `ReservedAreOpen`, `WindowsHold` | reserved is what is open; the text windows hold | `Settled`, `TextFits` |
| `SummariesCount` | a summary counts the calls recorded in it, each once | `CountInv` |
| `BudgetHolds`, `JobsChargedOnce` | the account's budget holds, whatever fails; a job is charged once | `BudgetInv` |
| `StoreCheckoutProofs!CheckoutTypes`, `StockIsKept`, `ItemsBoughtOnce`, `CartIsKept` | types (no negative credit); no overselling; no item twice, none lost | `CartInv` |
| `QuotaIsKept` | the order limit, where checkouts do not overlap | `QuotaInv` |
| `AccountIsKept`, `LedgerIsChained` | `StoreCheckout` implements `CreditAccount`; its ledger is a chain that ends at the balance | refinement, `AccountInv` |
| `CreditIsConserved` | the balance is the sum of the entries that stand | `Conserved` |

The strengthenings, and why each is needed:

- `LockInv` ties the audit document to the calls: a call between validation and
  recording owns the latest request (`InFlightIsLatest`), that request is
  PROCESSING, and the amount the call carries still fits. A bounded count
  alone is not inductive, as the count is added long after it was checked. The
  refinement rests on it too: the amount that `RefundAudit` has open is that of the
  latest request while it is PROCESSING, and the call that ends it is the one that
  asked.
- `MoneyInv` says where the money is: the provider refunded the sum of the refunds that
  stand; what is counted is no more than the refunds that succeeded and whose answer is
  not about to be saved, and no less than what the history shows as completed. The
  refund whose answer is awaited or in hand is in no sum but the first, so that saving
  it cannot count it twice. A reversal takes a pending refund, which was not counted;
  hence the theorem needs no exception for it.
- `HistoryInv` and `StoreInv` say what an entry of the history knows: its amount is the
  call's, an entry that says COMPLETED or PENDING has a refund behind it, and, while the
  store works, each refund has such an entry, a failed one, or a call that is about to
  write it. Without the last part a call that has finished could have left nothing.
- `EntryInv` bounds each entry by itself (`EntryLimit`): that of a request by what the
  provider refunded for it, or by the total once the event names it, and that of the
  event, which is there only after the event, by the total. The sum of the limits is what
  the theorem allows.
- `BackedInv` adds what the calls know of the provider: the count a call is about to
  write is the present one plus its refund, which has been made, and a
  delivered `charge.refunded` means that the charge was refunded in full. Because a
  reversal destroys this, the invariant is `BackedInv \/ SomeReversed`, and
  `ReversedStays` shows that the second disjunct is stable.
- `BooksInv` has the types, with a finite set of movements and of the store's orders, and
  both equations at once: a deduction lowers both counts by the operations that have
  no movement yet, and these are the ones whose movements it adds, so both sums grow
  by the same. A repeated call adds no movement and moves no count.
- `FulfillmentInv` remembers that what the job, the form or the item holds was
  asked for once (`Remembered`): the stale writers write back only such values.
  `AloneInv` adds, for the case that nobody else writes, that no request is
  pending once the item is assigned; without it a second acceptance would follow.
- `KeptInv` says that the counter is above every number it stands for, that a
  dashboard invocation has computed a number not below the counter it read, and
  that the seed is above the legacy numbers. `RangeInv` bounds the same values by the
  count of orders; a transaction that is running has created no order yet.
- `Evidence` carries the truth through the copies: what a run is about to record
  as published is visible, and so is all that a stale copy says is published.
- `AloneInv` (of publishing) is the history of an undisturbed claim: one run has begun,
  the status keeps everybody else away, a target Meta has the post at is recorded as
  published or is about to be (`Noted`), and the target a run is at has not got it. What
  the run read still stands when it writes, which is where an overlap would break it.
- `CartInv` relates carts and calls: what a placed call bought has left the cart,
  and of the calls that do not overlap only one is between reading and committing.
  `QuotaInv` adds that a checkout that has passed the check still finds room.
- `AccountInv` says that every balance there was is one the ledger knows, which
  makes the drawer's write a `Restore`. `Conserved` says, where there is no drawer, that
  the balance is the `Tally` of the entries that stand: a reversal takes one entry out
  of the sum and is itself not in it.
- `OneRunInv` says that while an invocation decides on a message, the message is in
  the state in which no other may, and that a run that was started left it so.
  `EndInv` follows the run of such a message: it is on the record from the first step
  on, so that the webhook no longer touches the status, and the status is an outcome
  from the step before the reply on.
- `Settled` says where each call is with its settlement: before the reservation
  nothing is held, while it runs or settles it holds just what it enforces, and the
  call of an image job waits while its run is before the finalization. From it one
  step opens or closes one reservation, which is what `ReservedIsOpen` and
  `TextFits` (used and reserved, without the open calls) need.
- `CountInv` says that a call of which nothing is recorded yet may still learn its usage
  and no other: a recorded call keeps its units and its period, so its share of the
  summary stands.
- `BudgetInv` adds to the budget what is given back: a run knows the month its job
  is booked in, and a month has booked at least the price of each job that is not
  finalized (`BookedCovers`), as a finalization that gave back less than was booked
  for it could take a month with its charge beyond the budget. It also says that a
  job that has a charge is finalized, which `JobsChargedOnce` needs to see a repeated
  finalization as one that does nothing.

Sums. Stock, money, credit, summaries and charges are sums over sets of entries, which
the community module `Functions` defines by recursion over subsets. What such a
definition computes is usually shown by induction on the set, which is out of the
prover's reach here. `Sums` argues from a smallest counterexample instead: strict
inclusion of finite sets is well founded, so a non-empty set of subsets that violate a
fact has a smallest member, and the definition's equation refutes it. From this follow
what the proofs cite: the sum of a set with one more element, that sums of equal values
are equal, that they are not negative, and that they grow with the set and its values.

Theorems with no run of their own, as no instance is needed where the proof covers all:
`RefundBounded`, `OpenWithinTotal`, `CounterMonotone`, `AllDiffer`, `RangeIsEnough`,
`RequestKeptWithoutForm`, `PublishedTruthfully`, `RunsEndTruthfully`,
`LedgerIsChained`, and the theorems about types except those of `StockLedger`.

Checked by TLC only: liveness (`RequestSettles`, `PaymentArrives`, `PendingEnds`,
`FulfilledIsSynced`, `Settles`, `ReservationSettles`, `BudgetFreed`,
`OutcomeReached`). Each rests on fairness, which is stated with ENABLED, and the prover
has no rules for it. Nor is it proved that the five violated properties are violated: the
runs show it.

## 6. What is abstracted

- Money is a small number of units; taxes, currencies, delivery and rounding are
  left out. An item costs one and the promotion takes one off.
- One order, item, post, customer at a time, where they do not interact.
- Authorisation and tenant scoping come before every operation; models start
  after they passed.
- Texts, files, notifications, logging and audit trails without a reader.
- `StoreCheckout` counts the orders, as the code does when the tenant document holds no
  count; the stored count, which the code prefers, is left out. `Quote` reads the
  customer and the promotion in one step.
- `Fulfillment` is about an order that exists and has the item: the branches of a missing
  order or item (`service.ts:1179`, `1464`) are left out, and the marks of items that are
  in progress, picked up or delivered with the checks that look at them.
- Units of AI usage stand for tokens, images and videos; the plan's limits, modules
  and models are inputs, and staff who change them are left out. All image jobs are
  of one account.
- The routing step's second call of the model, with the customer's recent orders,
  is left out: it meters like the first. So is `creation.ts`, which can create an
  order or a quote from a message and is not called by the workflow.
- The direct image action is a metered call of kind `media`; its own use of the
  account's budget, and videos, are left out.
- An image workflow that `start` reports as failed has no run (`LaunchThrows`).
- `Fulfillment` and `StockLedger` are not composed, so the deduction that follows an
  item's status and may fail alone (`service.ts:1383`) is in neither. It is one of the
  hazards of `PROJECT.json` without a property; its note says why, and so do those of the
  hazards that the code does not guard against.
- Manual marks of a settlement, complaints' refunds, and the other resources of the
  SaaS quotas are left out.
- A checkout that creates the customer document, test orders and administrators'
  checkouts are left out.

## 7. What is left

In this order:

1. A composition of `Fulfillment` and `StockLedger`, with the deduction after an
   item's status and its failure.
2. The refund of a complaint (`complaints.ts`) on `PaymentRefund`, with the
   resolution event that is written before the provider is asked, and the marks of
   a manual settlement.
3. The account's budget of the direct image action and of videos, in
   `ImageGeneration`.
4. The other resources of the SaaS quotas, with the recorded events.
5. The creation of orders from messages, once the workflow calls it, composed with
   `OrderNumbers`.
6. Abstract specifications of fulfilment (one item, one holder), of publishing (one
   post per target) and of the metering (a window that is booked and settled), as
   `CreditAccount` and `RefundAudit` are for theirs, with proofs of refinement.

Not modelled, because a model of them would say nothing a test does not: the
mappings of invoices, shipping and search, prices, imposition, the desktop shell,
e-mail templates and the user interface. Authorisation precedes every operation.
