------------------------------- MODULE Billing --------------------------------
(***************************************************************************)
(* Payments of one workspace: Stripe's events against the subscription, the *)
(* invoices and the donations (api routes/modules/stripe-webhooks.ts,      *)
(* admin.ts, donations.ts, lib/provisioning.ts).                           *)
(*                                                                         *)
(* Stripe delivers an event until it is acknowledged, perhaps again after  *)
(* that, in no particular order and to any number of handlers at once; and *)
(* the browser that comes back from a checkout confirms it as well.  A     *)
(* handler reads the subscription and writes it in a transaction that does *)
(* not lock what it read (MySQL, repeatable read).                         *)
(***************************************************************************)
EXTENDS Naturals, Sequences, FiniteSets

CONSTANTS
  Checkouts,  \* checkout sessions of Stripe
  Handlers,   \* webhook deliveries and confirmations handled at once
  MaxRaces,   \* bound: how many races in one behaviour
  Races       \* which of the races below may happen

\* What can come between a payment and what it is for.
\* "boughtBeforeAccount": the account, with its free subscription, is made after
\*   the checkout was opened.
\* "openedEarlier": a checkout is paid after another one that was opened later,
\*   or after an administrator assigned a plan in the meantime.
\* "concurrent": two handlers are past their reads at once.
\* "reordered": an event is handled before an earlier one of its checkout.
\* "redelivered": an event that was acknowledged is delivered again.
\* "reconfirmed": a browser confirms a checkout that has been refunded.
\* "assignedOver": an administrator assigns a plan over a purchase.
AllRaces == {"boughtBeforeAccount", "openedEarlier", "concurrent", "reordered",
             "redelivered", "reconfirmed", "assignedOver"}

ASSUME RacesAssumption == Races \subseteq AllRaces /\ MaxRaces \in Nat
ASSUME CheckoutsAssumption == Checkouts \cap {"free", "admin", "none"} = {}

VARIABLES
  kind,      \* metadata.kind of each checkout, fixed from the start
  freePlan,  \* a plan is flagged isFree, fixed from the start
  stripe,    \* Stripe's state of each checkout
  due,       \* Stripe's events: those of each checkout that are not acknowledged
  done,      \* those acknowledged
  account,   \* the buyer's account and workspace exist
  rows,      \* the workspace's Subscription rows, oldest first
  invoice,   \* the Invoice of each checkout, and the row it names
  donation,  \* the Donation of each checkout
  linked,    \* its providerPaymentId is known
  job,       \* what each handler has read
  clock,     \* history: when what happened
  raced      \* history: the races so far

stripeVars == <<stripe, due, done>>
tables == <<account, rows, invoice, donation, linked>>
vars == <<kind, freePlan, stripeVars, tables, job, clock, raced>>

Packages == {p \in Checkouts : kind[p] = "package"}
Donations == Checkouts \ Packages
PaidEvents == {"completedPaid", "asyncPaid"}
FailedEvents == {"completedUnpaid", "asyncFailed", "expired"}
Events == PaidEvents \cup FailedEvents \cup {"refunded"}
Idle == [stage |-> "idle"]

\* The order in which the events of a checkout happen.
Turn(event) ==
  CASE event \in {"completedPaid", "completedUnpaid", "expired"} -> 1
    [] event \in {"asyncPaid", "asyncFailed"} -> 2
    [] OTHER -> 3

TypeOK ==
  /\ kind \in [Checkouts -> {"package", "donation"}]
  /\ stripe \in [Checkouts -> {"none", "open", "processing", "paid", "failed", "expired", "refunded"}]
  /\ due \in [Checkouts -> SUBSET Events] /\ done \in [Checkouts -> SUBSET Events]
  /\ \A i \in DOMAIN rows :
       /\ rows[i].source \in {"free", "admin"} \cup Packages
       /\ rows[i].status \in {"ACTIVE", "CANCELED"}
       /\ rows[i].payment \in {"none"} \cup Packages
       /\ rows[i].source = "free" => rows[i].status = "ACTIVE"
  /\ rows # <<>> => account
  /\ \A p \in Checkouts : invoice[p].status # "none" =>
       p \in Packages /\ stripe[p] \in {"paid", "refunded"} /\ invoice[p].row \in DOMAIN rows
  /\ donation \in [Checkouts -> {"none", "PENDING", "PAID", "FAILED", "REFUNDED"}]
  /\ raced \subseteq Races

-----------------------------------------------------------------------------
(* Helpers.  A definition named ...Bug is a plausible mistake in the one     *)
(* after it, kept to show that the properties notice it.                     *)

\* The step is each of the races xs: they must be allowed, and are noted.
Note(xs) ==
  /\ raced' = raced \cup xs
  /\ raced' \subseteq Races /\ Cardinality(raced') <= MaxRaces

\* Something happens that others are compared with.
Tick(what) == clock' = [clock EXCEPT !.now = @ + 1, !.at = [@ EXCEPT ![what] = clock.now]]
At(what) == clock.at[what]
Opened(p) == clock.opened[p]

Busy == {h \in Handlers : job[h] # Idle}
Concurrent == {x \in {"concurrent"} : Busy # {}}

\* findFirst, orderBy createdAt desc.
Newest == Len(rows)

\* What applyPackageCheckout decides from the row it finds: a row whose period
\* starts later than the checkout was opened is kept.  The code compares Stripe's
\* whole seconds (session.created) with its own milliseconds, and two openings of
\* one second are equal to it; on the model's one clock no two moments are.
DecisionBug(p) == IF rows = <<>> THEN "create" ELSE "update"
Decision(p) ==
  CASE rows = <<>> -> "create"
    [] rows # <<>> /\ rows[Newest].start > Opened(p) -> "keep"
    [] OTHER -> "update"

Bought(p) == [source |-> p, status |-> "ACTIVE", start |-> Opened(p), payment |-> p]

\* Whether a refund cancels the subscription: it is still the one it paid for.
PaysForBug(p) == TRUE
PaysForNeverBug(p) == FALSE
PaysFor(p) == rows[invoice[p].row].payment = p

\* applyDonationCheckout.
DonationStatusBug(event) == IF event = "expired" THEN "FAILED" ELSE "PAID"
DonationStatus(event) == IF event \in PaidEvents THEN "PAID" ELSE "FAILED"

\* An event is acknowledged once: a delivery again changes nothing.
Acknowledge(p, event) ==
  /\ due' = [due EXCEPT ![p] = @ \ {event}]
  /\ done' = [done EXCEPT ![p] = @ \cup {event}]

-----------------------------------------------------------------------------
\* The two kinds share no row, so that all checkouts are of one.
Init ==
  /\ \E k \in {"package", "donation"} : kind = [p \in Checkouts |-> k]
  /\ freePlan \in BOOLEAN
  /\ stripe = [p \in Checkouts |-> "none"]
  /\ due = [p \in Checkouts |-> {}] /\ done = [p \in Checkouts |-> {}]
  /\ account = FALSE /\ rows = <<>>
  /\ invoice = [p \in Checkouts |-> [status |-> "none", row |-> 0]]
  /\ donation = [p \in Checkouts |-> "none"] /\ linked = [p \in Checkouts |-> FALSE]
  /\ job = [h \in Handlers |-> Idle]
  /\ clock = [now |-> 1, opened |-> [p \in Checkouts |-> 0],
              at |-> [x \in Checkouts \cup {"free", "admin"} |-> 0]]
  /\ raced = {}

(* The account, and plans given without a payment.                           *)

\* Registration, and ensureFreeSubscription.
SignUp ==
  /\ ~account /\ account' = TRUE
  /\ rows' = IF freePlan
             THEN <<[source |-> "free", status |-> "ACTIVE", start |-> clock.now, payment |-> "none"]>>
             ELSE <<>>
  /\ IF freePlan THEN Tick("free") ELSE UNCHANGED clock
  /\ IF freePlan /\ \E p \in Packages : stripe[p] # "none"
     THEN Note({"boughtBeforeAccount"}) ELSE UNCHANGED raced
  /\ UNCHANGED <<kind, freePlan, stripeVars, invoice, donation, linked, job>>

\* PATCH /admin/users/:userId/plan, once: a row it finds keeps its payment.  Its
\* read and its write are two statements without a transaction, one step here:
\* "concurrent" notes the handlers past their read, not those that begin and end
\* between the two.
AssignPlan ==
  /\ account /\ At("admin") = 0
  /\ rows' = IF rows = <<>>
             THEN <<[source |-> "admin", status |-> "ACTIVE", start |-> clock.now, payment |-> "none"]>>
             ELSE [rows EXCEPT ![Newest].source = "admin", ![Newest].status = "ACTIVE",
                               ![Newest].start = clock.now]
  /\ Tick("admin")
  /\ Note(Concurrent \cup {x \in {"assignedOver"} : rows # <<>> /\ rows[Newest].payment # "none"})
  /\ UNCHANGED <<kind, freePlan, stripeVars, account, invoice, donation, linked, job>>

(* Stripe.                                                                   *)

Happens(p, to, events) ==
  /\ stripe' = [stripe EXCEPT ![p] = to]
  /\ due' = [due EXCEPT ![p] = @ \cup events]
  /\ UNCHANGED <<kind, freePlan, done, account, rows, invoice, linked, job>>

\* POST /checkout, /me/checkout or /donations/checkout.
OpenCheckout(p) ==
  /\ stripe[p] = "none" /\ donation[p] = "none"
  /\ Happens(p, "open", {})
  /\ donation' = [donation EXCEPT ![p] = IF p \in Donations THEN "PENDING" ELSE "none"]
  /\ clock' = [clock EXCEPT !.now = @ + 1, !.opened = [@ EXCEPT ![p] = clock.now]]
  /\ UNCHANGED raced

\* The donation's row was written, but Stripe opens no checkout for it.
CheckoutCannotStart(p) ==
  /\ stripe[p] = "none" /\ p \in Donations /\ donation[p] = "none"
  /\ donation' = [donation EXCEPT ![p] = "FAILED"]
  /\ UNCHANGED <<kind, freePlan, stripeVars, account, rows, invoice, linked, job, clock, raced>>

\* The money arrives, at once or after the bank's answer.
Overtaken(p) ==
  \/ At("admin") > Opened(p)
  \/ \E q \in Packages \ {p} : Opened(q) > Opened(p) /\ At(q) # 0
Pay(p) ==
  /\ \/ stripe[p] = "open" /\ Happens(p, "paid", {"completedPaid"})
     \/ stripe[p] = "processing" /\ Happens(p, "paid", {"asyncPaid"})
  /\ Tick(p)
  /\ IF p \in Packages /\ Overtaken(p) THEN Note({"openedEarlier"}) ELSE UNCHANGED raced
  /\ UNCHANGED donation

DoNotPay(p) ==
  /\ \/ stripe[p] = "open" /\ Happens(p, "processing", {"completedUnpaid"})
     \/ stripe[p] = "processing" /\ Happens(p, "failed", {"asyncFailed"})
     \/ stripe[p] = "open" /\ Happens(p, "expired", {"expired"})
  /\ UNCHANGED <<donation, clock, raced>>

Refund(p) ==
  /\ stripe[p] = "paid" /\ Happens(p, "refunded", {"refunded"})
  /\ UNCHANGED <<donation, clock, raced>>

\* A delivery of an event: the oldest that is due, or a race.
Delivery(p, event) ==
  IF event \in due[p]
  THEN {x \in {"reordered"} : \E e \in due[p] : Turn(e) < Turn(event)}
  ELSE {x \in {"redelivered"} : TRUE}
Delivered(p) == due[p] \cup done[p]

(* Donations: one update, whatever the status was.                           *)

DonationEvent(p, event) ==
  /\ p \in Donations /\ event \in Delivered(p) \ {"refunded"}
  /\ donation' = [donation EXCEPT ![p] = DonationStatus(event)]
  /\ linked' = [linked EXCEPT ![p] = @ \/ event # "expired"]
  /\ Acknowledge(p, event) /\ Note(Delivery(p, event))
  /\ UNCHANGED <<kind, freePlan, stripe, account, rows, invoice, job, clock>>

\* A refund is looked up by the payment it is of.
DonationRefund(p) ==
  /\ p \in Donations /\ "refunded" \in Delivered(p)
  /\ donation' = IF linked[p] THEN [donation EXCEPT ![p] = "REFUNDED"] ELSE donation
  /\ Acknowledge(p, "refunded") /\ Note(Delivery(p, "refunded"))
  /\ UNCHANGED <<kind, freePlan, stripe, account, rows, invoice, linked, job, clock>>

\* POST /payments/stripe/confirm: to Stripe a refunded checkout is a paid one.
Reconfirmed(p) == {x \in {"reconfirmed"} : stripe[p] = "refunded"}
ConfirmDonation(p) ==
  /\ p \in Donations /\ stripe[p] \in {"paid", "refunded"}
  /\ donation' = [donation EXCEPT ![p] = "PAID"]
  /\ linked' = [linked EXCEPT ![p] = TRUE]
  /\ Note(Reconfirmed(p))
  /\ UNCHANGED <<kind, freePlan, stripeVars, account, rows, invoice, job, clock>>

(* Packages: an event that says nothing was paid is acknowledged, and one of *)
(* a buyer without an account is refused until Stripe tries again.           *)

IgnoreEvent(p, event) ==
  /\ p \in Packages /\ event \in due[p] \cap FailedEvents
  /\ Acknowledge(p, event) /\ Note(Delivery(p, event))
  /\ UNCHANGED <<kind, freePlan, stripe, tables, job, clock>>

Begin(h, p, event) ==
  /\ job[h] = Idle /\ account
  /\ job' = [job EXCEPT ![h] = [stage |-> "apply", checkout |-> p, event |-> event,
                                decision |-> Decision(p), row |-> Newest]]
  /\ UNCHANGED <<kind, freePlan, stripeVars, tables, clock>>

BeginPackage(h, p, event) ==
  /\ p \in Packages /\ event \in Delivered(p) \cap PaidEvents
  /\ Begin(h, p, event) /\ Note(Concurrent \cup Delivery(p, event))
ConfirmPackage(h, p) ==
  /\ p \in Packages /\ stripe[p] \in {"paid", "refunded"}
  /\ Begin(h, p, "confirm") /\ Note(Concurrent \cup Reconfirmed(p))

\* The transaction: the subscription as decided, and the invoice.
CommitPackage(h) ==
  /\ job[h].stage = "apply"
  /\ LET p == job[h].checkout
         row == IF job[h].decision = "create" THEN Len(rows) + 1 ELSE job[h].row
     IN  /\ rows' = CASE job[h].decision = "create" -> Append(rows, Bought(p))
                      [] job[h].decision = "update" -> [rows EXCEPT ![row] = Bought(p)]
                      [] OTHER -> rows
         /\ invoice' = [invoice EXCEPT ![p] = [status |-> "paid", row |-> row]]
         /\ IF job[h].event = "confirm" THEN UNCHANGED <<due, done>>
                                        ELSE Acknowledge(p, job[h].event)
  /\ job' = [job EXCEPT ![h] = Idle]
  /\ UNCHANGED <<kind, freePlan, stripe, account, donation, linked, clock, raced>>

\* It rolls back, or the API restarts: no acknowledgement.
Abandon(h) ==
  /\ job[h] # Idle
  /\ job' = [job EXCEPT ![h] = Idle]
  /\ UNCHANGED <<kind, freePlan, stripeVars, tables, clock, raced>>

\* charge.refunded without an invoice is acknowledged, and changes nothing.
RefundNothing(p) ==
  /\ p \in Packages /\ "refunded" \in Delivered(p) /\ invoice[p].status = "none"
  /\ Acknowledge(p, "refunded") /\ Note(Concurrent \cup Delivery(p, "refunded"))
  /\ UNCHANGED <<kind, freePlan, stripe, tables, job, clock>>

BeginRefund(h, p) ==
  /\ p \in Packages /\ "refunded" \in Delivered(p) /\ invoice[p].status # "none"
  /\ job[h] = Idle
  /\ job' = [job EXCEPT ![h] = [stage |-> "refund", checkout |-> p, row |-> invoice[p].row,
                                cancel |-> PaysFor(p)]]
  /\ Note(Concurrent \cup Delivery(p, "refunded"))
  /\ UNCHANGED <<kind, freePlan, stripeVars, tables, clock>>

CommitRefund(h) ==
  /\ job[h].stage = "refund"
  /\ LET p == job[h].checkout
     IN  /\ invoice' = [invoice EXCEPT ![p].status = "refunded"]
         /\ rows' = IF job[h].cancel THEN [rows EXCEPT ![job[h].row].status = "CANCELED"] ELSE rows
         /\ Acknowledge(p, "refunded")
  /\ job' = [job EXCEPT ![h] = Idle]
  /\ UNCHANGED <<kind, freePlan, stripe, account, donation, linked, clock, raced>>

-----------------------------------------------------------------------------
Next ==
  \/ SignUp \/ AssignPlan
  \/ \E p \in Checkouts :
       \/ OpenCheckout(p) \/ CheckoutCannotStart(p) \/ Pay(p) \/ DoNotPay(p) \/ Refund(p)
       \/ DonationRefund(p) \/ ConfirmDonation(p) \/ RefundNothing(p)
       \/ \E event \in Events : DonationEvent(p, event) \/ IgnoreEvent(p, event)
       \/ \E h \in Handlers :
            \/ ConfirmPackage(h, p) \/ BeginRefund(h, p)
            \/ \E event \in Events : BeginPackage(h, p, event)
  \/ \E h \in Handlers : CommitPackage(h) \/ CommitRefund(h) \/ Abandon(h)

Spec == Init /\ [][Next]_vars

-----------------------------------------------------------------------------
(* Properties                                                                *)

Booked == {p \in Packages : invoice[p].status # "none"}
Given == Booked \cup {x \in {"free", "admin"} : At(x) # 0}

\* What was paid for, or given, last is what the workspace has.
Latest(x) == \A y \in Given : At(y) <= At(x)
LatestWins == rows # <<>> => Latest(rows[Newest].source)

\* stripe-webhooks.ts: events may come late, again and in any order, and the
\* newest purchase or assignment still wins, but for: a subscription that starts
\* after a purchase was begun, by the account's creation, another purchase or an
\* administrator; and two handlers that decide from the same row.
LatestWinsUnlessRaced ==
  LatestWins \/ raced \cap {"boughtBeforeAccount", "openedEarlier", "concurrent"} # {}

\* A refund that was acknowledged has ended the plan it had paid for, but for: a
\* refund that comes before its purchase; and a purchase that is applied again
\* after it, by an event delivered twice, a browser or a slow handler.
RefundEndsPlan ==
  \A i \in DOMAIN rows : \A p \in Packages :
    rows[i].source = p /\ rows[i].status = "ACTIVE" /\ "refunded" \in done[p] =>
      raced \cap {"reordered", "redelivered", "reconfirmed", "concurrent"} # {}

\* Only the refund of what gave a plan ends it, but for: a plan an administrator
\* gave a workspace that had bought another, which keeps the payment's name; and
\* a refund that has read the row before it changed.
OnlyItsRefundEndsPlan ==
  \A i \in DOMAIN rows : rows[i].status = "CANCELED" =>
    \/ rows[i].source \in Packages /\ stripe[rows[i].source] = "refunded"
    \/ raced \cap {"assignedOver", "concurrent"} # {}

\* stripe-webhooks.ts: a refund ends the plan it had paid for, and no other.
RefundEndsItsPlanUnlessRaced == RefundEndsPlan /\ OnlyItsRefundEndsPlan

\* A donation's row ends as the payment did, once every event was acknowledged,
\* but for events handled out of order or again, and a confirmation after a refund.
Told(p) ==
  /\ stripe[p] = "paid" => donation[p] = "PAID"
  /\ stripe[p] = "refunded" => donation[p] = "REFUNDED"
  /\ stripe[p] \in {"failed", "expired"} => donation[p] = "FAILED"
DonationTellsUnlessRaced ==
  \A p \in Donations : due[p] = {} =>
    Told(p) \/ raced \cap {"reordered", "redelivered", "reconfirmed"} # {}
=============================================================================
