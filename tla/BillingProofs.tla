---------------------------- MODULE BillingProofs -----------------------------
(***************************************************************************)
(* Theorems about Billing, for any checkouts and handlers, any number of   *)
(* races and any set of them.                                              *)
(***************************************************************************)
EXTENDS Billing, TLAPS, SequenceTheorems

Row == [source : {"free", "admin"} \cup Checkouts, status : {"ACTIVE", "CANCELED"},
        start : Nat, payment : {"none"} \cup Checkouts]
Purchase == [stage : {"apply"}, checkout : Checkouts, event : PaidEvents \cup {"confirm"},
             decision : {"create", "update", "keep"}, row : Nat]
Return == [stage : {"refund"}, checkout : Checkouts, row : Nat, cancel : BOOLEAN]
Clock == [now : Nat, opened : [Checkouts -> Nat], at : [Checkouts \cup {"free", "admin"} -> Nat]]

Types ==
  /\ kind \in [Checkouts -> {"package", "donation"}]
  /\ stripe \in [Checkouts -> {"none", "open", "processing", "paid", "failed", "expired", "refunded"}]
  /\ due \in [Checkouts -> SUBSET Events] /\ done \in [Checkouts -> SUBSET Events]
  /\ account \in BOOLEAN /\ rows \in Seq(Row)
  /\ invoice \in [Checkouts -> [status : {"none", "paid", "refunded"}, row : Nat]]
  /\ donation \in [Checkouts -> {"none", "PENDING", "PAID", "FAILED", "REFUNDED"}]
  /\ linked \in [Checkouts -> BOOLEAN]
  /\ job \in [Handlers -> {Idle} \cup Purchase \cup Return]
  /\ clock \in Clock
  /\ raced \subseteq Races

\* Stripe's events of a checkout tell its state.
Story(p) ==
  /\ due[p] \cap done[p] = {}
  /\ stripe[p] \in {"none", "open"} => Delivered(p) = {}
  /\ stripe[p] = "processing" => Delivered(p) = {"completedUnpaid"}
  /\ stripe[p] = "paid" => Delivered(p) \in {{"completedPaid"}, {"completedUnpaid", "asyncPaid"}}
  /\ stripe[p] = "failed" => Delivered(p) = {"completedUnpaid", "asyncFailed"}
  /\ stripe[p] = "expired" => Delivered(p) = {"expired"}
  /\ stripe[p] = "refunded" =>
       Delivered(p) \in {{"completedPaid", "refunded"}, {"completedUnpaid", "asyncPaid", "refunded"}}
Stories == \A p \in Checkouts : Story(p)

Paid(p) == p \in Packages /\ stripe[p] \in {"paid", "refunded"}

\* A subscription is given, or bought and then it names the payment.
RowsAreGiven ==
  /\ rows # <<>> => account
  /\ \A i \in DOMAIN rows :
       /\ rows[i].source \in {"free", "admin"} \cup Packages
       /\ rows[i].payment \in {"none"} \cup Packages
       /\ rows[i].source = "free" => rows[i].status = "ACTIVE" /\ rows[i].payment = "none"
       /\ rows[i].source \in Packages => rows[i].payment = rows[i].source

InvoicesArePaid ==
  \A p \in Checkouts : invoice[p].status # "none" => Paid(p) /\ invoice[p].row \in DOMAIN rows

\* What a handler holds is of a payment that happened, and of rows that exist.
Applying(h) == job[h].stage = "apply"
Real(j) ==
  /\ j.stage = "apply" => /\ account /\ Paid(j.checkout)
                          /\ j.event = "confirm" \/ j.event \in Delivered(j.checkout)
                          /\ j.decision = "create" \/ j.row \in DOMAIN rows
  /\ j.stage = "refund" => /\ account /\ Paid(j.checkout) /\ "refunded" \in Delivered(j.checkout)
                           /\ invoice[j.checkout].status # "none" /\ j.row \in DOMAIN rows
                           /\ j.cancel => rows[j.row].source # "free"
JobsAreReal == \A h \in Handlers : Real(job[h])

Sound == Types /\ Stories /\ RowsAreGiven /\ InvoicesArePaid /\ JobsAreReal

\* Events are handled in the order they happened in.
Behind(p, event) == \A f \in due[p] : Turn(event) <= Turn(f)
Heeds(j) == /\ j.stage = "apply" /\ j.event # "confirm" => Behind(j.checkout, j.event)
            /\ j.stage = "refund" => Behind(j.checkout, "refunded")
InOrder ==
  raced \cap {"reordered", "redelivered"} = {} =>
    /\ \A p \in Checkouts : \A e \in done[p], f \in due[p] : Turn(e) < Turn(f)
    /\ \A h \in Handlers : Heeds(job[h])

\* A donation that was heard of can be found by its payment.
Linked == \A p \in Donations : done[p] \subseteq {"expired", "refunded"} \/ linked[p]

\* What the argument about donations rests on.
DonationInv == Sound /\ InOrder /\ Linked /\ DonationTellsUnlessRaced

\* Without two handlers at once there is one subscription, and what a handler has
\* read is still so.
Current(j) ==
  /\ j.stage = "apply" => j.decision = Decision(j.checkout) /\ j.row = Newest
  /\ j.stage = "refund" => j.row = invoice[j.checkout].row /\ j.cancel = PaysFor(j.checkout)
OneAtATime ==
  "concurrent" \notin raced =>
    /\ \A h, g \in Handlers : job[h] # Idle /\ job[g] # Idle => h = g
    /\ Len(rows) <= 1
    /\ \A h \in Handlers : Current(job[h])

\* A purchase whose event was acknowledged is booked, and one that is being
\* applied was not refunded.
PaidIsBooked == \A p \in Packages : done[p] \cap PaidEvents # {} => invoice[p].status # "none"
NotAfterRefund ==
  raced \cap {"reordered", "redelivered", "reconfirmed", "concurrent"} = {} =>
    \A h \in Handlers : Applying(h) => "refunded" \notin done[job[h].checkout]
PaymentIsSource ==
  raced \cap {"assignedOver", "concurrent"} = {} =>
    \A i \in DOMAIN rows : rows[i].payment \in Packages => rows[i].source = rows[i].payment
RefundInv ==
  /\ Sound /\ InOrder /\ OneAtATime
  /\ PaidIsBooked /\ NotAfterRefund /\ PaymentIsSource /\ RefundEndsItsPlanUnlessRaced

\* No two moments are the same, and what happened was before now.
Happened(m) == m # 0 /\ m < clock.now
Moments ==
  /\ clock.now # 0
  /\ \A p \in Checkouts :
       /\ stripe[p] = "none" <=> Opened(p) = 0
       /\ Opened(p) # 0 => Happened(Opened(p))
       /\ stripe[p] \in {"paid", "refunded"} <=> At(p) # 0
       /\ At(p) # 0 => Happened(At(p)) /\ Opened(p) < At(p)
       /\ \A q \in Checkouts \ {p} : Opened(p) # 0 => Opened(p) # Opened(q)
  /\ \A x \in {"free", "admin"} : At(x) # 0 => Happened(At(x)) /\ rows # <<>>
RowsHaveStarts ==
  \A i \in DOMAIN rows :
    /\ rows[i].start = IF rows[i].source \in Packages THEN Opened(rows[i].source) ELSE At(rows[i].source)
    /\ rows[i].source \in Given
\* Nothing came between a payment and its checkout.
NotOvertaken ==
  /\ "openedEarlier" \notin raced =>
       \A p \in Packages : At(p) # 0 =>
         /\ Opened(p) < At("admin") => At(p) < At("admin")
         /\ \A q \in Packages \ {p} : Opened(p) < Opened(q) /\ At(q) # 0 => At(p) < At(q)
  /\ "boughtBeforeAccount" \notin raced =>
       \A p \in Packages : Opened(p) # 0 /\ At("free") # 0 => At("free") < Opened(p)
LatestInv == Sound /\ OneAtATime /\ Moments /\ RowsHaveStarts /\ NotOvertaken /\ LatestWinsUnlessRaced

-------------------------------------------------------------------------------
\* One subscription is replaced by another.
LEMMA SetRow ==
  ASSUME NEW s \in Seq(Row), NEW i \in DOMAIN s, NEW x \in Row
  PROVE  /\ [s EXCEPT ![i] = x] \in Seq(Row)
         /\ DOMAIN [s EXCEPT ![i] = x] = DOMAIN s
         /\ Len([s EXCEPT ![i] = x]) = Len(s)
         /\ [s EXCEPT ![i] = x][i] = x
         /\ \A j \in DOMAIN s : j # i => [s EXCEPT ![i] = x][j] = s[j]
  OBVIOUS

LEMMA AddRow ==
  ASSUME NEW s \in Seq(Row), NEW x \in Row
  PROVE  /\ Append(s, x) \in Seq(Row)
         /\ DOMAIN Append(s, x) = DOMAIN s \cup {Len(s) + 1}
         /\ Len(Append(s, x)) = Len(s) + 1
         /\ Append(s, x)[Len(s) + 1] = x
         /\ \A j \in DOMAIN s : Append(s, x)[j] = s[j]
  OBVIOUS

LEMMA EventTypes ==
  /\ PaidEvents \subseteq Events /\ FailedEvents \subseteq Events /\ "refunded" \in Events
  /\ "refunded" \notin PaidEvents /\ "confirm" \notin Events
  BY DEF PaidEvents, FailedEvents, Events

\* Stripe's tables: nothing, an event that is acknowledged, or one that happens.
Acknowledged(p, event) == event \in Delivered(p) /\ Acknowledge(p, event) /\ stripe' = stripe
Emission(p) ==
  /\ done' = done
  /\ \E to \in {"open", "processing", "paid", "failed", "expired", "refunded"}, events \in SUBSET Events :
       /\ stripe' = [stripe EXCEPT ![p] = to]
       /\ due' = [due EXCEPT ![p] = @ \cup events]
       /\ <<stripe[p], to, events>> \in
            {<<"none", "open", {}>>, <<"open", "paid", {"completedPaid"}>>,
             <<"processing", "paid", {"asyncPaid"}>>, <<"open", "processing", {"completedUnpaid"}>>,
             <<"processing", "failed", {"asyncFailed"}>>, <<"open", "expired", {"expired"}>>,
             <<"paid", "refunded", {"refunded"}>>}
StripeMoves ==
  \/ UNCHANGED stripeVars
  \/ \E p \in Checkouts, event \in Events : Acknowledged(p, event)
  \/ \E p \in Checkouts : Emission(p)

LEMMA StripeStep ==
  ASSUME Sound, Next
  PROVE  StripeMoves
<1>1. CASE SignUp \/ AssignPlan
  BY <1>1 DEF StripeMoves, SignUp, AssignPlan, stripeVars
<1>2. ASSUME NEW p \in Checkouts, OpenCheckout(p) \/ Pay(p) \/ DoNotPay(p) \/ Refund(p)
      PROVE  Emission(p)
  BY <1>2 DEF OpenCheckout, Pay, DoNotPay, Refund, Happens, Emission, Events, PaidEvents, FailedEvents
<1>3. ASSUME NEW p \in Checkouts, CheckoutCannotStart(p) \/ ConfirmDonation(p)
      PROVE  StripeMoves
  BY <1>3 DEF StripeMoves, CheckoutCannotStart, ConfirmDonation, stripeVars
<1>4. ASSUME NEW p \in Checkouts, DonationRefund(p) \/ RefundNothing(p)
      PROVE  Acknowledged(p, "refunded")
  BY <1>4 DEF DonationRefund, RefundNothing, Acknowledged
<1>5. ASSUME NEW p \in Checkouts, NEW event \in Events, DonationEvent(p, event) \/ IgnoreEvent(p, event)
      PROVE  Acknowledged(p, event)
  BY <1>5 DEF DonationEvent, IgnoreEvent, Acknowledged, Delivered
<1>6. ASSUME NEW p \in Checkouts, NEW h \in Handlers,
             \/ ConfirmPackage(h, p) \/ BeginRefund(h, p) \/ Abandon(h)
             \/ \E event \in Events : BeginPackage(h, p, event)
      PROVE  StripeMoves
  BY <1>6 DEF StripeMoves, ConfirmPackage, BeginRefund, Abandon, BeginPackage, Begin, stripeVars
<1>7. ASSUME NEW h \in Handlers, CommitPackage(h)
      PROVE  StripeMoves
  <2>1. job[h] \in Purchase
    BY <1>7 DEF CommitPackage, Sound, Types, Idle, Return
  <2>2. job[h].event = "confirm" \/ (job[h].event \in Events /\ job[h].event \in Delivered(job[h].checkout))
    BY <1>7, <2>1, EventTypes DEF CommitPackage, Sound, JobsAreReal, Real, Purchase
  <2>3. CASE job[h].event = "confirm"
    BY <1>7, <2>3 DEF CommitPackage, StripeMoves, stripeVars
  <2>4. CASE job[h].event # "confirm"
    BY <1>7, <2>1, <2>2, <2>4 DEF CommitPackage, StripeMoves, Acknowledged, Purchase
  <2>. QED BY <2>3, <2>4
<1>8. ASSUME NEW h \in Handlers, CommitRefund(h)
      PROVE  StripeMoves
  <2>1. job[h] \in Return
    BY <1>8 DEF CommitRefund, Sound, Types, Idle, Purchase
  <2>2. "refunded" \in Delivered(job[h].checkout)
    BY <1>8 DEF CommitRefund, Sound, JobsAreReal, Real
  <2>. QED BY <1>8, <2>1, <2>2, EventTypes DEF CommitRefund, StripeMoves, Acknowledged, Return
<1>9. ASSUME NEW h \in Handlers, Abandon(h)
      PROVE  StripeMoves
  BY <1>9 DEF StripeMoves, Abandon, stripeVars
<1>. QED BY <1>1, <1>2, <1>3, <1>4, <1>5, <1>6, <1>7, <1>8, <1>9, EventTypes DEF Next, StripeMoves

LEMMA StoriesStay ==
  ASSUME Types, Stories, StripeMoves
  PROVE  /\ Stories' /\ \A p \in Checkouts : Delivered(p) \subseteq Delivered(p)'
         /\ stripe' \in [Checkouts -> {"none", "open", "processing", "paid", "failed", "expired", "refunded"}]
         /\ due' \in [Checkouts -> SUBSET Events] /\ done' \in [Checkouts -> SUBSET Events]
         /\ \A p \in Checkouts : stripe[p] \in {"paid", "refunded"} => stripe'[p] \in {"paid", "refunded"}
<1>1. CASE UNCHANGED stripeVars
  BY <1>1 DEF Types, Stories, Story, Delivered, stripeVars
<1>2. ASSUME NEW p \in Checkouts, NEW event \in Events, Acknowledged(p, event)
      PROVE  /\ Stories' /\ \A q \in Checkouts : Delivered(q) = Delivered(q)'
             /\ due' \in [Checkouts -> SUBSET Events] /\ done' \in [Checkouts -> SUBSET Events]
  <2>1. /\ due' = [due EXCEPT ![p] = due[p] \ {event}] /\ done' = [done EXCEPT ![p] = done[p] \cup {event}]
        /\ event \in due[p] \cup done[p] /\ stripe' = stripe
    BY <1>2 DEF Acknowledged, Acknowledge, Delivered
  <2>2. /\ due' \in [Checkouts -> SUBSET Events] /\ done' \in [Checkouts -> SUBSET Events]
        /\ \A q \in Checkouts : Delivered(q) = Delivered(q)'
    BY <2>1 DEF Types, Delivered
  <2>3. \A q \in Checkouts : due'[q] \cap done'[q] = {}
    BY <2>1 DEF Types, Stories, Story
  <2>. QED BY <2>1, <2>2, <2>3 DEF Stories, Story
<1>3. ASSUME NEW p \in Checkouts, Emission(p)
      PROVE  /\ Stories' /\ \A q \in Checkouts : Delivered(q) \subseteq Delivered(q)'
             /\ stripe' \in [Checkouts -> {"none", "open", "processing", "paid", "failed", "expired", "refunded"}]
             /\ due' \in [Checkouts -> SUBSET Events] /\ done' \in [Checkouts -> SUBSET Events]
             /\ \A q \in Checkouts : stripe[q] \in {"paid", "refunded"} => stripe'[q] \in {"paid", "refunded"}
  <2>1. PICK to \in {"open", "processing", "paid", "failed", "expired", "refunded"}, events \in SUBSET Events :
          /\ stripe' = [stripe EXCEPT ![p] = to]
          /\ due' = [due EXCEPT ![p] = due[p] \cup events]
          /\ <<stripe[p], to, events>> \in
               {<<"none", "open", {}>>, <<"open", "paid", {"completedPaid"}>>,
                <<"processing", "paid", {"asyncPaid"}>>, <<"open", "processing", {"completedUnpaid"}>>,
                <<"processing", "failed", {"asyncFailed"}>>, <<"open", "expired", {"expired"}>>,
                <<"paid", "refunded", {"refunded"}>>}
          /\ done' = done
    BY <1>3 DEF Emission
  <2>2. /\ due' \in [Checkouts -> SUBSET Events] /\ done' \in [Checkouts -> SUBSET Events]
        /\ stripe' \in [Checkouts -> {"none", "open", "processing", "paid", "failed", "expired", "refunded"}]
        /\ \A q \in Checkouts \ {p} : Story(q)'
        /\ \A q \in Checkouts : Delivered(q) \subseteq Delivered(q)'
    <3>1. /\ due' \in [Checkouts -> SUBSET Events] /\ done' \in [Checkouts -> SUBSET Events]
          /\ stripe' \in [Checkouts -> {"none", "open", "processing", "paid", "failed", "expired", "refunded"}]
      BY <2>1 DEF Types
    <3>2. /\ \A q \in Checkouts : due[q] \subseteq due'[q] /\ done'[q] = done[q]
          /\ \A q \in Checkouts \ {p} : due'[q] = due[q] /\ stripe'[q] = stripe[q]
      BY <2>1 DEF Types
    <3>3. \A q \in Checkouts \ {p} : Story(q)'
      BY <3>2 DEF Stories, Story, Delivered
    <3>4. \A q \in Checkouts : Delivered(q) \subseteq Delivered(q)'
      BY <3>2 DEF Delivered
    <3>. QED BY <3>1, <3>3, <3>4
  <2>3. \A q \in Checkouts : stripe[q] \in {"paid", "refunded"} => stripe'[q] \in {"paid", "refunded"}
    BY <2>1 DEF Types
  <2>4. Story(p)'
    <3>1. stripe'[p] = to /\ due'[p] = due[p] \cup events /\ done'[p] = done[p] /\ Story(p)
      BY <2>1 DEF Types, Stories
    <3>2. due'[p] \cup done'[p] = Delivered(p) \cup events
      BY <3>1 DEF Delivered
    <3>3. events \cap Delivered(p) = {}
      BY <2>1, <3>1 DEF Story
    <3>. QED BY <2>1, <3>1, <3>2, <3>3 DEF Story, Delivered
  <2>. QED BY <2>2, <2>3, <2>4 DEF Stories
<1>. QED BY <1>1, <1>2, <1>3 DEF StripeMoves, Types, Acknowledged, Delivered, stripeVars
\* The steps that write subscriptions or invoices, and the others.
LEMMA TablesStep ==
  ASSUME Next
  PROVE  \/ SignUp \/ AssignPlan
         \/ \E h \in Handlers : CommitPackage(h) \/ CommitRefund(h)
         \/ rows' = rows /\ invoice' = invoice /\ account' = account
<1>. DEFINE Same == rows' = rows /\ invoice' = invoice /\ account' = account
<1>1. ASSUME NEW p \in Checkouts, OpenCheckout(p) \/ CheckoutCannotStart(p) \/ Pay(p) \/ DoNotPay(p) \/ Refund(p)
      PROVE  Same
  BY <1>1 DEF OpenCheckout, CheckoutCannotStart, Pay, DoNotPay, Refund, Happens
<1>2. ASSUME NEW p \in Checkouts, DonationRefund(p) \/ ConfirmDonation(p) \/ RefundNothing(p)
      PROVE  Same
  BY <1>2 DEF DonationRefund, ConfirmDonation, RefundNothing, tables
<1>3. ASSUME NEW p \in Checkouts, NEW event \in Events, DonationEvent(p, event) \/ IgnoreEvent(p, event)
      PROVE  Same
  BY <1>3 DEF DonationEvent, IgnoreEvent, tables
<1>4. ASSUME NEW p \in Checkouts, NEW h \in Handlers, NEW event \in Events,
             ConfirmPackage(h, p) \/ BeginRefund(h, p) \/ BeginPackage(h, p, event)
      PROVE  Same
  BY <1>4 DEF ConfirmPackage, BeginRefund, BeginPackage, Begin, tables
<1>5. ASSUME NEW h \in Handlers, Abandon(h)
      PROVE  Same
  BY <1>5 DEF Abandon, tables
<1>. HIDE DEF Same
<1>6. \/ SignUp \/ AssignPlan
      \/ \E h \in Handlers : CommitPackage(h) \/ CommitRefund(h)
      \/ Same
  BY <1>1, <1>2, <1>3, <1>4, <1>5, EventTypes DEF Next
<1>. QED BY <1>6 DEF Same

\* What stays: the kind of a checkout, and the account.
LEMMA WhatStays ==
  ASSUME Sound, Next
  PROVE  /\ kind' = kind /\ Packages' = Packages /\ Donations' = Donations
         /\ (account => account') /\ account' \in BOOLEAN
<1>1. kind' = kind
  <2>1. CASE SignUp \/ AssignPlan
    BY <2>1 DEF SignUp, AssignPlan
  <2>2. ASSUME NEW p \in Checkouts, OpenCheckout(p) \/ CheckoutCannotStart(p) \/ Pay(p) \/ DoNotPay(p) \/ Refund(p)
        PROVE  kind' = kind
    BY <2>2 DEF OpenCheckout, CheckoutCannotStart, Pay, DoNotPay, Refund, Happens
  <2>3. ASSUME NEW p \in Checkouts, DonationRefund(p) \/ ConfirmDonation(p) \/ RefundNothing(p)
        PROVE  kind' = kind
    BY <2>3 DEF DonationRefund, ConfirmDonation, RefundNothing
  <2>4. ASSUME NEW p \in Checkouts, NEW event \in Events, DonationEvent(p, event) \/ IgnoreEvent(p, event)
        PROVE  kind' = kind
    BY <2>4 DEF DonationEvent, IgnoreEvent
  <2>5. ASSUME NEW h \in Handlers, NEW p \in Checkouts, NEW event \in Events,
               ConfirmPackage(h, p) \/ BeginRefund(h, p) \/ BeginPackage(h, p, event)
        PROVE  kind' = kind
    BY <2>5 DEF ConfirmPackage, BeginRefund, BeginPackage, Begin
  <2>6. ASSUME NEW h \in Handlers, CommitPackage(h) \/ CommitRefund(h) \/ Abandon(h)
        PROVE  kind' = kind
    BY <2>6 DEF CommitPackage, CommitRefund, Abandon
  <2>. QED BY <2>1, <2>2, <2>3, <2>4, <2>5, <2>6, EventTypes DEF Next
<1>2. (account => account') /\ account' \in BOOLEAN
  BY TablesStep DEF Sound, Types, SignUp, AssignPlan, CommitPackage, CommitRefund
<1>. QED BY <1>1, <1>2 DEF Packages, Donations

\* A subscription that is given by an administrator, or bought.
Granted(i) == [source |-> "admin", status |-> "ACTIVE", start |-> clock.now, payment |-> rows[i].payment]
Canceled(i) == [source |-> rows[i].source, status |-> "CANCELED", start |-> rows[i].start, payment |-> rows[i].payment]

LEMMA GrantedRow ==
  ASSUME NEW r \in Row, NEW now
  PROVE  [[[r EXCEPT !.source = "admin"] EXCEPT !.status = "ACTIVE"] EXCEPT !.start = now] =
           [source |-> "admin", status |-> "ACTIVE", start |-> now, payment |-> r.payment]
<1>. DEFINE a == [source |-> "admin", status |-> r.status, start |-> r.start, payment |-> r.payment]
            b == [source |-> "admin", status |-> "ACTIVE", start |-> r.start, payment |-> r.payment]
<1>1. [r EXCEPT !.source = "admin"] = a
  BY DEF Row
<1>2. [a EXCEPT !.status = "ACTIVE"] = b
  OBVIOUS
<1>3. [b EXCEPT !.start = now] = [source |-> "admin", status |-> "ACTIVE", start |-> now, payment |-> r.payment]
  OBVIOUS
<1>. HIDE DEF a, b
<1>. QED BY <1>1, <1>2, <1>3

LEMMA RowFacts ==
  ASSUME Types
  PROVE  /\ clock.now \in Nat /\ \A p \in Checkouts : Opened(p) \in Nat
         /\ \A x \in Checkouts \cup {"free", "admin"} : At(x) \in Nat
         /\ \A p \in Checkouts : Bought(p) \in Row
         /\ \A i \in DOMAIN rows : rows[i] \in Row /\ Granted(i) \in Row /\ Canceled(i) \in Row
         /\ Len(rows) \in Nat /\ (rows # <<>> <=> Newest \in DOMAIN rows)
<1>1. /\ clock.now \in Nat /\ \A p \in Checkouts : Opened(p) \in Nat
      /\ \A x \in Checkouts \cup {"free", "admin"} : At(x) \in Nat
  BY DEF Types, Clock, Opened, At
<1>2. \A p \in Checkouts : Bought(p) \in Row
  BY <1>1 DEF Bought, Row
<1>3. rows \in Seq(Row)
  BY DEF Types
<1>4. Len(rows) \in Nat /\ (rows # <<>> <=> Newest \in DOMAIN rows)
  BY <1>3 DEF Newest
<1>5. \A i \in DOMAIN rows : rows[i] \in Row
  BY <1>3
<1>6. \A i \in DOMAIN rows : Granted(i) \in Row /\ Canceled(i) \in Row
  BY <1>1, <1>5 DEF Granted, Canceled, Row
<1>. QED BY <1>1, <1>2, <1>4, <1>5, <1>6

\* What each of them does to the subscriptions.
LEMMA SignUpRows ==
  ASSUME Sound, SignUp
  PROVE  /\ rows = <<>> /\ rows' \in Seq(Row)
         /\ rows' # <<>> => /\ freePlan /\ DOMAIN rows' = {1} /\ Len(rows') = 1
                            /\ rows'[1] = [source |-> "free", status |-> "ACTIVE", start |-> clock.now, payment |-> "none"]
<1>1. rows = <<>>
  BY DEF SignUp, Sound, RowsAreGiven
<1>. DEFINE x == [source |-> "free", status |-> "ACTIVE", start |-> clock.now, payment |-> "none"]
<1>2. x \in Row
  BY RowFacts DEF Row, Sound
<1>3. rows' = IF freePlan THEN <<x>> ELSE <<>>
  BY DEF SignUp
<1>. HIDE DEF x
<1>4. rows' \in Seq(Row) /\ (rows' # <<>> => DOMAIN rows' = {1} /\ Len(rows') = 1 /\ rows'[1] = x /\ freePlan)
  BY <1>2, <1>3
<1>. QED BY <1>1, <1>4 DEF x

LEMMA AssignPlanRows ==
  ASSUME Sound, AssignPlan
  PROVE  \/ /\ rows = <<>> /\ rows' \in Seq(Row) /\ DOMAIN rows' = {1} /\ Len(rows') = 1
            /\ rows'[1] = [source |-> "admin", status |-> "ACTIVE", start |-> clock.now, payment |-> "none"]
         \/ rows # <<>> /\ rows' = [rows EXCEPT ![Newest] = Granted(Newest)]
<1>1. CASE rows = <<>>
  <2>. DEFINE x == [source |-> "admin", status |-> "ACTIVE", start |-> clock.now, payment |-> "none"]
  <2>1. x \in Row
    BY RowFacts DEF Row, Sound
  <2>2. rows' = <<x>>
    BY <1>1 DEF AssignPlan
  <2>. HIDE DEF x
  <2>3. rows' \in Seq(Row) /\ DOMAIN rows' = {1} /\ Len(rows') = 1 /\ rows'[1] = x
    BY <2>1, <2>2
  <2>. QED BY <1>1, <2>3 DEF x
<1>2. CASE rows # <<>>
  <2>1. Newest \in DOMAIN rows /\ rows[Newest] \in Row
    BY <1>2, RowFacts DEF Sound
  <2>2. rows' = [rows EXCEPT ![Newest].source = "admin", ![Newest].status = "ACTIVE", ![Newest].start = clock.now]
    BY <1>2 DEF AssignPlan
  <2>3. rows' = [rows EXCEPT ![Newest] =
                   [[[rows[Newest] EXCEPT !.source = "admin"] EXCEPT !.status = "ACTIVE"] EXCEPT !.start = clock.now]]
    BY <2>1, <2>2 DEF Sound, Types
  <2>4. [[[rows[Newest] EXCEPT !.source = "admin"] EXCEPT !.status = "ACTIVE"] EXCEPT !.start = clock.now] = Granted(Newest)
    BY <2>1, GrantedRow DEF Granted
  <2>. QED BY <1>2, <2>3, <2>4
<1>. QED BY <1>1, <1>2

LEMMA CommitPackageRows ==
  ASSUME Sound, NEW h \in Handlers, CommitPackage(h)
  PROVE  LET p == job[h].checkout
         IN  /\ job[h] \in Purchase /\ Paid(p) /\ account
             /\ \/ /\ job[h].decision = "create" /\ rows' = Append(rows, Bought(p))
                   /\ invoice' = [invoice EXCEPT ![p] = [status |-> "paid", row |-> Len(rows) + 1]]
                \/ /\ job[h].decision = "update" /\ rows' = [rows EXCEPT ![job[h].row] = Bought(p)]
                   /\ job[h].row \in DOMAIN rows
                   /\ invoice' = [invoice EXCEPT ![p] = [status |-> "paid", row |-> job[h].row]]
                \/ /\ job[h].decision = "keep" /\ rows' = rows /\ job[h].row \in DOMAIN rows
                   /\ invoice' = [invoice EXCEPT ![p] = [status |-> "paid", row |-> job[h].row]]
<1>1. job[h] \in Purchase
  BY DEF CommitPackage, Sound, Types, Idle, Return
<1>2. /\ Paid(job[h].checkout) /\ account
      /\ job[h].decision = "create" \/ job[h].row \in DOMAIN rows
  BY DEF CommitPackage, Sound, JobsAreReal, Real
<1>3. job[h].decision \in {"create", "update", "keep"}
  BY <1>1 DEF Purchase
<1>. QED BY <1>1, <1>2, <1>3 DEF CommitPackage

LEMMA CommitRefundRows ==
  ASSUME Sound, NEW h \in Handlers, CommitRefund(h)
  PROVE  LET p == job[h].checkout
         IN  /\ job[h] \in Return /\ Paid(p) /\ account /\ "refunded" \in Delivered(p)
             /\ job[h].row \in DOMAIN rows /\ invoice[p].status # "none"
             /\ invoice' = [invoice EXCEPT ![p] = [status |-> "refunded", row |-> invoice[p].row]]
             /\ \/ job[h].cancel /\ rows[job[h].row].source # "free" /\ rows' = [rows EXCEPT ![job[h].row] = Canceled(job[h].row)]
                \/ ~job[h].cancel /\ rows' = rows
<1>. DEFINE p == job[h].checkout  i == job[h].row
<1>1. job[h] \in Return
  BY DEF CommitRefund, Sound, Types, Idle, Purchase
<1>2. /\ Paid(p) /\ account /\ "refunded" \in Delivered(p) /\ i \in DOMAIN rows /\ invoice[p].status # "none"
      /\ job[h].cancel => rows[i].source # "free"
  BY DEF CommitRefund, Sound, JobsAreReal, Real
<1>3. invoice' = [invoice EXCEPT ![p] = [status |-> "refunded", row |-> invoice[p].row]]
  <2>1. p \in Checkouts /\ invoice[p] \in [status : {"none", "paid", "refunded"}, row : Nat]
    BY <1>1 DEF Return, Sound, Types
  <2>2. invoice' = [invoice EXCEPT ![p] = [invoice[p] EXCEPT !.status = "refunded"]]
    BY <2>1 DEF CommitRefund, Sound, Types
  <2>3. [invoice[p] EXCEPT !.status = "refunded"] = [status |-> "refunded", row |-> invoice[p].row]
    BY <2>1
  <2>. QED BY <2>2, <2>3
<1>4. rows[i] \in Row /\ rows \in Seq(Row)
  BY <1>2, RowFacts DEF Sound, Types
<1>5. [rows EXCEPT ![i].status = "CANCELED"] = [rows EXCEPT ![i] = Canceled(i)]
  <2>1. [rows[i] EXCEPT !.status = "CANCELED"] = Canceled(i)
    BY <1>4 DEF Row, Canceled
  <2>. QED BY <1>2, <1>4, <2>1
<1>6. job[h].cancel \in BOOLEAN
  BY <1>1 DEF Return
<1>. QED BY <1>1, <1>2, <1>3, <1>5, <1>6 DEF CommitRefund

\* Subscriptions are only added and rewritten, and none becomes a free one.
LEMMA RowsStep ==
  ASSUME Sound, Next
  PROVE  /\ rows' \in Seq(Row) /\ RowsAreGiven' /\ DOMAIN rows \subseteq DOMAIN rows'
         /\ \A i \in DOMAIN rows : rows[i].source # "free" => rows'[i].source # "free"
<1>1. CASE SignUp
  <2>1. rows = <<>> /\ rows' \in Seq(Row) /\ account'
    BY <1>1, SignUpRows DEF SignUp
  <2>2. \A i \in DOMAIN rows' : rows'[i].source = "free" /\ rows'[i].status = "ACTIVE" /\ rows'[i].payment = "none"
    BY <1>1, <2>1, SignUpRows
  <2>3. "free" \notin Packages
    BY CheckoutsAssumption DEF Packages
  <2>. QED BY <2>1, <2>2, <2>3, WhatStays DEF RowsAreGiven
<1>2. CASE AssignPlan
  <2>1. account' /\ "admin" \notin Packages' /\ Packages' = Packages
    BY <1>2, WhatStays, CheckoutsAssumption DEF AssignPlan, Packages
  <2>2. CASE rows = <<>>
    <3>1. /\ rows' \in Seq(Row) /\ DOMAIN rows' = {1} /\ rows'[1].source = "admin" /\ rows'[1].payment = "none"
      BY <1>2, <2>2, AssignPlanRows DEF Sound
    <3>. QED BY <2>1, <2>2, <3>1 DEF RowsAreGiven
  <2>3. CASE rows # <<>>
    <3>1. Newest \in DOMAIN rows /\ rows \in Seq(Row) /\ rows' = [rows EXCEPT ![Newest] = Granted(Newest)]
          /\ Granted(Newest) \in Row
      BY <1>2, <2>3, AssignPlanRows, RowFacts DEF Sound, Types
    <3>2. Granted(Newest).source = "admin" /\ Granted(Newest).payment = rows[Newest].payment
      BY DEF Granted
    <3>3. /\ rows' \in Seq(Row) /\ DOMAIN rows' = DOMAIN rows /\ rows'[Newest] = Granted(Newest)
          /\ \A i \in DOMAIN rows : i # Newest => rows'[i] = rows[i]
      BY <3>1, SetRow
    <3>. QED BY <2>1, <3>1, <3>2, <3>3 DEF Sound, RowsAreGiven
  <2>. QED BY <2>2, <2>3
<1>3. ASSUME NEW h \in Handlers, CommitPackage(h)
      PROVE  /\ rows' \in Seq(Row) /\ RowsAreGiven' /\ DOMAIN rows \subseteq DOMAIN rows'
             /\ \A i \in DOMAIN rows : rows[i].source # "free" => rows'[i].source # "free"
  <2>. DEFINE p == job[h].checkout  x == Bought(p)
  <2>1. /\ p \in Packages /\ p # "free" /\ x \in Row /\ x.source = p /\ x.payment = p /\ account /\ rows \in Seq(Row)
        /\ account' /\ Packages' = Packages
    BY <1>3, CommitPackageRows, RowFacts, WhatStays, CheckoutsAssumption DEF Paid, Packages, Sound, Types, Bought
  <2>2. \/ rows' = Append(rows, x)
        \/ job[h].row \in DOMAIN rows /\ rows' = [rows EXCEPT ![job[h].row] = x]
        \/ rows' = rows
    BY <1>3, CommitPackageRows
  <2>. HIDE DEF p, x
  <2>3. CASE rows' = Append(rows, x)
    BY <2>1, <2>3, AddRow DEF Sound, RowsAreGiven
  <2>4. ASSUME NEW i \in DOMAIN rows, rows' = [rows EXCEPT ![i] = x]
        PROVE  /\ rows' \in Seq(Row) /\ RowsAreGiven' /\ DOMAIN rows \subseteq DOMAIN rows'
               /\ \A j \in DOMAIN rows : rows[j].source # "free" => rows'[j].source # "free"
    <3>1. /\ rows' \in Seq(Row) /\ DOMAIN rows' = DOMAIN rows /\ rows'[i] = x
          /\ \A j \in DOMAIN rows : j # i => rows'[j] = rows[j]
      BY <2>1, <2>4, SetRow
    <3>. QED BY <2>1, <2>4, <3>1 DEF Sound, RowsAreGiven
  <2>5. CASE rows' = rows
    BY <2>1, <2>5 DEF Sound, RowsAreGiven
  <2>. QED BY <2>2, <2>3, <2>4, <2>5
<1>4. ASSUME NEW h \in Handlers, CommitRefund(h)
      PROVE  /\ rows' \in Seq(Row) /\ RowsAreGiven' /\ DOMAIN rows \subseteq DOMAIN rows'
             /\ \A i \in DOMAIN rows : rows[i].source # "free" => rows'[i].source # "free"
  <2>. DEFINE i == job[h].row  x == Canceled(i)
  <2>1. /\ account' /\ Packages' = Packages /\ rows \in Seq(Row) /\ i \in DOMAIN rows /\ x \in Row
        /\ x.source = rows[i].source /\ x.payment = rows[i].payment
    BY <1>4, CommitRefundRows, RowFacts, WhatStays DEF Sound, Types, Canceled
  <2>2. \/ rows[i].source # "free" /\ rows' = [rows EXCEPT ![i] = x]
        \/ rows' = rows
    BY <1>4, CommitRefundRows
  <2>. HIDE DEF i, x
  <2>3. CASE rows[i].source # "free" /\ rows' = [rows EXCEPT ![i] = x]
    <3>1. /\ rows' \in Seq(Row) /\ DOMAIN rows' = DOMAIN rows /\ rows'[i] = x
          /\ \A j \in DOMAIN rows : j # i => rows'[j] = rows[j]
      BY <2>1, <2>3, SetRow
    <3>. QED BY <2>1, <2>3, <3>1 DEF Sound, RowsAreGiven
  <2>4. CASE rows' = rows
    BY <2>1, <2>4 DEF Sound, RowsAreGiven
  <2>. QED BY <2>2, <2>3, <2>4
<1>5. CASE rows' = rows /\ account' = account
  BY <1>5, WhatStays DEF Sound, Types, RowsAreGiven
<1>. QED BY <1>1, <1>2, <1>3, <1>4, <1>5, TablesStep

LEMMA InvoicesStep ==
  ASSUME Sound, Next
  PROVE  /\ invoice' \in [Checkouts -> [status : {"none", "paid", "refunded"}, row : Nat]]
         /\ InvoicesArePaid'
         /\ \A p \in Checkouts : invoice[p].status # "none" => invoice'[p].status # "none"
<1>. DEFINE Booking(p, b) == /\ p \in Checkouts /\ b \in [status : {"paid", "refunded"}, row : Nat]
                             /\ Paid(p) /\ b.row \in DOMAIN rows' /\ invoice' = [invoice EXCEPT ![p] = b]
<1>1. (\A p \in Checkouts : Paid(p) => Paid(p)') /\ DOMAIN rows \subseteq DOMAIN rows'
  BY StripeStep, StoriesStay, WhatStays, RowsStep DEF Paid, Sound
<1>2. ASSUME NEW p, NEW b, Booking(p, b)
      PROVE  /\ invoice' \in [Checkouts -> [status : {"none", "paid", "refunded"}, row : Nat]]
             /\ InvoicesArePaid'
             /\ \A q \in Checkouts : invoice[q].status # "none" => invoice'[q].status # "none"
  <2>1. b \in [status : {"none", "paid", "refunded"}, row : Nat] /\ b.status # "none"
    BY <1>2
  <2>2. invoice' \in [Checkouts -> [status : {"none", "paid", "refunded"}, row : Nat]]
    BY <1>2, <2>1 DEF Sound, Types
  <2>3. \A q \in Checkouts : invoice'[q] = IF q = p THEN b ELSE invoice[q]
    BY <1>2 DEF Sound, Types
  <2>. QED BY <1>1, <1>2, <2>1, <2>2, <2>3 DEF Sound, InvoicesArePaid
<1>3. ASSUME NEW h \in Handlers, CommitPackage(h)
      PROVE  \E p, b : Booking(p, b)
  <2>. DEFINE p == job[h].checkout
  <2>1. p \in Checkouts /\ Paid(p) /\ job[h].row \in Nat /\ rows \in Seq(Row) /\ Bought(p) \in Row
    BY <1>3, CommitPackageRows, RowFacts DEF Purchase, Sound, Types
  <2>2. CASE job[h].decision = "create"
    <3>1. rows' = Append(rows, Bought(p)) /\ invoice' = [invoice EXCEPT ![p] = [status |-> "paid", row |-> Len(rows) + 1]]
      BY <1>3, <2>2, CommitPackageRows
    <3>2. Len(rows) + 1 \in DOMAIN rows' /\ Len(rows) + 1 \in Nat
      BY <2>1, <3>1, AddRow
    <3>3. Booking(p, [status |-> "paid", row |-> Len(rows) + 1])
      BY <2>1, <3>1, <3>2
    <3>. QED BY <3>3
  <2>3. CASE job[h].decision # "create"
    <3>1. job[h].row \in DOMAIN rows' /\ invoice' = [invoice EXCEPT ![p] = [status |-> "paid", row |-> job[h].row]]
      BY <1>1, <1>3, <2>3, CommitPackageRows
    <3>2. Booking(p, [status |-> "paid", row |-> job[h].row])
      BY <2>1, <3>1
    <3>. QED BY <3>2
  <2>. QED BY <2>2, <2>3
<1>4. ASSUME NEW h \in Handlers, CommitRefund(h)
      PROVE  \E p, b : Booking(p, b)
  <2>. DEFINE p == job[h].checkout
  <2>1. /\ p \in Checkouts /\ Paid(p) /\ invoice[p].row \in Nat /\ invoice[p].row \in DOMAIN rows'
        /\ invoice' = [invoice EXCEPT ![p] = [status |-> "refunded", row |-> invoice[p].row]]
    BY <1>1, <1>4, CommitRefundRows DEF Return, Sound, Types, InvoicesArePaid
  <2>2. Booking(p, [status |-> "refunded", row |-> invoice[p].row])
    BY <2>1
  <2>. QED BY <2>2
<1>5. CASE invoice' = invoice
  BY <1>1, <1>5 DEF Sound, Types, InvoicesArePaid
<1>. HIDE DEF Booking
<1>. QED BY <1>2, <1>3, <1>4, <1>5, TablesStep DEF SignUp, AssignPlan

\* A handler reads.
Reads(h, j) ==
  /\ job[h] = Idle /\ job' = [job EXCEPT ![h] = j]
  /\ UNCHANGED <<kind, freePlan, stripeVars, tables, clock>>
ReadsPurchase(h, p, event) ==
  /\ Paid(p) /\ account /\ (event = "confirm" \/ event \in Delivered(p) \cap PaidEvents)
  /\ Reads(h, [stage |-> "apply", checkout |-> p, event |-> event, decision |-> Decision(p), row |-> Newest])
ReadsReturn(h, p) ==
  /\ p \in Packages /\ "refunded" \in Delivered(p) /\ invoice[p].status # "none"
  /\ Reads(h, [stage |-> "refund", checkout |-> p, row |-> invoice[p].row, cancel |-> PaysFor(p)])

LEMMA PaidStories ==
  ASSUME Sound, NEW p \in Packages, Delivered(p) \cap (PaidEvents \cup {"refunded"}) # {}
  PROVE  Paid(p)
<1>1. p \in Checkouts /\ Story(p) /\ stripe[p] \in {"none", "open", "processing", "paid", "failed", "expired", "refunded"}
  BY DEF Packages, Sound, Types, Stories
<1>. QED BY <1>1 DEF Story, Paid, PaidEvents

LEMMA JobsMove ==
  ASSUME Sound, Next
  PROVE  \/ job' = job
         \/ \E h \in Handlers : job' = [job EXCEPT ![h] = Idle]
         \/ \E h \in Handlers, p \in Checkouts :
              \/ ReadsReturn(h, p)
              \/ \E event \in PaidEvents \cup {"confirm"} : ReadsPurchase(h, p, event)
<1>1. CASE SignUp \/ AssignPlan
  BY <1>1 DEF SignUp, AssignPlan
<1>2. ASSUME NEW p \in Checkouts, OpenCheckout(p) \/ CheckoutCannotStart(p) \/ Pay(p) \/ DoNotPay(p) \/ Refund(p)
      PROVE  job' = job
  BY <1>2 DEF OpenCheckout, CheckoutCannotStart, Pay, DoNotPay, Refund, Happens
<1>3. ASSUME NEW p \in Checkouts, DonationRefund(p) \/ ConfirmDonation(p) \/ RefundNothing(p)
      PROVE  job' = job
  BY <1>3 DEF DonationRefund, ConfirmDonation, RefundNothing
<1>4. ASSUME NEW p \in Checkouts, NEW event \in Events, DonationEvent(p, event) \/ IgnoreEvent(p, event)
      PROVE  job' = job
  BY <1>4 DEF DonationEvent, IgnoreEvent
<1>5. ASSUME NEW h \in Handlers, CommitPackage(h) \/ CommitRefund(h) \/ Abandon(h)
      PROVE  job' = [job EXCEPT ![h] = Idle]
  BY <1>5 DEF CommitPackage, CommitRefund, Abandon
<1>6. ASSUME NEW h \in Handlers, NEW p \in Checkouts, ConfirmPackage(h, p)
      PROVE  ReadsPurchase(h, p, "confirm")
  BY <1>6 DEF ConfirmPackage, Begin, ReadsPurchase, Reads, Paid
<1>7. ASSUME NEW h \in Handlers, NEW p \in Checkouts, NEW event \in Events, BeginPackage(h, p, event)
      PROVE  event \in PaidEvents /\ ReadsPurchase(h, p, event)
  BY <1>7, PaidStories DEF BeginPackage, Begin, ReadsPurchase, Reads
<1>8. ASSUME NEW h \in Handlers, NEW p \in Checkouts, BeginRefund(h, p)
      PROVE  ReadsReturn(h, p)
  BY <1>8 DEF BeginRefund, ReadsReturn, Reads
<1>. QED BY <1>1, <1>2, <1>3, <1>4, <1>5, <1>6, <1>7, <1>8, EventTypes DEF Next

LEMMA DecisionType ==
  ASSUME Types, NEW p \in Checkouts
  PROVE  /\ Decision(p) \in {"create", "update", "keep"}
         /\ Decision(p) = "create" <=> rows = <<>>
         /\ Newest \in Nat
<1>1. Decision(p) \in {"create", "update", "keep"} /\ (Decision(p) = "create" <=> rows = <<>>)
  <2>1. CASE rows = <<>>
    BY <2>1 DEF Decision
  <2>2. CASE rows # <<>> /\ rows[Newest].start > Opened(p)
    BY <2>2 DEF Decision
  <2>3. CASE rows # <<>> /\ ~(rows[Newest].start > Opened(p))
    BY <2>3 DEF Decision
  <2>. QED BY <2>1, <2>2, <2>3
<1>. QED BY <1>1, RowFacts DEF Newest

LEMMA RealStays ==
  ASSUME Sound, Next, NEW j \in {Idle} \cup Purchase \cup Return, Real(j)
  PROVE  Real(j)'
<1>1. /\ \A p \in Checkouts : Paid(p) => Paid(p)'
      /\ \A p \in Checkouts : Delivered(p) \subseteq Delivered(p)'
      /\ \A p \in Checkouts : invoice[p].status # "none" => invoice'[p].status # "none"
      /\ account => account'
      /\ DOMAIN rows \subseteq DOMAIN rows'
      /\ \A i \in DOMAIN rows : rows[i].source # "free" => rows'[i].source # "free"
  BY StripeStep, StoriesStay, WhatStays, RowsStep, InvoicesStep DEF Paid, Sound
<1>2. j.stage \in {"apply", "refund"} => j.checkout \in Checkouts
  BY DEF Idle, Purchase, Return
<1>. QED BY <1>1, <1>2 DEF Real

LEMMA JobChanges ==
  ASSUME Sound, Next, NEW h \in Handlers, NEW j \in {Idle} \cup Purchase \cup Return, Real(j)',
         job' = [job EXCEPT ![h] = j]
  PROVE  job' \in [Handlers -> {Idle} \cup Purchase \cup Return] /\ JobsAreReal'
<1>1. job' \in [Handlers -> {Idle} \cup Purchase \cup Return]
  BY DEF Sound, Types
<1>2. ASSUME NEW g \in Handlers, NEW k, k = job'[g]
      PROVE  Real(k)'
  <2>1. CASE g = h
    <3>1. k = j
      BY <1>2, <2>1 DEF Sound, Types
    <3>. QED BY <3>1
  <2>2. CASE g # h
    <3>1. k = job[g] /\ k \in {Idle} \cup Purchase \cup Return
      BY <1>2, <2>2 DEF Sound, Types
    <3>2. Real(k)
      BY <3>1 DEF Sound, JobsAreReal
    <3>. QED BY <3>1, <3>2, RealStays
  <2>. QED BY <2>1, <2>2
<1>3. JobsAreReal'
  <2>. SUFFICES ASSUME NEW g \in Handlers PROVE Real(job[g])'
    BY DEF JobsAreReal
  <2>1. PICK k : k = job'[g]
    OBVIOUS
  <2>2. Real(k)'
    BY <1>2, <2>1
  <2>. QED BY <2>1, <2>2 DEF Real
<1>. QED BY <1>1, <1>3

LEMMA JobsStep ==
  ASSUME Sound, Next
  PROVE  job' \in [Handlers -> {Idle} \cup Purchase \cup Return] /\ JobsAreReal'
<1>1. CASE job' = job
  <2>1. ASSUME NEW g \in Handlers, NEW k, k = job[g]
        PROVE  Real(k)'
    <3>1. k \in {Idle} \cup Purchase \cup Return /\ Real(k)
      BY <2>1 DEF Sound, Types, JobsAreReal
    <3>. QED BY <3>1, RealStays
  <2>2. JobsAreReal'
    <3>. SUFFICES ASSUME NEW g \in Handlers PROVE Real(job[g])'
      BY DEF JobsAreReal
    <3>1. PICK k : k = job[g]
      OBVIOUS
    <3>2. Real(k)'
      BY <2>1, <3>1
    <3>. QED BY <1>1, <3>1, <3>2 DEF Real
  <2>. QED BY <1>1, <2>2 DEF Sound, Types
<1>2. ASSUME NEW h \in Handlers, job' = [job EXCEPT ![h] = Idle]
      PROVE  job' \in [Handlers -> {Idle} \cup Purchase \cup Return] /\ JobsAreReal'
  <2>1. Real(Idle)'
    BY DEF Real, Idle
  <2>. QED BY <1>2, <2>1, JobChanges
<1>3. ASSUME NEW h \in Handlers, NEW p \in Checkouts, ReadsReturn(h, p)
      PROVE  job' \in [Handlers -> {Idle} \cup Purchase \cup Return] /\ JobsAreReal'
  <2>1. PICK j : j = [stage |-> "refund", checkout |-> p, row |-> invoice[p].row, cancel |-> PaysFor(p)]
    OBVIOUS
  <2>2. /\ job' = [job EXCEPT ![h] = j] /\ UNCHANGED <<stripeVars, tables>>
        /\ p \in Packages /\ "refunded" \in Delivered(p) /\ invoice[p].status # "none"
    BY <1>3, <2>1 DEF ReadsReturn, Reads
  <2>3. Paid(p) /\ invoice[p].row \in DOMAIN rows /\ invoice[p].row \in Nat /\ account
    BY <2>2, PaidStories DEF Sound, Types, InvoicesArePaid, RowsAreGiven
  <2>4. PaysFor(p) \in BOOLEAN /\ (PaysFor(p) => rows[invoice[p].row].source # "free")
    BY <2>2, <2>3, CheckoutsAssumption DEF PaysFor, Sound, RowsAreGiven, Packages
  <2>5. j \in Return
    BY <2>1, <2>3, <2>4 DEF Return
  <2>6. j.stage = "refund" /\ j.checkout = p /\ j.row = invoice[p].row /\ j.cancel = PaysFor(p)
    BY <2>1
  <2>7. Real(j)
    BY <2>2, <2>3, <2>4, <2>6 DEF Real
  <2>. QED BY <2>2, <2>5, <2>7, RealStays, JobChanges
<1>4. ASSUME NEW h \in Handlers, NEW p \in Checkouts, NEW event \in PaidEvents \cup {"confirm"}, ReadsPurchase(h, p, event)
      PROVE  job' \in [Handlers -> {Idle} \cup Purchase \cup Return] /\ JobsAreReal'
  <2>1. PICK j : j = [stage |-> "apply", checkout |-> p, event |-> event, decision |-> Decision(p), row |-> Newest]
    OBVIOUS
  <2>2. /\ job' = [job EXCEPT ![h] = j]
        /\ Paid(p) /\ account /\ (event = "confirm" \/ event \in Delivered(p))
    BY <1>4, <2>1 DEF ReadsPurchase, Reads
  <2>3. /\ Decision(p) \in {"create", "update", "keep"} /\ Newest \in Nat
        /\ Decision(p) = "create" \/ Newest \in DOMAIN rows
    BY DecisionType, RowFacts DEF Sound
  <2>4. j \in Purchase
    BY <2>1, <2>3 DEF Purchase
  <2>5. j.stage = "apply" /\ j.checkout = p /\ j.event = event /\ j.decision = Decision(p) /\ j.row = Newest
    BY <2>1
  <2>6. Real(j)
    BY <2>2, <2>3, <2>5 DEF Real
  <2>. QED BY <2>2, <2>4, <2>6, RealStays, JobChanges
<1>. QED BY <1>1, <1>2, <1>3, <1>4, JobsMove
LEMMA RacedStep ==
  ASSUME Sound, Next
  PROVE  raced \subseteq raced' /\ raced' \subseteq Races
<1>. DEFINE Good == raced \subseteq raced' /\ raced' \subseteq Races
<1>1. ASSUME NEW xs, Note(xs)
      PROVE  Good
  BY <1>1 DEF Note
<1>2. ASSUME UNCHANGED raced
      PROVE  Good
  BY <1>2 DEF Sound, Types
<1>. HIDE DEF Good
<1>3. ASSUME SignUp \/ AssignPlan
      PROVE  Good
  <2>1. CASE SignUp
    BY <1>1, <1>2, <2>1 DEF SignUp
  <2>2. CASE AssignPlan
    BY <1>1, <2>2 DEF AssignPlan
  <2>. QED BY <1>3, <2>1, <2>2
<1>4. ASSUME NEW p \in Checkouts, OpenCheckout(p) \/ CheckoutCannotStart(p) \/ Pay(p) \/ DoNotPay(p) \/ Refund(p)
      PROVE  Good
  BY <1>1, <1>2, <1>4 DEF OpenCheckout, CheckoutCannotStart, Pay, DoNotPay, Refund
<1>5. ASSUME NEW p \in Checkouts, DonationRefund(p) \/ ConfirmDonation(p) \/ RefundNothing(p)
      PROVE  Good
  BY <1>1, <1>5 DEF DonationRefund, ConfirmDonation, RefundNothing
<1>6. ASSUME NEW p \in Checkouts, NEW event \in Events, DonationEvent(p, event) \/ IgnoreEvent(p, event)
      PROVE  Good
  BY <1>1, <1>6 DEF DonationEvent, IgnoreEvent
<1>7. ASSUME NEW p \in Checkouts, NEW h \in Handlers, NEW event \in Events,
             ConfirmPackage(h, p) \/ BeginRefund(h, p) \/ BeginPackage(h, p, event)
      PROVE  Good
  BY <1>1, <1>7 DEF ConfirmPackage, BeginRefund, BeginPackage
<1>8. ASSUME NEW h \in Handlers, CommitPackage(h) \/ CommitRefund(h) \/ Abandon(h)
      PROVE  Good
  BY <1>2, <1>8 DEF CommitPackage, CommitRefund, Abandon
<1>9. Good
  BY <1>3, <1>4, <1>5, <1>6, <1>7, <1>8, EventTypes DEF Next
<1>. QED BY <1>9 DEF Good

\* The history of moments.
Opens(p) == clock' = [clock EXCEPT !.now = @ + 1, !.opened = [@ EXCEPT ![p] = clock.now]]
LEMMA ClockMoves ==
  ASSUME Next
  PROVE  \/ clock' = clock
         \/ SignUp /\ freePlan /\ Tick("free")
         \/ AssignPlan /\ Tick("admin")
         \/ \E p \in Checkouts : Pay(p) /\ Tick(p)
         \/ \E p \in Checkouts : OpenCheckout(p) /\ Opens(p)
<1>1. ASSUME SignUp PROVE clock' = clock \/ (freePlan /\ Tick("free"))
  BY <1>1 DEF SignUp
<1>2. ASSUME AssignPlan PROVE Tick("admin")
  BY <1>2 DEF AssignPlan
<1>3. ASSUME NEW p \in Checkouts, CheckoutCannotStart(p) \/ DoNotPay(p) \/ Refund(p)
      PROVE  clock' = clock
  BY <1>3 DEF CheckoutCannotStart, DoNotPay, Refund
<1>4. ASSUME NEW p \in Checkouts, DonationRefund(p) \/ ConfirmDonation(p) \/ RefundNothing(p)
      PROVE  clock' = clock
  BY <1>4 DEF DonationRefund, ConfirmDonation, RefundNothing
<1>5. ASSUME NEW p \in Checkouts, NEW event \in Events, DonationEvent(p, event) \/ IgnoreEvent(p, event)
      PROVE  clock' = clock
  BY <1>5 DEF DonationEvent, IgnoreEvent
<1>6. ASSUME NEW p \in Checkouts, NEW h \in Handlers, NEW event \in Events,
             ConfirmPackage(h, p) \/ BeginRefund(h, p) \/ BeginPackage(h, p, event)
      PROVE  clock' = clock
  BY <1>6 DEF ConfirmPackage, BeginRefund, BeginPackage, Begin
<1>7. ASSUME NEW h \in Handlers, CommitPackage(h) \/ CommitRefund(h) \/ Abandon(h)
      PROVE  clock' = clock
  BY <1>7 DEF CommitPackage, CommitRefund, Abandon
<1>8. ASSUME NEW p \in Checkouts, OpenCheckout(p)
      PROVE  Opens(p)
  BY <1>8 DEF OpenCheckout, Opens
<1>9. ASSUME NEW p \in Checkouts, Pay(p)
      PROVE  Tick(p)
  BY <1>9 DEF Pay
<1>10. SignUp \/ AssignPlan \/ clock' = clock \/ \E p \in Checkouts : Pay(p) \/ OpenCheckout(p)
  BY <1>3, <1>4, <1>5, <1>6, <1>7, EventTypes DEF Next
<1>. QED BY <1>1, <1>2, <1>8, <1>9, <1>10

LEMMA TickTo ==
  ASSUME Types, NEW x \in Checkouts \cup {"free", "admin"}, Tick(x)
  PROVE  /\ clock' \in Clock /\ clock'.now = clock.now + 1 /\ clock'.opened = clock.opened
         /\ clock'.at = [clock.at EXCEPT ![x] = clock.now]
<1>. DEFINE at == [clock.at EXCEPT ![x] = clock.now]
            a == [clock EXCEPT !.now = clock.now + 1]
<1>1. clock \in Clock /\ clock' = [[clock EXCEPT !.now = clock.now + 1] EXCEPT !.at = at]
  BY DEF Types, Clock, Tick
<1>2. clock.now \in Nat /\ at \in [Checkouts \cup {"free", "admin"} -> Nat]
  BY <1>1 DEF Clock
<1>3. a \in Clock /\ a.now = clock.now + 1 /\ a.opened = clock.opened
  BY <1>1, <1>2 DEF Clock
<1>4. clock' = [a EXCEPT !.at = at]
  BY <1>1
<1>. HIDE DEF a, at
<1>5. clock' \in Clock /\ clock'.now = a.now /\ clock'.opened = a.opened /\ clock'.at = at
  BY <1>2, <1>3, <1>4 DEF Clock
<1>. QED BY <1>3, <1>5 DEF at

LEMMA OpensTo ==
  ASSUME Types, NEW p \in Checkouts, Opens(p)
  PROVE  /\ clock' \in Clock /\ clock'.now = clock.now + 1 /\ clock'.at = clock.at
         /\ clock'.opened = [clock.opened EXCEPT ![p] = clock.now]
<1>. DEFINE opened == [clock.opened EXCEPT ![p] = clock.now]
            a == [clock EXCEPT !.now = clock.now + 1]
<1>1. clock \in Clock /\ clock' = [[clock EXCEPT !.now = clock.now + 1] EXCEPT !.opened = opened]
  BY DEF Types, Clock, Opens
<1>2. clock.now \in Nat /\ opened \in [Checkouts -> Nat]
  BY <1>1 DEF Clock
<1>3. a \in Clock /\ a.now = clock.now + 1 /\ a.at = clock.at
  BY <1>1, <1>2 DEF Clock
<1>4. clock' = [a EXCEPT !.opened = opened]
  BY <1>1
<1>. HIDE DEF a, opened
<1>5. clock' \in Clock /\ clock'.now = a.now /\ clock'.at = a.at /\ clock'.opened = opened
  BY <1>2, <1>3, <1>4 DEF Clock
<1>. QED BY <1>3, <1>5 DEF opened

LEMMA ClockStep ==
  ASSUME Sound, Next
  PROVE  clock' \in Clock
  BY ClockMoves, TickTo, OpensTo DEF Sound, Types

\* What is written about donations keeps its types.
LEMMA DonationStep ==
  ASSUME Sound, Next
  PROVE  /\ donation' \in [Checkouts -> {"none", "PENDING", "PAID", "FAILED", "REFUNDED"}]
         /\ linked' \in [Checkouts -> BOOLEAN]
<1>. DEFINE Good == /\ donation' \in [Checkouts -> {"none", "PENDING", "PAID", "FAILED", "REFUNDED"}]
                    /\ linked' \in [Checkouts -> BOOLEAN]
<1>1. CASE SignUp \/ AssignPlan
  BY <1>1 DEF SignUp, AssignPlan, Sound, Types
<1>2. ASSUME NEW p \in Checkouts, Pay(p) \/ DoNotPay(p) \/ Refund(p)
      PROVE  Good
  BY <1>2 DEF Pay, DoNotPay, Refund, Happens, Sound, Types
<1>3. ASSUME NEW p \in Checkouts, OpenCheckout(p) \/ CheckoutCannotStart(p)
      PROVE  Good
  BY <1>3 DEF OpenCheckout, CheckoutCannotStart, Happens, Sound, Types
<1>4. ASSUME NEW p \in Checkouts, DonationRefund(p) \/ ConfirmDonation(p)
      PROVE  Good
  BY <1>4 DEF DonationRefund, ConfirmDonation, Sound, Types
<1>5. ASSUME NEW p \in Checkouts, NEW event \in Events, DonationEvent(p, event)
      PROVE  Good
  <2>1. DonationStatus(event) \in {"PAID", "FAILED"} /\ (linked[p] \/ event # "expired") \in BOOLEAN
    BY DEF DonationStatus, Sound, Types
  <2>. QED BY <1>5, <2>1 DEF DonationEvent, Sound, Types
<1>6. ASSUME NEW p \in Checkouts, NEW event \in Events, IgnoreEvent(p, event) \/ RefundNothing(p)
      PROVE  Good
  BY <1>6 DEF IgnoreEvent, RefundNothing, tables, Sound, Types
<1>7. ASSUME NEW p \in Checkouts, NEW h \in Handlers, NEW event \in Events,
             ConfirmPackage(h, p) \/ BeginRefund(h, p) \/ BeginPackage(h, p, event)
      PROVE  Good
  BY <1>7 DEF ConfirmPackage, BeginRefund, BeginPackage, Begin, tables, Sound, Types
<1>8. ASSUME NEW h \in Handlers, CommitPackage(h) \/ CommitRefund(h) \/ Abandon(h)
      PROVE  Good
  BY <1>8 DEF CommitPackage, CommitRefund, Abandon, tables, Sound, Types
<1>. HIDE DEF Good
<1>9. Good
  BY <1>1, <1>2, <1>3, <1>4, <1>5, <1>6, <1>7, <1>8, EventTypes DEF Next, Good
<1>. QED BY <1>9 DEF Good

LEMMA InitSound ==
  ASSUME Init
  PROVE  Sound
<1>1. kind \in [Checkouts -> {"package", "donation"}]
  BY DEF Init
<1>2. <<>> \in Seq(Row) /\ DOMAIN <<>> = {}
  OBVIOUS
<1>3. clock \in Clock
  BY DEF Init, Clock
<1>4. Types
  BY <1>1, <1>2, <1>3 DEF Init, Types
<1>5. Stories
  BY DEF Init, Stories, Story, Delivered
<1>6. RowsAreGiven /\ InvoicesArePaid
  BY <1>2 DEF Init, RowsAreGiven, InvoicesArePaid
<1>7. JobsAreReal
  BY DEF Init, JobsAreReal, Real, Idle
<1>. QED BY <1>4, <1>5, <1>6, <1>7 DEF Sound

LEMMA SoundStays ==
  ASSUME Sound, [Next]_vars
  PROVE  Sound'
<1>1. CASE Next
  <2>1. StripeMoves /\ Stories' /\ kind' = kind /\ account' \in BOOLEAN
    BY <1>1, StripeStep, StoriesStay, WhatStays DEF Sound
  <2>2. Types'
    BY <1>1, <2>1, StoriesStay, RowsStep, InvoicesStep, JobsStep, RacedStep, ClockStep, DonationStep DEF Sound, Types
  <2>. QED BY <1>1, <2>1, <2>2, RowsStep, InvoicesStep, JobsStep DEF Sound
<1>2. CASE UNCHANGED vars
  <2>1. Types'
    BY <1>2 DEF vars, stripeVars, tables, Sound, Types
  <2>2. Stories'
    BY <1>2, StoriesStay DEF vars, StripeMoves, Sound
  <2>3. RowsAreGiven' /\ InvoicesArePaid'
    BY <1>2 DEF vars, stripeVars, tables, Sound, RowsAreGiven, InvoicesArePaid, Paid, Packages
  <2>4. JobsAreReal'
    BY <1>2 DEF vars, stripeVars, tables, Sound, JobsAreReal, Real, Delivered, Paid, Packages
  <2>. QED BY <2>1, <2>2, <2>3, <2>4 DEF Sound
<1>. QED BY <1>1, <1>2

LEMMA SoundIsTyped ==
  ASSUME Sound
  PROVE  TypeOK
<1>1. \A i \in DOMAIN rows : rows[i] \in Row
  BY RowFacts DEF Sound
<1>. QED BY <1>1 DEF TypeOK, Sound, Types, RowsAreGiven, InvoicesArePaid, Paid, Row

\* The tables stay consistent: an invoice is of a payment that happened and names
\* a subscription that exists, and only an account has one.
THEOREM TypeCorrect == Spec => []TypeOK
<1>1. Init => Sound
  BY InitSound
<1>2. Sound /\ [Next]_vars => Sound'
  BY SoundStays
<1>3. Sound => TypeOK
  BY SoundIsTyped
<1>. QED BY <1>1, <1>2, <1>3, PTL DEF Spec
-------------------------------------------------------------------------------
\* The order of events.

LEMMA TurnType ==
  ASSUME NEW event \in Events
  PROVE  Turn(event) \in {1, 2, 3}
  BY DEF Turn, Events, PaidEvents, FailedEvents

LEMMA OneOfATurn ==
  ASSUME Sound, NEW p \in Checkouts, NEW e \in Delivered(p), NEW f \in Delivered(p), Turn(e) = Turn(f)
  PROVE  e = f
<1>1. Story(p) /\ stripe[p] \in {"none", "open", "processing", "paid", "failed", "expired", "refunded"}
  BY DEF Sound, Types, Stories
<1>2. \E s \in {{}, {"completedUnpaid"}, {"completedPaid"}, {"completedUnpaid", "asyncPaid"},
                {"completedUnpaid", "asyncFailed"}, {"expired"}, {"completedPaid", "refunded"},
                {"completedUnpaid", "asyncPaid", "refunded"}} : Delivered(p) = s
  BY <1>1 DEF Story
<1>. QED BY <1>2 DEF Turn

\* An event that happens comes after those that have.
LEMMA EmissionIsLast ==
  ASSUME Sound, NEW p \in Checkouts, Emission(p)
  PROVE  /\ done' = done /\ \A q \in Checkouts \ {p} : due'[q] = due[q]
         /\ due[p] \subseteq due'[p]
         /\ \A e \in Delivered(p), f \in due'[p] \ due[p] : Turn(e) < Turn(f)
<1>1. PICK to \in {"open", "processing", "paid", "failed", "expired", "refunded"}, events \in SUBSET Events :
        /\ due' = [due EXCEPT ![p] = due[p] \cup events]
        /\ <<stripe[p], to, events>> \in
             {<<"none", "open", {}>>, <<"open", "paid", {"completedPaid"}>>,
              <<"processing", "paid", {"asyncPaid"}>>, <<"open", "processing", {"completedUnpaid"}>>,
              <<"processing", "failed", {"asyncFailed"}>>, <<"open", "expired", {"expired"}>>,
              <<"paid", "refunded", {"refunded"}>>}
        /\ done' = done
  BY DEF Emission
<1>2. due'[p] = due[p] \cup events /\ \A q \in Checkouts \ {p} : due'[q] = due[q]
  BY <1>1 DEF Sound, Types
<1>3. Story(p)
  BY DEF Sound, Stories
<1>4. ASSUME NEW e \in Delivered(p), NEW f \in events
      PROVE  Turn(e) < Turn(f)
  <2>1. CASE stripe[p] \in {"none", "open"}
    BY <1>3, <1>4, <2>1 DEF Story
  <2>2. CASE stripe[p] = "processing"
    <3>1. e = "completedUnpaid" /\ f \in {"asyncPaid", "asyncFailed"}
      BY <1>1, <1>3, <1>4, <2>2 DEF Story
    <3>. QED BY <3>1 DEF Turn
  <2>3. CASE stripe[p] = "paid"
    <3>1. e \in {"completedPaid", "completedUnpaid", "asyncPaid"} /\ f = "refunded"
      BY <1>1, <1>3, <1>4, <2>3 DEF Story
    <3>. QED BY <3>1 DEF Turn
  <2>. QED BY <1>1, <2>1, <2>2, <2>3
<1>. QED BY <1>1, <1>2, <1>4

LEMMA BehindStays ==
  ASSUME Sound, StripeMoves, NEW p \in Checkouts, NEW e \in Delivered(p), Behind(p, e)
  PROVE  Behind(p, e)'
<1>0. due \in [Checkouts -> SUBSET Events] /\ e \in Events
  BY DEF Sound, Types, Delivered
<1>1. CASE UNCHANGED stripeVars
  BY <1>1 DEF stripeVars, Behind
<1>2. ASSUME NEW q \in Checkouts, NEW event \in Events, Acknowledged(q, event)
      PROVE  Behind(p, e)'
  <2>1. due'[p] \subseteq due[p]
    BY <1>0, <1>2 DEF Acknowledged, Acknowledge
  <2>. QED BY <2>1 DEF Behind
<1>3. ASSUME NEW q \in Checkouts, Emission(q)
      PROVE  Behind(p, e)'
  <2>1. ASSUME NEW f \in due'[p], f \notin due[p]
        PROVE  Turn(e) < Turn(f)
    BY <1>3, <2>1, EmissionIsLast
  <2>2. due'[p] \subseteq Events
    BY <1>3, StoriesStay DEF StripeMoves, Sound
  <2>3. ASSUME NEW f \in due'[p]
        PROVE  Turn(e) <= Turn(f)
    BY <1>0, <2>1, <2>2, <2>3, TurnType DEF Behind
  <2>. QED BY <2>3 DEF Behind
<1>. QED BY <1>1, <1>2, <1>3 DEF StripeMoves

\* A delivery that is no race is of the oldest event that is due.
LEMMA DeliveryInOrder ==
  ASSUME Sound, NEW p \in Checkouts, NEW event \in Events, Delivery(p, event) \cap {"reordered", "redelivered"} = {}
  PROVE  event \in due[p] /\ Behind(p, event)
<1>1. event \in due[p]
  BY DEF Delivery
<1>2. \A e \in due[p] : ~(Turn(e) < Turn(event))
  BY <1>1 DEF Delivery
<1>3. due[p] \subseteq Events
  BY DEF Sound, Types
<1>4. ASSUME NEW e \in due[p] PROVE Turn(event) <= Turn(e)
  BY <1>2, <1>3, <1>4, TurnType
<1>. QED BY <1>1, <1>4 DEF Behind

\* Without such a race it is the oldest event that is acknowledged.
LEMMA OldestFirst ==
  ASSUME Sound, InOrder, Next, raced' \cap {"reordered", "redelivered"} = {}
  PROVE  \/ UNCHANGED stripeVars
         \/ \E p \in Checkouts, event \in Events : Acknowledged(p, event) /\ Behind(p, event)
         \/ \E p \in Checkouts : Emission(p)
<1>. DEFINE Oldest(p, event) == Acknowledged(p, event) /\ Behind(p, event)
<1>1. ASSUME SignUp \/ AssignPlan
      PROVE  UNCHANGED stripeVars
  BY <1>1 DEF SignUp, AssignPlan, stripeVars
<1>2. ASSUME NEW p \in Checkouts, OpenCheckout(p) \/ Pay(p) \/ DoNotPay(p) \/ Refund(p)
      PROVE  Emission(p)
  BY <1>2 DEF OpenCheckout, Pay, DoNotPay, Refund, Happens, Emission, Events, PaidEvents, FailedEvents
<1>3. ASSUME NEW p \in Checkouts, CheckoutCannotStart(p) \/ ConfirmDonation(p)
      PROVE  UNCHANGED stripeVars
  BY <1>3 DEF CheckoutCannotStart, ConfirmDonation, stripeVars
<1>4. ASSUME NEW p \in Checkouts, DonationRefund(p) \/ RefundNothing(p)
      PROVE  Oldest(p, "refunded")
  <2>1. Delivery(p, "refunded") \cap {"reordered", "redelivered"} = {}
    BY <1>4 DEF DonationRefund, RefundNothing, Note
  <2>2. Acknowledged(p, "refunded")
    BY <1>4 DEF DonationRefund, RefundNothing, Acknowledged
  <2>. QED BY <2>1, <2>2, DeliveryInOrder, EventTypes
<1>5. ASSUME NEW p \in Checkouts, NEW event \in Events, DonationEvent(p, event) \/ IgnoreEvent(p, event)
      PROVE  Oldest(p, event)
  <2>1. Delivery(p, event) \cap {"reordered", "redelivered"} = {}
    BY <1>5 DEF DonationEvent, IgnoreEvent, Note
  <2>2. Acknowledged(p, event)
    BY <1>5 DEF DonationEvent, IgnoreEvent, Acknowledged, Delivered
  <2>. QED BY <2>1, <2>2, DeliveryInOrder
<1>6. ASSUME NEW p \in Checkouts, NEW h \in Handlers, NEW event \in Events,
             ConfirmPackage(h, p) \/ BeginRefund(h, p) \/ BeginPackage(h, p, event)
      PROVE  UNCHANGED stripeVars
  BY <1>6 DEF ConfirmPackage, BeginRefund, BeginPackage, Begin, stripeVars
<1>7. raced \cap {"reordered", "redelivered"} = {}
  BY RacedStep
<1>8. ASSUME NEW h \in Handlers, CommitPackage(h)
      PROVE  UNCHANGED stripeVars \/ \E p \in Checkouts, event \in Events : Oldest(p, event)
  <2>1. job[h] \in Purchase /\ Real(job[h]) /\ Heeds(job[h]) /\ job[h].stage = "apply"
    BY <1>7, <1>8, CommitPackageRows DEF CommitPackage, Sound, JobsAreReal, InOrder
  <2>2. CASE job[h].event = "confirm"
    BY <1>8, <2>2 DEF CommitPackage, stripeVars
  <2>3. CASE job[h].event # "confirm"
    <3>1. job[h].event \in Events /\ job[h].checkout \in Checkouts
      BY <2>1, <2>3, EventTypes DEF Purchase
    <3>2. Oldest(job[h].checkout, job[h].event)
      BY <1>8, <2>1, <2>3 DEF CommitPackage, Real, Heeds, Acknowledged
    <3>. QED BY <3>1, <3>2
  <2>. QED BY <2>2, <2>3
<1>9. ASSUME NEW h \in Handlers, CommitRefund(h)
      PROVE  \E p \in Checkouts, event \in Events : Oldest(p, event)
  <2>1. job[h] \in Return /\ Real(job[h]) /\ Heeds(job[h]) /\ job[h].stage = "refund"
    BY <1>7, <1>9, CommitRefundRows DEF CommitRefund, Sound, JobsAreReal, InOrder
  <2>2. Oldest(job[h].checkout, "refunded") /\ job[h].checkout \in Checkouts
    BY <1>9, <2>1 DEF CommitRefund, Real, Heeds, Acknowledged, Return
  <2>. QED BY <2>2, EventTypes
<1>10. ASSUME NEW h \in Handlers, Abandon(h)
      PROVE  UNCHANGED stripeVars
  BY <1>10 DEF Abandon, stripeVars
<1>. HIDE DEF Oldest
<1>11. \/ UNCHANGED stripeVars
       \/ \E p \in Checkouts, event \in Events : Oldest(p, event)
       \/ \E p \in Checkouts : Emission(p)
  BY <1>1, <1>2, <1>3, <1>4, <1>5, <1>6, <1>8, <1>9, <1>10, EventTypes DEF Next
<1>. QED BY <1>11 DEF Oldest

LEMMA HeedsStays ==
  ASSUME Sound, StripeMoves, NEW j \in {Idle} \cup Purchase \cup Return, Real(j), Heeds(j)
  PROVE  Heeds(j)'
<1>1. CASE j.stage = "apply" /\ j.event # "confirm"
  BY <1>1, BehindStays DEF Heeds, Real, Idle, Purchase, Return
<1>2. CASE j.stage = "refund"
  BY <1>2, BehindStays DEF Heeds, Real, Idle, Purchase, Return
<1>. QED BY <1>1, <1>2 DEF Heeds
\* A handler's own steps.
LEMMA JobWrites ==
  ASSUME Sound, Next, NEW h \in Handlers
  PROVE  \/ job'[h] = job[h]
         \/ job'[h] = Idle /\ (CommitPackage(h) \/ CommitRefund(h) \/ Abandon(h))
         \/ job[h] = Idle /\ \E p \in Checkouts :
              \/ ConfirmPackage(h, p) \/ BeginRefund(h, p)
              \/ \E event \in Events : BeginPackage(h, p, event)
<1>1. CASE job' = job
  BY <1>1
<1>2. ASSUME NEW g \in Handlers, CommitPackage(g) \/ CommitRefund(g) \/ Abandon(g)
      PROVE  job' = [job EXCEPT ![g] = Idle]
  BY <1>2 DEF CommitPackage, CommitRefund, Abandon
<1>3. ASSUME NEW g \in Handlers, NEW p \in Checkouts, NEW event \in Events,
             ConfirmPackage(g, p) \/ BeginRefund(g, p) \/ BeginPackage(g, p, event)
      PROVE  job[g] = Idle /\ \E j : job' = [job EXCEPT ![g] = j]
  BY <1>3 DEF ConfirmPackage, BeginRefund, BeginPackage, Begin
<1>4. ASSUME SignUp \/ AssignPlan
      PROVE  job' = job
  BY <1>4 DEF SignUp, AssignPlan
<1>5. ASSUME NEW p \in Checkouts, OpenCheckout(p) \/ CheckoutCannotStart(p) \/ Pay(p) \/ DoNotPay(p) \/ Refund(p)
      PROVE  job' = job
  BY <1>5 DEF OpenCheckout, CheckoutCannotStart, Pay, DoNotPay, Refund, Happens
<1>6. ASSUME NEW p \in Checkouts, DonationRefund(p) \/ ConfirmDonation(p) \/ RefundNothing(p)
      PROVE  job' = job
  BY <1>6 DEF DonationRefund, ConfirmDonation, RefundNothing
<1>7. ASSUME NEW p \in Checkouts, NEW event \in Events, DonationEvent(p, event) \/ IgnoreEvent(p, event)
      PROVE  job' = job
  BY <1>7 DEF DonationEvent, IgnoreEvent
<1>8. \/ job' = job
      \/ \E g \in Handlers :
           \/ CommitPackage(g) \/ CommitRefund(g) \/ Abandon(g)
           \/ \E p \in Checkouts :
                \/ ConfirmPackage(g, p) \/ BeginRefund(g, p)
                \/ \E event \in Events : BeginPackage(g, p, event)
  BY <1>4, <1>5, <1>6, <1>7, EventTypes DEF Next
<1>9. ASSUME NEW g \in Handlers, g # h, NEW j, job' = [job EXCEPT ![g] = j]
      PROVE  job'[h] = job[h]
  BY <1>9 DEF Sound, Types
<1>10. ASSUME NEW g \in Handlers, CommitPackage(g) \/ CommitRefund(g) \/ Abandon(g)
       PROVE  job'[h] = job[h] \/ (job'[h] = Idle /\ (CommitPackage(h) \/ CommitRefund(h) \/ Abandon(h)))
  <2>1. CASE g = h
    <3>1. job'[h] = Idle
      BY <1>2, <1>10, <2>1 DEF Sound, Types
    <3>. QED BY <1>10, <2>1, <3>1
  <2>. QED BY <1>2, <1>9, <1>10, <2>1
<1>11. ASSUME NEW g \in Handlers, NEW p \in Checkouts, NEW event \in Events,
              ConfirmPackage(g, p) \/ BeginRefund(g, p) \/ BeginPackage(g, p, event)
       PROVE  job'[h] = job[h] \/ (g = h /\ job[h] = Idle)
  BY <1>3, <1>9, <1>11
<1>. QED BY <1>1, <1>8, <1>10, <1>11, EventTypes

LEMMA InOrderStays ==
  ASSUME Sound, InOrder, Next
  PROVE  InOrder'
<1>. SUFFICES ASSUME raced' \cap {"reordered", "redelivered"} = {}
              PROVE  /\ \A p \in Checkouts : \A e \in done'[p], f \in due'[p] : Turn(e) < Turn(f)
                     /\ \A h \in Handlers : Heeds(job[h])'
  BY DEF InOrder
<1>1. /\ StripeMoves
      /\ \A p \in Checkouts : \A e \in done[p], f \in due[p] : Turn(e) < Turn(f)
      /\ \A h \in Handlers : Heeds(job[h])
  BY StripeStep, RacedStep DEF InOrder
<1>2. \A p \in Checkouts : \A e \in done'[p], f \in due'[p] : Turn(e) < Turn(f)
  <2>1. CASE UNCHANGED stripeVars
    BY <1>1, <2>1 DEF stripeVars
  <2>2. ASSUME NEW q \in Checkouts, NEW event \in Events, Acknowledged(q, event), Behind(q, event),
               NEW p \in Checkouts, NEW e \in done'[p], NEW f \in due'[p]
        PROVE  Turn(e) < Turn(f)
    <3>1. /\ due \in [Checkouts -> SUBSET Events] /\ done \in [Checkouts -> SUBSET Events]
          /\ due' = [due EXCEPT ![q] = due[q] \ {event}] /\ done' = [done EXCEPT ![q] = done[q] \cup {event}]
          /\ event \in Delivered(q)
      BY <2>2 DEF Sound, Types, Acknowledged, Acknowledge
    <3>2. CASE e \in done[p]
      BY <1>1, <2>2, <3>1, <3>2
    <3>3. CASE e \notin done[p]
      <4>1. p = q /\ e = event /\ f \in due[q] /\ f # event
        BY <2>2, <3>1, <3>3
      <4>2. f \in Delivered(q) /\ Turn(event) <= Turn(f)
        BY <2>2, <4>1 DEF Delivered, Behind
      <4>3. Turn(event) # Turn(f)
        BY <3>1, <4>1, <4>2, OneOfATurn
      <4>4. Turn(event) \in {1, 2, 3} /\ Turn(f) \in {1, 2, 3}
        BY <3>1, <4>1, TurnType
      <4>. QED BY <4>1, <4>2, <4>3, <4>4
    <3>. QED BY <3>2, <3>3
  <2>3. ASSUME NEW q \in Checkouts, Emission(q),
               NEW p \in Checkouts, NEW e \in done'[p], NEW f \in due'[p]
        PROVE  Turn(e) < Turn(f)
    <3>1. done' = done /\ (f \in due[p] \/ (p = q /\ f \in due'[q] \ due[q]))
      BY <2>3, EmissionIsLast
    <3>2. CASE f \in due[p]
      BY <1>1, <2>3, <3>1, <3>2
    <3>3. CASE f \notin due[p]
      BY <2>3, <3>1, <3>3, EmissionIsLast DEF Delivered
    <3>. QED BY <3>2, <3>3
  <2>. QED BY <2>1, <2>2, <2>3, OldestFirst
<1>3. ASSUME NEW h \in Handlers
      PROVE  Heeds(job[h])'
  <2>. DEFINE Jobs == {Idle} \cup Purchase \cup Return
  <2>1. PICK k : k = job'[h]
    OBVIOUS
  <2>2. CASE k = job[h]
    <3>1. k \in Jobs /\ Real(k) /\ Heeds(k)
      BY <1>1, <2>2 DEF Sound, Types, JobsAreReal
    <3>2. Heeds(k)'
      BY <1>1, <3>1, HeedsStays
    <3>. QED BY <2>1, <3>2 DEF Heeds
  <2>3. CASE k = Idle
    BY <2>1, <2>3 DEF Heeds, Idle
  <2>4. ASSUME k # job[h], k # Idle
        PROVE  /\ UNCHANGED stripeVars
               /\ \E p \in Checkouts :
                    \/ k.stage = "refund" /\ k.checkout = p /\ Behind(p, "refunded")
                    \/ k.stage = "apply" /\ k.checkout = p /\ (k.event = "confirm" \/ Behind(p, k.event))
    <3>1. CASE \E p \in Checkouts : BeginRefund(h, p)
      <4>1. PICK p \in Checkouts : BeginRefund(h, p)
        BY <3>1
      <4>2. UNCHANGED stripeVars /\ k.stage = "refund" /\ k.checkout = p
        BY <2>1, <4>1 DEF BeginRefund, Sound, Types
      <4>3. Delivery(p, "refunded") \cap {"reordered", "redelivered"} = {}
        BY <4>1 DEF BeginRefund, Note
      <4>4. Behind(p, "refunded")
        BY <4>3, DeliveryInOrder, EventTypes
      <4>. QED BY <4>2, <4>4
    <3>2. CASE \E p \in Checkouts, event \in Events : BeginPackage(h, p, event)
      <4>1. PICK p \in Checkouts, event \in Events : BeginPackage(h, p, event)
        BY <3>2
      <4>2. UNCHANGED stripeVars /\ k.stage = "apply" /\ k.checkout = p /\ k.event = event
        BY <2>1, <4>1 DEF BeginPackage, Begin, Sound, Types
      <4>3. Delivery(p, event) \cap {"reordered", "redelivered"} = {}
        BY <4>1 DEF BeginPackage, Note
      <4>4. Behind(p, event)
        BY <4>3, DeliveryInOrder
      <4>. QED BY <4>2, <4>4
    <3>3. CASE \E p \in Checkouts : ConfirmPackage(h, p)
      BY <2>1, <3>3 DEF ConfirmPackage, Begin, Sound, Types, stripeVars
    <3>. QED BY <2>1, <2>4, <3>1, <3>2, <3>3, JobWrites
  <2>5. CASE k # job[h] /\ k # Idle
    <3>1. Heeds(k)'
      BY <2>4, <2>5 DEF Heeds, Behind, stripeVars
    <3>. QED BY <2>1, <3>1 DEF Heeds
  <2>. QED BY <2>2, <2>3, <2>5
<1>. QED BY <1>2, <1>3
-------------------------------------------------------------------------------
\* Donations.

LEMMA DonationWrites ==
  ASSUME Sound, Next, NEW p \in Donations
  PROVE  \/ /\ donation'[p] = donation[p] /\ linked'[p] = linked[p]
            /\ stripe'[p] = stripe[p] /\ due'[p] = due[p] /\ done'[p] = done[p]
         \/ OpenCheckout(p) \/ CheckoutCannotStart(p) \/ Pay(p) \/ DoNotPay(p) \/ Refund(p)
         \/ DonationRefund(p) \/ ConfirmDonation(p) \/ \E event \in Events : DonationEvent(p, event)
<1>. DEFINE Same == /\ donation'[p] = donation[p] /\ linked'[p] = linked[p]
                    /\ stripe'[p] = stripe[p] /\ due'[p] = due[p] /\ done'[p] = done[p]
<1>1. /\ p \in Checkouts \ Packages
      /\ donation = [q \in Checkouts |-> donation[q]] /\ linked = [q \in Checkouts |-> linked[q]]
      /\ stripe = [q \in Checkouts |-> stripe[q]] /\ due = [q \in Checkouts |-> due[q]]
      /\ done = [q \in Checkouts |-> done[q]]
  BY DEF Donations, Sound, Types
<1>2. ASSUME SignUp \/ AssignPlan
      PROVE  Same
  BY <1>2 DEF SignUp, AssignPlan, stripeVars
<1>3. ASSUME NEW q \in Checkouts \ {p}, OpenCheckout(q) \/ Pay(q) \/ DoNotPay(q) \/ Refund(q)
      PROVE  Same
  BY <1>1, <1>3 DEF OpenCheckout, Pay, DoNotPay, Refund, Happens
<1>4. ASSUME NEW q \in Checkouts \ {p}, CheckoutCannotStart(q) \/ ConfirmDonation(q)
      PROVE  Same
  BY <1>1, <1>4 DEF CheckoutCannotStart, ConfirmDonation, stripeVars
<1>5. ASSUME NEW q \in Checkouts \ {p}, NEW event \in Events, Acknowledge(q, event)
      PROVE  due'[p] = due[p] /\ done'[p] = done[p]
  BY <1>1, <1>5 DEF Acknowledge
<1>6. ASSUME NEW q \in Checkouts \ {p}, DonationRefund(q)
      PROVE  Same
  BY <1>1, <1>5, <1>6, EventTypes DEF DonationRefund
<1>7. ASSUME NEW q \in Checkouts \ {p}, NEW event \in Events, DonationEvent(q, event)
      PROVE  Same
  BY <1>1, <1>5, <1>7 DEF DonationEvent
<1>8. ASSUME NEW q \in Checkouts, RefundNothing(q)
      PROVE  Same
  BY <1>1, <1>5, <1>8, EventTypes DEF RefundNothing, tables
<1>9. ASSUME NEW q \in Checkouts, NEW event \in Events, IgnoreEvent(q, event)
      PROVE  Same
  BY <1>1, <1>5, <1>9 DEF IgnoreEvent, tables
<1>10. ASSUME NEW q \in Checkouts, NEW h \in Handlers, NEW event \in Events,
             ConfirmPackage(h, q) \/ BeginRefund(h, q) \/ BeginPackage(h, q, event)
      PROVE  Same
  BY <1>10 DEF ConfirmPackage, BeginRefund, BeginPackage, Begin, stripeVars, tables
<1>11. ASSUME NEW h \in Handlers, CommitPackage(h)
       PROVE  Same
  <2>1. /\ job[h] \in Purchase /\ job[h].checkout \in Checkouts \ {p}
        /\ donation' = donation /\ linked' = linked /\ stripe' = stripe
    BY <1>1, <1>11, CommitPackageRows DEF CommitPackage, Paid, Packages
  <2>2. CASE job[h].event = "confirm"
    BY <1>11, <2>1, <2>2 DEF CommitPackage
  <2>3. CASE job[h].event # "confirm"
    <3>1. job[h].event \in Events /\ Acknowledge(job[h].checkout, job[h].event)
      BY <1>11, <2>1, <2>3, EventTypes DEF CommitPackage, Purchase
    <3>. QED BY <1>5, <2>1, <3>1
  <2>. QED BY <2>2, <2>3
<1>12. ASSUME NEW h \in Handlers, CommitRefund(h)
       PROVE  Same
  <2>1. /\ job[h].checkout \in Checkouts \ {p} /\ Acknowledge(job[h].checkout, "refunded")
        /\ donation' = donation /\ linked' = linked /\ stripe' = stripe
    BY <1>1, <1>12, CommitRefundRows DEF CommitRefund, Paid, Packages
  <2>. QED BY <1>5, <2>1, EventTypes
<1>13. ASSUME NEW h \in Handlers, Abandon(h)
       PROVE  Same
  BY <1>13 DEF Abandon, stripeVars, tables
<1>. HIDE DEF Same
<1>14. \/ Same
       \/ OpenCheckout(p) \/ CheckoutCannotStart(p) \/ Pay(p) \/ DoNotPay(p) \/ Refund(p)
       \/ DonationRefund(p) \/ ConfirmDonation(p) \/ \E event \in Events : DonationEvent(p, event)
  BY <1>2, <1>3, <1>4, <1>6, <1>7, <1>8, <1>10, <1>11, <1>12, <1>13, <1>9, EventTypes DEF Next
<1>. QED BY <1>14 DEF Same

LEMMA LinkedStays ==
  ASSUME Sound, Linked, Next
  PROVE  Linked'
<1>1. Donations' = Donations
  BY WhatStays
<1>2. ASSUME NEW p \in Donations
      PROVE  done'[p] \subseteq {"expired", "refunded"} \/ linked'[p]
  <2>1. /\ p \in Checkouts /\ (done[p] \subseteq {"expired", "refunded"} \/ linked[p])
        /\ done = [q \in Checkouts |-> done[q]] /\ linked \in [Checkouts -> BOOLEAN]
    BY DEF Linked, Donations, Sound, Types
  <2>2. CASE done'[p] = done[p] /\ linked'[p] = linked[p]
    BY <2>1, <2>2
  <2>3. CASE OpenCheckout(p) \/ Pay(p) \/ DoNotPay(p) \/ Refund(p)
    BY <2>1, <2>3 DEF OpenCheckout, Pay, DoNotPay, Refund, Happens
  <2>4. CASE CheckoutCannotStart(p) \/ ConfirmDonation(p)
    BY <2>1, <2>4 DEF CheckoutCannotStart, ConfirmDonation, stripeVars
  <2>5. CASE DonationRefund(p)
    BY <2>1, <2>5 DEF DonationRefund, Acknowledge
  <2>6. ASSUME NEW event \in Events, DonationEvent(p, event)
        PROVE  done'[p] \subseteq {"expired", "refunded"} \/ linked'[p]
    BY <2>1, <2>6 DEF DonationEvent, Acknowledge
  <2>. QED BY <2>2, <2>3, <2>4, <2>5, <2>6, DonationWrites
<1>. QED BY <1>1, <1>2 DEF Linked

LEMMA DonationTellsStays ==
  ASSUME DonationInv, Next
  PROVE  DonationTellsUnlessRaced'
<1>. SUFFICES ASSUME NEW p \in Donations, due'[p] = {}, raced' \cap {"reordered", "redelivered", "reconfirmed"} = {}
              PROVE  Told(p)'
  BY WhatStays DEF DonationTellsUnlessRaced, DonationInv
<1>1. /\ p \in Checkouts /\ Story(p) /\ raced \subseteq raced'
      /\ due \in [Checkouts -> SUBSET Events] /\ done = [q \in Checkouts |-> done[q]]
      /\ donation = [q \in Checkouts |-> donation[q]] /\ stripe = [q \in Checkouts |-> stripe[q]]
      /\ stripe[p] \in {"none", "open", "processing", "paid", "failed", "expired", "refunded"}
  BY RacedStep DEF DonationInv, Donations, Sound, Types, Stories
<1>2. /\ due[p] = {} => Told(p)
      /\ \A e \in done[p], f \in due[p] : Turn(e) < Turn(f)
      /\ done[p] \subseteq {"expired", "refunded"} \/ linked[p]
  BY <1>1 DEF DonationInv, DonationTellsUnlessRaced, InOrder, Linked
<1>3. CASE donation'[p] = donation[p] /\ stripe'[p] = stripe[p] /\ due'[p] = due[p]
  BY <1>2, <1>3 DEF Told
<1>4. CASE OpenCheckout(p) \/ CheckoutCannotStart(p)
  <2>1. stripe'[p] \in {"open", "none"}
    BY <1>1, <1>4 DEF OpenCheckout, CheckoutCannotStart, Happens, stripeVars
  <2>. QED BY <2>1 DEF Told
<1>5. ~(Pay(p) \/ DoNotPay(p) \/ Refund(p))
  BY <1>1 DEF Pay, DoNotPay, Refund, Happens
<1>6. CASE DonationRefund(p)
  <2>1. Delivery(p, "refunded") \cap {"reordered", "redelivered"} = {} /\ stripe' = stripe
        /\ due' = [due EXCEPT ![p] = due[p] \ {"refunded"}]
    BY <1>6 DEF DonationRefund, Note, Acknowledge
  <2>2. due[p] = {"refunded"}
    BY <1>1, <2>1, DeliveryInOrder, EventTypes DEF DonationInv
  <2>3. stripe[p] = "refunded" /\ (done[p] = {"completedPaid"} \/ done[p] = {"completedUnpaid", "asyncPaid"})
    BY <1>1, <2>2 DEF Story, Delivered
  <2>4. donation'[p] = "REFUNDED"
    BY <1>1, <1>2, <1>6, <2>3 DEF DonationRefund
  <2>. QED BY <2>1, <2>3, <2>4 DEF Told
<1>7. CASE ConfirmDonation(p)
  <2>1. stripe[p] = "paid"
    BY <1>7 DEF ConfirmDonation, Note, Reconfirmed
  <2>2. donation'[p] = "PAID" /\ stripe' = stripe
    BY <1>1, <1>7 DEF ConfirmDonation, stripeVars
  <2>. QED BY <2>1, <2>2 DEF Told
<1>8. ASSUME NEW event \in Events, DonationEvent(p, event)
      PROVE  Told(p)'
  <2>1. /\ Delivery(p, event) \cap {"reordered", "redelivered"} = {} /\ stripe' = stripe
        /\ due' = [due EXCEPT ![p] = due[p] \ {event}] /\ event # "refunded"
        /\ donation'[p] = DonationStatus(event)
    BY <1>1, <1>8 DEF DonationEvent, Note, Acknowledge
  <2>2. due[p] = {event}
    BY <1>1, <2>1, DeliveryInOrder DEF DonationInv
  <2>3. stripe[p] # "refunded"
    <3>1. SUFFICES ASSUME stripe[p] = "refunded" PROVE FALSE
      OBVIOUS
    <3>2. "refunded" \in done[p]
      BY <1>1, <2>1, <2>2, <3>1 DEF Story, Delivered
    <3>3. Turn("refunded") < Turn(event)
      BY <1>2, <2>2, <3>2
    <3>. QED BY <3>3, TurnType DEF Turn
  <2>4. CASE stripe[p] = "paid"
    <3>1. event \in {"completedPaid", "asyncPaid"}
      <4>1. Delivered(p) = {"completedPaid"} \/ Delivered(p) = {"completedUnpaid", "asyncPaid"}
        BY <1>1, <2>4 DEF Story
      <4>2. CASE event = "completedUnpaid"
        <5>1. "asyncPaid" \in done[p]
          BY <2>2, <4>1, <4>2 DEF Delivered
        <5>2. Turn("asyncPaid") < Turn("completedUnpaid")
          BY <1>2, <2>2, <4>2, <5>1
        <5>. QED BY <5>2 DEF Turn
      <4>. QED BY <2>2, <4>1, <4>2 DEF Delivered
    <3>2. donation'[p] = "PAID"
      BY <2>1, <3>1 DEF DonationStatus, PaidEvents
    <3>. QED BY <2>1, <2>4, <3>2 DEF Told
  <2>5. CASE stripe[p] \in {"failed", "expired"}
    <3>1. event \in {"completedUnpaid", "asyncFailed", "expired"}
      BY <1>1, <2>2, <2>5 DEF Story, Delivered
    <3>2. donation'[p] = "FAILED"
      BY <2>1, <3>1 DEF DonationStatus, PaidEvents
    <3>. QED BY <2>1, <2>5, <3>2 DEF Told
  <2>6. CASE stripe[p] \in {"none", "open", "processing"}
    BY <2>1, <2>6 DEF Told
  <2>. QED BY <1>1, <2>3, <2>4, <2>5, <2>6
<1>. QED BY <1>3, <1>4, <1>5, <1>6, <1>7, <1>8, DonationWrites DEF DonationInv

LEMMA InitDonations ==
  ASSUME Init
  PROVE  DonationInv
<1>1. InOrder /\ Linked
  BY DEF Init, InOrder, Linked, Heeds, Idle, Donations
<1>2. DonationTellsUnlessRaced
  BY DEF Init, DonationTellsUnlessRaced, Told, Donations
<1>. QED BY <1>1, <1>2, InitSound DEF DonationInv

LEMMA StutterDonations ==
  ASSUME DonationInv, UNCHANGED vars
  PROVE  DonationInv'
<1>1. InOrder'
  BY DEF DonationInv, vars, stripeVars, InOrder, Heeds, Behind
<1>2. Linked' /\ DonationTellsUnlessRaced'
  BY DEF DonationInv, vars, stripeVars, tables, Linked, DonationTellsUnlessRaced, Told, Donations, Packages
<1>. QED BY <1>1, <1>2, SoundStays DEF DonationInv

\* A donation's row ends as the payment did, whatever the number of checkouts and
\* handlers, unless events came out of order or again, or a browser confirmed a refund.
THEOREM DonationTellsHolds == Spec => []DonationTellsUnlessRaced
<1>1. Init => DonationInv
  BY InitDonations
<1>2. DonationInv /\ [Next]_vars => DonationInv'
  <2>1. DonationInv /\ Next => DonationInv'
    BY SoundStays, InOrderStays, LinkedStays, DonationTellsStays DEF DonationInv
  <2>. QED BY <2>1, StutterDonations
<1>3. DonationInv => DonationTellsUnlessRaced
  BY DEF DonationInv
<1>. QED BY <1>1, <1>2, <1>3, PTL DEF Spec
-------------------------------------------------------------------------------
\* One handler at a time.

AllIdle == \A h \in Handlers : job[h] = Idle

LEMMA NotConcurrent ==
  ASSUME NEW xs, Note(Concurrent \cup xs), "concurrent" \notin raced'
  PROVE  AllIdle
<1>1. Concurrent = {}
  BY DEF Note, Concurrent
<1>2. Busy = {}
  BY <1>1 DEF Concurrent
<1>. QED BY <1>2 DEF Busy, AllIdle

LEMMA IdleIsAlone ==
  ASSUME AllIdle, Len(rows) <= 1
  PROVE  OneAtATime
  BY DEF AllIdle, OneAtATime, Current, Idle

\* A handler that begins finds no other at work.
LEMMA BeginsAlone ==
  ASSUME NEW h \in Handlers, NEW p \in Checkouts, NEW event \in Events, "concurrent" \notin raced',
         ConfirmPackage(h, p) \/ BeginRefund(h, p) \/ BeginPackage(h, p, event)
  PROVE  AllIdle
<1>1. ASSUME ConfirmPackage(h, p) PROVE AllIdle
  BY <1>1, NotConcurrent DEF ConfirmPackage
<1>2. ASSUME BeginRefund(h, p) PROVE AllIdle
  BY <1>2, NotConcurrent DEF BeginRefund
<1>3. ASSUME BeginPackage(h, p, event) PROVE AllIdle
  BY <1>3, NotConcurrent DEF BeginPackage
<1>. QED BY <1>1, <1>2, <1>3

\* What is left of the steps: they change neither a job nor what it has read.
LEMMA JobsRest ==
  ASSUME Sound, Next
  PROVE  \/ SignUp \/ AssignPlan
         \/ \E h \in Handlers : CommitPackage(h) \/ CommitRefund(h) \/ Abandon(h)
         \/ \E h \in Handlers, p \in Checkouts :
              \/ ConfirmPackage(h, p) \/ BeginRefund(h, p)
              \/ \E event \in Events : BeginPackage(h, p, event)
         \/ /\ job' = job /\ rows' = rows /\ invoice' = invoice
            /\ \A p \in Checkouts : Paid(p) => Opened(p)' = Opened(p)
<1>1. ASSUME NEW p \in Checkouts, CheckoutCannotStart(p) \/ DoNotPay(p) \/ Refund(p)
      PROVE  job' = job /\ rows' = rows /\ invoice' = invoice /\ clock' = clock
  BY <1>1 DEF CheckoutCannotStart, DoNotPay, Refund, Happens
<1>2. ASSUME NEW p \in Checkouts, DonationRefund(p) \/ ConfirmDonation(p)
      PROVE  job' = job /\ rows' = rows /\ invoice' = invoice /\ clock' = clock
  BY <1>2 DEF DonationRefund, ConfirmDonation
<1>3. ASSUME NEW p \in Checkouts, RefundNothing(p)
      PROVE  job' = job /\ rows' = rows /\ invoice' = invoice /\ clock' = clock
  BY <1>3 DEF RefundNothing, tables
<1>4. ASSUME NEW p \in Checkouts, NEW event \in Events, DonationEvent(p, event)
      PROVE  job' = job /\ rows' = rows /\ invoice' = invoice /\ clock' = clock
  BY <1>4 DEF DonationEvent
<1>5. ASSUME NEW p \in Checkouts, NEW event \in Events, IgnoreEvent(p, event)
      PROVE  job' = job /\ rows' = rows /\ invoice' = invoice /\ clock' = clock
  BY <1>5 DEF IgnoreEvent, tables
<1>6. ASSUME NEW p \in Checkouts, Pay(p)
      PROVE  /\ job' = job /\ rows' = rows /\ invoice' = invoice
             /\ clock'.opened = clock.opened
  <2>1. job' = job /\ rows' = rows /\ invoice' = invoice /\ Tick(p)
    BY <1>6 DEF Pay, Happens
  <2>. QED BY <2>1, TickTo DEF Sound
<1>7. ASSUME NEW p \in Checkouts, OpenCheckout(p)
      PROVE  /\ job' = job /\ rows' = rows /\ invoice' = invoice
             /\ \A q \in Checkouts : Paid(q) => clock'.opened[q] = clock.opened[q]
  <2>1. job' = job /\ rows' = rows /\ invoice' = invoice /\ Opens(p) /\ stripe[p] = "none"
    BY <1>7 DEF OpenCheckout, Happens, Opens
  <2>2. clock'.opened = [clock.opened EXCEPT ![p] = clock.now] /\ clock.opened \in [Checkouts -> Nat]
    BY <2>1, OpensTo DEF Sound, Types, Clock
  <2>. QED BY <2>1, <2>2 DEF Paid
<1>8. \/ SignUp \/ AssignPlan
      \/ \E h \in Handlers : CommitPackage(h) \/ CommitRefund(h) \/ Abandon(h)
      \/ \E h \in Handlers, p \in Checkouts :
           \/ ConfirmPackage(h, p) \/ BeginRefund(h, p)
           \/ \E event \in Events : BeginPackage(h, p, event)
      \/ job' = job /\ rows' = rows /\ invoice' = invoice /\ clock' = clock
      \/ \E p \in Checkouts : Pay(p) \/ OpenCheckout(p)
  BY <1>1, <1>2, <1>3, <1>4, <1>5, EventTypes DEF Next
<1>. QED BY <1>6, <1>7, <1>8 DEF Opened

LEMMA OneAtATimeStays ==
  ASSUME Sound, OneAtATime, Next
  PROVE  OneAtATime'
<1>. SUFFICES ASSUME "concurrent" \notin raced' PROVE OneAtATime'
  BY DEF OneAtATime
<1>1. /\ \A h, g \in Handlers : job[h] # Idle /\ job[g] # Idle => h = g
      /\ Len(rows) <= 1 /\ rows \in Seq(Row)
      /\ \A h \in Handlers : Current(job[h])
  BY RacedStep DEF OneAtATime, Sound, Types
<1>2. ASSUME AllIdle', Len(rows') <= 1
      PROVE  OneAtATime'
  BY <1>2 DEF AllIdle, OneAtATime, Current, Idle
<1>3. CASE SignUp
  <2>1. AllIdle
    <3>1. SUFFICES ASSUME NEW h \in Handlers, job[h] # Idle PROVE FALSE
      BY DEF AllIdle
    <3>2. Real(job[h]) /\ job[h].stage \in {"apply", "refund"}
      BY <3>1 DEF Sound, Types, JobsAreReal, Purchase, Return
    <3>. QED BY <1>3, <3>2 DEF SignUp, Real
  <2>2. Len(rows') <= 1
    <3>1. CASE rows' = <<>>
      BY <3>1
    <3>2. CASE rows' # <<>>
      <4>1. Len(rows') = 1
        BY <1>3, <3>2, SignUpRows, Zenon
      <4>. QED BY <4>1
    <3>. QED BY <3>1, <3>2
  <2>3. AllIdle'
    BY <1>3, <2>1 DEF SignUp, AllIdle
  <2>. QED BY <1>2, <2>2, <2>3
<1>4. CASE AssignPlan
  <2>1. AllIdle /\ job' = job
    BY <1>4, NotConcurrent DEF AssignPlan
  <2>2. Len(rows') <= 1
    <3>1. CASE rows = <<>>
      <4>1. Len(rows') = 1
        BY <1>4, <3>1, AssignPlanRows, Zenon
      <4>. QED BY <4>1
    <3>2. CASE rows # <<>>
      <4>1. Newest \in DOMAIN rows /\ Granted(Newest) \in Row /\ rows' = [rows EXCEPT ![Newest] = Granted(Newest)]
        BY <1>4, <3>2, AssignPlanRows, RowFacts DEF Sound
      <4>2. Len(rows') = Len(rows)
        BY <1>1, <4>1, SetRow
      <4>. QED BY <1>1, <4>2
    <3>. QED BY <3>1, <3>2
  <2>3. AllIdle'
    BY <2>1 DEF AllIdle
  <2>. QED BY <1>2, <2>2, <2>3
<1>5. ASSUME NEW h \in Handlers, CommitPackage(h) \/ CommitRefund(h) \/ Abandon(h)
      PROVE  OneAtATime'
  <2>1. job[h] # Idle /\ job' = [job EXCEPT ![h] = Idle]
    BY <1>5 DEF CommitPackage, CommitRefund, Abandon, Idle
  <2>2. AllIdle'
    BY <1>1, <2>1 DEF AllIdle, Sound, Types
  <2>3. Len(rows') <= 1
    <3>1. CASE CommitPackage(h)
      <4>1. job[h] \in Purchase /\ job[h].checkout \in Checkouts /\ job[h].decision = Decision(job[h].checkout)
        BY <1>1, <3>1, CommitPackageRows DEF CommitPackage, Current, Purchase
      <4>2. CASE job[h].decision = "create"
        <5>1. rows = <<>>
          BY <4>1, <4>2, DecisionType DEF Sound
        <5>2. rows' = Append(rows, Bought(job[h].checkout)) /\ Bought(job[h].checkout) \in Row
          BY <3>1, <4>1, <4>2, CommitPackageRows, RowFacts DEF Sound
        <5>3. Len(rows') = Len(rows) + 1
          BY <1>1, <5>2, AddRow
        <5>. QED BY <5>1, <5>3
      <4>3. CASE job[h].decision = "update"
        <5>1. /\ job[h].row \in DOMAIN rows /\ Bought(job[h].checkout) \in Row
              /\ rows' = [rows EXCEPT ![job[h].row] = Bought(job[h].checkout)]
          BY <3>1, <4>1, <4>3, CommitPackageRows, RowFacts DEF Sound
        <5>2. Len(rows') = Len(rows)
          BY <1>1, <5>1, SetRow
        <5>. QED BY <1>1, <5>2
      <4>. QED BY <1>1, <3>1, <4>2, <4>3, CommitPackageRows
    <3>2. CASE CommitRefund(h)
      <4>1. \/ rows' = rows
            \/ /\ job[h].row \in DOMAIN rows /\ Canceled(job[h].row) \in Row
               /\ rows' = [rows EXCEPT ![job[h].row] = Canceled(job[h].row)]
        BY <3>2, CommitRefundRows, RowFacts DEF Sound
      <4>2. Len(rows') = Len(rows)
        BY <1>1, <4>1, SetRow
      <4>. QED BY <1>1, <4>2
    <3>3. CASE Abandon(h)
      BY <1>1, <3>3 DEF Abandon, tables
    <3>. QED BY <1>5, <3>1, <3>2, <3>3
  <2>. QED BY <1>2, <2>2, <2>3
<1>6. ASSUME NEW h \in Handlers, NEW p \in Checkouts, NEW event \in Events,
             ConfirmPackage(h, p) \/ BeginRefund(h, p) \/ BeginPackage(h, p, event)
      PROVE  OneAtATime'
  <2>1. AllIdle
    BY <1>6, BeginsAlone
  <2>2. /\ rows' = rows /\ invoice' = invoice /\ clock' = clock /\ \A g \in Handlers : g # h => job'[g] = Idle
        /\ \/ job'[h] = [stage |-> "refund", checkout |-> p, row |-> invoice[p].row, cancel |-> PaysFor(p)]
           \/ \E e : job'[h] = [stage |-> "apply", checkout |-> p, event |-> e, decision |-> Decision(p), row |-> Newest]
    <3>1. job \in [Handlers -> {Idle} \cup Purchase \cup Return] /\ \A g \in Handlers : job[g] = Idle
      BY <1>1, <2>1 DEF AllIdle, Sound, Types
    <3>2. CASE BeginRefund(h, p)
      BY <3>1, <3>2 DEF BeginRefund, tables
    <3>3. ASSUME NEW e, Begin(h, p, e)
          PROVE  /\ rows' = rows /\ invoice' = invoice /\ clock' = clock /\ \A g \in Handlers : g # h => job'[g] = Idle
                 /\ job'[h] = [stage |-> "apply", checkout |-> p, event |-> e, decision |-> Decision(p), row |-> Newest]
      BY <3>1, <3>3 DEF Begin, tables
    <3>4. CASE ConfirmPackage(h, p) \/ BeginPackage(h, p, event)
      <4>1. \E e : Begin(h, p, e)
        BY <3>4 DEF ConfirmPackage, BeginPackage
      <4>. QED BY <3>3, <4>1
    <3>. QED BY <1>6, <3>2, <3>4
  <2>3. Decision(p)' = Decision(p) /\ Newest' = Newest /\ PaysFor(p)' = PaysFor(p)
    BY <2>2 DEF Decision, Newest, PaysFor, Opened
  <2>4. ASSUME NEW g \in Handlers, g # h
        PROVE  Current(job[g])'
    BY <2>2, <2>4 DEF Current, Idle
  <2>5. Current(job[h])'
    <3>1. PICK k : k = job'[h]
      OBVIOUS
    <3>2. \/ k.stage = "refund" /\ k.checkout = p /\ k.row = invoice[p].row /\ k.cancel = PaysFor(p)
          \/ k.stage = "apply" /\ k.checkout = p /\ k.decision = Decision(p) /\ k.row = Newest
      <4>1. CASE k = [stage |-> "refund", checkout |-> p, row |-> invoice[p].row, cancel |-> PaysFor(p)]
        BY <4>1
      <4>2. CASE \E e : k = [stage |-> "apply", checkout |-> p, event |-> e, decision |-> Decision(p), row |-> Newest]
        BY <4>2
      <4>. QED BY <2>2, <3>1, <4>1, <4>2, Zenon
    <3>3. Current(k)'
      BY <2>2, <2>3, <3>2 DEF Current
    <3>. QED BY <3>1, <3>3 DEF Current
  <2>6. \A g, k \in Handlers : job'[g] # Idle /\ job'[k] # Idle => g = k
    BY <2>2
  <2>. QED BY <1>1, <2>2, <2>4, <2>5, <2>6 DEF OneAtATime
<1>7. CASE /\ job' = job /\ rows' = rows /\ invoice' = invoice
           /\ \A p \in Checkouts : Paid(p) => Opened(p)' = Opened(p)
  <2>1. ASSUME NEW p \in Checkouts, Paid(p)
        PROVE  Decision(p)' = Decision(p) /\ Newest' = Newest /\ PaysFor(p)' = PaysFor(p)
    BY <1>7, <2>1 DEF Decision, Newest, PaysFor
  <2>2. ASSUME NEW h \in Handlers
        PROVE  Current(job[h])'
    <3>1. PICK k : k = job[h]
      OBVIOUS
    <3>2. /\ Current(k) /\ (k.stage \in {"apply", "refund"} => k.checkout \in Checkouts /\ Paid(k.checkout))
      BY <1>1, <3>1 DEF Sound, Types, JobsAreReal, Real, Purchase, Return, Idle
    <3>3. Current(k)'
      BY <1>7, <2>1, <3>2 DEF Current
    <3>. QED BY <1>7, <3>1, <3>3 DEF Current
  <2>. QED BY <1>1, <1>7, <2>2 DEF OneAtATime
<1>. QED BY <1>3, <1>4, <1>5, <1>6, <1>7, JobsRest, EventTypes
-------------------------------------------------------------------------------
\* Refunds.

LEMMA DoneWrites ==
  ASSUME Sound, Next, NEW p \in Packages
  PROVE  \/ done'[p] = done[p]
         \/ \E event \in FailedEvents : done'[p] = done[p] \cup {event}
         \/ RefundNothing(p)
         \/ \E h \in Handlers : (CommitPackage(h) \/ CommitRefund(h)) /\ job[h].checkout = p
<1>1. p \in Checkouts /\ p \notin Donations /\ done = [q \in Checkouts |-> done[q]]
  BY DEF Packages, Donations, Sound, Types
<1>2. ASSUME NEW q \in Checkouts \ {p}, NEW event, Acknowledge(q, event)
      PROVE  done'[p] = done[p]
  BY <1>1, <1>2 DEF Acknowledge
<1>3. ASSUME SignUp \/ AssignPlan
      PROVE  done' = done
  BY <1>3 DEF SignUp, AssignPlan, stripeVars
<1>4. ASSUME NEW q \in Checkouts, OpenCheckout(q) \/ Pay(q) \/ DoNotPay(q) \/ Refund(q)
      PROVE  done' = done
  BY <1>4 DEF OpenCheckout, Pay, DoNotPay, Refund, Happens
<1>5. ASSUME NEW q \in Checkouts, CheckoutCannotStart(q) \/ ConfirmDonation(q)
      PROVE  done' = done
  BY <1>5 DEF CheckoutCannotStart, ConfirmDonation, stripeVars
<1>6. ASSUME NEW q \in Checkouts, DonationRefund(q)
      PROVE  done'[p] = done[p]
  BY <1>1, <1>2, <1>6 DEF DonationRefund
<1>7. ASSUME NEW q \in Checkouts, NEW event \in Events, DonationEvent(q, event)
      PROVE  done'[p] = done[p]
  BY <1>1, <1>2, <1>7 DEF DonationEvent
<1>8. ASSUME NEW q \in Checkouts, NEW event \in Events, IgnoreEvent(q, event)
      PROVE  done'[p] = done[p] \/ \E e \in FailedEvents : done'[p] = done[p] \cup {e}
  <2>1. event \in FailedEvents /\ Acknowledge(q, event)
    BY <1>8 DEF IgnoreEvent
  <2>2. CASE q = p
    BY <1>1, <2>1, <2>2 DEF Acknowledge
  <2>. QED BY <1>2, <2>1, <2>2
<1>9. ASSUME NEW q \in Checkouts, RefundNothing(q)
      PROVE  done'[p] = done[p] \/ RefundNothing(p)
  BY <1>2, <1>9 DEF RefundNothing
<1>10. ASSUME NEW q \in Checkouts, NEW h \in Handlers, NEW event \in Events,
              ConfirmPackage(h, q) \/ BeginRefund(h, q) \/ BeginPackage(h, q, event)
       PROVE  done' = done
  BY <1>10 DEF ConfirmPackage, BeginRefund, BeginPackage, Begin, stripeVars
<1>11. ASSUME NEW h \in Handlers, CommitPackage(h)
       PROVE  done'[p] = done[p] \/ job[h].checkout = p
  <2>1. job[h].checkout \in Checkouts /\ (done' = done \/ Acknowledge(job[h].checkout, job[h].event))
    BY <1>11, CommitPackageRows DEF CommitPackage, Purchase
  <2>. QED BY <1>2, <2>1
<1>12. ASSUME NEW h \in Handlers, CommitRefund(h)
       PROVE  done'[p] = done[p] \/ job[h].checkout = p
  <2>1. job[h].checkout \in Checkouts /\ Acknowledge(job[h].checkout, "refunded")
    BY <1>12, CommitRefundRows DEF CommitRefund, Return
  <2>. QED BY <1>2, <2>1
<1>13. ASSUME NEW h \in Handlers, Abandon(h)
       PROVE  done' = done
  BY <1>13 DEF Abandon, stripeVars
<1>. QED BY <1>3, <1>4, <1>5, <1>6, <1>7, <1>8, <1>9, <1>10, <1>11, <1>12, <1>13, EventTypes DEF Next

LEMMA PaidIsBookedStays ==
  ASSUME Sound, PaidIsBooked, Next
  PROVE  PaidIsBooked'
<1>. SUFFICES ASSUME NEW p \in Packages, done'[p] \cap PaidEvents # {}
              PROVE  invoice'[p].status # "none"
  BY WhatStays DEF PaidIsBooked
<1>1. /\ p \in Checkouts /\ FailedEvents \cap PaidEvents = {} /\ "refunded" \notin PaidEvents
      /\ invoice[p].status # "none" => invoice'[p].status # "none"
      /\ done[p] \cap PaidEvents # {} => invoice[p].status # "none"
  BY InvoicesStep DEF FailedEvents, PaidEvents, Packages, PaidIsBooked
<1>2. CASE done'[p] = done[p]
  BY <1>1, <1>2
<1>3. CASE \E event \in FailedEvents : done'[p] = done[p] \cup {event}
  BY <1>1, <1>3
<1>4. CASE RefundNothing(p)
  <2>1. done'[p] = done[p] \cup {"refunded"}
    BY <1>1, <1>4 DEF RefundNothing, Acknowledge, Sound, Types
  <2>. QED BY <1>1, <2>1
<1>5. ASSUME NEW h \in Handlers, CommitPackage(h) \/ CommitRefund(h), job[h].checkout = p
      PROVE  invoice'[p].status # "none"
  <2>1. \E n : invoice' = [invoice EXCEPT ![p] = [status |-> "paid", row |-> n]]
        \/ invoice' = [invoice EXCEPT ![p] = [status |-> "refunded", row |-> n]]
    BY <1>5, CommitPackageRows, CommitRefundRows
  <2>. QED BY <1>1, <2>1 DEF Sound, Types
<1>. QED BY <1>2, <1>3, <1>4, <1>5, DoneWrites

\* A refund that comes in order finds the purchase's invoice.
LEMMA RefundIsNotNothing ==
  ASSUME Sound, PaidIsBooked, NEW p \in Packages, RefundNothing(p), raced' \cap {"reordered", "redelivered"} = {}
  PROVE  FALSE
<1>1. Delivery(p, "refunded") \cap {"reordered", "redelivered"} = {} /\ invoice[p].status = "none"
  BY DEF RefundNothing, Note
<1>2. p \in Checkouts /\ Story(p) /\ stripe[p] \in {"none", "open", "processing", "paid", "failed", "expired", "refunded"}
  BY DEF Packages, Sound, Stories, Types
<1>3. "refunded" \in due[p] /\ Behind(p, "refunded")
  BY <1>1, <1>2, DeliveryInOrder, EventTypes
<1>4. "completedPaid" \in Delivered(p) \/ "asyncPaid" \in Delivered(p)
  BY <1>2, <1>3 DEF Story, Delivered
<1>5. ~(Turn("refunded") <= Turn("completedPaid")) /\ ~(Turn("refunded") <= Turn("asyncPaid"))
  BY DEF Turn
<1>6. "completedPaid" \in done[p] \/ "asyncPaid" \in done[p]
  BY <1>3, <1>4, <1>5 DEF Behind, Delivered
<1>. QED BY <1>1, <1>6 DEF PaidIsBooked, PaidEvents

LEMMA NotAfterRefundStays ==
  ASSUME RefundInv, Next
  PROVE  NotAfterRefund'
<1>. SUFFICES ASSUME raced' \cap {"reordered", "redelivered", "reconfirmed", "concurrent"} = {},
                     NEW h \in Handlers, NEW k, k = job'[h], k.stage = "apply", "refunded" \in done'[k.checkout]
              PROVE  FALSE
  BY DEF NotAfterRefund, Applying
<1>1. Sound /\ InOrder /\ OneAtATime /\ PaidIsBooked /\ NotAfterRefund /\ raced \subseteq raced'
  BY RacedStep DEF RefundInv
<1>2. CASE k = job[h]
  <2>. DEFINE p == k.checkout
  <2>1. p \in Packages /\ "refunded" \notin done[p] /\ Applying(h)
    BY <1>1, <1>2 DEF Sound, JobsAreReal, Real, Paid, Applying, NotAfterRefund
  <2>2. ~RefundNothing(p)
    BY <1>1, <2>1, RefundIsNotNothing
  <2>3. ~\E event \in FailedEvents : done'[p] = done[p] \cup {event}
    BY <2>1 DEF FailedEvents
  <2>4. ASSUME NEW g \in Handlers, CommitPackage(g), job[g].checkout = p
        PROVE  FALSE
    <3>1. job[g] \in Purchase /\ p \in Checkouts
      BY <1>1, <2>1, <2>4, CommitPackageRows DEF Packages
    <3>2. done'[p] = done[p] \/ done'[p] = done[p] \cup {job[g].event}
      BY <1>1, <2>4, <3>1 DEF CommitPackage, Acknowledge, Sound, Types
    <3>3. job[g].event # "refunded"
      BY <3>1, EventTypes DEF Purchase
    <3>. QED BY <2>1, <3>2, <3>3
  <2>5. ASSUME NEW g \in Handlers, CommitRefund(g)
        PROVE  FALSE
    <3>1. job[g].stage = "refund" /\ job[h].stage = "apply"
      BY <2>1, <2>5 DEF CommitRefund, Applying
    <3>2. job[g] # Idle /\ job[h] # Idle
      BY <3>1 DEF Idle
    <3>3. g = h
      BY <1>1, <3>2 DEF OneAtATime
    <3>. QED BY <3>1, <3>3
  <2>. QED BY <1>1, <2>1, <2>2, <2>3, <2>4, <2>5, DoneWrites
<1>3. ASSUME NEW p \in Checkouts, BeginRefund(h, p)
      PROVE  FALSE
  <2>1. k.stage = "refund"
    BY <1>1, <1>3 DEF BeginRefund, Sound, Types
  <2>. QED BY <2>1
<1>4. ASSUME NEW p \in Checkouts, ConfirmPackage(h, p)
      PROVE  FALSE
  <2>1. k.checkout = p /\ stripe[p] = "paid" /\ done' = done
    BY <1>1, <1>4 DEF ConfirmPackage, Begin, Note, Reconfirmed, Sound, Types, stripeVars
  <2>2. "refunded" \notin Delivered(p)
    BY <1>1, <2>1 DEF Sound, Stories, Story
  <2>. QED BY <2>1, <2>2 DEF Delivered
<1>5. ASSUME NEW p \in Checkouts, NEW event \in Events, BeginPackage(h, p, event)
      PROVE  FALSE
  <2>1. k.checkout = p /\ event \in PaidEvents /\ done' = done
    BY <1>1, <1>5 DEF BeginPackage, Begin, Sound, Types, stripeVars
  <2>2. Delivery(p, event) \cap {"reordered", "redelivered"} = {}
    BY <1>5 DEF BeginPackage, Note
  <2>3. event \in due[p]
    BY <1>1, <2>2, DeliveryInOrder
  <2>4. Turn("refunded") < Turn(event)
    BY <1>1, <2>1, <2>3 DEF InOrder
  <2>. QED BY <2>1, <2>4 DEF Turn, PaidEvents
<1>6. k # Idle
  BY DEF Idle
<1>. QED BY <1>1, <1>2, <1>3, <1>4, <1>5, <1>6, JobWrites

\* Who writes a subscription, and what.
SignUpWrites(i) ==
  /\ SignUp /\ rows = <<>> /\ rows'[i].source = "free" /\ rows'[i].status = "ACTIVE"
  /\ rows'[i].payment = "none" /\ rows'[i].start = clock.now /\ freePlan
AssignPlanWrites(i) ==
  /\ AssignPlan /\ rows'[i].source = "admin" /\ rows'[i].status = "ACTIVE" /\ rows'[i].start = clock.now
  /\ \/ rows = <<>> /\ rows'[i].payment = "none"
     \/ rows # <<>> /\ i = Newest /\ i \in DOMAIN rows /\ rows'[i].payment = rows[Newest].payment
RefundWrites(h, i) ==
  /\ CommitRefund(h) /\ job[h].cancel /\ i = job[h].row /\ i \in DOMAIN rows /\ rows'[i] = Canceled(i)

LEMMA RowWrites ==
  ASSUME Sound, Next, NEW i \in DOMAIN rows'
  PROVE  \/ i \in DOMAIN rows /\ rows'[i] = rows[i]
         \/ SignUpWrites(i) \/ AssignPlanWrites(i)
         \/ \E h \in Handlers : CommitPackage(h) /\ rows'[i] = Bought(job[h].checkout)
         \/ \E h \in Handlers : RefundWrites(h, i)
<1>0. rows \in Seq(Row)
  BY DEF Sound, Types
<1>1. ASSUME SignUp PROVE SignUpWrites(i)
  <2>1. rows = <<>> /\ rows' # <<>>
    BY <1>1, SignUpRows
  <2>2. /\ freePlan /\ DOMAIN rows' = {1}
        /\ rows'[1] = [source |-> "free", status |-> "ACTIVE", start |-> clock.now, payment |-> "none"]
    BY <1>1, <2>1, SignUpRows, Zenon
  <2>3. i = 1
    BY <2>2
  <2>. QED BY <1>1, <2>1, <2>2, <2>3 DEF SignUpWrites
<1>2. ASSUME AssignPlan PROVE (i \in DOMAIN rows /\ rows'[i] = rows[i]) \/ AssignPlanWrites(i)
  <2>1. CASE rows = <<>>
    <3>1. /\ DOMAIN rows' = {1}
          /\ rows'[1] = [source |-> "admin", status |-> "ACTIVE", start |-> clock.now, payment |-> "none"]
      BY <1>2, <2>1, AssignPlanRows, Zenon
    <3>2. i = 1
      BY <3>1
    <3>. QED BY <1>2, <2>1, <3>1, <3>2 DEF AssignPlanWrites
  <2>2. CASE rows # <<>>
    <3>1. Newest \in DOMAIN rows /\ Granted(Newest) \in Row /\ rows' = [rows EXCEPT ![Newest] = Granted(Newest)]
      BY <1>2, <2>2, AssignPlanRows, RowFacts DEF Sound
    <3>2. /\ DOMAIN rows' = DOMAIN rows /\ rows'[Newest] = Granted(Newest)
          /\ \A j \in DOMAIN rows : j # Newest => rows'[j] = rows[j]
      BY <1>0, <3>1, SetRow
    <3>3. /\ Granted(Newest).source = "admin" /\ Granted(Newest).status = "ACTIVE"
          /\ Granted(Newest).start = clock.now /\ Granted(Newest).payment = rows[Newest].payment
      BY DEF Granted
    <3>. QED BY <1>2, <2>2, <3>2, <3>3 DEF AssignPlanWrites
  <2>. QED BY <2>1, <2>2
<1>3. ASSUME NEW h \in Handlers, CommitPackage(h)
      PROVE (i \in DOMAIN rows /\ rows'[i] = rows[i]) \/ rows'[i] = Bought(job[h].checkout)
  <2>. DEFINE x == Bought(job[h].checkout)
  <2>1. /\ x \in Row
        /\ \/ rows' = Append(rows, x)
           \/ job[h].row \in DOMAIN rows /\ rows' = [rows EXCEPT ![job[h].row] = x]
           \/ rows' = rows
    BY <1>3, CommitPackageRows, RowFacts DEF Purchase, Sound
  <2>. HIDE DEF x
  <2>2. CASE rows' = Append(rows, x)
    BY <1>0, <2>1, <2>2, AddRow DEF x
  <2>3. CASE job[h].row \in DOMAIN rows /\ rows' = [rows EXCEPT ![job[h].row] = x]
    BY <1>0, <2>1, <2>3, SetRow DEF x
  <2>. QED BY <2>1, <2>2, <2>3
<1>4. ASSUME NEW h \in Handlers, CommitRefund(h)
      PROVE (i \in DOMAIN rows /\ rows'[i] = rows[i]) \/ RefundWrites(h, i)
  <2>. DEFINE j == job[h].row  x == Canceled(j)
  <2>1. /\ x \in Row /\ j \in DOMAIN rows
        /\ \/ job[h].cancel /\ rows' = [rows EXCEPT ![j] = x]
           \/ rows' = rows
    BY <1>4, CommitRefundRows, RowFacts DEF Sound
  <2>. HIDE DEF j, x
  <2>2. CASE job[h].cancel /\ rows' = [rows EXCEPT ![j] = x]
    <3>1. /\ DOMAIN rows' = DOMAIN rows /\ rows'[j] = x
          /\ \A k \in DOMAIN rows : k # j => rows'[k] = rows[k]
      BY <1>0, <2>1, <2>2, SetRow
    <3>. QED BY <1>4, <2>2, <3>1 DEF RefundWrites, j, x
  <2>. QED BY <2>1, <2>2
<1>. QED BY <1>1, <1>2, <1>3, <1>4, TablesStep

LEMMA PaymentIsSourceStays ==
  ASSUME RefundInv, Next
  PROVE  PaymentIsSource'
<1>. SUFFICES ASSUME raced' \cap {"assignedOver", "concurrent"} = {}, NEW i \in DOMAIN rows', rows'[i].payment \in Packages
              PROVE  rows'[i].source = rows'[i].payment
  BY WhatStays DEF PaymentIsSource, RefundInv
<1>1. /\ Sound /\ OneAtATime /\ "none" \notin Packages
      /\ \A j \in DOMAIN rows : rows[j].payment \in Packages => rows[j].source = rows[j].payment
  BY RacedStep, CheckoutsAssumption DEF RefundInv, PaymentIsSource, Packages
<1>2. ~SignUpWrites(i)
  BY <1>1 DEF SignUpWrites
<1>3. ~AssignPlanWrites(i)
  <2>1. AssignPlan => rows = <<>> \/ rows[Newest].payment = "none"
    BY DEF AssignPlan, Note
  <2>. QED BY <1>1, <2>1 DEF AssignPlanWrites
<1>4. ASSUME NEW p, rows'[i] = Bought(p)
      PROVE  rows'[i].source = rows'[i].payment
  BY <1>4 DEF Bought
<1>5. ASSUME NEW h \in Handlers, RefundWrites(h, i)
      PROVE  rows'[i].source = rows'[i].payment
  BY <1>1, <1>5 DEF RefundWrites, Canceled
<1>. QED BY <1>1, <1>2, <1>3, <1>4, <1>5, RowWrites

LEMMA RefundedForGood ==
  ASSUME Sound, Next, NEW p \in Checkouts, stripe[p] = "refunded"
  PROVE  stripe'[p] = "refunded"
<1>1. ASSUME NEW q \in Checkouts, Emission(q)
      PROVE  stripe'[p] = "refunded"
  BY <1>1 DEF Emission, Sound, Types
<1>. QED BY <1>1, StripeStep DEF StripeMoves, Acknowledged, stripeVars

LEMMA OnlyItsRefundEndsPlanStays ==
  ASSUME RefundInv, Next
  PROVE  OnlyItsRefundEndsPlan'
<1>. SUFFICES ASSUME raced' \cap {"assignedOver", "concurrent"} = {}, NEW i \in DOMAIN rows', rows'[i].status = "CANCELED"
              PROVE  rows'[i].source \in Packages /\ stripe'[rows'[i].source] = "refunded"
  BY WhatStays DEF OnlyItsRefundEndsPlan, RefundInv
<1>1. /\ Sound /\ OneAtATime /\ "concurrent" \notin raced
      /\ \A j \in DOMAIN rows : rows[j].status = "CANCELED" => rows[j].source \in Packages /\ stripe[rows[j].source] = "refunded"
      /\ \A j \in DOMAIN rows : rows[j].payment \in Packages => rows[j].source = rows[j].payment
      /\ Packages \subseteq Checkouts
  BY RacedStep DEF RefundInv, RefundEndsItsPlanUnlessRaced, OnlyItsRefundEndsPlan, PaymentIsSource, Packages
<1>2. CASE i \in DOMAIN rows /\ rows'[i] = rows[i]
  BY <1>1, <1>2, RefundedForGood
<1>3. ~SignUpWrites(i) /\ ~AssignPlanWrites(i)
  BY DEF SignUpWrites, AssignPlanWrites
<1>4. \A p : rows'[i] # Bought(p)
  BY DEF Bought
<1>5. ASSUME NEW h \in Handlers, RefundWrites(h, i)
      PROVE  rows'[i].source \in Packages /\ stripe'[rows'[i].source] = "refunded"
  <2>. DEFINE p == job[h].checkout
  <2>1. CommitRefund(h) /\ job[h].cancel /\ i = job[h].row /\ i \in DOMAIN rows /\ rows'[i].source = rows[i].source
    BY <1>5 DEF RefundWrites, Canceled
  <2>2. Current(job[h]) /\ job[h].stage = "refund"
    BY <1>1, <2>1 DEF OneAtATime, CommitRefund
  <2>3. p \in Packages /\ stripe[p] \in {"paid", "refunded"} /\ "refunded" \in Delivered(p)
    BY <1>1, <2>1, CommitRefundRows DEF Paid
  <2>4. rows[i].payment = p
    BY <2>1, <2>2 DEF Current, PaysFor
  <2>5. stripe[p] = "refunded"
    BY <1>1, <2>3 DEF Sound, Stories, Story
  <2>. QED BY <1>1, <2>1, <2>3, <2>4, <2>5, RefundedForGood
<1>. QED BY <1>1, <1>2, <1>3, <1>4, <1>5, RowWrites

LEMMA RefundEndsPlanStays ==
  ASSUME RefundInv, Next
  PROVE  RefundEndsPlan'
<1>. SUFFICES ASSUME NEW i \in DOMAIN rows', NEW p \in Packages, rows'[i].source = p, rows'[i].status = "ACTIVE",
                     "refunded" \in done'[p],
                     raced' \cap {"reordered", "redelivered", "reconfirmed", "concurrent"} = {}
              PROVE  FALSE
  BY WhatStays DEF RefundEndsPlan, RefundInv
<1>1. /\ Sound /\ OneAtATime /\ PaidIsBooked /\ NotAfterRefund
      /\ raced \cap {"reordered", "redelivered", "reconfirmed", "concurrent"} = {}
      /\ i \in DOMAIN rows /\ rows[i].source = p /\ rows[i].status = "ACTIVE" => "refunded" \notin done[p]
      /\ p \in Checkouts /\ p \notin {"free", "admin"}
  BY RacedStep, CheckoutsAssumption DEF RefundInv, RefundEndsItsPlanUnlessRaced, RefundEndsPlan, Packages
<1>2. ~SignUpWrites(i) /\ ~AssignPlanWrites(i)
  BY <1>1 DEF SignUpWrites, AssignPlanWrites
<1>3. \A h \in Handlers : ~RefundWrites(h, i)
  BY DEF RefundWrites, Canceled
<1>4. ASSUME NEW h \in Handlers, CommitPackage(h), job[h].checkout = p
      PROVE  "refunded" \in done[p] /\ "refunded" \notin done[p]
  <2>1. job[h] \in Purchase /\ Applying(h)
    BY <1>1, <1>4, CommitPackageRows DEF CommitPackage, Applying
  <2>2. done'[p] = done[p] \/ done'[p] = done[p] \cup {job[h].event}
    BY <1>1, <1>4 DEF CommitPackage, Acknowledge, Sound, Types
  <2>3. job[h].event # "refunded"
    BY <2>1, EventTypes DEF Purchase
  <2>. QED BY <1>1, <1>4, <2>1, <2>2, <2>3 DEF NotAfterRefund
<1>5. CASE i \in DOMAIN rows /\ rows'[i] = rows[i]
  <2>1. "refunded" \notin done[p]
    BY <1>1, <1>5
  <2>2. ~\E event \in FailedEvents : done'[p] = done[p] \cup {event}
    BY <2>1 DEF FailedEvents
  <2>3. ~RefundNothing(p)
    BY <1>1, RefundIsNotNothing
  <2>4. ASSUME NEW h \in Handlers, CommitRefund(h), job[h].checkout = p
        PROVE  FALSE
    <3>1. /\ job[h] \in Return /\ job[h].row \in DOMAIN rows /\ invoice[p].status # "none"
          /\ job[h].cancel => rows' = [rows EXCEPT ![job[h].row] = Canceled(job[h].row)]
      BY <1>1, <2>4, CommitRefundRows
    <3>2. Current(job[h]) /\ job[h].stage = "refund"
      BY <1>1, <2>4 DEF OneAtATime, CommitRefund
    <3>3. job[h].row = invoice[p].row /\ job[h].cancel = PaysFor(p)
      BY <2>4, <3>2 DEF Current
    <3>4. i = job[h].row
      <4>1. Len(rows) <= 1 /\ rows \in Seq(Row)
        BY <1>1 DEF OneAtATime, Sound, Types
      <4>. QED BY <1>5, <3>1, <4>1
    <3>5. rows[i].payment = p
      BY <1>1, <1>5 DEF Sound, RowsAreGiven
    <3>6. rows' = [rows EXCEPT ![i] = Canceled(i)]
      BY <3>1, <3>3, <3>4, <3>5 DEF PaysFor
    <3>7. rows'[i] = Canceled(i)
      BY <1>5, <3>6
    <3>. QED BY <3>7 DEF Canceled
  <2>. QED BY <1>1, <1>4, <2>1, <2>2, <2>3, <2>4, DoneWrites
<1>6. ASSUME NEW h \in Handlers, CommitPackage(h), rows'[i] = Bought(job[h].checkout)
      PROVE  job[h].checkout = p
  BY <1>6 DEF Bought
<1>. QED BY <1>1, <1>2, <1>3, <1>4, <1>5, <1>6, RowWrites

LEMMA InitRefunds ==
  ASSUME Init
  PROVE  RefundInv
<1>1. AllIdle /\ rows = <<>>
  BY DEF Init, AllIdle
<1>2. Len(rows) <= 1 /\ DOMAIN rows = {}
  BY <1>1
<1>3. InOrder /\ OneAtATime
  BY <1>1, <1>2, InitDonations, IdleIsAlone DEF DonationInv
<1>4. PaidIsBooked /\ NotAfterRefund
  BY DEF Init, PaidIsBooked, NotAfterRefund, Applying, Idle, Packages
<1>5. PaymentIsSource /\ RefundEndsItsPlanUnlessRaced
  BY <1>2 DEF PaymentIsSource, RefundEndsItsPlanUnlessRaced, RefundEndsPlan, OnlyItsRefundEndsPlan
<1>. QED BY <1>3, <1>4, <1>5, InitSound DEF RefundInv

LEMMA StutterAlone ==
  ASSUME OneAtATime, UNCHANGED vars
  PROVE  OneAtATime'
  BY DEF vars, tables, stripeVars, OneAtATime, Current, Decision, Newest, Opened, PaysFor

LEMMA StutterRefunds ==
  ASSUME RefundInv, UNCHANGED vars
  PROVE  RefundInv'
<1>1. InOrder'
  BY DEF RefundInv, vars, stripeVars, InOrder, Heeds, Behind
<1>2. PaidIsBooked' /\ NotAfterRefund'
  BY DEF RefundInv, vars, stripeVars, tables, PaidIsBooked, NotAfterRefund, Applying, Packages
<1>3. PaymentIsSource'
  BY DEF RefundInv, vars, tables, PaymentIsSource, Packages
<1>4. RefundEndsItsPlanUnlessRaced'
  BY DEF RefundInv, vars, stripeVars, tables, RefundEndsItsPlanUnlessRaced, RefundEndsPlan, OnlyItsRefundEndsPlan, Packages
<1>. QED BY <1>1, <1>2, <1>3, <1>4, StutterAlone, SoundStays DEF RefundInv

\* A refund ends the plan that was bought with the payment, and no other, but for
\* the races the property names, whatever the number of purchases and handlers.
THEOREM RefundEndsItsPlanHolds == Spec => []RefundEndsItsPlanUnlessRaced
<1>1. Init => RefundInv
  BY InitRefunds
<1>2. RefundInv /\ [Next]_vars => RefundInv'
  <2>1. ASSUME RefundInv, Next PROVE RefundInv'
    <3>1. Sound' /\ InOrder' /\ OneAtATime'
      BY <2>1, SoundStays, InOrderStays, OneAtATimeStays DEF RefundInv
    <3>2. PaidIsBooked' /\ NotAfterRefund' /\ PaymentIsSource'
      BY <2>1, PaidIsBookedStays, NotAfterRefundStays, PaymentIsSourceStays DEF RefundInv
    <3>3. RefundEndsItsPlanUnlessRaced'
      BY <2>1, RefundEndsPlanStays, OnlyItsRefundEndsPlanStays DEF RefundEndsItsPlanUnlessRaced
    <3>. QED BY <3>1, <3>2, <3>3 DEF RefundInv
  <2>. QED BY <2>1, StutterRefunds
<1>3. RefundInv => RefundEndsItsPlanUnlessRaced
  BY DEF RefundInv
<1>. QED BY <1>1, <1>2, <1>3, PTL DEF Spec
-------------------------------------------------------------------------------
\* The latest purchase or gift.

\* What a moment is noted for.
Unpaid == \A p \in Checkouts :
  /\ stripe'[p] = "none" <=> stripe[p] = "none"
  /\ stripe'[p] \in {"paid", "refunded"} <=> stripe[p] \in {"paid", "refunded"}

LEMMA MomentMoves ==
  ASSUME Sound, Next
  PROVE  \/ clock' = clock /\ Unpaid
         \/ SignUp /\ freePlan /\ Tick("free") /\ stripe' = stripe
         \/ AssignPlan /\ Tick("admin") /\ stripe' = stripe
         \/ \E p \in Checkouts : Pay(p) /\ Tick(p)
         \/ \E p \in Checkouts : OpenCheckout(p) /\ Opens(p)
<1>1. stripe' = stripe => Unpaid
  BY DEF Unpaid
<1>2. ASSUME SignUp PROVE stripe' = stripe
  BY <1>2 DEF SignUp, stripeVars
<1>3. ASSUME AssignPlan PROVE stripe' = stripe
  BY <1>3 DEF AssignPlan, stripeVars
<1>4. ASSUME NEW p \in Checkouts, CheckoutCannotStart(p) \/ ConfirmDonation(p) \/ RefundNothing(p) \/ DonationRefund(p)
      PROVE  stripe' = stripe
  BY <1>4 DEF CheckoutCannotStart, ConfirmDonation, RefundNothing, DonationRefund, stripeVars
<1>5. ASSUME NEW p \in Checkouts, DoNotPay(p) \/ Refund(p)
      PROVE  Unpaid
  BY <1>5 DEF DoNotPay, Refund, Happens, Unpaid, Sound, Types
<1>6. ASSUME NEW p \in Checkouts, NEW event \in Events, DonationEvent(p, event) \/ IgnoreEvent(p, event)
      PROVE  stripe' = stripe
  BY <1>6 DEF DonationEvent, IgnoreEvent
<1>7. ASSUME NEW p \in Checkouts, NEW h \in Handlers, NEW event \in Events,
             ConfirmPackage(h, p) \/ BeginRefund(h, p) \/ BeginPackage(h, p, event)
      PROVE  stripe' = stripe
  BY <1>7 DEF ConfirmPackage, BeginRefund, BeginPackage, Begin, stripeVars
<1>8. ASSUME NEW h \in Handlers, CommitPackage(h) \/ CommitRefund(h) \/ Abandon(h)
      PROVE  stripe' = stripe
  BY <1>8 DEF CommitPackage, CommitRefund, Abandon, stripeVars
<1>9. (\E p \in Checkouts : Pay(p)) \/ (\E p \in Checkouts : OpenCheckout(p)) \/ Unpaid
  BY <1>1, <1>2, <1>3, <1>4, <1>5, <1>6, <1>7, <1>8, EventTypes DEF Next
<1>10. ASSUME NEW p \in Checkouts, Pay(p) PROVE Tick(p)
  BY <1>10 DEF Pay
<1>11. ASSUME NEW p \in Checkouts, OpenCheckout(p) PROVE Opens(p)
  BY <1>11 DEF OpenCheckout, Opens
<1>. QED BY <1>2, <1>3, <1>9, <1>10, <1>11, ClockMoves

LEMMA MomentsStay ==
  ASSUME Sound, Moments, Next
  PROVE  Moments'
<1>1. /\ clock.now \in Nat \ {0} /\ \A p \in Checkouts : Opened(p) \in Nat
      /\ \A x \in Checkouts \cup {"free", "admin"} : At(x) \in Nat
      /\ clock.at \in [Checkouts \cup {"free", "admin"} -> Nat] /\ clock.opened \in [Checkouts -> Nat]
      /\ Checkouts \cap {"free", "admin"} = {}
  BY RowFacts, CheckoutsAssumption DEF Sound, Types, Clock, Moments
<1>2. rows # <<>> => rows' # <<>>
  <2>1. rows # <<>> => Newest \in DOMAIN rows'
    BY RowFacts, RowsStep DEF Sound
  <2>2. DOMAIN <<>> = {}
    OBVIOUS
  <2>. QED BY <2>1, <2>2
<1>3. CASE clock' = clock /\ Unpaid
  BY <1>2, <1>3 DEF Moments, Unpaid, Opened, At, Happened
<1>4. ASSUME NEW x \in {"free", "admin"}, Tick(x), stripe' = stripe, rows' # <<>>
      PROVE  Moments'
  <2>1. /\ clock'.now = clock.now + 1 /\ clock'.opened = clock.opened
        /\ clock'.at = [clock.at EXCEPT ![x] = clock.now]
    BY <1>4, TickTo DEF Sound
  <2>2. \A y \in Checkouts \cup {"free", "admin"} : At(y)' = IF y = x THEN clock.now ELSE At(y)
    BY <1>1, <2>1 DEF At
  <2>3. \A p \in Checkouts : At(p)' = At(p) /\ Opened(p)' = Opened(p)
    BY <1>1, <2>1, <2>2 DEF Opened
  <2>. QED BY <1>1, <1>4, <2>1, <2>2, <2>3 DEF Moments, Happened
<1>5. ASSUME NEW q \in Checkouts, Pay(q), Tick(q)
      PROVE  Moments'
  <2>1. /\ clock'.now = clock.now + 1 /\ clock'.opened = clock.opened
        /\ clock'.at = [clock.at EXCEPT ![q] = clock.now]
    BY <1>5, TickTo DEF Sound
  <2>2. stripe' = [stripe EXCEPT ![q] = "paid"] /\ stripe[q] \in {"open", "processing"}
    BY <1>5 DEF Pay, Happens
  <2>3. \A y \in Checkouts \cup {"free", "admin"} : At(y)' = IF y = q THEN clock.now ELSE At(y)
    BY <1>1, <2>1 DEF At
  <2>4. \A p \in Checkouts : Opened(p)' = Opened(p)
    BY <2>1 DEF Opened
  <2>5. \A p \in Checkouts : stripe'[p] = IF p = q THEN "paid" ELSE stripe[p]
    BY <2>2 DEF Sound, Types
  <2>. QED BY <1>1, <1>2, <2>1, <2>2, <2>3, <2>4, <2>5 DEF Moments, Happened
<1>6. ASSUME NEW q \in Checkouts, OpenCheckout(q), Opens(q)
      PROVE  Moments'
  <2>1. /\ clock'.now = clock.now + 1 /\ clock'.at = clock.at
        /\ clock'.opened = [clock.opened EXCEPT ![q] = clock.now]
    BY <1>6, OpensTo DEF Sound
  <2>2. stripe' = [stripe EXCEPT ![q] = "open"] /\ stripe[q] = "none"
    BY <1>6 DEF OpenCheckout, Happens
  <2>3. \A p \in Checkouts : Opened(p)' = IF p = q THEN clock.now ELSE Opened(p)
    BY <1>1, <2>1 DEF Opened
  <2>4. \A y \in Checkouts \cup {"free", "admin"} : At(y)' = At(y)
    BY <2>1 DEF At
  <2>5. \A p \in Checkouts : stripe'[p] = IF p = q THEN "open" ELSE stripe[p]
    BY <2>2 DEF Sound, Types
  <2>6. ASSUME NEW p \in Checkouts
        PROVE  /\ stripe'[p] = "none" <=> Opened(p)' = 0
               /\ Opened(p)' # 0 => Opened(p)' < clock'.now
               /\ stripe'[p] \in {"paid", "refunded"} <=> At(p)' # 0
               /\ At(p)' # 0 => At(p)' < clock'.now /\ Opened(p)' < At(p)'
               /\ \A r \in Checkouts \ {p} : Opened(p)' # 0 => Opened(p)' # Opened(r)'
    BY <1>1, <2>1, <2>2, <2>3, <2>4, <2>5 DEF Moments, Happened
  <2>7. \A x \in {"free", "admin"} : At(x)' # 0 => At(x)' < clock'.now /\ rows' # <<>>
    BY <1>1, <1>2, <2>1, <2>4 DEF Moments, Happened
  <2>. QED BY <1>1, <2>1, <2>6, <2>7 DEF Moments, Happened
<1>7. ASSUME SignUp, freePlan PROVE rows' # <<>>
  <2>1. \E x : rows' = <<x>>
    BY <1>7 DEF SignUp
  <2>. QED BY <2>1
<1>8. ASSUME AssignPlan PROVE rows' # <<>>
  <2>1. CASE rows = <<>>
    <3>1. \E x : rows' = <<x>>
      BY <1>8, <2>1 DEF AssignPlan
    <3>. QED BY <3>1
  <2>. QED BY <1>2, <2>1
<1>. QED BY <1>3, <1>4, <1>5, <1>6, <1>7, <1>8, MomentMoves

\* What was given stays given, at the same moment.
LEMMA GivenStays ==
  ASSUME Sound, Moments, Next, NEW x \in Given
  PROVE  /\ x \in Given' /\ At(x)' = At(x) /\ (x \in Packages => Opened(x)' = Opened(x))
<1>1. /\ x \in Checkouts \cup {"free", "admin"} /\ Checkouts \cap {"free", "admin"} = {} /\ Packages \subseteq Checkouts
      /\ clock.at \in [Checkouts \cup {"free", "admin"} -> Nat] /\ clock.opened \in [Checkouts -> Nat]
  BY CheckoutsAssumption DEF Sound, Types, Clock, Given, Booked, Packages
<1>2. x \in Booked => Paid(x) /\ x \in Packages /\ At(x) # 0
  BY <1>1 DEF Booked, Sound, InvoicesArePaid, Paid, Moments
<1>3. At(x) # 0
  BY <1>2 DEF Given
<1>4. At(x)' = At(x) /\ (x \in Packages => Opened(x)' = Opened(x))
  <2>1. CASE clock' = clock
    BY <2>1 DEF At, Opened
  <2>2. CASE SignUp /\ freePlan /\ Tick("free")
    <3>1. rows = <<>>
      BY <2>2, SignUpRows
    <3>2. x # "free"
      BY <1>3, <3>1 DEF Moments
    <3>3. clock'.opened = clock.opened /\ clock'.at = [clock.at EXCEPT !["free"] = clock.now]
      BY <2>2, TickTo DEF Sound
    <3>. QED BY <1>1, <3>2, <3>3 DEF At, Opened
  <2>3. CASE AssignPlan /\ Tick("admin")
    <3>1. x # "admin"
      BY <1>3, <2>3 DEF AssignPlan
    <3>2. clock'.opened = clock.opened /\ clock'.at = [clock.at EXCEPT !["admin"] = clock.now]
      BY <2>3, TickTo DEF Sound
    <3>. QED BY <1>1, <3>1, <3>2 DEF At, Opened
  <2>4. ASSUME NEW p \in Checkouts, Pay(p), Tick(p)
        PROVE  At(x)' = At(x) /\ (x \in Packages => Opened(x)' = Opened(x))
    <3>1. stripe[p] \in {"open", "processing"}
      BY <2>4 DEF Pay
    <3>2. x # p
      BY <1>1, <1>2, <3>1 DEF Given, Paid
    <3>3. clock'.opened = clock.opened /\ clock'.at = [clock.at EXCEPT ![p] = clock.now]
      BY <2>4, TickTo DEF Sound
    <3>. QED BY <1>1, <3>2, <3>3 DEF At, Opened
  <2>5. ASSUME NEW p \in Checkouts, OpenCheckout(p), Opens(p)
        PROVE  At(x)' = At(x) /\ (x \in Packages => Opened(x)' = Opened(x))
    <3>1. stripe[p] = "none"
      BY <2>5 DEF OpenCheckout
    <3>2. x # p
      BY <1>1, <1>2, <3>1 DEF Given, Paid
    <3>3. clock'.at = clock.at /\ clock'.opened = [clock.opened EXCEPT ![p] = clock.now]
      BY <2>5, OpensTo DEF Sound
    <3>. QED BY <1>1, <3>2, <3>3 DEF At, Opened
  <2>. QED BY <2>1, <2>2, <2>3, <2>4, <2>5, MomentMoves
<1>5. x \in Booked => x \in Booked'
  BY <1>1, <1>2, InvoicesStep, WhatStays DEF Booked
<1>. QED BY <1>3, <1>4, <1>5 DEF Given

LEMMA NotOvertakenStays ==
  ASSUME Sound, Moments, NotOvertaken, Next
  PROVE  NotOvertaken'
<1>1. /\ clock.now \in Nat \ {0} /\ \A p \in Checkouts : Opened(p) \in Nat
      /\ \A x \in Checkouts \cup {"free", "admin"} : At(x) \in Nat
      /\ clock.at \in [Checkouts \cup {"free", "admin"} -> Nat] /\ clock.opened \in [Checkouts -> Nat]
      /\ Checkouts \cap {"free", "admin"} = {} /\ Packages \subseteq Checkouts /\ Packages' = Packages
      /\ raced \subseteq raced'
  BY RowFacts, WhatStays, RacedStep, CheckoutsAssumption DEF Sound, Types, Clock, Moments, Packages
<1>2. CASE clock' = clock
  BY <1>1, <1>2 DEF NotOvertaken, At, Opened
<1>3. CASE SignUp /\ freePlan /\ Tick("free")
  <2>1. clock'.opened = clock.opened /\ clock'.at = [clock.at EXCEPT !["free"] = clock.now]
    BY <1>3, TickTo DEF Sound
  <2>2. /\ \A p \in Checkouts : At(p)' = At(p) /\ Opened(p)' = Opened(p)
        /\ At("admin")' = At("admin")
    BY <1>1, <2>1 DEF At, Opened
  <2>3. "boughtBeforeAccount" \notin raced' => \A p \in Packages : stripe[p] = "none"
    BY <1>3 DEF SignUp, Note
  <2>4. "boughtBeforeAccount" \notin raced' => \A p \in Packages : Opened(p) = 0
    BY <1>1, <2>3 DEF Moments
  <2>. QED BY <1>1, <2>2, <2>4 DEF NotOvertaken
<1>4. CASE AssignPlan /\ Tick("admin")
  <2>1. clock'.opened = clock.opened /\ clock'.at = [clock.at EXCEPT !["admin"] = clock.now]
    BY <1>4, TickTo DEF Sound
  <2>2. /\ \A p \in Checkouts : At(p)' = At(p) /\ Opened(p)' = Opened(p)
        /\ At("admin")' = clock.now /\ At("free")' = At("free")
    BY <1>1, <2>1 DEF At, Opened
  <2>3. \A p \in Packages : At(p) # 0 => At(p) < clock.now
    BY <1>1 DEF Moments, Happened
  <2>. QED BY <1>1, <2>2, <2>3 DEF NotOvertaken
<1>5. ASSUME NEW q \in Checkouts, Pay(q), Tick(q)
      PROVE  NotOvertaken'
  <2>1. clock'.opened = clock.opened /\ clock'.at = [clock.at EXCEPT ![q] = clock.now]
    BY <1>5, TickTo DEF Sound
  <2>2. /\ \A p \in Checkouts : Opened(p)' = Opened(p) /\ At(p)' = IF p = q THEN clock.now ELSE At(p)
        /\ At("admin")' = At("admin") /\ At("free")' = At("free")
    BY <1>1, <2>1 DEF At, Opened
  <2>3. \A p \in Packages : At(p) # 0 => At(p) < clock.now
    BY <1>1 DEF Moments, Happened
  <2>4. "openedEarlier" \notin raced' /\ q \in Packages => ~Overtaken(q)
    BY <1>5 DEF Pay, Note
  <2>5. "openedEarlier" \notin raced' =>
          \A p \in Packages : At(p)' # 0 =>
            /\ Opened(p)' < At("admin")' => At(p)' < At("admin")'
            /\ \A r \in Packages \ {p} : Opened(p)' < Opened(r)' /\ At(r)' # 0 => At(p)' < At(r)'
    BY <1>1, <2>2, <2>3, <2>4 DEF NotOvertaken, Overtaken
  <2>. QED BY <1>1, <2>2, <2>5 DEF NotOvertaken
<1>6. ASSUME NEW q \in Checkouts, OpenCheckout(q), Opens(q)
      PROVE  NotOvertaken'
  <2>1. clock'.at = clock.at /\ clock'.opened = [clock.opened EXCEPT ![q] = clock.now]
    BY <1>6, OpensTo DEF Sound
  <2>2. /\ \A p \in Checkouts : Opened(p)' = IF p = q THEN clock.now ELSE Opened(p)
        /\ \A x \in Checkouts \cup {"free", "admin"} : At(x)' = At(x)
    BY <1>1, <2>1 DEF At, Opened
  <2>3. At(q) = 0 /\ (At("free") # 0 => At("free") < clock.now)
    BY <1>6 DEF OpenCheckout, Moments, Happened
  <2>4. "openedEarlier" \notin raced' =>
          \A p \in Packages : At(p)' # 0 =>
            /\ Opened(p)' < At("admin")' => At(p)' < At("admin")'
            /\ \A r \in Packages \ {p} : Opened(p)' < Opened(r)' /\ At(r)' # 0 => At(p)' < At(r)'
    BY <1>1, <2>2, <2>3 DEF NotOvertaken
  <2>5. "boughtBeforeAccount" \notin raced' =>
          \A p \in Packages : Opened(p)' # 0 /\ At("free")' # 0 => At("free")' < Opened(p)'
    BY <1>1, <2>2, <2>3 DEF NotOvertaken
  <2>. QED BY <1>1, <2>4, <2>5 DEF NotOvertaken
<1>. QED BY <1>2, <1>3, <1>4, <1>5, <1>6, MomentMoves

\* Without a subscription nothing was given.
LEMMA NothingGiven ==
  ASSUME Sound, Moments, rows = <<>>
  PROVE  Given = {}
<1>1. DOMAIN rows = {}
  OBVIOUS
<1>2. Booked = {}
  BY <1>1 DEF Booked, Packages, Sound, InvoicesArePaid
<1>3. {x \in {"free", "admin"} : At(x) # 0} = {}
  BY DEF Moments
<1>. QED BY <1>2, <1>3 DEF Given

StartsRight(row) ==
  /\ row.start = IF row.source \in Packages THEN Opened(row.source) ELSE At(row.source)
  /\ row.source \in Given

LEMMA RowsHaveStartsStay ==
  ASSUME Sound, Moments, RowsHaveStarts, Next
  PROVE  RowsHaveStarts'
<1>. SUFFICES ASSUME NEW i \in DOMAIN rows', NEW row, row = rows'[i]
              PROVE  StartsRight(row)'
  BY DEF RowsHaveStarts, StartsRight
<1>1. Packages' = Packages /\ "free" \notin Packages /\ "admin" \notin Packages /\ clock.now # 0
      /\ clock.at \in [Checkouts \cup {"free", "admin"} -> Nat]
  BY WhatStays, CheckoutsAssumption DEF Packages, Moments, Sound, Types, Clock
<1>2. ASSUME i \in DOMAIN rows, row.source = rows[i].source, row.start = rows[i].start
      PROVE  StartsRight(row)'
  <2>1. row.source \in Given /\ row.start = IF row.source \in Packages THEN Opened(row.source) ELSE At(row.source)
    BY <1>2 DEF RowsHaveStarts
  <2>. QED BY <1>1, <2>1, GivenStays DEF StartsRight
<1>3. CASE SignUpWrites(i)
  <2>1. SignUp /\ freePlan /\ row.source = "free" /\ row.start = clock.now
    BY <1>3 DEF SignUpWrites
  <2>2. Tick("free")
    BY <2>1 DEF SignUp
  <2>3. At("free")' = clock.now
    BY <1>1, <2>2, TickTo DEF Sound, At
  <2>. QED BY <1>1, <2>1, <2>3 DEF StartsRight, Given
<1>4. CASE AssignPlanWrites(i)
  <2>1. AssignPlan /\ row.source = "admin" /\ row.start = clock.now
    BY <1>4 DEF AssignPlanWrites
  <2>2. Tick("admin")
    BY <2>1 DEF AssignPlan
  <2>3. At("admin")' = clock.now
    BY <1>1, <2>2, TickTo DEF Sound, At
  <2>. QED BY <1>1, <2>1, <2>3 DEF StartsRight, Given
<1>5. ASSUME NEW h \in Handlers, CommitPackage(h), rows'[i] = Bought(job[h].checkout)
      PROVE  StartsRight(row)'
  <2>. DEFINE p == job[h].checkout
  <2>1. p \in Packages /\ p \in Checkouts /\ clock' = clock
    BY <1>5, CommitPackageRows DEF CommitPackage, Paid, Packages
  <2>2. row.source = p /\ row.start = Opened(p)
    BY <1>5 DEF Bought
  <2>3. \E n : invoice' = [invoice EXCEPT ![p] = [status |-> "paid", row |-> n]]
    BY <1>5, CommitPackageRows
  <2>4. p \in Booked'
    BY <1>1, <2>1, <2>3 DEF Booked, Sound, Types
  <2>. QED BY <1>1, <2>1, <2>2, <2>4 DEF StartsRight, Given, Opened
<1>6. ASSUME NEW h \in Handlers, RefundWrites(h, i)
      PROVE  StartsRight(row)'
  BY <1>2, <1>6 DEF RefundWrites, Canceled
<1>. QED BY <1>2, <1>3, <1>4, <1>5, <1>6, RowWrites

\* A purchase that is applied, with nothing having come between, is compared rightly
\* with what the workspace has.
LEMMA PurchaseIsCompared ==
  ASSUME LatestInv, raced \cap {"boughtBeforeAccount", "openedEarlier"} = {}, rows # <<>>,
         NEW p \in Packages, Paid(p)
  PROVE  IF rows[Newest].start > Opened(p) THEN At(p) <= At(rows[Newest].source)
                                           ELSE At(rows[Newest].source) <= At(p)
<1>. DEFINE x == rows[Newest].source
<1>1. /\ p \in Checkouts /\ Opened(p) \in Nat /\ At(p) \in Nat
      /\ x \in {"free", "admin"} \cup Packages /\ x \in Given /\ At(x) \in Nat
      /\ x \in Packages => Opened(x) \in Nat
      /\ rows[Newest].start = IF x \in Packages THEN Opened(x) ELSE At(x)
      /\ "free" \notin Packages /\ "admin" \notin Packages /\ Packages \subseteq Checkouts
  BY RowFacts, CheckoutsAssumption DEF LatestInv, Sound, RowsAreGiven, RowsHaveStarts, Packages
<1>2. At(p) # 0 /\ Opened(p) < At(p) /\ Opened(p) # 0
  BY <1>1 DEF LatestInv, Moments, Paid
<1>3. CASE x = "free"
  <2>1. At(x) # 0
    BY <1>1, <1>3 DEF Given, Booked
  <2>2. At(x) < Opened(p)
    BY <1>2, <1>3, <2>1 DEF LatestInv, NotOvertaken
  <2>. QED BY <1>1, <1>2, <1>3, <2>2
<1>4. CASE x = "admin"
  <2>1. Opened(p) < At(x) => At(p) < At(x)
    BY <1>2, <1>4 DEF LatestInv, NotOvertaken
  <2>. QED BY <1>1, <1>2, <1>4, <2>1
<1>5. CASE x \in Packages
  <2>1. At(x) # 0 /\ Opened(x) # 0
    BY <1>1, <1>5 DEF LatestInv, Sound, Moments, InvoicesArePaid, Paid, Booked, Given
  <2>2. x # p => /\ Opened(p) # Opened(x)
                 /\ Opened(p) < Opened(x) => At(p) < At(x)
                 /\ Opened(x) < Opened(p) => At(x) < At(p)
    BY <1>1, <1>2, <1>5, <2>1 DEF LatestInv, Moments, NotOvertaken
  <2>. QED BY <1>1, <1>5, <2>2
<1>. QED BY <1>1, <1>3, <1>4, <1>5

\* What is newly given was given by this step.
LEMMA GivenGrows ==
  ASSUME Sound, Moments, Next, NEW y \in Given'
  PROVE  \/ y \in Given
         \/ SignUp /\ y = "free"
         \/ AssignPlan /\ y = "admin"
         \/ \E h \in Handlers : CommitPackage(h) /\ y = job[h].checkout
<1>1. /\ Packages' = Packages /\ Packages \subseteq Checkouts /\ Checkouts \cap {"free", "admin"} = {}
      /\ invoice \in [Checkouts -> [status : {"none", "paid", "refunded"}, row : Nat]]
      /\ clock.at \in [Checkouts \cup {"free", "admin"} -> Nat]
  BY WhatStays, CheckoutsAssumption DEF Packages, Sound, Types, Clock
<1>2. CASE y \in Booked'
  <2>1. y \in Packages /\ y \in Checkouts /\ invoice'[y].status # "none"
    BY <1>1, <1>2 DEF Booked
  <2>2. CASE invoice' = invoice
    BY <2>1, <2>2 DEF Given, Booked
  <2>3. ASSUME NEW h \in Handlers, CommitPackage(h)
        PROVE  y \in Given \/ y = job[h].checkout
    <3>1. \E n : invoice' = [invoice EXCEPT ![job[h].checkout] = [status |-> "paid", row |-> n]]
      BY <2>3, CommitPackageRows
    <3>. QED BY <1>1, <2>1, <3>1 DEF Given, Booked
  <2>4. ASSUME NEW h \in Handlers, CommitRefund(h)
        PROVE  y \in Given
    <3>1. /\ invoice[job[h].checkout].status # "none"
          /\ \E n : invoice' = [invoice EXCEPT ![job[h].checkout] = [status |-> "refunded", row |-> n]]
      BY <2>4, CommitRefundRows
    <3>. QED BY <1>1, <2>1, <3>1 DEF Given, Booked
  <2>5. SignUp \/ AssignPlan => invoice' = invoice
    BY DEF SignUp, AssignPlan
  <2>. QED BY <2>2, <2>3, <2>4, <2>5, TablesStep
<1>3. CASE y \in {"free", "admin"} /\ At(y)' # 0
  <2>1. At(y) # 0 => y \in Given
    BY <1>3 DEF Given
  <2>2. CASE clock' = clock
    BY <1>3, <2>1, <2>2 DEF At
  <2>3. CASE SignUp /\ Tick("free")
    <3>1. clock'.at = [clock.at EXCEPT !["free"] = clock.now]
      BY <2>3, TickTo DEF Sound
    <3>. QED BY <1>1, <1>3, <2>1, <2>3, <3>1 DEF At
  <2>4. CASE AssignPlan /\ Tick("admin")
    <3>1. clock'.at = [clock.at EXCEPT !["admin"] = clock.now]
      BY <2>4, TickTo DEF Sound
    <3>. QED BY <1>1, <1>3, <2>1, <2>4, <3>1 DEF At
  <2>5. ASSUME NEW p \in Checkouts, Pay(p), Tick(p)
        PROVE  y \in Given
    <3>1. clock'.at = [clock.at EXCEPT ![p] = clock.now]
      BY <2>5, TickTo DEF Sound
    <3>. QED BY <1>1, <1>3, <2>1, <3>1 DEF At
  <2>6. ASSUME NEW p \in Checkouts, Opens(p)
        PROVE  y \in Given
    <3>1. clock'.at = clock.at
      BY <2>6, OpensTo DEF Sound
    <3>. QED BY <1>3, <2>1, <3>1 DEF At
  <2>. QED BY <2>2, <2>3, <2>4, <2>5, <2>6, MomentMoves
<1>. QED BY <1>2, <1>3 DEF Given

LEMMA OneRow ==
  ASSUME NEW s \in Seq(Row), Len(s) <= 1, s # <<>>
  PROVE  Len(s) = 1 /\ 1 \in DOMAIN s
<1>1. Len(s) \in Nat /\ DOMAIN s = 1 .. Len(s)
  OBVIOUS
<1>2. Len(s) # 0
  BY EmptySeq
<1>. QED BY <1>1, <1>2

LEMMA LatestWinsStays ==
  ASSUME LatestInv, Next
  PROVE  LatestWinsUnlessRaced'
<1>. SUFFICES ASSUME raced' \cap {"boughtBeforeAccount", "openedEarlier", "concurrent"} = {}, rows' # <<>>,
                     NEW y \in Given'
              PROVE  (At(y) <= At(rows[Newest].source))'
  BY DEF LatestWinsUnlessRaced, LatestWins, Latest
<1>1. /\ Sound /\ Moments /\ raced \cap {"boughtBeforeAccount", "openedEarlier", "concurrent"} = {}
      /\ rows \in Seq(Row) /\ rows' \in Seq(Row) /\ Len(rows) <= 1 /\ Len(rows') <= 1
  BY RacedStep, RowsStep, OneAtATimeStays DEF LatestInv, Sound, Types, OneAtATime
<1>2. Newest' = 1 /\ 1 \in DOMAIN rows'
  BY <1>1, OneRow DEF Newest
<1>3. rows # <<>> => /\ Newest = 1 /\ 1 \in DOMAIN rows
                     /\ rows[Newest].source \in Given
                     /\ \A z \in Given : At(z) <= At(rows[Newest].source)
  <2>1. rows # <<>> => Newest = 1 /\ 1 \in DOMAIN rows
    BY <1>1, OneRow DEF Newest
  <2>. QED BY <1>1, <2>1 DEF LatestInv, RowsHaveStarts, LatestWinsUnlessRaced, LatestWins, Latest
<1>4. /\ \A z \in Given : At(z)' = At(z) /\ At(z) \in Nat /\ At(z) < clock.now
      /\ clock.now \in Nat
  <2>1. \A z \in Given : At(z)' = At(z)
    BY <1>1, GivenStays
  <2>2. \A z \in Given : z \in Checkouts \cup {"free", "admin"}
    BY DEF Given, Booked, Packages
  <2>3. \A z \in Given : At(z) \in Nat /\ clock.now \in Nat
    BY <1>1, <2>2, RowFacts DEF Sound
  <2>4. \A z \in Given : At(z) < clock.now
    BY <1>1, <2>2, <2>3 DEF Moments, Happened
  <2>. QED BY <1>1, <2>1, <2>3, <2>4, RowFacts DEF Sound
<1>5. \A z \in Checkouts \cup {"free", "admin"} : At(z)' \in Nat
  BY <1>1, ClockStep DEF Clock, At
<1>6. /\ Packages \subseteq Checkouts
      /\ y \in Checkouts \cup {"free", "admin"}
  BY WhatStays, <1>1 DEF Given, Booked, Packages
<1>7. CASE SignUp
  <2>1. rows = <<>> /\ ~account /\ rows'[1].source = "free"
    <3>1. rows = <<>> /\ rows'[1] = [source |-> "free", status |-> "ACTIVE", start |-> clock.now, payment |-> "none"]
      BY <1>1, <1>7, SignUpRows, Zenon
    <3>. QED BY <1>7, <3>1 DEF SignUp
  <2>2. y = "free"
    BY <1>1, <2>1, GivenGrows, NothingGiven, CommitPackageRows DEF AssignPlan
  <2>. QED BY <1>2, <1>5, <2>1, <2>2
<1>8. CASE AssignPlan /\ ~SignUp
  <2>1. AllIdle
    BY <1>1, <1>8, NotConcurrent DEF AssignPlan
  <2>2. rows'[1].source = "admin"
    <3>1. CASE rows = <<>>
      <4>1. rows'[1] = [source |-> "admin", status |-> "ACTIVE", start |-> clock.now, payment |-> "none"]
        BY <1>1, <1>8, <3>1, AssignPlanRows, Zenon
      <4>. QED BY <4>1
    <3>2. CASE rows # <<>>
      <4>1. rows' = [rows EXCEPT ![1] = Granted(1)]
        BY <1>1, <1>3, <1>8, <3>2, AssignPlanRows
      <4>. QED BY <1>1, <1>3, <3>2, <4>1 DEF Granted
    <3>. QED BY <3>1, <3>2
  <2>3. At("admin")' = clock.now
    <3>1. Tick("admin") /\ clock.at \in [Checkouts \cup {"free", "admin"} -> Nat]
      BY <1>1, <1>8 DEF AssignPlan, Sound, Types, Clock
    <3>. QED BY <1>1, <3>1, TickTo DEF At, Sound
  <2>4. y \in Given \/ y = "admin"
    <3>1. ASSUME NEW h \in Handlers PROVE ~CommitPackage(h)
      <4>1. job[h].stage # "apply"
        BY <2>1 DEF AllIdle, Idle
      <4>. QED BY <4>1 DEF CommitPackage
    <3>. QED BY <1>1, <1>8, <3>1, GivenGrows
  <2>. QED BY <1>2, <1>4, <2>2, <2>3, <2>4
<1>9. ASSUME NEW h \in Handlers, CommitPackage(h), ~SignUp, ~AssignPlan
      PROVE  (At(y) <= At(rows[Newest].source))'
  <2>. DEFINE p == job[h].checkout
  <2>1. p \in Packages /\ Paid(p) /\ clock' = clock
    BY <1>1, <1>9, CommitPackageRows DEF CommitPackage, Paid
  <2>2. \A z : At(z)' = At(z)
    BY <2>1 DEF At
  <2>3. y \in Given \/ y = p
    <3>1. ASSUME NEW g \in Handlers, CommitPackage(g) PROVE g = h
      BY <1>1, <1>9, <3>1 DEF LatestInv, OneAtATime, CommitPackage, Idle
    <3>. QED BY <1>1, <1>9, <3>1, GivenGrows
  <2>4. job[h].decision = Decision(p) /\ job[h].row = Newest
    BY <1>1, <1>9 DEF LatestInv, OneAtATime, Current, CommitPackage
  <2>5. Bought(p).source = p
    BY DEF Bought
  <2>6. At(p) \in Nat /\ At(y) \in Nat
    BY <1>5, <1>6, <2>1, <2>2
  <2>7. CASE rows = <<>>
    <3>1. job[h].decision = "create"
      BY <2>4, <2>7 DEF Decision
    <3>2. rows' = Append(rows, Bought(p))
      BY <1>9, <3>1 DEF CommitPackage
    <3>3. rows'[1] = Bought(p)
      BY <2>7, <3>2
    <3>4. y = p
      BY <1>1, <2>3, <2>7, NothingGiven
    <3>. QED BY <1>2, <2>2, <2>5, <2>6, <3>3, <3>4
  <2>8. CASE rows # <<>> /\ rows[Newest].start > Opened(p)
    <3>1. job[h].decision = "keep"
      BY <2>4, <2>8 DEF Decision
    <3>2. rows' = rows
      BY <1>9, <3>1 DEF CommitPackage
    <3>3. At(p) <= At(rows[Newest].source)
      BY <1>1, <2>1, <2>8, PurchaseIsCompared
    <3>. QED BY <1>2, <1>3, <2>2, <2>3, <2>8, <3>2, <3>3
  <2>9. CASE rows # <<>> /\ ~(rows[Newest].start > Opened(p))
    <3>1. job[h].decision = "update"
      BY <2>4, <2>9 DEF Decision
    <3>2. rows' = [rows EXCEPT ![1] = Bought(p)]
      BY <1>3, <1>9, <2>4, <2>9, <3>1 DEF CommitPackage
    <3>3. rows'[1] = Bought(p)
      BY <1>1, <1>3, <2>9, <3>2
    <3>4. At(rows[Newest].source) <= At(p) /\ At(rows[Newest].source) \in Nat
      BY <1>1, <1>3, <1>4, <2>1, <2>9, PurchaseIsCompared
    <3>5. y \in Given => At(y) <= At(p)
      BY <1>3, <2>6, <2>9, <3>4
    <3>. QED BY <1>2, <2>2, <2>3, <2>5, <2>6, <3>3, <3>5
  <2>. QED BY <2>7, <2>8, <2>9
<1>10. CASE ~SignUp /\ ~AssignPlan /\ ~\E h \in Handlers : CommitPackage(h)
  <2>1. y \in Given
    BY <1>1, <1>10, GivenGrows
  <2>2. 1 \in DOMAIN rows /\ (rows'[1] = rows[1] \/ \E h \in Handlers : RefundWrites(h, 1))
    BY <1>1, <1>2, <1>10, RowWrites DEF SignUpWrites, AssignPlanWrites, RefundWrites
  <2>3. rows'[1].source = rows[1].source
    BY <2>2 DEF RefundWrites, Canceled
  <2>4. rows # <<>>
    <3>1. DOMAIN <<>> = {}
      OBVIOUS
    <3>. QED BY <2>2, <3>1
  <2>. QED BY <1>2, <1>3, <1>4, <2>1, <2>3, <2>4
<1>. QED BY <1>7, <1>8, <1>9, <1>10

LEMMA InitLatest ==
  ASSUME Init
  PROVE  LatestInv
<1>1. rows = <<>> /\ Sound /\ OneAtATime
  BY InitSound, InitRefunds DEF Init, RefundInv
<1>2. DOMAIN <<>> = {}
  OBVIOUS
<1>3. /\ clock.now = 1 /\ \A p \in Checkouts : Opened(p) = 0 /\ stripe[p] = "none"
      /\ \A x \in Checkouts \cup {"free", "admin"} : At(x) = 0
  BY DEF Init, Opened, At
<1>4. Moments
  BY <1>3 DEF Moments
<1>5. RowsHaveStarts /\ LatestWinsUnlessRaced
  BY <1>1, <1>2 DEF RowsHaveStarts, LatestWinsUnlessRaced, LatestWins
<1>6. NotOvertaken
  BY <1>3 DEF NotOvertaken, Packages
<1>. QED BY <1>1, <1>4, <1>5, <1>6 DEF LatestInv

LEMMA StutterLatest ==
  ASSUME LatestInv, UNCHANGED vars
  PROVE  LatestInv'
<1>1. Sound' /\ OneAtATime'
  BY SoundStays, StutterAlone DEF LatestInv
<1>2. Given' = Given
  BY DEF vars, tables, Given, Booked, Packages, At
<1>3. Moments' /\ NotOvertaken'
  BY DEF LatestInv, vars, stripeVars, tables, Moments, Happened, Opened, At, NotOvertaken, Packages
<1>4. RowsHaveStarts' /\ LatestWinsUnlessRaced'
  BY <1>2 DEF LatestInv, vars, stripeVars, tables, RowsHaveStarts, Opened, At, Packages,
              LatestWinsUnlessRaced, LatestWins, Latest, Newest
<1>. QED BY <1>1, <1>3, <1>4 DEF LatestInv

\* What was paid for, or given, last is what the workspace has, but for the races
\* the property names, however many purchases there are and in whatever order
\* their events come.
THEOREM LatestWinsHolds == Spec => []LatestWinsUnlessRaced
<1>1. Init => LatestInv
  BY InitLatest
<1>2. LatestInv /\ [Next]_vars => LatestInv'
  <2>1. ASSUME LatestInv, Next PROVE LatestInv'
    <3>1. Sound' /\ OneAtATime'
      BY <2>1, SoundStays, OneAtATimeStays DEF LatestInv
    <3>2. Moments' /\ RowsHaveStarts' /\ NotOvertaken'
      BY <2>1, MomentsStay, RowsHaveStartsStay, NotOvertakenStays DEF LatestInv
    <3>. QED BY <2>1, <3>1, <3>2, LatestWinsStays DEF LatestInv
  <2>. QED BY <2>1, StutterLatest
<1>3. LatestInv => LatestWinsUnlessRaced
  BY DEF LatestInv
<1>. QED BY <1>1, <1>2, <1>3, PTL DEF Spec
=============================================================================
