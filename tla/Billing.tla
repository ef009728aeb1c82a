------------------------------- MODULE Billing -------------------------------
(* A user's paid access (ui/public.py, the Stripe functions): the users row  *)
(* caches what Stripe says of the user's subscription.  It is written when   *)
(* the user comes back from a checkout, when Stripe sends an event, when a   *)
(* status too old to be trusted is asked for again, and by an admin's comp.  *)
(* Each of the first three reads, asks Stripe over the network, then writes: *)
(* others may write in between.                                              *)
(*                                                                           *)
(* Stripe is external.  It delivers its events in any order, late, more than *)
(* once, and again until they are acknowledged; or it does not answer at all.*)
(* One user, who buys a subscription only when no other of theirs is alive.  *)
(* Time is in units of STRIPE_RECHECK (a day); requests take no time by that *)
(* measure (STRIPE_TIMEOUT_S, STRIPE_RETRY_S are seconds and minutes).       *)
EXTENDS Integers, FiniteSets

CONSTANTS
  Subs,      \* subscriptions the user may buy, each with one checkout
  Nil,
  Workers,   \* threads that handle requests and events
  Period,    \* a subscription's paid period, in days
  Grace,     \* STRIPE_GRACE, in days
  MaxTime,   \* bound: days
  MaxEvents  \* bound: events Stripe sends

Recheck == 1
Dates == 0 .. MaxTime
Ends == 0 .. MaxTime + Period

ASSUME NilAssumption ==
  Nil \notin Subs /\ Nil \notin Ends /\ "unlinked" \notin Subs \cup {Nil}
ASSUME BillingAssumption ==
  Period \in Nat \ {0} /\ Grace \in Nat /\ MaxTime \in Nat /\ MaxEvents \in Nat

VARIABLES
  sub,      \* at Stripe: a subscription's status
  until,    \* its current_period_end
  owner,    \* the Stripe customer that owns it, named by its first subscription
  sent,     \* the events Stripe has sent
  gone,     \* the day the last subscription to end ended, while none is alive
  now,
  row,      \* the user: sub_status, sub_source, stripe_subscription_id,
            \* stripe_customer_id, current_period_end, sub_checked_at
  seen,     \* stripe_events
  retryAt,  \* _STRIPE_RETRY_AT: no questions for the time being
  job,      \* what each thread is at
  crossed   \* history: somebody wrote the row from an outdated reading

stripeVars == <<sub, until, owner, sent, gone>>
billingVars == <<stripeVars, now, row, seen, retryAt, job, crossed>>

\* past_due ("late") still counts as active, but buys nothing (_STRIPE_ACTIVE)
Statuses == {"none", "open", "live", "late", "ended"}
Active(s) == s \in {"live", "late"}
Alive == {s \in Subs : Active(sub[s])}

Idle == [does |-> "idle", sub |-> Nil, event |-> Nil, read |-> Nil, says |-> Nil, late |-> FALSE]

-----------------------------------------------------------------------------
(* Entitlement *)

\* _stripe_check_due.  Mutant: trusted until the period ends
DueAtTheEnd == row.checked = Nil \/ now > row.end
Due ==
  \/ row.checked = Nil \/ now > row.checked + Recheck
  \/ now > row.end /\ now > row.checked

\* _within_stripe_grace (every period Stripe names has an end)
InGrace == now < row.end + Grace

\* _paid: a status that needs no question; and one that is due, while somebody has
\* asked and there is no answer (yet)
Trusted ==
  /\ row.status = "active"
  /\ row.source = "comp" \/ (row.sub # Nil /\ ~Due)
Asks == row.status = "active" /\ row.source # "comp" /\ row.sub # Nil /\ Due
FailsOpen == Asks /\ retryAt /\ InGrace

-----------------------------------------------------------------------------
(* Writing the row *)

\* Whoever is under way has read the row before this write
Crossing(w) == [v \in Workers |-> IF v = w THEN Idle
                                  ELSE IF job[v].does # "idle" THEN [job[v] EXCEPT !.late = TRUE]
                                  ELSE job[v]]

\* _activate_from_checkout: only a subscription that is alive now
Activate(j) ==
  row' = IF j.says.status = "live"
         THEN [status |-> "active", source |-> "stripe", sub |-> j.sub, cust |-> owner[j.sub],
               end |-> j.says.until, checked |-> now]
         ELSE row

\* _refresh_stripe_status
Refreshed(j) ==
  row' = [row EXCEPT !.status = IF Active(j.says.status) THEN "active" ELSE "none",
                     !.source = "stripe", !.end = j.says.until, !.checked = now]

\* customer.subscription.updated, .created.  Mutant: the subscription is
\* applied whatever else the user has
ApplyAny(j) ==
  row' = IF j.read = Nil THEN row
         ELSE [row EXCEPT !.status = IF Active(j.says.status) THEN "active" ELSE "none",
                          !.source = "stripe", !.sub = j.sub, !.end = j.says.until,
                          !.checked = now]
Apply(j) ==
  row' = IF j.read # Nil /\ (j.read \in {"unlinked", j.sub} \/ Active(j.says.status))
         THEN [row EXCEPT !.status = IF Active(j.says.status) THEN "active" ELSE "none",
                          !.source = "stripe", !.sub = j.sub, !.end = j.says.until,
                          !.checked = now]
         ELSE row

\* customer.subscription.deleted
Delete(j) ==
  row' = IF j.read = j.sub
         THEN [row EXCEPT !.status = "none", !.end = until[j.sub], !.checked = now]
         ELSE row

-----------------------------------------------------------------------------
(* Requests and events.  Some start by reading the row ... *)

Starts(w, j) == job[w] = Idle /\ job' = [job EXCEPT ![w] = j]
Answer(s) == [status |-> sub[s], until |-> until[s]]

\* /billing/confirm, at any time after the payment, as often as the user likes:
\* it starts by asking Stripe, and is over if the subscription is not alive
Confirm(w, s) ==
  /\ sub[s] = "live"
  /\ Starts(w, [Idle EXCEPT !.does = "confirm", !.sub = s, !.says = Answer(s)])
  /\ UNCHANGED <<stripeVars, now, row, seen, retryAt, crossed>>

\* A page of the user's, when the status is due (_entitlement_needs_stripe):
\* one request asks, and nobody else until STRIPE_RETRY_S are over
Visit(w) ==
  /\ Asks
  /\ ~retryAt /\ retryAt' = TRUE
  /\ Starts(w, [Idle EXCEPT !.does = "refresh", !.sub = row.sub])
  /\ UNCHANGED <<stripeVars, now, row, seen, crossed>>

\* The subscription of the row an event is for: the user's by the subscription,
\* else by the customer; Nil: no user
RowOf(s, byCustomer) ==
  IF row.sub = s \/ (byCustomer /\ row.cust = owner[s])
  THEN IF row.sub = Nil THEN "unlinked" ELSE row.sub
  ELSE Nil

\* _handle_stripe_event, of an event not on file yet.  A checkout's reads nothing
\* of the row
Deliver(w, e) ==
  /\ e \notin seen
  /\ Starts(w, IF e.type = "checkout"
               THEN [Idle EXCEPT !.does = "checkout", !.sub = e.sub, !.event = e,
                                 !.says = Answer(e.sub)]
               ELSE [Idle EXCEPT !.does = e.type, !.sub = e.sub, !.event = e,
                                 !.read = RowOf(e.sub, e.type = "updated")])
  /\ UNCHANGED <<stripeVars, now, row, seen, retryAt, crossed>>

\* ... then asks Stripe (Subscription.retrieve) ...
Ask(w) ==
  /\ job[w].does \in {"refresh", "updated"} /\ job[w].says = Nil
  /\ job' = [job EXCEPT ![w].says = Answer(job[w].sub)]
  /\ UNCHANGED <<stripeVars, now, row, seen, retryAt, crossed>>

\* ... which may not answer: an event will come again, a status stays unverified.
\* (A confirmation or a checkout's event without an answer leaves no trace.)
NoAnswer(w) ==
  /\ job[w].does \in {"refresh", "updated"} /\ job[w].says = Nil
  /\ job' = [job EXCEPT ![w] = Idle]
  /\ UNCHANGED <<stripeVars, now, row, seen, retryAt, crossed>>

\* STRIPE_RETRY_S after a question without an answer
RetryEnds ==
  /\ retryAt /\ \A w \in Workers : job[w].does # "refresh"
  /\ retryAt' = FALSE
  /\ UNCHANGED <<stripeVars, now, row, seen, job, crossed>>

\* ... and writes
Write(w) ==
  LET j == job[w]
  IN /\ j.does # "idle" /\ (j.says # Nil \/ j.does = "deleted")
     /\ CASE j.does \in {"confirm", "checkout"} -> Activate(j)
          [] j.does = "refresh" -> Refreshed(j)
          [] j.does = "updated" -> Apply(j)
          [] j.does = "deleted" -> Delete(j)
     /\ job' = IF row' = row THEN [job EXCEPT ![w] = Idle] ELSE Crossing(w)
     /\ crossed' = (crossed \/ (j.late /\ row' # row))
     /\ seen' = IF j.event = Nil THEN seen ELSE seen \cup {j.event}
     /\ retryAt' = (retryAt /\ ~(j.does \in {"confirm", "checkout"} /\ j.says.status = "live")
                            /\ j.does # "refresh")
     /\ UNCHANGED <<stripeVars, now>>

\* /billing/checkout (BE-023), for the customer on file or a new one
Checkout(s) ==
  /\ sub[s] = "none" /\ sub' = [sub EXCEPT ![s] = "open"]
  /\ ~(row.status = "active" /\ row.source \in {"stripe", "comp"})
  /\ owner' = [owner EXCEPT ![s] = IF row.cust = Nil THEN s ELSE row.cust]
  /\ UNCHANGED <<until, sent, gone, now, row, seen, retryAt, job, crossed>>

\* /admin/api/grant
GiveComp ==
  /\ ~(row.status = "active" /\ row.source = "stripe")
  /\ row' = [row EXCEPT !.status = "active", !.source = "comp"]
  /\ row' # row /\ job' = Crossing(Nil)
  /\ UNCHANGED <<stripeVars, now, seen, retryAt, crossed>>
Revoke ==
  /\ row.source # "stripe"
  /\ row' = [row EXCEPT !.status = "none", !.source = ""]
  /\ row' # row /\ job' = Crossing(Nil)
  /\ UNCHANGED <<stripeVars, now, seen, retryAt, crossed>>

-----------------------------------------------------------------------------
(* Stripe and the days *)

\* An event is its type, its subscription, and how many such came before it
Sends(types, s) ==
  /\ Cardinality(sent) + Cardinality(types) <= MaxEvents
  /\ sent' = sent \cup {[type |-> t, sub |-> s,
                         id |-> Cardinality({e \in sent : e.type = t /\ e.sub = s})] :
                        t \in types}
  /\ UNCHANGED <<owner, now, row, seen, retryAt, job, crossed>>

\* The checkout is paid: its events are checkout.session.completed and
\* customer.subscription.created
Pay(s) ==
  /\ sub[s] = "open" /\ Alive = {}
  /\ sub' = [sub EXCEPT ![s] = "live"] /\ until' = [until EXCEPT ![s] = now + Period]
  /\ Sends({"checkout", "updated"}, s) /\ gone' = 0

\* A payment fails, once the checkout itself is long done with; or comes in
Lapse(s) ==
  /\ sub[s] = "live" /\ now >= until[s] /\ \A e \in sent \ seen : e.type # "checkout"
  /\ \A w \in Workers : job[w].does # "checkout"
  /\ sub' = [sub EXCEPT ![s] = "late"] /\ UNCHANGED until
  /\ Sends({"updated"}, s) /\ UNCHANGED gone
Renew(s) ==
  /\ Active(sub[s]) /\ now >= until[s]
  /\ sub' = [sub EXCEPT ![s] = "live"] /\ until' = [until EXCEPT ![s] = now + Period]
  /\ Sends({"updated"}, s) /\ UNCHANGED gone

\* It is cancelled, at any time, by the user or by Stripe
End(s) ==
  /\ Active(sub[s]) /\ sub' = [sub EXCEPT ![s] = "ended"] /\ UNCHANGED until
  /\ Sends({"deleted"}, s) /\ gone' = now

Tick ==
  /\ now < MaxTime /\ \A w \in Workers : job[w] = Idle
  /\ now' = now + 1 /\ retryAt' = FALSE
  /\ UNCHANGED <<stripeVars, row, seen, job, crossed>>

BillingInit ==
  /\ sub = [s \in Subs |-> "none"] /\ until = [s \in Subs |-> 0]
  /\ owner = [s \in Subs |-> Nil] /\ sent = {} /\ gone = 0 /\ now = 0
  /\ row = [status |-> "none", source |-> "", sub |-> Nil, cust |-> Nil, end |-> 0, checked |-> Nil]
  /\ seen = {} /\ retryAt = FALSE /\ job = [w \in Workers |-> Idle] /\ crossed = FALSE

Handle(w) == Ask(w) \/ Write(w)

BillingNext ==
  \/ \E w \in Workers, s \in Subs : Confirm(w, s)
  \/ \E w \in Workers, e \in sent : Deliver(w, e)
  \/ \E w \in Workers : Visit(w) \/ Handle(w) \/ NoAnswer(w)
  \/ \E s \in Subs : Checkout(s) \/ Pay(s) \/ Lapse(s) \/ Renew(s) \/ End(s)
  \/ GiveComp \/ Revoke \/ RetryEnds \/ Tick

BillingSpec == BillingInit /\ [][BillingNext]_billingVars

-----------------------------------------------------------------------------
(* Properties *)

\* The types of the state; what comes from Stripe names the subscription to
\* verify it against
BillingTypeOK ==
  /\ sub \in [Subs -> Statuses] /\ until \in [Subs -> Ends]
  /\ owner \in [Subs -> Subs \cup {Nil}] /\ Cardinality(sent) <= MaxEvents
  /\ now \in Dates /\ seen \subseteq sent /\ retryAt \in BOOLEAN /\ crossed \in BOOLEAN
  /\ row.status \in {"none", "active"} /\ row.source \in {"", "stripe", "comp"}
  /\ (row.source = "stripe" => row.sub # Nil)
  /\ row.sub \in Subs \cup {Nil} /\ row.cust \in Subs \cup {Nil}
  /\ row.end \in Ends /\ row.checked \in Dates \cup {Nil}

\* Nothing that was bought gives access for long once it is over: a status nobody
\* asks about outlives the subscription by a day at most, and one that is asked for
\* without an answer is honoured "only until current_period_end + this grace" of a
\* subscription that was paid for (the comment at STRIPE_GRACE)
TrustIsShort ==
  row.source # "comp" /\ Alive = {} =>
    /\ Trusted => now <= gone + Recheck
    /\ FailsOpen => \E s \in Subs : sub[s] = "ended" /\ now < until[s] + Grace

\* Once everything Stripe has sent is dealt with, a user with a subscription that
\* is alive has access, unless two requests crossed
Settled == seen = sent /\ \A w \in Workers : job[w] = Idle
PayingIsLetIn == Settled /\ Alive # {} => row.status = "active" \/ crossed

\* "an old one ending never overwrites a newer live one": the event of another
\* subscription never takes away the access that one alive gives
LiveIsKept ==
  [][\A w \in Workers :
       /\ job[w].does = "updated" /\ Write(w) /\ row.status = "active"
       /\ row.source = "stripe" /\ row.sub \in Alive \ {job[w].sub}
       => row'.status = "active"]_billingVars

\* A comp lasts until an admin takes it back, or a subscription takes its place
CompLasts ==
  [][row.status = "active" /\ row.source = "comp" /\ row'.status # "active" => Revoke]_billingVars

=============================================================================
