---------------------------- MODULE InAppDelivery ----------------------------
(***************************************************************************)
(* The integrated channel and the pushes that follow it: Deliver writes    *)
(* the inbox and the push outbox in one transaction                        *)
(* (internal/notifications/store.go), and the push dispatcher              *)
(* (internal/push) sends to the devices through the relay.                 *)
(*                                                                         *)
(* One account: every active account holds the same entry.  Reading and    *)
(* dismissing an entry, which no decision below reads, are left out.  Both *)
(* dispatchers of a worker are one process: they die together.             *)
(***************************************************************************)
EXTENDS Notifications

CONSTANTS
    Device,
    MaxChange       \* bound on what accounts do to their devices

ASSUME DeviceConstants == MaxChange \in Nat

VARIABLES
    inbox,      \* the entry of the incident: its revision, what it announces, and
                \* (history) whether an older revision ever replaced a newer one
    pushes,     \* Device -> the rows of the push outbox, by revision
    ready,      \* Device -> neither revoked nor disabled, with a recipient
    pusher,     \* Worker -> what its push dispatcher is doing
    changes

pushVars == <<inbox, pushes, ready, pusher, changes>>

allVars == <<vars, pushVars>>

NoEntry == [rev |-> 0, kind |-> "none", fellBack |-> FALSE]

PushRow ==
    [kind : {"firing", "resolved"}, alert : BOOLEAN,
     status : {"pending", "failed", "delivered", "cancelled"},
     wait : {0, Backoff}, tried : BOOLEAN, owner : Worker \cup {Nobody}, held : BOOLEAN]

InAppInit ==
    /\ Init
    /\ inbox = NoEntry
    /\ pushes = [d \in Device |-> <<>>]
    /\ ready = [d \in Device |-> TRUE]
    /\ pusher = [w \in Worker |-> Idle]
    /\ changes = 0

----------------------------------------------------------------------------
(* Deliver *)

\* An announcement is deposited whatever the entry holds; an update only
\* revises an older entry.
Affects(job) == job.kind = "firing" \/ inbox.rev < job.rev

Entry(job) ==
    [rev |-> job.rev, kind |-> IF job.ends THEN "resolved" ELSE "firing",
     fellBack |-> inbox.fellBack \/ job.rev < inbox.rev]

Stale(d, rev) == {r \in DOMAIN pushes[d] : r < rev /\ Waiting(pushes[d][r])}

InFlight(rev) == \E d \in Device : \E r \in Stale(d, rev) : pushes[d][r].held

\* The alerts the device received.
Alerts(d) == {r \in DOMAIN pushes[d] : pushes[d][r].status = "delivered" /\ pushes[d][r].alert}

\* The newest of them announced a problem in progress.
HasBegun(d) ==
    \E r \in Alerts(d) : pushes[d][r].kind # "resolved" /\ \A s \in Alerts(d) : s <= r

\* Mutant: every resolution is visible.
PushAlertAlways(d, job) ==
    \/ Entry(job).kind = "resolved" \/ job.alert
    \/ \E r \in Stale(d, job.rev) : pushes[d][r].alert

\* A resolution is visible where it ends something; another revision keeps the
\* alert of those it replaces.
PushAlert(d, job) ==
    IF Entry(job).kind = "resolved" THEN HasBegun(d)
    ELSE job.alert \/ \E r \in Stale(d, job.rev) : pushes[d][r].alert

NewPush(d, job) ==
    LET tried == {r \in Stale(d, job.rev) : pushes[d][r].tried}
        wait == IF \E r \in tried : pushes[d][r].wait = Backoff THEN Backoff ELSE 0 IN
    [kind |-> Entry(job).kind, alert |-> PushAlert(d, job), status |-> "pending",
     wait |-> wait, tried |-> tried # {}, owner |-> Nobody, held |-> FALSE]

\* Mutant: the pushes of the revisions it replaces stay in the outbox.
ReplacedNot(d, job) ==
    IF ready[d] /\ job.rev \notin DOMAIN pushes[d]
    THEN With(pushes[d], job.rev, NewPush(d, job)) ELSE pushes[d]

\* A row of the same revision is left as it is.
Replaced(d, job) ==
    LET kept == [r \in DOMAIN pushes[d] |->
                    IF r \in Stale(d, job.rev) THEN Cancelled(pushes[d][r]) ELSE pushes[d][r]] IN
    IF ready[d] /\ job.rev \notin DOMAIN pushes[d]
    THEN With(kept, job.rev, NewPush(d, job)) ELSE kept

DeliverEntry(w) ==
    LET job == worker[w] IN
    /\ Affects(job) /\ ~InFlight(job.rev)
    /\ inbox' = Entry(job)
    /\ pushes' = [d \in Device |-> Replaced(d, job)]
    /\ Ended(w, TRUE)
    /\ UNCHANGED <<failures, ready, pusher, changes>>

DeliverNothing(w) ==
    /\ ~Affects(worker[w])
    /\ Ended(w, TRUE)
    /\ UNCHANGED <<failures, pushVars>>

\* Mutant: the revision that is rolled back is reported as delivered.
DeliverLaterDone(w) ==
    /\ Affects(worker[w]) /\ InFlight(worker[w].rev)
    /\ Ended(w, TRUE)
    /\ UNCHANGED <<failures, pushVars>>

\* A push of an older revision is being sent: everything is rolled back.
DeliverLater(w) ==
    /\ Affects(worker[w]) /\ InFlight(worker[w].rev)
    /\ Ended(w, FALSE)
    /\ UNCHANGED <<failures, pushVars>>

DeliverError(w) ==
    /\ failures < MaxFailure /\ failures' = failures + 1
    /\ Ended(w, FALSE)
    /\ UNCHANGED pushVars

Deliver(w) ==
    /\ worker[w].at = "sending" /\ worker[w].channel = InApp
    /\ DeliverEntry(w) \/ DeliverNothing(w) \/ DeliverLater(w) \/ DeliverError(w)

----------------------------------------------------------------------------
(* The push dispatcher *)

\* The message announces what the entry holds at the claim.
PushClaim(w, d, r) ==
    /\ pusher[w].at = "idle" /\ ready[d]
    /\ Free(pushes[d][r]) /\ pushes[d][r].wait = 0
    /\ pushes' = [pushes EXCEPT ![d][r].owner = w, ![d][r].held = TRUE]
    /\ pusher' = [pusher EXCEPT ![w] = [at |-> "sending", device |-> d, rev |-> r,
                                        kind |-> inbox.kind, alert |-> pushes[d][r].alert]]
    /\ UNCHANGED <<vars, inbox, ready, changes>>

Given(w) == pushes[pusher[w].device][pusher[w].rev]

PushOwns(w) == pusher[w].at = "sending" /\ Given(w).owner = w

PushReport(w, row) ==
    /\ pushes' = [pushes EXCEPT ![pusher[w].device][pusher[w].rev] =
                                    [row EXCEPT !.owner = Nobody, !.held = FALSE]]
    /\ pusher' = [pusher EXCEPT ![w] = Idle]
    /\ UNCHANGED <<incident, elapsed, outbox, worker, crashes, inbox, ready, changes>>

PushComplete(w) ==
    /\ PushOwns(w)
    /\ PushReport(w, [Given(w) EXCEPT !.status = "delivered"])
    /\ UNCHANGED failures

PushFail(w) ==
    /\ PushOwns(w)
    /\ failures < MaxFailure /\ failures' = failures + 1
    /\ PushReport(w, [Given(w) EXCEPT !.status = "failed", !.tried = TRUE, !.wait = Backoff])

Silenced(q) == [r \in DOMAIN q |-> IF Waiting(q[r]) THEN Cancelled(q[r]) ELSE q[r]]

\* DisableDevice: the relay no longer knows the recipient.
PushExpire(w) ==
    LET d == pusher[w].device IN
    /\ PushOwns(w)
    /\ failures < MaxFailure /\ failures' = failures + 1
    /\ pushes' = [pushes EXCEPT ![d] = Silenced(@)]
    /\ ready' = [ready EXCEPT ![d] = FALSE]
    /\ pusher' = [pusher EXCEPT ![w] = Idle]
    /\ UNCHANGED <<incident, elapsed, outbox, worker, crashes, inbox, changes>>

Stop(w) ==
    /\ worker' = [worker EXCEPT ![w] = Idle]
    /\ pusher' = [pusher EXCEPT ![w] = Idle]
    /\ UNCHANGED <<incident, elapsed, outbox, failures, inbox, pushes, ready, changes>>

\* "lease lost", of a delivery or of a push, ends the worker, which is restarted.
InAppLoseLease(w) ==
    /\ \/ worker[w].at = "reporting" /\ ~Owns(w)
       \/ pusher[w].at = "sending" /\ ~PushOwns(w)
    /\ Stop(w)
    /\ UNCHANGED crashes

InAppCrash(w) ==
    /\ worker[w].at # "idle" \/ pusher[w].at # "idle"
    /\ crashes < MaxCrash /\ crashes' = crashes + 1
    /\ Stop(w)

----------------------------------------------------------------------------
(* Devices and time *)

\* The account registers a recipient on the device.
EnablePush(d) ==
    /\ ~ready[d] /\ changes < MaxChange /\ changes' = changes + 1
    /\ ready' = [ready EXCEPT ![d] = TRUE]
    /\ UNCHANGED <<vars, inbox, pushes, pusher>>

\* The device is revoked, or its recipient is withdrawn.
DisablePush(d) ==
    /\ ready[d] /\ changes < MaxChange /\ changes' = changes + 1
    /\ ready' = [ready EXCEPT ![d] = FALSE]
    /\ pushes' = [pushes EXCEPT ![d] = Silenced(@)]
    /\ UNCHANGED <<vars, inbox, pusher>>

PushBackoffEnds(d, r) ==
    /\ Waiting(pushes[d][r]) /\ pushes[d][r].wait = Backoff
    /\ pushes' = [pushes EXCEPT ![d][r].wait = 0]
    /\ UNCHANGED <<vars, inbox, ready, pusher, changes>>

PushBusy(w, d, r) == pusher[w].at = "sending" /\ pusher[w].device = d /\ pusher[w].rev = r

PushLeaseExpires(d, r) ==
    /\ pushes[d][r].held
    /\ Pauses \/ ~\E w \in Worker : PushBusy(w, d, r)
    /\ pushes' = [pushes EXCEPT ![d][r].held = FALSE]
    /\ UNCHANGED <<vars, inbox, ready, pusher, changes>>

----------------------------------------------------------------------------

Dispatch(w) == (Queue(w) \/ (Owns(w) /\ Settle(w))) /\ UNCHANGED pushVars

PushReports(w) == PushComplete(w) \/ PushFail(w) \/ PushExpire(w)

PushStep(w) == PushReports(w) \/ \E d \in Device : \E r \in DOMAIN pushes[d] : PushClaim(w, d, r)

PushTime == \E d \in Device : \E r \in DOMAIN pushes[d] : PushBackoffEnds(d, r) \/ PushLeaseExpires(d, r)

Devices == \E d \in Device : EnablePush(d) \/ DisablePush(d)

InAppNext ==
    \/ (Evolve \/ Time) /\ UNCHANGED pushVars
    \/ \E w \in Worker : Dispatch(w) \/ Deliver(w) \/ PushStep(w) \/ InAppLoseLease(w) \/ InAppCrash(w)
    \/ PushTime \/ Devices

InAppSpec == InAppInit /\ [][InAppNext]_allVars

\* As for the outbox, and the push dispatcher goes on too.
InAppFairSpec ==
    /\ InAppSpec
    /\ \A w \in Worker : /\ WF_allVars(Dispatch(w) \/ Deliver(w)) /\ WF_allVars(PushStep(w))
                         /\ WF_allVars(InAppLoseLease(w))
    /\ WF_allVars(Time /\ UNCHANGED pushVars) /\ WF_allVars(PushTime)

----------------------------------------------------------------------------
(* Correctness *)

\* The entry, the pushes and the dispatchers have their types.
InAppTypeOK ==
    /\ TypeOK
    /\ inbox \in [rev : 1..MaxRevision, kind : {"firing", "resolved"}, fellBack : BOOLEAN]
                  \cup {NoEntry}
    /\ \A d \in Device : \A r \in DOMAIN pushes[d] : r \in 1..MaxRevision /\ pushes[d][r] \in PushRow
    /\ ready \in [Device -> BOOLEAN] /\ changes \in 0..MaxChange

\* As long as no older revision replaced the entry (README, section 5), a push
\* that is yet to be sent is of the revision the entry holds and announces what
\* it announces, so a device never learns an older state last.
PushesAgree ==
    ~inbox.fellBack =>
        \A d \in Device : \A r \in DOMAIN pushes[d] :
            Waiting(pushes[d][r]) => r = inbox.rev /\ pushes[d][r].kind = inbox.kind

\* The types and the agreement of the waiting pushes with the inbox.
InboxInv == InAppTypeOK /\ PushesAgree

\* A worker sends in alert the end of what the device was not told of.
EndsAlone(w) ==
    /\ pusher[w].at = "idle" /\ pusher'[w].at = "sending"
    /\ pusher'[w].kind = "resolved" /\ pusher'[w].alert
    /\ ~HasBegun(pusher'[w].device)

EndsFollowBeginnings == \A w \in Worker : EndsAlone(w) => inbox.fellBack

\* No end without a beginning: until an older revision replaces the entry, a
\* device is shown a resolution only when the last alert it received announced
\* a problem, over resumptions, failed pushes, dead workers and devices that
\* come and go; and what was delivered stays delivered.
NoEndWithoutBeginning == [][DeliveredStays /\ EndsFollowBeginnings]_allVars

\* "A device learns no end without a beginning, nor the same end twice"
\* (notifications/store.go:697-701), without condition.
NeverAnEndAlone == [][\A w \in Worker : ~EndsAlone(w)]_allVars

Shown == Notify \/ Resolved \/ ~incident.impacts

\* Once its opening is delivered, the integrated channel informs of every
\* evolution: when the incident stays as it is, the entry comes to hold its
\* last revision, unless an older one replaced it.
InboxFollows ==
    <>[](InApp \in Channel /\ OpeningDelivered(outbox[InApp]) /\ Shown /\ ~inbox.fellBack)
        => <>[](inbox.rev = incident.rev)

=============================================================================
