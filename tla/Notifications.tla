---------------------------- MODULE Notifications ----------------------------
(***************************************************************************)
(* The notification outbox (internal/notifications): what the dispatcher   *)
(* of the worker schedules for the revisions of an incident, claims under  *)
(* a lease, sends to a channel and reports.                                *)
(*                                                                         *)
(* One incident: the rows of different incidents never meet.  Instants are *)
(* reduced to what the queries compare: a row waits for nothing, for the   *)
(* stability window of one episode of the incident (its opening or one of  *)
(* its resumptions) or for its own backoff; windows have one length, so    *)
(* they elapse in order.  Schedule is one transaction and one action.      *)
(*                                                                         *)
(* This module sends to the channels that leave the instance; module       *)
(* InAppDelivery extends it with the integrated one.                       *)
(***************************************************************************)
EXTENDS Integers, FiniteSets

CONSTANTS
    Channel,
    InApp,          \* the integrated channel: the only one that can revise
    Routed,         \* Channel -> the severities it is subscribed to
    Critical,       \* severities are 1..Critical
    Worker,
    Pauses,         \* workers may be suspended for longer than their leases
    Evolution,      \* what may happen to the incident
    MaxRevision,    \* bound on the revisions of the incident
    MaxResumption,  \* bound on its resumptions
    MaxFailure,     \* bound on failed calls
    MaxCrash        \* bound on crashes of workers

ASSUME NotificationConstants ==
    /\ Critical \in Nat \ {0}
    /\ Routed \in [Channel -> SUBSET (1..Critical)]
    /\ "nobody" \notin Worker
    /\ Pauses \in BOOLEAN
    /\ Evolution \subseteq {"revise", "extend", "acknowledge", "resolve", "resume", "maintain"}
    /\ MaxRevision \in Nat /\ MaxResumption \in Nat
    /\ MaxFailure \in Nat /\ MaxCrash \in Nat

VARIABLES
    incident,   \* its row, and whether maintenances cover its active impacts
    elapsed,    \* the episodes whose stability window is over
    outbox,     \* Channel -> the rows of its deliveries, by event key
    worker,     \* Worker -> what its dispatcher is doing
    failures, crashes

vars == <<incident, elapsed, outbox, worker, failures, crashes>>

Nobody == "nobody"

Backoff == -1

Severity == 1..Critical

Key ==
    ({"firing", "resumed"} \X {0})
        \cup ({"revision"} \X (1..MaxRevision))
        \cup ({"resolved"} \X (0..MaxResumption))

\* order: of delivered_at.
Row ==
    [kind : {"firing", "update", "resolved"},
     status : {"pending", "failed", "delivered", "cancelled"},
     rev : 1..MaxRevision, alert : BOOLEAN, sev : Severity, extended : BOOLEAN,
     ends : BOOLEAN, wait : Backoff..(MaxResumption + 1), tried : BOOLEAN,
     owner : Worker \cup {Nobody}, held : BOOLEAN, order : Nat]

Incident ==
    [status : {"none", "active", "resolved"}, rev : 0..MaxRevision,
     sev : Severity, acked : BOOLEAN, extended : BOOLEAN, impacts : BOOLEAN,
     resumptions : 0..MaxResumption, muted : BOOLEAN]

Idle == [at |-> "idle"]

Init ==
    /\ incident = [status |-> "none", rev |-> 0, sev |-> 1, acked |-> FALSE,
                   extended |-> FALSE, impacts |-> FALSE, resumptions |-> 0,
                   muted |-> FALSE]
    /\ elapsed = 0
    /\ outbox = [c \in Channel |-> <<>>]
    /\ worker = [w \in Worker |-> Idle]
    /\ failures = 0 /\ crashes = 0

----------------------------------------------------------------------------
(* The incident, as its cycle and the operators change it *)

Revised(new) == incident' = [new EXCEPT !.rev = @ + 1]

IncidentStep(step) ==
    /\ incident.rev < MaxRevision
    /\ step
    /\ UNCHANGED <<elapsed, outbox, worker, failures, crashes>>

Open ==
    /\ incident.status = "none"
    /\ \E s \in Severity, e \in BOOLEAN :
          /\ e => "extend" \in Evolution
          /\ Revised([incident EXCEPT !.status = "active", !.sev = s, !.extended = e,
                                      !.impacts = TRUE])

\* A recomputation, or a change of the synchronisation of the acknowledgement.
Revise ==
    /\ "revise" \in Evolution /\ incident.status = "active"
    /\ \E s \in Severity, e \in BOOLEAN, i \in BOOLEAN :
          /\ incident.extended => e
          /\ e => incident.extended \/ "extend" \in Evolution
          /\ i \/ s = incident.sev
          /\ Revised([incident EXCEPT !.sev = s, !.extended = e, !.impacts = i])

Acknowledge ==
    /\ "acknowledge" \in Evolution
    /\ incident.status = "active" /\ ~incident.acked
    /\ Revised([incident EXCEPT !.acked = TRUE])

Resolve ==
    /\ "resolve" \in Evolution /\ incident.status = "active"
    /\ Revised([incident EXCEPT !.status = "resolved", !.impacts = FALSE])

\* Only an incident of one impact resumes, so never one that was extended.
Resume ==
    /\ "resume" \in Evolution
    /\ incident.status = "resolved" /\ ~incident.extended
    /\ incident.resumptions < MaxResumption
    /\ \E s \in Severity :
          Revised([incident EXCEPT !.status = "active", !.sev = s, !.impacts = TRUE,
                                   !.resumptions = @ + 1])

\* Maintenances begin and end without touching the incident.
Maintain ==
    /\ "maintain" \in Evolution /\ incident.status # "none"
    /\ incident' = [incident EXCEPT !.muted = ~@]
    /\ UNCHANGED <<elapsed, outbox, worker, failures, crashes>>

----------------------------------------------------------------------------
(* Schedule: its statements in order, each on the rows of one channel *)

\* An active impact that no maintenance covers.
Notify == incident.impacts /\ ~incident.muted

Resolved == incident.status = "resolved"

Eligible == incident.status = "active" /\ ~incident.acked /\ Notify

Routes(c) == incident.sev \in Routed[c]

Waiting(row) == row.status \in {"pending", "failed"}

Free(row) == Waiting(row) /\ ~row.held

Cancelled(row) == [row EXCEPT !.status = "cancelled", !.owner = Nobody, !.held = FALSE]

NewRow(kind, alert, wait) ==
    [kind |-> kind, status |-> "pending", rev |-> incident.rev, alert |-> alert,
     sev |-> incident.sev, extended |-> incident.extended, ends |-> Resolved,
     wait |-> wait, tried |-> FALSE, owner |-> Nobody, held |-> FALSE, order |-> 0]

CancelOpenings(q) ==
    [k \in DOMAIN q |->
        IF q[k].kind = "firing" /\ Free(q[k]) /\ ~Eligible THEN Cancelled(q[k]) ELSE q[k]]

\* Critical incidents do not wait for their stability.
Window == IF incident.sev = Critical THEN 0 ELSE incident.resumptions + 1

\* The rows q with one more, or another one, under key.
With(q, key, row) == [k \in DOMAIN q \cup {key} |-> IF k = key THEN row ELSE q[k]]

\* Mutant: a cancelled announcement is never taken up again.
ArmedOnce(q, key) ==
    IF key \in DOMAIN q THEN q ELSE With(q, key, NewRow("firing", TRUE, Window))

\* A cancelled announcement is taken up again; Refresh brings its content up
\* to date in the same transaction.
Armed(q, key) ==
    IF key \notin DOMAIN q THEN With(q, key, NewRow("firing", TRUE, Window))
    ELSE IF q[key].status = "cancelled"
    THEN With(q, key, [q[key] EXCEPT !.status = "pending", !.wait = Window])
    ELSE q

Opening == <<"firing", 0>>

OpeningDelivered(q) == Opening \in DOMAIN q /\ q[Opening].status = "delivered"

ScheduleOpening(c, q) == IF Eligible /\ Routes(c) THEN Armed(q, Opening) ELSE q

\* Only where the opening was delivered; a delivered one is never armed again.
ScheduleResumption(c, q) ==
    IF Eligible /\ Routes(c) /\ incident.resumptions > 0 /\ OpeningDelivered(q)
    THEN Armed(q, <<"resumed", 0>>) ELSE q

Refresh(q) ==
    [k \in DOMAIN q |->
        IF q[k].kind = "firing" /\ Free(q[k])
        THEN [q[k] EXCEPT !.rev = incident.rev, !.sev = incident.sev,
                          !.extended = incident.extended,
                          !.wait = IF q[k].status = "failed" THEN @ ELSE Window]
        ELSE q[k]]

DeliveredAlerts(q) == {q[k] : k \in {j \in DOMAIN q : q[j].status = "delivered" /\ q[j].alert}}

\* Mutant: more than one of the alerts announced is enough.
NewsBeyondOne(alerts) ==
    \/ \E r \in alerts : incident.sev > r.sev
    \/ incident.extended /\ \E r \in alerts : ~r.extended

\* A severity above all those announced, or the first wide propagation.
NewsBeyond(alerts) ==
    \/ \A r \in alerts : incident.sev > r.sev
    \/ incident.extended /\ \A r \in alerts : ~r.extended

Interrupts(q) == ~Resolved /\ Notify /\ NewsBeyond(DeliveredAlerts(q))

Unscheduled(q) == \A k \in DOMAIN q : q[k].status # "cancelled" => incident.rev > q[k].rev

\* A revision that replaces one in failure inherits its backoff.
UpdateRow(q) ==
    LET tried == {k \in DOMAIN q : q[k].kind = "update" /\ Waiting(q[k]) /\ q[k].tried}
        wait == IF \E k \in tried : q[k].wait = Backoff THEN Backoff ELSE 0 IN
    [NewRow("update", Interrupts(q), wait) EXCEPT !.tried = tried # {}]

ScheduleUpdate(c, q) ==
    LET key == <<"revision", incident.rev>> IN
    IF /\ OpeningDelivered(q) /\ Unscheduled(q)
       /\ Notify \/ Resolved \/ ~incident.impacts
       /\ c = InApp \/ (Interrupts(q) /\ Routes(c))
       /\ key \notin DOMAIN q
    THEN With(q, key, UpdateRow(q)) ELSE q

ReplaceStale(q) ==
    [k \in DOMAIN q |->
        IF q[k].kind = "update" /\ Free(q[k]) /\ q[k].rev < incident.rev
        THEN Cancelled(q[k]) ELSE q[k]]

\* What the last alert recorded as delivered announces; nothing is an end.
LastAlert(q) ==
    IF DeliveredAlerts(q) = {} THEN "resolved"
    ELSE (CHOOSE r \in DeliveredAlerts(q) : \A s \in DeliveredAlerts(q) : s.order <= r.order).kind

ScheduleResolution(c, q) ==
    LET key == <<"resolved", incident.resumptions>> IN
    IF /\ c # InApp /\ OpeningDelivered(q) /\ Resolved
       /\ LastAlert(q) # "resolved" /\ key \notin DOMAIN q
    THEN With(q, key, NewRow("resolved", TRUE, 0)) ELSE q

\* Each statement works on the rows the previous one left, the one element of
\* a set.
Scheduled(c) ==
    LET cancelled == {CancelOpenings(outbox[c])}
        opened == {ScheduleOpening(c, q) : q \in cancelled}
        resumed == {ScheduleResumption(c, q) : q \in opened}
        refreshed == {Refresh(q) : q \in resumed}
        updated == {ScheduleUpdate(c, q) : q \in refreshed}
        replaced == {ReplaceStale(q) : q \in updated}
        resolved == {ScheduleResolution(c, q) : q \in replaced}
    IN CHOOSE q \in resolved : TRUE

----------------------------------------------------------------------------
(* The dispatcher: Process *)

Schedule(w) ==
    /\ worker[w].at = "idle" /\ incident.status # "none"
    /\ outbox' = [c \in Channel |-> Scheduled(c)]
    /\ worker' = [worker EXCEPT ![w] = [at |-> "claiming"]]
    /\ UNCHANGED <<incident, elapsed, failures, crashes>>

Due(row) == row.wait \in 0..elapsed

Claimable(c, k) ==
    /\ Free(outbox[c][k]) /\ Due(outbox[c][k])
    /\ outbox[c][k].kind = "firing" => incident.status = "active" /\ ~incident.acked

\* The worker keeps the content it read when it claimed.
Claim(w, c, k) ==
    LET row == outbox[c][k] IN
    /\ worker[w].at = "claiming" /\ Claimable(c, k)
    /\ outbox' = [outbox EXCEPT ![c][k].owner = w, ![c][k].held = TRUE]
    /\ worker' = [worker EXCEPT ![w] = [at |-> "sending", channel |-> c, key |-> k, kind |-> row.kind,
                                        rev |-> row.rev, alert |-> row.alert, ends |-> row.ends]]
    /\ UNCHANGED <<incident, elapsed, failures, crashes>>

Rest(w) ==
    /\ worker[w].at = "claiming"
    /\ ~\E c \in Channel : \E k \in DOMAIN outbox[c] : Claimable(c, k)
    /\ worker' = [worker EXCEPT ![w] = Idle]
    /\ UNCHANGED <<incident, elapsed, outbox, failures, crashes>>

\* The delivery has ended, and is yet to be reported.
Ended(w, ok) ==
    /\ worker[w].at = "sending"
    /\ worker' = [worker EXCEPT ![w] = [at |-> "reporting", channel |-> worker[w].channel,
                                        key |-> worker[w].key, ok |-> ok]]
    /\ UNCHANGED <<incident, elapsed, outbox, crashes>>

\* A call that fails may have been received.
Called(w) ==
    \/ Ended(w, TRUE) /\ UNCHANGED failures
    \/ Ended(w, FALSE) /\ failures < MaxFailure /\ failures' = failures + 1

Send(w) == worker[w].at = "sending" /\ worker[w].channel # InApp /\ Called(w)

Owns(w) == worker[w].at = "reporting" /\ outbox[worker[w].channel][worker[w].key].owner = w

\* The position of the next delivery in the order of delivered_at.
NextOrder(q) == 1 + Cardinality({k \in DOMAIN q : q[k].status = "delivered"})

Complete(q, k) == [q[k] EXCEPT !.status = "delivered", !.order = NextOrder(q)]

Fail(q, k) == [q[k] EXCEPT !.status = "failed", !.tried = TRUE, !.wait = Backoff]

Report(w) ==
    LET q == outbox[worker[w].channel]
        row == IF worker[w].ok THEN Complete(q, worker[w].key) ELSE Fail(q, worker[w].key) IN
    /\ outbox' = [outbox EXCEPT ![worker[w].channel][worker[w].key] =
                                    [row EXCEPT !.owner = Nobody, !.held = FALSE]]
    /\ worker' = [worker EXCEPT ![w] = [at |-> "claiming"]]

\* "notification delivery lease lost" ends the dispatcher and the worker, which
\* its supervisor restarts.
LoseLease(w) == worker' = [worker EXCEPT ![w] = Idle] /\ UNCHANGED outbox

Settle(w) ==
    /\ worker[w].at = "reporting"
    /\ IF Owns(w) THEN Report(w) ELSE LoseLease(w)
    /\ UNCHANGED <<incident, elapsed, failures, crashes>>

Crash(w) ==
    /\ worker[w].at # "idle" /\ crashes < MaxCrash
    /\ crashes' = crashes + 1
    /\ worker' = [worker EXCEPT ![w] = Idle]
    /\ UNCHANGED <<incident, elapsed, outbox, failures>>

----------------------------------------------------------------------------
(* Time *)

WindowElapses ==
    /\ incident.status # "none" /\ elapsed < incident.resumptions + 1
    /\ elapsed' = elapsed + 1
    /\ UNCHANGED <<incident, outbox, worker, failures, crashes>>

BackoffEnds(c, k) ==
    /\ Waiting(outbox[c][k]) /\ outbox[c][k].wait = Backoff
    /\ outbox' = [outbox EXCEPT ![c][k].wait = 0]
    /\ UNCHANGED <<incident, elapsed, worker, failures, crashes>>

Busy(w, c, k) ==
    worker[w].at \in {"sending", "reporting"} /\ worker[w].channel = c /\ worker[w].key = k

\* Thirty seconds, when a call takes ten at most: unless the worker is
\* suspended, its lease outlives what it is doing.
LeaseExpires(c, k) ==
    /\ outbox[c][k].held
    /\ Pauses \/ ~\E w \in Worker : Busy(w, c, k)
    /\ outbox' = [outbox EXCEPT ![c][k].held = FALSE]
    /\ UNCHANGED <<incident, elapsed, worker, failures, crashes>>

----------------------------------------------------------------------------

Evolve ==
    \/ IncidentStep(Open) \/ IncidentStep(Revise) \/ IncidentStep(Acknowledge)
    \/ IncidentStep(Resolve) \/ IncidentStep(Resume) \/ Maintain

Queue(w) == Schedule(w) \/ Rest(w) \/ \E c \in Channel : \E k \in DOMAIN outbox[c] : Claim(w, c, k)

Time == WindowElapses \/ \E c \in Channel : \E k \in DOMAIN outbox[c] : BackoffEnds(c, k) \/ LeaseExpires(c, k)

Next ==
    \/ Evolve \/ Time
    \/ \E w \in Worker : Queue(w) \/ Send(w) \/ Settle(w) \/ Crash(w)

Spec == Init /\ [][Next]_vars

\* The loops of the worker and the clock go on; calls fail and workers crash
\* finitely often.
Fairness ==
    /\ \A w \in Worker : WF_vars(Queue(w) \/ Send(w) \/ Settle(w))
    /\ WF_vars(Time)

FairSpec == Spec /\ Fairness

----------------------------------------------------------------------------
(* Correctness *)

\* The rows have their types, and a row of an announcement never ends one.
TypeOK ==
    /\ incident \in Incident
    /\ elapsed \in 0..(MaxResumption + 1)
    /\ \A c \in Channel : \A k \in DOMAIN outbox[c] :
          k \in Key /\ outbox[c][k] \in Row /\ (outbox[c][k].kind = "firing" => ~outbox[c][k].ends)
    /\ failures \in 0..MaxFailure /\ crashes \in 0..MaxCrash

Newly(c, k) == outbox'[c][k].status = "delivered" /\ outbox[c][k].status # "delivered"

\* As long as one dispatcher runs without dying, an update recorded as delivered
\* in alert tells more than every alert of a problem delivered before it: a
\* higher severity or the first wide propagation, over failures, cancellations,
\* resumptions and maintenances.  (Two dispatchers, or one that is restarted
\* before its leases end, may announce the same news under two revisions.)
AlertsAreNews ==
    [][\A c \in Channel : \A k \in DOMAIN outbox[c] :
          (crashes = 0 /\ Newly(c, k) /\ outbox[c][k].kind = "update" /\ outbox[c][k].alert)
          => LET alerts == {r \in DeliveredAlerts(outbox[c]) : r.kind # "resolved"} IN
             \/ \A r \in alerts : outbox[c][k].sev > r.sev
             \/ outbox[c][k].extended /\ \A r \in alerts : ~r.extended]_vars

\* A delivery recorded as made is never made again: the report of a worker that
\* lost its lease changes nothing, nor does any later state of the incident.
DeliveredStays ==
    \A c \in Channel : \A k \in DOMAIN outbox[c] :
        outbox[c][k].status = "delivered" => outbox'[c][k] = outbox[c][k]

\* An incident that stays active, unacknowledged and outside maintenance is
\* announced on every channel subscribed to its severity, although
\* announcements are cancelled and taken up again, calls fail and workers crash.
OpeningsReach ==
    \A c \in Channel : <>[](Eligible /\ Routes(c)) => <>OpeningDelivered(outbox[c])

=============================================================================
