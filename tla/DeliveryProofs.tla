--------------------------- MODULE DeliveryProofs ---------------------------
(***************************************************************************)
(* Proofs about the notifications of an incident, for any number of        *)
(* workers, channels, devices, revisions, resumptions, failures and        *)
(* crashes, and for workers that outlast their leases: what is recorded as *)
(* delivered stays so, and until an older revision replaces the entry of   *)
(* the inbox, pushes tell what it holds and no end comes alone.            *)
(*                                                                         *)
(* Rows, jobs, the entry and pushes quote revisions of the incident.  The  *)
(* invariant is stated of the set E of the revisions at which it was       *)
(* resolved: whoever quotes a revision tells an end exactly when it is in  *)
(* E, so two who quote the same revision tell the same.                    *)
(*                                                                         *)
(* The last part is about a single dispatcher: until it dies, an update in *)
(* alert tells more than the alerts delivered before it.                   *)
(***************************************************************************)
EXTENDS InAppDelivery, FiniteSetTheorems, TLAPS

----------------------------------------------------------------------------
(* The inductive invariant *)

RowHolds(k, row, E) ==
    /\ k \in Key /\ row \in Row
    /\ row.kind = "firing" => ~row.ends
    /\ row.rev <= incident.rev
    /\ row.ends <=> row.rev \in E
    /\ ~Waiting(row) => row.owner = Nobody /\ ~row.held

RowsHold(q, E) ==
    /\ q = [k \in DOMAIN q |-> q[k]]
    /\ \A k \in DOMAIN q : RowHolds(k, q[k], E)

\* What a worker sends is what it read in the row it claimed.
JobHolds(w, E) ==
    /\ worker[w].at \in {"idle", "claiming", "sending", "reporting"}
    /\ worker[w].at \in {"sending", "reporting"} =>
          /\ worker[w].channel \in Channel
          /\ worker[w].key \in DOMAIN outbox[worker[w].channel]
    /\ worker[w].at = "reporting" => worker[w].ok \in BOOLEAN
    /\ worker[w].at = "sending" =>
          /\ worker[w].kind \in {"firing", "update", "resolved"}
          /\ worker[w].rev \in 1..MaxRevision /\ worker[w].rev <= incident.rev
          /\ worker[w].alert \in BOOLEAN /\ worker[w].ends \in BOOLEAN
          /\ worker[w].kind = "firing" => ~worker[w].ends
          /\ worker[w].ends <=> worker[w].rev \in E

IncidentHolds(E) ==
    /\ incident \in Incident
    /\ incident.status # "none" => incident.rev >= 1
    /\ incident.status = "resolved" <=> incident.rev \in E

OutboxHolds(E) ==
    /\ IncidentHolds(E)
    /\ elapsed \in 0..(MaxResumption + 1)
    /\ failures \in 0..MaxFailure /\ crashes \in 0..MaxCrash
    /\ outbox = [c \in Channel |-> outbox[c]]
    /\ \A c \in Channel : RowsHold(outbox[c], E)
    /\ worker = [w \in Worker |-> worker[w]]
    /\ \A w \in Worker : JobHolds(w, E)

\* A push waits only while it is of the entry's revision or of a newer one.
PushHolds(d, r, E) ==
    /\ r \in 1..MaxRevision /\ r <= incident.rev /\ pushes[d][r] \in PushRow
    /\ pushes[d][r].kind = "resolved" <=> r \in E
    /\ ~Waiting(pushes[d][r]) => pushes[d][r].owner = Nobody /\ ~pushes[d][r].held
    /\ Waiting(pushes[d][r]) => r >= inbox.rev

\* Until the entry falls back it is the newest of what was deposited, and an end
\* that waits to be sent in alert ends something.
EntryLeads(d, r) ==
    /\ r <= inbox.rev
    /\ Waiting(pushes[d][r]) /\ pushes[d][r].alert /\ pushes[d][r].kind = "resolved" => HasBegun(d)

EntryHolds(E) ==
    /\ inbox \in [rev : 1..MaxRevision, kind : {"firing", "resolved"}, fellBack : BOOLEAN]
                  \cup {NoEntry}
    /\ inbox.rev <= incident.rev
    /\ inbox.rev # 0 => (inbox.kind = "resolved" <=> inbox.rev \in E)

PushesHold(E) ==
    /\ pushes = [d \in Device |-> pushes[d]]
    /\ \A d \in Device : pushes[d] = [r \in DOMAIN pushes[d] |-> pushes[d][r]]
    /\ \A d \in Device : \A r \in DOMAIN pushes[d] : PushHolds(d, r, E)
    /\ ~inbox.fellBack => \A d \in Device : \A r \in DOMAIN pushes[d] : EntryLeads(d, r)

PushersHold ==
    /\ pusher = [w \in Worker |-> pusher[w]]
    /\ \A w \in Worker : pusher[w].at = "sending" =>
          pusher[w].device \in Device /\ pusher[w].rev \in DOMAIN pushes[pusher[w].device]
    /\ ready \in [Device -> BOOLEAN] /\ changes \in 0..MaxChange

InboxHolds(E) == EntryHolds(E) /\ PushesHold(E) /\ PushersHold

DeliveryInv == \E E \in SUBSET (1..MaxRevision) : OutboxHolds(E) /\ InboxHolds(E)

----------------------------------------------------------------------------
(* The statements of Schedule *)

LEMMA Types ==
    /\ Nobody \notin Worker /\ MaxRevision \in Nat /\ MaxResumption \in Nat
    /\ MaxFailure \in Nat /\ MaxCrash \in Nat /\ MaxChange \in Nat
    /\ Critical \in Nat \ {0} /\ Severity = 1..Critical
    /\ Opening \in Key /\ <<"resumed", 0>> \in Key
    /\ \A n \in 1..MaxRevision : <<"revision", n>> \in Key
    /\ \A n \in 0..MaxResumption : <<"resolved", n>> \in Key
BY NotificationConstants, DeviceConstants
   DEF NotificationConstants, DeviceConstants, Nobody, Key, Opening, Severity

LEMMA CancelledHolds ==
    ASSUME NEW E, NEW k, NEW row, RowHolds(k, row, E)
    PROVE  RowHolds(k, Cancelled(row), E)
BY DEF RowHolds, Cancelled, Row, Waiting

LEMMA NewRowHolds ==
    ASSUME NEW E, IncidentHolds(E), incident.status # "none", NEW k \in Key,
           NEW kind \in {"firing", "update", "resolved"}, NEW alert \in BOOLEAN,
           NEW wait \in Backoff..(MaxResumption + 1), kind = "firing" => ~Resolved
    PROVE  /\ RowHolds(k, NewRow(kind, alert, wait), E)
           /\ RowHolds(k, [NewRow(kind, alert, wait) EXCEPT !.tried = TRUE], E)
           /\ RowHolds(k, [NewRow(kind, alert, wait) EXCEPT !.tried = FALSE], E)
<1> DEFINE row == NewRow(kind, alert, wait)
<1>1. /\ incident.rev \in 1..MaxRevision /\ incident.sev \in Severity /\ incident.extended \in BOOLEAN
      /\ Resolved \in BOOLEAN /\ incident.rev <= incident.rev
  BY DEF IncidentHolds, Incident, Resolved
<1>2. row \in Row
  BY <1>1 DEF NewRow, Row
<1>3. /\ row.kind = kind /\ row.rev = incident.rev /\ row.status = "pending"
      /\ row.ends <=> incident.rev \in E
      /\ kind = "firing" => ~row.ends
  BY <1>1 DEF NewRow, IncidentHolds, Resolved
<1> HIDE DEF row
<1>4. /\ [row EXCEPT !.tried = TRUE] \in Row /\ [row EXCEPT !.tried = FALSE] \in Row
  BY <1>2 DEF Row
<1>5. \A b \in {TRUE, FALSE} :
        LET x == [row EXCEPT !.tried = b] IN
        /\ x.kind = kind /\ x.rev = incident.rev /\ x.status = "pending"
        /\ x.ends <=> row.ends
  BY <1>2, <1>3 DEF Row
<1>6. RowHolds(k, row, E)
  BY <1>1, <1>2, <1>3 DEF RowHolds, Waiting
<1>7. RowHolds(k, [row EXCEPT !.tried = TRUE], E)
  BY <1>1, <1>3, <1>4, <1>5 DEF RowHolds, Waiting
<1>8. RowHolds(k, [row EXCEPT !.tried = FALSE], E)
  BY <1>1, <1>3, <1>4, <1>5 DEF RowHolds, Waiting
<1> QED BY <1>6, <1>7, <1>8 DEF row

LEMMA WithHolds ==
    ASSUME NEW E, NEW q, RowsHold(q, E), NEW k, NEW row, RowHolds(k, row, E)
    PROVE  RowsHold(With(q, k, row), E)
BY DEF RowsHold, With

\* No row is lost, and what is delivered stays.
Keeps(q, p) ==
    /\ DOMAIN q \subseteq DOMAIN p
    /\ \A k \in DOMAIN q : q[k].status = "delivered" => p[k] = q[k]

LEMMA WithKeeps ==
    ASSUME NEW q, NEW k, NEW row, k \in DOMAIN q => q[k].status # "delivered"
    PROVE  Keeps(q, With(q, k, row))
BY DEF Keeps, With

LEMMA KeepsOn ==
    ASSUME NEW q, NEW p, NEW r, Keeps(q, p), Keeps(p, r)
    PROVE  Keeps(q, r)
BY DEF Keeps

\* Only an eligible incident has an announcement that is not leased.
Announces(q) == \A k \in DOMAIN q : q[k].kind = "firing" /\ Free(q[k]) => Eligible

LEMMA CancelOpeningsKeeps ==
    ASSUME NEW E, NEW q, RowsHold(q, E)
    PROVE  /\ RowsHold(CancelOpenings(q), E) /\ Keeps(q, CancelOpenings(q))
           /\ Announces(CancelOpenings(q))
<1>1. RowsHold(CancelOpenings(q), E)
  BY CancelledHolds DEF RowsHold, CancelOpenings
<1>2. Keeps(q, CancelOpenings(q))
  BY DEF Keeps, CancelOpenings, Free, Waiting
<1>3. Announces(CancelOpenings(q))
  BY DEF Announces, CancelOpenings, Free, Waiting, Cancelled, RowsHold, RowHolds, Row
<1> QED BY <1>1, <1>2, <1>3

LEMMA ArmedKeeps ==
    ASSUME NEW E, IncidentHolds(E), Eligible, NEW q, RowsHold(q, E), NEW k \in Key
    PROVE  RowsHold(Armed(q, k), E) /\ Keeps(q, Armed(q, k))
<1>1. Window \in Backoff..(MaxResumption + 1)
  BY Types DEF Window, IncidentHolds, Incident, Backoff
<1>2. CASE k \notin DOMAIN q
  <2> DEFINE row == NewRow("firing", TRUE, Window)
  <2>1. RowHolds(k, row, E)
    BY <1>1, NewRowHolds DEF Eligible, Resolved
  <2>2. Armed(q, k) = With(q, k, row)
    BY <1>2 DEF Armed
  <2> HIDE DEF row
  <2> QED BY <1>2, <2>1, <2>2, WithHolds, WithKeeps
<1>3. CASE k \in DOMAIN q /\ q[k].status # "cancelled"
  BY <1>3 DEF Armed, Keeps
<1>4. CASE k \in DOMAIN q /\ q[k].status = "cancelled"
  <2> DEFINE row == [q[k] EXCEPT !.status = "pending", !.wait = Window]
  <2>1. RowHolds(k, q[k], E)
    BY <1>4 DEF RowsHold
  <2>2. row \in Row /\ row.kind = q[k].kind /\ row.rev = q[k].rev /\ (row.ends <=> q[k].ends)
        /\ row.status = "pending"
    BY <1>1, <2>1 DEF RowHolds, Row
  <2> HIDE DEF row
  <2>3. RowHolds(k, row, E)
    BY <2>1, <2>2 DEF RowHolds, Waiting
  <2>4. Armed(q, k) = With(q, k, row)
    BY <1>4 DEF Armed, row
  <2> QED BY <1>4, <2>3, <2>4, WithHolds, WithKeeps
<1> QED BY <1>2, <1>3, <1>4

LEMMA RefreshKeeps ==
    ASSUME NEW E, IncidentHolds(E), incident.status # "none",
           NEW q, RowsHold(q, E), Announces(q)
    PROVE  RowsHold(Refresh(q), E) /\ Keeps(q, Refresh(q))
<1>1. Keeps(q, Refresh(q))
  BY DEF Keeps, Refresh, Free, Waiting
<1>2. ASSUME NEW k \in DOMAIN q PROVE RowHolds(k, Refresh(q)[k], E)
  <2>1. RowHolds(k, q[k], E)
    BY <1>2 DEF RowsHold
  <2>2. CASE ~(q[k].kind = "firing" /\ Free(q[k]))
    <3>1. Refresh(q)[k] = q[k]
      BY <1>2, <2>2 DEF Refresh
    <3> QED BY <2>1, <3>1
  <2>3. CASE q[k].kind = "firing" /\ Free(q[k])
    <3> DEFINE wait == IF q[k].status = "failed" THEN q[k].wait ELSE Window
               row == [q[k] EXCEPT !.rev = incident.rev, !.sev = incident.sev,
                                   !.extended = incident.extended, !.wait = wait]
    <3>1. Refresh(q)[k] = row
      BY <1>2, <2>3 DEF Refresh
    <3>2. /\ incident.rev \in 1..MaxRevision /\ incident.sev \in Severity
          /\ incident.extended \in BOOLEAN /\ incident.rev <= incident.rev
      BY DEF IncidentHolds, Incident
    <3>3. wait \in Backoff..(MaxResumption + 1)
      BY SMTT(40), <2>1, Types DEF Window, IncidentHolds, Incident, Backoff, RowHolds, Row
    <3> HIDE DEF wait
    <3>4. row \in Row /\ row.kind = "firing" /\ row.rev = incident.rev /\ (row.ends <=> q[k].ends)
          /\ row.status = q[k].status
      BY <2>1, <2>3, <3>2, <3>3 DEF RowHolds, Row
    <3>5. incident.rev \notin E
      BY <1>2, <2>3 DEF Announces, Eligible, IncidentHolds
    <3>6. ~q[k].ends /\ Waiting(q[k])
      BY <2>1, <2>3 DEF RowHolds, Free
    <3> HIDE DEF row
    <3>7. RowHolds(k, row, E)
      BY <2>1, <3>2, <3>4, <3>5, <3>6 DEF RowHolds, Waiting
    <3> QED BY <3>1, <3>7
  <2> QED BY <2>2, <2>3
<1>3. Refresh(q) = [k \in DOMAIN q |-> Refresh(q)[k]] /\ DOMAIN Refresh(q) = DOMAIN q
  BY DEF Refresh
<1> QED BY <1>1, <1>2, <1>3 DEF RowsHold

LEMMA ScheduleUpdateKeeps ==
    ASSUME NEW E, IncidentHolds(E), incident.status # "none",
           NEW c, NEW q, RowsHold(q, E)
    PROVE  RowsHold(ScheduleUpdate(c, q), E) /\ Keeps(q, ScheduleUpdate(c, q))
<1> DEFINE key == <<"revision", incident.rev>>
<1>1. key \in Key
  BY Types DEF IncidentHolds, Incident
<1>2. RowHolds(key, UpdateRow(q), E)
  <2> DEFINE tried == {k \in DOMAIN q : q[k].kind = "update" /\ Waiting(q[k]) /\ q[k].tried}
             wait == IF \E k \in tried : q[k].wait = Backoff THEN Backoff ELSE 0
  <2>1. UpdateRow(q) = [NewRow("update", Interrupts(q), wait) EXCEPT !.tried = (tried # {})]
    BY DEF UpdateRow
  <2>2. wait \in Backoff..(MaxResumption + 1)
    BY Types DEF Backoff
  <2> HIDE DEF wait, tried
  <2>3. Interrupts(q) = TRUE \/ Interrupts(q) = FALSE
    BY DEF Interrupts
  <2>4. (tried # {}) = TRUE \/ (tried # {}) = FALSE
    OBVIOUS
  <2>5. \A b \in BOOLEAN :
            /\ RowHolds(key, [NewRow("update", b, wait) EXCEPT !.tried = TRUE], E)
            /\ RowHolds(key, [NewRow("update", b, wait) EXCEPT !.tried = FALSE], E)
    BY <1>1, <2>2, NewRowHolds
  <2> HIDE DEF key
  <2> QED BY <2>1, <2>3, <2>4, <2>5
<1>3. \/ ScheduleUpdate(c, q) = q
      \/ ScheduleUpdate(c, q) = With(q, key, UpdateRow(q)) /\ key \notin DOMAIN q
  BY DEF ScheduleUpdate
<1>4. Keeps(q, q)
  BY DEF Keeps
<1> HIDE DEF key
<1> QED BY <1>2, <1>3, <1>4, WithHolds, WithKeeps

LEMMA ReplaceStaleKeeps ==
    ASSUME NEW E, NEW q, RowsHold(q, E)
    PROVE  RowsHold(ReplaceStale(q), E) /\ Keeps(q, ReplaceStale(q))
<1>1. RowsHold(ReplaceStale(q), E)
  BY CancelledHolds DEF RowsHold, ReplaceStale
<1>2. Keeps(q, ReplaceStale(q))
  BY DEF Keeps, ReplaceStale, Free, Waiting
<1> QED BY <1>1, <1>2

LEMMA ScheduleResolutionKeeps ==
    ASSUME NEW E, IncidentHolds(E), incident.status # "none",
           NEW c, NEW q, RowsHold(q, E)
    PROVE  RowsHold(ScheduleResolution(c, q), E) /\ Keeps(q, ScheduleResolution(c, q))
<1> DEFINE key == <<"resolved", incident.resumptions>>
           row == NewRow("resolved", TRUE, 0)
<1>1. key \in Key
  BY Types DEF IncidentHolds, Incident
<1>2. RowHolds(key, row, E)
  <2>1. 0 \in Backoff..(MaxResumption + 1)
    BY Types DEF Backoff
  <2> HIDE DEF key
  <2> QED BY <1>1, <2>1, NewRowHolds
<1>3. \/ ScheduleResolution(c, q) = q
      \/ ScheduleResolution(c, q) = With(q, key, row) /\ key \notin DOMAIN q
  BY DEF ScheduleResolution
<1>4. Keeps(q, q)
  BY DEF Keeps
<1> HIDE DEF key, row
<1> QED BY <1>2, <1>3, <1>4, WithHolds, WithKeeps

\* The rows of a channel before the updates are written.
Announced(c) == Refresh(ScheduleResumption(c, ScheduleOpening(c, CancelOpenings(outbox[c]))))

LEMMA ScheduledIs ==
    ASSUME NEW c
    PROVE  Scheduled(c) = ScheduleResolution(c, ReplaceStale(ScheduleUpdate(c, Announced(c))))
<1> DEFINE q1 == CancelOpenings(outbox[c])
           q2 == ScheduleOpening(c, q1)
           q3 == ScheduleResumption(c, q2)
           q4 == Refresh(q3)
           q5 == ScheduleUpdate(c, q4)
           q6 == ReplaceStale(q5)
           q7 == ScheduleResolution(c, q6)
<1>1. /\ {ScheduleOpening(c, q) : q \in {q1}} = {q2}
      /\ {ScheduleResumption(c, q) : q \in {q2}} = {q3}
      /\ {Refresh(q) : q \in {q3}} = {q4}
      /\ {ScheduleUpdate(c, q) : q \in {q4}} = {q5}
      /\ {ReplaceStale(q) : q \in {q5}} = {q6}
      /\ {ScheduleResolution(c, q) : q \in {q6}} = {q7}
      /\ (CHOOSE q \in {q7} : TRUE) = q7
  OBVIOUS
<1>2. q7 = ScheduleResolution(c, ReplaceStale(ScheduleUpdate(c, Announced(c))))
  BY DEF Announced
<1>3. Scheduled(c) =
        CHOOSE q \in {ScheduleResolution(c, r) : r \in {ReplaceStale(r) : r \in
            {ScheduleUpdate(c, r) : r \in {Refresh(r) : r \in {ScheduleResumption(c, r) : r \in
            {ScheduleOpening(c, r) : r \in {q1}}}}}}} : TRUE
  BY DEF Scheduled
<1> QED BY <1>1, <1>2, <1>3, Zenon

LEMMA AnnouncedKeeps ==
    ASSUME NEW E, IncidentHolds(E), incident.status # "none", NEW c, RowsHold(outbox[c], E)
    PROVE  RowsHold(Announced(c), E) /\ Keeps(outbox[c], Announced(c))
<1> DEFINE q1 == CancelOpenings(outbox[c])
           q2 == ScheduleOpening(c, q1)
           q3 == ScheduleResumption(c, q2)
<1>1. RowsHold(q1, E) /\ Keeps(outbox[c], q1) /\ Announces(q1)
  BY CancelOpeningsKeeps
<1> HIDE DEF q1
<1>2. RowsHold(q2, E) /\ Keeps(q1, q2) /\ Announces(q2)
  <2>1. CASE Eligible
    BY <1>1, <2>1, ArmedKeeps, Types DEF ScheduleOpening, Announces, Keeps
  <2>2. CASE ~Eligible
    BY <1>1, <2>2 DEF ScheduleOpening, Keeps
  <2> QED BY <2>1, <2>2
<1> HIDE DEF q2
<1>3. RowsHold(q3, E) /\ Keeps(q2, q3) /\ Announces(q3)
  <2>1. CASE Eligible
    BY <1>2, <2>1, ArmedKeeps, Types DEF ScheduleResumption, Announces, Keeps
  <2>2. CASE ~Eligible
    BY <1>2, <2>2 DEF ScheduleResumption, Keeps
  <2> QED BY <2>1, <2>2
<1>4. Announced(c) = Refresh(q3)
  BY DEF Announced, q1, q2, q3
<1> HIDE DEF q3
<1>5. RowsHold(Refresh(q3), E) /\ Keeps(q3, Refresh(q3))
  BY <1>3, RefreshKeeps
<1>6. Keeps(outbox[c], q2)
  BY <1>1, <1>2, KeepsOn
<1>7. Keeps(outbox[c], q3)
  BY <1>3, <1>6, KeepsOn
<1> QED BY <1>4, <1>5, <1>7, KeepsOn

LEMMA ScheduledKeeps ==
    ASSUME NEW E, IncidentHolds(E), incident.status # "none", NEW c, RowsHold(outbox[c], E)
    PROVE  RowsHold(Scheduled(c), E) /\ Keeps(outbox[c], Scheduled(c))
<1> DEFINE q4 == Announced(c)
           q5 == ScheduleUpdate(c, q4)
           q6 == ReplaceStale(q5)
<1>1. RowsHold(q4, E) /\ Keeps(outbox[c], q4)
  BY AnnouncedKeeps
<1> HIDE DEF q4
<1>2. RowsHold(q5, E) /\ Keeps(q4, q5)
  BY <1>1, ScheduleUpdateKeeps
<1> HIDE DEF q5
<1>3. RowsHold(q6, E) /\ Keeps(q5, q6)
  BY <1>2, ReplaceStaleKeeps
<1>4. Scheduled(c) = ScheduleResolution(c, q6)
  BY ScheduledIs DEF q4, q5, q6
<1> HIDE DEF q6
<1>5. RowsHold(Scheduled(c), E) /\ Keeps(q6, Scheduled(c))
  BY <1>3, <1>4, ScheduleResolutionKeeps
<1>6. Keeps(outbox[c], q5)
  BY <1>1, <1>2, KeepsOn
<1>7. Keeps(outbox[c], q6)
  BY <1>3, <1>6, KeepsOn
<1> QED BY <1>5, <1>7, KeepsOn

----------------------------------------------------------------------------
(* The incident *)

\* The revisions at which the incident was resolved, after a step.
Ends(E) ==
    IF incident'.rev = incident.rev THEN E
    ELSE IF incident'.status = "resolved" THEN E \cup {incident'.rev} ELSE E \ {incident'.rev}

LEMMA EvolveMoves ==
    ASSUME NEW E, IncidentHolds(E), Evolve
    PROVE  /\ incident' \in Incident /\ UNCHANGED <<elapsed, outbox, worker, failures, crashes>>
           /\ \/ incident'.rev = incident.rev + 1 /\ incident'.status # "none"
              \/ incident'.rev = incident.rev /\ incident'.status = incident.status
<1>0. incident \in Incident /\ Critical \in Nat \ {0} /\ Severity = 1..Critical
  BY Types DEF IncidentHolds
<1> DEFINE Moves ==
        /\ incident' \in Incident /\ UNCHANGED <<elapsed, outbox, worker, failures, crashes>>
        /\ \/ incident'.rev = incident.rev + 1 /\ incident'.status # "none"
           \/ incident'.rev = incident.rev /\ incident'.status = incident.status
<1>1. ASSUME NEW new, Revised(new), incident.rev < MaxRevision,
             UNCHANGED <<elapsed, outbox, worker, failures, crashes>>,
             new \in Incident, new.rev = incident.rev, new.status # "none"
      PROVE  Moves
  <2>1. incident.rev + 1 \in 0..MaxRevision
    BY <1>0, <1>1, Types DEF Incident
  <2> QED BY <1>1, <2>1 DEF Revised, Incident
<1> HIDE DEF Moves
<1>2. CASE IncidentStep(Open)
  <2>1. PICK s \in Severity, e \in BOOLEAN :
          Revised([incident EXCEPT !.status = "active", !.sev = s, !.extended = e, !.impacts = TRUE])
    BY <1>2 DEF IncidentStep, Open
  <2> DEFINE new == [incident EXCEPT !.status = "active", !.sev = s, !.extended = e, !.impacts = TRUE]
  <2>2. new \in Incident /\ new.rev = incident.rev /\ new.status # "none"
    BY <1>0 DEF Incident
  <2> HIDE DEF new
  <2>3. Moves
    BY <1>1, <1>2, <2>1, <2>2 DEF IncidentStep, new
  <2> QED BY <2>3 DEF Moves
<1>3. CASE IncidentStep(Revise)
  <2>1. PICK s \in Severity, e \in BOOLEAN, b \in BOOLEAN :
          Revised([incident EXCEPT !.sev = s, !.extended = e, !.impacts = b])
    BY <1>3 DEF IncidentStep, Revise
  <2> DEFINE new == [incident EXCEPT !.sev = s, !.extended = e, !.impacts = b]
  <2>2. new \in Incident /\ new.rev = incident.rev /\ new.status # "none"
    BY <1>0, <1>3 DEF Incident, IncidentStep, Revise
  <2> HIDE DEF new
  <2>3. Moves
    BY <1>1, <1>3, <2>1, <2>2 DEF IncidentStep, new
  <2> QED BY <2>3 DEF Moves
<1>4. CASE IncidentStep(Acknowledge)
  <2> DEFINE new == [incident EXCEPT !.acked = TRUE]
  <2>1. Revised(new)
    BY <1>4 DEF IncidentStep, Acknowledge
  <2>2. new \in Incident /\ new.rev = incident.rev /\ new.status # "none"
    BY <1>0, <1>4 DEF Incident, IncidentStep, Acknowledge
  <2> HIDE DEF new
  <2>3. Moves
    BY <1>1, <1>4, <2>1, <2>2 DEF IncidentStep
  <2> QED BY <2>3 DEF Moves
<1>5. CASE IncidentStep(Resolve)
  <2> DEFINE new == [incident EXCEPT !.status = "resolved", !.impacts = FALSE]
  <2>1. Revised(new)
    BY <1>5 DEF IncidentStep, Resolve
  <2>2. new \in Incident /\ new.rev = incident.rev /\ new.status # "none"
    BY <1>0, <1>5 DEF Incident, IncidentStep, Resolve
  <2> HIDE DEF new
  <2>3. Moves
    BY <1>1, <1>5, <2>1, <2>2 DEF IncidentStep
  <2> QED BY <2>3 DEF Moves
<1>6. CASE IncidentStep(Resume)
  <2>1. PICK s \in Severity :
          Revised([incident EXCEPT !.status = "active", !.sev = s, !.impacts = TRUE,
                                   !.resumptions = @ + 1])
    BY <1>6 DEF IncidentStep, Resume
  <2> DEFINE new == [incident EXCEPT !.status = "active", !.sev = s, !.impacts = TRUE,
                                     !.resumptions = @ + 1]
  <2>2. incident.resumptions + 1 \in 0..MaxResumption
    BY SMTT(40), <1>0, <1>6, Types DEF Incident, IncidentStep, Resume
  <2>3. new \in Incident /\ new.rev = incident.rev /\ new.status # "none"
    BY <1>0, <2>2 DEF Incident
  <2> HIDE DEF new
  <2>4. Moves
    BY <1>1, <1>6, <2>1, <2>3 DEF IncidentStep, new
  <2> QED BY <2>4 DEF Moves
<1>7. CASE Maintain
  BY <1>0, <1>7 DEF Maintain, Incident
<1> QED BY <1>2, <1>3, <1>4, <1>5, <1>6, <1>7 DEF Evolve

LEMMA EvolveKeeps ==
    ASSUME NEW E \in SUBSET (1..MaxRevision), OutboxHolds(E), Evolve
    PROVE  \E F \in SUBSET (1..MaxRevision) :
              (\A n \in Nat : n <= incident.rev => (n \in F <=> n \in E)) /\ OutboxHolds(F)'
<1>1. /\ incident' \in Incident /\ UNCHANGED <<elapsed, outbox, worker, failures, crashes>>
      /\ \/ incident'.rev = incident.rev + 1 /\ incident'.status # "none"
         \/ incident'.rev = incident.rev /\ incident'.status = incident.status
      /\ incident \in Incident
  BY EvolveMoves DEF OutboxHolds, IncidentHolds
<1>2. /\ incident.rev \in Nat /\ incident'.rev \in 0..MaxRevision /\ incident.rev <= incident'.rev
      /\ incident'.rev # incident.rev => incident'.rev = incident.rev + 1 /\ incident'.rev \in 1..MaxRevision
  BY <1>1, Types DEF Incident
<1>0. PICK F : F = Ends(E)
  OBVIOUS
<1>3. F \in SUBSET (1..MaxRevision) /\ \A n \in Nat : n <= incident.rev => (n \in F <=> n \in E)
  <2>1. \/ F = E
        \/ /\ F = E \cup {incident'.rev} \/ F = E \ {incident'.rev}
           /\ incident'.rev \in 1..MaxRevision /\ incident'.rev = incident.rev + 1
    BY <1>0, <1>2 DEF Ends
  <2>2. F \in SUBSET (1..MaxRevision)
    BY <2>1
  <2>3. ASSUME NEW n \in Nat, n <= incident.rev PROVE n \in F <=> n \in E
    <3>1. incident'.rev = incident.rev + 1 => n # incident'.rev
      BY <1>2, <2>3
    <3> QED BY <2>1, <3>1
  <2> QED BY <2>2, <2>3
<1>4. IncidentHolds(F)'
  <2>1. incident'.status = "resolved" <=> incident'.rev \in F
    BY <1>0, <1>1, <1>2 DEF Ends, OutboxHolds, IncidentHolds
  <2>2. incident'.status # "none" => incident'.rev >= 1
    BY <1>1, <1>2 DEF OutboxHolds, IncidentHolds
  <2> QED BY <1>1, <2>1, <2>2 DEF IncidentHolds
<1>5. ASSUME NEW c \in Channel PROVE RowsHold(outbox[c], F)'
  <2>1. outbox'[c] = outbox[c] /\ RowsHold(outbox[c], E)
    BY <1>1 DEF OutboxHolds
  <2>2. ASSUME NEW k \in DOMAIN outbox[c] PROVE RowHolds(k, outbox[c][k], F)'
    <3>1. RowHolds(k, outbox[c][k], E)
      BY <2>1 DEF RowsHold
    <3>2. outbox[c][k].rev \in Nat
      BY <3>1 DEF RowHolds, Row
    <3> QED BY <1>2, <1>3, <2>1, <3>1, <3>2 DEF RowHolds, Waiting
  <2> QED BY <2>1, <2>2 DEF RowsHold
<1>6. ASSUME NEW w \in Worker PROVE JobHolds(w, F)'
  <2>1. worker'[w] = worker[w] /\ outbox' = outbox /\ JobHolds(w, E)
    BY <1>1 DEF OutboxHolds
  <2>2. worker[w].at = "sending" => worker[w].rev \in Nat
    BY <2>1 DEF JobHolds
  <2> QED BY <1>2, <1>3, <2>1, <2>2 DEF JobHolds
<1>7. OutboxHolds(F)'
  BY <1>1, <1>4, <1>5, <1>6 DEF OutboxHolds
<1> QED BY <1>3, <1>7

LEMMA EntryOutlivesRevisions ==
    ASSUME NEW E, OutboxHolds(E), InboxHolds(E), Evolve, UNCHANGED pushVars,
           NEW F, \A n \in Nat : n <= incident.rev => (n \in F <=> n \in E)
    PROVE  InboxHolds(F)'
<1>0. /\ incident' \in Incident /\ incident \in Incident
      /\ incident'.rev = incident.rev + 1 \/ incident'.rev = incident.rev
  <2>1. IncidentHolds(E)
    BY DEF OutboxHolds
  <2> QED BY <2>1, EvolveMoves DEF IncidentHolds
<1>1. incident.rev <= incident'.rev /\ incident.rev \in Nat /\ incident'.rev \in Nat
  BY <1>0, Types DEF Incident
<1>2. /\ inbox' = inbox /\ pushes' = pushes /\ ready' = ready /\ pusher' = pusher /\ changes' = changes
      /\ inbox.rev \in Nat
  BY DEF pushVars, InboxHolds, EntryHolds, NoEntry
<1>3. ASSUME NEW d \in Device, NEW r \in DOMAIN pushes[d] PROVE PushHolds(d, r, F)'
  BY <1>1, <1>2, <1>3 DEF InboxHolds, PushesHold, PushHolds, Waiting
<1>4. ASSUME NEW d \in Device, NEW r \in DOMAIN pushes[d] PROVE EntryLeads(d, r)' <=> EntryLeads(d, r)
  BY <1>2, <1>4 DEF EntryLeads, HasBegun, Alerts, Waiting
<1>5. EntryHolds(F)'
  BY <1>1, <1>2 DEF InboxHolds, EntryHolds
<1>6. PushesHold(F)'
  BY <1>2, <1>3, <1>4 DEF InboxHolds, PushesHold
<1> QED BY <1>2, <1>5, <1>6 DEF InboxHolds, PushersHold

----------------------------------------------------------------------------
(* The dispatcher and the time of the outbox *)

LEMMA JobsKeep ==
    ASSUME NEW E, OutboxHolds(E), UNCHANGED incident,
           \A c \in Channel : DOMAIN outbox[c] \subseteq DOMAIN outbox'[c],
           NEW w \in Worker, NEW job, worker' = [worker EXCEPT ![w] = job], JobHolds(w, E)'
    PROVE  /\ worker' = [v \in Worker |-> worker'[v]]
           /\ \A v \in Worker : JobHolds(v, E)'
<1>1. worker = [v \in Worker |-> worker[v]] /\ \A v \in Worker : JobHolds(v, E)
  BY DEF OutboxHolds
<1>2. ASSUME NEW v \in Worker, v # w PROVE JobHolds(v, E)'
  <2>1. worker'[v] = worker[v] /\ JobHolds(v, E)
    BY <1>1, <1>2
  <2> QED BY <2>1 DEF JobHolds
<1> QED BY <1>1, <1>2

LEMMA RowsKeep ==
    ASSUME NEW E, OutboxHolds(E), UNCHANGED incident, NEW c \in Channel,
           NEW k \in DOMAIN outbox[c], NEW row, outbox' = [outbox EXCEPT ![c][k] = row],
           RowHolds(k, row, E), outbox[c][k].status # "delivered"
    PROVE  /\ outbox' = [d \in Channel |-> outbox'[d]]
           /\ \A d \in Channel : RowsHold(outbox[d], E)'
           /\ \A d \in Channel : DOMAIN outbox'[d] = DOMAIN outbox[d]
           /\ DeliveredStays
<1>1. outbox = [d \in Channel |-> outbox[d]] /\ \A d \in Channel : RowsHold(outbox[d], E)
  BY DEF OutboxHolds
<1>2. ASSUME NEW d \in Channel, d # c PROVE outbox'[d] = outbox[d]
  BY <1>1, <1>2
<1>3. outbox'[c] = [outbox[c] EXCEPT ![k] = row]
  BY <1>1
<1>4. ASSUME NEW d \in Channel PROVE RowsHold(outbox[d], E)'
  <2>1. RowsHold(outbox'[d], E)
    BY ZenonT(60), <1>1, <1>2, <1>3 DEF RowsHold
  <2> QED BY <2>1 DEF RowsHold, RowHolds, Waiting
<1>5. \A d \in Channel : DOMAIN outbox'[d] = DOMAIN outbox[d]
  BY <1>2, <1>3
<1>6. DeliveredStays
  BY <1>1, <1>2, <1>3 DEF DeliveredStays, RowsHold
<1> QED BY <1>1, <1>4, <1>5, <1>6

LEMMA ScheduleKeeps ==
    ASSUME NEW E, OutboxHolds(E), NEW w \in Worker, Schedule(w)
    PROVE  OutboxHolds(E)' /\ DeliveredStays /\ UNCHANGED incident
<1>1. /\ incident.status # "none" /\ outbox' = [c \in Channel |-> Scheduled(c)]
      /\ worker' = [worker EXCEPT ![w] = [at |-> "claiming"]]
      /\ UNCHANGED <<incident, elapsed, failures, crashes>>
  BY DEF Schedule
<1>2. ASSUME NEW c \in Channel
      PROVE  RowsHold(outbox'[c], E) /\ Keeps(outbox[c], outbox'[c])
  <2>1. IncidentHolds(E) /\ RowsHold(outbox[c], E)
    BY DEF OutboxHolds
  <2>2. outbox'[c] = Scheduled(c)
    BY <1>1
  <2> QED BY <1>1, <2>1, <2>2, ScheduledKeeps
<1>3. ASSUME NEW c \in Channel PROVE RowsHold(outbox[c], E)'
  BY <1>1, <1>2 DEF RowsHold, RowHolds, Waiting
<1>4. DeliveredStays /\ \A c \in Channel : DOMAIN outbox[c] \subseteq DOMAIN outbox'[c]
  BY <1>2 DEF Keeps, DeliveredStays
<1>5. JobHolds(w, E)'
  BY <1>1 DEF OutboxHolds, JobHolds
<1>6. worker' = [v \in Worker |-> worker'[v]] /\ \A v \in Worker : JobHolds(v, E)'
  BY <1>1, <1>4, <1>5, JobsKeep
<1>7. outbox' = [c \in Channel |-> outbox'[c]]
  BY <1>1
<1>8. IncidentHolds(E)'
  BY <1>1 DEF OutboxHolds, IncidentHolds
<1> QED BY <1>1, <1>3, <1>4, <1>6, <1>7, <1>8 DEF OutboxHolds

LEMMA ClaimKeeps ==
    ASSUME NEW E, OutboxHolds(E), NEW w \in Worker,
           NEW c \in Channel, NEW k \in DOMAIN outbox[c], Claim(w, c, k)
    PROVE  OutboxHolds(E)' /\ DeliveredStays /\ UNCHANGED incident
<1> DEFINE row == [outbox[c][k] EXCEPT !.owner = w, !.held = TRUE]
           job == [at |-> "sending", channel |-> c, key |-> k, kind |-> outbox[c][k].kind,
                   rev |-> outbox[c][k].rev, alert |-> outbox[c][k].alert, ends |-> outbox[c][k].ends]
<1>1. /\ outbox' = [outbox EXCEPT ![c][k].owner = w, ![c][k].held = TRUE]
      /\ worker' = [worker EXCEPT ![w] = job]
      /\ UNCHANGED <<incident, elapsed, failures, crashes>>
      /\ Waiting(outbox[c][k])
  BY DEF Claim, Claimable, Free
<1>2. /\ outbox = [d \in Channel |-> outbox[d]] /\ outbox[c] = [j \in DOMAIN outbox[c] |-> outbox[c][j]]
      /\ RowHolds(k, outbox[c][k], E)
  BY DEF OutboxHolds, RowsHold
<1>3. outbox' = [outbox EXCEPT ![c][k] = row]
  BY ZenonT(60), <1>1, <1>2
<1>4. RowHolds(k, row, E)
  BY <1>1, <1>2 DEF RowHolds, Row, Waiting
<1>5. outbox[c][k].status # "delivered"
  BY SMTT(40), <1>1 DEF Waiting
<1> HIDE DEF row
<1>6. /\ outbox' = [d \in Channel |-> outbox'[d]]
      /\ \A d \in Channel : RowsHold(outbox[d], E)'
      /\ \A d \in Channel : DOMAIN outbox'[d] = DOMAIN outbox[d]
      /\ DeliveredStays
  BY <1>1, <1>3, <1>4, <1>5, RowsKeep
<1>7. JobHolds(w, E)'
  <2>1. worker'[w] = job
    BY <1>1 DEF OutboxHolds
  <2>2. k \in DOMAIN outbox'[c]
    BY <1>6
  <2> QED BY <1>1, <1>2, <2>1, <2>2 DEF JobHolds, RowHolds, Row
<1> HIDE DEF job
<1>8. worker' = [v \in Worker |-> worker'[v]] /\ \A v \in Worker : JobHolds(v, E)'
  BY <1>1, <1>6, <1>7, JobsKeep
<1>9. IncidentHolds(E)'
  BY <1>1 DEF OutboxHolds, IncidentHolds
<1> QED BY <1>1, <1>6, <1>8, <1>9 DEF OutboxHolds

LEMMA SameOutbox ==
    ASSUME NEW E, OutboxHolds(E), UNCHANGED <<incident, outbox>>
    PROVE  /\ IncidentHolds(E)'
           /\ outbox' = [c \in Channel |-> outbox'[c]]
           /\ \A c \in Channel : RowsHold(outbox[c], E)'
           /\ \A c \in Channel : DOMAIN outbox[c] \subseteq DOMAIN outbox'[c]
           /\ DeliveredStays
BY DEF OutboxHolds, IncidentHolds, RowsHold, RowHolds, Waiting, DeliveredStays

LEMMA RestKeeps ==
    ASSUME NEW E, OutboxHolds(E), NEW w \in Worker, worker' = [worker EXCEPT ![w] = Idle],
           UNCHANGED <<incident, elapsed, outbox, failures>>, crashes' \in 0..MaxCrash
    PROVE  OutboxHolds(E)' /\ DeliveredStays
<1>1. JobHolds(w, E)'
  BY DEF OutboxHolds, JobHolds, Idle
<1>2. worker' = [v \in Worker |-> worker'[v]] /\ \A v \in Worker : JobHolds(v, E)'
  BY <1>1, SameOutbox, JobsKeep
<1> QED BY <1>2, SameOutbox DEF OutboxHolds

LEMMA EndedKeeps ==
    ASSUME NEW E, OutboxHolds(E), NEW w \in Worker, NEW ok \in BOOLEAN, Ended(w, ok),
           failures' \in 0..MaxFailure
    PROVE  OutboxHolds(E)' /\ DeliveredStays /\ UNCHANGED incident
<1>1. JobHolds(w, E)'
  BY DEF OutboxHolds, JobHolds, Ended
<1>2. UNCHANGED <<incident, elapsed, outbox, crashes>>
  BY DEF Ended
<1>3. worker' = [v \in Worker |-> worker'[v]] /\ \A v \in Worker : JobHolds(v, E)'
  BY <1>1, <1>2, SameOutbox, JobsKeep DEF Ended
<1> QED BY <1>2, <1>3, SameOutbox DEF OutboxHolds

LEMMA NextOrderIsNat ==
    ASSUME NEW E, NEW q, RowsHold(q, E)
    PROVE  NextOrder(q) \in Nat
<1>1. IsFiniteSet({"firing", "resumed"} \X {0}) /\ IsFiniteSet({"revision"} \X (1..MaxRevision))
      /\ IsFiniteSet({"resolved"} \X (0..MaxResumption))
  <2>1. IsFiniteSet({0}) /\ IsFiniteSet({"revision"}) /\ IsFiniteSet({"resolved"})
    BY FS_Singleton
  <2>2. IsFiniteSet({"firing", "resumed"})
    <3>1. {"firing", "resumed"} = {"firing"} \cup {"resumed"}
      OBVIOUS
    <3>2. IsFiniteSet({"firing"}) /\ IsFiniteSet({"resumed"})
      BY FS_Singleton
    <3> QED BY ZenonT(60), <3>1, <3>2, FS_Union
  <2>3. IsFiniteSet(1..MaxRevision) /\ IsFiniteSet(0..MaxResumption)
    BY SMTT(40), Types, FS_Interval
  <2> QED BY <2>1, <2>2, <2>3, FS_Product
<1>2. IsFiniteSet(Key)
  BY <1>1, FS_Union DEF Key
<1>3. {k \in DOMAIN q : q[k].status = "delivered"} \subseteq Key
  BY DEF RowsHold, RowHolds
<1>4. Cardinality({k \in DOMAIN q : q[k].status = "delivered"}) \in Nat
  BY <1>2, <1>3, FS_Subset, FS_CardinalityType
<1> QED BY <1>4 DEF NextOrder

LEMMA ReportedHolds ==
    ASSUME NEW E, NEW k, NEW row, RowHolds(k, row, E), NEW n \in Nat
    PROVE  /\ RowHolds(k, [[row EXCEPT !.status = "delivered", !.order = n]
                               EXCEPT !.owner = Nobody, !.held = FALSE], E)
           /\ RowHolds(k, [[row EXCEPT !.status = "failed", !.tried = TRUE, !.wait = Backoff]
                               EXCEPT !.owner = Nobody, !.held = FALSE], E)
<1>1. Backoff \in Backoff..(MaxResumption + 1)
  BY Types DEF Backoff
<1>2. RowHolds(k, [[row EXCEPT !.status = "delivered", !.order = n]
                      EXCEPT !.owner = Nobody, !.held = FALSE], E)
  BY DEF RowHolds, Row
<1>3. RowHolds(k, [[row EXCEPT !.status = "failed", !.tried = TRUE, !.wait = Backoff]
                      EXCEPT !.owner = Nobody, !.held = FALSE], E)
  BY <1>1 DEF RowHolds, Row
<1> QED BY <1>2, <1>3

LEMMA SettleKeeps ==
    ASSUME NEW E, OutboxHolds(E), NEW w \in Worker, Settle(w), Owns(w)
    PROVE  OutboxHolds(E)' /\ DeliveredStays /\ UNCHANGED incident
<1> DEFINE c == worker[w].channel
           k == worker[w].key
           q == outbox[c]
           settled == IF worker[w].ok THEN Complete(q, k) ELSE Fail(q, k)
           row == [settled EXCEPT !.owner = Nobody, !.held = FALSE]
<1>1. /\ outbox' = [outbox EXCEPT ![c][k] = row]
      /\ worker' = [worker EXCEPT ![w] = [at |-> "claiming"]]
      /\ UNCHANGED <<incident, elapsed, failures, crashes>>
      /\ q[k].owner = w
  BY DEF Settle, Owns, Report
<1>2. c \in Channel /\ k \in DOMAIN q
  BY DEF OutboxHolds, JobHolds, Settle
<1>3. RowHolds(k, q[k], E) /\ RowsHold(q, E)
  BY SMTT(40), <1>2 DEF OutboxHolds, RowsHold
<1>4. q[k].status # "delivered"
  BY <1>1, <1>3, Types DEF RowHolds, Waiting
<1>5. NextOrder(q) \in Nat
  BY <1>3, NextOrderIsNat
<1>6. RowHolds(k, row, E)
  <2> HIDE DEF c, k, q
  <2> DEFINE done == [[q[k] EXCEPT !.status = "delivered", !.order = NextOrder(q)]
                         EXCEPT !.owner = Nobody, !.held = FALSE]
             failed == [[q[k] EXCEPT !.status = "failed", !.tried = TRUE, !.wait = Backoff]
                           EXCEPT !.owner = Nobody, !.held = FALSE]
  <2>1. row = done \/ row = failed
    BY DEF Complete, Fail
  <2>2. RowHolds(k, done, E) /\ RowHolds(k, failed, E)
    BY ZenonT(60), <1>3, <1>5, ReportedHolds
  <2> HIDE DEF row, done, failed
  <2> QED BY <2>1, <2>2
<1> HIDE DEF row
<1>7. /\ outbox' = [d \in Channel |-> outbox'[d]]
      /\ \A d \in Channel : RowsHold(outbox[d], E)'
      /\ \A d \in Channel : DOMAIN outbox'[d] = DOMAIN outbox[d]
      /\ DeliveredStays
  BY <1>1, <1>2, <1>4, <1>6, RowsKeep
<1>8. JobHolds(w, E)'
  BY <1>1 DEF OutboxHolds, JobHolds
<1>9. worker' = [v \in Worker |-> worker'[v]] /\ \A v \in Worker : JobHolds(v, E)'
  BY <1>1, <1>7, <1>8, JobsKeep
<1>10. IncidentHolds(E)'
  BY <1>1 DEF OutboxHolds, IncidentHolds
<1> QED BY <1>1, <1>7, <1>9, <1>10 DEF OutboxHolds

LEMMA SameJobs ==
    ASSUME NEW E, OutboxHolds(E), UNCHANGED <<incident, worker>>,
           \A c \in Channel : DOMAIN outbox'[c] = DOMAIN outbox[c]
    PROVE  /\ worker' = [v \in Worker |-> worker'[v]]
           /\ \A v \in Worker : JobHolds(v, E)'
           /\ IncidentHolds(E)'
BY DEF OutboxHolds, JobHolds, IncidentHolds

LEMMA TimeKeeps ==
    ASSUME NEW E, OutboxHolds(E), Time
    PROVE  OutboxHolds(E)' /\ DeliveredStays /\ UNCHANGED incident
<1>1. CASE WindowElapses
  <2>1. UNCHANGED <<incident, outbox, worker, failures, crashes>>
    BY <1>1 DEF WindowElapses
  <2>2. elapsed' \in 0..(MaxResumption + 1)
    <3>1. elapsed < incident.resumptions + 1 /\ elapsed' = elapsed + 1
      BY <1>1 DEF WindowElapses
    <3>2. incident.resumptions \in 0..MaxResumption /\ elapsed \in 0..(MaxResumption + 1)
      BY DEF OutboxHolds, IncidentHolds, Incident
    <3> QED BY <3>1, <3>2, Types
  <2> QED BY <2>1, <2>2, SameOutbox, SameJobs DEF OutboxHolds
<1>2. ASSUME NEW c \in Channel, NEW k \in DOMAIN outbox[c], NEW row,
             outbox' = [outbox EXCEPT ![c][k] = row], RowHolds(k, row, E),
             outbox[c][k].status # "delivered",
             UNCHANGED <<incident, elapsed, worker, failures, crashes>>
      PROVE  OutboxHolds(E)' /\ DeliveredStays /\ UNCHANGED incident
  <2>1. /\ outbox' = [d \in Channel |-> outbox'[d]]
        /\ \A d \in Channel : RowsHold(outbox[d], E)'
        /\ \A d \in Channel : DOMAIN outbox'[d] = DOMAIN outbox[d]
        /\ DeliveredStays
    BY <1>2, RowsKeep
  <2> QED BY <1>2, <2>1, SameJobs DEF OutboxHolds
<1>3. ASSUME NEW c \in Channel, NEW k \in DOMAIN outbox[c], BackoffEnds(c, k)
      PROVE  OutboxHolds(E)' /\ DeliveredStays /\ UNCHANGED incident
  <2> DEFINE row == [outbox[c][k] EXCEPT !.wait = 0]
  <2>1. outbox = [d \in Channel |-> outbox[d]] /\ RowHolds(k, outbox[c][k], E)
    BY DEF OutboxHolds, RowsHold
  <2>2. 0 \in Backoff..(MaxResumption + 1)
    BY Types DEF Backoff
  <2>3. RowHolds(k, row, E)
    BY <2>1, <2>2 DEF RowHolds, Row, Waiting
  <2>4. outbox' = [outbox EXCEPT ![c][k] = row] /\ outbox[c][k].status # "delivered"
        /\ UNCHANGED <<incident, elapsed, worker, failures, crashes>>
    BY <1>3, <2>1 DEF BackoffEnds, Waiting
  <2> HIDE DEF row
  <2> QED BY <1>2, <2>3, <2>4
<1>4. ASSUME NEW c \in Channel, NEW k \in DOMAIN outbox[c], LeaseExpires(c, k)
      PROVE  OutboxHolds(E)' /\ DeliveredStays /\ UNCHANGED incident
  <2> DEFINE row == [outbox[c][k] EXCEPT !.held = FALSE]
  <2>1. outbox = [d \in Channel |-> outbox[d]] /\ RowHolds(k, outbox[c][k], E)
    BY DEF OutboxHolds, RowsHold
  <2>2. outbox[c][k].status # "delivered"
    BY <1>4, <2>1 DEF LeaseExpires, RowHolds, Waiting
  <2>3. RowHolds(k, row, E)
    BY <2>1 DEF RowHolds, Row, Waiting
  <2>4. outbox' = [outbox EXCEPT ![c][k] = row]
        /\ UNCHANGED <<incident, elapsed, worker, failures, crashes>>
    BY <1>4, <2>1 DEF LeaseExpires
  <2> HIDE DEF row
  <2> QED BY <1>2, <2>2, <2>3, <2>4
<1> QED BY <1>1, <1>3, <1>4 DEF Time

----------------------------------------------------------------------------
(* Deliver *)

LEMMA InboxStays ==
    ASSUME NEW E, InboxHolds(E), UNCHANGED <<incident, pushVars>>
    PROVE  InboxHolds(E)'
<1>1. UNCHANGED <<incident, inbox, pushes, ready, pusher, changes>>
  BY DEF pushVars
<1>2. EntryHolds(E)' /\ PushersHold'
  BY <1>1 DEF InboxHolds, EntryHolds, PushersHold
<1>3. PushesHold(E)'
  BY <1>1 DEF InboxHolds, PushesHold, PushHolds, EntryLeads, HasBegun, Alerts, Waiting
<1> QED BY <1>2, <1>3 DEF InboxHolds

LEMMA JobReads ==
    ASSUME NEW E, OutboxHolds(E), NEW w \in Worker, worker[w].at = "sending"
    PROVE  /\ worker[w].rev \in 1..MaxRevision /\ worker[w].rev <= incident.rev
           /\ worker[w].alert \in BOOLEAN /\ worker[w].ends \in BOOLEAN
           /\ worker[w].ends <=> worker[w].rev \in E
BY DEF OutboxHolds, JobHolds

LEMMA NewPushHolds ==
    ASSUME NEW d, NEW job, job.alert \in BOOLEAN
    PROVE  /\ NewPush(d, job) \in PushRow /\ NewPush(d, job).status = "pending"
           /\ NewPush(d, job).kind = Entry(job).kind
           /\ NewPush(d, job).kind = "resolved" <=> job.ends
           /\ NewPush(d, job).kind = "resolved" /\ NewPush(d, job).alert => HasBegun(d)
<1> DEFINE tried == {r \in Stale(d, job.rev) : pushes[d][r].tried}
           wait == IF \E r \in tried : pushes[d][r].wait = Backoff THEN Backoff ELSE 0
           row == [kind |-> Entry(job).kind, alert |-> PushAlert(d, job), status |-> "pending",
                   wait |-> wait, tried |-> tried # {}, owner |-> Nobody, held |-> FALSE]
<1>1. NewPush(d, job) = row
  BY DEF NewPush
<1>2. /\ Entry(job).kind \in {"firing", "resolved"}
      /\ Entry(job).kind = "resolved" <=> job.ends
  BY DEF Entry
<1>3. /\ PushAlert(d, job) \in BOOLEAN
      /\ Entry(job).kind = "resolved" /\ PushAlert(d, job) => HasBegun(d)
  BY DEF PushAlert, HasBegun
<1>4. wait \in {0, Backoff} /\ (tried # {}) \in BOOLEAN
  OBVIOUS
<1> HIDE DEF wait, tried
<1>5. row \in PushRow
  BY <1>2, <1>3, <1>4 DEF PushRow
<1> QED BY <1>1, <1>2, <1>3, <1>5

\* What the outbox of a device holds after a deposit.
LEMMA ReplacedIs ==
    ASSUME NEW d, NEW job, pushes[d] = [r \in DOMAIN pushes[d] |-> pushes[d][r]],
           NEW q, q = Replaced(d, job)
    PROVE  /\ q = [r \in DOMAIN q |-> q[r]]
           /\ DOMAIN pushes[d] \subseteq DOMAIN q
           /\ \A r \in DOMAIN q : r \notin DOMAIN pushes[d] => r = job.rev /\ q[r] = NewPush(d, job)
           /\ \A r \in DOMAIN pushes[d] :
                 q[r] = IF r \in Stale(d, job.rev) THEN Cancelled(pushes[d][r]) ELSE pushes[d][r]
<1> DEFINE kept == [r \in DOMAIN pushes[d] |->
                      IF r \in Stale(d, job.rev) THEN Cancelled(pushes[d][r]) ELSE pushes[d][r]]
<1>1. \/ q = kept
      \/ q = With(kept, job.rev, NewPush(d, job)) /\ job.rev \notin DOMAIN pushes[d]
  BY DEF Replaced
<1> QED BY <1>1 DEF With

LEMMA DepositKeeps ==
    ASSUME NEW E, OutboxHolds(E), InboxHolds(E), NEW w \in Worker,
           worker[w].at = "sending", DeliverEntry(w)
    PROVE  InboxHolds(E)'
<1> DEFINE job == worker[w]
<1>1. /\ job.rev \in 1..MaxRevision /\ job.rev <= incident.rev
      /\ job.alert \in BOOLEAN /\ job.ends \in BOOLEAN
      /\ job.ends <=> job.rev \in E
  BY JobReads
<1>2. /\ inbox' = Entry(job) /\ pushes' = [d \in Device |-> Replaced(d, job)]
      /\ ~InFlight(job.rev)
      /\ UNCHANGED <<incident, ready, pusher, changes>>
  BY DEF DeliverEntry, Ended
<1> HIDE DEF job
<1>3. /\ inbox'.rev = job.rev /\ inbox'.kind \in {"firing", "resolved"}
      /\ inbox'.kind = "resolved" <=> job.ends
      /\ inbox'.fellBack \in BOOLEAN
      /\ ~inbox'.fellBack => ~inbox.fellBack /\ inbox.rev <= job.rev
      /\ inbox' \in [rev : 1..MaxRevision, kind : {"firing", "resolved"}, fellBack : BOOLEAN]
  <2>1. inbox.rev \in Nat /\ inbox.fellBack \in BOOLEAN
    <3>1. \/ inbox \in [rev : 1..MaxRevision, kind : {"firing", "resolved"}, fellBack : BOOLEAN]
          \/ inbox = NoEntry
      BY DEF InboxHolds, EntryHolds
    <3>2. CASE inbox = NoEntry
      BY <3>2 DEF NoEntry
    <3>3. CASE inbox \in [rev : 1..MaxRevision, kind : {"firing", "resolved"}, fellBack : BOOLEAN]
      <4>1. inbox.rev \in 1..MaxRevision /\ inbox.fellBack \in BOOLEAN
        BY <3>3
      <4> QED BY <4>1, Types
    <3> QED BY <3>1, <3>2, <3>3
  <2> DEFINE kind == IF job.ends THEN "resolved" ELSE "firing"
             fell == inbox.fellBack \/ job.rev < inbox.rev
  <2>2. inbox' = [rev |-> job.rev, kind |-> kind, fellBack |-> fell]
    BY <1>2 DEF Entry
  <2>3. kind \in {"firing", "resolved"} /\ (kind = "resolved" <=> job.ends)
    BY <1>1
  <2>4. fell \in BOOLEAN /\ (~fell => ~inbox.fellBack /\ inbox.rev <= job.rev)
    BY <1>1, <2>1
  <2> HIDE DEF kind, fell
  <2>5. inbox'.rev = job.rev /\ inbox'.kind = kind /\ inbox'.fellBack = fell
    BY <2>2
  <2>6. inbox' \in [rev : 1..MaxRevision, kind : {"firing", "resolved"}, fellBack : BOOLEAN]
    BY <1>1, <2>2, <2>3, <2>4
  <2> QED BY <2>3, <2>4, <2>5, <2>6
<1>4. EntryHolds(E)'
  BY <1>1, <1>2, <1>3 DEF EntryHolds
<1>5. ASSUME NEW d \in Device
      PROVE  /\ pushes'[d] = [r \in DOMAIN pushes'[d] |-> pushes'[d][r]]
             /\ DOMAIN pushes[d] \subseteq DOMAIN pushes'[d]
             /\ \A r \in DOMAIN pushes'[d] : r \notin DOMAIN pushes[d] =>
                     r = job.rev /\ pushes'[d][r] = NewPush(d, job)
             /\ \A r \in DOMAIN pushes[d] :
                   pushes'[d][r] = IF r \in Stale(d, job.rev) THEN Cancelled(pushes[d][r])
                                   ELSE pushes[d][r]
  <2>1. pushes[d] = [r \in DOMAIN pushes[d] |-> pushes[d][r]] /\ pushes'[d] = Replaced(d, job)
    BY <1>2 DEF InboxHolds, PushesHold
  <2> QED BY <2>1, ReplacedIs
<1>6. ASSUME NEW d \in Device, NEW r \in DOMAIN pushes[d]
      PROVE  /\ PushHolds(d, r, E)'
             /\ pushes'[d][r].status = "delivered" <=> pushes[d][r].status = "delivered"
             /\ pushes'[d][r].kind = pushes[d][r].kind /\ pushes'[d][r].alert = pushes[d][r].alert
             /\ Waiting(pushes'[d][r]) => Waiting(pushes[d][r]) /\ ~(r < job.rev)
  <2>1. PushHolds(d, r, E)
    BY DEF InboxHolds, PushesHold
  <2>2. CASE r \in Stale(d, job.rev)
    <3>1. pushes'[d][r] = [pushes[d][r] EXCEPT !.status = "cancelled", !.owner = Nobody, !.held = FALSE]
      BY <1>5, <2>2 DEF Cancelled
    <3>2. Waiting(pushes[d][r])
      BY <2>2 DEF Stale
    <3>3. /\ pushes'[d][r] \in PushRow /\ pushes'[d][r].status = "cancelled"
          /\ pushes'[d][r].kind = pushes[d][r].kind /\ pushes'[d][r].alert = pushes[d][r].alert
          /\ pushes'[d][r].owner = Nobody /\ ~pushes'[d][r].held
      BY <2>1, <3>1 DEF PushHolds, PushRow
    <3> QED BY <1>2, <2>1, <3>2, <3>3 DEF PushHolds, Waiting
  <2>3. CASE r \notin Stale(d, job.rev)
    <3>1. pushes'[d][r] = pushes[d][r]
      BY <1>5, <2>3
    <3>2. Waiting(pushes[d][r]) => ~(r < job.rev)
      BY <2>3 DEF Stale
    <3>3. r \in Nat /\ job.rev \in Nat
      BY <1>1, <2>1, Types DEF PushHolds
    <3> QED BY <1>2, <1>3, <2>1, <3>1, <3>2, <3>3 DEF PushHolds, Waiting
  <2> QED BY <2>2, <2>3
<1>7. ASSUME NEW d \in Device, NEW r \in DOMAIN pushes'[d], r \notin DOMAIN pushes[d]
      PROVE  /\ r = job.rev /\ PushHolds(d, r, E)' /\ pushes'[d][r].status = "pending"
             /\ pushes'[d][r].kind = "resolved" /\ pushes'[d][r].alert => HasBegun(d)
  <2>1. r = job.rev /\ pushes'[d][r] = NewPush(d, job)
    BY <1>5, <1>7
  <2>2. /\ pushes'[d][r] \in PushRow /\ pushes'[d][r].status = "pending"
        /\ pushes'[d][r].kind = "resolved" <=> job.ends
        /\ pushes'[d][r].kind = "resolved" /\ pushes'[d][r].alert => HasBegun(d)
    BY <1>1, <2>1, NewPushHolds
  <2>3. PushHolds(d, r, E)'
    BY <1>1, <1>2, <1>3, <2>1, <2>2, Types DEF PushHolds, Waiting
  <2> QED BY <2>1, <2>2, <2>3
<1>8. ASSUME NEW d \in Device PROVE HasBegun(d)' <=> HasBegun(d)
  <2>1. Alerts(d)' = Alerts(d)
    <3>1. DOMAIN pushes[d] \subseteq DOMAIN pushes'[d]
      BY <1>5
    <3>2. \A r \in DOMAIN pushes'[d] : r \notin DOMAIN pushes[d] => pushes'[d][r].status # "delivered"
      BY <1>7
    <3> QED BY <1>6, <3>1, <3>2 DEF Alerts
  <2>2. \A r \in Alerts(d) : r \in DOMAIN pushes[d]
    BY DEF Alerts
  <2> QED BY <1>6, <2>1, <2>2 DEF HasBegun
<1>9. ASSUME ~inbox'.fellBack, NEW d \in Device, NEW r \in DOMAIN pushes'[d]
      PROVE  EntryLeads(d, r)'
  <2>1. CASE r \in DOMAIN pushes[d]
    <3>1. EntryLeads(d, r) /\ PushHolds(d, r, E)
      BY <1>3, <1>9, <2>1 DEF InboxHolds, PushesHold
    <3>2. r \in Nat /\ job.rev \in Nat /\ inbox.rev \in Nat
      BY <1>1, <3>1, Types DEF PushHolds, InboxHolds, EntryHolds, NoEntry
    <3>3. r <= inbox'.rev
      BY <1>3, <1>9, <3>1, <3>2 DEF EntryLeads
    <3> QED BY <1>6, <1>8, <2>1, <3>1, <3>3 DEF EntryLeads
  <2>2. CASE r \notin DOMAIN pushes[d]
    BY <1>1, <1>3, <1>7, <1>8, <2>2 DEF EntryLeads
  <2> QED BY <2>1, <2>2
<1>10. ASSUME NEW d \in Device, NEW r \in DOMAIN pushes'[d] PROVE PushHolds(d, r, E)'
  BY <1>6, <1>7
<1>11. pushes' = [d \in Device |-> pushes'[d]]
  BY <1>2
<1>12. PushesHold(E)'
  BY <1>5, <1>9, <1>10, <1>11 DEF PushesHold
<1>13. PushersHold'
  BY <1>2, <1>5 DEF InboxHolds, PushersHold
<1> QED BY <1>4, <1>12, <1>13 DEF InboxHolds

LEMMA DeliverKeeps ==
    ASSUME NEW E, OutboxHolds(E), InboxHolds(E), NEW w \in Worker, Deliver(w)
    PROVE  OutboxHolds(E)' /\ InboxHolds(E)' /\ DeliveredStays
<1>1. /\ worker[w].at = "sending"
      /\ DeliverEntry(w) \/ DeliverNothing(w) \/ DeliverLater(w) \/ DeliverError(w)
  BY DEF Deliver
<1>2. failures \in 0..MaxFailure
  BY DEF OutboxHolds
<1>3. CASE DeliverEntry(w)
  <2>1. Ended(w, TRUE) /\ failures' \in 0..MaxFailure
    BY <1>2, <1>3 DEF DeliverEntry
  <2> QED BY <1>1, <1>3, <2>1, DepositKeeps, EndedKeeps
<1>4. CASE DeliverNothing(w) \/ DeliverLater(w) \/ DeliverError(w)
  <2>1. \E ok \in BOOLEAN : Ended(w, ok)
    BY <1>4 DEF DeliverNothing, DeliverLater, DeliverError
  <2>0. /\ UNCHANGED pushVars
        /\ UNCHANGED failures \/ (failures < MaxFailure /\ failures' = failures + 1)
    BY <1>4 DEF DeliverNothing, DeliverLater, DeliverError
  <2>2. UNCHANGED pushVars /\ failures' \in 0..MaxFailure
    BY <1>2, <2>0, Types
  <2>3. OutboxHolds(E)' /\ DeliveredStays /\ UNCHANGED incident
    BY <2>1, <2>2, EndedKeeps
  <2> QED BY <2>2, <2>3, InboxStays
<1> QED BY <1>1, <1>3, <1>4

----------------------------------------------------------------------------
(* The push dispatcher *)

\* A waiting push is taken, fails or is delivered.
LEMMA OnePushKeeps ==
    ASSUME NEW E, PushesHold(E), UNCHANGED <<incident, inbox>>, inbox.rev \in Nat,
           NEW d \in Device, NEW r \in DOMAIN pushes[d], Waiting(pushes[d][r]),
           NEW row \in PushRow, pushes' = [pushes EXCEPT ![d][r] = row],
           row.kind = pushes[d][r].kind, row.alert = pushes[d][r].alert,
           Waiting(row) \/ (row.status = "delivered" /\ row.owner = Nobody /\ ~row.held)
    PROVE  /\ PushesHold(E)'
           /\ \A e \in Device : DOMAIN pushes'[e] = DOMAIN pushes[e]
<1>1. /\ pushes = [e \in Device |-> pushes[e]]
      /\ \A e \in Device : pushes[e] = [s \in DOMAIN pushes[e] |-> pushes[e][s]]
  BY DEF PushesHold
<1>2. /\ pushes' = [e \in Device |-> pushes'[e]]
      /\ \A e \in Device : e # d => pushes'[e] = pushes[e]
      /\ pushes'[d] = [pushes[d] EXCEPT ![r] = row]
  BY <1>1
<1>3. /\ \A e \in Device : pushes'[e] = [s \in DOMAIN pushes'[e] |-> pushes'[e][s]]
      /\ \A e \in Device : DOMAIN pushes'[e] = DOMAIN pushes[e]
      /\ \A e \in Device : \A s \in DOMAIN pushes[e] :
            pushes'[e][s] = IF e = d /\ s = r THEN row ELSE pushes[e][s]
  <2>1. /\ DOMAIN pushes'[d] = DOMAIN pushes[d]
        /\ pushes'[d] = [s \in DOMAIN pushes[d] |-> pushes'[d][s]]
        /\ \A s \in DOMAIN pushes[d] : pushes'[d][s] = IF s = r THEN row ELSE pushes[d][s]
    <3>1. PICK q : q = pushes[d] /\ q = [s \in DOMAIN q |-> q[s]]
      BY <1>1
    <3>2. pushes'[d] = [s \in DOMAIN q |-> IF s = r THEN row ELSE q[s]]
      BY <1>2, <3>1
    <3> QED BY <3>1, <3>2
  <2>2. ASSUME NEW e \in Device
        PROVE  /\ pushes'[e] = [s \in DOMAIN pushes'[e] |-> pushes'[e][s]]
               /\ DOMAIN pushes'[e] = DOMAIN pushes[e]
               /\ \A s \in DOMAIN pushes[e] :
                     pushes'[e][s] = IF e = d /\ s = r THEN row ELSE pushes[e][s]
    <3>1. CASE e = d
      BY <2>1, <3>1
    <3>2. CASE e # d
      BY <1>1, <1>2, <3>2
    <3> QED BY <3>1, <3>2
  <2> QED BY <2>2
<1>4. ASSUME NEW e \in Device, NEW s \in DOMAIN pushes[e] PROVE PushHolds(e, s, E)'
  <2>1. PushHolds(e, s, E)
    BY DEF PushesHold
  <2> QED BY <1>3, <2>1 DEF PushHolds, Waiting
<1>5. ASSUME NEW e \in Device, e # d \/ Waiting(row) PROVE HasBegun(e)' <=> HasBegun(e)
  <2>1. Alerts(e)' = Alerts(e)
    BY <1>3, <1>5 DEF Alerts, Waiting
  <2>2. \A s \in Alerts(e) : s \in DOMAIN pushes[e]
    BY DEF Alerts
  <2> QED BY <1>3, <2>1, <2>2 DEF HasBegun
<1>6. ASSUME ~inbox.fellBack, NEW e \in Device, NEW s \in DOMAIN pushes[e] PROVE EntryLeads(e, s)'
  <2>1. /\ EntryLeads(e, s) /\ PushHolds(e, s, E) /\ EntryLeads(d, r) /\ PushHolds(d, r, E)
        /\ s \in Nat /\ r \in Nat
    BY <1>6, Types DEF PushesHold, PushHolds
  <2>2. CASE e # d \/ Waiting(row)
    <3>1. Waiting(pushes'[e][s]) => Waiting(pushes[e][s])
      BY <1>3
    <3>2. pushes'[e][s].kind = pushes[e][s].kind /\ pushes'[e][s].alert = pushes[e][s].alert
      BY <1>3
    <3> QED BY <1>5, <2>1, <2>2, <3>1, <3>2 DEF EntryLeads
  <2>3. CASE e = d /\ ~Waiting(row)
    <3>1. s <= inbox.rev
      BY <2>1 DEF EntryLeads
    <3>2. CASE s = r
      BY <1>3, <2>3, <3>1, <3>2 DEF EntryLeads
    <3>3. CASE s # r
      <4>1. r = inbox.rev
        BY <2>1 DEF EntryLeads, PushHolds
      <4>2. ~Waiting(pushes[e][s])
        BY <2>1, <3>1, <3>3, <4>1 DEF PushHolds
      <4> QED BY <1>3, <3>1, <3>3, <4>2 DEF EntryLeads
    <3> QED BY <3>2, <3>3
  <2> QED BY <2>2, <2>3
<1> QED BY <1>2, <1>3, <1>4, <1>6 DEF PushesHold

LEMMA SilencedKeeps ==
    ASSUME NEW E, PushesHold(E), UNCHANGED <<incident, inbox>>,
           NEW d \in Device, pushes' = [pushes EXCEPT ![d] = Silenced(@)]
    PROVE  /\ PushesHold(E)'
           /\ \A e \in Device : DOMAIN pushes'[e] = DOMAIN pushes[e]
<1>1. /\ pushes = [e \in Device |-> pushes[e]]
      /\ \A e \in Device : pushes[e] = [s \in DOMAIN pushes[e] |-> pushes[e][s]]
  BY DEF PushesHold
<1>2. /\ pushes' = [e \in Device |-> pushes'[e]]
      /\ \A e \in Device : pushes'[e] = [s \in DOMAIN pushes'[e] |-> pushes'[e][s]]
      /\ \A e \in Device : DOMAIN pushes'[e] = DOMAIN pushes[e]
      /\ \A e \in Device : \A s \in DOMAIN pushes[e] :
            \/ pushes'[e][s] = pushes[e][s] /\ (e = d => ~Waiting(pushes[e][s]))
            \/ pushes'[e][s] = Cancelled(pushes[e][s]) /\ Waiting(pushes[e][s])
  <2>1. /\ pushes' = [e \in Device |-> pushes'[e]]
        /\ \A e \in Device : e # d => pushes'[e] = pushes[e]
        /\ pushes'[d] = Silenced(pushes[d])
    BY <1>1
  <2>2. /\ DOMAIN Silenced(pushes[d]) = DOMAIN pushes[d]
        /\ Silenced(pushes[d]) = [s \in DOMAIN Silenced(pushes[d]) |-> Silenced(pushes[d])[s]]
        /\ \A s \in DOMAIN pushes[d] :
              \/ Silenced(pushes[d])[s] = pushes[d][s] /\ ~Waiting(pushes[d][s])
              \/ Silenced(pushes[d])[s] = Cancelled(pushes[d][s]) /\ Waiting(pushes[d][s])
    BY DEF Silenced
  <2> HIDE DEF Silenced
  <2>3. ASSUME NEW e \in Device
        PROVE  /\ pushes'[e] = [s \in DOMAIN pushes'[e] |-> pushes'[e][s]]
               /\ DOMAIN pushes'[e] = DOMAIN pushes[e]
               /\ \A s \in DOMAIN pushes[e] :
                    \/ pushes'[e][s] = pushes[e][s] /\ (e = d => ~Waiting(pushes[e][s]))
                    \/ pushes'[e][s] = Cancelled(pushes[e][s]) /\ Waiting(pushes[e][s])
    <3>1. CASE e = d
      BY <2>1, <2>2, <3>1
    <3>2. CASE e # d
      BY <1>1, <2>1, <3>2
    <3> QED BY <3>1, <3>2
  <2> QED BY <2>1, <2>3
<1>3. ASSUME NEW row \in PushRow
      PROVE  /\ Cancelled(row) \in PushRow /\ Cancelled(row).kind = row.kind
             /\ Cancelled(row).status = "cancelled" /\ Cancelled(row).owner = Nobody
             /\ ~Cancelled(row).held
  BY DEF Cancelled, PushRow
<1>4. ASSUME NEW e \in Device, NEW s \in DOMAIN pushes[e]
      PROVE  /\ PushHolds(e, s, E)'
             /\ pushes[e][s].status = "delivered" => pushes'[e][s] = pushes[e][s]
             /\ pushes'[e][s].status = "delivered" => pushes'[e][s] = pushes[e][s]
             /\ Waiting(pushes'[e][s]) => pushes'[e][s] = pushes[e][s]
  <2>1. PushHolds(e, s, E) /\ pushes[e][s] \in PushRow
    BY DEF PushesHold, PushHolds
  <2> QED BY <1>2, <1>3, <2>1 DEF PushHolds, Waiting
<1>5. ASSUME NEW e \in Device PROVE HasBegun(e)' <=> HasBegun(e)
  <2>1. Alerts(e)' = Alerts(e)
    BY <1>2, <1>4 DEF Alerts
  <2>2. \A s \in Alerts(e) : pushes'[e][s] = pushes[e][s]
    BY <1>4 DEF Alerts
  <2> QED BY <2>1, <2>2 DEF HasBegun
<1>6. ASSUME ~inbox.fellBack, NEW e \in Device, NEW s \in DOMAIN pushes[e] PROVE EntryLeads(e, s)'
  <2>1. EntryLeads(e, s)
    BY <1>6 DEF PushesHold
  <2> QED BY <1>4, <1>5, <2>1 DEF EntryLeads
<1> QED BY <1>2, <1>4, <1>6 DEF PushesHold

LEMMA EntryRev ==
    ASSUME NEW E, EntryHolds(E)
    PROVE  inbox.rev \in Nat /\ (inbox.rev = 0 \/ inbox.kind \in {"firing", "resolved"})
<1>1. CASE inbox = NoEntry
  BY <1>1 DEF NoEntry
<1>2. CASE inbox \in [rev : 1..MaxRevision, kind : {"firing", "resolved"}, fellBack : BOOLEAN]
  <2>1. inbox.rev \in 1..MaxRevision /\ inbox.kind \in {"firing", "resolved"}
    BY <1>2
  <2> QED BY <2>1, Types
<1> QED BY <1>1, <1>2 DEF EntryHolds

LEMMA PushClaimKeeps ==
    ASSUME NEW E, InboxHolds(E), NEW w \in Worker, NEW d \in Device, NEW r \in DOMAIN pushes[d],
           PushClaim(w, d, r)
    PROVE  InboxHolds(E)' /\ UNCHANGED vars /\ EndsFollowBeginnings
<1> DEFINE row == [pushes[d][r] EXCEPT !.owner = w, !.held = TRUE]
<1>1. /\ pushes' = [pushes EXCEPT ![d][r].owner = w, ![d][r].held = TRUE]
      /\ pusher' = [pusher EXCEPT ![w] = [at |-> "sending", device |-> d, rev |-> r,
                                          kind |-> inbox.kind, alert |-> pushes[d][r].alert]]
      /\ UNCHANGED <<vars, inbox, ready, changes>>
      /\ Waiting(pushes[d][r]) /\ incident' = incident
  BY DEF PushClaim, Free, vars
<1>2. /\ pushes = [e \in Device |-> pushes[e]] /\ pushes[d] = [s \in DOMAIN pushes[d] |-> pushes[d][s]]
      /\ PushHolds(d, r, E) /\ pushes[d][r] \in PushRow /\ EntryHolds(E) /\ PushesHold(E)
      /\ pusher = [v \in Worker |-> pusher[v]]
  BY DEF InboxHolds, PushesHold, PushHolds, PushersHold
<1>3. pushes' = [pushes EXCEPT ![d][r] = row]
  BY ZenonT(60), <1>1, <1>2
<1>4. /\ row \in PushRow /\ row.kind = pushes[d][r].kind /\ row.alert = pushes[d][r].alert
      /\ Waiting(row)
  BY <1>1, <1>2 DEF PushRow, Waiting
<1> HIDE DEF row
<1>5. inbox.rev \in Nat
  BY <1>2, EntryRev
<1>0. UNCHANGED <<incident, inbox>> /\ Waiting(pushes[d][r])
  BY <1>1
<1>6. PushesHold(E)' /\ \A e \in Device : DOMAIN pushes'[e] = DOMAIN pushes[e]
  BY <1>0, <1>2, <1>3, <1>4, <1>5, OnePushKeeps
<1>7. PushersHold'
  BY <1>1, <1>2, <1>6 DEF InboxHolds, PushersHold
<1>8. EntryHolds(E)'
  BY <1>1, <1>2 DEF EntryHolds
<1>9. ASSUME NEW v \in Worker, EndsAlone(v), ~inbox.fellBack PROVE FALSE
  <2>1. v = w
    BY <1>1, <1>2, <1>9 DEF EndsAlone
  <2>2. inbox.kind = "resolved" /\ pushes[d][r].alert /\ ~HasBegun(d)
    BY <1>1, <1>2, <1>9, <2>1 DEF EndsAlone
  <2>3. EntryLeads(d, r)
    BY <1>2, <1>9 DEF PushesHold
  <2>4. r = inbox.rev /\ r # 0
    BY <1>1, <1>2, <1>5, <2>3, Types DEF EntryLeads, PushHolds
  <2>5. pushes[d][r].kind = "resolved"
    BY <1>2, <2>2, <2>4 DEF EntryHolds, PushHolds
  <2> QED BY <1>1, <2>2, <2>3, <2>5 DEF EntryLeads
<1> QED BY <1>1, <1>6, <1>7, <1>8, <1>9 DEF InboxHolds, EndsFollowBeginnings

\* Only a claim sends.
LEMMA NoneSends ==
    ASSUME PushersHold, pusher' = pusher \/ \E w \in Worker : pusher' = [pusher EXCEPT ![w] = Idle]
    PROVE  EndsFollowBeginnings
BY DEF PushersHold, EndsFollowBeginnings, EndsAlone, Idle

LEMMA PushReportKeeps ==
    ASSUME NEW E, InboxHolds(E), NEW w \in Worker, PushComplete(w) \/ PushFail(w)
    PROVE  InboxHolds(E)' /\ EndsFollowBeginnings
<1> DEFINE d == pusher[w].device
           r == pusher[w].rev
           old == pushes[d][r]
           settled == IF PushComplete(w) THEN [old EXCEPT !.status = "delivered"]
                      ELSE [old EXCEPT !.status = "failed", !.tried = TRUE, !.wait = Backoff]
           row == [settled EXCEPT !.owner = Nobody, !.held = FALSE]
<1>1. /\ pusher[w].at = "sending" /\ old.owner = w
      /\ pusher' = [pusher EXCEPT ![w] = Idle]
      /\ UNCHANGED <<incident, inbox, ready, changes>>
  BY SMTT(40) DEF PushComplete, PushFail, PushOwns, Given, PushReport
<1>2. pushes' = [pushes EXCEPT ![d][r] = row]
  BY DEF PushComplete, PushFail, PushReport, Given
<1>3. /\ d \in Device /\ r \in DOMAIN pushes[d] /\ EntryHolds(E) /\ PushesHold(E) /\ PushersHold
      /\ PushHolds(d, r, E) /\ old \in PushRow
      /\ pusher = [v \in Worker |-> pusher[v]]
  BY <1>1 DEF InboxHolds, PushesHold, PushHolds, PushersHold
<1> HIDE DEF d, r
<1>4. Waiting(old)
  BY <1>1, <1>3, Types DEF PushHolds
<1> HIDE DEF old
<1>5. /\ row \in PushRow /\ row.kind = old.kind /\ row.alert = old.alert
      /\ Waiting(row) \/ (row.status = "delivered" /\ row.owner = Nobody /\ ~row.held)
  BY <1>3 DEF PushRow, Waiting, Backoff
<1> HIDE DEF row
<1>6. inbox.rev \in Nat
  BY <1>3, EntryRev
<1>7. PushesHold(E)' /\ \A e \in Device : DOMAIN pushes'[e] = DOMAIN pushes[e]
  BY <1>1, <1>2, <1>3, <1>4, <1>5, <1>6, OnePushKeeps DEF old
<1>8. EntryHolds(E)'
  BY <1>1, <1>3 DEF EntryHolds
<1>9. PushersHold'
  BY <1>1, <1>3, <1>7 DEF PushersHold, Idle
<1> QED BY SMTT(40), <1>1, <1>3, <1>7, <1>8, <1>9, NoneSends DEF InboxHolds

LEMMA PushExpireKeeps ==
    ASSUME NEW E, InboxHolds(E), NEW w \in Worker, PushExpire(w)
    PROVE  InboxHolds(E)' /\ EndsFollowBeginnings
<1> DEFINE d == pusher[w].device
<1>1. /\ d \in Device /\ pushes' = [pushes EXCEPT ![d] = Silenced(@)]
      /\ ready' = [ready EXCEPT ![d] = FALSE]
      /\ pusher' = [pusher EXCEPT ![w] = Idle]
      /\ UNCHANGED <<incident, inbox, changes>>
  BY DEF PushExpire, PushOwns, InboxHolds, PushersHold
<1>2. EntryHolds(E) /\ PushesHold(E) /\ PushersHold
  BY DEF InboxHolds
<1> HIDE DEF d
<1>3. PushesHold(E)' /\ \A e \in Device : DOMAIN pushes'[e] = DOMAIN pushes[e]
  BY <1>1, <1>2, SilencedKeeps
<1>4. EntryHolds(E)'
  BY <1>1, <1>2 DEF EntryHolds
<1>5. PushersHold'
  BY <1>1, <1>2, <1>3 DEF PushersHold, Idle
<1> QED BY <1>1, <1>2, <1>3, <1>4, <1>5, NoneSends DEF InboxHolds

LEMMA PushTimeKeeps ==
    ASSUME NEW E, InboxHolds(E), PushTime
    PROVE  InboxHolds(E)' /\ UNCHANGED vars /\ EndsFollowBeginnings
<1>0. PICK d \in Device : \E r \in DOMAIN pushes[d] : PushBackoffEnds(d, r) \/ PushLeaseExpires(d, r)
  BY DEF PushTime
<1>1. PICK r \in DOMAIN pushes[d] : PushBackoffEnds(d, r) \/ PushLeaseExpires(d, r)
  BY <1>0
<1> DEFINE old == pushes[d][r]
           row == IF PushBackoffEnds(d, r) THEN [old EXCEPT !.wait = 0] ELSE [old EXCEPT !.held = FALSE]
<1>2. /\ UNCHANGED <<vars, inbox, ready, pusher, changes>> /\ incident' = incident
      /\ PushBackoffEnds(d, r) => Waiting(old)
      /\ ~PushBackoffEnds(d, r) => old.held
  BY <1>1 DEF PushBackoffEnds, PushLeaseExpires, vars
<1>3. /\ EntryHolds(E) /\ PushesHold(E) /\ PushersHold
      /\ PushHolds(d, r, E) /\ old \in PushRow
      /\ pushes = [e \in Device |-> pushes[e]] /\ pushes[d] = [s \in DOMAIN pushes[d] |-> pushes[d][s]]
  BY <1>1 DEF InboxHolds, PushesHold, PushHolds
<1>4. pushes' = [pushes EXCEPT ![d][r] = row]
  BY <1>1, <1>3 DEF PushBackoffEnds, PushLeaseExpires
<1>5. Waiting(old)
  BY <1>2, <1>3 DEF PushHolds
<1> HIDE DEF old
<1>6. row \in PushRow /\ row.kind = old.kind /\ row.alert = old.alert /\ Waiting(row)
  BY <1>3, <1>5 DEF PushRow, Waiting
<1> HIDE DEF row
<1>7. inbox.rev \in Nat
  BY <1>3, EntryRev
<1>8. PushesHold(E)' /\ \A e \in Device : DOMAIN pushes'[e] = DOMAIN pushes[e]
  BY <1>1, <1>2, <1>3, <1>4, <1>5, <1>6, <1>7, OnePushKeeps DEF old
<1>9. EntryHolds(E)' /\ PushersHold'
  BY <1>2, <1>3, <1>8 DEF EntryHolds, PushersHold
<1> QED BY <1>2, <1>3, <1>8, <1>9, NoneSends DEF InboxHolds

LEMMA DevicesKeep ==
    ASSUME NEW E, InboxHolds(E), Devices
    PROVE  InboxHolds(E)' /\ UNCHANGED vars /\ EndsFollowBeginnings
<1>1. PICK d \in Device : EnablePush(d) \/ DisablePush(d)
  BY DEF Devices
<1>2. EntryHolds(E) /\ PushesHold(E) /\ PushersHold
  BY DEF InboxHolds
<1>3. /\ UNCHANGED <<vars, inbox, pusher>> /\ incident' = incident
      /\ \E b \in BOOLEAN : ready' = [ready EXCEPT ![d] = b]
      /\ changes < MaxChange /\ changes' = changes + 1
  BY <1>1 DEF EnablePush, DisablePush, vars
<1>4. ready' \in [Device -> BOOLEAN] /\ changes' \in 0..MaxChange
  BY <1>2, <1>3, Types DEF PushersHold
<1>5. PushesHold(E)' /\ \A e \in Device : DOMAIN pushes'[e] = DOMAIN pushes[e]
  <2>1. CASE EnablePush(d)
    <3>1. pushes' = pushes
      BY <2>1 DEF EnablePush
    <3> QED BY <1>2, <1>3, <3>1
        DEF PushesHold, PushHolds, EntryLeads, HasBegun, Alerts, Waiting
  <2>2. CASE DisablePush(d)
    <3>1. pushes' = [pushes EXCEPT ![d] = Silenced(@)]
      BY <2>2 DEF DisablePush
    <3> QED BY <1>2, <1>3, <3>1, SilencedKeeps
  <2> QED BY <1>1, <2>1, <2>2
<1>6. EntryHolds(E)' /\ PushersHold'
  BY <1>2, <1>3, <1>4, <1>5 DEF EntryHolds, PushersHold
<1> QED BY <1>2, <1>3, <1>5, <1>6, NoneSends DEF InboxHolds

LEMMA StopKeeps ==
    ASSUME NEW E, OutboxHolds(E), InboxHolds(E), NEW w \in Worker, Stop(w), crashes' \in 0..MaxCrash
    PROVE  OutboxHolds(E)' /\ InboxHolds(E)' /\ DeliveredStays /\ EndsFollowBeginnings
<1>1. /\ worker' = [worker EXCEPT ![w] = Idle] /\ pusher' = [pusher EXCEPT ![w] = Idle]
      /\ UNCHANGED <<incident, elapsed, outbox, failures>>
      /\ UNCHANGED <<incident, inbox, pushes, ready, changes>>
  BY DEF Stop
<1>2. OutboxHolds(E)' /\ DeliveredStays
  BY <1>1, RestKeeps
<1>3. EntryHolds(E) /\ PushesHold(E) /\ PushersHold
  BY DEF InboxHolds
<1>4. EntryHolds(E)' /\ PushersHold'
  BY <1>1, <1>3 DEF EntryHolds, PushersHold, Idle
<1>5. PushesHold(E)'
  BY <1>1, <1>3 DEF PushesHold, PushHolds, EntryLeads, HasBegun, Alerts, Waiting
<1> QED BY <1>1, <1>2, <1>3, <1>4, <1>5, NoneSends DEF InboxHolds

----------------------------------------------------------------------------
(* The invariant is inductive *)

LEMMA InvInitially ==
    ASSUME InAppInit
    PROVE  DeliveryInv
<1>1. OutboxHolds({})
  BY Types DEF InAppInit, Init, OutboxHolds, IncidentHolds, Incident, RowsHold, JobHolds, Idle
<1>2. EntryHolds({})
  BY <1>1 DEF InAppInit, EntryHolds, NoEntry, OutboxHolds, IncidentHolds, Incident
<1>3. PushesHold({})
  BY DEF InAppInit, PushesHold
<1>4. PushersHold
  BY Types DEF InAppInit, PushersHold, Idle
<1> QED BY <1>1, <1>2, <1>3, <1>4 DEF DeliveryInv, InboxHolds

LEMMA InvStep ==
    ASSUME DeliveryInv, [InAppNext]_allVars
    PROVE  DeliveryInv' /\ [DeliveredStays /\ EndsFollowBeginnings]_allVars
<1>1. PICK E \in SUBSET (1..MaxRevision) : OutboxHolds(E) /\ InboxHolds(E)
  BY DEF DeliveryInv
<1>2. PushersHold
  BY <1>1 DEF InboxHolds
<1> DEFINE Kept == OutboxHolds(E)' /\ InboxHolds(E)' /\ DeliveredStays /\ EndsFollowBeginnings
<1>3. ASSUME UNCHANGED vars PROVE OutboxHolds(E)' /\ DeliveredStays
  <2>1. UNCHANGED <<incident, elapsed, outbox, worker, failures, crashes>>
    BY <1>3 DEF vars
  <2>2. \A w \in Worker : JobHolds(w, E)'
    BY <1>1, <2>1 DEF OutboxHolds, JobHolds
  <2> QED BY <1>1, <2>1, <2>2, SameOutbox DEF OutboxHolds
<1>4. ASSUME UNCHANGED pushVars PROVE EndsFollowBeginnings /\ (incident' = incident => InboxHolds(E)')
  <2>1. pusher' = pusher
    BY <1>4 DEF pushVars
  <2> QED BY <1>1, <1>2, <1>4, <2>1, InboxStays, NoneSends
<1>5. CASE UNCHANGED allVars
  <2>1. UNCHANGED vars /\ UNCHANGED pushVars /\ incident' = incident
    BY <1>5 DEF allVars, vars
  <2> QED BY <1>1, <1>3, <1>4, <1>5, <2>1 DEF DeliveryInv
<1>6. CASE Evolve /\ UNCHANGED pushVars
  <2>1. PICK F \in SUBSET (1..MaxRevision) :
          (\A n \in Nat : n <= incident.rev => (n \in F <=> n \in E)) /\ OutboxHolds(F)'
    BY <1>1, <1>6, EvolveKeeps
  <2>2. InboxHolds(F)'
    BY <1>1, <1>6, <2>1, EntryOutlivesRevisions
  <2>3. outbox' = outbox
    BY <1>1, <1>6, EvolveMoves DEF OutboxHolds
  <2>4. DeliveredStays
    BY <2>3 DEF DeliveredStays
  <2> QED BY <1>4, <1>6, <2>1, <2>2, <2>4 DEF DeliveryInv
<1>7. CASE Time /\ UNCHANGED pushVars
  <2>1. Kept
    BY <1>1, <1>4, <1>7, TimeKeeps
  <2> QED BY <2>1 DEF DeliveryInv
<1>8. ASSUME NEW w \in Worker, Dispatch(w) PROVE Kept
  <2>1. UNCHANGED pushVars
    BY <1>8 DEF Dispatch
  <2>2. OutboxHolds(E)' /\ DeliveredStays /\ UNCHANGED incident
    <3>1. CASE Schedule(w)
      BY <1>1, <3>1, ScheduleKeeps
    <3>2. CASE Rest(w)
      <4>1. /\ worker' = [worker EXCEPT ![w] = Idle]
            /\ UNCHANGED <<incident, elapsed, outbox, failures>> /\ crashes' \in 0..MaxCrash
        BY <1>1, <3>2 DEF Rest, OutboxHolds
      <4> QED BY <1>1, <4>1, RestKeeps
    <3>3. ASSUME NEW c \in Channel, NEW k \in DOMAIN outbox[c], Claim(w, c, k)
          PROVE  OutboxHolds(E)' /\ DeliveredStays /\ UNCHANGED incident
      BY <1>1, <3>3, ClaimKeeps
    <3>4. CASE Owns(w) /\ Settle(w)
      BY <1>1, <3>4, SettleKeeps
    <3> QED BY <1>8, <3>1, <3>2, <3>3, <3>4 DEF Dispatch, Queue
  <2> QED BY <1>4, <2>1, <2>2
<1>9. ASSUME NEW w \in Worker, Deliver(w) PROVE Kept
  <2>1. OutboxHolds(E)' /\ InboxHolds(E)' /\ DeliveredStays
    BY <1>1, <1>9, DeliverKeeps
  <2>2. pusher' = pusher
    BY <1>9 DEF Deliver, DeliverEntry, DeliverNothing, DeliverLater, DeliverError, pushVars
  <2> QED BY <1>2, <2>1, <2>2, NoneSends
<1>10. ASSUME NEW w \in Worker, PushStep(w) PROVE Kept
  <2>1. CASE PushReports(w)
    <3>1. InboxHolds(E)' /\ EndsFollowBeginnings
      BY <1>1, <2>1, PushReportKeeps, PushExpireKeeps DEF PushReports
    <3>2. /\ UNCHANGED <<incident, elapsed, outbox, worker, crashes>>
          /\ UNCHANGED failures \/ (failures < MaxFailure /\ failures' = failures + 1)
      BY <2>1 DEF PushReports, PushComplete, PushFail, PushExpire, PushReport
    <3>3. failures' \in 0..MaxFailure
      BY <1>1, <3>2, Types DEF OutboxHolds
    <3>4. \A v \in Worker : JobHolds(v, E)'
      BY <1>1, <3>2 DEF OutboxHolds, JobHolds
    <3> QED BY <1>1, <3>1, <3>2, <3>3, <3>4, SameOutbox DEF OutboxHolds
  <2>2. ASSUME NEW d \in Device, NEW r \in DOMAIN pushes[d], PushClaim(w, d, r) PROVE Kept
    BY <1>1, <1>3, <2>2, PushClaimKeeps
  <2> QED BY <1>10, <2>1, <2>2 DEF PushStep
<1>11. ASSUME NEW w \in Worker, InAppLoseLease(w) \/ InAppCrash(w) PROVE Kept
  <2>1. Stop(w) /\ (UNCHANGED crashes \/ (crashes < MaxCrash /\ crashes' = crashes + 1))
    BY <1>11 DEF InAppLoseLease, InAppCrash
  <2>2. crashes' \in 0..MaxCrash
    BY <1>1, <2>1, Types DEF OutboxHolds
  <2> QED BY <1>1, <2>1, <2>2, StopKeeps
<1>12. CASE PushTime \/ Devices
  BY <1>1, <1>3, <1>12, PushTimeKeeps, DevicesKeep DEF DeliveryInv
<1>13. ASSUME Kept PROVE DeliveryInv' /\ [DeliveredStays /\ EndsFollowBeginnings]_allVars
  BY <1>13 DEF DeliveryInv
<1> HIDE DEF Kept
<1> QED BY <1>5, <1>6, <1>7, <1>8, <1>9, <1>10, <1>11, <1>12, <1>13 DEF InAppNext

LEMMA InvAlways == InAppSpec => []DeliveryInv
<1>1. InAppInit => DeliveryInv
  BY InvInitially
<1>2. DeliveryInv /\ [InAppNext]_allVars => DeliveryInv'
  BY InvStep
<1> QED BY <1>1, <1>2, PTL DEF InAppSpec

----------------------------------------------------------------------------
(* What it implies *)

\* A push that waits is of the revision the entry holds, and announces what it
\* announces, as long as no older revision replaced the entry.
THEOREM PushesTellTheEntry == InAppSpec => []InboxInv
<1>1. DeliveryInv => InboxInv
  <2> SUFFICES ASSUME DeliveryInv PROVE InboxInv
    OBVIOUS
  <2>1. PICK E \in SUBSET (1..MaxRevision) : OutboxHolds(E) /\ InboxHolds(E)
    BY DEF DeliveryInv
  <2>2. TypeOK
    BY <2>1 DEF OutboxHolds, IncidentHolds, RowsHold, RowHolds, TypeOK
  <2>3. EntryHolds(E) /\ PushesHold(E) /\ PushersHold
    BY <2>1 DEF InboxHolds
  <2>4. InAppTypeOK
    BY <2>2, <2>3 DEF EntryHolds, PushesHold, PushHolds, PushersHold, InAppTypeOK
  <2>5. ASSUME ~inbox.fellBack, NEW d \in Device, NEW r \in DOMAIN pushes[d], Waiting(pushes[d][r])
        PROVE  r = inbox.rev /\ pushes[d][r].kind = inbox.kind
    <3>1. PushHolds(d, r, E) /\ EntryLeads(d, r) /\ pushes[d][r] \in PushRow
      BY <2>3, <2>5 DEF PushesHold, PushHolds
    <3>2. inbox.rev \in Nat /\ (inbox.rev = 0 \/ inbox.kind \in {"firing", "resolved"})
      BY <2>3, EntryRev
    <3>3. r = inbox.rev /\ r # 0
      BY <2>5, <3>1, <3>2, Types DEF PushHolds, EntryLeads
    <3>4. pushes[d][r].kind \in {"firing", "resolved"}
      BY <3>1 DEF PushRow
    <3> QED BY <2>3, <3>1, <3>2, <3>3, <3>4 DEF EntryHolds, PushHolds
  <2> QED BY <2>4, <2>5 DEF InboxInv, PushesAgree
<1> QED BY <1>1, InvAlways, PTL

\* No device is shown an end of what it was not told had begun, as long as no
\* older revision replaced the entry, and a delivery that was made stays made.
THEOREM EndsHaveBeginnings == InAppSpec => NoEndWithoutBeginning
<1>1. DeliveryInv /\ [InAppNext]_allVars => [DeliveredStays /\ EndsFollowBeginnings]_allVars
  BY InvStep
<1> QED BY <1>1, InvAlways, PTL DEF InAppSpec, NoEndWithoutBeginning

----------------------------------------------------------------------------
(* One dispatcher, as long as it does not die *)

OneDispatcher == \A v, w \in Worker : v = w

Resumption == <<"resumed", 0>>

Delivered(q, k) == k \in DOMAIN q /\ q[k].status = "delivered"

KeysHold(q) ==
    \A k \in DOMAIN q : /\ q[k].kind = "update" => k = <<"revision", q[k].rev>>
                        /\ k \in {Opening, Resumption} => q[k].kind = "firing"

WaitingUpdate(row) == row.kind = "update" /\ Waiting(row)

\* The alerts of a problem, which an update in alert has to exceed.
Problem(row) == row.status = "delivered" /\ row.alert /\ row.kind # "resolved"

MoreThan(row, q) ==
    \/ \A j \in DOMAIN q : Problem(q[j]) => row.sev > q[j].sev
    \/ row.extended /\ \A j \in DOMAIN q : Problem(q[j]) => ~q[j].extended

Silent(q) == \A j \in DOMAIN q : q[j].kind = "firing" => ~Waiting(q[j])

\* No resumption is left to announce at this revision.
Returned(c, q) ==
    incident.acked \/ ~Routes(c) \/ incident.resumptions = 0 \/ Delivered(q, Resumption)

\* An update in alert waits with no announcement, and tells more than all alerts.
NewsOf(c, q, row) ==
    /\ Delivered(q, Opening) /\ Silent(q) /\ MoreThan(row, q)
    /\ row.rev = incident.rev => Returned(c, q)

NewsHold(c, q) ==
    /\ KeysHold(q)
    /\ \A j, k \in DOMAIN q : WaitingUpdate(q[j]) /\ WaitingUpdate(q[k]) => j = k
    /\ \A k \in DOMAIN q : WaitingUpdate(q[k]) /\ q[k].alert => NewsOf(c, q, q[k])

\* A row is leased only while its worker is busy with it, which owns it even when
\* its lease is over.
LeasesHold ==
    \A c \in Channel : \A k \in DOMAIN outbox[c] : outbox[c][k].held => \E w \in Worker : Busy(w, c, k)

JobLeased(w) ==
    worker[w].at \in {"sending", "reporting"} =>
        LET row == outbox[worker[w].channel][worker[w].key]
        IN  row.owner = w /\ Waiting(row)

Orderly ==
    LeasesHold /\ (\A w \in Worker : JobLeased(w)) /\ \A c \in Channel : NewsHold(c, outbox[c])

NewsInv == (\E E \in SUBSET (1..MaxRevision) : OutboxHolds(E)) /\ (crashes = 0 => Orderly)

\* What the announcements of Schedule change: neither updates nor what was
\* delivered, and what they add announces.
Carries(q, p) ==
    /\ DOMAIN q \subseteq DOMAIN p
    /\ \A k \in DOMAIN q : p[k].kind = q[k].kind
    /\ \A k \in DOMAIN q : q[k].kind # "firing" \/ q[k].status = "delivered" => p[k] = q[k]
    /\ \A k \in DOMAIN p : k \notin DOMAIN q => p[k].kind = "firing" /\ k \in {Opening, Resumption}
    /\ \A k \in DOMAIN p : p[k].status = "delivered" => Delivered(q, k)
    /\ (\A k \in DOMAIN q : ~q[k].held) => \A k \in DOMAIN p : ~p[k].held

LEMMA CarriesOn ==
    ASSUME NEW q, NEW p, NEW r, Carries(q, p), Carries(p, r)
    PROVE  Carries(q, r)
<1>1. DOMAIN q \subseteq DOMAIN p /\ DOMAIN p \subseteq DOMAIN r
  BY DEF Carries
<1>2. \A k \in DOMAIN q : r[k].kind = q[k].kind
  BY <1>1 DEF Carries
<1>3. \A k \in DOMAIN q : q[k].kind # "firing" \/ q[k].status = "delivered" => r[k] = q[k]
  BY <1>1 DEF Carries
<1>4. \A k \in DOMAIN r : k \notin DOMAIN q => r[k].kind = "firing" /\ k \in {Opening, Resumption}
  BY <1>1 DEF Carries
<1>5. \A k \in DOMAIN r : r[k].status = "delivered" => Delivered(q, k)
  BY <1>1 DEF Carries, Delivered
<1>6. (\A k \in DOMAIN q : ~q[k].held) => \A k \in DOMAIN r : ~r[k].held
  BY DEF Carries
<1> QED BY <1>1, <1>2, <1>3, <1>4, <1>5, <1>6 DEF Carries

LEMMA KeysStay ==
    ASSUME NEW q, NEW p, KeysHold(q), Carries(q, p)
    PROVE  KeysHold(p)
<1> SUFFICES ASSUME NEW k \in DOMAIN p
             PROVE  /\ p[k].kind = "update" => k = <<"revision", p[k].rev>>
                    /\ k \in {Opening, Resumption} => p[k].kind = "firing"
  BY DEF KeysHold
<1>1. CASE k \in DOMAIN q
  <2>1. p[k].kind = q[k].kind /\ (q[k].kind # "firing" => p[k] = q[k])
    BY <1>1 DEF Carries
  <2> QED BY <1>1, <2>1 DEF KeysHold
<1>2. CASE k \notin DOMAIN q
  BY <1>2 DEF Carries
<1> QED BY <1>1, <1>2

LEMMA CancelOpeningsCarries ==
    ASSUME NEW E, NEW q, RowsHold(q, E)
    PROVE  /\ Carries(q, CancelOpenings(q)) /\ (Silent(q) => Silent(CancelOpenings(q)))
           /\ \A k : Delivered(q, k) <=> Delivered(CancelOpenings(q), k)
<1> DEFINE p == CancelOpenings(q)
<1>1. DOMAIN p = DOMAIN q
  BY DEF CancelOpenings
<1>2. ASSUME NEW k \in DOMAIN q
      PROVE  \/ p[k] = q[k]
             \/ /\ q[k].kind = "firing" /\ Waiting(q[k]) /\ ~q[k].held
                /\ p[k].kind = "firing" /\ p[k].status = "cancelled" /\ ~p[k].held
  <2>1. q[k] \in Row
    BY DEF RowsHold, RowHolds
  <2> QED BY <2>1 DEF CancelOpenings, Cancelled, Free, Row
<1> HIDE DEF p
<1>3. Carries(q, p)
  BY <1>1, <1>2 DEF Carries, Delivered, Waiting
<1>4. Silent(q) => Silent(p)
  BY <1>1, <1>2 DEF Silent, Waiting
<1>5. \A k : Delivered(q, k) <=> Delivered(p, k)
  BY <1>1, <1>2 DEF Delivered, Waiting
<1> QED BY <1>3, <1>4, <1>5 DEF p

LEMMA ArmedCarries ==
    ASSUME NEW E, NEW q, RowsHold(q, E), KeysHold(q), NEW k \in {Opening, Resumption}
    PROVE  /\ Carries(q, Armed(q, k)) /\ (Delivered(q, k) => Armed(q, k) = q)
           /\ k \in DOMAIN Armed(q, k) /\ Armed(q, k)[k].status # "cancelled"
           /\ \A j : Delivered(q, j) <=> Delivered(Armed(q, k), j)
<1>1. CASE k \notin DOMAIN q
  <2> DEFINE row == NewRow("firing", TRUE, Window)
             p == With(q, k, row)
  <2>1. Armed(q, k) = p
    BY <1>1 DEF Armed
  <2>2. row.kind = "firing" /\ row.status = "pending" /\ ~row.held
    BY DEF NewRow
  <2> HIDE DEF row
  <2>3. DOMAIN p = DOMAIN q \cup {k} /\ p[k] = row /\ \A j \in DOMAIN q : p[j] = q[j]
    BY <1>1 DEF With
  <2> HIDE DEF p
  <2>4. Carries(q, p) /\ \A j : Delivered(q, j) <=> Delivered(p, j)
    BY <1>1, <2>2, <2>3 DEF Carries, Delivered
  <2> QED BY <1>1, <2>1, <2>2, <2>3, <2>4 DEF Delivered
<1>2. CASE k \in DOMAIN q /\ q[k].status # "cancelled"
  BY <1>2 DEF Armed, Carries, Delivered
<1>3. CASE k \in DOMAIN q /\ q[k].status = "cancelled"
  <2> DEFINE row == [q[k] EXCEPT !.status = "pending", !.wait = Window]
             p == With(q, k, row)
  <2>1. Armed(q, k) = p
    BY <1>3 DEF Armed
  <2>2. q[k].kind = "firing" /\ q[k] \in Row
    BY <1>3 DEF KeysHold, RowsHold, RowHolds
  <2>3. row.kind = "firing" /\ row.status = "pending" /\ row.held = q[k].held
    BY <2>2 DEF Row
  <2> HIDE DEF row
  <2>4. DOMAIN p = DOMAIN q /\ p[k] = row /\ \A j \in DOMAIN q : j # k => p[j] = q[j]
    BY <1>3 DEF With
  <2> HIDE DEF p
  <2>5. Carries(q, p)
    BY <1>3, <2>2, <2>3, <2>4 DEF Carries, Delivered
  <2>6. \A j : Delivered(q, j) <=> Delivered(p, j)
    BY <1>3, <2>3, <2>4 DEF Delivered
  <2> QED BY <1>3, <2>1, <2>3, <2>4, <2>5, <2>6 DEF Delivered
<1> QED BY <1>1, <1>2, <1>3

LEMMA RefreshCarries ==
    ASSUME NEW E, NEW q, RowsHold(q, E), \A k \in DOMAIN q : ~q[k].held
    PROVE  /\ Carries(q, Refresh(q)) /\ DOMAIN Refresh(q) = DOMAIN q
           /\ \A k \in DOMAIN q : Refresh(q)[k].status = q[k].status
           /\ \A k \in DOMAIN q : q[k].kind = "firing" /\ Waiting(q[k]) => Refresh(q)[k].rev = incident.rev
<1> DEFINE p == Refresh(q)
<1>1. DOMAIN p = DOMAIN q
  BY DEF Refresh
<1>2. ASSUME NEW k \in DOMAIN q
      PROVE  IF q[k].kind = "firing" /\ Waiting(q[k])
             THEN p[k].kind = "firing" /\ p[k].status = q[k].status /\ ~p[k].held /\ p[k].rev = incident.rev
             ELSE p[k] = q[k]
  <2>1. q[k] \in Row
    BY DEF RowsHold, RowHolds
  <2>2. CASE q[k].kind = "firing" /\ Free(q[k])
    <3> DEFINE wait == IF q[k].status = "failed" THEN q[k].wait ELSE Window
    <3>1. p[k] = [q[k] EXCEPT !.rev = incident.rev, !.sev = incident.sev,
                              !.extended = incident.extended, !.wait = wait]
      BY <2>2 DEF Refresh
    <3> HIDE DEF wait, p
    <3> QED BY <2>1, <2>2, <3>1 DEF Row, Free
  <2>3. CASE ~(q[k].kind = "firing" /\ Free(q[k]))
    <3>1. p[k] = q[k]
      BY <2>3 DEF Refresh
    <3> QED BY <2>3, <3>1 DEF Free
  <2> QED BY <2>2, <2>3
<1> HIDE DEF p
<1>3. Carries(q, p)
  BY <1>1, <1>2 DEF Carries, Delivered, Waiting
<1>4. \A k \in DOMAIN q : p[k].status = q[k].status
  BY <1>2
<1> QED BY <1>1, <1>2, <1>3, <1>4 DEF p

\* Announcements are of the current revision, none appears beside an update that
\* lacks nothing, and a resumption that can be announced is.
LEMMA AnnouncedNews ==
    ASSUME NEW E, IncidentHolds(E), incident.status # "none", NEW c, RowsHold(outbox[c], E),
           KeysHold(outbox[c]), \A k \in DOMAIN outbox[c] : ~outbox[c][k].held
    PROVE  /\ Carries(outbox[c], Announced(c))
           /\ \A k \in DOMAIN Announced(c) :
                 Announced(c)[k].kind = "firing" /\ Waiting(Announced(c)[k]) => Announced(c)[k].rev = incident.rev
           /\ (Delivered(outbox[c], Opening) /\ Silent(outbox[c]) /\ Returned(c, outbox[c])) =>
                 Silent(Announced(c))
           /\ (Eligible /\ Routes(c) /\ incident.resumptions > 0 /\ Delivered(outbox[c], Opening)) =>
                 Resumption \in DOMAIN Announced(c) /\ Announced(c)[Resumption].status # "cancelled"
<1> DEFINE q == outbox[c]
           q1 == CancelOpenings(q)
           q2 == ScheduleOpening(c, q1)
           q3 == ScheduleResumption(c, q2)
           q4 == Refresh(q3)
<1>1. RowsHold(q1, E) /\ Announces(q1) /\ Carries(q, q1) /\ (Silent(q) => Silent(q1))
      /\ \A k : Delivered(q, k) <=> Delivered(q1, k)
  BY CancelOpeningsKeeps, CancelOpeningsCarries
<1>2. KeysHold(q1)
  BY <1>1, KeysStay
<1> HIDE DEF q1
<1>3. /\ RowsHold(q2, E) /\ Carries(q1, q2) /\ (\A k : Delivered(q1, k) <=> Delivered(q2, k))
      /\ Delivered(q1, Opening) => q2 = q1
  <2>1. CASE Eligible /\ Routes(c)
    <3>1. q2 = Armed(q1, Opening)
      BY <2>1 DEF ScheduleOpening
    <3>2. RowsHold(Armed(q1, Opening), E)
      BY <1>1, <2>1, ArmedKeeps, Types
    <3> HIDE DEF q2
    <3> QED BY <1>1, <1>2, <3>1, <3>2, ArmedCarries
  <2>2. CASE ~(Eligible /\ Routes(c))
    <3>1. q2 = q1
      BY <2>2 DEF ScheduleOpening
    <3>2. Carries(q1, q1)
      BY DEF Carries, Delivered
    <3> HIDE DEF q2
    <3> QED BY <1>1, <3>1, <3>2
  <2> QED BY <2>1, <2>2
<1>4. KeysHold(q2)
  BY <1>2, <1>3, KeysStay
<1>5. OpeningDelivered(q2) <=> Delivered(q2, Opening)
  BY DEF OpeningDelivered, Delivered
<1> HIDE DEF q2
<1> DEFINE Returns == Eligible /\ Routes(c) /\ incident.resumptions > 0 /\ Delivered(q2, Opening)
<1>6. /\ RowsHold(q3, E) /\ Carries(q2, q3)
      /\ ~Returns \/ Delivered(q2, Resumption) => q3 = q2
      /\ Returns => Resumption \in DOMAIN q3 /\ q3[Resumption].status # "cancelled"
  <2>1. CASE Returns
    <3>1. q3 = Armed(q2, Resumption)
      BY <1>5, <2>1 DEF ScheduleResumption, Resumption
    <3>2. Resumption \in Key
      BY Types DEF Resumption
    <3>3. RowsHold(Armed(q2, Resumption), E)
      BY <1>3, <2>1, <3>2, ArmedKeeps
    <3> HIDE DEF q3
    <3> QED BY <1>3, <1>4, <2>1, <3>1, <3>3, ArmedCarries
  <2>2. CASE ~Returns
    <3>1. q3 = q2
      BY <1>5, <2>2 DEF ScheduleResumption
    <3>2. Carries(q2, q2)
      BY DEF Carries, Delivered
    <3> HIDE DEF q3
    <3> QED BY <1>3, <2>2, <3>1, <3>2
  <2> QED BY <2>1, <2>2
<1>7. Announced(c) = q4
  BY DEF Announced, q1, q2, q3
<1> HIDE DEF q3
<1>8. Carries(q, q2) /\ Carries(q, q3)
  BY <1>1, <1>3, <1>6, CarriesOn
<1>9. \A k \in DOMAIN q3 : ~q3[k].held
  BY <1>8 DEF Carries
<1>10. /\ Carries(q3, q4) /\ DOMAIN q4 = DOMAIN q3
       /\ \A k \in DOMAIN q3 : q4[k].status = q3[k].status
       /\ \A k \in DOMAIN q3 : q3[k].kind = "firing" /\ Waiting(q3[k]) => q4[k].rev = incident.rev
  BY <1>6, <1>9, RefreshCarries
<1> HIDE DEF q4
<1>11. Carries(q, q4)
  BY <1>8, <1>10, CarriesOn
<1>12. \A k \in DOMAIN q3 : q4[k].kind = q3[k].kind /\ (Waiting(q4[k]) <=> Waiting(q3[k]))
  BY <1>10 DEF Carries, Waiting
<1>13. \A k \in DOMAIN q4 : q4[k].kind = "firing" /\ Waiting(q4[k]) => q4[k].rev = incident.rev
  BY <1>10, <1>12
<1>14. ASSUME Delivered(q, Opening), Silent(q), Returned(c, q) PROVE Silent(q4)
  <2>1. q2 = q1 /\ Silent(q1)
    BY <1>1, <1>3, <1>14
  <2>2. ~Returns \/ Delivered(q2, Resumption)
    <3>1. incident.acked => ~Eligible
      BY DEF Eligible
    <3>2. incident.resumptions = 0 => ~(incident.resumptions > 0)
      OBVIOUS
    <3>3. Delivered(q, Resumption) => Delivered(q2, Resumption)
      BY <1>1, <2>1
    <3> QED BY <1>14, <3>1, <3>2, <3>3 DEF Returned
  <2>3. q3 = q1
    BY <1>6, <2>1, <2>2
  <2> QED BY <1>10, <1>12, <2>1, <2>3 DEF Silent
<1>15. ASSUME Eligible, Routes(c), incident.resumptions > 0, Delivered(q, Opening)
       PROVE  Resumption \in DOMAIN q4 /\ q4[Resumption].status # "cancelled"
  <2>1. Returns
    BY <1>1, <1>3, <1>15
  <2> QED BY <1>6, <1>10, <2>1
<1> QED BY <1>7, <1>11, <1>13, <1>14, <1>15

\* A new update announces more than the alerts, once nothing else is left to announce.
LEMMA ScheduleUpdateNews ==
    ASSUME NEW c, NEW q, incident.status # "none", incident \in Incident,
           \A k \in DOMAIN q : q[k].kind = "firing" /\ Waiting(q[k]) => q[k].rev = incident.rev,
           Eligible /\ Routes(c) /\ incident.resumptions > 0 /\ Delivered(q, Opening) =>
               Resumption \in DOMAIN q /\ q[Resumption].status # "cancelled",
           \A k \in {Opening, Resumption} \cap DOMAIN q : q[k].kind = "firing" /\ q[k] \in Row
    PROVE  \/ ScheduleUpdate(c, q) = q
           \/ LET key == <<"revision", incident.rev>>
                  row == UpdateRow(q)
              IN  /\ ScheduleUpdate(c, q) = With(q, key, row) /\ key \notin DOMAIN q
                  /\ row.kind = "update" /\ row.rev = incident.rev /\ row.status = "pending" /\ ~row.held
                  /\ row.alert => NewsOf(c, q, row)
<1> DEFINE key == <<"revision", incident.rev>>
           row == UpdateRow(q)
<1>1. \/ ScheduleUpdate(c, q) = q
      \/ /\ ScheduleUpdate(c, q) = With(q, key, row) /\ key \notin DOMAIN q
         /\ Delivered(q, Opening) /\ Unscheduled(q)
  BY DEF ScheduleUpdate, OpeningDelivered, Delivered
<1>2. /\ row.kind = "update" /\ row.rev = incident.rev /\ row.status = "pending" /\ ~row.held
      /\ row.alert = Interrupts(q) /\ row.sev = incident.sev /\ row.extended = incident.extended
  <2> DEFINE tried == {k \in DOMAIN q : q[k].kind = "update" /\ Waiting(q[k]) /\ q[k].tried}
             wait == IF \E k \in tried : q[k].wait = Backoff THEN Backoff ELSE 0
             new == NewRow("update", Interrupts(q), wait)
  <2>1. row = [new EXCEPT !.tried = (tried # {})]
    BY DEF UpdateRow
  <2> HIDE DEF tried, wait, row
  <2> QED BY <2>1 DEF NewRow
<1> HIDE DEF row
<1>3. ASSUME Delivered(q, Opening), Unscheduled(q), Interrupts(q)
      PROVE  NewsOf(c, q, row)
  <2>1. Silent(q)
    <3>1. incident.rev \in Nat /\ ~(incident.rev > incident.rev)
      BY Types DEF Incident
    <3> QED BY <1>3, <3>1 DEF Silent, Unscheduled, Waiting
  <2>2. MoreThan(row, q)
    <3>1. \A j \in DOMAIN q : Problem(q[j]) => q[j] \in DeliveredAlerts(q)
      BY DEF Problem, DeliveredAlerts
    <3>2. NewsBeyond(DeliveredAlerts(q))
      BY <1>3 DEF Interrupts
    <3> QED BY <1>2, <3>1, <3>2 DEF NewsBeyond, MoreThan
  <2>3. Returned(c, q)
    <3>1. CASE incident.acked \/ ~Routes(c) \/ incident.resumptions = 0
      BY <3>1 DEF Returned
    <3>2. CASE ~(incident.acked \/ ~Routes(c) \/ incident.resumptions = 0)
      <4>1. incident.status \in {"none", "active", "resolved"} /\ incident.resumptions \in Nat
        BY Types DEF Incident
      <4>2. Eligible /\ incident.resumptions > 0
        BY <1>3, <3>2, <4>1 DEF Eligible, Interrupts, Resolved
      <4>3. Resumption \in DOMAIN q /\ q[Resumption].status # "cancelled"
        BY <1>3, <3>2, <4>2
      <4>4. q[Resumption].kind = "firing" /\ q[Resumption] \in Row
        BY <4>3
      <4>5. ~Waiting(q[Resumption])
        BY <2>1, <4>3, <4>4 DEF Silent
      <4>6. q[Resumption].status = "delivered"
        BY <4>3, <4>4, <4>5 DEF Waiting, Row
      <4> QED BY <4>3, <4>6 DEF Returned, Delivered
    <3> QED BY <3>1, <3>2
  <2> QED BY <1>3, <2>1, <2>2, <2>3 DEF NewsOf
<1>4. ASSUME Delivered(q, Opening), Unscheduled(q) PROVE row.alert => NewsOf(c, q, row)
  BY Zenon, <1>2, <1>3, <1>4
<1> HIDE DEF key
<1> QED BY Zenon, <1>1, <1>2, <1>4 DEF key, row

\* What waits after Schedule is of the current revision.
LEMMA ReplacedStale ==
    ASSUME NEW E, NEW q, RowsHold(q, E), incident.rev \in Nat, KeysHold(q), \A k \in DOMAIN q : ~q[k].held
    PROVE  /\ DOMAIN ReplaceStale(q) = DOMAIN q
           /\ \A k \in DOMAIN q :
                 \/ ReplaceStale(q)[k] = q[k]
                 \/ /\ ReplaceStale(q)[k].kind = "update" /\ q[k].kind = "update"
                    /\ ReplaceStale(q)[k].status = "cancelled" /\ ReplaceStale(q)[k].rev = q[k].rev
                    /\ q[k].status # "delivered" /\ ~ReplaceStale(q)[k].held
           /\ \A k \in DOMAIN q : WaitingUpdate(ReplaceStale(q)[k]) =>
                 ReplaceStale(q)[k] = q[k] /\ q[k].rev = incident.rev /\ k = <<"revision", incident.rev>>
<1> DEFINE p == ReplaceStale(q)
<1>1. DOMAIN p = DOMAIN q
  BY DEF ReplaceStale
<1>2. ASSUME NEW k \in DOMAIN q
      PROVE  /\ \/ p[k] = q[k]
                \/ /\ p[k].kind = "update" /\ q[k].kind = "update" /\ p[k].status = "cancelled"
                   /\ p[k].rev = q[k].rev /\ q[k].status # "delivered" /\ ~p[k].held
             /\ WaitingUpdate(p[k]) => p[k] = q[k] /\ q[k].rev = incident.rev
  <2>1. q[k] \in Row /\ q[k].rev <= incident.rev /\ q[k].rev \in Nat
    BY Types DEF RowsHold, RowHolds, Row
  <2>2. CASE q[k].kind = "update" /\ Free(q[k]) /\ q[k].rev < incident.rev
    <3>1. p[k] = Cancelled(q[k])
      BY <2>2 DEF ReplaceStale
    <3>2. p[k].kind = "update" /\ p[k].status = "cancelled" /\ p[k].rev = q[k].rev /\ ~p[k].held
      BY <2>1, <2>2, <3>1 DEF Cancelled, Row
    <3> QED BY <2>2, <3>2 DEF Free, Waiting, WaitingUpdate
  <2>3. CASE ~(q[k].kind = "update" /\ Free(q[k]) /\ q[k].rev < incident.rev)
    <3>1. p[k] = q[k]
      BY <2>3 DEF ReplaceStale
    <3>2. WaitingUpdate(q[k]) => Free(q[k]) /\ q[k].kind = "update"
      BY DEF WaitingUpdate, Free
    <3> QED BY <2>1, <2>3, <3>1, <3>2
  <2> QED BY <2>2, <2>3
<1>3. \A k \in DOMAIN q : WaitingUpdate(p[k]) => k = <<"revision", incident.rev>>
  BY <1>2 DEF WaitingUpdate, KeysHold
<1> QED BY <1>1, <1>2, <1>3

LEMMA ScheduledNews ==
    ASSUME NEW E, IncidentHolds(E), incident.status # "none", NEW c, RowsHold(outbox[c], E),
           NewsHold(c, outbox[c]), \A k \in DOMAIN outbox[c] : ~outbox[c][k].held
    PROVE  /\ NewsHold(c, Scheduled(c)) /\ \A k \in DOMAIN Scheduled(c) : ~Scheduled(c)[k].held
           /\ \A k \in DOMAIN Scheduled(c) : Scheduled(c)[k].status = "delivered" => Delivered(outbox[c], k)
<1> DEFINE q == outbox[c]
           p == Announced(c)
           u == ScheduleUpdate(c, p)
           r == ReplaceStale(u)
           s == ScheduleResolution(c, r)
           now == <<"revision", incident.rev>>
<1>1. incident \in Incident /\ incident.rev \in Nat
  BY Types DEF IncidentHolds, Incident
<1>2. KeysHold(q)
  BY DEF NewsHold
<1>3. /\ Carries(q, p)
      /\ \A k \in DOMAIN p : p[k].kind = "firing" /\ Waiting(p[k]) => p[k].rev = incident.rev
      /\ Delivered(q, Opening) /\ Silent(q) /\ Returned(c, q) => Silent(p)
      /\ Eligible /\ Routes(c) /\ incident.resumptions > 0 /\ Delivered(q, Opening) =>
            Resumption \in DOMAIN p /\ p[Resumption].status # "cancelled"
  BY <1>2, AnnouncedNews
<1>4. RowsHold(p, E)
  BY AnnouncedKeeps
<1>5. RowsHold(u, E)
  BY <1>4, ScheduleUpdateKeeps
<1>6. Scheduled(c) = s
  BY ScheduledIs
<1> HIDE DEF p
<1>7. KeysHold(p) /\ \A k \in DOMAIN p : ~p[k].held
  BY <1>2, <1>3, KeysStay DEF Carries
<1>8. \A k : Delivered(q, k) <=> Delivered(p, k)
  BY <1>3 DEF Carries, Delivered
<1>9. \A k \in {Opening, Resumption} \cap DOMAIN p : p[k].kind = "firing" /\ p[k] \in Row
  BY <1>4, <1>7 DEF KeysHold, RowsHold, RowHolds
<1>10. \/ u = p
       \/ LET row == UpdateRow(p)
          IN  /\ u = With(p, now, row) /\ now \notin DOMAIN p
              /\ row.kind = "update" /\ row.rev = incident.rev /\ row.status = "pending" /\ ~row.held
              /\ row.alert => NewsOf(c, p, row)
  BY <1>1, <1>3, <1>8, <1>9, ScheduleUpdateNews
<1> HIDE DEF u
\* The update, if it is a new one.
<1>11. /\ DOMAIN p \subseteq DOMAIN u /\ \A k \in DOMAIN p : u[k] = p[k]
       /\ \A k \in DOMAIN u : k \notin DOMAIN p =>
             /\ k = now /\ u[k].kind = "update" /\ u[k].rev = incident.rev /\ u[k].status = "pending" /\ ~u[k].held
             /\ u[k].alert => NewsOf(c, p, u[k])
  <2>1. CASE u = p
    BY <2>1
  <2>2. CASE u # p
    <3> DEFINE row == UpdateRow(p)
    <3>1. /\ u = With(p, now, row) /\ now \notin DOMAIN p
          /\ row.kind = "update" /\ row.rev = incident.rev /\ row.status = "pending" /\ ~row.held
          /\ row.alert => NewsOf(c, p, row)
      BY <1>10, <2>2
    <3> HIDE DEF row, now
    <3>2. DOMAIN u = DOMAIN p \cup {now} /\ u[now] = row /\ \A k \in DOMAIN p : u[k] = p[k]
      BY <3>1 DEF With
    <3> QED BY Zenon, <3>1, <3>2
  <2> QED BY <2>1, <2>2
<1>12. KeysHold(u) /\ \A k \in DOMAIN u : ~u[k].held
  <2>1. now \notin {Opening, Resumption}
    BY DEF Opening, Resumption
  <2>2. ASSUME NEW k \in DOMAIN u
        PROVE  /\ u[k].kind = "update" => k = <<"revision", u[k].rev>>
               /\ k \in {Opening, Resumption} => u[k].kind = "firing"
               /\ ~u[k].held
    <3>1. CASE k \in DOMAIN p
      BY <1>7, <1>11, <3>1 DEF KeysHold
    <3>2. CASE k \notin DOMAIN p
      BY <1>11, <2>1, <3>2
    <3> QED BY <3>1, <3>2
  <2> QED BY <2>2 DEF KeysHold
<1>13. /\ DOMAIN r = DOMAIN u
       /\ \A k \in DOMAIN u :
             \/ r[k] = u[k]
             \/ /\ r[k].kind = "update" /\ u[k].kind = "update" /\ r[k].status = "cancelled"
                /\ r[k].rev = u[k].rev /\ u[k].status # "delivered" /\ ~r[k].held
       /\ \A k \in DOMAIN u : WaitingUpdate(r[k]) => r[k] = u[k] /\ u[k].rev = incident.rev /\ k = now
  BY <1>1, <1>5, <1>12, ReplacedStale
<1> HIDE DEF r
<1>14. /\ DOMAIN r \subseteq DOMAIN s /\ \A k \in DOMAIN r : s[k] = r[k]
       /\ \A k \in DOMAIN s : k \notin DOMAIN r =>
             k = <<"resolved", incident.resumptions>> /\ s[k].kind = "resolved" /\ s[k].status = "pending" /\ ~s[k].held
  <2> DEFINE key == <<"resolved", incident.resumptions>>
             row == NewRow("resolved", TRUE, 0)
  <2>1. s = r \/ (s = With(r, key, row) /\ key \notin DOMAIN r)
    BY DEF ScheduleResolution
  <2>2. row.kind = "resolved" /\ row.status = "pending" /\ ~row.held
    BY DEF NewRow
  <2> HIDE DEF row, key, s
  <2>3. CASE s = r
    BY <2>3
  <2>4. CASE s = With(r, key, row) /\ key \notin DOMAIN r
    <3>1. DOMAIN s = DOMAIN r \cup {key} /\ s[key] = row /\ \A k \in DOMAIN r : s[k] = r[k]
      BY <2>4 DEF With
    <3> QED BY Zenon, <2>2, <3>1 DEF key
  <2> QED BY <2>1, <2>3, <2>4
<1> HIDE DEF s
\* What the rows of s come from.
<1>15. ASSUME NEW k \in DOMAIN s
       PROVE  /\ ~s[k].held
              /\ s[k].kind = "update" => k = <<"revision", s[k].rev>>
              /\ k \in {Opening, Resumption} => s[k].kind = "firing"
              /\ WaitingUpdate(s[k]) => k = now /\ k \in DOMAIN u /\ s[k] = u[k] /\ u[k].rev = incident.rev
              /\ s[k].kind = "firing" => k \in DOMAIN p /\ s[k] = p[k]
              /\ s[k].status = "delivered" => k \in DOMAIN p /\ s[k] = p[k] /\ p[k].status = "delivered"
  <2>1. CASE k \notin DOMAIN r
    <3>1. <<"resolved", incident.resumptions>> \notin {Opening, Resumption}
      BY DEF Opening, Resumption
    <3> QED BY <1>14, <2>1, <3>1 DEF WaitingUpdate
  <2>2. CASE k \in DOMAIN r /\ k \notin DOMAIN p
    BY <1>11, <1>12, <1>13, <1>14, <2>2 DEF KeysHold, WaitingUpdate
  <2>3. CASE k \in DOMAIN r /\ k \in DOMAIN p
    BY <1>11, <1>12, <1>13, <1>14, <2>3 DEF KeysHold, WaitingUpdate
  <2> QED BY <2>1, <2>2, <2>3
<1>16. KeysHold(s)
  BY <1>15 DEF KeysHold
<1>17. \A k : Delivered(p, k) => Delivered(s, k) /\ s[k] = p[k]
  <2> SUFFICES ASSUME NEW k, Delivered(p, k) PROVE Delivered(s, k) /\ s[k] = p[k]
    OBVIOUS
  <2>1. k \in DOMAIN p /\ p[k].status = "delivered" /\ k \in DOMAIN u /\ u[k] = p[k]
    BY <1>11 DEF Delivered
  <2>2. r[k] = u[k] /\ k \in DOMAIN r
    BY <1>13, <2>1
  <2> QED BY <1>14, <2>1, <2>2 DEF Delivered
<1>18. \A j, k \in DOMAIN s : WaitingUpdate(s[j]) /\ WaitingUpdate(s[k]) => j = k
  BY <1>15
<1>19. ASSUME NEW k \in DOMAIN s, WaitingUpdate(s[k]), s[k].alert
       PROVE  NewsOf(c, s, s[k])
  <2> DEFINE row == s[k]
  <2>1. k \in DOMAIN u /\ row = u[k] /\ row.rev = incident.rev
    BY <1>15, <1>19
  <2> HIDE DEF row
  <2>2. ASSUME NewsOf(c, p, row), Returned(c, p) PROVE NewsOf(c, s, row)
    <3>1. Delivered(s, Opening) /\ Returned(c, s)
      BY <1>17, <2>2 DEF NewsOf, Returned
    <3>2. Silent(s)
      BY <1>15, <2>2 DEF NewsOf, Silent
    <3>3. \A j \in DOMAIN s : Problem(s[j]) => j \in DOMAIN p /\ s[j] = p[j]
      BY <1>15 DEF Problem
    <3>4. MoreThan(row, s)
      BY <2>2, <3>3 DEF NewsOf, MoreThan
    <3> QED BY <3>1, <3>2, <3>4 DEF NewsOf
  <2>3. CASE k \notin DOMAIN p
    <3>1. NewsOf(c, p, row)
      BY <1>11, <1>19, <2>1, <2>3 DEF row
    <3>2. Returned(c, p)
      BY <2>1, <3>1 DEF NewsOf
    <3> QED BY <2>2, <3>1, <3>2 DEF row
  <2>4. CASE k \in DOMAIN p
    <3>1. row = p[k] /\ p[k].kind = "update"
      BY <1>11, <1>19, <2>1, <2>4 DEF WaitingUpdate, row
    <3>2. k \in DOMAIN q /\ p[k] = q[k]
      BY <1>3, <2>4, <3>1 DEF Carries
    <3>3. NewsOf(c, q, row)
      BY <1>19, <3>1, <3>2 DEF NewsHold, row
    <3>4. Delivered(q, Opening) /\ Silent(q) /\ MoreThan(row, q) /\ Returned(c, q)
      BY <2>1, <3>3 DEF NewsOf
    <3>5. Delivered(p, Opening) /\ Silent(p) /\ Returned(c, p)
      BY <1>3, <1>8, <3>4 DEF Returned
    <3>6. \A j \in DOMAIN p : Problem(p[j]) => j \in DOMAIN q /\ p[j] = q[j]
      BY <1>3 DEF Problem, Carries, Delivered
    <3>7. MoreThan(row, p)
      BY <3>4, <3>6 DEF MoreThan
    <3> QED BY <2>2, <3>5, <3>7 DEF NewsOf, row
  <2> QED BY <2>3, <2>4
<1>20. \A k \in DOMAIN s : s[k].status = "delivered" => Delivered(q, k)
  BY <1>8, <1>15 DEF Delivered
<1> QED BY <1>6, <1>15, <1>16, <1>18, <1>19, <1>20 DEF NewsHold

\* What the property asks of a step.
Tells ==
    \A c \in Channel : \A k \in DOMAIN outbox[c] :
        (Newly(c, k) /\ outbox[c][k].kind = "update" /\ outbox[c][k].alert) => MoreThan(outbox[c][k], outbox[c])

SameOffer(row, old) ==
    /\ row.kind = old.kind /\ row.rev = old.rev /\ row.alert = old.alert
    /\ row.sev = old.sev /\ row.extended = old.extended

\* A delivery leaves no other update in alert that it could make stale.
LEMMA OneRowNews ==
    ASSUME NEW E, NEW c, NEW q, RowsHold(q, E), NewsHold(c, q), NEW k \in DOMAIN q, NEW row,
           SameOffer(row, q[k]), Waiting(q[k]), Waiting(row) \/ row.status = "delivered"
    PROVE  NewsHold(c, [q EXCEPT ![k] = row])
<1> DEFINE p == [q EXCEPT ![k] = row]
<1>1. DOMAIN p = DOMAIN q /\ p[k] = row /\ \A j \in DOMAIN q : j # k => p[j] = q[j]
  BY DEF RowsHold
<1> HIDE DEF p
<1>2. KeysHold(p)
  BY <1>1 DEF NewsHold, KeysHold, SameOffer
<1>3. \A j \in DOMAIN q : WaitingUpdate(p[j]) => WaitingUpdate(q[j])
  BY <1>1 DEF WaitingUpdate, SameOffer
<1>4. \A i, j \in DOMAIN p : WaitingUpdate(p[i]) /\ WaitingUpdate(p[j]) => i = j
  BY <1>1, <1>3 DEF NewsHold
<1>5. ASSUME NEW j \in DOMAIN p, WaitingUpdate(p[j]), p[j].alert
      PROVE  NewsOf(c, p, p[j])
  <2>1. j \in DOMAIN q /\ WaitingUpdate(q[j]) /\ q[j].alert /\ SameOffer(p[j], q[j])
    BY <1>1, <1>3, <1>5 DEF SameOffer
  <2>2. NewsOf(c, q, q[j])
    BY <2>1 DEF NewsHold
  <2>3. \A i : Delivered(q, i) => Delivered(p, i)
    BY <1>1 DEF Delivered, Waiting
  <2>4. Silent(p)
    <3>1. q[k].kind # "firing"
      BY <2>2 DEF NewsOf, Silent
    <3> QED BY <1>1, <2>2, <3>1 DEF NewsOf, Silent, SameOffer
  <2>5. ASSUME NEW i \in DOMAIN p, Problem(p[i]) PROVE Problem(q[i]) /\ p[i] = q[i]
    <3>1. CASE i # k
      BY <1>1, <2>5, <3>1
    <3>2. CASE i = k
      <4>1. row.status = "delivered" /\ row.kind # "resolved"
        BY <1>1, <2>5, <3>2 DEF Problem
      <4>2. j # k
        BY <1>1, <1>5, <4>1 DEF WaitingUpdate, Waiting
      <4>3. q[k].kind # "update"
        BY <2>1, <4>2 DEF NewsHold, WaitingUpdate
      <4>4. q[k].kind # "firing"
        BY <2>2 DEF NewsOf, Silent
      <4>5. q[k].kind \in {"firing", "update", "resolved"}
        BY DEF RowsHold, RowHolds, Row
      <4> QED BY <4>1, <4>3, <4>4, <4>5 DEF SameOffer
    <3> QED BY <3>1, <3>2
  <2>6. MoreThan(p[j], p)
    BY <1>1, <2>1, <2>2, <2>5 DEF NewsOf, MoreThan, SameOffer
  <2>7. p[j].rev = incident.rev => Returned(c, p)
    BY <2>1, <2>2, <2>3 DEF NewsOf, Returned, SameOffer
  <2> QED BY <2>2, <2>3, <2>4, <2>6, <2>7 DEF NewsOf
<1> QED BY <1>2, <1>4, <1>5 DEF NewsHold, p

\* The incident as it was.
LEMMA SameNews ==
    ASSUME UNCHANGED incident, NEW c, NewsHold(c, outbox'[c])
    PROVE  NewsHold(c, outbox[c])'
<1>1. \A q : Returned(c, q) <=> Returned(c, q)'
  BY DEF Returned, Routes, Delivered
<1>2. \A q, row : NewsOf(c, q, row) => NewsOf(c, q, row)'
  BY <1>1 DEF NewsOf, Delivered, Silent, MoreThan, Problem, Waiting
<1> QED BY <1>2 DEF NewsHold, KeysHold, WaitingUpdate, Waiting

LEMMA RowStepNews ==
    ASSUME NEW E, OutboxHolds(E), \A c \in Channel : NewsHold(c, outbox[c]), UNCHANGED incident,
           NEW c \in Channel, NEW k \in DOMAIN outbox[c], NEW row, outbox' = [outbox EXCEPT ![c][k] = row],
           SameOffer(row, outbox[c][k]), Waiting(outbox[c][k]), Waiting(row) \/ row.status = "delivered"
    PROVE  (\A d \in Channel : NewsHold(d, outbox[d])') /\ Tells
<1>1. outbox = [d \in Channel |-> outbox[d]] /\ \A d \in Channel : RowsHold(outbox[d], E)
  BY DEF OutboxHolds
<1>2. outbox'[c] = [outbox[c] EXCEPT ![k] = row] /\ \A d \in Channel : d # c => outbox'[d] = outbox[d]
  BY <1>1
<1>3. NewsHold(c, outbox'[c])
  BY ZenonT(60), <1>1, <1>2, OneRowNews
<1>4. \A d \in Channel : NewsHold(d, outbox[d])'
  BY <1>2, <1>3, SameNews
<1>5. ASSUME NEW d \in Channel, NEW j \in DOMAIN outbox[d],
             Newly(d, j), outbox[d][j].kind = "update", outbox[d][j].alert
      PROVE  MoreThan(outbox[d][j], outbox[d])
  <2>1. outbox'[d][j] # outbox[d][j]
    BY <1>5 DEF Newly
  <2>2. d = c
    BY <1>2, <2>1
  <2>3. j = k
    <3> DEFINE q == outbox[c]
    <3>1. q = [i \in DOMAIN q |-> q[i]]
      BY <1>1 DEF RowsHold
    <3> QED BY <1>2, <2>1, <2>2, <3>1
  <2>4. NewsOf(c, outbox[c], outbox[c][k])
    BY <1>5, <2>2, <2>3 DEF NewsHold, WaitingUpdate
  <2> QED BY <2>2, <2>3, <2>4 DEF NewsOf
<1> QED BY <1>4, <1>5 DEF Tells

\* While the only dispatcher is with no row, no row is leased.
LEMMA NoneLeased ==
    ASSUME OneDispatcher, LeasesHold, NEW w \in Worker, worker[w].at \notin {"sending", "reporting"}
    PROVE  \A c \in Channel : \A k \in DOMAIN outbox[c] : ~outbox[c][k].held
BY DEF OneDispatcher, LeasesHold, Busy

LEMMA NothingTold ==
    ASSUME outbox' = outbox
    PROVE  Tells
BY DEF Tells, Newly

LEMMA EvolveNews ==
    ASSUME NEW E, OutboxHolds(E), Orderly, Evolve
    PROVE  Orderly' /\ Tells
<1>1. /\ UNCHANGED <<elapsed, outbox, worker, failures, crashes>>
      /\ incident.rev \in Nat /\ incident'.rev \in Nat
  <2>1. /\ incident' \in Incident /\ incident \in Incident
        /\ UNCHANGED <<elapsed, outbox, worker, failures, crashes>>
    BY EvolveMoves DEF OutboxHolds, IncidentHolds
  <2> QED BY <2>1, Types DEF Incident
\* A new revision, or a maintenance.
<1>2. \/ incident'.rev > incident.rev
      \/ /\ incident'.rev = incident.rev /\ incident'.acked = incident.acked
         /\ incident'.sev = incident.sev /\ incident'.resumptions = incident.resumptions
  <2>1. CASE Maintain
    BY <2>1 DEF Maintain, OutboxHolds, IncidentHolds, Incident
  <2>2. CASE ~Maintain
    <3>1. incident'.rev = incident.rev + 1
      <4>1. incident \in Incident
        BY DEF OutboxHolds, IncidentHolds
      <4> QED BY <2>2, <4>1 DEF Evolve, IncidentStep, Open, Revise, Acknowledge, Resolve, Resume, Revised, Incident
    <3> QED BY <1>1, <3>1
  <2> QED BY <2>1, <2>2
<1>3. ASSUME NEW c \in Channel PROVE NewsHold(c, outbox[c])'
  <2> DEFINE q == outbox[c]
  <2>1. NewsHold(c, q) /\ RowsHold(q, E) /\ q' = q
    BY <1>1 DEF Orderly, OutboxHolds
  <2>2. \A k \in DOMAIN q : q[k].rev \in Nat /\ q[k].rev <= incident.rev
    BY <2>1, Types DEF RowsHold, RowHolds, Row
  <2>3. ASSUME NEW k \in DOMAIN q, NewsOf(c, q, q[k])
        PROVE  Delivered(q, Opening) /\ Silent(q) /\ MoreThan(q[k], q) /\ (q[k].rev = incident'.rev => Returned(c, q)')
    <3>1. Delivered(q, Opening) /\ Silent(q) /\ MoreThan(q[k], q) /\ (q[k].rev = incident.rev => Returned(c, q))
      BY <2>3 DEF NewsOf
    <3>2. CASE incident'.rev > incident.rev
      BY <1>1, <2>2, <3>1, <3>2
    <3>3. CASE ~(incident'.rev > incident.rev)
      <4>1. Returned(c, q) => Returned(c, q)'
        BY <1>2, <2>1, <3>3 DEF Returned, Routes, Delivered
      <4> QED BY <1>2, <3>1, <3>3, <4>1
    <3> QED BY <3>2, <3>3
  <2>4. ASSUME NEW k \in DOMAIN q, NewsOf(c, q, q[k]) PROVE NewsOf(c, q, q[k])'
    BY <2>1, <2>3, <2>4 DEF NewsOf, Delivered, Silent, MoreThan, Problem, Waiting
  <2> QED BY <2>1, <2>4 DEF NewsHold, KeysHold, WaitingUpdate, Waiting
<1>4. LeasesHold' /\ \A w \in Worker : JobLeased(w)'
  BY <1>1 DEF Orderly, LeasesHold, JobLeased, Busy, Waiting
<1>5. Tells
  BY <1>1, NothingTold
<1> QED BY <1>3, <1>4, <1>5 DEF Orderly

\* What changes of the only worker and its row.
LEMMA WorkerNews ==
    ASSUME NEW E, OutboxHolds(E), OneDispatcher, NEW w \in Worker, NEW job, worker' = [worker EXCEPT ![w] = job],
           \A c \in Channel : NewsHold(c, outbox[c])', LeasesHold', JobLeased(w)'
    PROVE  Orderly'
BY DEF Orderly, OneDispatcher

LEMMA ScheduleNews ==
    ASSUME NEW E, OutboxHolds(E), Orderly, OneDispatcher, NEW w \in Worker, Schedule(w)
    PROVE  Orderly' /\ Tells
<1>1. /\ incident.status # "none" /\ outbox' = [c \in Channel |-> Scheduled(c)]
      /\ worker' = [worker EXCEPT ![w] = [at |-> "claiming"]] /\ worker[w].at = "idle"
      /\ UNCHANGED <<incident, elapsed, failures, crashes>>
  BY DEF Schedule
<1>2. \A c \in Channel : \A k \in DOMAIN outbox[c] : ~outbox[c][k].held
  BY <1>1, NoneLeased DEF Orderly
<1>3. ASSUME NEW c \in Channel
      PROVE  /\ NewsHold(c, outbox'[c]) /\ \A k \in DOMAIN outbox'[c] : ~outbox'[c][k].held
             /\ \A k \in DOMAIN outbox'[c] : outbox'[c][k].status = "delivered" => Delivered(outbox[c], k)
             /\ DOMAIN outbox[c] \subseteq DOMAIN outbox'[c]
  <2>1. IncidentHolds(E) /\ RowsHold(outbox[c], E) /\ NewsHold(c, outbox[c])
    BY DEF OutboxHolds, Orderly
  <2>2. outbox'[c] = Scheduled(c)
    BY <1>1
  <2>3. /\ NewsHold(c, Scheduled(c)) /\ \A k \in DOMAIN Scheduled(c) : ~Scheduled(c)[k].held
        /\ \A k \in DOMAIN Scheduled(c) : Scheduled(c)[k].status = "delivered" => Delivered(outbox[c], k)
    BY <1>1, <1>2, <2>1, ScheduledNews
  <2>4. DOMAIN outbox[c] \subseteq DOMAIN Scheduled(c)
    BY <1>1, <2>1, ScheduledKeeps DEF Keeps
  <2> QED BY <2>2, <2>3, <2>4
<1>4. \A c \in Channel : NewsHold(c, outbox[c])'
  BY <1>1, <1>3, SameNews
<1>5. LeasesHold'
  BY <1>3 DEF LeasesHold
<1>6. JobLeased(w)'
  BY <1>1 DEF OutboxHolds, JobLeased
<1>7. Orderly'
  BY <1>1, <1>4, <1>5, <1>6, WorkerNews
<1>8. Tells
  BY <1>3 DEF Tells, Newly, Delivered
<1> QED BY <1>7, <1>8

LEMMA ClaimNews ==
    ASSUME NEW E, OutboxHolds(E), Orderly, OneDispatcher, NEW w \in Worker,
           NEW c \in Channel, NEW k \in DOMAIN outbox[c], Claim(w, c, k)
    PROVE  Orderly' /\ Tells
<1> DEFINE row == [outbox[c][k] EXCEPT !.owner = w, !.held = TRUE]
           job == [at |-> "sending", channel |-> c, key |-> k, kind |-> outbox[c][k].kind,
                   rev |-> outbox[c][k].rev, alert |-> outbox[c][k].alert, ends |-> outbox[c][k].ends]
<1>1. /\ outbox' = [outbox EXCEPT ![c][k].owner = w, ![c][k].held = TRUE]
      /\ worker' = [worker EXCEPT ![w] = job] /\ worker[w].at = "claiming"
      /\ UNCHANGED <<incident, elapsed, failures, crashes>>
      /\ Waiting(outbox[c][k])
  BY DEF Claim, Claimable, Free
<1>2. /\ outbox = [d \in Channel |-> outbox[d]] /\ outbox[c] = [j \in DOMAIN outbox[c] |-> outbox[c][j]]
      /\ outbox[c][k] \in Row
  BY DEF OutboxHolds, RowsHold, RowHolds
<1>3. outbox' = [outbox EXCEPT ![c][k] = row]
  BY ZenonT(60), <1>1, <1>2
<1>4. SameOffer(row, outbox[c][k]) /\ Waiting(row) /\ row.owner = w /\ row.held
  BY <1>1, <1>2 DEF SameOffer, Row, Waiting
<1>5. \A d \in Channel : \A j \in DOMAIN outbox[d] : ~outbox[d][j].held
  BY <1>1, NoneLeased DEF Orderly
<1> HIDE DEF row
<1>6. (\A d \in Channel : NewsHold(d, outbox[d])') /\ Tells
  BY <1>1, <1>3, <1>4, RowStepNews DEF Orderly
<1>7. worker'[w] = job
  BY <1>1 DEF OutboxHolds
<1>8. /\ outbox'[c][k] = row /\ \A d \in Channel : DOMAIN outbox'[d] = DOMAIN outbox[d]
      /\ \A d \in Channel : \A j \in DOMAIN outbox[d] : d # c \/ j # k => outbox'[d][j] = outbox[d][j]
  BY <1>2, <1>3
<1>9. LeasesHold'
  <2>1. Busy(w, c, k)'
    BY <1>7 DEF Busy
  <2> QED BY <1>5, <1>8, <2>1 DEF LeasesHold
<1>10. JobLeased(w)'
  BY <1>4, <1>7, <1>8 DEF JobLeased, Waiting
<1> HIDE DEF job
<1> QED BY <1>1, <1>6, <1>9, <1>10, WorkerNews

\* The worker goes back to rest with no row, or ends a call and keeps its row.
LEMMA RestNews ==
    ASSUME NEW E, OutboxHolds(E), Orderly, OneDispatcher, NEW w \in Worker, worker[w].at = "claiming",
           worker' = [worker EXCEPT ![w] = Idle], UNCHANGED <<incident, outbox>>
    PROVE  Orderly' /\ Tells
<1>1. \A c \in Channel : NewsHold(c, outbox[c])'
  BY SameNews DEF Orderly
<1>2. \A c \in Channel : \A k \in DOMAIN outbox[c] : ~outbox[c][k].held
  BY NoneLeased DEF Orderly
<1>3. LeasesHold'
  BY <1>2 DEF LeasesHold
<1>4. JobLeased(w)'
  BY DEF OutboxHolds, JobLeased, Idle
<1> QED BY <1>1, <1>3, <1>4, WorkerNews, NothingTold

LEMMA SendNews ==
    ASSUME NEW E, OutboxHolds(E), Orderly, OneDispatcher, NEW w \in Worker, NEW ok, Ended(w, ok)
    PROVE  Orderly' /\ Tells
<1> DEFINE job == [at |-> "reporting", channel |-> worker[w].channel, key |-> worker[w].key, ok |-> ok]
<1>1. /\ worker[w].at = "sending" /\ worker' = [worker EXCEPT ![w] = job]
      /\ UNCHANGED <<incident, elapsed, outbox, crashes>>
  BY DEF Ended
<1>2. worker'[w] = job
  BY <1>1 DEF OutboxHolds
<1>3. \A c \in Channel : NewsHold(c, outbox[c])'
  BY <1>1, SameNews DEF Orderly
<1>4. LeasesHold'
  <2>1. ASSUME NEW c \in Channel, NEW k \in DOMAIN outbox[c], outbox[c][k].held PROVE Busy(w, c, k)'
    <3>1. Busy(w, c, k)
      BY <2>1 DEF Orderly, LeasesHold, OneDispatcher
    <3> QED BY <1>2, <3>1 DEF Busy
  <2> QED BY <1>1, <2>1 DEF LeasesHold
<1>5. JobLeased(w)'
  BY <1>1, <1>2 DEF Orderly, JobLeased, Waiting
<1> HIDE DEF job
<1> QED BY <1>1, <1>3, <1>4, <1>5, WorkerNews, NothingTold

LEMMA SettleNews ==
    ASSUME NEW E, OutboxHolds(E), Orderly, OneDispatcher, NEW w \in Worker, Settle(w)
    PROVE  Owns(w) /\ Orderly' /\ Tells
<1> DEFINE c == worker[w].channel
           k == worker[w].key
           q == outbox[c]
           settled == IF worker[w].ok THEN Complete(q, k) ELSE Fail(q, k)
           row == [settled EXCEPT !.owner = Nobody, !.held = FALSE]
<1>1. /\ worker[w].at = "reporting" /\ c \in Channel /\ k \in DOMAIN q
  BY DEF OutboxHolds, JobHolds, Settle
<1>2. q[k].owner = w /\ Waiting(q[k])
  BY <1>1 DEF Orderly, JobLeased
<1>3. Owns(w)
  BY <1>1, <1>2 DEF Owns
<1>4. /\ outbox' = [outbox EXCEPT ![c][k] = row]
      /\ worker' = [worker EXCEPT ![w] = [at |-> "claiming"]]
      /\ UNCHANGED <<incident, elapsed, failures, crashes>>
  BY <1>3 DEF Settle, Report
<1>5. q[k] \in Row
  BY <1>1 DEF OutboxHolds, RowsHold, RowHolds
<1>6. SameOffer(row, q[k]) /\ (Waiting(row) \/ row.status = "delivered") /\ ~row.held
  <2> HIDE DEF c, k, q
  <2>1. CASE worker[w].ok
    <3>1. settled = [q[k] EXCEPT !.status = "delivered", !.order = NextOrder(q)]
      BY <2>1 DEF Complete
    <3> QED BY <1>5, <3>1 DEF Row, SameOffer
  <2>2. CASE ~worker[w].ok
    <3>1. settled = [q[k] EXCEPT !.status = "failed", !.tried = TRUE, !.wait = Backoff]
      BY <2>2 DEF Fail
    <3> QED BY <1>5, <3>1 DEF Row, SameOffer, Waiting
  <2> QED BY <2>1, <2>2
<1> HIDE DEF row
<1>7. (\A d \in Channel : NewsHold(d, outbox[d])') /\ Tells
  BY <1>1, <1>2, <1>4, <1>6, RowStepNews DEF Orderly
<1>8. /\ outbox'[c][k] = row /\ \A d \in Channel : DOMAIN outbox'[d] = DOMAIN outbox[d]
      /\ \A d \in Channel : \A j \in DOMAIN outbox[d] : d # c \/ j # k => outbox'[d][j] = outbox[d][j]
  <2>1. /\ outbox = [d \in Channel |-> outbox[d]]
        /\ \A d \in Channel : outbox[d] = [j \in DOMAIN outbox[d] |-> outbox[d][j]]
    BY DEF OutboxHolds, RowsHold
  <2> HIDE DEF c, k
  <2> QED BY <1>1, <1>4, <2>1
<1>9. \A d \in Channel : \A j \in DOMAIN outbox[d] : outbox[d][j].held => d = c /\ j = k
  BY DEF Orderly, LeasesHold, OneDispatcher, Busy
<1>10. LeasesHold'
  BY <1>6, <1>8, <1>9 DEF LeasesHold
<1>11. JobLeased(w)'
  BY <1>4 DEF OutboxHolds, JobLeased
<1> QED BY <1>3, <1>4, <1>7, <1>10, <1>11, WorkerNews

LEMMA TimeNews ==
    ASSUME NEW E, OutboxHolds(E), Orderly, OneDispatcher, Time
    PROVE  Orderly' /\ Tells
<1>1. CASE WindowElapses
  <2>1. UNCHANGED <<incident, outbox, worker>>
    BY <1>1 DEF WindowElapses
  <2>2. \A c \in Channel : NewsHold(c, outbox[c])'
    BY <2>1, SameNews DEF Orderly
  <2>3. LeasesHold' /\ \A w \in Worker : JobLeased(w)'
    BY <2>1 DEF Orderly, LeasesHold, JobLeased, Busy, Waiting
  <2> QED BY <2>1, <2>2, <2>3, NothingTold DEF Orderly
<1>2. ASSUME NEW c \in Channel, NEW k \in DOMAIN outbox[c], NEW row, outbox' = [outbox EXCEPT ![c][k] = row],
             UNCHANGED <<incident, elapsed, worker, failures, crashes>>, Waiting(outbox[c][k]),
             SameOffer(row, outbox[c][k]), Waiting(row), row.owner = outbox[c][k].owner,
             row.held => outbox[c][k].held
      PROVE  Orderly' /\ Tells
  <2>1. /\ outbox = [d \in Channel |-> outbox[d]]
        /\ \A d \in Channel : outbox[d] = [j \in DOMAIN outbox[d] |-> outbox[d][j]]
    BY DEF OutboxHolds, RowsHold
  <2>2. (\A d \in Channel : NewsHold(d, outbox[d])') /\ Tells
    BY <1>2, RowStepNews DEF Orderly
  <2>3. /\ outbox'[c][k] = row /\ \A d \in Channel : DOMAIN outbox'[d] = DOMAIN outbox[d]
        /\ \A d \in Channel : \A j \in DOMAIN outbox[d] : d # c \/ j # k => outbox'[d][j] = outbox[d][j]
    BY <1>2, <2>1
  <2>4. \A d \in Channel : \A j \in DOMAIN outbox[d] :
            /\ outbox'[d][j].held => outbox[d][j].held
            /\ outbox'[d][j].owner = outbox[d][j].owner
            /\ Waiting(outbox[d][j]) => Waiting(outbox'[d][j])
    BY <1>2, <2>3
  <2>5. LeasesHold'
    BY <1>2, <2>3, <2>4 DEF Orderly, LeasesHold, Busy
  <2>6. ASSUME NEW w \in Worker PROVE JobLeased(w)'
    <3>1. worker[w].at \in {"sending", "reporting"} =>
             worker[w].channel \in Channel /\ worker[w].key \in DOMAIN outbox[worker[w].channel]
      BY DEF OutboxHolds, JobHolds
    <3>2. JobLeased(w)
      BY DEF Orderly
    <3> QED BY <1>2, <2>4, <3>1, <3>2 DEF JobLeased, Waiting
  <2> QED BY <2>2, <2>5, <2>6 DEF Orderly
<1>3. ASSUME NEW c \in Channel, NEW k \in DOMAIN outbox[c], BackoffEnds(c, k) \/ LeaseExpires(c, k)
      PROVE  Orderly' /\ Tells
  <2> DEFINE rested == [outbox[c][k] EXCEPT !.wait = 0]
             lapsed == [outbox[c][k] EXCEPT !.held = FALSE]
  <2>1. /\ outbox = [d \in Channel |-> outbox[d]] /\ outbox[c][k] \in Row
        /\ outbox[c][k].held => Waiting(outbox[c][k])
    BY DEF OutboxHolds, RowsHold, RowHolds
  <2>2. Waiting(outbox[c][k]) /\ UNCHANGED <<incident, elapsed, worker, failures, crashes>>
    BY <1>3, <2>1 DEF BackoffEnds, LeaseExpires
  <2>3. outbox' = [outbox EXCEPT ![c][k] = rested] \/ outbox' = [outbox EXCEPT ![c][k] = lapsed]
    BY <1>3, <2>1 DEF BackoffEnds, LeaseExpires
  <2>4. /\ SameOffer(rested, outbox[c][k]) /\ Waiting(rested)
        /\ rested.owner = outbox[c][k].owner /\ rested.held = outbox[c][k].held
    BY <2>1, <2>2 DEF SameOffer, Waiting, Row
  <2>5. /\ SameOffer(lapsed, outbox[c][k]) /\ Waiting(lapsed)
        /\ lapsed.owner = outbox[c][k].owner /\ ~lapsed.held
    BY <2>1, <2>2 DEF SameOffer, Waiting, Row
  <2> HIDE DEF rested, lapsed
  <2> QED BY <1>2, <2>2, <2>3, <2>4, <2>5
<1> QED BY <1>1, <1>3 DEF Time

\* The types, for any number of workers.
LEMMA OutboxStep ==
    ASSUME NEW E \in SUBSET (1..MaxRevision), OutboxHolds(E), [Next]_vars
    PROVE  \E F \in SUBSET (1..MaxRevision) : OutboxHolds(F)'
<1>1. CASE UNCHANGED vars
  <2>1. UNCHANGED <<incident, elapsed, outbox, worker, failures, crashes>>
    BY <1>1 DEF vars
  <2>2. \A w \in Worker : JobHolds(w, E)'
    BY <2>1 DEF OutboxHolds, JobHolds
  <2>3. OutboxHolds(E)'
    BY <2>1, <2>2, SameOutbox DEF OutboxHolds
  <2> QED BY <2>3
<1>2. CASE Evolve
  BY <1>2, EvolveKeeps
<1>3. CASE Time
  BY <1>3, TimeKeeps
<1>4. ASSUME NEW w \in Worker, Schedule(w) PROVE OutboxHolds(E)'
  BY <1>4, ScheduleKeeps
<1>5. ASSUME NEW w \in Worker, NEW c \in Channel, NEW k \in DOMAIN outbox[c], Claim(w, c, k)
      PROVE  OutboxHolds(E)'
  BY <1>5, ClaimKeeps
<1>6. ASSUME NEW w \in Worker, Rest(w) \/ (Settle(w) /\ ~Owns(w)) \/ Crash(w)
      PROVE  OutboxHolds(E)'
  <2>1. /\ worker' = [worker EXCEPT ![w] = Idle] /\ UNCHANGED <<incident, elapsed, outbox, failures>>
        /\ UNCHANGED crashes \/ (crashes < MaxCrash /\ crashes' = crashes + 1)
    BY <1>6 DEF Rest, Settle, LoseLease, Crash
  <2>2. crashes' \in 0..MaxCrash
    BY <2>1, Types DEF OutboxHolds
  <2> QED BY <2>1, <2>2, RestKeeps
<1>7. ASSUME NEW w \in Worker, Send(w) PROVE OutboxHolds(E)'
  <2>1. PICK ok \in BOOLEAN : Ended(w, ok) /\ (UNCHANGED failures \/ (failures < MaxFailure /\ failures' = failures + 1))
    BY <1>7 DEF Send, Called
  <2>2. failures' \in 0..MaxFailure
    BY <2>1, Types DEF OutboxHolds
  <2> QED BY <2>1, <2>2, EndedKeeps
<1>8. ASSUME NEW w \in Worker, Settle(w), Owns(w) PROVE OutboxHolds(E)'
  BY <1>8, SettleKeeps
<1>9. ASSUME NEW w \in Worker, Queue(w) \/ Send(w) \/ Settle(w) \/ Crash(w) PROVE OutboxHolds(E)'
  BY <1>4, <1>5, <1>6, <1>7, <1>8, <1>9 DEF Queue
<1> QED BY <1>1, <1>2, <1>3, <1>9 DEF Next

LEMMA NewsStep ==
    ASSUME OneDispatcher, NewsInv, [Next]_vars
    PROVE  NewsInv' /\ (crashes = 0 => Tells)
<1>1. PICK E \in SUBSET (1..MaxRevision) : OutboxHolds(E)
  BY DEF NewsInv
<1>2. \E F \in SUBSET (1..MaxRevision) : OutboxHolds(F)'
  BY <1>1, OutboxStep
<1>3. crashes \in Nat /\ (crashes = 0 => Orderly)
  BY <1>1, Types DEF NewsInv, OutboxHolds
<1>4. CASE UNCHANGED vars
  <2>1. UNCHANGED <<incident, outbox, worker, crashes>>
    BY <1>4 DEF vars
  <2>2. ASSUME Orderly PROVE Orderly'
    <3>1. \A c \in Channel : NewsHold(c, outbox[c])'
      BY <2>1, <2>2, SameNews DEF Orderly
    <3>2. LeasesHold' /\ \A w \in Worker : JobLeased(w)'
      BY <2>1, <2>2 DEF Orderly, LeasesHold, JobLeased, Busy, Waiting
    <3> QED BY <3>1, <3>2 DEF Orderly
  <2> QED BY <1>2, <1>3, <2>1, <2>2, NothingTold DEF NewsInv
<1>5. ASSUME NEW w \in Worker, Crash(w) PROVE crashes' # 0 /\ Tells
  BY <1>3, <1>5, NothingTold DEF Crash
<1>6. ASSUME Orderly, Next, ~\E w \in Worker : Crash(w)
      PROVE  Orderly' /\ Tells
  <2>1. CASE Evolve
    BY <1>1, <1>6, <2>1, EvolveNews
  <2>2. CASE Time
    BY <1>1, <1>6, <2>2, TimeNews
  <2>3. ASSUME NEW w \in Worker, Queue(w) \/ Send(w) \/ Settle(w) PROVE Orderly' /\ Tells
    <3>1. CASE Schedule(w)
      BY <1>1, <1>6, <3>1, ScheduleNews
    <3>2. CASE Rest(w)
      BY <1>1, <1>6, <3>2, RestNews DEF Rest
    <3>3. ASSUME NEW c \in Channel, NEW k \in DOMAIN outbox[c], Claim(w, c, k) PROVE Orderly' /\ Tells
      BY <1>1, <1>6, <3>3, ClaimNews
    <3>4. CASE Send(w)
      BY <1>1, <1>6, <3>4, SendNews DEF Send, Called
    <3>5. CASE Settle(w)
      BY <1>1, <1>6, <3>5, SettleNews
    <3> QED BY <2>3, <3>1, <3>2, <3>3, <3>4, <3>5 DEF Queue
  <2> QED BY <1>6, <2>1, <2>2, <2>3 DEF Next
<1>7. CASE Next /\ ~\E w \in Worker : Crash(w)
  <2>1. crashes' = 0 => crashes = 0
    BY <1>3, <1>7 DEF Next, Evolve, IncidentStep, Maintain, Time, WindowElapses, BackoffEnds, LeaseExpires,
                      Queue, Schedule, Rest, Claim, Send, Called, Ended, Settle
  <2> QED BY <1>2, <1>3, <1>6, <1>7, <2>1 DEF NewsInv
<1>8. CASE \E w \in Worker : Crash(w)
  BY <1>2, <1>5, <1>8 DEF NewsInv
<1> QED BY <1>4, <1>7, <1>8

LEMMA NewsInitially ==
    ASSUME Init
    PROVE  NewsInv
<1>1. OutboxHolds({})
  BY Types DEF Init, OutboxHolds, IncidentHolds, Incident, RowsHold, JobHolds, Idle
<1>2. \A c \in Channel : outbox[c] = << >>
  BY DEF Init
<1>3. \A c \in Channel : NewsHold(c, outbox[c])
  BY <1>2 DEF NewsHold, KeysHold
<1>4. LeasesHold /\ \A w \in Worker : JobLeased(w)
  BY <1>2 DEF Init, LeasesHold, JobLeased, Idle
<1> QED BY <1>1, <1>3, <1>4 DEF NewsInv, Orderly

\* With one dispatcher, and as long as it does not die, an update recorded as
\* delivered in alert tells more than every alert of a problem delivered before,
\* whatever fails, is cancelled, resumes, is covered by maintenances or outlasts
\* its lease (notifications.Store.Schedule, interrupts).
THEOREM AlertsTellNews ==
    ASSUME OneDispatcher
    PROVE  Spec => AlertsAreNews
<1> DEFINE Said ==
        \A c \in Channel : \A k \in DOMAIN outbox[c] :
          (crashes = 0 /\ Newly(c, k) /\ outbox[c][k].kind = "update" /\ outbox[c][k].alert)
          => LET alerts == {r \in DeliveredAlerts(outbox[c]) : r.kind # "resolved"} IN
             \/ \A r \in alerts : outbox[c][k].sev > r.sev
             \/ outbox[c][k].extended /\ \A r \in alerts : ~r.extended
<1>1. Init => NewsInv
  BY NewsInitially
<1>2. NewsInv /\ [Next]_vars => NewsInv'
  BY NewsStep
<1>3. NewsInv /\ [Next]_vars => [Said]_vars
  <2> SUFFICES ASSUME NewsInv, [Next]_vars PROVE Said
    OBVIOUS
  <2>1. crashes = 0 => Tells
    BY NewsStep
  <2>2. ASSUME NEW c \in Channel, NEW k \in DOMAIN outbox[c], MoreThan(outbox[c][k], outbox[c])
        PROVE  LET alerts == {r \in DeliveredAlerts(outbox[c]) : r.kind # "resolved"} IN
               \/ \A r \in alerts : outbox[c][k].sev > r.sev
               \/ outbox[c][k].extended /\ \A r \in alerts : ~r.extended
    BY <2>2 DEF MoreThan, Problem, DeliveredAlerts
  <2> QED BY <2>1, <2>2 DEF Tells
<1>4. AlertsAreNews <=> [][Said]_vars
  BY DEF AlertsAreNews
<1> HIDE DEF Said
<1> QED BY <1>1, <1>2, <1>3, <1>4, PTL DEF Spec

=============================================================================
