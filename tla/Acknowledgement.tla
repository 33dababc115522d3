-------------------------- MODULE Acknowledgement --------------------------
(***************************************************************************)
(* The acknowledgement of incidents and its propagation to Zabbix          *)
(* (internal/incidents: store.go, cycle.go, runtime.go, incidents.go).     *)
(*                                                                         *)
(* An acknowledgement is a local transaction, then one remote call per     *)
(* event, then a transaction that records the results; an operator's       *)
(* request and the incident runtime may both be in the middle of one, and  *)
(* either may die there.  Meanwhile snapshots, read from Zabbix some time  *)
(* before they are applied, refresh the same rows.  Each transaction locks *)
(* the incident, so each is one action.  How incidents resolve is the      *)
(* subject of EvidenceCycle: here an incident without active evidence may  *)
(* resolve at any time.                                                    *)
(***************************************************************************)
EXTENDS Integers, Sequences, FiniteSets

CONSTANTS
    Event,          \* Zabbix events, numbered as Zabbix does
    Incident,
    Connector,      \* Zabbix connectors
    IncidentOf,     \* Event -> Incident
    ConnectorOf,    \* Event -> Connector
    Reachable,      \* connectors whose endpoint eventually answers
    Batch,          \* incidents the runtime takes at once: 20
    MaxRows,        \* bound: evidence rows per event
    MaxCrashes      \* bound: requests cancelled and workers restarted

ASSUME AckConstants ==
    /\ Event \subseteq Nat /\ IsFiniteSet(Incident) /\ Incident # {}
    /\ IncidentOf \in [Event -> Incident]
    /\ ConnectorOf \in [Event -> Connector]
    /\ Reachable \subseteq Connector
    /\ Batch \in Nat \ {0} /\ MaxRows \in Nat /\ MaxCrashes \in Nat

VARIABLES
    present,    \* events Zabbix reports as problems
    upstream,   \* events acknowledged in Zabbix
    snap,       \* Connector -> the problems read and not applied yet
    row,        \* Event -> its latest evidence row
    inc,        \* Incident -> its acknowledgement columns
    order,      \* <<i, j>>: i was updated before j
    cooled,     \* events whose row failed at least 30 seconds ago
    call,       \* the acknowledgements in progress
    queue,      \* the rest of the runtime's batch
    crashes

vars == <<present, upstream, snap, row, inc, order, cooled, call, queue, crashes>>

Caller == {"operator", "runtime"}

SyncStatus == {"not_applicable", "pending", "failed", "synchronized"}

\* gen distinguishes the rows an event has had; 0 is none yet.
Row == [active : BOOLEAN, upAck : BOOLEAN, sync : SyncStatus, gen : 0..MaxRows]

IncidentState == [status : {"active", "resolved"}, acked : BOOLEAN, sync : SyncStatus]

NoSnap == [read |-> FALSE, events |-> {}, acked |-> {}]

NoCall == [busy |-> FALSE, incident |-> CHOOSE i \in Incident : TRUE,
           todo |-> {}, done |-> {}]

Init ==
    /\ present = {} /\ upstream = {} /\ cooled = {} /\ crashes = 0
    /\ snap = [c \in Connector |-> NoSnap]
    /\ row = [e \in Event |->
                 [active |-> FALSE, upAck |-> FALSE, sync |-> "not_applicable", gen |-> 0]]
    /\ inc = [i \in Incident |->
                 [status |-> "resolved", acked |-> FALSE, sync |-> "not_applicable"]]
    /\ \E rank \in [Incident -> 1..Cardinality(Incident)] :
          /\ \A i, j \in Incident : i # j => rank[i] # rank[j]
          /\ order = {p \in Incident \X Incident : rank[p[1]] < rank[p[2]]}
    /\ call = [c \in Caller |-> NoCall] /\ queue = <<>>

----------------------------------------------------------------------------
(* Derived columns *)

ActiveRows(rows, i) == {e \in Event : IncidentOf[e] = i /\ rows[e].active}

\* recomputeAcknowledgement.
DerivedSync(rows, i) ==
    LET has(s) == \E e \in ActiveRows(rows, i) : rows[e].sync = s IN
    IF ActiveRows(rows, i) = {} THEN "not_applicable"
    ELSE IF has("failed") THEN "failed"
    ELSE IF has("pending") THEN "pending" ELSE "synchronized"

Recomputed(state, rows, i) ==
    IF state.acked THEN [state EXCEPT !.sync = DerivedSync(rows, i)] ELSE state

\* A written incident moves to the end of ORDER BY updated_at.
Written(ids) ==
    order' = {p \in Incident \X Incident :
                 IF p[1] \in ids <=> p[2] \in ids THEN p \in order ELSE p[2] \in ids}

\* Rows whose updated_at changed wait again before a retry.
Touch(rows) == cooled' = cooled \ rows

----------------------------------------------------------------------------
(* Zabbix and its snapshots *)

\* External: problems start, end or leave the read and come back with the same
\* event, and people acknowledge them there.
ProblemStarts(e) ==
    /\ e \notin present
    /\ present' = present \cup {e}
    /\ UNCHANGED <<upstream, snap, row, inc, order, cooled, call, queue, crashes>>

ProblemEnds(e) ==
    /\ e \in present
    /\ present' = present \ {e}
    /\ UNCHANGED <<upstream, snap, row, inc, order, cooled, call, queue, crashes>>

AcknowledgedUpstream(e) ==
    /\ e \in present \ upstream
    /\ upstream' = upstream \cup {e}
    /\ UNCHANGED <<present, snap, row, inc, order, cooled, call, queue, crashes>>

ReadProblems(c) ==
    LET seen == {e \in present : ConnectorOf[e] = c} IN
    /\ ~snap[c].read
    /\ snap' = [snap EXCEPT ![c] =
                   [read |-> TRUE, events |-> seen, acked |-> seen \cap upstream]]
    /\ UNCHANGED <<present, upstream, row, inc, order, cooled, call, queue, crashes>>

\* Mutant: a row inserted in an acknowledged incident is not queued.
ReportedRowUnqueued(e, acked, c) ==
    [active |-> TRUE, upAck |-> e \in snap[c].acked,
     sync |-> IF e \in snap[c].acked THEN "synchronized"
              ELSE IF row[e].active THEN (IF acked THEN "pending" ELSE row[e].sync)
              ELSE "not_applicable",
     gen |-> IF row[e].active THEN row[e].gen ELSE row[e].gen + 1]

\* The row of a reported event: refreshed, or inserted.  acked is the state of
\* the incident once every fact is applied: an acknowledged fact acknowledges
\* the incident and queues its other rows (acknowledgeFromEvidence), and a row
\* that joins an acknowledged incident is queued too.
ReportedRow(e, acked, c) ==
    [active |-> TRUE,
     upAck |-> e \in snap[c].acked,
     sync |-> IF e \in snap[c].acked THEN "synchronized"
              ELSE IF acked THEN "pending"
              ELSE IF row[e].active THEN row[e].sync ELSE "not_applicable",
     gen |-> IF row[e].active THEN row[e].gen ELSE row[e].gen + 1]

\* A row of another connector when the incident becomes acknowledged.
InheritedRow(e) ==
    [row[e] EXCEPT !.sync = IF row[e].upAck THEN "synchronized" ELSE "pending"]

AckedAfter(c, i) ==
    inc[i].acked \/ \E e \in snap[c].acked : IncidentOf[e] = i

SnapshotRows(c) ==
    [e \in Event |->
        IF e \in snap[c].events THEN ReportedRow(e, AckedAfter(c, IncidentOf[e]), c)
        ELSE IF ConnectorOf[e] = c THEN [row[e] EXCEPT !.active = FALSE]
        ELSE IF row[e].active /\ ~inc[IncidentOf[e]].acked /\ AckedAfter(c, IncidentOf[e])
        THEN InheritedRow(e) ELSE row[e]]

\* The evidence snapshot of connector c: rows are refreshed, inserted and
\* resolved, then recomputeIncident ends with recomputeAcknowledgement.  Each
\* row is an impact of its own, so one that comes or goes changes the counts.  A
\* resolved incident that is resumed keeps its acknowledgement.
ApplySnapshot(c) ==
    LET rows == SnapshotRows(c)
        moved == {IncidentOf[e] : e \in {e \in Event : rows[e].active # row[e].active}}
        after(i) == Recomputed([inc[i] EXCEPT !.acked = AckedAfter(c, i),
                                   !.status = IF ActiveRows(rows, i) # {} THEN "active"
                                              ELSE @], rows, i)
    IN
    /\ snap[c].read
    /\ \A e \in snap[c].events : row[e].active \/ row[e].gen < MaxRows
    /\ row' = rows
    /\ inc' = [i \in Incident |-> after(i)]
    /\ Written({i \in Incident : after(i) # inc[i]} \cup moved)
    /\ Touch({e \in Event : ConnectorOf[e] = c \/ rows[e] # row[e]})
    /\ snap' = [snap EXCEPT ![c] = NoSnap]
    /\ UNCHANGED <<present, upstream, call, queue, crashes>>

\* The row leaves by an invalidation, an archived target or a removed owner.
RetireRow(e) ==
    LET rows == [row EXCEPT ![e].active = FALSE]
        i == IncidentOf[e] IN
    /\ row[e].active
    /\ row' = rows
    /\ inc' = [inc EXCEPT ![i] = Recomputed(@, rows, i)]
    /\ Written({i})
    /\ Touch({e})
    /\ UNCHANGED <<present, upstream, snap, call, queue, crashes>>

\* No active evidence and the propagation closed.
ResolveIncident(i) ==
    /\ inc[i].status = "active" /\ ActiveRows(row, i) = {}
    /\ inc' = [inc EXCEPT ![i].status = "resolved"]
    /\ Written({i})
    /\ UNCHANGED <<present, upstream, snap, row, cooled, call, queue, crashes>>

----------------------------------------------------------------------------
(* Service.Acknowledge *)

AcknowledgedRow(r) == [r EXCEPT !.sync = IF r.upAck THEN "synchronized" ELSE "pending"]

\* AcknowledgeLocal: the rows are queued the first time only; the plan is made
\* of those pending or failed.
AcknowledgeLocal(c, i) ==
    LET fresh == ~inc[i].acked
        mine == ActiveRows(row, i)
        rows == [e \in Event |-> IF fresh /\ e \in mine THEN AcknowledgedRow(row[e])
                                 ELSE row[e]]
        plan == {e \in mine : rows[e].sync \in {"pending", "failed"}}
    IN
    /\ inc[i].status = "active"
    /\ row' = rows
    /\ IF fresh
       THEN /\ inc' = [inc EXCEPT ![i].acked = TRUE,
                          ![i].sync = IF mine = {} THEN "not_applicable" ELSE "pending"]
            /\ Written({i}) /\ Touch(mine)
       ELSE UNCHANGED <<inc, order, cooled>>
    /\ call' = [call EXCEPT ![c] =
                   IF plan = {} THEN NoCall
                   ELSE [busy |-> TRUE, incident |-> i,
                         todo |-> {<<e, row[e].gen>> : e \in plan}, done |-> {}]]
    /\ UNCHANGED <<present, upstream, snap, crashes>>

OperatorAcknowledges(i) ==
    /\ ~call["operator"].busy
    /\ AcknowledgeLocal("operator", i)
    /\ UNCHANGED queue

\* Mutant: a failed synchronisation is never taken again.
PendingOnly(i) ==
    /\ inc[i].status = "active" /\ inc[i].acked
    /\ \E e \in ActiveRows(row, i) : row[e].sync = "pending"

\* Runtime.Process: acknowledged incidents with a row to synchronize.
Pending(i) ==
    /\ inc[i].status = "active" /\ inc[i].acked
    /\ \E e \in ActiveRows(row, i) :
          \/ row[e].sync = "pending"
          \/ row[e].sync = "failed" /\ e \in cooled

\* They are taken by updated_at: before each come those before it in the batch.
RuntimeSelects ==
    LET items == {i \in Incident : Pending(i)}
        count == Cardinality(items) IN
    /\ ~call["runtime"].busy /\ queue = <<>> /\ items # {}
    /\ queue' \in {q \in [1..(IF count < Batch THEN count ELSE Batch) -> items] :
                      \A k \in DOMAIN q, i \in items :
                         <<i, q[k]>> \in order <=> \E l \in 1..(k-1) : q[l] = i}
    /\ UNCHANGED <<present, upstream, snap, row, inc, order, cooled, call, crashes>>

\* A resolved incident is refused with ErrConflict and skipped.
RuntimeAcknowledges ==
    /\ ~call["runtime"].busy /\ queue # <<>>
    /\ queue' = Tail(queue)
    /\ \/ AcknowledgeLocal("runtime", Head(queue))
       \/ /\ inc[Head(queue)].status = "resolved"
          /\ UNCHANGED <<present, upstream, snap, row, inc, order, cooled, call, crashes>>

\* Events are called in their order.
Called(c, t, ok) ==
    /\ t \in call[c].todo
    /\ \A u \in call[c].todo : t[1] <= u[1]
    /\ call' = [call EXCEPT ![c].todo = @ \ {t},
                           ![c].done = @ \cup {<<t[1], t[2], ok>>}]

\* The remote call.  It may fail, or take effect and its answer be lost.
CallSucceeds(c, t) ==
    /\ upstream' = upstream \cup {t[1]}
    /\ Called(c, t, TRUE)
    /\ UNCHANGED <<present, snap, row, inc, order, cooled, queue, crashes>>

CallFails(c, t) ==
    /\ \/ UNCHANGED upstream
       \/ ConnectorOf[t[1]] \in Reachable /\ upstream' = upstream \cup {t[1]}
    /\ Called(c, t, FALSE)
    /\ UNCHANGED <<present, snap, row, inc, order, cooled, queue, crashes>>

\* Only rows that are still active take a result.
Results(e, c) == {d \in call[c].done : row[e].active /\ d[1] = e /\ d[2] = row[e].gen}

\* Mutant: the error of a result is dropped.
CompletedAnyway(e, c) ==
    IF Results(e, c) = {} THEN row[e]
    ELSE [row[e] EXCEPT !.sync = "synchronized", !.upAck = TRUE]

Completed(e, c) ==
    IF Results(e, c) = {} THEN row[e]
    ELSE IF \E d \in Results(e, c) : d[3]
    THEN [row[e] EXCEPT !.sync = "synchronized", !.upAck = TRUE]
    ELSE [row[e] EXCEPT !.sync = "failed"]

CompleteAcknowledgement(c) ==
    LET i == call[c].incident
        rows == [e \in Event |-> Completed(e, c)]
        after == Recomputed(inc[i], rows, i)
    IN
    /\ call[c].busy /\ call[c].todo = {}
    /\ row' = rows
    /\ inc' = [inc EXCEPT ![i] = after]
    /\ Written(IF after = inc[i] THEN {} ELSE {i})
    /\ Touch({e \in Event : Results(e, c) # {}})
    /\ call' = [call EXCEPT ![c] = NoCall]
    /\ UNCHANGED <<present, upstream, snap, queue, crashes>>

\* Thirty seconds pass after a failure: during the calls of a batch, or while
\* the runtime has nothing to do (its passes are two seconds apart).
Cool(e) ==
    /\ row[e].active /\ row[e].sync = "failed" /\ e \notin cooled
    /\ call["runtime"].busy \/ \A i \in Incident : ~Pending(i)
    /\ cooled' = cooled \cup {e}
    /\ UNCHANGED <<present, upstream, snap, row, inc, order, call, queue, crashes>>

\* A cancelled request, or a restarted worker, forgets what it was doing.
Crash(c) ==
    /\ crashes < MaxCrashes /\ call[c].busy
    /\ crashes' = crashes + 1
    /\ call' = [call EXCEPT ![c] = NoCall]
    /\ queue' = IF c = "runtime" THEN <<>> ELSE queue
    /\ UNCHANGED <<present, upstream, snap, row, inc, order, cooled>>

Upstream ==
    \E e \in Event : ProblemStarts(e) \/ ProblemEnds(e) \/ AcknowledgedUpstream(e)

CallStep(c) ==
    \/ \E t \in call[c].todo :
          \/ ConnectorOf[t[1]] \in Reachable /\ CallSucceeds(c, t)
          \/ CallFails(c, t)
    \/ CompleteAcknowledgement(c)

Next ==
    \/ Upstream
    \/ \E c \in Connector : ReadProblems(c) \/ ApplySnapshot(c)
    \/ \E e \in Event : RetireRow(e) \/ Cool(e)
    \/ \E i \in Incident : ResolveIncident(i) \/ OperatorAcknowledges(i)
    \/ RuntimeSelects \/ RuntimeAcknowledges
    \/ \E c \in Caller : CallStep(c) \/ Crash(c)

Spec == Init /\ [][Next]_vars

\* The runtime's loop and the requests always continue; the endpoint of a
\* reachable connector cannot refuse every call for ever.
Fairness ==
    /\ WF_vars(RuntimeSelects) /\ WF_vars(RuntimeAcknowledges)
    /\ \A c \in Caller : WF_vars(CallStep(c))
    /\ \A e \in Event : WF_vars(Cool(e))
    /\ \A e \in Event : ConnectorOf[e] \in Reachable =>
          SF_vars(\E c \in Caller, g \in 0..MaxRows : CallSucceeds(c, <<e, g>>))

FairSpec == Spec /\ Fairness

----------------------------------------------------------------------------
(* Correctness *)

\* The columns have their types.
TypeOK ==
    /\ present \subseteq Event /\ upstream \subseteq Event /\ cooled \subseteq Event
    /\ snap \in [Connector -> [read : BOOLEAN, events : SUBSET Event, acked : SUBSET Event]]
    /\ row \in [Event -> Row]
    /\ inc \in [Incident -> IncidentState]
    /\ order \subseteq Incident \X Incident /\ queue \in Seq(Incident)
    /\ call \in [Caller -> [busy : BOOLEAN, incident : Incident,
                            todo : SUBSET (Event \X (0..MaxRows)),
                            done : SUBSET (Event \X (0..MaxRows) \X BOOLEAN)]]
    /\ crashes \in 0..MaxCrashes

\* The synchronisation shown on an acknowledged incident is that of its active
\* evidence, whichever of the six transactions wrote last.
StatusIsDerived == \A i \in Incident : inc[i].acked => inc[i].sync = DerivedSync(row, i)

\* An acknowledgement covers the evidence that joins later: no active row of an
\* acknowledged incident is left out of the synchronisation, and a row that was
\* acknowledged upstream has an acknowledged incident.
AckIsShared ==
    \A e \in Event : row[e].active =>
        /\ inc[IncidentOf[e]].acked => row[e].sync # "not_applicable"
        /\ row[e].upAck => inc[IncidentOf[e]].acked

\* "synchronized" is never a lie: each active row behind it was acknowledged in
\* Zabbix, although results, stale reads and crashes interleave.
SynchronizedIsTrue ==
    \A e \in Event : (row[e].active /\ row[e].sync = "synchronized")
                     => e \in upstream

\* The types, and the status that operators see: derived, and true.
AckInv == TypeOK /\ StatusIsDerived /\ SynchronizedIsTrue

\* The worker carries an acknowledgement to every event of a reachable
\* connector without another gesture of the user (applyEvidenceFact's comment).
AckReachesZabbix ==
    \A e \in Event : ConnectorOf[e] \in Reachable =>
        []<>((row[e].active /\ inc[IncidentOf[e]].acked) => e \in upstream)
============================================================================
