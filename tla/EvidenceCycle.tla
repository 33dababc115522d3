--------------------------- MODULE EvidenceCycle ---------------------------
(***************************************************************************)
(* The incident cycle of internal/incidents: how the facts reported by     *)
(* connectors, webhooks and native checks become evidence, how evidence    *)
(* makes a target's impact active, and how impacts open, extend, resolve   *)
(* and resume incidents (cycle.go, native.go, structure.go, store.go).     *)
(*                                                                         *)
(* The PostgreSQL tables are the state.  A snapshot transaction is modelled*)
(* step by step (begin, one step per fact, finish) because the derived     *)
(* columns are only recomputed at its end; every other transaction is one  *)
(* action.  Transactions are serialised here.  Only what later decisions   *)
(* read is kept: rows of evidence that are active, the identities with an  *)
(* invalidation that is not rearmed, the status and severity of impacts    *)
(* and incidents, the propagation columns and the cached counts.  The      *)
(* acknowledgement columns, which no decision here reads, are the subject  *)
(* of module Acknowledgement.                                              *)
(***************************************************************************)
EXTENDS Integers, FiniteSets

CONSTANTS
    Identity,           \* evidence identities: (origin, scope, key)
    Target,             \* monitored targets ("Ressources")
    Nature,             \* natures: (scope, namespace, fingerprint)
    Owner,              \* connectors and native signal sources
    IncidentId,         \* incident rows that may ever be allocated
    Mode,               \* Owner -> "complete" | "scoped" | "webhook" | "native"
    OwnerOf,            \* Identity -> Owner
    ScopeOf,            \* Identity -> identity_scope (the binding)
    KeyOf,              \* Nature -> nature_key, shared by several natures
    Eligible,           \* Nature -> propagation_eligible
    Interval,           \* Owner -> cadence of the source or connector
    Signal,             \* what the origins may report
    MinWindow, MaxWindow,                              \* 60 s and 300 s
    ResumptionWindow,                                  \* six hours
    ExtendedTargets, ExtendedMinimum, ExtendedRatio,   \* 20, 5 and 5
    MaxTime,            \* bound: the clock stops there
    MaxFacts,           \* bound: facts in one snapshot
    MaxLag,             \* bound: delay between a read and its transaction
    MaxResumptions      \* bound: no snapshot starts once an incident has that many

Severity == 0..3        \* information, warning, major, critical

SignalType == [ident : Identity, target : Target, nature : Nature,
               severity : Severity, evaluation : Nat]

ASSUME CycleConstants ==
    /\ IsFiniteSet(Target)
    /\ Nature # {}
    /\ Mode \in [Owner -> {"complete", "scoped", "webhook", "native"}]
    /\ OwnerOf \in [Identity -> Owner]
    /\ DOMAIN ScopeOf = Identity
    /\ DOMAIN KeyOf = Nature
    /\ Eligible \in [Nature -> BOOLEAN]
    /\ Interval \in [Owner -> Nat]
    /\ Signal \subseteq SignalType
    /\ MinWindow \in Nat \ {0} /\ MaxWindow \in Nat /\ MinWindow <= MaxWindow
    /\ ResumptionWindow \in Nat
    /\ ExtendedTargets \in Nat /\ ExtendedMinimum \in Nat /\ ExtendedRatio \in Nat
    /\ MaxTime \in Nat /\ MaxFacts \in Nat /\ MaxLag \in Nat
    /\ MaxResumptions \in Nat

VARIABLES
    now,        \* the clock
    archived,   \* targets with archived_at set
    removed,    \* owners deleted with their bindings
    evidence,   \* active rows of cairnops_incident_evidence
    standing,   \* identities with invalidated_at set and rearmed_at null
    impact,     \* cairnops_incident_impacts, unique per (incident, target)
    incident,   \* cairnops_incidents
    tx          \* the snapshot transaction in progress

vars == <<now, archived, removed, evidence, standing, impact, incident, tx>>

----------------------------------------------------------------------------
(* Rows *)

EvidenceRow == [ident : Identity, incident : IncidentId, target : Target,
                severity : Severity]

ImpactRow == [status : {"absent", "active", "resolved"}, severity : Severity]

IncidentRow ==
    [status : {"none", "active", "resolved"}, nature : Nature,
     propagation : {"open", "closed"}, severity : Severity,
     openedAt : Nat, lastImpact : Nat, window : Nat, endsAt : Nat,
     resolvedAt : Nat, activeCount : Nat, impactCount : Nat,
     maxAffected : Nat, extended : BOOLEAN, resumptions : Nat]

NoImpact == [status |-> "absent", severity |-> 0]

NoIncident ==
    [status |-> "none", nature |-> CHOOSE n \in Nature : TRUE,
     propagation |-> "closed", severity |-> 0, openedAt |-> 0,
     lastImpact |-> 0, window |-> 0, endsAt |-> 0, resolvedAt |-> 0,
     activeCount |-> 0, impactCount |-> 0, maxAffected |-> 0,
     extended |-> FALSE, resumptions |-> 0]

FactType == [ident : Identity, target : Target, nature : Nature,
             severity : Severity, evaluation : Nat, openedAt : Nat]

\* Mutant: a severity scale counted from one.
FactFromOne(s, opened) ==
    [ident |-> s.ident, target |-> s.target, nature |-> s.nature,
     severity |-> s.severity + 1, evaluation |-> s.evaluation, openedAt |-> opened]

Fact(s, opened) ==
    [ident |-> s.ident, target |-> s.target, nature |-> s.nature,
     severity |-> s.severity, evaluation |-> s.evaluation, openedAt |-> opened]

Idle == [open |-> FALSE, advance |-> FALSE, at |-> 0, facts |-> {},
         seen |-> {}, observed |-> {}, touched |-> {}]

Init ==
    /\ now = 0
    /\ archived = {} /\ removed = {}
    /\ evidence = {} /\ standing = {}
    /\ impact = [i \in IncidentId |-> [t \in Target |-> NoImpact]]
    /\ incident = [i \in IncidentId |-> NoIncident]
    /\ tx = Idle

----------------------------------------------------------------------------
(* Derived state: what recomputeImpact and recomputeIncident store *)

Larger(a, b) == IF a >= b THEN a ELSE b

Smaller(a, b) == IF a <= b THEN a ELSE b

Worst(S) == CHOOSE s \in S : \A r \in S : r <= s

\* The evidence rows that feed the impact of incident i on target t.
Feeding(ev, i, t) == {e \in ev : e.incident = i /\ e.target = t}

\* Mutant: an impact without evidence is left as it was.
RecomputedImpactOnly(ev, row, i, t) ==
    IF Feeding(ev, i, t) = {} THEN row
    ELSE [status |-> "active",
          severity |-> Worst({e.severity : e \in Feeding(ev, i, t)})]

RecomputedImpact(ev, row, i, t) ==
    IF Feeding(ev, i, t) = {}
    THEN [row EXCEPT !.status = "resolved"]
    ELSE [status |-> "active",
          severity |-> Worst({e.severity : e \in Feeding(ev, i, t)})]

RecomputeImpacts(ev, imp, places) ==
    [i \in IncidentId |-> [t \in Target |->
        IF <<i, t>> \in places THEN RecomputedImpact(ev, imp[i][t], i, t)
                               ELSE imp[i][t]]]

ActiveTargets(row) == {t \in Target : row[t].status = "active"}

KnownTargets(row) == {t \in Target : row[t].status # "absent"}

\* extended is sticky; otherwise 20 targets, or 5 that are a fifth of all.
IsExtended(active, total, before) ==
    \/ before
    \/ active >= ExtendedTargets
    \/ active >= ExtendedMinimum /\ total > 0 /\ active * ExtendedRatio >= total

\* row: the incident, its impacts given by imp; gone: the archived targets.
RecomputedIncident(row, imp, at, gone) ==
    LET active == Cardinality(ActiveTargets(imp))
        propagation == IF row.propagation = "open" /\ at >= row.endsAt
                       THEN "closed" ELSE row.propagation
        status == IF propagation = "closed" /\ active = 0
                  THEN "resolved" ELSE "active"
    IN  [row EXCEPT
            !.status = status,
            !.propagation = propagation,
            !.severity = IF active = 0 THEN row.severity
                         ELSE Worst({imp[t].severity : t \in ActiveTargets(imp)}),
            !.resolvedAt = IF status = "active" THEN 0
                           ELSE IF row.status = "resolved" THEN row.resolvedAt
                           ELSE at,
            !.activeCount = active,
            !.impactCount = Cardinality(KnownTargets(imp)),
            !.maxAffected = Larger(row.maxAffected, active),
            !.extended = IsExtended(active, Cardinality(Target \ gone), row.extended)]

\* Mutant: an incident whose propagation is closed is considered final.
RecomputeOpenIncidents(inc, imp, ids, at, gone) ==
    [i \in IncidentId |-> IF i \in ids /\ inc[i].propagation = "open"
                          THEN RecomputedIncident(inc[i], imp[i], at, gone)
                          ELSE inc[i]]

RecomputeIncidents(inc, imp, ids, at, gone) ==
    [i \in IncidentId |-> IF i \in ids
                          THEN RecomputedIncident(inc[i], imp[i], at, gone)
                          ELSE inc[i]]

\* Mutant: only incidents that still have active impacts are advanced.
DueAndActive(inc, at) == {i \in IncidentId : /\ inc[i].status = "active"
                                             /\ inc[i].propagation = "open"
                                             /\ inc[i].endsAt <= at
                                             /\ inc[i].activeCount > 0}

\* advanceDueIncidents: the incidents whose propagation window has run out.
Due(inc, at) == {i \in IncidentId : /\ inc[i].status = "active"
                                    /\ inc[i].propagation = "open"
                                    /\ inc[i].endsAt <= at}

Places(rows) == {<<e.incident, e.target>> : e \in rows}

IncidentsOf(places) == {p[1] : p \in places}

\* resolveEvidenceRow on every row, then both recomputations.
ResolveRows(rows, at, gone) ==
    /\ evidence' = evidence \ rows
    /\ impact' = RecomputeImpacts(evidence \ rows, impact, Places(rows))
    /\ incident' = RecomputeIncidents(incident, impact', IncidentsOf(Places(rows)), at, gone)

----------------------------------------------------------------------------
(* A snapshot transaction: ApplyEvidenceSnapshot *)

\* The sets of identities a snapshot of connector c may speak for: all of the
\* connector (CompleteConnector), or those of the bindings it read.
ObservedSets(c) ==
    LET mine == {j \in Identity : OwnerOf[j] = c}
    IN  IF Mode[c] = "complete" THEN {mine}
        ELSE {{j \in mine : ScopeOf[j] \in scopes} :
                  scopes \in SUBSET {ScopeOf[j] : j \in mine}}

\* Only Zabbix reports when a problem started; the others date it by the read.
FactsOf(c, at) ==
    {Fact(s, opened) : s \in {r \in Signal : OwnerOf[r.ident] = c},
                       opened \in IF Mode[c] = "complete" THEN 0..at ELSE {at}}

FreeIncidents == {i \in IncidentId : incident[i].status = "none"}

\* The bounds on what a transaction may allocate and count.
Room(facts) == /\ Cardinality(facts) <= Cardinality(FreeIncidents)
               /\ \A i \in IncidentId : incident[i].resumptions < MaxResumptions

Begin(facts, observed, at, advance) ==
    /\ ~tx.open
    /\ Room(facts)
    /\ tx' = [open |-> TRUE, advance |-> advance, at |-> at, facts |-> facts,
              seen |-> {}, observed |-> observed, touched |-> {}]
    /\ UNCHANGED <<now, archived, removed, evidence, standing, impact, incident>>

\* The sets of at most n members of S.
UpTo(n, S) == {{}} \cup {{h[k] : k \in 1..n} : h \in [1..n -> S]}

BeginSnapshot ==
    \E c \in {o \in Owner : Mode[o] \in {"complete", "scoped"}} \ removed :
    \E at \in Larger(0, now - MaxLag)..now, observed \in ObservedSets(c) :
    \E facts \in UpTo(MaxFacts, {f \in FactsOf(c, at) : f.ident \in observed}) :
        Begin(facts, observed, at, TRUE)

\* ApplyWebhook with status "firing".
BeginWebhook ==
    \E c \in {o \in Owner : Mode[o] = "webhook"} \ removed :
    \E f \in FactsOf(c, now) : Begin({f}, {}, now, TRUE)

\* The active row of the fact's identity: at most one, by the unique index.
RowOf(f) == {e \in evidence : e.ident = f.ident}

\* Same target and same nature key: the row is only refreshed.
SameCause(e, f) ==
    /\ e.target = f.target
    /\ KeyOf[incident[e.incident].nature] = KeyOf[f.nature]

\* ApplyNativeObservation when the policy triggers: one fact, no advance.  An
\* archived target makes it fail with ErrTargetArchived, which rolls back.
BeginNative ==
    \E c \in {o \in Owner : Mode[o] = "native"} \ removed :
    \E f \in FactsOf(c, now) :
        /\ \/ f.target \notin archived
           \/ f.ident \in standing
           \/ \E e \in RowOf(f) : SameCause(e, f)
        /\ Begin({f}, {}, now, FALSE)

\* Facts are applied in the order of their OpenedAt.
Next1(f) == /\ tx.open
            /\ f \in tx.facts
            /\ \A g \in tx.facts : f.openedAt <= g.openedAt

Consume(f, places) ==
    tx' = [tx EXCEPT !.facts = @ \ {f}, !.seen = @ \cup {f.ident},
                     !.touched = @ \cup places]

SkipDuplicate(f) ==
    /\ Next1(f) /\ f.ident \in tx.seen
    /\ Consume(f, {})
    /\ UNCHANGED <<now, archived, removed, evidence, standing, impact, incident>>

\* Mutant: a refreshed row does not queue its impact for recomputation.
RefreshOnly(f) ==
    /\ Next1(f) /\ f.ident \notin tx.seen
    /\ \E e \in RowOf(f) :
        /\ SameCause(e, f)
        /\ evidence' = (evidence \ {e}) \cup {[e EXCEPT !.severity = f.severity]}
        /\ Consume(f, {})
    /\ UNCHANGED <<now, archived, removed, standing, impact, incident>>

RefreshEvidence(f) ==
    /\ Next1(f) /\ f.ident \notin tx.seen
    /\ \E e \in RowOf(f) :
        /\ SameCause(e, f)
        /\ evidence' = (evidence \ {e}) \cup {[e EXCEPT !.severity = f.severity]}
        /\ Consume(f, {<<e.incident, e.target>>})
    /\ UNCHANGED <<now, archived, removed, standing, impact, incident>>

\* The identity has no row for this cause.  A row it has for another cause is
\* resolved first and its impact and incident recomputed on the spot.
Displaces(f) == /\ Next1(f) /\ f.ident \notin tx.seen
                /\ \A e \in RowOf(f) : ~SameCause(e, f)

\* Mutant: the row for the other cause stays active.
KeptAll(f) == evidence

KeptEvidence(f) == evidence \ RowOf(f)

KeptImpacts(f) == RecomputeImpacts(KeptEvidence(f), impact, Places(RowOf(f)))

KeptIncidents(f) == RecomputeIncidents(incident, KeptImpacts(f),
                        IncidentsOf(Places(RowOf(f))), tx.at, archived)

\* A standing invalidation silences the identity; an archived target refuses it.
IgnoreFact(f) ==
    /\ Displaces(f)
    /\ f.ident \in standing \/ f.target \in archived
    /\ evidence' = KeptEvidence(f)
    /\ impact' = KeptImpacts(f)
    /\ incident' = KeptIncidents(f)
    /\ Consume(f, {})
    /\ UNCHANGED <<now, archived, removed, standing>>

\* The rest of applyEvidenceFact once ensureImpact has chosen incident i.
Attach(f, i, imp, inc) ==
    /\ evidence' = KeptEvidence(f) \cup
           {[ident |-> f.ident, incident |-> i, target |-> f.target,
             severity |-> f.severity]}
    /\ impact' = imp
    /\ incident' = inc
    /\ Consume(f, {<<i, f.target>>})
    /\ UNCHANGED <<now, archived, removed, standing>>

Activated(imp, i, f) ==
    [imp EXCEPT ![i][f.target] = [status |-> "active", severity |-> f.severity]]

\* Mutant: the archived flag is not looked up.
AcceptedArchived(f) == Displaces(f) /\ f.ident \notin standing

\* ensureImpact, in the order of its queries (imp, inc: the rows it reads).
Accepted(f) == /\ Displaces(f)
               /\ f.ident \notin standing
               /\ f.target \notin archived

\* Mutant: an active impact is joined only while its incident propagates.
ActiveHomesOpen(f, imp, inc) ==
    {i \in IncidentId : /\ imp[i][f.target].status = "active"
                        /\ inc[i].status = "active"
                        /\ inc[i].propagation = "open"
                        /\ KeyOf[inc[i].nature] = KeyOf[f.nature]}

ActiveHomes(f, imp, inc) ==
    {i \in IncidentId : /\ imp[i][f.target].status = "active"
                        /\ inc[i].status = "active"
                        /\ KeyOf[inc[i].nature] = KeyOf[f.nature]}

\* Mutant: the dates decide alone, the closed propagation is not looked at.
PropagatingByDate(f, inc) ==
    {i \in IncidentId : /\ Eligible[f.nature]
                        /\ inc[i].status = "active"
                        /\ inc[i].nature = f.nature
                        /\ inc[i].openedAt <= f.openedAt
                        /\ f.openedAt <= inc[i].endsAt}

Propagating(f, inc) ==
    {i \in IncidentId : /\ Eligible[f.nature]
                        /\ inc[i].status = "active"
                        /\ inc[i].propagation = "open"
                        /\ inc[i].nature = f.nature
                        /\ inc[i].openedAt <= f.openedAt
                        /\ f.openedAt <= inc[i].endsAt}

Resumable(f, imp, inc) ==
    {i \in IncidentId :
        /\ imp[i][f.target].status # "absent"
        /\ KeyOf[inc[i].nature] = KeyOf[f.nature]
        /\ inc[i].status = "resolved"
        /\ inc[i].impactCount = 1
        /\ inc[i].resolvedAt >= f.openedAt - ResumptionWindow
        /\ inc[i].resolvedAt <= tx.at
        /\ \A k \in IncidentId :
               (/\ imp[k][f.target].status # "absent"
                /\ KeyOf[inc[k].nature] = KeyOf[f.nature])
               => inc[k].openedAt <= inc[i].openedAt}

EvidenceWindow(f) ==
    Larger(MinWindow, Smaller(MaxWindow,
        Larger(2 * Interval[OwnerOf[f.ident]], f.evaluation)))

\* extendPropagation.
Extended(row, f) ==
    LET last == Larger(row.lastImpact, f.openedAt)
        window == Larger(row.window, EvidenceWindow(f))
    IN  [row EXCEPT !.lastImpact = last, !.window = window,
                    !.endsAt = Larger(row.endsAt, last + window)]

NewIncident(f) ==
    [status |-> "active", nature |-> f.nature,
     propagation |-> IF Eligible[f.nature] THEN "open" ELSE "closed",
     severity |-> f.severity, openedAt |-> f.openedAt,
     lastImpact |-> f.openedAt, window |-> EvidenceWindow(f),
     endsAt |-> f.openedAt + EvidenceWindow(f), resolvedAt |-> 0,
     activeCount |-> 1, impactCount |-> 1, maxAffected |-> 1,
     extended |-> FALSE, resumptions |-> 0]

JoinImpact(f) ==
    /\ Accepted(f)
    /\ \E i \in ActiveHomes(f, KeptImpacts(f), KeptIncidents(f)) :
           Attach(f, i, KeptImpacts(f), KeptIncidents(f))

\* The oldest incident still propagating; its impact is inserted or reopened.
JoinPropagation(f) ==
    LET inc == KeptIncidents(f) IN
    /\ Accepted(f)
    /\ ActiveHomes(f, KeptImpacts(f), inc) = {}
    /\ \E i \in Propagating(f, inc) :
        /\ \A k \in Propagating(f, inc) : inc[i].openedAt <= inc[k].openedAt
        /\ Attach(f, i, Activated(KeptImpacts(f), i, f),
                  [inc EXCEPT ![i] = Extended(@, f)])

\* resumeRecentIncident: only the impact is reopened, the status follows at
\* the recomputation that ends the transaction.
ResumeIncident(f) ==
    LET imp == KeptImpacts(f)
        inc == KeptIncidents(f) IN
    /\ Accepted(f)
    /\ ActiveHomes(f, imp, inc) = {} /\ Propagating(f, inc) = {}
    /\ \E i \in Resumable(f, imp, inc) :
        /\ \A k \in Resumable(f, imp, inc) : inc[k].resolvedAt <= inc[i].resolvedAt
        /\ Attach(f, i, Activated(imp, i, f),
                  [inc EXCEPT ![i].resumptions = @ + 1])

OpenIncident(f) ==
    LET imp == KeptImpacts(f)
        inc == KeptIncidents(f)
        i == CHOOSE k \in FreeIncidents : TRUE IN
    /\ Accepted(f)
    /\ ActiveHomes(f, imp, inc) = {} /\ Propagating(f, inc) = {}
    /\ Resumable(f, imp, inc) = {}
    /\ FreeIncidents # {}
    /\ Attach(f, i, Activated(imp, i, f), [inc EXCEPT ![i] = NewIncident(f)])

ApplyFact ==
    \E f \in tx.facts :
        \/ SkipDuplicate(f) \/ RefreshEvidence(f) \/ IgnoreFact(f)
        \/ JoinImpact(f) \/ JoinPropagation(f) \/ ResumeIncident(f)
        \/ OpenIncident(f)

\* What the snapshot speaks for and does not report.
Healthy == tx.observed \ tx.seen

\* Mutant: an invalidation is rearmed although its identity was reported.
RearmReported == standing \ tx.observed

\* rearmRecoveredEvidence: the invalidations that still stand.
RearmRecovered == standing \ Healthy

\* Active rows the snapshot speaks for and did not report are resolved, and
\* invalidations it no longer reports are rearmed; then every touched impact
\* and incident is recomputed and due propagations are closed.
FinishSnapshot ==
    LET absent == {e \in evidence : e.ident \in Healthy}
        places == tx.touched \cup Places(absent)
        due == IF tx.advance THEN Due(incident, tx.at) ELSE {}
    IN
    /\ tx.open /\ tx.facts = {}
    /\ evidence' = evidence \ absent
    /\ standing' = RearmRecovered
    /\ impact' = RecomputeImpacts(evidence \ absent, impact, places)
    /\ incident' = RecomputeIncidents(incident, impact',
                       IncidentsOf(places) \cup due, tx.at, archived)
    /\ tx' = Idle
    /\ UNCHANGED <<now, archived, removed>>

----------------------------------------------------------------------------
(* The other transactions *)

Advances(at) ==
    incident' = RecomputeIncidents(incident, impact, Due(incident, at), at, archived)

\* Runtime.Process, and a native observation that concludes nothing.
Advance ==
    /\ ~tx.open
    /\ Advances(now)
    /\ UNCHANGED <<now, archived, removed, evidence, standing, impact, tx>>

\* ResolveEvidence, for a webhook with status "resolved".
ResolveEvidence(j) ==
    LET rows == {e \in evidence : e.ident = j} IN
    /\ ~tx.open
    /\ Mode[OwnerOf[j]] = "webhook" /\ OwnerOf[j] \notin removed
    /\ ResolveRows(rows, now, archived)
    /\ UNCHANGED <<now, archived, removed, standing, tx>>

\* recoverNativeEvidence: resolve the row, or rearm and advance.
RecoverNativeEvidence(j) ==
    LET rows == {e \in evidence : e.ident = j} IN
    /\ ~tx.open
    /\ Mode[OwnerOf[j]] = "native" /\ OwnerOf[j] \notin removed
    /\ IF rows # {}
       THEN ResolveRows(rows, now, archived) /\ UNCHANGED standing
       ELSE /\ standing' = standing \ {j}
            /\ Advances(now)
            /\ UNCHANGED <<evidence, impact>>
    /\ UNCHANGED <<now, archived, removed, tx>>

InvalidateEvidence(e) ==
    /\ ~tx.open
    /\ e \in evidence
    /\ standing' = standing \cup {e.ident}
    /\ ResolveRows({e}, now, archived)
    /\ UNCHANGED <<now, archived, removed, tx>>

ArchiveTarget(t) ==
    /\ ~tx.open
    /\ t \notin archived
    /\ archived' = archived \cup {t}
    /\ ResolveRows({e \in evidence : e.target = t}, now, archived')
    /\ UNCHANGED <<now, removed, standing, tx>>

RestoreTarget(t) ==
    /\ ~tx.open
    /\ t \in archived
    /\ archived' = archived \ {t}
    /\ UNCHANGED <<now, removed, evidence, standing, impact, incident, tx>>

\* ResolveForSourceRemoval and ResolveForConnectorRemoval.
RemoveOwner(c) ==
    /\ ~tx.open
    /\ c \notin removed
    /\ removed' = removed \cup {c}
    /\ ResolveRows({e \in evidence : OwnerOf[e.ident] = c}, now, archived)
    /\ UNCHANGED <<now, archived, standing, tx>>

Tick ==
    /\ ~tx.open
    /\ now < MaxTime
    /\ now' = now + 1
    /\ UNCHANGED <<archived, removed, evidence, standing, impact, incident, tx>>

Snapshot == BeginSnapshot \/ BeginWebhook \/ BeginNative \/ ApplyFact \/ FinishSnapshot

Next ==
    \/ Snapshot
    \/ Advance
    \/ \E j \in Identity : ResolveEvidence(j) \/ RecoverNativeEvidence(j)
    \/ \E e \in evidence : InvalidateEvidence(e)
    \/ \E t \in Target : ArchiveTarget(t) \/ RestoreTarget(t)
    \/ \E c \in Owner : RemoveOwner(c)
    \/ Tick

Spec == Init /\ [][Next]_vars

----------------------------------------------------------------------------
(* Correctness *)

\* The rows have their types, in and outside a transaction.
TypeOK ==
    /\ now \in Nat
    /\ archived \subseteq Target /\ removed \subseteq Owner
    /\ evidence \subseteq EvidenceRow
    /\ standing \subseteq Identity
    /\ impact \in [IncidentId -> [Target -> ImpactRow]]
    /\ incident \in [IncidentId -> IncidentRow]
    /\ tx \in [open : BOOLEAN, advance : BOOLEAN, at : Nat,
               facts : SUBSET FactType, seen : SUBSET Identity,
               observed : SUBSET Identity, touched : SUBSET (IncidentId \X Target)]

\* An identity speaks with one voice: it never has two active rows (the
\* partial unique index of migration 031), and none while an invalidation of
\* it stands, whatever order refreshes, moves, invalidations and rearmings of
\* several transactions took (applyEvidenceFact, InvalidateEvidence).
OneVoice ==
    /\ \A e, d \in evidence : e.ident = d.ident => e = d
    /\ \A e \in evidence : e.ident \notin standing

\* An impact is active exactly when an active row feeds it: joins, reopenings
\* and resumptions that set the status directly agree with recomputeImpact.
ImpactsFollowEvidence ==
    \A i \in IncidentId, t \in Target :
        impact[i][t].status = "active" <=> Feeding(evidence, i, t) # {}

IncidentSettled(i) ==
    LET row == incident[i] IN
    row.status # "none" =>
        /\ row.status = "resolved" <=>
               row.propagation = "closed" /\ ActiveTargets(impact[i]) = {}
        /\ row.activeCount = Cardinality(ActiveTargets(impact[i]))
        /\ row.impactCount = Cardinality(KnownTargets(impact[i]))

\* Between transactions an incident is resolved exactly when its propagation
\* is closed and no impact of it is active, and the cached counts are those of
\* its impacts (recomputeIncident reaches every incident a transaction touches).
IncidentsFollowImpacts == ~tx.open => \A i \in IncidentId : IncidentSettled(i)

\* Severities are those of the worst active evidence, and never lag it once
\* the transaction that changed it has committed.
SeverityFollowsEvidence ==
    ~tx.open =>
        \A e \in evidence :
            /\ e.severity <= impact[e.incident][e.target].severity
            /\ impact[e.incident][e.target].severity <= incident[e.incident].severity

\* An archived target and a removed owner carry no active evidence, so nothing
\* keeps an incident of theirs alive (ResolveForArchivedTarget,
\* resolveOwnedEvidenceCount; ensureImpact refuses archived targets).
RetiredIsSilent ==
    \A e \in evidence : /\ e.target \notin archived
                        /\ OwnerOf[e.ident] \notin removed

\* One cycle per cause: two incidents hold the same target for the same nature
\* key only if one of them was resumed (ensureImpact joins the active impact;
\* its first query overlooks an incident resumed in the same snapshot).
OneCyclePerCause ==
    \A i, k \in IncidentId, t \in Target :
        (/\ i # k
         /\ impact[i][t].status = "active" /\ impact[k][t].status = "active"
         /\ KeyOf[incident[i].nature] = KeyOf[incident[k].nature])
        => incident[i].resumptions > 0 \/ incident[k].resumptions > 0

\* What a step leaves of identity j, which is invalidated.
StaysSilent(j) ==
    /\ \A e \in evidence' : e.ident # j
    /\ \/ j \in standing'
       \/ Mode[OwnerOf[j]] = "native"
       \/ tx.facts = {} /\ j \in tx.observed \ tx.seen

\* An invalidated identity is heard again only after a healthy read: no row of
\* it becomes active, and the invalidation is lifted only by a snapshot that
\* speaks for the identity and did not report it, or by a native recovery
\* (rearmRecoveredEvidence, recoverNativeEvidence).
SilencedUntilHealthy == [][\A j \in standing : StaysSilent(j)]_vars

\* What a step leaves of incident i once it is closed, or resolved.
Freezes(i) ==
    /\ (incident[i].status # "none" /\ incident[i].propagation = "closed") =>
          /\ incident'[i].propagation = "closed"
          /\ KnownTargets(impact'[i]) = KnownTargets(impact[i])
    /\ (incident[i].status = "resolved" /\ incident'[i].status # "resolved") =>
          /\ incident[i].resumptions > 0 /\ incident[i].impactCount = 1
          /\ incident'[i].openedAt = incident[i].openedAt
          /\ incident'[i].nature = incident[i].nature

\* Once the propagation is closed the set of targets is frozen: no later fact
\* adds an impact, and the propagation never reopens (CONTEXT.md, Propagation).
\* A resolved incident becomes active again only by a resumption of its single
\* impact, with its opening and its nature (ADR 0054).
ClosedIsFrozen == [][\A i \in IncidentId : Freezes(i)]_vars

\* The clock and the incident runtime, which wakes every two seconds, are only
\* ever delayed by a transaction in progress, and a transaction ends.
FairSpec ==
    /\ Spec
    /\ WF_vars(ApplyFact) /\ WF_vars(FinishSnapshot)
    /\ SF_vars(Tick) /\ SF_vars(Advance)

\* An incident left without an active impact is resolved once its propagation
\* window has run out, even if no origin ever reports again: Runtime.Process
\* is what ends it.  (Windows that run past the bounded clock are excluded.)
EmptyIncidentsEnd ==
    \A i \in IncidentId :
        (/\ incident[i].status = "active"
         /\ ActiveTargets(impact[i]) = {}
         /\ incident[i].endsAt <= MaxTime)
        ~> (incident[i].status = "resolved" \/ ActiveTargets(impact[i]) # {})

============================================================================
