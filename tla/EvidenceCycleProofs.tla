------------------------ MODULE EvidenceCycleProofs ------------------------
(***************************************************************************)
(* Proofs about EvidenceCycle, for every set of targets, identities,       *)
(* natures and incidents and every window and bound.                       *)
(*                                                                         *)
(* A step resolves some rows of evidence and recomputes what they fed, and *)
(* a fact of a snapshot may then attach a new row.  The invariant is       *)
(* therefore stated of any tables (Core), so that it can be carried        *)
(* through the intermediate tables of one action.                          *)
(***************************************************************************)
EXTENDS EvidenceCycle, FiniteSetTheorems, TLAPS

ImpactMap == [IncidentId -> [Target -> ImpactRow]]

IncidentMap == [IncidentId -> IncidentRow]

----------------------------------------------------------------------------
(* The derived columns *)

\* The worst of a non-empty set of severities is one of them and bounds them.
LEMMA WorstIsMaximum ==
    ASSUME NEW S \in SUBSET Severity, S # {}
    PROVE  /\ Worst(S) \in S
           /\ \A r \in S : r <= Worst(S)
<1>1. \E s \in S : \A r \in S : r <= s
  <2>1. CASE 3 \in S
    BY <2>1 DEF Severity
  <2>2. CASE 3 \notin S /\ 2 \in S
    BY <2>2 DEF Severity
  <2>3. CASE 3 \notin S /\ 2 \notin S /\ 1 \in S
    BY <2>3 DEF Severity
  <2>4. CASE 3 \notin S /\ 2 \notin S /\ 1 \notin S
    <3>1. \A r \in S : r = 0
      BY <2>4 DEF Severity
    <3> QED BY <3>1
  <2> QED BY <2>1, <2>2, <2>3, <2>4
<1> QED BY <1>1 DEF Worst

\* What recomputeImpact stores: a typed row that is active exactly when an
\* active row of evidence feeds it, as severe as any; the other impacts are left
\* alone.
ImpactsFollow(new, ev, imp, places) ==
    /\ new \in ImpactMap
    /\ \A i \in IncidentId, t \in Target :
          /\ <<i, t>> \in places =>
                 /\ new[i][t].status # "absent"
                 /\ new[i][t].status = "active" <=> Feeding(ev, i, t) # {}
                 /\ \A e \in Feeding(ev, i, t) : e.severity <= new[i][t].severity
          /\ <<i, t>> \notin places => new[i][t] = imp[i][t]

LEMMA ImpactsRecomputed ==
    ASSUME NEW ev \in SUBSET EvidenceRow, NEW imp \in ImpactMap, NEW places
    PROVE  ImpactsFollow(RecomputeImpacts(ev, imp, places), ev, imp, places)
<1> DEFINE new == RecomputeImpacts(ev, imp, places)
<1>1. ASSUME NEW i \in IncidentId, NEW t \in Target
      PROVE  LET r == RecomputedImpact(ev, imp[i][t], i, t) IN
             /\ r \in ImpactRow
             /\ r.status # "absent"
             /\ r.status = "active" <=> Feeding(ev, i, t) # {}
             /\ \A e \in Feeding(ev, i, t) : e.severity <= r.severity
  <2> DEFINE S == {e.severity : e \in Feeding(ev, i, t)}
  <2>1. imp[i][t] \in ImpactRow
    BY DEF ImpactMap
  <2>2. CASE Feeding(ev, i, t) = {}
    BY <2>1, <2>2 DEF RecomputedImpact, ImpactRow
  <2>3. CASE Feeding(ev, i, t) # {}
    <3>1. S \in SUBSET Severity /\ S # {}
      BY <2>3 DEF Feeding, EvidenceRow
    <3>2. Worst(S) \in Severity /\ \A r \in S : r <= Worst(S)
      <4> HIDE DEF S
      <4> QED BY <3>1, WorstIsMaximum
    <3>3. \A e \in Feeding(ev, i, t) : e.severity \in S
      OBVIOUS
    <3> QED BY <2>3, <3>2, <3>3 DEF RecomputedImpact, ImpactRow
  <2> QED BY <2>2, <2>3
<1>2. \A i \in IncidentId, t \in Target :
         new[i][t] = IF <<i, t>> \in places
                     THEN RecomputedImpact(ev, imp[i][t], i, t) ELSE imp[i][t]
  BY DEF RecomputeImpacts
<1>3. new \in ImpactMap
  BY <1>1 DEF RecomputeImpacts, ImpactMap
<1> QED BY <1>1, <1>2, <1>3 DEF ImpactsFollow

\* What recomputeIncident stores: a typed row, resolved exactly when its
\* propagation is closed and it has no active impact, with the counts of its
\* impacts and as severe as any that is active; it keeps its nature, opening and resumptions and a closed
\* propagation stays closed.
Recomputed(new, old, imp) ==
    /\ new \in IncidentRow
    /\ new.status # "none"
    /\ new.status = "resolved" <=>
           new.propagation = "closed" /\ ActiveTargets(imp) = {}
    /\ new.activeCount = Cardinality(ActiveTargets(imp))
    /\ new.impactCount = Cardinality(KnownTargets(imp))
    /\ \A t \in ActiveTargets(imp) : imp[t].severity <= new.severity
    /\ new.nature = old.nature /\ new.openedAt = old.openedAt
    /\ new.resumptions = old.resumptions
    /\ old.propagation = "closed" => new.propagation = "closed"

LEMMA IncidentRecomputed ==
    ASSUME NEW row \in IncidentRow, NEW imp \in [Target -> ImpactRow],
           NEW at \in Nat, NEW gone \in SUBSET Target
    PROVE  Recomputed(RecomputedIncident(row, imp, at, gone), row, imp)
<1> DEFINE A == ActiveTargets(imp)
           K == KnownTargets(imp)
           S == {imp[t].severity : t \in A}
           propagation == IF row.propagation = "open" /\ at >= row.endsAt
                          THEN "closed" ELSE row.propagation
           new == RecomputedIncident(row, imp, at, gone)
<1>1. IsFiniteSet(A) /\ IsFiniteSet(K) /\ IsFiniteSet(Target \ gone)
  BY CycleConstants, FS_Subset DEF ActiveTargets, KnownTargets
<1>2. /\ Cardinality(A) \in Nat
      /\ Cardinality(K) \in Nat
      /\ Cardinality(Target \ gone) \in Nat
      /\ Cardinality(A) = 0 <=> A = {}
  BY <1>1, FS_CardinalityType, FS_EmptySet
<1>3. A # {} => Worst(S) \in Severity /\ \A t \in A : imp[t].severity <= Worst(S)
  <2> SUFFICES ASSUME A # {}
               PROVE  Worst(S) \in Severity /\ \A t \in A : imp[t].severity <= Worst(S)
    OBVIOUS
  <2>1. S \in SUBSET Severity /\ S # {}
    BY DEF ActiveTargets, ImpactRow
  <2>2. \A t \in A : imp[t].severity \in S
    OBVIOUS
  <2> HIDE DEF S
  <2> QED BY <2>1, <2>2, WorstIsMaximum
<1>4. IsExtended(Cardinality(A), Cardinality(Target \ gone), row.extended) \in BOOLEAN
  BY <1>2 DEF IsExtended, IncidentRow
<1>5. Larger(row.maxAffected, Cardinality(A)) \in Nat
  BY <1>2 DEF Larger, IncidentRow
<1> HIDE DEF A, K, S
<1>6. propagation \in {"open", "closed"} /\ (row.propagation = "closed" => propagation = "closed")
  BY DEF IncidentRow
<1> DEFINE status == IF propagation = "closed" /\ Cardinality(A) = 0
                     THEN "resolved" ELSE "active"
           severity == IF Cardinality(A) = 0 THEN row.severity ELSE Worst(S)
           resolvedAt == IF status = "active" THEN 0
                         ELSE IF row.status = "resolved" THEN row.resolvedAt ELSE at
<1>7. new = [row EXCEPT !.status = status, !.propagation = propagation,
                 !.severity = severity, !.resolvedAt = resolvedAt,
                 !.activeCount = Cardinality(A), !.impactCount = Cardinality(K),
                 !.maxAffected = Larger(row.maxAffected, Cardinality(A)),
                 !.extended = IsExtended(Cardinality(A), Cardinality(Target \ gone),
                                         row.extended)]
  BY DEF RecomputedIncident, A, K, S
<1>8. severity \in Severity /\ \A t \in A : imp[t].severity <= severity
  BY <1>2, <1>3 DEF IncidentRow
<1>9. resolvedAt \in Nat
  BY DEF IncidentRow
<1>10. status \in {"active", "resolved"} /\ (status = "resolved" <=> propagation = "closed" /\ A = {})
  BY <1>2
<1> HIDE DEF status, severity, resolvedAt, propagation, new
<1>11. /\ new \in IncidentRow
       /\ new.status = status /\ new.propagation = propagation /\ new.severity = severity
       /\ new.activeCount = Cardinality(A) /\ new.impactCount = Cardinality(K)
       /\ new.nature = row.nature /\ new.openedAt = row.openedAt
       /\ new.resumptions = row.resumptions
  BY <1>2, <1>4, <1>5, <1>6, <1>7, <1>8, <1>9, <1>10 DEF IncidentRow
<1> QED BY <1>6, <1>8, <1>10, <1>11 DEF Recomputed, A, K, new

IncidentsFollow(new, inc, imp, ids) ==
    /\ new \in IncidentMap
    /\ \A i \in IncidentId :
          /\ i \in ids => Recomputed(new[i], inc[i], imp[i])
          /\ i \notin ids => new[i] = inc[i]

\* The same of a set of incidents; the others are left alone.
LEMMA IncidentsRecomputed ==
    ASSUME NEW inc \in IncidentMap, NEW imp \in ImpactMap, NEW ids,
           NEW at \in Nat, NEW gone \in SUBSET Target
    PROVE  IncidentsFollow(RecomputeIncidents(inc, imp, ids, at, gone), inc, imp, ids)
<1> DEFINE new == RecomputeIncidents(inc, imp, ids, at, gone)
<1>1. \A i \in IncidentId : inc[i] \in IncidentRow /\ imp[i] \in [Target -> ImpactRow]
  BY DEF IncidentMap, ImpactMap
<1>2. \A i \in IncidentId :
         new[i] = IF i \in ids THEN RecomputedIncident(inc[i], imp[i], at, gone)
                               ELSE inc[i]
  BY DEF RecomputeIncidents
<1>3. \A i \in IncidentId : i \in ids => Recomputed(new[i], inc[i], imp[i])
  BY <1>1, <1>2, IncidentRecomputed
<1>4. new \in IncidentMap
  <2>1. \A i \in IncidentId : new[i] \in IncidentRow
    BY <1>1, <1>2, <1>3 DEF Recomputed
  <2> QED BY <2>1 DEF RecomputeIncidents, IncidentMap
<1> QED BY <1>2, <1>3, <1>4 DEF IncidentsFollow

----------------------------------------------------------------------------
(* The invariant, of any tables *)

Active(imp, i, t) == imp[i][t].status = "active"

Unborn(imp, inc) ==
    \A i \in IncidentId : inc[i].status = "none" =>
        \A t \in Target : imp[i][t].status = "absent"

Settled(imp, inc, i) ==
    inc[i].status # "none" =>
        /\ inc[i].status = "resolved" <=>
               inc[i].propagation = "closed" /\ ActiveTargets(imp[i]) = {}
        /\ inc[i].activeCount = Cardinality(ActiveTargets(imp[i]))
        /\ inc[i].impactCount = Cardinality(KnownTargets(imp[i]))

\* A resolved incident with an active impact has just been resumed.
OnlyResumed(imp, inc) ==
    \A i \in IncidentId, t \in Target :
        (inc[i].status = "resolved" /\ Active(imp, i, t)) =>
            /\ inc[i].resumptions > 0
            /\ inc[i].impactCount = 1

ResolvedClosed(inc) ==
    \A i \in IncidentId : inc[i].status = "resolved" => inc[i].propagation = "closed"

OneCycle(imp, inc) ==
    \A i, k \in IncidentId, t \in Target :
        (/\ i # k
         /\ Active(imp, i, t) /\ Active(imp, k, t)
         /\ KeyOf[inc[i].nature] = KeyOf[inc[k].nature])
        => inc[i].resumptions > 0 \/ inc[k].resumptions > 0

\* Severities are only behind where they are still to be recomputed.
Severe(ev, imp, inc, touched) ==
    /\ \A e \in ev : <<e.incident, e.target>> \notin touched =>
           e.severity <= imp[e.incident][e.target].severity
    /\ \A i \in IncidentId, t \in Target :
           i \notin IncidentsOf(touched) /\ Active(imp, i, t) =>
               imp[i][t].severity <= inc[i].severity

\* touched: the impacts a transaction has still to recompute.
Core(ev, imp, inc, touched) ==
    /\ ev \in SUBSET EvidenceRow /\ imp \in ImpactMap /\ inc \in IncidentMap
    /\ touched \in SUBSET (IncidentId \X Target)
    /\ \A e, d \in ev : e.ident = d.ident => e = d
    /\ \A i \in IncidentId, t \in Target :
           Active(imp, i, t) <=> Feeding(ev, i, t) # {}
    /\ \A i \in IncidentId, t \in Target :
           <<i, t>> \in touched => imp[i][t].status # "absent"
    /\ Unborn(imp, inc)
    /\ \A i \in IncidentId : i \notin IncidentsOf(touched) => Settled(imp, inc, i)
    /\ OnlyResumed(imp, inc)
    /\ ResolvedClosed(inc)
    /\ OneCycle(imp, inc)
    /\ Severe(ev, imp, inc, touched)

\* Rows feed impacts that exist, of incidents that exist.
LEMMA RowsHavePlaces ==
    ASSUME NEW ev, NEW imp, NEW inc, NEW touched, Core(ev, imp, inc, touched),
           NEW e \in ev
    PROVE  /\ e.incident \in IncidentId /\ e.target \in Target
           /\ Active(imp, e.incident, e.target)
           /\ inc[e.incident].status # "none"
<1>1. e.incident \in IncidentId /\ e.target \in Target
  BY DEF Core, EvidenceRow
<1>2. e \in Feeding(ev, e.incident, e.target)
  BY DEF Feeding
<1>3. Active(imp, e.incident, e.target)
  BY <1>1, <1>2 DEF Core
<1> QED BY <1>1, <1>3 DEF Core, Unborn, Active

CoreAfter(ev, imp, inc, rows, places, ids, at, gone, left) ==
    LET new == RecomputeImpacts(ev \ rows, imp, places) IN
    Core(ev \ rows, new, RecomputeIncidents(inc, new, ids, at, gone), left)

\* Resolving rows and recomputing at least what they fed keeps the invariant;
\* an incident that was recomputed is no longer touched.
LEMMA ResolveKeepsCore ==
    ASSUME NEW ev, NEW imp, NEW inc, NEW touched, Core(ev, imp, inc, touched),
           NEW rows \in SUBSET ev,
           NEW places \in SUBSET (IncidentId \X Target),
           Places(rows) \subseteq places, places \subseteq Places(rows) \cup touched,
           NEW ids \in SUBSET IncidentId, IncidentsOf(places) \subseteq ids,
           \A i \in ids : inc[i].status # "none",
           NEW left \in SUBSET touched, touched \ left \subseteq places,
           \A i \in IncidentsOf(touched) : i \in ids \/ i \in IncidentsOf(left),
           NEW at \in Nat, NEW gone \in SUBSET Target
    PROVE  CoreAfter(ev, imp, inc, rows, places, ids, at, gone, left)
<1> DEFINE kept == ev \ rows
           I == RecomputeImpacts(kept, imp, places)
           N == RecomputeIncidents(inc, I, ids, at, gone)
<1>1. kept \in SUBSET EvidenceRow /\ imp \in ImpactMap /\ inc \in IncidentMap
  BY DEF Core
<1>2. ImpactsFollow(I, kept, imp, places)
  BY <1>1, ImpactsRecomputed
<1> HIDE DEF I
<1>3. IncidentsFollow(N, inc, I, ids)
  BY <1>1, <1>2, IncidentsRecomputed DEF ImpactsFollow
<1> USE DEF ImpactsFollow, IncidentsFollow
<1> HIDE DEF N
<1>4. \A i \in IncidentId, t \in Target : Active(I, i, t) <=> Feeding(kept, i, t) # {}
  <2> SUFFICES ASSUME NEW i \in IncidentId, NEW t \in Target, <<i, t>> \notin places
               PROVE  Active(I, i, t) <=> Feeding(kept, i, t) # {}
    BY <1>2 DEF Active
  <2>1. \A e \in rows : ~(e.incident = i /\ e.target = t)
    BY DEF Places
  <2>2. Feeding(kept, i, t) = Feeding(ev, i, t)
    BY <2>1 DEF Feeding
  <2> QED BY <1>2, <2>2 DEF Core, Active
<1>5. \A i \in IncidentId, t \in Target : Active(I, i, t) => Active(imp, i, t)
  BY <1>4 DEF Feeding, Core
<1>6. \A i \in IncidentId, t \in Target : <<i, t>> \in left => I[i][t].status # "absent"
  BY <1>2 DEF Core
<1>7. \A i \in IncidentId, t \in Target : <<i, t>> \in places => i \in ids
  BY DEF IncidentsOf
<1>8. \A i \in IncidentId : i \notin ids => I[i] = imp[i]
  <2> SUFFICES ASSUME NEW i \in IncidentId, i \notin ids PROVE I[i] = imp[i]
    OBVIOUS
  <2>1. \A t \in Target : I[i][t] = imp[i][t]
    BY <1>2, <1>7
  <2>2. I[i] \in [Target -> ImpactRow] /\ imp[i] \in [Target -> ImpactRow]
    BY <1>1, <1>2 DEF ImpactMap
  <2> QED BY <2>1, <2>2
<1>9. Unborn(I, N)
  BY <1>3, <1>8 DEF Unborn, Recomputed, Core
<1>10. ASSUME NEW i \in IncidentId, i \notin IncidentsOf(left)
       PROVE  Settled(I, N, i)
  <2>1. CASE i \in ids
    BY <1>3, <2>1 DEF Settled, Recomputed
  <2>2. CASE i \notin ids
    BY <1>3, <1>8, <1>10, <2>2 DEF Settled, Core
  <2> QED BY <2>1, <2>2
<1>11. \A i \in IncidentId : /\ N[i].nature = inc[i].nature
                             /\ N[i].resumptions = inc[i].resumptions
  BY <1>3 DEF Recomputed
<1>12. OnlyResumed(I, N)
  <2> SUFFICES ASSUME NEW i \in IncidentId, NEW t \in Target,
                      N[i].status = "resolved", Active(I, i, t)
               PROVE  i \notin ids
    BY <1>3, <1>5 DEF OnlyResumed, Core
  <2>1. t \in ActiveTargets(I[i])
    BY DEF ActiveTargets, Active
  <2> QED BY <1>3, <2>1 DEF Recomputed
<1>13. OneCycle(I, N)
  BY <1>5, <1>11 DEF OneCycle, Core
<1>14. left \in SUBSET (IncidentId \X Target)
  BY DEF Core
<1>15. \A e, d \in kept : e.ident = d.ident => e = d
  BY DEF Core
<1>16. ResolvedClosed(N)
  BY <1>3 DEF ResolvedClosed, Recomputed, Core
<1>17. Severe(kept, I, N, left)
  <2>1. ASSUME NEW e \in kept, <<e.incident, e.target>> \notin left
        PROVE  e.severity <= I[e.incident][e.target].severity
    <3> DEFINE i == e.incident
               t == e.target
    <3>1. i \in IncidentId /\ t \in Target /\ e \in Feeding(kept, i, t)
      BY <1>1 DEF EvidenceRow, Feeding
    <3>2. CASE <<i, t>> \in places
      BY <1>2, <3>1, <3>2
    <3>3. CASE <<i, t>> \notin places
      BY <1>2, <2>1, <3>1, <3>3 DEF Core, Severe
    <3> QED BY <3>2, <3>3
  <2>2. ASSUME NEW i \in IncidentId, NEW t \in Target, i \notin IncidentsOf(left), Active(I, i, t)
        PROVE  I[i][t].severity <= N[i].severity
    <3>1. CASE i \in ids
      <4>1. t \in ActiveTargets(I[i])
        BY <2>2 DEF ActiveTargets, Active
      <4> QED BY <1>3, <3>1, <4>1 DEF Recomputed
    <3>2. CASE i \notin ids
      <4>1. I[i] = imp[i] /\ N[i] = inc[i] /\ i \notin IncidentsOf(touched)
        BY <1>3, <1>8, <2>2, <3>2
      <4> QED BY <2>2, <4>1 DEF Core, Severe, Active
    <3> QED BY <3>1, <3>2
  <2> QED BY <2>1, <2>2 DEF Severe
<1>18. Core(kept, I, N, left)
  <2> HIDE DEF kept
  <2> QED BY <1>1, <1>2, <1>3, <1>4, <1>6, <1>9, <1>10, <1>12, <1>13, <1>14, <1>15, <1>16, <1>17
      DEF Core
<1> QED BY <1>18 DEF I, N, CoreAfter

\* Attaching a row of a new identity to an incident keeps the invariant: the
\* incident joins the touched ones, and it is the only one for its cause on
\* that target unless one of them was resumed.
LEMMA AttachKeepsCore ==
    ASSUME NEW ev, NEW imp, NEW inc, NEW touched, Core(ev, imp, inc, touched),
           NEW row \in EvidenceRow, \A e \in ev : e.ident # row.ident,
           NEW imp2 \in ImpactMap, NEW inc2 \in IncidentMap,
           NEW i \in IncidentId, i = row.incident,
           NEW t \in Target, t = row.target,
           Active(imp2, i, t),
           \A k \in IncidentId, u \in Target :
               <<k, u>> # <<i, t>> => imp2[k][u] = imp[k][u],
           \A k \in IncidentId : k # i => inc2[k] = inc[k],
           inc2[i].status # "none",
           inc2[i].status = "resolved" =>
               /\ inc2[i].resumptions > 0
               /\ inc2[i].impactCount = 1
               /\ inc2[i].propagation = "closed",
           \/ inc[i].status = "none"
           \/ /\ inc2[i].nature = inc[i].nature
              /\ inc2[i].resumptions >= inc[i].resumptions,
           \/ inc2[i].resumptions > 0
           \/ inc[i].status # "none" /\ Active(imp, i, t)
           \/ \A k \in IncidentId :
                 (/\ k # i /\ Active(imp, k, t)
                  /\ KeyOf[inc2[k].nature] = KeyOf[inc2[i].nature])
                 => inc[k].resumptions > 0
    PROVE  Core(ev \cup {row}, imp2, inc2, touched \cup {<<i, t>>})
<1> DEFINE E == ev \cup {row}
           T == touched \cup {<<i, t>>}
<1>1. E \in SUBSET EvidenceRow /\ T \in SUBSET (IncidentId \X Target)
  BY DEF Core
<1>2. \A e, d \in E : e.ident = d.ident => e = d
  BY DEF Core
<1>3. \A k \in IncidentId, u \in Target : Active(imp2, k, u) <=> Feeding(E, k, u) # {}
  <2> SUFFICES ASSUME NEW k \in IncidentId, NEW u \in Target
               PROVE  Active(imp2, k, u) <=> Feeding(E, k, u) # {}
    OBVIOUS
  <2>1. CASE k = i /\ u = t
    <3>1. row \in Feeding(E, k, u)
      BY <2>1 DEF Feeding
    <3>2. Active(imp2, k, u)
      BY <2>1
    <3> QED BY <3>1, <3>2
  <2>2. CASE ~(k = i /\ u = t)
    <3>1. Feeding(E, k, u) = Feeding(ev, k, u)
      BY <2>2 DEF Feeding
    <3>2. imp2[k][u] = imp[k][u]
      BY <2>2
    <3>3. Active(imp, k, u) <=> Feeding(ev, k, u) # {}
      BY DEF Core
    <3> QED BY <3>1, <3>2, <3>3 DEF Active
  <2> QED BY <2>1, <2>2
<1>4. \A k \in IncidentId, u \in Target : <<k, u>> \in T => imp2[k][u].status # "absent"
  BY DEF Core, Active
<1>5. Unborn(imp2, inc2)
  BY DEF Unborn, Core
<1>6. ASSUME NEW k \in IncidentId, k \notin IncidentsOf(T)
      PROVE  Settled(imp2, inc2, k)
  <2>1. k # i /\ k \notin IncidentsOf(touched)
    <3>1. <<i, t>> \in T /\ <<i, t>>[1] = i
      OBVIOUS
    <3>2. i \in IncidentsOf(T)
      BY <3>1 DEF IncidentsOf
    <3>3. IncidentsOf(touched) \subseteq IncidentsOf(T)
      BY DEF IncidentsOf
    <3> QED BY <1>6, <3>2, <3>3
  <2>2. imp2[k] = imp[k]
    <3>1. imp2[k] \in [Target -> ImpactRow] /\ imp[k] \in [Target -> ImpactRow]
      BY DEF ImpactMap, Core
    <3>2. \A u \in Target : imp2[k][u] = imp[k][u]
      BY <2>1
    <3> QED BY <3>1, <3>2
  <2> QED BY <2>1, <2>2 DEF Settled, Core
<1>7. OnlyResumed(imp2, inc2)
  <2> SUFFICES ASSUME NEW k \in IncidentId, NEW u \in Target, k # i,
                      inc2[k].status = "resolved", Active(imp2, k, u)
               PROVE  /\ inc2[k].resumptions > 0
                      /\ inc2[k].impactCount = 1
    BY DEF OnlyResumed
  <2>1. Active(imp, k, u) /\ inc2[k] = inc[k]
    BY DEF Active
  <2> QED BY <2>1 DEF OnlyResumed, Core
<1>8. ASSUME NEW k \in IncidentId, NEW u \in Target, k # i,
             Active(imp2, i, u), Active(imp2, k, u),
             KeyOf[inc2[i].nature] = KeyOf[inc2[k].nature]
      PROVE  inc2[i].resumptions > 0 \/ inc2[k].resumptions > 0
  <2>1. Active(imp, k, u) /\ inc2[k] = inc[k]
    BY <1>8 DEF Active
  <2>2. ASSUME Active(imp, i, u), inc[i].status # "none"
        PROVE  inc2[i].resumptions > 0 \/ inc2[k].resumptions > 0
    <3>1. inc[i].resumptions > 0 \/ inc[k].resumptions > 0
      BY <1>8, <2>1, <2>2 DEF OneCycle, Core
    <3>2. inc[i].resumptions \in Nat /\ inc2[i].resumptions \in Nat
      BY DEF Core, IncidentMap, IncidentRow
    <3> QED BY <2>1, <2>2, <3>1, <3>2
  <2>3. CASE u = t
    BY <1>8, <2>1, <2>2, <2>3
  <2>4. CASE u # t
    <3>1. Active(imp, i, u)
      BY <1>8, <2>4 DEF Active
    <3>2. inc[i].status # "none"
      BY <3>1 DEF Core, Unborn, Active
    <3> QED BY <2>2, <3>1, <3>2
  <2> QED BY <2>3, <2>4
<1>9. OneCycle(imp2, inc2)
  <2> SUFFICES ASSUME NEW j \in IncidentId, NEW k \in IncidentId, NEW u \in Target,
                      j # k, Active(imp2, j, u), Active(imp2, k, u),
                      KeyOf[inc2[j].nature] = KeyOf[inc2[k].nature]
               PROVE  inc2[j].resumptions > 0 \/ inc2[k].resumptions > 0
    BY DEF OneCycle
  <2>1. CASE j = i
    BY <1>8, <2>1
  <2>2. CASE k = i
    BY <1>8, <2>2
  <2>3. CASE j # i /\ k # i
    <3>1. Active(imp, j, u) /\ Active(imp, k, u) /\ inc2[j] = inc[j] /\ inc2[k] = inc[k]
      BY <2>3 DEF Active
    <3> QED BY <3>1 DEF OneCycle, Core
  <2> QED BY <2>1, <2>2, <2>3
<1>10. ResolvedClosed(inc2)
  BY DEF ResolvedClosed, Core
<1>11. ASSUME NEW e \in E, <<e.incident, e.target>> \notin T
       PROVE  e.severity <= imp2[e.incident][e.target].severity
  <2>1. e \in ev /\ <<e.incident, e.target>> # <<i, t>> /\ <<e.incident, e.target>> \notin touched
    BY <1>11
  <2>2. e.incident \in IncidentId /\ e.target \in Target
    BY <2>1 DEF Core, EvidenceRow
  <2>3. imp2[e.incident][e.target] = imp[e.incident][e.target]
    BY <2>1, <2>2
  <2> QED BY <2>1, <2>3 DEF Core, Severe
<1>12. ASSUME NEW k \in IncidentId, NEW u \in Target, k \notin IncidentsOf(T), Active(imp2, k, u)
       PROVE  imp2[k][u].severity <= inc2[k].severity
  <2>1. k # i /\ k \notin IncidentsOf(touched)
    <3>1. <<i, t>> \in T /\ <<i, t>>[1] = i
      OBVIOUS
    <3>2. i \in IncidentsOf(T)
      BY <3>1 DEF IncidentsOf
    <3>3. IncidentsOf(touched) \subseteq IncidentsOf(T)
      BY DEF IncidentsOf
    <3> QED BY <1>12, <3>2, <3>3
  <2>2. imp2[k][u] = imp[k][u] /\ inc2[k] = inc[k]
    BY <2>1
  <2> QED BY <1>12, <2>1, <2>2 DEF Core, Severe, Active
<1>13. Severe(E, imp2, inc2, T)
  BY <1>11, <1>12 DEF Severe
<1> QED BY <1>1, <1>2, <1>3, <1>4, <1>5, <1>6, <1>7, <1>9, <1>10, <1>13 DEF Core

----------------------------------------------------------------------------
(* The inductive invariant *)

\* Rows are silent where they must be, an idle transaction holds nothing and
\* an open one carries no fact of a removed owner.
IInv ==
    /\ TypeOK
    /\ Core(evidence, impact, incident, tx.touched)
    /\ \A e \in evidence : e.ident \notin standing
    /\ RetiredIsSilent
    /\ ~tx.open => tx = Idle
    /\ \A f \in tx.facts : OwnerOf[f.ident] \notin removed

LEMMA InitEstablishes == Init => IInv
<1> SUFFICES ASSUME Init PROVE IInv
  OBVIOUS
<1>1. NoIncident \in IncidentRow /\ NoImpact \in ImpactRow
  BY CycleConstants DEF NoIncident, IncidentRow, NoImpact, ImpactRow, Severity
<1>2. impact \in ImpactMap /\ incident \in IncidentMap
  BY <1>1 DEF Init, ImpactMap, IncidentMap
<1>3. TypeOK
  BY <1>2 DEF Init, TypeOK, ImpactMap, IncidentMap, Idle
<1>4. \A i \in IncidentId, t \in Target : impact[i][t].status = "absent"
  BY DEF Init, NoImpact
<1>5. \A i \in IncidentId : incident[i].status = "none"
  BY DEF Init, NoIncident
<1>6. Core(evidence, impact, incident, tx.touched)
  <2>1. tx.touched = {} /\ evidence = {}
    BY DEF Init, Idle
  <2> QED BY <1>2, <1>4, <1>5, <2>1
      DEF Core, Feeding, Active, Unborn, Settled, OnlyResumed, ResolvedClosed, OneCycle, Severe
<1> QED BY <1>3, <1>6 DEF IInv, Init, RetiredIsSilent, Idle

\* Recomputing no impact changes none.
LEMMA NothingRecomputed ==
    ASSUME NEW ev, NEW imp \in ImpactMap
    PROVE  RecomputeImpacts(ev, imp, {}) = imp
BY DEF RecomputeImpacts, ImpactMap

\* The places of rows of evidence are impacts, of incidents that exist.
LEMMA PlacesExist ==
    ASSUME IInv, NEW rows \in SUBSET evidence
    PROVE  /\ Places(rows) \in SUBSET (IncidentId \X Target)
           /\ IncidentsOf(Places(rows)) \in SUBSET IncidentId
           /\ \A i \in IncidentsOf(Places(rows)) : incident[i].status # "none"
<1>1. \A e \in rows : /\ e.incident \in IncidentId /\ e.target \in Target
                      /\ incident[e.incident].status # "none"
  BY RowsHavePlaces DEF IInv
<1>2. Places(rows) \in SUBSET (IncidentId \X Target)
  BY <1>1 DEF Places
<1>3. \A i \in IncidentsOf(Places(rows)) : \E e \in rows : i = e.incident
  BY DEF Places, IncidentsOf
<1> QED BY <1>1, <1>2, <1>3

LEMMA RowsResolved ==
    ASSUME IInv, ~tx.open, NEW rows \in SUBSET evidence,
           NEW at \in Nat, NEW gone \in SUBSET Target,
           ResolveRows(rows, at, gone)
    PROVE  Core(evidence', impact', incident', {}) /\ evidence' \subseteq evidence
<1>1. Core(evidence, impact, incident, {})
  BY DEF IInv, Idle
<1>2. /\ Places(rows) \in SUBSET (IncidentId \X Target)
      /\ IncidentsOf(Places(rows)) \in SUBSET IncidentId
      /\ \A i \in IncidentsOf(Places(rows)) : incident[i].status # "none"
  BY PlacesExist
<1>3. IncidentsOf({}) = {}
  BY DEF IncidentsOf
<1> DEFINE places == Places(rows)
           ids == IncidentsOf(places)
<1>4. CoreAfter(evidence, impact, incident, rows, places, ids, at, gone, {})
  <2> HIDE DEF places, ids
  <2>1. /\ places \in SUBSET (IncidentId \X Target) /\ ids \in SUBSET IncidentId
        /\ Places(rows) \subseteq places /\ places \subseteq Places(rows) \cup {}
        /\ IncidentsOf(places) \subseteq ids
        /\ \A i \in ids : incident[i].status # "none"
        /\ \A i \in IncidentsOf({}) : i \in ids \/ i \in IncidentsOf({})
        /\ {} \ {} \subseteq places
    BY <1>2 DEF places, ids
  <2> QED BY <1>1, <2>1, ResolveKeepsCore
<1> QED BY <1>4 DEF ResolveRows, CoreAfter

LEMMA AdvanceKeepsCore ==
    ASSUME IInv, ~tx.open, NEW at \in Nat, Advances(at)
    PROVE  Core(evidence, impact, incident', {})
<1>1. Core(evidence, impact, incident, {})
  BY DEF IInv, Idle
<1> archived \in SUBSET Target
  BY DEF IInv, TypeOK
<1> DEFINE ids == Due(incident, at)
           new == RecomputeImpacts(evidence \ {}, impact, {})
<1>2. /\ ids \in SUBSET IncidentId
      /\ \A i \in ids : incident[i].status # "none"
      /\ Places({}) = {} /\ IncidentsOf({}) = {}
  BY DEF Due, Places, IncidentsOf
<1>3. CoreAfter(evidence, impact, incident, {}, {}, ids, at, archived, {})
  <2> HIDE DEF ids
  <2>1. /\ {} \in SUBSET evidence /\ {} \in SUBSET (IncidentId \X Target)
        /\ Places({}) \subseteq {} /\ {} \subseteq Places({}) \cup {}
        /\ IncidentsOf({}) \subseteq ids
        /\ \A i \in IncidentsOf({}) : i \in ids \/ i \in IncidentsOf({})
        /\ {} \in SUBSET {} /\ {} \ {} \subseteq {}
    BY <1>2
  <2> QED BY <1>1, <1>2, <2>1, ResolveKeepsCore
<1>4. new = impact
  BY <1>1, NothingRecomputed DEF Core
<1>5. evidence \ {} = evidence
  OBVIOUS
<1> QED BY <1>3, <1>4, <1>5 DEF Advances, CoreAfter

\* Between transactions: the tables and the sets that silence rows are all
\* that has to be shown.
LEMMA OutsideKeeps ==
    ASSUME IInv, ~tx.open, UNCHANGED tx,
           Core(evidence', impact', incident', {}),
           now' \in Nat, archived' \in SUBSET Target, removed' \in SUBSET Owner,
           standing' \in SUBSET Identity,
           \A e \in evidence' : /\ e.ident \notin standing'
                                /\ e.target \notin archived'
                                /\ OwnerOf[e.ident] \notin removed'
    PROVE  IInv'
<1>1. tx' = Idle /\ tx'.touched = {} /\ tx'.facts = {}
  BY DEF IInv, Idle
<1>2. evidence' \in SUBSET EvidenceRow /\ impact' \in ImpactMap /\ incident' \in IncidentMap
  BY DEF Core
<1>3. TypeOK'
  BY <1>2 DEF TypeOK, IInv, ImpactMap, IncidentMap
<1> QED BY <1>1, <1>3 DEF IInv, RetiredIsSilent

\* Inside: a fact is consumed and places are touched.
LEMMA FactKeeps ==
    ASSUME IInv, tx.open, NEW f \in tx.facts, NEW places, Consume(f, places),
           Core(evidence', impact', incident', tx.touched \cup places),
           UNCHANGED <<now, archived, removed, standing>>,
           \A e \in evidence' : /\ e.ident \notin standing
                                /\ e.target \notin archived
                                /\ OwnerOf[e.ident] \notin removed
    PROVE  IInv'
<1> DEFINE TxType == [open : BOOLEAN, advance : BOOLEAN, at : Nat,
               facts : SUBSET FactType, seen : SUBSET Identity,
               observed : SUBSET Identity, touched : SUBSET (IncidentId \X Target)]
<1>1. tx \in TxType
  BY DEF IInv, TypeOK
<1>2. f.ident \in Identity
  BY <1>1 DEF FactType
<1>3. tx.touched \cup places \in SUBSET (IncidentId \X Target)
  BY DEF Core
<1>4. /\ tx' \in TxType
      /\ tx'.open = TRUE
      /\ tx'.touched = tx.touched \cup places
      /\ tx'.facts \subseteq tx.facts
  BY <1>1, <1>2, <1>3 DEF Consume
<1>5. evidence' \in SUBSET EvidenceRow /\ impact' \in ImpactMap /\ incident' \in IncidentMap
  BY DEF Core
<1>6. TypeOK'
  BY <1>4, <1>5 DEF TypeOK, IInv, ImpactMap, IncidentMap
<1> QED BY <1>4, <1>6 DEF IInv, RetiredIsSilent

\* What a fact finds once the row of another cause is resolved.
LEMMA KeptIsCore ==
    ASSUME IInv, NEW f \in tx.facts
    PROVE  /\ Core(KeptEvidence(f), KeptImpacts(f), KeptIncidents(f), tx.touched)
           /\ KeptEvidence(f) \subseteq evidence
           /\ \A e \in KeptEvidence(f) : e.ident # f.ident
           /\ \A i \in IncidentId : /\ incident[i].status = "none"
                                       => KeptIncidents(f)[i].status = "none"
                                    /\ incident[i].propagation = "closed"
                                       => KeptIncidents(f)[i].propagation = "closed"
<1>1. /\ Core(evidence, impact, incident, tx.touched)
      /\ tx.at \in Nat /\ archived \in SUBSET Target
  BY DEF IInv, TypeOK
<1> DEFINE rows == RowOf(f)
           places == Places(rows)
           ids == IncidentsOf(places)
<1>2. rows \in SUBSET evidence
  BY DEF RowOf
<1>3. /\ places \in SUBSET (IncidentId \X Target)
      /\ ids \in SUBSET IncidentId
      /\ \A i \in ids : incident[i].status # "none"
  <2> HIDE DEF rows
  <2> QED BY <1>2, PlacesExist
<1>4. CoreAfter(evidence, impact, incident, rows, places, ids, tx.at, archived, tx.touched)
  <2> HIDE DEF rows, ids, places
  <2>1. /\ Places(rows) \subseteq places /\ places \subseteq Places(rows) \cup tx.touched
        /\ IncidentsOf(places) \subseteq ids
        /\ tx.touched \in SUBSET tx.touched /\ tx.touched \ tx.touched \subseteq places
        /\ \A i \in IncidentsOf(tx.touched) : i \in ids \/ i \in IncidentsOf(tx.touched)
    BY DEF ids, places
  <2> QED BY <1>1, <1>2, <1>3, <2>1, ResolveKeepsCore
<1>5. Core(KeptEvidence(f), KeptImpacts(f), KeptIncidents(f), tx.touched)
  BY <1>4 DEF CoreAfter, KeptEvidence, KeptImpacts, KeptIncidents
<1>6. \A e \in KeptEvidence(f) : e \in evidence /\ e.ident # f.ident
  BY DEF KeptEvidence, RowOf
<1>7. IncidentsFollow(KeptIncidents(f), incident, KeptImpacts(f), ids)
  <2>1. KeptImpacts(f) \in ImpactMap /\ incident \in IncidentMap
    BY <1>1, <1>5 DEF Core
  <2> HIDE DEF ids, places, rows
  <2>2. IncidentsFollow(RecomputeIncidents(incident, KeptImpacts(f), ids, tx.at, archived),
                        incident, KeptImpacts(f), ids)
    BY <1>1, <2>1, IncidentsRecomputed
  <2> QED BY <2>2 DEF KeptIncidents, ids, places, rows
<1>8. ASSUME NEW i \in IncidentId
      PROVE  /\ incident[i].status = "none" => KeptIncidents(f)[i].status = "none"
             /\ incident[i].propagation = "closed"
                => KeptIncidents(f)[i].propagation = "closed"
  <2> HIDE DEF ids
  <2> QED BY <1>3, <1>7 DEF IncidentsFollow, Recomputed
<1> QED BY <1>5, <1>6, <1>8

----------------------------------------------------------------------------
(* The steps of a snapshot *)

\* A new row in the tables a fact finds, attached to the incident chosen by
\* ensureImpact.
LEMMA AttachKeeps ==
    ASSUME IInv, NEW f \in tx.facts, Accepted(f), NEW i \in IncidentId,
           NEW imp2 \in ImpactMap, NEW inc2 \in IncidentMap,
           Attach(f, i, imp2, inc2),
           Active(imp2, i, f.target),
           \A k \in IncidentId, u \in Target :
               <<k, u>> # <<i, f.target>> => imp2[k][u] = KeptImpacts(f)[k][u],
           \A k \in IncidentId : k # i => inc2[k] = KeptIncidents(f)[k],
           inc2[i].status # "none",
           inc2[i].status = "resolved" =>
               /\ inc2[i].resumptions > 0
               /\ inc2[i].impactCount = 1
               /\ inc2[i].propagation = "closed",
           \/ KeptIncidents(f)[i].status = "none"
           \/ /\ inc2[i].nature = KeptIncidents(f)[i].nature
              /\ inc2[i].resumptions >= KeptIncidents(f)[i].resumptions,
           \/ inc2[i].resumptions > 0
           \/ KeptIncidents(f)[i].status # "none" /\ Active(KeptImpacts(f), i, f.target)
           \/ \A k \in IncidentId :
                 (/\ k # i /\ Active(KeptImpacts(f), k, f.target)
                  /\ KeyOf[inc2[k].nature] = KeyOf[inc2[i].nature])
                 => KeptIncidents(f)[k].resumptions > 0
    PROVE  IInv'
<1> DEFINE row == [ident |-> f.ident, incident |-> i, target |-> f.target,
                   severity |-> f.severity]
<1>1. /\ tx.open /\ f.ident \notin standing /\ f.target \notin archived
      /\ OwnerOf[f.ident] \notin removed
  BY DEF Accepted, Displaces, Next1, IInv
<1>2. f \in FactType
  BY DEF IInv, TypeOK
<1>3. /\ row \in EvidenceRow /\ row.incident = i /\ row.target = f.target
      /\ row.ident = f.ident /\ f.target \in Target
  BY <1>2 DEF EvidenceRow, FactType
<1>4. /\ Core(KeptEvidence(f), KeptImpacts(f), KeptIncidents(f), tx.touched)
      /\ KeptEvidence(f) \subseteq evidence
      /\ \A e \in KeptEvidence(f) : e.ident # row.ident
  BY <1>3, KeptIsCore
<1>5. /\ evidence' = KeptEvidence(f) \cup {row}
      /\ impact' = imp2 /\ incident' = inc2
      /\ Consume(f, {<<i, f.target>>})
      /\ UNCHANGED <<now, archived, removed, standing>>
  BY DEF Attach
<1>6. Core(KeptEvidence(f) \cup {row}, imp2, inc2, tx.touched \cup {<<i, f.target>>})
  <2> HIDE DEF row
  <2> QED BY <1>3, <1>4, AttachKeepsCore
<1>7. \A e \in evidence' : /\ e.ident \notin standing
                           /\ e.target \notin archived
                           /\ OwnerOf[e.ident] \notin removed
  BY <1>1, <1>3, <1>4, <1>5 DEF IInv, RetiredIsSilent
<1> QED BY <1>1, <1>5, <1>6, <1>7, FactKeeps

\* The rows that extendPropagation and the creation of an incident write.
LEMMA WrittenRows ==
    ASSUME NEW f \in FactType
    PROVE  /\ NewIncident(f) \in IncidentRow
           /\ \A row \in IncidentRow : Extended(row, f) \in IncidentRow
<1>1. /\ OwnerOf[f.ident] \in Owner /\ Interval[OwnerOf[f.ident]] \in Nat
      /\ f.evaluation \in Nat /\ f.openedAt \in Nat /\ f.nature \in Nature
      /\ f.severity \in Severity
      /\ Eligible[f.nature] \in BOOLEAN
  BY CycleConstants DEF FactType
<1>2. EvidenceWindow(f) \in Nat
  BY <1>1, CycleConstants DEF EvidenceWindow, Larger, Smaller
<1>3. NewIncident(f) \in IncidentRow
  BY <1>1, <1>2 DEF NewIncident, IncidentRow
<1>4. ASSUME NEW row \in IncidentRow PROVE Extended(row, f) \in IncidentRow
  <2> DEFINE last == Larger(row.lastImpact, f.openedAt)
             window == Larger(row.window, EvidenceWindow(f))
  <2>1. last \in Nat /\ window \in Nat
    BY <1>1, <1>2 DEF Larger, IncidentRow
  <2> HIDE DEF last, window
  <2>2. Larger(row.endsAt, last + window) \in Nat
    BY <2>1 DEF Larger, IncidentRow
  <2>3. Extended(row, f) = [row EXCEPT !.lastImpact = last, !.window = window,
                                !.endsAt = Larger(row.endsAt, last + window)]
    BY DEF Extended, last, window
  <2> QED BY ZenonT(60), <2>1, <2>2, <2>3 DEF IncidentRow
<1> QED BY <1>3, <1>4

\* Setting one impact active changes that one only.
LEMMA ActivatedImpact ==
    ASSUME NEW imp \in ImpactMap, NEW f \in FactType, NEW i \in IncidentId
    PROVE  /\ Activated(imp, i, f) \in ImpactMap
           /\ Active(Activated(imp, i, f), i, f.target)
           /\ \A k \in IncidentId, u \in Target :
                 <<k, u>> # <<i, f.target>> => Activated(imp, i, f)[k][u] = imp[k][u]
<1>1. /\ f.target \in Target /\ imp[i] \in [Target -> ImpactRow]
      /\ [status |-> "active", severity |-> f.severity] \in ImpactRow
  BY DEF FactType, ImpactRow, ImpactMap
<1>2. Activated(imp, i, f) = [imp EXCEPT ![i] =
          [imp[i] EXCEPT ![f.target] = [status |-> "active", severity |-> f.severity]]]
  BY DEF Activated
<1> QED BY <1>1, <1>2 DEF ImpactMap, Active

LEMMA JoinImpactKeeps ==
    ASSUME IInv, NEW f \in tx.facts, JoinImpact(f) PROVE IInv'
<1> DEFINE imp == KeptImpacts(f)
           inc == KeptIncidents(f)
<1>1. imp \in ImpactMap /\ inc \in IncidentMap
  BY KeptIsCore DEF Core
<1>2. PICK i \in ActiveHomes(f, imp, inc) : Attach(f, i, imp, inc)
  BY DEF JoinImpact
<1>3. /\ i \in IncidentId /\ Active(imp, i, f.target) /\ inc[i].status = "active"
  BY <1>2 DEF ActiveHomes, Active
<1>4. inc[i].resumptions \in Nat
  BY <1>1, <1>3 DEF IncidentMap, IncidentRow
<1> HIDE DEF imp, inc
<1>5. /\ \A k \in IncidentId, u \in Target :
             <<k, u>> # <<i, f.target>> => imp[k][u] = KeptImpacts(f)[k][u]
      /\ \A k \in IncidentId : k # i => inc[k] = KeptIncidents(f)[k]
      /\ inc[i].status # "none" /\ inc[i].status # "resolved"
      /\ inc[i].nature = KeptIncidents(f)[i].nature
      /\ inc[i].resumptions >= KeptIncidents(f)[i].resumptions
      /\ KeptIncidents(f)[i].status # "none" /\ Active(KeptImpacts(f), i, f.target)
  BY <1>3, <1>4 DEF imp, inc
<1>6. Accepted(f)
  BY DEF JoinImpact
<1> QED BY <1>1, <1>2, <1>3, <1>5, <1>6, AttachKeeps

\* When the first query of ensureImpact finds nothing, the incidents that hold
\* the target for the cause were resumed, in the same snapshot.
LEMMA NoHomeMeansResumed ==
    ASSUME IInv, NEW f \in tx.facts,
           ActiveHomes(f, KeptImpacts(f), KeptIncidents(f)) = {},
           NEW k \in IncidentId, Active(KeptImpacts(f), k, f.target),
           KeyOf[KeptIncidents(f)[k].nature] = KeyOf[f.nature]
    PROVE  KeptIncidents(f)[k].resumptions > 0
<1> DEFINE imp == KeptImpacts(f)
           inc == KeptIncidents(f)
<1>1. Core(KeptEvidence(f), imp, inc, tx.touched) /\ f.target \in Target
  BY KeptIsCore DEF IInv, TypeOK, FactType
<1> HIDE DEF imp, inc
<1>2. inc[k].status # "active"
  BY DEF ActiveHomes, Active, imp, inc
<1>3. Active(imp, k, f.target)
  BY DEF imp
<1>4. inc[k].status # "none"
  BY <1>1, <1>3 DEF Core, Unborn, Active
<1>5. inc[k] \in IncidentRow
  BY <1>1 DEF Core, IncidentMap
<1>6. inc[k].status = "resolved"
  BY <1>2, <1>4, <1>5 DEF IncidentRow
<1>7. inc[k].resumptions > 0
  BY <1>1, <1>3, <1>6 DEF Core, OnlyResumed
<1> QED BY <1>7 DEF inc

LEMMA JoinPropagationKeeps ==
    ASSUME IInv, NEW f \in tx.facts, JoinPropagation(f) PROVE IInv'
<1> DEFINE imp == KeptImpacts(f)
           inc == KeptIncidents(f)
<1>1. imp \in ImpactMap /\ inc \in IncidentMap
  BY KeptIsCore DEF Core
<1>2. PICK i \in Propagating(f, inc) :
          Attach(f, i, Activated(imp, i, f), [inc EXCEPT ![i] = Extended(@, f)])
  BY DEF JoinPropagation
<1>3. /\ Accepted(f) /\ ActiveHomes(f, imp, inc) = {}
      /\ i \in IncidentId /\ inc[i].status = "active" /\ inc[i].nature = f.nature
      /\ f \in FactType
  BY <1>2 DEF JoinPropagation, Propagating, IInv, TypeOK
<1> DEFINE imp2 == Activated(imp, i, f)
           inc2 == [inc EXCEPT ![i] = Extended(@, f)]
<1>4. /\ imp2 \in ImpactMap /\ Active(imp2, i, f.target)
      /\ \A k \in IncidentId, u \in Target :
             <<k, u>> # <<i, f.target>> => imp2[k][u] = KeptImpacts(f)[k][u]
  BY <1>1, <1>3, ActivatedImpact
<1>5. inc[i] \in IncidentRow /\ Extended(inc[i], f) \in IncidentRow
  BY <1>1, <1>3, WrittenRows DEF IncidentMap
<1>6. /\ Extended(inc[i], f).status = "active"
      /\ Extended(inc[i], f).nature = f.nature
      /\ Extended(inc[i], f).resumptions = inc[i].resumptions
  BY <1>3, <1>5 DEF Extended, IncidentRow
<1>7. inc2 \in IncidentMap
  BY <1>1, <1>3, <1>5 DEF IncidentMap
<1>8. inc2[i] = Extended(inc[i], f) /\ \A k \in IncidentId : k # i => inc2[k] = inc[k]
  BY <1>1, <1>3 DEF IncidentMap
<1>9. inc[i].resumptions \in Nat
  BY <1>5 DEF IncidentRow
<1>10. \A k \in IncidentId :
          (/\ k # i /\ Active(KeptImpacts(f), k, f.target)
           /\ KeyOf[inc2[k].nature] = KeyOf[inc2[i].nature])
          => KeptIncidents(f)[k].resumptions > 0
  BY <1>3, <1>6, <1>8, NoHomeMeansResumed
<1>11. Attach(f, i, imp2, inc2)
  BY <1>2
<1> HIDE DEF imp2, inc2
<1>12. /\ \A k \in IncidentId : k # i => inc2[k] = KeptIncidents(f)[k]
       /\ inc2[i].status # "none" /\ inc2[i].status # "resolved"
       /\ inc2[i].nature = KeptIncidents(f)[i].nature
       /\ inc2[i].resumptions >= KeptIncidents(f)[i].resumptions
  BY <1>3, <1>6, <1>8, <1>9
<1> QED BY <1>3, <1>4, <1>7, <1>10, <1>11, <1>12, AttachKeeps

LEMMA ResumeIncidentKeeps ==
    ASSUME IInv, NEW f \in tx.facts, ResumeIncident(f) PROVE IInv'
<1> DEFINE imp == KeptImpacts(f)
           inc == KeptIncidents(f)
<1>1. imp \in ImpactMap /\ inc \in IncidentMap /\ ResolvedClosed(inc)
  BY KeptIsCore DEF Core
<1>2. PICK i \in Resumable(f, imp, inc) :
          Attach(f, i, Activated(imp, i, f), [inc EXCEPT ![i].resumptions = @ + 1])
  BY DEF ResumeIncident
<1>3. /\ Accepted(f) /\ i \in IncidentId /\ f \in FactType
      /\ inc[i].status = "resolved" /\ inc[i].impactCount = 1
  BY <1>2 DEF ResumeIncident, Resumable, IInv, TypeOK
<1> DEFINE imp2 == Activated(imp, i, f)
           inc2 == [inc EXCEPT ![i].resumptions = @ + 1]
<1>4. /\ imp2 \in ImpactMap /\ Active(imp2, i, f.target)
      /\ \A k \in IncidentId, u \in Target :
             <<k, u>> # <<i, f.target>> => imp2[k][u] = KeptImpacts(f)[k][u]
  BY <1>1, <1>3, ActivatedImpact
<1>5. inc[i] \in IncidentRow /\ inc[i].propagation = "closed" /\ inc[i].resumptions \in Nat
  BY <1>1, <1>3 DEF IncidentMap, IncidentRow, ResolvedClosed
<1>6. /\ inc2[i] = [inc[i] EXCEPT !.resumptions = @ + 1]
      /\ \A k \in IncidentId : k # i => inc2[k] = inc[k]
      /\ inc2 \in IncidentMap
  <2>1. [inc[i] EXCEPT !.resumptions = @ + 1] \in IncidentRow
    BY <1>5 DEF IncidentRow
  <2> QED BY <1>1, <1>3, <2>1 DEF IncidentMap
<1>7. /\ inc2[i].status = "resolved" /\ inc2[i].impactCount = 1
      /\ inc2[i].propagation = "closed" /\ inc2[i].nature = inc[i].nature
      /\ inc2[i].resumptions = inc[i].resumptions + 1
  BY <1>3, <1>5, <1>6 DEF IncidentRow
<1>8. Attach(f, i, imp2, inc2)
  BY <1>2
<1> HIDE DEF imp2, inc2
<1>9. /\ \A k \in IncidentId : k # i => inc2[k] = KeptIncidents(f)[k]
      /\ inc2[i].status # "none"
      /\ inc2[i].resumptions > 0
      /\ inc2[i].nature = KeptIncidents(f)[i].nature
      /\ inc2[i].resumptions >= KeptIncidents(f)[i].resumptions
      /\ inc2 \in IncidentMap
  BY <1>5, <1>6, <1>7
<1>10. inc2[i].impactCount = 1 /\ inc2[i].propagation = "closed"
  BY <1>7
<1> QED BY <1>3, <1>4, <1>8, <1>9, <1>10, AttachKeeps

LEMMA OpenIncidentKeeps ==
    ASSUME IInv, NEW f \in tx.facts, OpenIncident(f) PROVE IInv'
<1> DEFINE imp == KeptImpacts(f)
           inc == KeptIncidents(f)
           i == CHOOSE k \in FreeIncidents : TRUE
           imp2 == Activated(imp, i, f)
           inc2 == [inc EXCEPT ![i] = NewIncident(f)]
<1>1. imp \in ImpactMap /\ inc \in IncidentMap
  BY KeptIsCore DEF Core
<1>2. /\ Accepted(f) /\ ActiveHomes(f, imp, inc) = {} /\ FreeIncidents # {}
      /\ Attach(f, i, imp2, inc2)
  BY DEF OpenIncident
<1>3. i \in FreeIncidents
  BY <1>2
<1> HIDE DEF i
<1>4. i \in IncidentId /\ inc[i].status = "none" /\ f \in FactType
  BY <1>3, KeptIsCore DEF FreeIncidents, IInv, TypeOK
<1>5. /\ imp2 \in ImpactMap /\ Active(imp2, i, f.target)
      /\ \A k \in IncidentId, u \in Target :
             <<k, u>> # <<i, f.target>> => imp2[k][u] = KeptImpacts(f)[k][u]
  BY <1>1, <1>4, ActivatedImpact
<1>6. /\ inc2 \in IncidentMap /\ inc2[i] = NewIncident(f)
      /\ \A k \in IncidentId : k # i => inc2[k] = KeptIncidents(f)[k]
  BY <1>1, <1>4, WrittenRows DEF IncidentMap
<1>7. inc2[i].status = "active" /\ inc2[i].nature = f.nature
  BY <1>6 DEF NewIncident
<1> HIDE DEF imp2, inc2
<1>8. \A k \in IncidentId :
          (/\ k # i /\ Active(KeptImpacts(f), k, f.target)
           /\ KeyOf[inc2[k].nature] = KeyOf[inc2[i].nature])
          => KeptIncidents(f)[k].resumptions > 0
  BY <1>2, <1>6, <1>7, NoHomeMeansResumed
<1>9. KeptIncidents(f)[i].status = "none" /\ inc2[i].status # "none" /\ inc2[i].status # "resolved"
  BY <1>4, <1>7
<1> QED BY <1>2, <1>4, <1>5, <1>6, <1>8, <1>9, AttachKeeps

LEMMA SkipDuplicateKeeps ==
    ASSUME IInv, NEW f \in tx.facts, SkipDuplicate(f) PROVE IInv'
<1>1. /\ tx.open /\ Consume(f, {})
      /\ UNCHANGED <<now, archived, removed, standing>>
      /\ UNCHANGED <<evidence, impact, incident>>
  BY DEF SkipDuplicate, Next1
<1>2. tx.touched \cup {} = tx.touched
  OBVIOUS
<1>3. Core(evidence', impact', incident', tx.touched \cup {})
  BY <1>1, <1>2 DEF IInv
<1>4. \A e \in evidence' : /\ e.ident \notin standing
                           /\ e.target \notin archived
                           /\ OwnerOf[e.ident] \notin removed
  BY <1>1 DEF IInv, RetiredIsSilent
<1> QED BY <1>1, <1>3, <1>4, FactKeeps

LEMMA IgnoreFactKeeps ==
    ASSUME IInv, NEW f \in tx.facts, IgnoreFact(f) PROVE IInv'
<1>1. /\ tx.open /\ Consume(f, {})
      /\ UNCHANGED <<now, archived, removed, standing>>
      /\ evidence' = KeptEvidence(f) /\ impact' = KeptImpacts(f)
      /\ incident' = KeptIncidents(f)
  BY DEF IgnoreFact, Displaces, Next1
<1>2. tx.touched \cup {} = tx.touched
  OBVIOUS
<1>3. /\ Core(evidence', impact', incident', tx.touched \cup {})
      /\ evidence' \subseteq evidence
  BY <1>1, <1>2, KeptIsCore
<1>4. \A e \in evidence' : /\ e.ident \notin standing
                           /\ e.target \notin archived
                           /\ OwnerOf[e.ident] \notin removed
  BY <1>3 DEF IInv, RetiredIsSilent
<1> QED BY <1>1, <1>3, <1>4, FactKeeps

LEMMA RefreshEvidenceKeeps ==
    ASSUME IInv, NEW f \in tx.facts, RefreshEvidence(f) PROVE IInv'
<1>1. PICK e \in evidence :
          /\ evidence' = (evidence \ {e}) \cup {[e EXCEPT !.severity = f.severity]}
          /\ Consume(f, {<<e.incident, e.target>>})
  BY DEF RefreshEvidence, RowOf
<1>2. tx.open /\ UNCHANGED <<now, archived, removed, standing>> /\ UNCHANGED <<impact, incident>>
  BY DEF RefreshEvidence, Next1
<1> DEFINE row == [e EXCEPT !.severity = f.severity]
           T == tx.touched \cup {<<e.incident, e.target>>}
<1>3. Core(evidence, impact, incident, tx.touched)
  BY DEF IInv
<1>4. /\ e.incident \in IncidentId /\ e.target \in Target
      /\ Active(impact, e.incident, e.target)
  BY <1>3, RowsHavePlaces
<1>5. /\ row \in EvidenceRow /\ row.ident = e.ident
      /\ row.incident = e.incident /\ row.target = e.target
  <2>1. f.severity \in Severity /\ e \in EvidenceRow
    BY <1>3 DEF IInv, TypeOK, FactType, Core
  <2> QED BY <2>1 DEF EvidenceRow
<1>6. evidence' = (evidence \ {e}) \cup {row}
  BY <1>1
<1> HIDE DEF row
<1>7. evidence' \in SUBSET EvidenceRow
  BY <1>3, <1>5, <1>6 DEF Core
<1>8. \A d, c \in evidence' : d.ident = c.ident => d = c
  BY <1>3, <1>5, <1>6 DEF Core
<1>9. ASSUME NEW i \in IncidentId, NEW t \in Target
      PROVE  Active(impact, i, t) <=> Feeding(evidence', i, t) # {}
  <2>1. Active(impact, i, t) <=> Feeding(evidence, i, t) # {}
    BY <1>3 DEF Core
  <2>2. Feeding(evidence, i, t) # {} <=> Feeding(evidence', i, t) # {}
    BY <1>5, <1>6 DEF Feeding
  <2> QED BY <2>1, <2>2
<1>10. T \in SUBSET (IncidentId \X Target)
  BY <1>3, <1>4 DEF Core
<1>11. \A i \in IncidentId, t \in Target : <<i, t>> \in T => impact[i][t].status # "absent"
  BY <1>3, <1>4 DEF Core, Active
<1>12. IncidentsOf(tx.touched) \subseteq IncidentsOf(T)
  BY DEF IncidentsOf
<1> HIDE DEF T
<1>13. \A i \in IncidentId : i \notin IncidentsOf(T) => Settled(impact, incident, i)
  BY <1>3, <1>12 DEF Core
<1>14. Severe(evidence', impact, incident, T)
  <2>1. \A d \in evidence' : <<d.incident, d.target>> \notin T => d \in evidence
    BY <1>5, <1>6 DEF T
  <2>2. tx.touched \subseteq T
    BY DEF T
  <2> QED BY <1>3, <1>12, <2>1, <2>2 DEF Core, Severe
<1>15. Core(evidence', impact', incident', T)
  BY <1>2, <1>3, <1>7, <1>8, <1>9, <1>10, <1>11, <1>13, <1>14 DEF Core
<1>16. \A d \in evidence' : /\ d.ident \notin standing
                            /\ d.target \notin archived
                            /\ OwnerOf[d.ident] \notin removed
  BY <1>5, <1>6 DEF IInv, RetiredIsSilent
<1> QED BY <1>1, <1>2, <1>15, <1>16, FactKeeps DEF T

LEMMA ApplyFactKeeps == ASSUME IInv, ApplyFact PROVE IInv'
BY SkipDuplicateKeeps, RefreshEvidenceKeeps, IgnoreFactKeeps, JoinImpactKeeps,
   JoinPropagationKeeps, ResumeIncidentKeeps, OpenIncidentKeeps DEF ApplyFact

\* A transaction begins with typed facts of owners that still exist.
LEMMA BeginKeeps ==
    ASSUME IInv, NEW facts, NEW observed \in SUBSET Identity, NEW at \in Nat,
           NEW advance \in BOOLEAN, NEW c \in Owner \ removed,
           facts \subseteq FactsOf(c, at), Begin(facts, observed, at, advance)
    PROVE  IInv'
<1>1. /\ ~tx.open
      /\ tx' = [open |-> TRUE, advance |-> advance, at |-> at, facts |-> facts,
                seen |-> {}, observed |-> observed, touched |-> {}]
      /\ UNCHANGED <<now, archived, removed, evidence, standing, impact, incident>>
  BY DEF Begin
<1>2. facts \in SUBSET FactType /\ \A f \in facts : OwnerOf[f.ident] = c
  <2>1. ASSUME NEW s \in Signal, NEW opened \in Nat
        PROVE  Fact(s, opened) \in FactType /\ Fact(s, opened).ident = s.ident
    <3>1. s \in SignalType
      BY CycleConstants
    <3> QED BY <3>1 DEF Fact, FactType, SignalType
  <2>2. ASSUME NEW f \in FactsOf(c, at)
        PROVE  f \in FactType /\ OwnerOf[f.ident] = c
    <3>1. PICK s \in {r \in Signal : OwnerOf[r.ident] = c}, opened \in Nat :
              f = Fact(s, opened)
      BY <2>2 DEF FactsOf
    <3> QED BY <2>1, <3>1
  <2> QED BY <2>2
<1>3. /\ tx'.touched = {} /\ tx'.facts = facts /\ tx'.open
      /\ tx' \in [open : BOOLEAN, advance : BOOLEAN, at : Nat,
               facts : SUBSET FactType, seen : SUBSET Identity,
               observed : SUBSET Identity, touched : SUBSET (IncidentId \X Target)]
  BY <1>1, <1>2
<1>4. TypeOK'
  BY <1>1, <1>3 DEF IInv, TypeOK
<1>5. Core(evidence', impact', incident', tx'.touched)
  <2>1. tx.touched = {}
    <3>1. tx = Idle
      BY <1>1 DEF IInv
    <3> QED BY <3>1 DEF Idle
  <2>2. Core(evidence, impact, incident, {})
    BY <2>1 DEF IInv
  <2> QED BY <1>1, <1>3, <2>2
<1> QED BY <1>1, <1>2, <1>3, <1>4, <1>5 DEF IInv, RetiredIsSilent

\* The bounded subsets are subsets.
LEMMA UpToSubsets ==
    ASSUME NEW n, NEW S, NEW X \in UpTo(n, S) PROVE X \subseteq S
<1>1. CASE X = {}
  BY <1>1
<1>2. CASE X # {}
  <2>1. PICK h \in [1..n -> S] : X = {h[k] : k \in 1..n}
    BY <1>2 DEF UpTo
  <2> QED BY <2>1
<1> QED BY <1>1, <1>2

LEMMA BeginsKeep == ASSUME IInv, BeginSnapshot \/ BeginWebhook \/ BeginNative PROVE IInv'
<1>0. now \in Nat
  BY DEF IInv, TypeOK
<1>1. CASE BeginSnapshot
  <2>1. PICK c \in Owner \ removed :
          \E at \in Larger(0, now - MaxLag)..now, observed \in ObservedSets(c) :
          \E facts \in UpTo(MaxFacts, {f \in FactsOf(c, at) : f.ident \in observed}) :
              Begin(facts, observed, at, TRUE)
    BY <1>1 DEF BeginSnapshot
  <2>a. PICK at \in Larger(0, now - MaxLag)..now, observed \in ObservedSets(c) :
          \E facts \in UpTo(MaxFacts, {f \in FactsOf(c, at) : f.ident \in observed}) :
              Begin(facts, observed, at, TRUE)
    BY <2>1
  <2>2. at \in Nat
    BY <1>0, <2>a, CycleConstants DEF Larger
  <2>3. observed \in SUBSET Identity
    BY <2>a DEF ObservedSets
  <2>4. PICK facts \in UpTo(MaxFacts, {f \in FactsOf(c, at) : f.ident \in observed}) :
              Begin(facts, observed, at, TRUE)
    BY <2>a
  <2>5. facts \subseteq FactsOf(c, at)
    BY <2>4, UpToSubsets
  <2> QED BY <2>1, <2>2, <2>3, <2>4, <2>5, BeginKeeps
<1>2. CASE BeginWebhook
  <2>1. PICK c \in Owner \ removed :
            \E f \in FactsOf(c, now) : Begin({f}, {}, now, TRUE)
    BY <1>2 DEF BeginWebhook
  <2>a. PICK f \in FactsOf(c, now) : Begin({f}, {}, now, TRUE)
    BY <2>1
  <2>2. {f} \subseteq FactsOf(c, now) /\ {} \in SUBSET Identity
    BY <2>1
  <2> QED BY <1>0, <2>1, <2>a, <2>2, BeginKeeps
<1>3. CASE BeginNative
  <2>1. PICK c \in Owner \ removed :
            \E f \in FactsOf(c, now) : Begin({f}, {}, now, FALSE)
    BY <1>3 DEF BeginNative
  <2>a. PICK f \in FactsOf(c, now) : Begin({f}, {}, now, FALSE)
    BY <2>1
  <2>2. {f} \subseteq FactsOf(c, now) /\ {} \in SUBSET Identity
    BY <2>1
  <2> QED BY <1>0, <2>1, <2>a, <2>2, BeginKeeps
<1> QED BY <1>1, <1>2, <1>3

\* The end of a snapshot recomputes every touched impact and incident.
LEMMA FinishSnapshotKeeps == ASSUME IInv, FinishSnapshot PROVE IInv'
<1> DEFINE rows == {e \in evidence : e.ident \in Healthy}
           places == tx.touched \cup Places(rows)
           due == IF tx.advance THEN Due(incident, tx.at) ELSE {}
           ids == IncidentsOf(places) \cup due
<1>1. /\ tx.open /\ tx' = Idle
      /\ UNCHANGED <<now, archived, removed>>
      /\ standing' = standing \ Healthy
      /\ evidence' = evidence \ rows
      /\ impact' = RecomputeImpacts(evidence \ rows, impact, places)
      /\ incident' = RecomputeIncidents(incident, impact', ids, tx.at, archived)
  BY DEF FinishSnapshot, RearmRecovered
<1>2. /\ Core(evidence, impact, incident, tx.touched)
      /\ tx.at \in Nat /\ archived \in SUBSET Target
  BY DEF IInv, TypeOK
<1>3. rows \in SUBSET evidence
  OBVIOUS
<1> HIDE DEF rows
<1>4. /\ Places(rows) \in SUBSET (IncidentId \X Target)
      /\ IncidentsOf(Places(rows)) \in SUBSET IncidentId
      /\ \A i \in IncidentsOf(Places(rows)) : incident[i].status # "none"
  BY <1>3, PlacesExist
<1>5. /\ tx.touched \in SUBSET (IncidentId \X Target)
      /\ IncidentsOf(tx.touched) \in SUBSET IncidentId
      /\ \A i \in IncidentsOf(tx.touched) : incident[i].status # "none"
  <2>1. tx.touched \in SUBSET (IncidentId \X Target)
    BY <1>2 DEF Core
  <2>2. ASSUME NEW i \in IncidentsOf(tx.touched)
        PROVE  i \in IncidentId /\ incident[i].status # "none"
    <3>1. PICK p \in tx.touched : i = p[1]
      BY <2>2 DEF IncidentsOf
    <3>2. p[1] \in IncidentId /\ p[2] \in Target /\ p = <<p[1], p[2]>>
      BY <2>1, <3>1
    <3>3. impact[p[1]][p[2]].status # "absent"
      BY <1>2, <3>1, <3>2 DEF Core
    <3> QED BY <1>2, <3>1, <3>2, <3>3 DEF Core, Unborn
  <2> QED BY <2>1, <2>2
<1>6. IncidentsOf(places) = IncidentsOf(tx.touched) \cup IncidentsOf(Places(rows))
  BY DEF IncidentsOf
<1>7. due \in SUBSET IncidentId /\ \A i \in due : incident[i].status # "none"
  BY DEF Due
<1> HIDE DEF due
<1>8. CoreAfter(evidence, impact, incident, rows, places, ids, tx.at, archived, {})
  <2>1. /\ places \in SUBSET (IncidentId \X Target)
        /\ Places(rows) \subseteq places /\ places \subseteq Places(rows) \cup tx.touched
    BY <1>4, <1>5
  <2>2. /\ ids \in SUBSET IncidentId /\ IncidentsOf(places) \subseteq ids
        /\ \A i \in ids : incident[i].status # "none"
        /\ \A i \in IncidentsOf(tx.touched) : i \in ids \/ i \in IncidentsOf({})
    BY <1>4, <1>5, <1>6, <1>7
  <2>3. {} \in SUBSET tx.touched /\ tx.touched \ {} \subseteq places
    OBVIOUS
  <2> HIDE DEF places, ids
  <2> QED BY <1>2, <1>3, <2>1, <2>2, <2>3, ResolveKeepsCore
<1>9. Core(evidence', impact', incident', {})
  BY <1>1, <1>8 DEF CoreAfter
<1>10. tx'.touched = {} /\ tx'.facts = {}
  BY <1>1 DEF Idle
<1>11. TypeOK'
  <2>1. evidence' \in SUBSET EvidenceRow /\ impact' \in ImpactMap /\ incident' \in IncidentMap
    BY <1>9 DEF Core
  <2>2. tx' \in [open : BOOLEAN, advance : BOOLEAN, at : Nat,
               facts : SUBSET FactType, seen : SUBSET Identity,
               observed : SUBSET Identity, touched : SUBSET (IncidentId \X Target)]
    BY <1>1 DEF Idle
  <2>3. now' \in Nat /\ archived' \subseteq Target /\ removed' \subseteq Owner
        /\ standing' \subseteq Identity
    BY <1>1 DEF IInv, TypeOK
  <2> QED BY <2>1, <2>2, <2>3 DEF TypeOK, ImpactMap, IncidentMap
<1>12. \A e \in evidence' : /\ e.ident \notin standing' /\ e.target \notin archived'
                            /\ OwnerOf[e.ident] \notin removed'
  BY <1>1, <1>3 DEF IInv, RetiredIsSilent
<1> QED BY <1>1, <1>9, <1>10, <1>11, <1>12 DEF IInv, RetiredIsSilent

----------------------------------------------------------------------------
(* The other transactions *)

LEMMA AdvanceKeeps == ASSUME IInv, Advance PROVE IInv'
<1>1. now \in Nat /\ archived \in SUBSET Target /\ removed \in SUBSET Owner
      /\ standing \in SUBSET Identity
  BY DEF IInv, TypeOK
<1>2. /\ ~tx.open /\ Advances(now) /\ UNCHANGED tx
      /\ UNCHANGED <<now, archived, removed, evidence, standing, impact>>
  BY DEF Advance
<1>3. Core(evidence', impact', incident', {})
  BY <1>1, <1>2, AdvanceKeepsCore
<1>4. \A e \in evidence' : /\ e.ident \notin standing' /\ e.target \notin archived'
                           /\ OwnerOf[e.ident] \notin removed'
  BY <1>2 DEF IInv, RetiredIsSilent
<1> QED BY <1>1, <1>2, <1>3, <1>4, OutsideKeeps

\* Resolving rows between transactions, whatever sets grow with it, as long
\* as the rows that stay are not silenced by them.
LEMMA ResolutionKeeps ==
    ASSUME IInv, ~tx.open, NEW rows \in SUBSET evidence, NEW gone \in SUBSET Target,
           ResolveRows(rows, now, gone), UNCHANGED <<now, tx>>,
           archived' \in SUBSET Target, removed' \in SUBSET Owner,
           standing' \in SUBSET Identity,
           \A e \in evidence \ rows : /\ e.ident \notin standing'
                                      /\ e.target \notin archived'
                                      /\ OwnerOf[e.ident] \notin removed'
    PROVE  IInv'
<1>1. now \in Nat /\ now' \in Nat /\ UNCHANGED tx
  BY DEF IInv, TypeOK
<1>2. Core(evidence', impact', incident', {})
  BY <1>1, RowsResolved
<1>3. evidence' = evidence \ rows
  BY DEF ResolveRows
<1> QED BY <1>1, <1>2, <1>3, OutsideKeeps

LEMMA OthersKeep ==
    ASSUME IInv,
           \/ \E j \in Identity : ResolveEvidence(j) \/ RecoverNativeEvidence(j)
           \/ \E e \in evidence : InvalidateEvidence(e)
           \/ \E t \in Target : ArchiveTarget(t) \/ RestoreTarget(t)
           \/ \E c \in Owner : RemoveOwner(c)
           \/ Tick
    PROVE  IInv'
<1>1. /\ now \in Nat /\ archived \in SUBSET Target /\ removed \in SUBSET Owner
      /\ standing \in SUBSET Identity
  BY DEF IInv, TypeOK
<1>2. \A e \in evidence : /\ e.ident \notin standing /\ e.target \notin archived
                          /\ OwnerOf[e.ident] \notin removed
  BY DEF IInv, RetiredIsSilent
<1>3. ASSUME NEW j \in Identity, ResolveEvidence(j) PROVE IInv'
  <2> DEFINE rows == {e \in evidence : e.ident = j}
  <2>1. rows \in SUBSET evidence
    OBVIOUS
  <2>2. /\ ~tx.open /\ ResolveRows(rows, now, archived)
        /\ UNCHANGED <<now, tx>> /\ UNCHANGED <<archived, removed, standing>>
    BY <1>3 DEF ResolveEvidence
  <2> HIDE DEF rows
  <2> QED BY <1>1, <1>2, <2>1, <2>2, ResolutionKeeps
<1>4. ASSUME NEW j \in Identity, RecoverNativeEvidence(j) PROVE IInv'
  <2> DEFINE rows == {e \in evidence : e.ident = j}
  <2>1. rows \in SUBSET evidence
    OBVIOUS
  <2>2. /\ ~tx.open /\ UNCHANGED <<now, tx>> /\ UNCHANGED <<archived, removed>>
        /\ rows # {} => ResolveRows(rows, now, archived) /\ UNCHANGED standing
        /\ rows = {} => /\ standing' = standing \ {j} /\ Advances(now)
                        /\ UNCHANGED <<evidence, impact>>
    BY <1>4 DEF RecoverNativeEvidence
  <2> HIDE DEF rows
  <2>3. CASE rows # {}
    BY <1>1, <1>2, <2>1, <2>2, <2>3, ResolutionKeeps
  <2>4. CASE rows = {}
    <3>1. Core(evidence', impact', incident', {})
      BY <1>1, <2>2, <2>4, AdvanceKeepsCore
    <3>2. \A e \in evidence' : /\ e.ident \notin standing' /\ e.target \notin archived'
                               /\ OwnerOf[e.ident] \notin removed'
      BY <1>2, <2>2, <2>4
    <3> QED BY <1>1, <2>2, <2>4, <3>1, <3>2, OutsideKeeps
  <2> QED BY <2>3, <2>4
<1>5. ASSUME NEW e \in evidence, InvalidateEvidence(e) PROVE IInv'
  <2>1. /\ ~tx.open /\ ResolveRows({e}, now, archived) /\ standing' = standing \cup {e.ident}
        /\ UNCHANGED <<now, tx>> /\ UNCHANGED <<archived, removed>>
    BY <1>5 DEF InvalidateEvidence
  <2>2. {e} \in SUBSET evidence /\ e.ident \in Identity
    BY DEF IInv, TypeOK, EvidenceRow
  <2>3. \A d \in evidence \ {e} : d.ident # e.ident
    BY DEF IInv, Core
  <2>4. \A d \in evidence \ {e} : /\ d.ident \notin standing' /\ d.target \notin archived'
                                  /\ OwnerOf[d.ident] \notin removed'
    BY <1>2, <2>1, <2>3
  <2>5. standing' \in SUBSET Identity /\ archived' \in SUBSET Target /\ removed' \in SUBSET Owner
    BY <1>1, <2>1, <2>2
  <2> QED BY <1>1, <2>1, <2>2, <2>4, <2>5, ResolutionKeeps
<1>6. ASSUME NEW t \in Target, ArchiveTarget(t) PROVE IInv'
  <2> DEFINE rows == {e \in evidence : e.target = t}
  <2>1. rows \in SUBSET evidence
    OBVIOUS
  <2>2. /\ ~tx.open /\ ResolveRows(rows, now, archived') /\ archived' = archived \cup {t}
        /\ UNCHANGED <<now, tx>> /\ UNCHANGED <<removed, standing>>
    BY <1>6 DEF ArchiveTarget
  <2>3. \A e \in evidence \ rows : e.target # t
    OBVIOUS
  <2> HIDE DEF rows
  <2>4. archived' \in SUBSET Target /\ removed' \in SUBSET Owner /\ standing' \in SUBSET Identity
    BY <1>1, <2>2
  <2>5. \A e \in evidence \ rows : /\ e.ident \notin standing' /\ e.target \notin archived'
                                   /\ OwnerOf[e.ident] \notin removed'
    BY <1>2, <2>2, <2>3
  <2> QED BY <1>1, <2>1, <2>2, <2>4, <2>5, ResolutionKeeps
<1>7. ASSUME NEW t \in Target, RestoreTarget(t) PROVE IInv'
  <2>1. /\ ~tx.open /\ UNCHANGED tx /\ archived' = archived \ {t}
        /\ UNCHANGED <<now, removed, evidence, standing, impact, incident>>
    BY <1>7 DEF RestoreTarget
  <2>2. Core(evidence', impact', incident', {})
    <3>1. tx.touched = {}
      BY <2>1 DEF IInv, Idle
    <3> QED BY <2>1, <3>1 DEF IInv
  <2> QED BY <1>1, <1>2, <2>1, <2>2, OutsideKeeps
<1>8. ASSUME NEW c \in Owner, RemoveOwner(c) PROVE IInv'
  <2> DEFINE rows == {e \in evidence : OwnerOf[e.ident] = c}
  <2>1. rows \in SUBSET evidence
    OBVIOUS
  <2>2. /\ ~tx.open /\ ResolveRows(rows, now, archived) /\ removed' = removed \cup {c}
        /\ UNCHANGED <<now, tx>> /\ UNCHANGED <<archived, standing>>
    BY <1>8 DEF RemoveOwner
  <2>3. \A e \in evidence \ rows : OwnerOf[e.ident] # c
    OBVIOUS
  <2> HIDE DEF rows
  <2>4. archived' \in SUBSET Target /\ removed' \in SUBSET Owner /\ standing' \in SUBSET Identity
    BY <1>1, <2>2
  <2>5. \A e \in evidence \ rows : /\ e.ident \notin standing' /\ e.target \notin archived'
                                   /\ OwnerOf[e.ident] \notin removed'
    BY <1>2, <2>2, <2>3
  <2> QED BY <1>1, <2>1, <2>2, <2>4, <2>5, ResolutionKeeps
<1>9. CASE Tick
  <2>1. /\ ~tx.open /\ UNCHANGED tx /\ now' = now + 1
        /\ UNCHANGED <<archived, removed, evidence, standing, impact, incident>>
    BY <1>9 DEF Tick
  <2>2. Core(evidence', impact', incident', {})
    <3>1. tx.touched = {}
      BY <2>1 DEF IInv, Idle
    <3> QED BY <2>1, <3>1 DEF IInv
  <2>3. now' \in Nat
    BY <1>1, <2>1
  <2> QED BY <1>1, <1>2, <2>1, <2>2, <2>3, OutsideKeeps
<1> QED BY <1>3, <1>4, <1>5, <1>6, <1>7, <1>8, <1>9

\* Every step keeps the invariant.
LEMMA NextKeeps == IInv /\ [Next]_vars => IInv'
<1> SUFFICES ASSUME IInv, [Next]_vars PROVE IInv'
  OBVIOUS
<1>1. CASE Snapshot
  BY <1>1, BeginsKeep, ApplyFactKeeps, FinishSnapshotKeeps DEF Snapshot
<1>2. CASE Advance
  BY <1>2, AdvanceKeeps
<1>3. CASE UNCHANGED vars
  BY <1>3 DEF vars, IInv, TypeOK, RetiredIsSilent
<1> QED BY <1>1, <1>2, <1>3, OthersKeep DEF Next

----------------------------------------------------------------------------
(* The theorems *)

LEMMA Invariance == Spec => []IInv
BY InitEstablishes, NextKeeps, PTL DEF Spec

\* The tables keep their types through every transaction of the cycle.
THEOREM CycleTypes == Spec => []TypeOK
<1>1. IInv => TypeOK
  BY DEF IInv
<1> QED BY <1>1, Invariance, PTL

\* No identity ever has two active rows, nor one while its invalidation stands.
THEOREM CycleOneVoice == Spec => []OneVoice
<1>1. IInv => OneVoice
  BY DEF IInv, Core, OneVoice
<1> QED BY <1>1, Invariance, PTL

\* An impact is active exactly when active evidence feeds it, in the middle of
\* a snapshot too.
THEOREM CycleImpacts == Spec => []ImpactsFollowEvidence
<1>1. IInv => ImpactsFollowEvidence
  BY DEF IInv, Core, ImpactsFollowEvidence, Active
<1> QED BY <1>1, Invariance, PTL

\* Between transactions the status and the counts of an incident are those of
\* its impacts.
THEOREM CycleIncidents == Spec => []IncidentsFollowImpacts
<1>1. IInv => IncidentsFollowImpacts
  <2> SUFFICES ASSUME IInv, ~tx.open, NEW i \in IncidentId PROVE IncidentSettled(i)
    BY DEF IncidentsFollowImpacts
  <2>1. IncidentsOf(tx.touched) = {}
    BY DEF IInv, Idle, IncidentsOf
  <2>2. Settled(impact, incident, i)
    BY <2>1 DEF IInv, Core
  <2> QED BY <2>2 DEF Settled, IncidentSettled
<1> QED BY <1>1, Invariance, PTL

\* Archived targets and removed owners carry no active evidence.
THEOREM CycleRetired == Spec => []RetiredIsSilent
<1>1. IInv => RetiredIsSilent
  BY DEF IInv
<1> QED BY <1>1, Invariance, PTL

\* Two incidents hold a target for the same cause only if one was resumed.
THEOREM CycleOnePerCause == Spec => []OneCyclePerCause
<1>1. IInv => OneCyclePerCause
  BY DEF IInv, Core, OneCycle, OneCyclePerCause, Active
<1> QED BY <1>1, Invariance, PTL

\* Once its transaction has committed, no severity is behind the evidence it was
\* derived from: no step leaves an impact or an incident out that it made worse
\* (recomputeImpact and recomputeIncident, over what the transaction touched).
THEOREM CycleSeverities == Spec => []SeverityFollowsEvidence
<1>1. ASSUME IInv, ~tx.open, NEW e \in evidence
      PROVE  /\ e.severity <= impact[e.incident][e.target].severity
             /\ impact[e.incident][e.target].severity <= incident[e.incident].severity
  <2>1. tx.touched = {} /\ IncidentsOf({}) = {}
    BY <1>1 DEF IInv, Idle, IncidentsOf
  <2>2. Core(evidence, impact, incident, {})
    BY <1>1, <2>1 DEF IInv
  <2>3. /\ e.incident \in IncidentId /\ e.target \in Target
        /\ Active(impact, e.incident, e.target)
    BY <2>2, RowsHavePlaces
  <2> QED BY <2>1, <2>2, <2>3 DEF Core, Severe
<1>2. IInv => SeverityFollowsEvidence
  BY <1>1 DEF SeverityFollowsEvidence
<1> QED BY <1>2, Invariance, PTL
----------------------------------------------------------------------------
(* What a step may never do *)

LEMMA StandingStays ==
    ASSUME [Next]_vars
    PROVE  \/ standing \subseteq standing'
           \/ FinishSnapshot
           \/ \E j \in Identity : RecoverNativeEvidence(j)
<1>1. CASE Snapshot
  <2>1. ASSUME NEW f \in tx.facts,
               \/ SkipDuplicate(f) \/ RefreshEvidence(f) \/ IgnoreFact(f)
               \/ JoinImpact(f) \/ JoinPropagation(f) \/ ResumeIncident(f)
               \/ OpenIncident(f)
        PROVE  standing' = standing
    BY <2>1, Zenon DEF SkipDuplicate, RefreshEvidence, IgnoreFact, JoinImpact,
       JoinPropagation, ResumeIncident, OpenIncident, Attach
  <2>2. ApplyFact => standing' = standing
    BY <2>1 DEF ApplyFact
  <2>3. BeginSnapshot \/ BeginWebhook \/ BeginNative => standing' = standing
    BY DEF BeginSnapshot, BeginWebhook, BeginNative, Begin
  <2> QED BY <1>1, <2>2, <2>3 DEF Snapshot
<1>2. CASE ~Snapshot
  BY <1>2 DEF Next, vars, Advance, ResolveEvidence, InvalidateEvidence, ArchiveTarget,
     RestoreTarget, RemoveOwner, Tick
<1> QED BY <1>1, <1>2

\* A step that lifts an invalidation speaks for an identity without a row.
LEMMA StepSilences ==
    ASSUME IInv, IInv', [Next]_vars, NEW j \in standing PROVE StaysSilent(j)
<1>0. \A e \in evidence : e.ident # j
  BY DEF IInv
<1>1. CASE j \in standing'
  BY <1>1 DEF IInv, StaysSilent
<1>2. CASE FinishSnapshot
  BY <1>0, <1>1, <1>2 DEF FinishSnapshot, RearmRecovered, Healthy, StaysSilent
<1>3. ASSUME NEW k \in Identity, RecoverNativeEvidence(k), j \notin standing'
      PROVE  StaysSilent(j)
  <2>1. {e \in evidence : e.ident = k} = {} /\ k = j
    BY <1>3 DEF RecoverNativeEvidence
  <2> QED BY <1>0, <1>3, <2>1 DEF RecoverNativeEvidence, StaysSilent
<1> QED BY <1>1, <1>2, <1>3, StandingStays

\* Of any tables: what was closed is frozen, and what was resolved only wakes
\* if it had been resumed.
FrozenTo(imp, inc, imp2, inc2, i) ==
    /\ inc[i].status # "none" => inc2[i].status # "none"
    /\ (inc[i].status # "none" /\ inc[i].propagation = "closed") =>
          /\ inc2[i].propagation = "closed"
          /\ KnownTargets(imp2[i]) = KnownTargets(imp[i])
    /\ (inc[i].status = "resolved" /\ inc2[i].status # "resolved") =>
          /\ inc[i].resumptions > 0 /\ inc[i].impactCount = 1
          /\ inc2[i].openedAt = inc[i].openedAt
          /\ inc2[i].nature = inc[i].nature

\* Resolving rows and recomputing impacts that exist freezes and wakes nothing.
LEMMA ResolutionFreezes ==
    ASSUME NEW ev, NEW imp, NEW inc, NEW touched, Core(ev, imp, inc, touched),
           NEW rows \in SUBSET ev,
           NEW places, places \subseteq Places(rows) \cup touched,
           NEW ids, NEW at \in Nat, NEW gone \in SUBSET Target,
           NEW imp2, imp2 = RecomputeImpacts(ev \ rows, imp, places),
           NEW inc2, inc2 = RecomputeIncidents(inc, imp2, ids, at, gone),
           NEW i \in IncidentId
    PROVE  FrozenTo(imp, inc, imp2, inc2, i)
<1>1. ev \ rows \in SUBSET EvidenceRow /\ imp \in ImpactMap /\ inc \in IncidentMap
  BY DEF Core
<1>2. ImpactsFollow(imp2, ev \ rows, imp, places)
  BY <1>1, ImpactsRecomputed
<1>3. IncidentsFollow(inc2, inc, imp2, ids)
  BY <1>1, <1>2, IncidentsRecomputed DEF ImpactsFollow
<1>4. \A t \in Target : <<i, t>> \in places => imp[i][t].status # "absent"
  <2> SUFFICES ASSUME NEW t \in Target, <<i, t>> \in Places(rows)
               PROVE  imp[i][t].status # "absent"
    BY DEF Core
  <2>1. PICK e \in rows : e.incident = i /\ e.target = t
    BY DEF Places
  <2>2. Active(imp, e.incident, e.target)
    BY RowsHavePlaces
  <2> QED BY <2>1, <2>2 DEF Active
<1>5. KnownTargets(imp2[i]) = KnownTargets(imp[i])
  BY <1>2, <1>4 DEF ImpactsFollow, KnownTargets
<1>6. \A t \in Target : Active(imp2, i, t) => Active(imp, i, t)
  <2> SUFFICES ASSUME NEW t \in Target, Active(imp2, i, t) PROVE Active(imp, i, t)
    OBVIOUS
  <2>1. CASE <<i, t>> \in places
    <3>1. Feeding(ev \ rows, i, t) # {}
      BY <1>2, <2>1 DEF ImpactsFollow, Active
    <3>2. Feeding(ev, i, t) # {}
      BY <3>1 DEF Feeding
    <3> QED BY <3>2 DEF Core
  <2>2. CASE <<i, t>> \notin places
    BY <1>2, <2>2 DEF ImpactsFollow, Active
  <2> QED BY <2>1, <2>2
<1>7. inc[i].propagation = "closed" => inc2[i].propagation = "closed"
  BY <1>3 DEF IncidentsFollow, Recomputed
<1>8. ASSUME inc[i].status = "resolved", inc2[i].status # "resolved"
      PROVE  /\ inc[i].resumptions > 0 /\ inc[i].impactCount = 1
             /\ inc2[i].openedAt = inc[i].openedAt
             /\ inc2[i].nature = inc[i].nature
  <2>1. Recomputed(inc2[i], inc[i], imp2[i])
    BY <1>3, <1>8 DEF IncidentsFollow
  <2>2. inc[i].propagation = "closed"
    BY <1>8 DEF Core, ResolvedClosed
  <2>3. ActiveTargets(imp2[i]) # {}
    BY <1>8, <2>1, <2>2 DEF Recomputed
  <2>4. PICK t \in Target : Active(imp2, i, t)
    BY <2>3 DEF ActiveTargets, Active
  <2>5. inc[i].resumptions > 0 /\ inc[i].impactCount = 1
    BY <1>6, <1>8, <2>4 DEF Core, OnlyResumed
  <2> QED BY <2>1, <2>5 DEF Recomputed
<1>9. inc[i].status # "none" => inc2[i].status # "none"
  BY <1>3 DEF IncidentsFollow, Recomputed
<1> QED BY <1>5, <1>7, <1>8, <1>9 DEF FrozenTo
\* What a step freezes when it only resolves rows and recomputes.
LEMMA RowsFreeze ==
    ASSUME IInv, ~tx.open, NEW rows \in SUBSET evidence, NEW at \in Nat,
           NEW gone \in SUBSET Target, ResolveRows(rows, at, gone), NEW i \in IncidentId
    PROVE  Freezes(i)
<1>1. Core(evidence, impact, incident, tx.touched)
  BY DEF IInv
<1> DEFINE places == Places(rows)
           ids == IncidentsOf(places)
<1>2. /\ impact' = RecomputeImpacts(evidence \ rows, impact, places)
      /\ incident' = RecomputeIncidents(incident, impact', ids, at, gone)
  BY DEF ResolveRows
<1>3. places \subseteq Places(rows) \cup tx.touched
  OBVIOUS
<1> HIDE DEF places, ids
<1>4. FrozenTo(impact, incident, impact', incident', i)
  BY <1>1, <1>2, <1>3, ResolutionFreezes
<1> QED BY <1>4 DEF FrozenTo, Freezes

LEMMA AdvanceFreezes ==
    ASSUME IInv, NEW at \in Nat, Advances(at), UNCHANGED impact, NEW i \in IncidentId
    PROVE  Freezes(i)
<1>1. Core(evidence, impact, incident, tx.touched) /\ archived \in SUBSET Target
  BY DEF IInv, TypeOK
<1> DEFINE ids == Due(incident, at)
<1>2. impact' = RecomputeImpacts(evidence \ {}, impact, {})
  BY <1>1, NothingRecomputed DEF Core
<1>3. incident' = RecomputeIncidents(incident, impact', ids, at, archived)
  BY DEF Advances
<1> HIDE DEF ids
<1>4. {} \in SUBSET evidence /\ {} \subseteq Places({}) \cup tx.touched
  OBVIOUS
<1>5. FrozenTo(impact, incident, impact', incident', i)
  BY <1>1, <1>2, <1>3, <1>4, ResolutionFreezes
<1> QED BY <1>5 DEF FrozenTo, Freezes

LEMMA FinishFreezes ==
    ASSUME IInv, FinishSnapshot, NEW i \in IncidentId PROVE Freezes(i)
<1> DEFINE rows == {e \in evidence : e.ident \in Healthy}
           places == tx.touched \cup Places(rows)
           due == IF tx.advance THEN Due(incident, tx.at) ELSE {}
           ids == IncidentsOf(places) \cup due
<1>1. /\ impact' = RecomputeImpacts(evidence \ rows, impact, places)
      /\ incident' = RecomputeIncidents(incident, impact', ids, tx.at, archived)
  BY DEF FinishSnapshot
<1>2. /\ Core(evidence, impact, incident, tx.touched)
      /\ tx.at \in Nat /\ archived \in SUBSET Target
  BY DEF IInv, TypeOK
<1>3. rows \in SUBSET evidence /\ places \subseteq Places(rows) \cup tx.touched
  OBVIOUS
<1> HIDE DEF rows, places, ids
<1>4. FrozenTo(impact, incident, impact', incident', i)
  BY <1>1, <1>2, <1>3, ResolutionFreezes
<1> QED BY <1>4 DEF FrozenTo, Freezes

\* A fact resolves the row of another cause first.
LEMMA KeptFreezes ==
    ASSUME IInv, NEW f \in tx.facts, NEW i \in IncidentId
    PROVE  FrozenTo(impact, incident, KeptImpacts(f), KeptIncidents(f), i)
<1> DEFINE rows == RowOf(f)
           places == Places(rows)
           ids == IncidentsOf(places)
<1>1. /\ Core(evidence, impact, incident, tx.touched)
      /\ tx.at \in Nat /\ archived \in SUBSET Target
  BY DEF IInv, TypeOK
<1>2. rows \in SUBSET evidence /\ places \subseteq Places(rows) \cup tx.touched
  BY DEF RowOf
<1>3. PICK imp : imp = KeptImpacts(f)
  OBVIOUS
<1>4. PICK inc : inc = KeptIncidents(f)
  OBVIOUS
<1>5. /\ imp = RecomputeImpacts(evidence \ rows, impact, places)
      /\ inc = RecomputeIncidents(incident, imp, ids, tx.at, archived)
  BY <1>3, <1>4 DEF KeptImpacts, KeptIncidents, KeptEvidence
<1> HIDE DEF rows, places, ids
<1>6. FrozenTo(impact, incident, imp, inc, i)
  BY <1>1, <1>2, <1>5, ResolutionFreezes
<1> QED BY <1>3, <1>4, <1>6

\* A row of an incident that is neither closed, resolved nor woken.
Continues(row, new) ==
    /\ new.status = row.status /\ new.propagation = row.propagation
    /\ new.openedAt = row.openedAt /\ new.nature = row.nature

\* Attaching a row to incident j changes one impact of j, which exists already
\* if j is closed, and of the row of j nothing that could wake it.
LEMMA AttachFreezes ==
    ASSUME IInv, NEW f \in tx.facts, NEW j \in IncidentId,
           NEW imp2, NEW inc2, Attach(f, j, imp2, inc2),
           \A k \in IncidentId, u \in Target :
               <<k, u>> # <<j, f.target>> => imp2[k][u] = KeptImpacts(f)[k][u],
           \A k \in IncidentId : k # j => inc2[k] = KeptIncidents(f)[k],
           \/ KeptIncidents(f)[j].status = "none"
           \/ /\ Continues(KeptIncidents(f)[j], inc2[j])
              /\ KeptIncidents(f)[j].propagation = "closed"
                 => /\ KeptImpacts(f)[j][f.target].status # "absent"
                    /\ imp2[j][f.target].status # "absent",
           NEW i \in IncidentId
    PROVE  Freezes(i)
<1> DEFINE imp == KeptImpacts(f)
           inc == KeptIncidents(f)
<1>1. FrozenTo(impact, incident, imp, inc, i)
  BY KeptFreezes
<1>2. impact' = imp2 /\ incident' = inc2
  BY DEF Attach
<1> HIDE DEF imp, inc
<1>3. CASE i # j
  <2>1. inc2[i] = inc[i]
    BY <1>3 DEF inc
  <2>2. \A u \in Target : imp2[i][u] = imp[i][u]
    BY <1>3 DEF imp
  <2>3. KnownTargets(imp2[i]) = KnownTargets(imp[i])
    BY <2>2 DEF KnownTargets
  <2> QED BY <1>1, <1>2, <2>1, <2>3 DEF FrozenTo, Freezes
<1>4. CASE i = j /\ inc[j].status # "none"
  <2>1. /\ inc2[i].status = inc[i].status /\ inc2[i].propagation = inc[i].propagation
        /\ inc2[i].openedAt = inc[i].openedAt /\ inc2[i].nature = inc[i].nature
    BY <1>4 DEF inc, Continues
  <2>2. ASSUME inc[i].propagation = "closed"
        PROVE  KnownTargets(imp2[i]) = KnownTargets(imp[i])
    <3>1. imp[i][f.target].status # "absent" /\ imp2[i][f.target].status # "absent"
      BY <1>4, <2>2 DEF inc, imp
    <3>2. \A u \in Target : u # f.target => imp2[i][u] = imp[i][u]
      BY <1>4 DEF imp
    <3> QED BY <3>1, <3>2 DEF KnownTargets
  <2> QED BY <1>1, <1>2, <2>1, <2>2 DEF FrozenTo, Freezes
<1>5. CASE i = j /\ inc[j].status = "none"
  <2>1. incident[i].status = "none"
    BY <1>1, <1>5 DEF FrozenTo
  <2> QED BY <2>1 DEF Freezes
<1> QED BY <1>3, <1>4, <1>5

LEMMA JoinImpactFreezes ==
    ASSUME IInv, NEW f \in tx.facts, JoinImpact(f), NEW i \in IncidentId
    PROVE  Freezes(i)
<1> DEFINE imp == KeptImpacts(f)
           inc == KeptIncidents(f)
<1>1. PICK j \in ActiveHomes(f, imp, inc) : Attach(f, j, imp, inc)
  BY DEF JoinImpact
<1>2. j \in IncidentId /\ imp[j][f.target].status # "absent"
  BY <1>1 DEF ActiveHomes
<1> HIDE DEF imp, inc
<1>3. /\ \A k \in IncidentId, u \in Target : imp[k][u] = KeptImpacts(f)[k][u]
      /\ \A k \in IncidentId : inc[k] = KeptIncidents(f)[k]
      /\ Continues(KeptIncidents(f)[j], inc[j])
      /\ KeptImpacts(f)[j][f.target].status # "absent"
  BY <1>2 DEF imp, inc, Continues
<1> QED BY <1>1, <1>2, <1>3, AttachFreezes

LEMMA JoinPropagationFreezes ==
    ASSUME IInv, NEW f \in tx.facts, JoinPropagation(f), NEW i \in IncidentId
    PROVE  Freezes(i)
<1> DEFINE imp == KeptImpacts(f)
           inc == KeptIncidents(f)
<1>1. PICK j \in Propagating(f, inc) :
          Attach(f, j, Activated(imp, j, f), [inc EXCEPT ![j] = Extended(@, f)])
  BY DEF JoinPropagation
<1>2. /\ j \in IncidentId /\ inc[j].propagation = "open" /\ f \in FactType
      /\ imp \in ImpactMap /\ inc \in IncidentMap
  BY <1>1, KeptIsCore DEF Propagating, Core, IInv, TypeOK
<1> DEFINE imp2 == Activated(imp, j, f)
           inc2 == [inc EXCEPT ![j] = Extended(@, f)]
<1>3. \A k \in IncidentId, u \in Target :
          <<k, u>> # <<j, f.target>> => imp2[k][u] = KeptImpacts(f)[k][u]
  BY <1>2, ActivatedImpact
<1>4. /\ inc2[j] = Extended(inc[j], f)
      /\ \A k \in IncidentId : k # j => inc2[k] = KeptIncidents(f)[k]
  BY <1>2 DEF IncidentMap
<1>5. inc[j] \in IncidentRow
  BY <1>2 DEF IncidentMap
<1>6. Continues(inc[j], inc2[j])
  BY <1>4, <1>5 DEF Extended, IncidentRow, Continues
<1>7. Attach(f, j, imp2, inc2) /\ KeptIncidents(f)[j].propagation # "closed"
  BY <1>1, <1>2
<1> HIDE DEF imp2, inc2
<1> QED BY <1>2, <1>3, <1>4, <1>6, <1>7, AttachFreezes

LEMMA ResumeIncidentFreezes ==
    ASSUME IInv, NEW f \in tx.facts, ResumeIncident(f), NEW i \in IncidentId
    PROVE  Freezes(i)
<1> DEFINE imp == KeptImpacts(f)
           inc == KeptIncidents(f)
<1>1. PICK j \in Resumable(f, imp, inc) :
          Attach(f, j, Activated(imp, j, f), [inc EXCEPT ![j].resumptions = @ + 1])
  BY DEF ResumeIncident
<1>2. /\ j \in IncidentId /\ imp[j][f.target].status # "absent" /\ f \in FactType
      /\ imp \in ImpactMap /\ inc \in IncidentMap
  BY <1>1, KeptIsCore DEF Resumable, Core, IInv, TypeOK
<1> DEFINE imp2 == Activated(imp, j, f)
           inc2 == [inc EXCEPT ![j].resumptions = @ + 1]
<1>3. /\ \A k \in IncidentId, u \in Target :
             <<k, u>> # <<j, f.target>> => imp2[k][u] = KeptImpacts(f)[k][u]
      /\ Active(imp2, j, f.target)
  BY <1>2, ActivatedImpact
<1>4. /\ inc2[j] = [inc[j] EXCEPT !.resumptions = @ + 1]
      /\ \A k \in IncidentId : k # j => inc2[k] = KeptIncidents(f)[k]
  BY <1>2 DEF IncidentMap
<1>5. inc[j] \in IncidentRow
  BY <1>2 DEF IncidentMap
<1>6. Continues(inc[j], inc2[j])
  BY <1>4, <1>5 DEF IncidentRow, Continues
<1>7. Attach(f, j, imp2, inc2) /\ imp2[j][f.target].status # "absent"
  BY <1>1, <1>3 DEF Active
<1> HIDE DEF imp2, inc2
<1>8. /\ Continues(KeptIncidents(f)[j], inc2[j])
      /\ KeptImpacts(f)[j][f.target].status # "absent"
  BY <1>2, <1>6
<1> QED BY <1>2, <1>3, <1>4, <1>7, <1>8, AttachFreezes

LEMMA OpenIncidentFreezes ==
    ASSUME IInv, NEW f \in tx.facts, OpenIncident(f), NEW i \in IncidentId
    PROVE  Freezes(i)
<1> DEFINE imp == KeptImpacts(f)
           inc == KeptIncidents(f)
           j == CHOOSE k \in FreeIncidents : TRUE
           imp2 == Activated(imp, j, f)
           inc2 == [inc EXCEPT ![j] = NewIncident(f)]
<1>1. FreeIncidents # {} /\ Attach(f, j, imp2, inc2)
  BY DEF OpenIncident
<1>2. j \in FreeIncidents
  BY <1>1
<1> HIDE DEF j
<1>3. /\ j \in IncidentId /\ KeptIncidents(f)[j].status = "none" /\ f \in FactType
      /\ imp \in ImpactMap /\ inc \in IncidentMap
  BY <1>2, KeptIsCore DEF FreeIncidents, Core, IInv, TypeOK
<1>4. \A k \in IncidentId, u \in Target :
          <<k, u>> # <<j, f.target>> => imp2[k][u] = KeptImpacts(f)[k][u]
  BY <1>3, ActivatedImpact
<1>5. \A k \in IncidentId : k # j => inc2[k] = KeptIncidents(f)[k]
  BY <1>3 DEF IncidentMap
<1> HIDE DEF imp2, inc2
<1> QED BY <1>1, <1>3, <1>4, <1>5, AttachFreezes

LEMMA FactFreezes ==
    ASSUME IInv, ApplyFact, NEW i \in IncidentId PROVE Freezes(i)
<1>1. PICK f \in tx.facts :
          \/ SkipDuplicate(f) \/ RefreshEvidence(f) \/ IgnoreFact(f)
          \/ JoinImpact(f) \/ JoinPropagation(f) \/ ResumeIncident(f)
          \/ OpenIncident(f)
  BY DEF ApplyFact
<1>2. CASE SkipDuplicate(f) \/ RefreshEvidence(f)
  <2>1. UNCHANGED <<impact, incident>>
    BY <1>2 DEF SkipDuplicate, RefreshEvidence
  <2> QED BY <2>1 DEF Freezes
<1>3. CASE IgnoreFact(f)
  <2>1. impact' = KeptImpacts(f) /\ incident' = KeptIncidents(f)
    BY <1>3 DEF IgnoreFact
  <2> QED BY <2>1, KeptFreezes DEF FrozenTo, Freezes
<1> QED BY <1>1, <1>2, <1>3, JoinImpactFreezes, JoinPropagationFreezes,
           ResumeIncidentFreezes, OpenIncidentFreezes

LEMMA OthersFreeze ==
    ASSUME IInv, NEW i \in IncidentId,
           \/ \E j \in Identity : ResolveEvidence(j) \/ RecoverNativeEvidence(j)
           \/ \E e \in evidence : InvalidateEvidence(e)
           \/ \E t \in Target : ArchiveTarget(t) \/ RestoreTarget(t)
           \/ \E c \in Owner : RemoveOwner(c)
    PROVE  Freezes(i)
<1>1. now \in Nat /\ archived \in SUBSET Target
  BY DEF IInv, TypeOK
<1>2. ASSUME NEW j \in Identity, ResolveEvidence(j) \/ RecoverNativeEvidence(j)
      PROVE  Freezes(i)
  <2> DEFINE rows == {e \in evidence : e.ident = j}
  <2>1. rows \in SUBSET evidence
    OBVIOUS
  <2>2. /\ ~tx.open
        /\ \/ ResolveRows(rows, now, archived)
           \/ Advances(now) /\ UNCHANGED impact
    BY <1>2 DEF ResolveEvidence, RecoverNativeEvidence
  <2> HIDE DEF rows
  <2> QED BY <1>1, <2>1, <2>2, RowsFreeze, AdvanceFreezes
<1>3. ASSUME NEW e \in evidence, InvalidateEvidence(e) PROVE Freezes(i)
  <2>1. {e} \in SUBSET evidence /\ ~tx.open /\ ResolveRows({e}, now, archived)
    BY <1>3 DEF InvalidateEvidence
  <2> QED BY <1>1, <2>1, RowsFreeze
<1>4. ASSUME NEW t \in Target, ArchiveTarget(t) PROVE Freezes(i)
  <2> DEFINE rows == {e \in evidence : e.target = t}
             gone == archived \cup {t}
  <2>1. rows \in SUBSET evidence /\ gone \in SUBSET Target
    BY <1>1
  <2>2. ~tx.open /\ ResolveRows(rows, now, gone)
    BY <1>4 DEF ArchiveTarget
  <2> HIDE DEF rows, gone
  <2> QED BY <1>1, <2>1, <2>2, RowsFreeze
<1>5. ASSUME NEW t \in Target, RestoreTarget(t) PROVE Freezes(i)
  BY <1>5 DEF RestoreTarget, Freezes
<1>6. ASSUME NEW c \in Owner, RemoveOwner(c) PROVE Freezes(i)
  <2> DEFINE rows == {e \in evidence : OwnerOf[e.ident] = c}
  <2>1. rows \in SUBSET evidence
    OBVIOUS
  <2>2. ~tx.open /\ ResolveRows(rows, now, archived)
    BY <1>6 DEF RemoveOwner
  <2> HIDE DEF rows
  <2> QED BY <1>1, <2>1, <2>2, RowsFreeze
<1> QED BY <1>2, <1>3, <1>4, <1>5, <1>6

LEMMA StepFreezes ==
    ASSUME IInv, [Next]_vars, NEW i \in IncidentId PROVE Freezes(i)
<1>1. CASE Snapshot
  <2>1. CASE BeginSnapshot \/ BeginWebhook \/ BeginNative
    <3>1. UNCHANGED <<impact, incident>>
      BY <2>1 DEF BeginSnapshot, BeginWebhook, BeginNative, Begin
    <3> QED BY <3>1 DEF Freezes
  <2> QED BY <1>1, <2>1, FactFreezes, FinishFreezes DEF Snapshot
<1>2. CASE Advance
  <2>1. now \in Nat /\ Advances(now) /\ UNCHANGED impact
    BY <1>2 DEF Advance, IInv, TypeOK
  <2> QED BY <2>1, AdvanceFreezes
<1>3. CASE Tick \/ UNCHANGED vars
  BY <1>3 DEF Tick, vars, Freezes
<1> QED BY <1>1, <1>2, <1>3, OthersFreeze DEF Next

\* An invalidated identity stays silent, through every transaction, until a
\* healthy read of it (InvalidateEvidence, rearmRecoveredEvidence).
THEOREM CycleSilence == Spec => SilencedUntilHealthy
<1>1. IInv /\ IInv' /\ [Next]_vars => [\A j \in standing : StaysSilent(j)]_vars
  BY StepSilences
<1> QED BY <1>1, Invariance, PTL DEF Spec, SilencedUntilHealthy

\* A closed propagation is final and a resolved incident only wakes by a
\* resumption, whichever facts, recomputations or retirements follow
\* (ensureImpact, recomputeIncident, resumeRecentIncident).
THEOREM CycleFreezes == Spec => ClosedIsFrozen
<1>1. IInv /\ [Next]_vars => [\A i \in IncidentId : Freezes(i)]_vars
  BY StepFreezes
<1> QED BY <1>1, Invariance, PTL DEF Spec, ClosedIsFrozen

=============================================================================
