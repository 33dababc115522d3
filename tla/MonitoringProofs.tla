-------------------------- MODULE MonitoringProofs --------------------------
(***************************************************************************)
(* What NativeMonitoring says of the sources and of their evidence holds   *)
(* for any number of workers, sources and thresholds.                      *)
(*                                                                         *)
(* The owner column fences the late results because a worker claims only   *)
(* with empty hands and a row that is not there has no owner.  A streak is *)
(* never longer than the run of equal conclusions it counts, whatever the  *)
(* thresholds became in between, and that is all a conclusion needs.       *)
(***************************************************************************)
EXTENDS NativeMonitoring, SequenceTheorems, TLAPS

----------------------------------------------------------------------------
(* The inductive invariant *)

\* A source that does not exist yet, or no longer, is leased to nobody.
OnlyRowsAreLeased ==
    \A s \in Source : src[s].there # "yes" => src[s].owner = Nobody

\* The length of the trailing run of unhealthy, and of healthy, conclusions.
Failures(n) == IF n < 0 THEN -n ELSE 0

Successes(n) == IF n > 0 THEN n ELSE 0

\* The streaks are at most the trailing run of equal conclusions.
StreaksAreTrailing ==
    \A s \in Source : /\ src[s].bad <= Failures(trail[s])
                      /\ src[s].good <= Successes(trail[s])

\* A transaction that completes a check has its outcome.
ChecksComeFirst ==
    \A w \in Worker : \A c \in flight[w] : c.target # "unread" => c.outcome # "none"

NativeInv ==
    /\ TypeOK /\ OnlyNewestCounts
    /\ OnlyRowsAreLeased /\ StreaksAreTrailing /\ ChecksComeFirst

----------------------------------------------------------------------------
(* Operators *)

\* The history is as long as the largest threshold.
LEMMA MaxTrailType ==
    /\ MaxTrail \in Threshold /\ MaxTrail \in Nat \ {0}
    /\ Threshold \subseteq Nat \ {0}
    /\ \A k \in Threshold : k <= MaxTrail
BY MonitoringConstants DEF MaxTrail, MonitoringConstants

\* Removing a source from the line leaves a line.
LEMMA WithoutType ==
    ASSUME line \in Seq(Source), NEW s
    PROVE  Without(s) \in Seq(Source)
<1>1. CASE s \in ToSet(line)
  <2> DEFINE k == CHOOSE n \in DOMAIN line : line[n] = s
  <2>1. k \in DOMAIN line
    BY <1>1 DEF ToSet
  <2>2. k \in 1..Len(line) /\ Len(line) \in Nat
    BY <2>1
  <2> HIDE DEF k
  <2>3. SubSeq(line, 1, k - 1) \in Seq(Source)
    BY <2>2
  <2>4. SubSeq(line, k + 1, Len(line)) \in Seq(Source)
    BY <2>2
  <2>5. RemoveAt(line, k) \in Seq(Source)
    BY <2>3, <2>4 DEF RemoveAt
  <2> QED BY <1>1, <2>5 DEF Without, k
<1>2. CASE s \notin ToSet(line)
  BY <1>2 DEF Without
<1> QED BY <1>1, <1>2

\* What a conclusion makes of a row: the streaks it leaves are at most the run
\* of conclusions, and evidence opens or closes only when that run is as long
\* as the threshold.
LEMMA ObservedRow ==
    ASSUME NEW row \in SourceRow, NEW o \in Outcome, NEW n \in (-MaxTrail)..MaxTrail,
           row.bad <= Failures(n), row.good <= Successes(n)
    PROVE  /\ TrailAfter(n, o) \in (-MaxTrail)..MaxTrail
           /\ Streaks(row, o).bad \in 0..MaxTrail
           /\ Streaks(row, o).good \in 0..MaxTrail
           /\ Streaks(row, o).bad <= Failures(TrailAfter(n, o))
           /\ Streaks(row, o).good <= Successes(TrailAfter(n, o))
           /\ Triggered(row, o) => -TrailAfter(n, o) >= row.fail
           /\ Recovered(row, o) => TrailAfter(n, o) >= row.rec
<1>1. /\ row.bad \in 0..MaxTrail /\ row.good \in 0..MaxTrail
      /\ row.fail \in 1..MaxTrail /\ row.rec \in 1..MaxTrail
  <2>1. /\ row.bad \in 0..MaxTrail /\ row.good \in 0..MaxTrail
        /\ row.fail \in Threshold /\ row.rec \in Threshold
    BY DEF SourceRow
  <2>2. \A k \in Threshold : k \in 1..MaxTrail
    BY MaxTrailType
  <2> QED BY <2>1, <2>2
<1> USE MaxTrailType
<1>2. CASE o = "unhealthy"
  BY <1>1, <1>2 DEF Outcome, Streaks, Capped, TrailAfter, Failures, Successes, Triggered, Recovered
<1>3. CASE o = "healthy"
  BY <1>1, <1>3 DEF Outcome, Streaks, Capped, TrailAfter, Failures, Successes, Triggered, Recovered
<1>4. CASE o = "unknown"
  BY <1>1, <1>4 DEF Outcome, Streaks, Capped, TrailAfter, Failures, Successes, Triggered, Recovered
<1> QED BY <1>2, <1>3, <1>4 DEF Outcome

\* What the conclusion changes in the row, and when it opens or closes evidence.
LEMMA ObservedFields ==
    ASSUME NEW row \in SourceRow, NEW o \in Outcome, NEW n \in (-MaxTrail)..MaxTrail,
           row.bad <= Failures(n), row.good <= Successes(n)
    PROVE  LET new == Observed(row, o) IN
           /\ new \in SourceRow
           /\ new.bad <= Failures(TrailAfter(n, o))
           /\ new.good <= Successes(TrailAfter(n, o))
           /\ new.there = row.there /\ new.owner = row.owner
           /\ new.archived = row.archived
           /\ (row.evidence # "active" /\ new.evidence = "active")
                => -TrailAfter(n, o) >= row.fail
           /\ (row.evidence # "none" /\ new.evidence = "none")
                => TrailAfter(n, o) >= row.rec
<1> DEFINE b == Streaks(row, o).bad
           g == Streaks(row, o).good
           e == IF Opens(row, o) THEN "active"
                ELSE IF Recovered(row, o) THEN "none" ELSE row.evidence
           new == [row EXCEPT !.bad = b, !.good = g, !.evidence = e]
<1>1. /\ b \in 0..MaxTrail /\ g \in 0..MaxTrail
      /\ b <= Failures(TrailAfter(n, o)) /\ g <= Successes(TrailAfter(n, o))
  BY ObservedRow
<1>2. /\ Opens(row, o) => -TrailAfter(n, o) >= row.fail
      /\ Recovered(row, o) => TrailAfter(n, o) >= row.rec
  BY ObservedRow DEF Opens
<1>3. row.evidence \in {"none", "active", "invalidated"}
  BY DEF SourceRow
<1>4. /\ e \in {"none", "active", "invalidated"}
      /\ (row.evidence # "active" /\ e = "active") => Opens(row, o)
      /\ (row.evidence # "none" /\ e = "none") => Recovered(row, o)
  BY <1>3
<1>5. Observed(row, o) = new
  BY DEF Observed
<1> HIDE DEF b, g, e
<1>6. /\ new \in SourceRow
      /\ new.bad = b /\ new.good = g /\ new.evidence = e
      /\ new.there = row.there /\ new.owner = row.owner
      /\ new.archived = row.archived
  BY <1>1, <1>4 DEF SourceRow
<1> HIDE DEF new
<1> QED BY <1>1, <1>2, <1>4, <1>5, <1>6

----------------------------------------------------------------------------
(* Steps *)

\* A step that concludes nothing: rows keep their streaks, an owner is kept or
\* removed, and a copy is new or continues one of the same source.
LEMMA QuietStep ==
    ASSUME NativeInv, TypeOK', ChecksComeFirst', UNCHANGED trail,
           \A w \in Worker : \A d \in flight'[w] :
               \E c \in flight[w] : d.source = c.source /\ d.newest = c.newest,
           \A s \in Source :
               /\ src'[s].bad = src[s].bad /\ src'[s].good = src[s].good
               /\ src'[s].owner \in {src[s].owner, Nobody}
               /\ src'[s].there = src[s].there \/ src'[s].owner = Nobody
               /\ \/ src'[s].evidence = src[s].evidence
                  \/ src'[s].evidence = "invalidated"
                  \/ src'[s].evidence = "none" /\ (src'[s].there = "gone" \/ src'[s].archived)
    PROVE  NativeInv' /\ \A s \in Source : Earned(s)
<1>1. OnlyNewestCounts'
  <2> SUFFICES ASSUME NEW w \in Worker, NEW d \in flight'[w],
                      src'[d.source].there = "yes", src'[d.source].owner = w
               PROVE  d.newest
    BY DEF OnlyNewestCounts
  <2>1. d.source \in Source
    BY DEF TypeOK, Copy
  <2>2. w # Nobody
    BY MonitoringConstants DEF MonitoringConstants
  <2>3. src[d.source].there = "yes" /\ src[d.source].owner = w
    BY <2>1, <2>2
  <2> QED BY <2>3 DEF NativeInv, OnlyNewestCounts
<1>2. OnlyRowsAreLeased'
  BY DEF NativeInv, OnlyRowsAreLeased
<1>3. StreaksAreTrailing'
  BY DEF NativeInv, StreaksAreTrailing
<1>4. ASSUME NEW s \in Source PROVE Earned(s)
  BY DEF Earned
<1> QED BY <1>1, <1>2, <1>3, <1>4 DEF NativeInv

\* The rows, the copies and the history of a state of the invariant.
LEMMA RowsAndCopies ==
    ASSUME NativeInv
    PROVE  /\ src = [s \in Source |-> src[s]] /\ \A s \in Source : src[s] \in SourceRow
           /\ flight = [w \in Worker |-> flight[w]]
           /\ \A w \in Worker : flight[w] \in SUBSET Copy
           /\ trail = [s \in Source |-> trail[s]]
           /\ \A s \in Source : trail[s] \in (-MaxTrail)..MaxTrail
           /\ mode = [w \in Worker |-> mode[w]]
           /\ line \in Seq(Source)
BY DEF NativeInv, TypeOK

\* A step that observes: one row takes a conclusion, and is then free or keeps
\* its owner.
LEMMA ObservingStep ==
    ASSUME NativeInv, NEW s \in Source, NEW o \in Outcome, NEW row \in SourceRow,
           row.bad = Observed(src[s], o).bad, row.good = Observed(src[s], o).good,
           row.evidence = Observed(src[s], o).evidence,
           row.there = src[s].there, row.owner \in {src[s].owner, Nobody},
           row.archived = src[s].archived,
           src' = [src EXCEPT ![s] = row],
           trail' = [trail EXCEPT ![s] = TrailAfter(@, o)],
           line' \in Seq(Source),
           flight' \in [Worker -> SUBSET Copy],
           mode' \in [Worker -> {"running", "failing", "stopped"}],
           ChecksComeFirst',
           \A w \in Worker : \A d \in flight'[w] :
               \E c \in flight[w] : d.source = c.source /\ d.newest = c.newest
    PROVE  NativeInv' /\ \A t \in Source : Earned(t)
<1> DEFINE old == src[s]
           n == trail[s]
           new == Observed(old, o)
           m == TrailAfter(n, o)
<1>1. /\ old \in SourceRow /\ n \in (-MaxTrail)..MaxTrail
      /\ old.bad <= Failures(n) /\ old.good <= Successes(n)
  BY RowsAndCopies DEF NativeInv, StreaksAreTrailing
<1>2. m \in (-MaxTrail)..MaxTrail
  BY <1>1, ObservedRow
<1>3. /\ new.bad <= Failures(m) /\ new.good <= Successes(m)
      /\ (old.evidence # "active" /\ new.evidence = "active") => -m >= old.fail
      /\ (old.evidence # "none" /\ new.evidence = "none") => m >= old.rec
  BY <1>1, ObservedFields
<1>4. /\ src' = [t \in Source |-> IF t = s THEN row ELSE src[t]]
      /\ trail' = [t \in Source |-> IF t = s THEN m ELSE trail[t]]
  BY RowsAndCopies
<1> HIDE DEF m, new
<1>5. TypeOK'
  BY <1>2, <1>4, RowsAndCopies DEF TypeOK
<1>6. StreaksAreTrailing'
  BY <1>3, <1>4 DEF NativeInv, StreaksAreTrailing, new
<1>7. OnlyRowsAreLeased'
  BY <1>4 DEF NativeInv, OnlyRowsAreLeased
<1>8. OnlyNewestCounts'
  <2> SUFFICES ASSUME NEW w \in Worker, NEW d \in flight'[w],
                      src'[d.source].there = "yes", src'[d.source].owner = w
               PROVE  d.newest
    BY DEF OnlyNewestCounts
  <2>1. d.source \in Source
    BY DEF Copy
  <2>2. w # Nobody
    BY MonitoringConstants DEF MonitoringConstants
  <2>3. src[d.source].there = "yes" /\ src[d.source].owner = w
    BY <1>4, <2>1, <2>2
  <2> QED BY <2>3 DEF NativeInv, OnlyNewestCounts
<1>9. ASSUME NEW t \in Source PROVE Earned(t)
  <2>1. CASE t = s
    BY <1>3, <1>4, <2>1 DEF Earned, new
  <2>2. CASE t # s
    BY <1>4, <2>2 DEF Earned
  <2> QED BY <2>1, <2>2
<1> QED BY <1>5, <1>6, <1>7, <1>8, <1>9 DEF NativeInv
----------------------------------------------------------------------------
(* The scheduler *)

\* A claim takes only sources that are there, and no worker that claims holds a
\* copy of an earlier claim.
LEMMA ClaimStep ==
    ASSUME NativeInv, NEW w \in Worker, ClaimDue(w)
    PROVE  NativeInv' /\ \A s \in Source : Earned(s)
<1> DEFINE before(k) == {j \in 1..k : Due(line[j])}
           first == {k \in DOMAIN line : Due(line[k]) /\ Cardinality(before(k)) <= Batch}
           batch == {line[k] : k \in first}
           superseded(c) == [c EXCEPT !.newest = @ /\ c.source \notin batch]
           older(v) == {superseded(c) : c \in flight[v]}
<1>1. /\ Idle(w) /\ UNCHANGED <<line, mode, trail>>
      /\ src' = [s \in Source |-> IF s \in batch
                                  THEN [src[s] EXCEPT !.owner = w, !.live = TRUE]
                                  ELSE src[s]]
      /\ flight' = [v \in Worker |-> IF v = w THEN older(v) \cup {Claim(s) : s \in batch}
                                     ELSE older(v)]
  BY Zenon DEF ClaimDue
<1>2. batch \subseteq Source /\ \A s \in batch : src[s].there = "yes"
  <2>1. \A k \in DOMAIN line : line[k] \in Source
    BY RowsAndCopies
  <2> QED BY <2>1 DEF Due
<1> HIDE DEF batch
<1>3. \A v \in Worker : \A c \in flight[v] :
        /\ superseded(c) \in Copy
        /\ superseded(c).source = c.source
        /\ superseded(c).newest = (c.newest /\ c.source \notin batch)
        /\ superseded(c).target = c.target /\ superseded(c).outcome = c.outcome
  <2> SUFFICES ASSUME NEW v \in Worker, NEW c \in flight[v]
               PROVE  /\ superseded(c) \in Copy
                      /\ superseded(c).source = c.source
                      /\ superseded(c).newest = (c.newest /\ c.source \notin batch)
                      /\ superseded(c).target = c.target /\ superseded(c).outcome = c.outcome
    OBVIOUS
  <2>1. c \in Copy
    BY RowsAndCopies
  <2> QED BY <2>1 DEF Copy
<1>4. \A s \in batch : /\ Claim(s) \in Copy /\ Claim(s).newest
                       /\ Claim(s).target = "unread"
  <2> SUFFICES ASSUME NEW s \in batch
               PROVE  Claim(s) \in Copy /\ Claim(s).newest /\ Claim(s).target = "unread"
    OBVIOUS
  <2>1. src[s].signal \in Signal
    BY <1>2, RowsAndCopies DEF SourceRow
  <2> QED BY <1>2, <2>1 DEF Claim, Copy
<1> HIDE DEF superseded
<1>5. \A s \in Source :
        /\ src'[s] \in SourceRow
        /\ src'[s].owner = IF s \in batch THEN w ELSE src[s].owner
        /\ src'[s].there = src[s].there /\ src'[s].evidence = src[s].evidence
        /\ src'[s].bad = src[s].bad /\ src'[s].good = src[s].good
  <2> SUFFICES ASSUME NEW s \in Source
               PROVE /\ src'[s] \in SourceRow
                     /\ src'[s].owner = IF s \in batch THEN w ELSE src[s].owner
                     /\ src'[s].there = src[s].there /\ src'[s].evidence = src[s].evidence
                     /\ src'[s].bad = src[s].bad /\ src'[s].good = src[s].good
    OBVIOUS
  <2>1. src[s] \in SourceRow
    BY RowsAndCopies
  <2> QED BY ZenonT(60), <1>1, <2>1 DEF SourceRow
<1>6. TypeOK'
  <2>1. flight' \in [Worker -> SUBSET Copy]
    <3>1. \A v \in Worker : older(v) \subseteq Copy
      BY <1>3
    <3>2. {Claim(s) : s \in batch} \subseteq Copy
      BY SMTT(40), <1>4
    <3> HIDE DEF older
    <3> QED BY <1>1, <3>1, <3>2
  <2>2. src' \in [Source -> SourceRow]
    BY <1>1, <1>5
  <2> QED BY <1>1, <2>1, <2>2 DEF NativeInv, TypeOK
<1>7. OnlyNewestCounts'
  <2> SUFFICES ASSUME NEW v \in Worker, NEW d \in flight'[v],
                      src'[d.source].there = "yes", src'[d.source].owner = v
               PROVE  d.newest
    BY DEF OnlyNewestCounts
  <2>1. CASE v = w
    <3>1. flight[w] = {}
      BY <1>1 DEF Idle
    <3>2. d \in {Claim(s) : s \in batch}
      BY <1>1, <2>1, <3>1
    <3> QED BY <1>4, <3>2
  <2>2. CASE v # w
    <3>1. PICK c \in flight[v] : d = superseded(c)
      BY <1>1, <2>2
    <3>2. d.source = c.source /\ d.newest = (c.newest /\ c.source \notin batch) /\ c.source \in Source
      BY <1>3, <3>1, RowsAndCopies DEF Copy
    <3>3. c.source \notin batch /\ src[c.source].there = "yes" /\ src[c.source].owner = v
      BY <1>5, <2>2, <3>2
    <3> QED BY <3>2, <3>3 DEF NativeInv, OnlyNewestCounts
  <2> QED BY <2>1, <2>2
<1>8. OnlyRowsAreLeased'
  BY <1>2, <1>5 DEF NativeInv, OnlyRowsAreLeased
<1>9. StreaksAreTrailing'
  BY <1>1, <1>5 DEF NativeInv, StreaksAreTrailing
<1>10. ChecksComeFirst'
  <2> SUFFICES ASSUME NEW v \in Worker, NEW d \in flight'[v], d.target # "unread"
               PROVE  d.outcome # "none"
    BY DEF ChecksComeFirst
  <2>1. d \notin {Claim(s) : s \in batch}
    BY <1>4
  <2>2. PICK c \in flight[v] : d = superseded(c)
    BY <1>1, <2>1
  <2> QED BY <1>3, <2>2 DEF NativeInv, ChecksComeFirst
<1>11. \A s \in Source : Earned(s)
  BY <1>5 DEF Earned
<1> QED BY <1>6, <1>7, <1>8, <1>9, <1>10, <1>11 DEF NativeInv

\* Replacing a copy by another of the same source and age.
LEMMA ReplaceCopies ==
    ASSUME NativeInv, NEW w \in Worker, NEW c \in flight[w], NEW d \in Copy, Replace(w, c, d),
           d.source = c.source, d.newest = c.newest, d.outcome # "none"
    PROVE  /\ flight' \in [Worker -> SUBSET Copy] /\ ChecksComeFirst'
           /\ \A v \in Worker : \A e \in flight'[v] :
                 \E b \in flight[v] : e.source = b.source /\ e.newest = b.newest
BY RowsAndCopies DEF Replace, NativeInv, ChecksComeFirst

LEMMA CheckStep ==
    ASSUME NativeInv, NEW w \in Worker, NEW c \in flight[w], Check(w, c)
    PROVE  NativeInv' /\ \A s \in Source : Earned(s)
<1>1. PICK o \in Outcome : Replace(w, c, [c EXCEPT !.outcome = o])
  BY DEF Check
<1> DEFINE d == [c EXCEPT !.outcome = o]
<1>2. d \in Copy /\ d.source = c.source /\ d.newest = c.newest
  BY SMTT(40), RowsAndCopies DEF Copy
<1>0. d.outcome # "none"
  BY RowsAndCopies DEF Copy, Outcome
<1> HIDE DEF d
<1>3. Replace(w, c, d)
  BY <1>1 DEF d
<1>4. /\ flight' \in [Worker -> SUBSET Copy] /\ ChecksComeFirst'
      /\ \A v \in Worker : \A e \in flight'[v] :
           \E b \in flight[v] : e.source = b.source /\ e.newest = b.newest
  BY <1>0, <1>2, <1>3, ReplaceCopies
<1>5. UNCHANGED <<src, line, mode, trail>>
  BY DEF Check
<1>6. TypeOK'
  BY <1>4, <1>5 DEF NativeInv, TypeOK
<1> QED BY <1>4, <1>5, <1>6, QuietStep

LEMMA BeginStep ==
    ASSUME NativeInv, NEW w \in Worker, NEW c \in flight[w], BeginComplete(w, c)
    PROVE  NativeInv' /\ \A s \in Source : Earned(s)
<1> DEFINE d == [c EXCEPT !.target = IF src[c.source].archived THEN "archived" ELSE "active"]
<1>1. c \in Copy /\ c.source \in Source
  BY RowsAndCopies DEF Copy
<1>2. d \in Copy /\ d.source = c.source /\ d.newest = c.newest /\ d.outcome # "none"
  BY <1>1 DEF Copy, BeginComplete
<1>3. Replace(w, c, d) /\ UNCHANGED <<line, mode, trail>>
      /\ src' = [src EXCEPT ![c.source].locked = TRUE]
  BY DEF BeginComplete
<1> HIDE DEF d
<1>4. /\ flight' \in [Worker -> SUBSET Copy] /\ ChecksComeFirst'
      /\ \A v \in Worker : \A e \in flight'[v] :
           \E b \in flight[v] : e.source = b.source /\ e.newest = b.newest
  BY <1>2, <1>3, ReplaceCopies
<1>5. src' \in [Source -> SourceRow]
  <2>1. [src[c.source] EXCEPT !.locked = TRUE] \in SourceRow
    BY ZenonT(60), <1>1, RowsAndCopies DEF SourceRow
  <2> QED BY <1>1, <1>3, <2>1, RowsAndCopies
<1>6. TypeOK'
  BY <1>3, <1>4, <1>5 DEF NativeInv, TypeOK
<1>7. \A s \in Source :
        /\ src'[s].bad = src[s].bad /\ src'[s].good = src[s].good
        /\ src'[s].owner = src[s].owner /\ src'[s].there = src[s].there
        /\ src'[s].evidence = src[s].evidence
  BY <1>1, <1>3, RowsAndCopies DEF SourceRow
<1> QED BY <1>3, <1>4, <1>6, <1>7, QuietStep

\* Dropping a copy, in a worker that goes on or fails.
LEMMA ReturnCopies ==
    ASSUME NativeInv, NEW w \in Worker, NEW c, NEW m \in {mode[w], "failing"}, Return(w, c, m)
    PROVE  /\ flight' \in [Worker -> SUBSET Copy] /\ ChecksComeFirst'
           /\ mode' \in [Worker -> {"running", "failing", "stopped"}]
           /\ \A v \in Worker : \A e \in flight'[v] :
                 \E b \in flight[v] : e.source = b.source /\ e.newest = b.newest
<1>1. /\ flight' = [flight EXCEPT ![w] = @ \ {c}] /\ mode' = [mode EXCEPT ![w] = m]
      /\ m \in {"running", "failing", "stopped"}
  BY DEF Return, NativeInv, TypeOK
<1> QED BY <1>1, RowsAndCopies DEF NativeInv, TypeOK, ChecksComeFirst

LEMMA CommitStep ==
    ASSUME NativeInv, NEW w \in Worker, NEW c \in flight[w], CommitComplete(w, c)
    PROVE  NativeInv' /\ \A s \in Source : Earned(s)
<1> DEFINE s == c.source
           o == c.outcome
           seen == Observed(src[s], o)
           row == [Unlocked(seen) EXCEPT !.owner = Nobody, !.live = FALSE]
<1>1. s \in Source /\ o \in Outcome
  BY RowsAndCopies DEF Copy, CommitComplete, NativeInv, ChecksComeFirst
<1>2. /\ src' = [src EXCEPT ![s] = row]
      /\ trail' = [trail EXCEPT ![s] = TrailAfter(@, o)]
      /\ line' = Without(s) /\ Return(w, c, mode[w])
  BY DEF CommitComplete
<1>3. /\ seen \in SourceRow /\ seen.there = src[s].there /\ seen.owner = src[s].owner
      /\ seen.archived = src[s].archived
  <2>1. /\ src[s] \in SourceRow /\ trail[s] \in (-MaxTrail)..MaxTrail
        /\ src[s].bad <= Failures(trail[s]) /\ src[s].good <= Successes(trail[s])
    BY <1>1, RowsAndCopies DEF NativeInv, StreaksAreTrailing
  <2> QED BY <1>1, <2>1, ObservedFields
<1> HIDE DEF seen
<1>4. /\ row \in SourceRow /\ row.bad = seen.bad /\ row.good = seen.good
      /\ row.evidence = seen.evidence /\ row.there = seen.there /\ row.owner = Nobody
      /\ row.archived = seen.archived
  BY <1>3 DEF SourceRow, Unlocked
<1> HIDE DEF row, s, o
<1>5. line' \in Seq(Source)
  BY <1>2, WithoutType, RowsAndCopies
<1>6. /\ flight' \in [Worker -> SUBSET Copy] /\ ChecksComeFirst'
      /\ mode' \in [Worker -> {"running", "failing", "stopped"}]
      /\ \A v \in Worker : \A e \in flight'[v] :
            \E b \in flight[v] : e.source = b.source /\ e.newest = b.newest
  BY <1>2, ReturnCopies
<1> QED BY <1>1, <1>2, <1>3, <1>4, <1>5, <1>6, ObservingStep DEF seen
\* A step on one row that concludes nothing.
LEMMA RowStep ==
    ASSUME NativeInv, NEW s \in Source, NEW row \in SourceRow,
           row.bad = src[s].bad, row.good = src[s].good,
           row.owner \in {src[s].owner, Nobody},
           row.there = src[s].there \/ row.owner = Nobody,
           \/ row.evidence = src[s].evidence
           \/ row.evidence = "invalidated"
           \/ row.evidence = "none" /\ (row.there = "gone" \/ row.archived),
           src' = [src EXCEPT ![s] = row], UNCHANGED trail,
           line' \in Seq(Source),
           flight' \in [Worker -> SUBSET Copy],
           mode' \in [Worker -> {"running", "failing", "stopped"}],
           ChecksComeFirst',
           \A w \in Worker : \A d \in flight'[w] :
               \E c \in flight[w] : d.source = c.source /\ d.newest = c.newest
    PROVE  NativeInv' /\ \A t \in Source : Earned(t)
<1>1. src' = [t \in Source |-> IF t = s THEN row ELSE src[t]]
  BY RowsAndCopies
<1>2. TypeOK'
  BY <1>1, RowsAndCopies DEF NativeInv, TypeOK
<1>3. \A t \in Source :
        /\ src'[t].bad = src[t].bad /\ src'[t].good = src[t].good
        /\ src'[t].owner \in {src[t].owner, Nobody}
        /\ src'[t].there = src[t].there \/ src'[t].owner = Nobody
        /\ \/ src'[t].evidence = src[t].evidence
           \/ src'[t].evidence = "invalidated"
           \/ src'[t].evidence = "none" /\ (src'[t].there = "gone" \/ src'[t].archived)
  BY <1>1
<1> QED BY <1>2, <1>3, QuietStep

LEMMA AbortStep ==
    ASSUME NativeInv, NEW w \in Worker, NEW c \in flight[w], AbortComplete(w, c)
    PROVE  NativeInv' /\ \A s \in Source : Earned(s)
<1> DEFINE s == c.source
           row == Unlocked(src[s])
<1>1. s \in Source /\ src[s] \in SourceRow
  BY RowsAndCopies DEF Copy
<1>2. /\ row \in SourceRow /\ row.bad = src[s].bad /\ row.good = src[s].good
      /\ row.owner = src[s].owner /\ row.there = src[s].there
      /\ row.evidence = src[s].evidence
  BY <1>1 DEF SourceRow, Unlocked
<1>3. /\ src' = [src EXCEPT ![s] = row] /\ UNCHANGED <<line, trail>>
      /\ Return(w, c, "failing")
  BY DEF AbortComplete
<1> HIDE DEF row, s
<1>4. /\ flight' \in [Worker -> SUBSET Copy] /\ ChecksComeFirst'
      /\ mode' \in [Worker -> {"running", "failing", "stopped"}]
      /\ \A v \in Worker : \A e \in flight'[v] :
            \E b \in flight[v] : e.source = b.source /\ e.newest = b.newest
  BY <1>3, ReturnCopies
<1>5. line' \in Seq(Source)
  BY <1>3, RowsAndCopies
<1> QED BY <1>1, <1>2, <1>3, <1>4, <1>5, RowStep

LEMMA RefuseStep ==
    ASSUME NativeInv, NEW w \in Worker, NEW c \in flight[w], RefuseComplete(w, c)
    PROVE  NativeInv' /\ \A s \in Source : Earned(s)
<1>1. UNCHANGED <<src, line, trail>> /\ Return(w, c, "failing")
  BY DEF RefuseComplete
<1>2. /\ flight' \in [Worker -> SUBSET Copy] /\ ChecksComeFirst'
      /\ mode' \in [Worker -> {"running", "failing", "stopped"}]
      /\ \A v \in Worker : \A e \in flight'[v] :
            \E b \in flight[v] : e.source = b.source /\ e.newest = b.newest
  BY <1>1, ReturnCopies
<1>3. TypeOK'
  BY <1>1, <1>2 DEF NativeInv, TypeOK
<1> QED BY <1>1, <1>2, <1>3, QuietStep

\* The process stops, dies or comes back.
LEMMA ProcessStep ==
    ASSUME NativeInv, NEW w \in Worker, StopOnError(w) \/ Crash(w) \/ Restart(w)
    PROVE  NativeInv' /\ \A s \in Source : Earned(s)
<1>1. CASE StopOnError(w) \/ Restart(w)
  <2>1. UNCHANGED <<src, line, flight, trail>>
    BY <1>1 DEF StopOnError, Restart
  <2>2. mode' \in [Worker -> {"running", "failing", "stopped"}]
    BY <1>1 DEF StopOnError, Restart, NativeInv, TypeOK
  <2>3. TypeOK' /\ ChecksComeFirst'
    BY <2>1, <2>2 DEF NativeInv, TypeOK, ChecksComeFirst
  <2> QED BY <2>1, <2>3, QuietStep
<1>2. CASE Crash(w)
  <2>1. /\ flight' = [flight EXCEPT ![w] = {}] /\ UNCHANGED <<line, trail>>
        /\ mode' = [mode EXCEPT ![w] = "stopped"]
        /\ src' \in [Source -> SourceRow]
        /\ \A s \in Source :
             /\ src'[s].bad = src[s].bad /\ src'[s].good = src[s].good
             /\ src'[s].owner = src[s].owner /\ src'[s].there = src[s].there
             /\ src'[s].evidence = src[s].evidence
    <3>1. \A s \in Source : /\ Unlocked(src[s]) \in SourceRow
                            /\ Unlocked(src[s]).bad = src[s].bad
                            /\ Unlocked(src[s]).good = src[s].good
                            /\ Unlocked(src[s]).owner = src[s].owner
                            /\ Unlocked(src[s]).there = src[s].there
                            /\ Unlocked(src[s]).evidence = src[s].evidence
      BY ZenonT(60), RowsAndCopies DEF Unlocked, SourceRow
    <3> QED BY <1>2, <3>1, RowsAndCopies DEF Crash
  <2>2. TypeOK' /\ ChecksComeFirst'
    BY <2>1 DEF NativeInv, TypeOK, ChecksComeFirst
  <2>3. \A v \in Worker : \A d \in flight'[v] : d \in flight[v]
    BY <2>1, RowsAndCopies
  <2> QED BY <2>1, <2>2, <2>3, QuietStep
<1> QED BY <1>1, <1>2

----------------------------------------------------------------------------
(* Time and the control plane *)

LEMMA TimeStep ==
    ASSUME NativeInv, NEW s \in Source, BecomesDue(s) \/ LeaseExpires(s)
    PROVE  NativeInv' /\ \A t \in Source : Earned(t)
<1>1. CASE BecomesDue(s)
  <2>1. UNCHANGED <<src, flight, mode, trail>> /\ line' \in Seq(Source)
    BY <1>1, RowsAndCopies DEF BecomesDue
  <2>2. TypeOK' /\ ChecksComeFirst'
    BY <2>1 DEF NativeInv, TypeOK, ChecksComeFirst
  <2> QED BY <2>1, <2>2, QuietStep
<1>2. CASE LeaseExpires(s)
  <2> DEFINE row == [src[s] EXCEPT !.live = FALSE]
  <2>1. /\ row \in SourceRow /\ row.bad = src[s].bad /\ row.good = src[s].good
        /\ row.owner = src[s].owner /\ row.there = src[s].there
        /\ row.evidence = src[s].evidence
    BY ZenonT(60), RowsAndCopies DEF SourceRow
  <2>2. src' = [src EXCEPT ![s] = row] /\ UNCHANGED <<line, flight, mode, trail>>
    BY <1>2 DEF LeaseExpires
  <2> HIDE DEF row
  <2>3. ChecksComeFirst'
    BY <2>2 DEF NativeInv, ChecksComeFirst
  <2> QED BY <2>1, <2>2, <2>3, RowsAndCopies, RowStep DEF NativeInv, TypeOK
<1> QED BY <1>1, <1>2

LEMMA AgeStep ==
    ASSUME NativeInv, NEW s \in Source, NEW current \in BOOLEAN, SignalAges(s, current)
    PROVE  NativeInv' /\ \A t \in Source : Earned(t)
<1> DEFINE ages(c) == c.source = s /\ c.signal \in {"fresh", "failed"} /\ (current \/ ~c.latest)
           older(c) == IF ages(c) THEN [c EXCEPT !.signal = "old"] ELSE c
           row == IF current THEN [src[s] EXCEPT !.signal = "old"] ELSE src[s]
<1>1. /\ flight' = [w \in Worker |-> {older(c) : c \in flight[w]}]
      /\ UNCHANGED <<line, mode, trail>>
      /\ src' = [src EXCEPT ![s] = row]
  BY RowsAndCopies DEF SignalAges
<1>2. /\ row \in SourceRow /\ row.bad = src[s].bad /\ row.good = src[s].good
      /\ row.owner = src[s].owner /\ row.there = src[s].there
      /\ row.evidence = src[s].evidence
  BY ZenonT(60), RowsAndCopies DEF SourceRow, Signal
<1>3. \A w \in Worker : \A c \in flight[w] :
        /\ older(c) \in Copy /\ older(c).source = c.source /\ older(c).newest = c.newest
        /\ older(c).target = c.target /\ older(c).outcome = c.outcome
  <2> SUFFICES ASSUME NEW w \in Worker, NEW c \in flight[w]
               PROVE  /\ older(c) \in Copy /\ older(c).source = c.source
                      /\ older(c).newest = c.newest
                      /\ older(c).target = c.target /\ older(c).outcome = c.outcome
    OBVIOUS
  <2>1. c \in Copy
    BY RowsAndCopies
  <2>2. CASE ages(c)
    BY <2>1, <2>2 DEF Copy, Signal
  <2>3. CASE ~ages(c)
    BY <2>1, <2>3
  <2> QED BY <2>2, <2>3
<1> HIDE DEF older, row
<1>4. flight' \in [Worker -> SUBSET Copy]
  BY <1>1, <1>3
<1>5. \A w \in Worker : \A d \in flight'[w] : \E c \in flight[w] : d = older(c)
  BY <1>1
<1>6. ChecksComeFirst'
  BY <1>3, <1>5 DEF NativeInv, ChecksComeFirst
<1>7. \A w \in Worker : \A d \in flight'[w] :
        \E c \in flight[w] : d.source = c.source /\ d.newest = c.newest
  BY <1>3, <1>5
<1>8. line' \in Seq(Source) /\ mode' \in [Worker -> {"running", "failing", "stopped"}]
  BY <1>1 DEF NativeInv, TypeOK
<1> QED BY <1>1, <1>2, <1>4, <1>6, <1>7, <1>8, RowStep

LEMMA HeartbeatStep ==
    ASSUME NativeInv, NEW s \in Source, NEW ok \in BOOLEAN, ReceiveHeartbeat(s, ok)
    PROVE  NativeInv' /\ \A t \in Source : Earned(t)
<1> DEFINE o == IF ok THEN "healthy" ELSE "unhealthy"
           seen == Observed(src[s], o)
           row == [seen EXCEPT !.signal = IF ok THEN "fresh" ELSE "failed"]
           later(c) == [c EXCEPT !.latest = @ /\ c.source # s]
<1>1. /\ src' = [src EXCEPT ![s] = row]
      /\ trail' = [trail EXCEPT ![s] = TrailAfter(@, o)]
      /\ line' = Without(s) /\ UNCHANGED mode
      /\ flight' = [w \in Worker |-> {later(c) : c \in flight[w]}]
  BY DEF ReceiveHeartbeat
<1>2. o \in Outcome
  BY DEF Outcome
<1>3. /\ seen \in SourceRow /\ seen.there = src[s].there /\ seen.owner = src[s].owner
      /\ seen.archived = src[s].archived
  <2>1. /\ src[s] \in SourceRow /\ trail[s] \in (-MaxTrail)..MaxTrail
        /\ src[s].bad <= Failures(trail[s]) /\ src[s].good <= Successes(trail[s])
    BY RowsAndCopies DEF NativeInv, StreaksAreTrailing
  <2> HIDE DEF o
  <2> QED BY <1>2, <2>1, ObservedFields
<1> HIDE DEF seen
<1>4. /\ row \in SourceRow /\ row.bad = seen.bad /\ row.good = seen.good
      /\ row.evidence = seen.evidence /\ row.there = seen.there
      /\ row.owner = seen.owner /\ row.archived = seen.archived
  BY <1>3 DEF SourceRow, Signal
<1> HIDE DEF row, o
<1>5. \A w \in Worker : \A c \in flight[w] :
        /\ later(c) \in Copy /\ later(c).source = c.source /\ later(c).newest = c.newest
        /\ later(c).target = c.target /\ later(c).outcome = c.outcome
  BY ZenonT(60), RowsAndCopies DEF Copy
<1> HIDE DEF later
<1>6. flight' \in [Worker -> SUBSET Copy]
  BY <1>1, <1>5
<1>7. \A w \in Worker : \A d \in flight'[w] : \E c \in flight[w] : d = later(c)
  BY <1>1
<1>8. ChecksComeFirst'
  BY <1>5, <1>7 DEF NativeInv, ChecksComeFirst
<1>9. \A w \in Worker : \A d \in flight'[w] :
        \E c \in flight[w] : d.source = c.source /\ d.newest = c.newest
  BY <1>5, <1>7
<1>10. line' \in Seq(Source) /\ mode' \in [Worker -> {"running", "failing", "stopped"}]
  BY <1>1, WithoutType, RowsAndCopies DEF NativeInv, TypeOK
<1> QED BY <1>1, <1>2, <1>3, <1>4, <1>6, <1>8, <1>9, <1>10, ObservingStep DEF seen

LEMMA AdministerStep ==
    ASSUME NativeInv, NEW s \in Source, Administer(s)
    PROVE  NativeInv' /\ \A t \in Source : Earned(t)
<1> DEFINE old == src[s]
<1>1. old \in SourceRow /\ src = [t \in Source |-> src[t]]
  BY RowsAndCopies
<1>2. PICK row \in SourceRow :
        /\ src' = [src EXCEPT ![s] = row]
        /\ row.bad = old.bad /\ row.good = old.good
        /\ row.owner \in {old.owner, Nobody}
        /\ row.there = old.there \/ row.owner = Nobody
        /\ \/ row.evidence = old.evidence
           \/ row.evidence = "invalidated"
           \/ row.evidence = "none" /\ (row.there = "gone" \/ row.archived)
  <2>1. CASE CreateSource(s)
    <3>1. PICK f \in Threshold, r \in Threshold :
            src' = [src EXCEPT ![s].there = "yes", ![s].fail = f, ![s].rec = r]
      BY <2>1 DEF CreateSource
    <3> DEFINE row == [old EXCEPT !.there = "yes", !.fail = f, !.rec = r]
    <3>2. src' = [src EXCEPT ![s] = row]
      BY <1>1, <3>1
    <3>3. /\ row \in SourceRow /\ row.bad = old.bad /\ row.good = old.good
          /\ row.owner = old.owner /\ row.evidence = old.evidence
      BY <1>1 DEF SourceRow
    <3>4. row.owner = Nobody
      BY <2>1, <3>3 DEF CreateSource, NativeInv, OnlyRowsAreLeased
    <3> HIDE DEF row
    <3> QED BY <3>2, <3>3, <3>4
  <2>2. CASE UpdateSource(s)
    <3>1. PICK on \in BOOLEAN, f \in Threshold, r \in Threshold :
            src' = [src EXCEPT ![s].enabled = on, ![s].fail = f, ![s].rec = r]
      BY <2>2 DEF UpdateSource
    <3> DEFINE row == [old EXCEPT !.enabled = on, !.fail = f, !.rec = r]
    <3>2. src' = [src EXCEPT ![s] = row]
      BY <1>1, <3>1
    <3>3. /\ row \in SourceRow /\ row.bad = old.bad /\ row.good = old.good
          /\ row.owner = old.owner /\ row.evidence = old.evidence /\ row.there = old.there
      BY <1>1 DEF SourceRow
    <3> HIDE DEF row
    <3> QED BY <3>2, <3>3
  <2>3. CASE DeleteSource(s)
    <3> DEFINE row == [old EXCEPT !.there = "gone", !.evidence = "none",
                                  !.owner = Nobody, !.live = FALSE]
    <3>1. src' = [src EXCEPT ![s] = row]
      BY <1>1, <2>3 DEF DeleteSource
    <3>2. /\ row \in SourceRow /\ row.bad = old.bad /\ row.good = old.good
          /\ row.owner = Nobody /\ row.evidence = "none" /\ row.there = "gone"
      BY <1>1 DEF SourceRow
    <3> HIDE DEF row
    <3> QED BY <3>1, <3>2
  <2>4. CASE ArchiveTarget(s)
    <3> DEFINE e == IF old.evidence = "active" THEN "none" ELSE old.evidence
               row == [old EXCEPT !.archived = TRUE, !.evidence = e]
    <3>1. src' = [src EXCEPT ![s] = row]
      BY <1>1, <2>4 DEF ArchiveTarget
    <3>2. e \in {"none", old.evidence} /\ e \in {"none", "active", "invalidated"}
      BY <1>1 DEF SourceRow
    <3> HIDE DEF e
    <3>3. /\ row \in SourceRow /\ row.bad = old.bad /\ row.good = old.good
          /\ row.owner = old.owner /\ row.evidence = e /\ row.there = old.there
          /\ row.archived
      BY <1>1, <3>2 DEF SourceRow
    <3> HIDE DEF row
    <3> QED BY <3>1, <3>2, <3>3
  <2>5. CASE RestoreTarget(s)
    <3> DEFINE row == [old EXCEPT !.archived = FALSE]
    <3>1. src' = [src EXCEPT ![s] = row]
      BY <1>1, <2>5 DEF RestoreTarget
    <3>2. /\ row \in SourceRow /\ row.bad = old.bad /\ row.good = old.good
          /\ row.owner = old.owner /\ row.evidence = old.evidence /\ row.there = old.there
      BY <1>1 DEF SourceRow
    <3> HIDE DEF row
    <3> QED BY <3>1, <3>2
  <2>6. CASE InvalidateEvidence(s)
    <3> DEFINE row == [old EXCEPT !.evidence = "invalidated"]
    <3>1. src' = [src EXCEPT ![s] = row]
      BY <1>1, <2>6 DEF InvalidateEvidence
    <3>2. /\ row \in SourceRow /\ row.bad = old.bad /\ row.good = old.good
          /\ row.owner = old.owner /\ row.evidence = "invalidated" /\ row.there = old.there
      BY <1>1 DEF SourceRow
    <3> HIDE DEF row
    <3> QED BY <3>1, <3>2
  <2> QED BY <2>1, <2>2, <2>3, <2>4, <2>5, <2>6 DEF Administer
<1>3. UNCHANGED <<flight, mode, trail>>
  BY DEF Administer, CreateSource, UpdateSource, DeleteSource, ArchiveTarget, RestoreTarget,
         InvalidateEvidence
<1>4. line' \in Seq(Source)
  <2>1. line' = line \/ line' = Append(line, s) \/ line' = Without(s)
    BY DEF Administer, CreateSource, UpdateSource, DeleteSource, ArchiveTarget, RestoreTarget,
           InvalidateEvidence
  <2>2. line \in Seq(Source) /\ Without(s) \in Seq(Source)
    BY WithoutType, RowsAndCopies
  <2>3. Append(line, s) \in Seq(Source)
    BY <2>2
  <2> QED BY <2>1, <2>2, <2>3
<1>5. /\ flight' \in [Worker -> SUBSET Copy] /\ ChecksComeFirst'
      /\ mode' \in [Worker -> {"running", "failing", "stopped"}]
      /\ \A v \in Worker : \A e \in flight'[v] :
            \E b \in flight[v] : e.source = b.source /\ e.newest = b.newest
  BY <1>3 DEF NativeInv, TypeOK, ChecksComeFirst
<1> HIDE DEF old
<1> QED BY <1>2, <1>3, <1>4, <1>5, RowStep DEF old

----------------------------------------------------------------------------
(* The theorems *)

LEMMA NativeInit == Init => NativeInv
<1> SUFFICES ASSUME Init PROVE NativeInv
  OBVIOUS
<1> USE MaxTrailType
<1>1. TypeOK
  BY DEF Init, TypeOK, SourceRow, Signal
<1>2. OnlyNewestCounts /\ ChecksComeFirst
  BY DEF Init, OnlyNewestCounts, ChecksComeFirst
<1>3. OnlyRowsAreLeased /\ StreaksAreTrailing
  BY DEF Init, OnlyRowsAreLeased, StreaksAreTrailing, Failures, Successes
<1> QED BY <1>1, <1>2, <1>3 DEF NativeInv

LEMMA NativeStep ==
    NativeInv /\ [Next]_vars => NativeInv' /\ \A s \in Source : Earned(s)
<1> SUFFICES ASSUME NativeInv, [Next]_vars PROVE NativeInv' /\ \A s \in Source : Earned(s)
  OBVIOUS
<1>1. CASE UNCHANGED vars
  BY <1>1 DEF vars, NativeInv, TypeOK, OnlyNewestCounts, OnlyRowsAreLeased, StreaksAreTrailing,
              ChecksComeFirst, Earned
<1>2. ASSUME NEW w \in Worker, WorkerStep(w) \/ Crash(w)
      PROVE  NativeInv' /\ \A s \in Source : Earned(s)
  <2>1. CASE ClaimDue(w)
    BY <2>1, ClaimStep
  <2>2. CASE StopOnError(w) \/ Crash(w) \/ Restart(w)
    BY <2>2, ProcessStep
  <2>3. ASSUME NEW c \in flight[w], Check(w, c) \/ CompleteStep(w, c)
        PROVE  NativeInv' /\ \A s \in Source : Earned(s)
    BY <2>3, CheckStep, BeginStep, CommitStep, AbortStep, RefuseStep DEF CompleteStep
  <2> QED BY <1>2, <2>1, <2>2, <2>3 DEF WorkerStep
<1>3. ASSUME NEW s \in Source,
             \/ Administer(s) \/ Time(s)
             \/ \E ok \in BOOLEAN : ReceiveHeartbeat(s, ok)
      PROVE  NativeInv' /\ \A t \in Source : Earned(t)
  BY <1>3, AdministerStep, TimeStep, AgeStep, HeartbeatStep DEF Time
<1> QED BY <1>1, <1>2, <1>3 DEF Next

\* The worker never records the result of a claim that a later one has replaced,
\* under any number of workers, expired leases and restarts: Complete's test of
\* lease_owner (store.go) is enough, although it names no claim.
THEOREM OnlyNewestIsRecorded == Spec => []MonitoringInv
<1>1. NativeInv => MonitoringInv
  BY DEF NativeInv, MonitoringInv
<1> QED BY <1>1, NativeInit, NativeStep, PTL DEF Spec

\* Native evidence opens only after as many unhealthy observations in a row as
\* the failure threshold asks for, and closes only after as many healthy ones as
\* the recovery threshold does, for all thresholds and all changes of them.
THEOREM EvidenceIsEarned == Spec => ConclusionsAreEarned
<1>1. NativeInv /\ [Next]_vars => [\A s \in Source : Earned(s)]_vars
  BY NativeStep
<1> QED BY <1>1, NativeInit, NativeStep, PTL DEF Spec, ConclusionsAreEarned

=============================================================================
