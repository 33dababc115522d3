-------------------------- MODULE NativeMonitoring --------------------------
(***************************************************************************)
(* Native checks: the scheduler of the worker (internal/monitoring), the   *)
(* heartbeat endpoint and the administration of sources                    *)
(* (internal/controlplane), the trigger policy (internal/domain/trigger.go)*)
(* and what a conclusion does to the evidence (internal/incidents/native).  *)
(*                                                                         *)
(* A worker claims due sources under a lease, checks what it read at the   *)
(* claim, and records the result in a transaction of its own.  That        *)
(* transaction holds the row of the source and reads the target without    *)
(* locking it, so it is two actions.  The other transactions are one each. *)
(* Each source has a target of its own.  A worker whose scheduler returns  *)
(* an error stops as a whole and is restarted by its supervisor.           *)
(***************************************************************************)
EXTENDS Integers, Sequences, FiniteSets, SequencesExt

CONSTANTS
    Source,
    Heartbeat,      \* the sources of kind heartbeat
    Worker,         \* worker instances: lease owners
    Threshold,      \* values the failure and recovery thresholds take
    Batch           \* sources claimed at once: 32

\* A lease_owner that is null.
Nobody == "nobody"

ASSUME MonitoringConstants ==
    /\ Heartbeat \subseteq Source
    /\ Nobody \notin Worker
    /\ Threshold \subseteq Nat \ {0}
    /\ \E n \in Threshold : \A k \in Threshold : k <= n
    /\ Batch \in Nat \ {0}

VARIABLES
    src,        \* Source -> its row, its evidence and its target's archiving
    line,       \* due sources, by next_run_at
    flight,     \* Worker -> the claimed sources it has not recorded yet
    mode,       \* Worker -> running, failing (an error is pending), stopped
    trail       \* history: trailing equal conclusions, > 0 healthy, < 0 unhealthy

vars == <<src, line, flight, mode, trail>>

Signal == {"none", "fresh", "failed", "old"}

Outcome == {"healthy", "unhealthy", "unknown"}

MaxTrail == CHOOSE n \in Threshold : \A k \in Threshold : k <= n

SourceRow ==
    [there : {"absent", "yes", "gone"}, enabled : BOOLEAN, archived : BOOLEAN,
     owner : Worker \cup {Nobody}, live : BOOLEAN,
     fail : Threshold, rec : Threshold, bad : 0..MaxTrail, good : 0..MaxTrail,
     signal : Signal, evidence : {"none", "active", "invalidated"},
     locked : BOOLEAN]

\* What a goroutine holds of a source: the signal read at the claim, the
\* outcome, and the target as the open transaction read it.  The rest is
\* history: latest, no signal has arrived since; newest, no later claim exists.
Copy == [source : Source, signal : Signal, latest : BOOLEAN, newest : BOOLEAN,
         outcome : Outcome \cup {"none"}, target : {"unread", "active", "archived"}]

Init ==
    /\ src = [s \in Source |->
                [there |-> "absent", enabled |-> TRUE, archived |-> FALSE,
                 owner |-> Nobody, live |-> FALSE,
                 fail |-> MaxTrail, rec |-> MaxTrail, bad |-> 0, good |-> 0,
                 signal |-> "none", evidence |-> "none", locked |-> FALSE]]
    /\ line = <<>>
    /\ flight = [w \in Worker |-> {}]
    /\ mode = [w \in Worker |-> "running"]
    /\ trail = [s \in Source |-> 0]

----------------------------------------------------------------------------
(* TriggerPolicy.Evaluate and ApplyNativeObservation *)

Capped(n, bound) == IF n > bound THEN bound ELSE n

\* Mutant: an unhealthy observation leaves the healthy streak alone, and back.
StreaksKept(row, outcome) ==
    CASE outcome = "unhealthy" -> [bad |-> Capped(row.bad + 1, row.fail), good |-> row.good]
      [] outcome = "healthy" -> [bad |-> row.bad, good |-> Capped(row.good + 1, row.rec)]
      [] OTHER -> [bad |-> row.bad, good |-> row.good]

Streaks(row, outcome) ==
    CASE outcome = "unhealthy" -> [bad |-> Capped(row.bad + 1, row.fail), good |-> 0]
      [] outcome = "healthy" -> [bad |-> 0, good |-> Capped(row.good + 1, row.rec)]
      [] OTHER -> [bad |-> row.bad, good |-> row.good]

Triggered(row, outcome) ==
    outcome = "unhealthy" /\ Streaks(row, outcome).bad >= row.fail

Recovered(row, outcome) ==
    outcome = "healthy" /\ Streaks(row, outcome).good >= row.rec

\* A triggered observation that must open evidence asks for the target.
Opens(row, outcome) == Triggered(row, outcome) /\ row.evidence = "none"

\* The row after an observation that is recorded.
Observed(row, outcome) ==
    [row EXCEPT !.bad = Streaks(row, outcome).bad,
                !.good = Streaks(row, outcome).good,
                !.evidence = IF Opens(row, outcome) THEN "active"
                             ELSE IF Recovered(row, outcome) THEN "none" ELSE @]

\* History: the trailing run of equal conclusions.
TrailAfter(n, outcome) ==
    CASE outcome = "healthy" -> Capped((IF n > 0 THEN n ELSE 0) + 1, MaxTrail)
      [] outcome = "unhealthy" -> -Capped((IF n < 0 THEN -n ELSE 0) + 1, MaxTrail)
      [] OTHER -> n

----------------------------------------------------------------------------
(* The scheduler *)

\* Mutant: an expired lease is not taken over.
DueUnowned(s) ==
    /\ src[s].there = "yes" /\ src[s].enabled /\ ~src[s].archived
    /\ ~src[s].locked /\ src[s].owner = Nobody

Due(s) ==
    /\ src[s].there = "yes" /\ src[s].enabled /\ ~src[s].archived
    /\ ~src[s].locked
    /\ src[s].owner = Nobody \/ ~src[s].live

\* The line without a source, which is in it at most once.
Without(s) ==
    IF s \in ToSet(line) THEN RemoveAt(line, CHOOSE k \in DOMAIN line : line[k] = s)
    ELSE line

Claim(s) == [source |-> s, signal |-> src[s].signal, latest |-> TRUE,
             newest |-> TRUE, outcome |-> "none", target |-> "unread"]

\* Mutant: the next tick does not wait for the checks of the last one.
IdleOrNot(w) == mode[w] = "running"

\* tick claims again only when every goroutine of the last one has returned.
Idle(w) == mode[w] = "running" /\ flight[w] = {}

ClaimDue(w) ==
    LET before(k) == {j \in 1..k : Due(line[j])}
        first == {k \in DOMAIN line : Due(line[k]) /\ Cardinality(before(k)) <= Batch}
        batch == {line[k] : k \in first}
        superseded(c) == [c EXCEPT !.newest = @ /\ c.source \notin batch]
        older(v) == {superseded(c) : c \in flight[v]}
    IN
    /\ Idle(w) /\ batch # {}
    /\ src' = [s \in Source |-> IF s \in batch
                                THEN [src[s] EXCEPT !.owner = w, !.live = TRUE]
                                ELSE src[s]]
    /\ flight' = [v \in Worker |-> IF v = w THEN older(v) \cup {Claim(s) : s \in batch}
                                   ELSE older(v)]
    /\ UNCHANGED <<line, mode, trail>>

\* Heartbeat.Check: the deadline of the signal read at the claim.
HeartbeatOutcome(signal) ==
    CASE signal = "none" -> "unknown"
      [] signal = "fresh" -> "healthy"
      [] OTHER -> "unhealthy"

Replace(w, c, d) == flight' = [flight EXCEPT ![w] = (@ \ {c}) \cup {d}]

\* Checker.Check, within the timeout of the source.
Check(w, c) ==
    /\ c.outcome = "none"
    /\ \E o \in Outcome :
          /\ c.source \in Heartbeat => o = HeartbeatOutcome(c.signal)
          /\ Replace(w, c, [c EXCEPT !.outcome = o])
    /\ UNCHANGED <<src, line, mode, trail>>

\* Complete, until its commit: the lease is given back in the transaction, and
\* ensureImpact reads the target when evidence must be opened.
BeginComplete(w, c) ==
    /\ c.outcome # "none" /\ c.target = "unread"
    /\ src[c.source].there = "yes" /\ ~src[c.source].locked
    /\ src[c.source].owner = w
    /\ src' = [src EXCEPT ![c.source].locked = TRUE]
    /\ Replace(w, c, [c EXCEPT !.target =
                         IF src[c.source].archived THEN "archived" ELSE "active"])
    /\ UNCHANGED <<line, mode, trail>>

Return(w, c, m) ==
    /\ flight' = [flight EXCEPT ![w] = @ \ {c}]
    /\ mode' = [mode EXCEPT ![w] = m]

Unlocked(row) == [row EXCEPT !.locked = FALSE]

CommitComplete(w, c) ==
    LET row == src[c.source] IN
    /\ c.target # "unread"
    /\ ~(Opens(row, c.outcome) /\ c.target = "archived")
    /\ src' = [src EXCEPT ![c.source] =
                  [Unlocked(Observed(row, c.outcome)) EXCEPT !.owner = Nobody, !.live = FALSE]]
    /\ line' = Without(c.source)
    /\ trail' = [trail EXCEPT ![c.source] = TrailAfter(@, c.outcome)]
    /\ Return(w, c, mode[w])

\* ErrTargetArchived: everything is rolled back, the lease is kept.
AbortComplete(w, c) ==
    /\ c.target = "archived" /\ Opens(src[c.source], c.outcome)
    /\ src' = [src EXCEPT ![c.source] = Unlocked(@)]
    /\ Return(w, c, "failing")
    /\ UNCHANGED <<line, trail>>

\* "source is no longer leased": taken over by another worker, or deleted.
RefuseComplete(w, c) ==
    /\ c.outcome # "none" /\ c.target = "unread"
    /\ ~src[c.source].locked
    /\ src[c.source].there # "yes" \/ src[c.source].owner # w
    /\ Return(w, c, "failing")
    /\ UNCHANGED <<src, line, trail>>

\* The error of a completion ends Scheduler.Run, and Worker.Run with it.
StopOnError(w) ==
    /\ mode[w] = "failing" /\ flight[w] = {}
    /\ mode' = [mode EXCEPT ![w] = "stopped"]
    /\ UNCHANGED <<src, line, flight, trail>>

\* The process dies; its open transactions are rolled back.
Crash(w) ==
    /\ mode[w] # "stopped"
    /\ mode' = [mode EXCEPT ![w] = "stopped"]
    /\ flight' = [flight EXCEPT ![w] = {}]
    /\ src' = [s \in Source |->
                 IF \E c \in flight[w] : c.source = s /\ c.target # "unread"
                 THEN Unlocked(src[s]) ELSE src[s]]
    /\ UNCHANGED <<line, trail>>

\* External: the container is restarted unless stopped by hand.
Restart(w) ==
    /\ mode[w] = "stopped"
    /\ mode' = [mode EXCEPT ![w] = "running"]
    /\ UNCHANGED <<src, line, flight, trail>>

----------------------------------------------------------------------------
(* Time *)

BecomesDue(s) ==
    /\ src[s].there = "yes" /\ s \notin ToSet(line)
    /\ line' = Append(line, s)
    /\ UNCHANGED <<src, flight, mode, trail>>

LeaseExpires(s) ==
    /\ src[s].live
    /\ src' = [src EXCEPT ![s].live = FALSE]
    /\ UNCHANGED <<line, flight, mode, trail>>

\* The tolerance of the current signal runs out, or only that of an earlier one
\* which a copy still holds.
SignalAges(s, current) ==
    LET ages(c) == c.source = s /\ c.signal \in {"fresh", "failed"} /\ (current \/ ~c.latest) IN
    /\ IF current THEN src[s].signal \in {"fresh", "failed"}
       ELSE \E w \in Worker : \E c \in flight[w] : ages(c)
    /\ flight' = [w \in Worker |->
                    {IF ages(c) THEN [c EXCEPT !.signal = "old"] ELSE c : c \in flight[w]}]
    /\ src' = IF current THEN [src EXCEPT ![s].signal = "old"] ELSE src
    /\ UNCHANGED <<line, mode, trail>>

----------------------------------------------------------------------------
(* The control plane *)

\* ReceiveHeartbeat; refused as a whole when it would open evidence on an
\* archived target.
ReceiveHeartbeat(s, ok) ==
    LET outcome == IF ok THEN "healthy" ELSE "unhealthy" IN
    /\ s \in Heartbeat /\ src[s].there = "yes" /\ src[s].enabled /\ ~src[s].locked
    /\ ~(src[s].archived /\ Opens(src[s], outcome))
    /\ src' = [src EXCEPT ![s] = [Observed(@, outcome) EXCEPT
                                     !.signal = IF ok THEN "fresh" ELSE "failed"]]
    /\ line' = Without(s)
    /\ trail' = [trail EXCEPT ![s] = TrailAfter(@, outcome)]
    /\ flight' = [w \in Worker |->
                    {[c EXCEPT !.latest = @ /\ c.source # s] : c \in flight[w]}]
    /\ UNCHANGED mode

CreateSource(s) ==
    /\ src[s].there = "absent" /\ ~src[s].archived
    /\ \E f \in Threshold, r \in Threshold :
          src' = [src EXCEPT ![s].there = "yes", ![s].fail = f, ![s].rec = r]
    /\ line' = Append(line, s)
    /\ UNCHANGED <<flight, mode, trail>>

\* The streaks are kept, whatever the new thresholds.
UpdateSource(s) ==
    /\ src[s].there = "yes" /\ ~src[s].archived /\ ~src[s].locked
    /\ \E on \in BOOLEAN, f \in Threshold, r \in Threshold :
          src' = [src EXCEPT ![s].enabled = on, ![s].fail = f, ![s].rec = r]
    /\ UNCHANGED <<line, flight, mode, trail>>

DeleteSource(s) ==
    /\ src[s].there = "yes" /\ ~src[s].locked
    /\ src' = [src EXCEPT ![s].there = "gone", ![s].evidence = "none",
                          ![s].owner = Nobody, ![s].live = FALSE]
    /\ line' = Without(s)
    /\ UNCHANGED <<flight, mode, trail>>

\* The rows of active evidence are locked: archiving waits for a transaction
\* that holds one, and does not see one that is not committed yet.
ArchiveTarget(s) ==
    /\ ~src[s].archived
    /\ ~(src[s].locked /\ src[s].evidence = "active")
    /\ src' = [src EXCEPT ![s].archived = TRUE,
                          ![s].evidence = IF @ = "active" THEN "none" ELSE @]
    /\ UNCHANGED <<line, flight, mode, trail>>

RestoreTarget(s) ==
    /\ src[s].archived
    /\ src' = [src EXCEPT ![s].archived = FALSE]
    /\ UNCHANGED <<line, flight, mode, trail>>

InvalidateEvidence(s) ==
    /\ src[s].evidence = "active" /\ ~src[s].locked
    /\ src' = [src EXCEPT ![s].evidence = "invalidated"]
    /\ UNCHANGED <<line, flight, mode, trail>>

----------------------------------------------------------------------------

CompleteStep(w, c) ==
    \/ BeginComplete(w, c) \/ CommitComplete(w, c)
    \/ AbortComplete(w, c) \/ RefuseComplete(w, c)

WorkerStep(w) ==
    \/ ClaimDue(w) \/ StopOnError(w) \/ Restart(w)
    \/ \E c \in flight[w] : Check(w, c) \/ CompleteStep(w, c)

Administer(s) ==
    \/ CreateSource(s) \/ UpdateSource(s) \/ DeleteSource(s)
    \/ ArchiveTarget(s) \/ RestoreTarget(s) \/ InvalidateEvidence(s)

Time(s) == BecomesDue(s) \/ LeaseExpires(s) \/ \E current \in BOOLEAN : SignalAges(s, current)

Next ==
    \/ \E w \in Worker : WorkerStep(w) \/ Crash(w)
    \/ \E s \in Source :
          \/ Administer(s) \/ Time(s)
          \/ \E ok \in BOOLEAN : ReceiveHeartbeat(s, ok)

Spec == Init /\ [][Next]_vars

\* Loops, requests in progress and the supervisor always continue, and the
\* worker does not crash for ever.
FairSpec ==
    /\ Spec
    /\ \A w \in Worker : WF_vars(WorkerStep(w))
    /\ \A s \in Source : WF_vars(LeaseExpires(s))
    /\ <>[][\A w \in Worker : ~Crash(w)]_vars

----------------------------------------------------------------------------
(* Correctness *)

\* The rows and the goroutines have their types.
TypeOK ==
    /\ src \in [Source -> SourceRow]
    /\ line \in Seq(Source)
    /\ flight \in [Worker -> SUBSET Copy]
    /\ mode \in [Worker -> {"running", "failing", "stopped"}]
    /\ trail \in [Source -> (-MaxTrail)..MaxTrail]

\* The owner column is all the fencing there is, and it names a worker rather
\* than a claim: still, only the newest claim of a source can be recorded,
\* although leases expire under slow checks and workers restart under the same
\* name.
OnlyNewestCounts ==
    \A w \in Worker : \A c \in flight[w] :
        (src[c.source].there = "yes" /\ src[c.source].owner = w) => c.newest

\* The types, and the claims that may be recorded.
MonitoringInv == TypeOK /\ OnlyNewestCounts

Earned(s) ==
    /\ (src[s].evidence # "active" /\ src'[s].evidence = "active")
       => -trail'[s] >= src[s].fail
    /\ (src[s].evidence # "none" /\ src'[s].evidence = "none"
           /\ src'[s].there = "yes" /\ ~src'[s].archived)
       => trail'[s] >= src[s].rec

\* Evidence opens only after the failures the policy asks for in a row, and
\* closes, without an administrator, only after the successes it asks for in a
\* row ("l'absence de preuve ne constitue jamais un rétablissement"), over the
\* observations of workers and heartbeats together and under changing
\* thresholds.
ConclusionsAreEarned == [][\A s \in Source : Earned(s)]_vars

Checkable(s) ==
    s \in ToSet(line) /\ src[s].enabled /\ ~src[s].archived

\* A due check is recorded, although the worker stops at the first result it
\* cannot record and must wait for its own leases to expire when it is back.
DueChecksRun == \A s \in Source : []<>(~Checkable(s))

============================================================================
