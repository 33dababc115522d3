--------------------------- MODULE Reconciliation ---------------------------
(***************************************************************************)
(* Durable reconciliation operations (internal/reconciliation: store.go,   *)
(* processor.go): an administrator asks for two targets to be merged or    *)
(* for a source to be moved, a processor of the worker claims the          *)
(* operation under a lease, mutates everything in one serializable         *)
(* transaction, verifies the attribution of the observations and reports   *)
(* the end.  Each statement or transaction is one action; the processor    *)
(* may die, lose its lease or meet an error between any two of them, and   *)
(* native checks keep running with the target they read when they began.   *)
(***************************************************************************)
EXTENDS Integers, FiniteSets

CONSTANTS
    Target, Source, Operation, Processor,
    None,
    FirstTarget,    \* Source -> the target it was created on
    MaxAttempts     \* 3

ASSUME ReconciliationConstants ==
    /\ Target # {}
    /\ FirstTarget \in [Source -> Target]
    /\ MaxAttempts \in Nat \ {0}
    /\ None \notin Target \cup Source \cup Operation \cup Processor

VARIABLES
    tgt,        \* Target -> archiving and redirection
    at,         \* Source -> its target_id
    seen,       \* Source -> targets its observations are attributed to
    check,      \* Source -> the target a check in flight read, or None
    op,         \* Operation -> its row
    work,       \* Processor -> the operation it works on
    mutated     \* history: Operation -> committed mutations

vars == <<tgt, at, seen, check, op, work, mutated>>

Status == {"unasked", "queued", "running", "succeeded", "failed"}

OperationRow ==
    [status : Status, kind : {"target_merge", "source_move"},
     primary : Target, secondary : Target, source : Source \cup {None},
     archive : BOOLEAN, attempts : 0..MaxAttempts,
     owner : Processor \cup {None}, live : BOOLEAN, ready : BOOLEAN]

\* step: what the processor has done; attempts: as claimed.
Work == [op : Operation \cup {None}, step : {"claimed", "prepared", "mutated", "verified"},
         attempts : 0..MaxAttempts]

Free == [op |-> None, step |-> "claimed", attempts |-> 0]

Unasked ==
    [status |-> "unasked", kind |-> "target_merge", primary |-> CHOOSE t \in Target : TRUE,
     secondary |-> CHOOSE t \in Target : TRUE, source |-> None, archive |-> FALSE,
     attempts |-> 0, owner |-> None, live |-> FALSE, ready |-> TRUE]

Init ==
    /\ tgt = [t \in Target |-> [archived |-> FALSE, into |-> None]]
    /\ at = FirstTarget
    /\ seen = [s \in Source |-> {}]
    /\ check = [s \in Source |-> None]
    /\ op = [o \in Operation |-> Unasked]
    /\ work = [x \in Processor |-> Free]
    /\ mutated = [o \in Operation |-> 0]

----------------------------------------------------------------------------
(* The control plane *)

Pending(o) == op[o].status \in {"queued", "running"}

Involved(o) == {op[o].primary, op[o].secondary}

\* targetStructureBusy, and the same question in Enqueue.
Busy(t) == \E o \in Operation : Pending(o) /\ t \in Involved(o)

Active(t) == ~tgt[t].archived

\* Enqueue, with the preview it depends on.
Enqueue(o, p, q, s, archive) ==
    /\ op[o].status = "unasked"
    /\ p # q /\ Active(p) /\ Active(q) /\ ~Busy(p) /\ ~Busy(q)
    /\ s # None => at[s] = q
    /\ op' = [op EXCEPT ![o] =
                 [Unasked EXCEPT !.status = "queued", !.primary = p, !.secondary = q,
                                 !.source = s, !.archive = archive /\ s # None,
                                 !.kind = IF s = None THEN "target_merge" ELSE "source_move"]]
    /\ UNCHANGED <<tgt, at, seen, check, work, mutated>>

ArchiveTarget(t) ==
    /\ Active(t) /\ ~Busy(t)
    /\ tgt' = [tgt EXCEPT ![t].archived = TRUE]
    /\ UNCHANGED <<at, seen, check, op, work, mutated>>

\* Not refused while an operation is pending.
RestoreTarget(t) ==
    /\ tgt[t].archived /\ tgt[t].into = None
    /\ tgt' = [tgt EXCEPT ![t].archived = FALSE]
    /\ UNCHANGED <<at, seen, check, op, work, mutated>>

----------------------------------------------------------------------------
(* Native checks: the observation goes to the target of the claim. *)

CheckStarts(s) ==
    /\ check[s] = None /\ Active(at[s])
    /\ check' = [check EXCEPT ![s] = at[s]]
    /\ UNCHANGED <<tgt, at, seen, op, work, mutated>>

\* Recorded, or refused with ErrTargetArchived.
CheckRecords(s) ==
    /\ check[s] # None
    /\ check' = [check EXCEPT ![s] = None]
    /\ \/ seen' = [seen EXCEPT ![s] = @ \cup {check[s]}]
       \/ ~Active(check[s]) /\ UNCHANGED seen
    /\ UNCHANGED <<tgt, at, op, work, mutated>>

----------------------------------------------------------------------------
(* The processor *)

Idle(x) == work[x].op = None

Owns(x) == op[work[x].op].owner = x /\ op[work[x].op].status = "running"

Claim(x, o) ==
    /\ Idle(x)
    /\ Pending(o) /\ op[o].attempts < MaxAttempts /\ op[o].ready
    /\ ~op[o].live
    /\ op' = [op EXCEPT ![o].status = "running", ![o].attempts = @ + 1,
                        ![o].owner = x, ![o].live = TRUE]
    /\ work' = [work EXCEPT ![x] =
                   [op |-> o, step |-> "claimed", attempts |-> op[o].attempts + 1]]
    /\ UNCHANGED <<tgt, at, seen, check, mutated>>

\* Mutant: a processor that has lost its lease reports its failure too.
FailedByAnyone(x, permanent) ==
    LET o == work[x].op
        again == work[x].attempts < MaxAttempts /\ ~permanent IN
    /\ op' = [op EXCEPT ![o].status = IF again THEN "queued" ELSE "failed",
                        ![o].ready = ~again, ![o].owner = None, ![o].live = FALSE]
    /\ work' = [work EXCEPT ![x] = Free]

\* fail: only the owner writes; a conflict is permanent.
Failed(x, permanent) ==
    LET o == work[x].op
        again == work[x].attempts < MaxAttempts /\ ~permanent IN
    /\ op' = IF op[o].owner # x THEN op
             ELSE [op EXCEPT ![o].status = IF again THEN "queued" ELSE "failed",
                             ![o].ready = ~again, ![o].owner = None, ![o].live = FALSE]
    /\ work' = [work EXCEPT ![x] = Free]

\* A database error, a serialization failure, or "lease lost".
Error(x) ==
    /\ ~Idle(x)
    /\ Failed(x, FALSE)
    /\ UNCHANGED <<tgt, at, seen, check, mutated>>

\* setStage renews the lease, and fails when it is lost.
Staged(x) == op' = [op EXCEPT ![work[x].op].live = TRUE]

Advanced(x, step) == work' = [work EXCEPT ![x].step = step]

Prepare(x) ==
    /\ ~Idle(x) /\ work[x].step = "claimed" /\ Owns(x)
    /\ Staged(x) /\ Advanced(x, "prepared")
    /\ UNCHANGED <<tgt, at, seen, check, mutated>>

\* Mutant: the targets are locked and not looked at.
LockTargetsBlindly(o) == Involved(o) \subseteq Target

LockTargets(o) == \A t \in Involved(o) : Active(t) /\ tgt[t].into = None

\* The source has not moved, and nothing else remains when the origin is to be
\* archived.
SourceInPlace(o) ==
    op[o].kind = "source_move" =>
        /\ at[op[o].source] = op[o].secondary
        /\ op[o].archive => {s \in Source : at[s] = op[o].secondary} = {op[o].source}

Moved(o) ==
    IF op[o].kind = "source_move" THEN {op[o].source}
    ELSE {s \in Source : at[s] = op[o].secondary}

Reattributed(o, s) ==
    IF op[o].kind = "source_move"
    THEN IF s # op[o].source \/ seen[s] = {} THEN seen[s] ELSE {op[o].primary}
    ELSE IF op[o].secondary \in seen[s]
         THEN (seen[s] \ {op[o].secondary}) \cup {op[o].primary} ELSE seen[s]

\* mergeTargets and moveSource.  The lease is not looked at.
Mutate(x) ==
    LET o == work[x].op IN
    /\ ~Idle(x) /\ work[x].step = "prepared"
    /\ LockTargets(o) /\ SourceInPlace(o)
    /\ at' = [s \in Source |-> IF s \in Moved(o) THEN op[o].primary ELSE at[s]]
    /\ seen' = [s \in Source |-> Reattributed(o, s)]
    /\ tgt' = IF op[o].kind = "target_merge"
              THEN [tgt EXCEPT ![op[o].secondary] =
                       [archived |-> TRUE, into |-> op[o].primary]]
              ELSE [tgt EXCEPT ![op[o].secondary].archived = op[o].archive]
    /\ mutated' = [mutated EXCEPT ![o] = @ + 1]
    /\ Advanced(x, "mutated")
    /\ UNCHANGED <<check, op>>

\* ErrConflict: nothing is committed.
MutateConflict(x) ==
    /\ ~Idle(x) /\ work[x].step = "prepared"
    /\ ~(LockTargets(work[x].op) /\ SourceInPlace(work[x].op))
    /\ Failed(x, TRUE)
    /\ UNCHANGED <<tgt, at, seen, check, mutated>>

\* verifyMetricAttribution.
Attributed(o) ==
    IF op[o].kind = "target_merge"
    THEN \A s \in Source : op[o].secondary \notin seen[s]
    ELSE at[op[o].source] = op[o].primary /\ seen[op[o].source] \subseteq {op[o].primary}

Verify(x) ==
    /\ ~Idle(x) /\ work[x].step = "mutated" /\ Owns(x)
    /\ IF Attributed(work[x].op) THEN Staged(x) /\ Advanced(x, "verified")
       ELSE Failed(x, TRUE)
    /\ UNCHANGED <<tgt, at, seen, check, mutated>>

Finish(x) ==
    /\ ~Idle(x) /\ work[x].step = "verified" /\ Owns(x)
    /\ op' = [op EXCEPT ![work[x].op].status = "succeeded",
                        ![work[x].op].owner = None, ![work[x].op].live = FALSE]
    /\ work' = [work EXCEPT ![x] = Free]
    /\ UNCHANGED <<tgt, at, seen, check, mutated>>

\* The processor dies, or cannot even report its failure.
Crash(x) ==
    /\ ~Idle(x)
    /\ work' = [work EXCEPT ![x] = Free]
    /\ UNCHANGED <<tgt, at, seen, check, op, mutated>>

LeaseExpires(o) ==
    /\ op[o].live
    /\ op' = [op EXCEPT ![o].live = FALSE]
    /\ UNCHANGED <<tgt, at, seen, check, work, mutated>>

\* next_attempt_at, five seconds per attempt.
BackoffEnds(o) ==
    /\ op[o].status = "queued" /\ ~op[o].ready
    /\ op' = [op EXCEPT ![o].ready = TRUE]
    /\ UNCHANGED <<tgt, at, seen, check, work, mutated>>

----------------------------------------------------------------------------

Process(x) ==
    \/ \E o \in Operation : Claim(x, o)
    \/ Prepare(x) \/ Mutate(x) \/ MutateConflict(x) \/ Verify(x) \/ Finish(x)
    \/ ~Idle(x) /\ ~Owns(x) /\ Error(x)

Administer ==
    \/ \E o \in Operation, p \in Target, q \in Target, s \in Source \cup {None},
          archive \in BOOLEAN : Enqueue(o, p, q, s, archive)
    \/ \E t \in Target : ArchiveTarget(t) \/ RestoreTarget(t)

Next ==
    \/ Administer
    \/ \E s \in Source : CheckStarts(s) \/ CheckRecords(s)
    \/ \E x \in Processor : Process(x) \/ Error(x) \/ Crash(x)
    \/ \E o \in Operation : LeaseExpires(o) \/ BackoffEnds(o)

Spec == Init /\ [][Next]_vars

\* The processor's loop goes on, also after a restart; leases and delays end.
FairSpec ==
    /\ Spec
    /\ \A x \in Processor : WF_vars(Process(x))
    /\ \A o \in Operation : WF_vars(LeaseExpires(o)) /\ WF_vars(BackoffEnds(o))

----------------------------------------------------------------------------
(* Correctness *)

\* The rows have their types.
TypeOK ==
    /\ tgt \in [Target -> [archived : BOOLEAN, into : Target \cup {None}]]
    /\ at \in [Source -> Target]
    /\ seen \in [Source -> SUBSET Target]
    /\ check \in [Source -> Target \cup {None}]
    /\ op \in [Operation -> OperationRow]
    /\ work \in [Processor -> Work]
    /\ mutated \in [Operation -> Nat]

\* Two operations that are pending share no target: a merge never meets the
\* half of another one.
OneOperationPerTarget ==
    \A o, u \in Operation : (o # u /\ Pending(o) /\ Pending(u))
                            => Involved(o) \cap Involved(u) = {}

\* A retry after an error, a crash or a lost lease, also by two processors at
\* once, never repeats a mutation: an operation commits twice only when another
\* one has moved its source back in between.
MutatesOnce ==
    \A o \in Operation :
        mutated[o] > 1 => /\ op[o].kind = "source_move"
                          /\ \E u \in Operation \ {o} :
                                mutated[u] > 0 /\ op[u].source = op[o].source

\* A redirected target is archived for good and keeps no source, and following
\* redirections ends, for no targets redirect into each other in a circle:
\* among any of them there is one whose redirection, if any, leads elsewhere.
RedirectsEnd ==
    /\ \A t \in Target :
          tgt[t].into # None => tgt[t].archived /\ \A s \in Source : at[s] # t
    /\ \A S \in SUBSET Target : S # {} => \E t \in S : tgt[t].into \notin S

\* The types, and what holds of targets and operations between any two steps.
OperationsInv == TypeOK /\ OneOperationPerTarget /\ MutatesOnce /\ RedirectsEnd

\* What a step leaves of the report of operation o.
KeepsReport(o) ==
    /\ op[o].status \in {"succeeded", "failed"} => op'[o] = op[o]
    /\ op'[o].status = "succeeded" => mutated'[o] > 0

\* What an operation reports as succeeded was done, and a report is never
\* revised: late processors write nothing.
ReportsAreFinal == [][\A o \in Operation : KeepsReport(o)]_vars

\* A durable operation survives restarts: it ends, and frees its targets.
OperationsEnd == \A o \in Operation : Pending(o) ~> ~Pending(o)
============================================================================
