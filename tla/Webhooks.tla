------------------------------- MODULE Webhooks -------------------------------
(***************************************************************************)
(* A generic webhook (internal/connectors/webhooks.go): events of unknown  *)
(* identities are quarantined until an administrator approves them, which  *)
(* binds the identity and replays what was kept.                           *)
(*                                                                         *)
(* One identity and one event key: they are independent of each other.     *)
(* Events are numbered in the order in which they are routed.  The         *)
(* advisory lock of the identity makes a routing atomic to approvals; its  *)
(* two halves are two actions.                                             *)
(***************************************************************************)
EXTENDS Integers

CONSTANTS
    Receiver,       \* the requests served at the same time
    Approver,
    MaxEvents,      \* bound on the events routed
    MaxHookFaults,  \* bound on errors and crashes
    MaxHookOps      \* bound on suspensions, resumptions and deletions

Unlocked == "unlocked"

ASSUME WebhookConstants ==
    /\ MaxEvents \in Nat /\ MaxHookFaults \in Nat /\ MaxHookOps \in Nat
    /\ Unlocked \notin Receiver

VARIABLES
    hook,       \* the status of the connector
    bound,      \* whether the identity is bound to a target
    kept,       \* the row of the quarantine: its event, 0 for none, and whether approved
    request,    \* Receiver -> what it is doing
    approval,   \* Approver -> what it is doing
    locked,     \* who holds the advisory lock of the identity
    routed,     \* the number of the last event routed
    answered,   \* history: the events whose sender was told they are kept or accepted
    applied,    \* history: the events that were applied
    hookOps, hookFaults

hookVars == <<hook, bound, kept, request, approval, locked, routed,
              answered, applied, hookOps, hookFaults>>

HookIdle == [at |-> "idle"]

NothingKept == [event |-> 0, approved |-> FALSE]

HookInit ==
    /\ hook = "connected" /\ bound = FALSE
    /\ kept = NothingKept
    /\ request = [r \in Receiver |-> HookIdle]
    /\ approval = [a \in Approver |-> HookIdle]
    /\ locked = Unlocked /\ routed = 0
    /\ answered = {} /\ applied = {}
    /\ hookOps = 0 /\ hookFaults = 0

HookFault == hookFaults < MaxHookFaults /\ hookFaults' = hookFaults + 1

Serving(r, to) == request' = [request EXCEPT ![r] = to]

----------------------------------------------------------------------------
(* Receive *)

\* The credential is read once: a suspension that follows does not stop the event.
Authenticate(r) ==
    /\ request[r].at = "idle" /\ hook = "connected" /\ routed < MaxEvents
    /\ Serving(r, [at |-> "authenticated"])
    /\ UNCHANGED <<hook, bound, kept, approval, locked, routed, answered,
                   applied, hookOps, hookFaults>>

\* Mutant: nothing serialises routings and approvals.
LockIgnored == TRUE

LockFree == locked = Unlocked

\* RouteWebhook up to its search for the binding.
FindBinding(r) ==
    /\ request[r].at = "authenticated" /\ LockFree /\ routed < MaxEvents
    /\ routed' = routed + 1
    /\ locked' = r
    /\ Serving(r, [at |-> IF bound THEN "found" ELSE "unknown", event |-> routed + 1])
    /\ UNCHANGED <<hook, bound, kept, approval, answered, applied, hookOps, hookFaults>>

RouteToBinding(r) ==
    /\ request[r].at = "found"
    /\ locked' = Unlocked
    /\ Serving(r, [request[r] EXCEPT !.at = "applying"])
    /\ UNCHANGED <<hook, bound, kept, approval, routed, answered, applied,
                   hookOps, hookFaults>>

\* The row of the key is replaced, and is to be approved again.
Quarantine(r) ==
    /\ request[r].at = "unknown" /\ hook # "gone"
    /\ locked' = Unlocked
    /\ kept' = [event |-> request[r].event, approved |-> FALSE]
    /\ answered' = answered \cup {request[r].event}
    /\ Serving(r, HookIdle)
    /\ UNCHANGED <<hook, bound, approval, routed, applied, hookOps, hookFaults>>

ApplyLive(r) ==
    /\ request[r].at = "applying" /\ hook # "gone"
    /\ applied' = applied \cup {request[r].event}
    /\ answered' = answered \cup {request[r].event}
    /\ Serving(r, HookIdle)
    /\ UNCHANGED <<hook, bound, kept, approval, locked, routed, hookOps, hookFaults>>

\* The sender gets an error: the call fails, the process dies or the connector
\* was deleted meanwhile.
ReceiveFails(r) ==
    /\ request[r].at \in {"unknown", "found", "applying"}
    /\ IF hook = "gone" THEN UNCHANGED hookFaults ELSE HookFault
    /\ locked' = IF locked = r THEN Unlocked ELSE locked
    /\ Serving(r, HookIdle)
    /\ UNCHANGED <<hook, bound, kept, approval, routed, answered, applied, hookOps>>

----------------------------------------------------------------------------
(* Approve *)

Approving(a, to) == approval' = [approval EXCEPT ![a] = to]

Awaits == kept.event # 0 /\ ~kept.approved

\* The identity is bound; its unapproved events are read in the same transaction.
ApproveWebhookIdentity(a) ==
    /\ approval[a].at = "idle" /\ hook # "gone" /\ Awaits /\ LockFree
    /\ bound' = TRUE
    /\ Approving(a, [at |-> "replaying", event |-> kept.event])
    /\ UNCHANGED <<hook, kept, request, locked, routed, answered, applied,
                   hookOps, hookFaults>>

Replay(a) ==
    /\ approval[a].at = "replaying" /\ hook # "gone"
    /\ applied' = applied \cup {approval[a].event}
    /\ Approving(a, [at |-> "completing"])
    /\ UNCHANGED <<hook, bound, kept, request, locked, routed, answered, hookOps, hookFaults>>

CompleteWebhookApproval(a) ==
    /\ approval[a].at = "completing"
    /\ kept' = [kept EXCEPT !.approved = TRUE]
    /\ Approving(a, HookIdle)
    /\ UNCHANGED <<hook, bound, request, locked, routed, answered, applied,
                   hookOps, hookFaults>>

\* The binding stays, and the events stay to be approved.
ApprovalFails(a) ==
    /\ approval[a].at \in {"replaying", "completing"}
    /\ IF hook = "gone" THEN UNCHANGED hookFaults ELSE HookFault
    /\ Approving(a, HookIdle)
    /\ UNCHANGED <<hook, bound, kept, request, locked, routed, answered, applied, hookOps>>

----------------------------------------------------------------------------
(* Administration of the connector *)

HookOperation == hook # "gone" /\ hookOps < MaxHookOps /\ hookOps' = hookOps + 1

SuspendOrResume ==
    /\ HookOperation
    /\ hook' = IF hook = "connected" THEN "disabled" ELSE "connected"
    /\ UNCHANGED <<bound, kept, request, approval, locked, routed, answered,
                   applied, hookFaults>>

\* Bindings and quarantine are deleted with the connector, its evidence resolved.
DeleteWebhook ==
    /\ HookOperation
    /\ hook' = "gone" /\ bound' = FALSE
    /\ kept' = NothingKept
    /\ UNCHANGED <<request, approval, locked, routed, answered, applied, hookFaults>>

----------------------------------------------------------------------------

Receive(r) ==
    FindBinding(r) \/ RouteToBinding(r) \/ Quarantine(r) \/ ApplyLive(r) \/ ReceiveFails(r)

Approve(a) == Replay(a) \/ CompleteWebhookApproval(a) \/ ApprovalFails(a)

HookNext ==
    \/ \E r \in Receiver : Authenticate(r) \/ Receive(r)
    \/ \E a \in Approver : ApproveWebhookIdentity(a) \/ Approve(a)
    \/ SuspendOrResume \/ DeleteWebhook

HookSpec == HookInit /\ [][HookNext]_hookVars

----------------------------------------------------------------------------
(* Correctness *)

\* An event whose sender was answered is applied, waits in the quarantine to be
\* approved, or was replaced there by a newer one of which this holds: no
\* approval marks an event it did not replay, whatever fails between the
\* binding of the identity and the end of its replay.
NothingLost ==
    hook # "gone" => \A e \in answered : \E f \in e..routed :
        f \in applied \/ (kept.event = f /\ ~kept.approved)

=============================================================================
