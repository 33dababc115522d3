---------------------------- MODULE ConnectorSync ----------------------------
(***************************************************************************)
(* One connector (internal/connectors): the cycles in which the workers    *)
(* read its remote product under a lease, adopt what is new, conclude on   *)
(* what is bound and report, while administrators import, suspend, resume  *)
(* and delete it.                                                          *)
(*                                                                         *)
(* Connectors meet only in the targets they match: one is enough, of any   *)
(* of the five kinds that synchronise, with a set of objects that other    *)
(* targets may resemble.  Every transaction is one action; the next cycle   *)
(* comes at any time, as next_sync_at is a date that comes.  What the cycle *)
(* of incidents makes of a snapshot is module EvidenceCycle; here an       *)
(* object has evidence or not.                                             *)
(***************************************************************************)
EXTENDS Integers, FiniteSets

CONSTANTS
    Object,
    Kind,           \* the kinds of connectors to consider
    Legacy,         \* what a connector older than the inventories may have bound
    Syncers,        \* Kind -> the workers that synchronise it
    MaxChange,      \* bound on the changes of the remote product
    MaxOps,         \* bound on what administrators do
    MaxFault        \* bound on failed calls, crashes and cycles that outlast their lease

nobody == "nobody"

ASSUME SyncConstants ==
    /\ Kind \subseteq {"zabbix", "uptime_kuma", "patchmon", "argus", "proxmox"}
    /\ Legacy \subseteq Object /\ DOMAIN Syncers = Kind
    /\ \A k \in Kind : nobody \notin Syncers[k]
    /\ MaxChange \in Nat /\ MaxOps \in Nat /\ MaxFault \in Nat

VARIABLES
    kind,
    connector,  \* its row: status, lease, discovery_initialized
    remote,     \* what the product publishes, and how often that changed
    inventory,  \* Object -> what cairnops_connector_inventory keeps of it
    binding,    \* Object -> its binding, of the integration or of an indicator only
    source,     \* Object -> the integration source of its binding
    twin,       \* the objects a target of somebody else resembles
    evidence,   \* the objects that have active evidence
    measured,   \* Object -> last_signal_outcome of its source
    cycle,      \* worker -> what it is doing with the connector
    shown,      \* history: the version of the last snapshot applied
    declined,   \* history: the objects the last import left unselected
    ops, faults

syncVars == <<kind, connector, remote, inventory, binding, source, twin, evidence,
              measured, cycle, shown, declined, ops, faults>>

Syncer == Syncers[kind]

Resting == [at |-> "resting"]

\* quiet: suppressed in Zabbix, pending or in maintenance in Uptime Kuma,
\* inactive in PatchMon, under analysis in Argus, allowed to stop in Proxmox.
Condition ==
    {"absent", "up", "down", "quiet"}
        \cup (IF kind \in {"argus", "proxmox"} THEN {"ineligible", "unknown"} ELSE {})

NoConnector ==
    [id |-> 0, status |-> "none", owner |-> nobody, held |-> FALSE, init |-> FALSE]

\* No connector yet, or one that was imported before inventories were kept; the
\* product publishes every object, or what such a connector may have bound.
SyncInit ==
    /\ kind \in Kind
    /\ \E up \in {Legacy, Object} :
          remote = [version |-> 0, state |-> [o \in Object |-> IF o \in up THEN "up" ELSE "absent"]]
    /\ \E bound \in {{}, Legacy} : binding = [o \in Object |-> IF o \in bound THEN "linked" ELSE "none"]
    /\ connector = IF \E o \in Object : binding[o] = "linked"
                   THEN [NoConnector EXCEPT !.id = 1, !.status = "connected"]
                   ELSE NoConnector
    /\ kind = "proxmox" => connector.status = "none"
    /\ inventory = [o \in Object |-> "none"]
    /\ source = [o \in Object |-> IF binding[o] = "linked" THEN "on" ELSE "none"]
    /\ twin = {}
    /\ evidence = {} /\ measured = [o \in Object |-> "none"]
    /\ cycle = [w \in Syncers[kind] |-> Resting]
    /\ shown = 0 /\ declined = {} /\ ops = 0 /\ faults = 0

Exists == connector.status # "none"

Listed(state) == {o \in Object : state[o] # "absent"}

\* An archived service of Argus or a template of Proxmox cannot be imported.
EligibleObjects(state) == {o \in Listed(state) : state[o] # "ineligible"}

----------------------------------------------------------------------------
(* The cycle of a worker *)

Step(w, to) ==
    /\ cycle' = [cycle EXCEPT ![w] = to]
    /\ UNCHANGED <<kind, remote, twin, ops>>

\* Everything but the cycle and the lease.
Kept == UNCHANGED <<inventory, binding, source, evidence, measured, shown, declined>>

Fault == faults < MaxFault /\ faults' = faults + 1

\* Mutant: a lease ends only with the report of its owner.
UnleasedByReport == connector.owner = nobody

Unleased == ~connector.held

ClaimDueConnector(w) ==
    /\ cycle[w].at = "resting"
    /\ connector.status \in {"connected", "degraded"} /\ Unleased
    /\ connector' = [connector EXCEPT !.owner = w, !.held = TRUE]
    /\ Step(w, [at |-> "claimed", id |-> connector.id])
    /\ Kept /\ UNCHANGED faults

SameConnector(w) == Exists /\ connector.id = cycle[w].id

\* The lease RefreshDiscovery, RefreshProxmox and the snapshots of Proxmox ask for.
Leased(w) ==
    /\ SameConnector(w) /\ connector.owner = w
    /\ connector.held /\ connector.status # "disabled"

Failing(w) == Step(w, [at |-> "reporting", id |-> cycle[w].id, ok |-> FALSE])

\* The call to the product fails.
FetchFails(w) ==
    /\ cycle[w].at \in {"claimed", "refreshed"}
    /\ Fault /\ Failing(w)
    /\ Kept /\ UNCHANGED connector

\* The targets are matched as they are then by Proxmox, under a lock of their
\* table by the other kinds.
Inspect(w) ==
    /\ cycle[w].at = "claimed"
    /\ Step(w, [at |-> "inspected", id |-> cycle[w].id, seen |-> remote.state,
                version |-> remote.version, twins |-> twin])
    /\ Kept /\ UNCHANGED <<connector, faults>>

Matched(w) == IF kind = "proxmox" THEN cycle[w].twins ELSE twin

\* rememberDiscoverySelection: unbound objects that could have been selected.
Remembered(state, bound) ==
    [o \in Object |->
        IF o \in EligibleObjects(state) \ bound THEN "excluded"
        ELSE IF o \in Listed(state) THEN "known" ELSE inventory[o]]

BoundIn(bindings) == {o \in Object : bindings[o] # "none"}

\* New objects are bound, unless a target resembles them; returns through the
\* cycle what is to be observed.
Adopt(w, known, new) ==
    LET pending == new \cap Matched(w)
        created == new \ Matched(w)
        bindings == [o \in Object |-> IF o \in created THEN "linked" ELSE binding[o]] IN
    /\ inventory' = [o \in Object |-> IF o \in pending THEN "pending" ELSE known[o]]
    /\ binding' = bindings
    /\ source' = [o \in Object |-> IF o \in created THEN "on" ELSE source[o]]
    /\ Step(w, [at |-> "refreshed", id |-> cycle[w].id, seen |-> cycle[w].seen,
                version |-> cycle[w].version, bound |-> {o \in Object : bindings[o] = "linked"}])
    /\ UNCHANGED <<evidence, measured, shown, faults>>

\* A connector without a recorded selection keeps the one it has.
RefreshDiscovery(w) ==
    LET seen == cycle[w].seen
        bound == BoundIn(binding)
        base == IF connector.init THEN inventory ELSE Remembered(seen, bound)
        known == [o \in Object |->
                    IF base[o] = "pending" \/ (base[o] = "none" /\ o \in Listed(seen))
                    THEN "known" ELSE base[o]]
        new == {o \in EligibleObjects(seen) \ bound : known[o] # "excluded"} IN
    /\ kind # "proxmox"
    /\ Adopt(w, known, new)
    /\ connector' = [connector EXCEPT !.init = TRUE]
    /\ declined' = IF connector.init THEN declined
                   ELSE declined \cup {o \in EligibleObjects(seen) \ bound : base[o] = "excluded"}

\* Only what the inventory never held is new; what awaits a decision goes on
\* waiting.
RefreshProxmox(w) ==
    LET seen == cycle[w].seen
        known == [o \in Object |->
                    IF inventory[o] = "none" /\ o \in Listed(seen) THEN "known" ELSE inventory[o]]
        new == {o \in EligibleObjects(seen) : inventory[o] = "none"} IN
    /\ kind = "proxmox"
    /\ Adopt(w, known, new)
    /\ UNCHANGED <<connector, declined>>

Refresh(w) ==
    /\ cycle[w].at = "inspected"
    /\ IF Leased(w) THEN RefreshDiscovery(w) \/ RefreshProxmox(w)
       ELSE Failing(w) /\ Kept /\ UNCHANGED <<connector, faults>>

\* Zabbix publishes its problems apart from its hosts: they are read after.
Problems(w) ==
    /\ cycle[w].at = "refreshed" /\ kind = "zabbix"
    /\ Step(w, [at |-> "read", id |-> cycle[w].id, seen |-> remote.state,
                version |-> remote.version, bound |-> cycle[w].bound])
    /\ Kept /\ UNCHANGED <<connector, faults>>

----------------------------------------------------------------------------
(* What each kind concludes from what it read *)

Among(w, conditions) == {o \in cycle[w].bound : cycle[w].seen[o] \in conditions}

\* A complete snapshot: whatever it does not hold is over.
ZabbixEvidence(w) == Among(w, {"down", "quiet"})

Observing(w, observed) == (evidence \ observed) \cup (Among(w, {"down"}) \cap observed)

UptimeKumaEvidence(w) == Observing(w, Among(w, {"up", "down"}))

PatchMonEvidence(w) == Observing(w, cycle[w].bound \cap Listed(cycle[w].seen))

\* Neither opened nor resolved while the notes of a version are analysed.
ArgusEvidence(w) == Observing(w, Among(w, {"up", "down"}))

ProxmoxEvidence(w) == Observing(w, Among(w, {"up", "down", "quiet"}))

Concluded(w) ==
    CASE kind = "zabbix" -> ZabbixEvidence(w)
      [] kind = "uptime_kuma" -> UptimeKumaEvidence(w)
      [] kind = "patchmon" -> PatchMonEvidence(w)
      [] kind = "argus" -> ArgusEvidence(w)
      [] OTHER -> ProxmoxEvidence(w)

\* Mutant: the snapshots of Proxmox do not name their lease.
AcceptedUnfenced(w) == SameConnector(w)

\* The evidence of a connector that was deleted refers to nothing.
SnapshotAccepted(w) == IF kind = "proxmox" THEN Leased(w) ELSE SameConnector(w)

ReadyToApply(w) == cycle[w].at = IF kind = "zabbix" THEN "read" ELSE "refreshed"

Apply(w) ==
    /\ ReadyToApply(w) /\ SnapshotAccepted(w)
    /\ evidence' = Concluded(w)
    /\ shown' = cycle[w].version
    /\ Step(w, [cycle[w] EXCEPT !.at = "applied"])
    /\ UNCHANGED <<connector, inventory, binding, source, measured, declined, faults>>

ApplyRefused(w) ==
    /\ ReadyToApply(w) /\ ~SnapshotAccepted(w)
    /\ Failing(w) /\ Kept /\ UNCHANGED <<connector, faults>>

\* The verdict of an observation; an unknown one leaves the last as it was.
Verdict(o, condition) ==
    CASE condition = "down" -> "down"
      [] condition = "up" -> "up"
      [] condition = "absent" /\ kind = "zabbix" -> "up"
      [] condition = "quiet" /\ kind = "argus" -> "up"
      [] OTHER -> measured[o]

\* The objects Argus and Proxmox know nothing of degrade the connector.
UnknownObjects(w) ==
    IF kind \in {"argus", "proxmox"} THEN Among(w, {"absent", "ineligible", "unknown"}) ELSE {}

Recorded(w) ==
    /\ cycle[w].at = "applied"
    /\ Step(w, [at |-> "reporting", id |-> cycle[w].id, ok |-> UnknownObjects(w) = {}])
    /\ UNCHANGED <<connector, inventory, binding, source, evidence, shown, declined>>

RecordIntegrationObservations(w) ==
    /\ Recorded(w)
    /\ measured' = [o \in Object |->
                        IF o \in cycle[w].bound /\ source[o] = "on" /\ SameConnector(w)
                        THEN Verdict(o, cycle[w].seen[o]) ELSE measured[o]]
    /\ UNCHANGED faults

\* The error is only logged.
RecordNothing(w) == Recorded(w) /\ Fault /\ UNCHANGED measured

\* Without its lease a report changes nothing.
CompleteConnectorSync(w) ==
    IF SameConnector(w) /\ connector.owner = w
    THEN connector' = [connector EXCEPT !.status = IF cycle[w].ok THEN "connected" ELSE "degraded",
                                        !.owner = nobody, !.held = FALSE]
    ELSE UNCHANGED connector

ReportSync(w) ==
    /\ cycle[w].at = "reporting"
    /\ CompleteConnectorSync(w)
    /\ Step(w, Resting) /\ Kept /\ UNCHANGED faults

SyncCrash(w) ==
    /\ cycle[w].at # "resting" /\ Fault
    /\ Step(w, Resting) /\ Kept /\ UNCHANGED connector

----------------------------------------------------------------------------
(* Time and the product *)

\* A lease outlives the cycle it was taken for, unless that is slow.
LeaseLapses ==
    /\ connector.held
    /\ IF cycle[connector.owner].at = "resting" THEN UNCHANGED faults ELSE Fault
    /\ connector' = [connector EXCEPT !.held = FALSE]
    /\ Kept /\ UNCHANGED <<kind, remote, twin, cycle, ops>>

RemoteChanges ==
    /\ remote.version < MaxChange
    /\ \E o \in Object, c \in Condition :
          /\ c # remote.state[o]
          /\ remote' = [version |-> remote.version + 1, state |-> [remote.state EXCEPT ![o] = c]]
    /\ Kept /\ UNCHANGED <<kind, connector, twin, cycle, ops, faults>>

----------------------------------------------------------------------------
(* Administrators *)

Operation == ops < MaxOps /\ ops' = ops + 1 /\ UNCHANGED <<kind, remote, cycle, faults>>

Released(row) == [row EXCEPT !.owner = nobody, !.held = FALSE]

SetStatus(status) ==
    /\ Exists /\ Operation
    /\ connector' = [Released(connector) EXCEPT !.status = status]
    /\ source' = [o \in Object |->
                    IF source[o] = "none" THEN "none"
                    ELSE IF status # "disabled" /\ binding[o] = "linked" THEN "on" ELSE "off"]
    /\ UNCHANGED <<inventory, binding, twin, evidence, measured, shown, declined>>

Suspend == SetStatus("disabled")

Resume == SetStatus("connected")

\* Refused, without a change, while an operation of reconciliation concerns it.
Delete ==
    /\ Exists /\ Operation
    /\ connector' = [NoConnector EXCEPT !.id = connector.id]
    /\ inventory' = [o \in Object |-> "none"]
    /\ binding' = [o \in Object |-> "none"]
    /\ source' = [o \in Object |-> "none"]
    /\ evidence' = {} /\ measured' = [o \in Object |-> "none"]
    /\ shown' = 0 /\ declined' = {}
    /\ UNCHANGED twin

\* An object that cannot be imported is no exclusion: importing again forgets
\* that it was one (Proxmox keeps its whole inventory).
Reopened ==
    IF kind = "proxmox" THEN {} ELSE Listed(remote.state) \ EligibleObjects(remote.state)

\* The objects selected are bound and their sources follow the connector.
Select(selected) ==
    /\ selected # {} /\ selected \subseteq EligibleObjects(remote.state)
    /\ Operation
    /\ binding' = [o \in Object |-> IF o \in selected THEN "linked" ELSE binding[o]]
    /\ source' = [o \in Object |-> IF o \in selected THEN "on" ELSE source[o]]
    /\ declined' = ((declined \ Reopened) \cup (EligibleObjects(remote.state) \ BoundIn(binding)))
                      \ selected
    /\ UNCHANGED <<twin, evidence, measured, shown>>

NewConnector ==
    [id |-> connector.id + 1, status |-> "connected", owner |-> nobody, held |-> FALSE,
     init |-> TRUE]

\* The upsert of four kinds: a connector of that endpoint is taken up again
\* whatever its status.
Import(selected) ==
    /\ Select(selected)
    /\ connector' = IF Exists
                    THEN [NewConnector EXCEPT !.id = connector.id]
                    ELSE NewConnector
    /\ inventory' = Remembered(remote.state, BoundIn(binding) \cup selected)

ImportZabbix(selected) == kind = "zabbix" /\ Import(selected)

ImportUptimeKuma(selected) == kind = "uptime_kuma" /\ Import(selected)

ImportPatchMon(selected) == kind = "patchmon" /\ Import(selected)

ImportArgus(selected) == kind = "argus" /\ Import(selected)

\* A suspended connector is not taken up; the inventory keeps what awaits a
\* decision.
ImportProxmox(selected) ==
    /\ kind = "proxmox" /\ connector.status # "disabled"
    /\ Select(selected)
    /\ connector' = IF Exists THEN Released(connector) ELSE NewConnector
    /\ inventory' = [o \in Object |->
                        IF o \in selected \/ (inventory[o] = "none" /\ o \in Listed(remote.state))
                        THEN "known" ELSE inventory[o]]

\* An indicator of Zabbix is followed on an object that is not imported.
BindIndicator(o) ==
    /\ kind = "zabbix" /\ Exists /\ binding[o] = "none" /\ Operation
    /\ binding' = [binding EXCEPT ![o] = "indicator"]
    /\ UNCHANGED <<connector, inventory, source, twin, evidence, measured, shown, declined>>

\* Targets that resemble an object are created and archived elsewhere.
ChangeTargets(o) ==
    /\ Operation
    /\ twin' = (twin \ {o}) \cup ({o} \ twin)
    /\ Kept /\ UNCHANGED connector

----------------------------------------------------------------------------

CycleStep(w) ==
    \/ Inspect(w) \/ Refresh(w) \/ Problems(w) \/ Apply(w) \/ ApplyRefused(w)
    \/ RecordIntegrationObservations(w) \/ ReportSync(w)

Administer ==
    \/ Suspend \/ Resume \/ Delete
    \/ \E s \in SUBSET Object : \/ ImportZabbix(s) \/ ImportUptimeKuma(s) \/ ImportPatchMon(s)
                                \/ ImportArgus(s) \/ ImportProxmox(s)
    \/ \E o \in Object : BindIndicator(o) \/ ChangeTargets(o)

SyncNext ==
    \/ \E w \in Syncer : \/ ClaimDueConnector(w) \/ CycleStep(w)
                         \/ FetchFails(w) \/ RecordNothing(w) \/ SyncCrash(w)
    \/ LeaseLapses \/ RemoteChanges \/ Administer

SyncSpec == SyncInit /\ [][SyncNext]_syncVars

\* The synchronisers tick for ever, a cycle that began goes on, and time passes.
SyncFairness ==
    /\ \A w \in UNION {Syncers[k] : k \in Kind} :
          WF_syncVars(w \in Syncer /\ (ClaimDueConnector(w) \/ CycleStep(w)))
    /\ WF_syncVars(LeaseLapses)

SyncFairSpec == SyncSpec /\ SyncFairness

----------------------------------------------------------------------------
(* Correctness *)

ByWorkers == ops' = ops

Linked == {o \in Object : binding[o] = "linked"}

Yields ==
    /\ connector.status = "disabled" => connector'.status = "disabled" /\ source' = source
    /\ \A o \in declined : binding'[o] = binding[o]
    /\ evidence' \subseteq Linked'
    /\ kind # "proxmox" => \A o \in twin : binding'[o] = binding[o]
    /\ kind = "proxmox" =>
          /\ shown' >= shown
          /\ connector.status = "disabled" => evidence' = evidence

\* Workers yield to administrators and to each other.  The cycle in flight when
\* a connector is suspended neither revives it nor turns a source of it on; what
\* was left unselected is never bound, whatever becomes of it in the product,
\* until an import that could not select it forgets it; evidence is only on what
\* is bound, also after a deletion.  Discovery creates no second target for what
\* an existing one resembles, as the lock on the targets is held from the
\* matching to the commit (Proxmox takes none); and the snapshots of Proxmox
\* carry their lease: a slow cycle never overwrites what a later one concluded,
\* nor concludes anything once it is suspended.
WorkersYield == [][ByWorkers => Yields]_syncVars

EvidenceAgrees ==
    \A o \in Object :
        (binding[o] = "linked" /\ remote.state[o] \in {"up", "down"})
        => /\ o \in evidence <=> remote.state[o] = "down"
           /\ source[o] = "on" => measured[o] = remote.state[o]

\* Once the product and the administrators are quiet, a connector that is not
\* suspended comes to show what the product publishes, through failed calls,
\* slow cycles and crashes: the evidence of what is bound and the measures of
\* the sources that are on.
EvidenceConverges ==
    <>[](connector.status \in {"connected", "degraded"}) => <>[]EvidenceAgrees

=============================================================================
