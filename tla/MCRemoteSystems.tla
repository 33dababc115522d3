--------------------------- MODULE MCRemoteSystems ---------------------------
(***************************************************************************)
(* What the server exchanges with systems it does not control: the cycles   *)
(* that read the product of a connector, the events a webhook receives, the *)
(* acknowledgements that go back to Zabbix and the identities of an OpenID  *)
(* provider.  The four share no row: each behaviour is one of one of them,  *)
(* which Init chooses, and the others rest; so one run answers for the four *)
(* under the specification and the fairness of each.                       *)
(***************************************************************************)
EXTENDS ConnectorSync, Webhooks, Acknowledgement, ExternalIdentity

VARIABLE part   \* the exchange that takes place

allVars == <<syncVars, hookVars, vars, extVars, part>>

\* Two workers race where the lease is asked for by every transaction.
SyncersOf == [k \in Kind |-> IF k = "proxmox" THEN {"w1", "w2"} ELSE {"w1"}]

\* An incident whose only event may end and come back as another row.
OneIncidentOf == <<"i">>
OneConnectorOf == <<"A">>

\* An exchange that rests does so in one of its initial states.
RemoteInit ==
    /\ SyncInit /\ HookInit /\ Init /\ ExtInit
    /\ part \in {"sync", "hook", "acknowledgement", "identity"}
    /\ part # "sync" => kind = "zabbix" /\ ~Exists /\ Listed(remote.state) = Object
    /\ part # "identity" => active = 0 /\ groups.role = "none"

Synchronizes == part = "sync" /\ SyncNext /\ UNCHANGED <<hookVars, vars, extVars, part>>

Receives == part = "hook" /\ HookNext /\ UNCHANGED <<syncVars, vars, extVars, part>>

Acknowledges == part = "acknowledgement" /\ Next /\ UNCHANGED <<syncVars, hookVars, extVars, part>>

Identifies == part = "identity" /\ ExtNext /\ UNCHANGED <<syncVars, hookVars, vars, part>>

RemoteNext == Synchronizes \/ Receives \/ Acknowledges \/ Identifies

\* The fairness of each module, for the exchange that takes place.
RemoteFairness ==
    /\ \A w \in UNION {Syncers[k] : k \in Kind} :
          WF_syncVars(part = "sync" /\ w \in Syncer /\ (ClaimDueConnector(w) \/ CycleStep(w)))
    /\ WF_syncVars(part = "sync" /\ LeaseLapses)
    /\ WF_vars(part = "acknowledgement" /\ RuntimeSelects)
    /\ WF_vars(part = "acknowledgement" /\ RuntimeAcknowledges)
    /\ \A c \in Caller : WF_vars(part = "acknowledgement" /\ CallStep(c))
    /\ \A e \in Event : WF_vars(part = "acknowledgement" /\ Cool(e))
    /\ \A e \in Event : ConnectorOf[e] \in Reachable =>
          SF_vars(part = "acknowledgement"
                     /\ \E c \in Caller, g \in 0..MaxRows : CallSucceeds(c, <<e, g>>))
    /\ \A s \in Synchronizer : WF_extVars(part = "identity" /\ (ClaimAccess(s) \/ SyncStep(s)))
    /\ WF_extVars(part = "identity" /\ SyncLeaseLapses)
    /\ WF_extVars(part = "identity" /\ GraceEnds)

RemoteSpec == RemoteInit /\ [][RemoteNext]_allVars /\ RemoteFairness
=============================================================================
