-------------------------- MODULE ManagedCredentials --------------------------
(***************************************************************************)
(* The access of connectors to their products (internal/connectors): the   *)
(* previews and imports that may create an account in the product, the     *)
(* replacement of an endpoint or a credential, the approval of another     *)
(* certificate and the removal of what was created.                        *)
(*                                                                         *)
(* Connectors of one kind; an endpoint is one of a few addresses, as it is *)
(* after normalisation, and each has the accounts that were created there. *)
(* Calls and transactions are single actions, between which other          *)
(* administrators and the synchronisers act.  A sealed credential is       *)
(* identified by its number, as every sealing gives another text.          *)
(***************************************************************************)
EXTENDS Integers

CONSTANTS
    Endpoint,
    Admin,
    AccessKind,     \* the kinds of connectors to consider
    MaxCredOps,     \* bound on what administrators begin
    MaxCredFaults   \* bound on failed calls, lost answers and crashes

NoEndpoint == "none"

ASSUME CredentialConstants ==
    /\ NoEndpoint \notin Endpoint
    /\ AccessKind \subseteq {"zabbix", "uptime_kuma", "patchmon", "argus", "proxmox"}
    /\ MaxCredOps \in Nat /\ MaxCredFaults \in Nat

VARIABLES
    product,    \* the kind of the connectors
    registry,   \* Endpoint -> its row of cairnops_connectors: an endpoint has one at most
    account,    \* the accounts in the products: where they were created, whether they are there
    receipts,   \* the receipts of previews that have not expired
    tests,      \* the receipts of connection tests that have not expired
    asked,      \* Admin -> the request it waits for
    told,       \* history: the accounts an error or a removal told administrators of
    abandoned,  \* history: the accounts of imports that died with their process
    serial,     \* the last number given to a row, a credential or a certificate
    credOps, credFaults

credVars == <<product, registry, account, receipts, tests, asked, told, abandoned,
              serial, credOps, credFaults>>

NoRow == [id |-> 0]

NoAccount == 0

OpIdle == [at |-> "idle"]

Account == 1..MaxCredOps

\* A credential sealed for an endpoint; its pin is the certificate approved with it.
Sealed(n, e, pin) == [seal |-> n, for |-> e, pin |-> pin]

NoSeal == Sealed(0, NoEndpoint, 0)

CredInit ==
    /\ product \in AccessKind
    /\ registry = [e \in Endpoint |-> NoRow]
    /\ account = [n \in Account |-> [home |-> NoEndpoint, there |-> FALSE]]
    /\ receipts = {} /\ tests = {}
    /\ asked = [a \in Admin |-> OpIdle]
    /\ told = {} /\ abandoned = {}
    /\ serial = 0 /\ credOps = 0 /\ credFaults = 0

Connected(e) == registry[e].id # 0

Managed(e) == Connected(e) /\ registry[e].mgmt = "managed"

CredFault == credFaults < MaxCredFaults /\ credFaults' = credFaults + 1

Begin == credOps < MaxCredOps /\ credOps' = credOps + 1 /\ UNCHANGED <<product, credFaults, abandoned>>

Doing(a, to) == asked' = [asked EXCEPT ![a] = to]

----------------------------------------------------------------------------
(* Previews: what they read is sealed in a receipt *)

Previewed(e, bootstrap, mgmt, managed, existing) ==
    /\ Begin
    /\ receipts' = receipts \cup
            {[endpoint |-> e, bootstrap |-> bootstrap, mgmt |-> mgmt,
              managed |-> managed, existing |-> existing]}
    /\ UNCHANGED <<registry, account, tests, asked, told, serial>>

\* An installer opens a session (bootstrap) or a token is provided.
NewAccess(e) ==
    \/ Previewed(e, TRUE, "managed", NoAccount, 0)
    \/ Previewed(e, FALSE, "provided", NoAccount, 0)

PreviewZabbix(e) == product = "zabbix" /\ NewAccess(e)

PreviewUptimeKuma(e) == product = "uptime_kuma" /\ NewAccess(e)

PreviewPatchMon(e) == product = "patchmon" /\ NewAccess(e)

PreviewArgus(e) == product = "argus" /\ Previewed(e, FALSE, "provided", NoAccount, 0)

PreviewProxmox(e) == product = "proxmox" /\ ~Connected(e) /\ NewAccess(e)

\* The inventory of a connector is opened again with the credential it has; only
\* the receipt of Proxmox names the connector.
PreviewExisting(e) ==
    /\ Connected(e) /\ registry[e].status # "disabled"
    /\ IF product = "argus" THEN PreviewArgus(e)
       ELSE Previewed(e, FALSE, registry[e].mgmt, registry[e].managed,
                      IF product = "proxmox" THEN registry[e].id ELSE 0)

ReceiptExpires ==
    /\ \/ \E r \in receipts : receipts' = receipts \ {r} /\ UNCHANGED tests
       \/ \E t \in tests : tests' = tests \ {t} /\ UNCHANGED receipts
    /\ UNCHANGED <<product, registry, account, asked, told, abandoned, serial, credOps, credFaults>>

----------------------------------------------------------------------------
(* Imports *)

\* Idle again; Zabbix closes the session of its installer, if it answers.
EndOperation(a) ==
    /\ Doing(a, OpIdle)
    /\ IF product = "zabbix" /\ asked[a].receipt.bootstrap
       THEN receipts' \in {receipts, receipts \ {asked[a].receipt}}
       ELSE UNCHANGED receipts

BeginImport(a, r) ==
    /\ asked[a].at = "idle" /\ Begin
    /\ Doing(a, [at |-> IF r.bootstrap THEN "provisioning" ELSE "persisting",
                 receipt |-> r, managed |-> r.managed])
    /\ UNCHANGED <<registry, account, receipts, tests, told, serial>>

BeginZabbixImport(a, r) == product = "zabbix" /\ BeginImport(a, r)

BeginUptimeKumaImport(a, r) == product = "uptime_kuma" /\ BeginImport(a, r)

BeginPatchMonImport(a, r) == product = "patchmon" /\ BeginImport(a, r)

BeginArgusImport(a, r) == product = "argus" /\ BeginImport(a, r)

BeginProxmoxImport(a, r) == product = "proxmox" /\ BeginImport(a, r)

\* The names of accounts are drawn at random; there are as many as imports begin.
Unused == {n \in Account : account[n].home = NoEndpoint}

Fresh == CHOOSE n \in Unused : TRUE

Created(a) ==
    /\ Unused # {}
    /\ account' = [account EXCEPT ![Fresh] = [home |-> asked[a].receipt.endpoint, there |-> TRUE]]

Provision(a) ==
    /\ asked[a].at = "provisioning"
    /\ Created(a)
    /\ Doing(a, [asked[a] EXCEPT !.at = "persisting", !.managed = Fresh])
    /\ UNCHANGED <<product, registry, receipts, tests, told, abandoned, serial, credOps, credFaults>>

ProvisionRejected(a) ==
    /\ asked[a].at = "provisioning" /\ CredFault
    /\ EndOperation(a)
    /\ UNCHANGED <<product, registry, account, tests, told, abandoned, serial, credOps>>

\* The account was created, and then a call failed.  Proxmox names its account
\* itself and can remove it; Zabbix too once it has its number; Uptime Kuma and
\* PatchMon never learn of it.
ProvisionBroken(a) ==
    /\ asked[a].at = "provisioning" /\ CredFault
    /\ Created(a)
    /\ \/ /\ product \in {"proxmox", "zabbix"}
          /\ Doing(a, [asked[a] EXCEPT !.at = "undoing", !.managed = Fresh]) /\ UNCHANGED receipts
       \/ product # "proxmox" /\ EndOperation(a)
    /\ UNCHANGED <<product, registry, tests, told, abandoned, serial, credOps>>

NewRow(a) ==
    [id |-> serial + 1, mgmt |-> asked[a].receipt.mgmt, managed |-> asked[a].managed,
     cred |-> Sealed(serial + 1, asked[a].receipt.endpoint, serial + 1),
     cleanup |-> NoEndpoint, clean |-> NoSeal, status |-> "connected", leased |-> FALSE]

\* The upsert: the credential and the account are replaced, the way to the
\* former account stays, and a check of the table asks for an account with it.
Upserted(a, e) ==
    IF Connected(e)
    THEN [NewRow(a) EXCEPT !.id = registry[e].id, !.cleanup = registry[e].cleanup, !.clean = registry[e].clean]
    ELSE NewRow(a)

\* A connector named by its receipt keeps its credential; any other is new.
ProxmoxSaved(a, e) == IF Connected(e) THEN [registry[e] EXCEPT !.leased = FALSE] ELSE NewRow(a)

SaveAllowed(a, e) ==
    IF product = "proxmox"
    THEN IF asked[a].receipt.existing = 0 THEN ~Connected(e)
         ELSE /\ registry[e].id = asked[a].receipt.existing
              /\ registry[e].managed = asked[a].managed /\ registry[e].status # "disabled"
    ELSE Connected(e) => (registry[e].cleanup # NoEndpoint => asked[a].receipt.mgmt = "managed")

Saved(a) ==
    LET e == asked[a].receipt.endpoint IN
    /\ asked[a].at = "persisting" /\ SaveAllowed(a, e)
    /\ registry' = [registry EXCEPT ![e] = IF product = "proxmox" THEN ProxmoxSaved(a, e) ELSE Upserted(a, e)]
    /\ serial' = serial + 1
    /\ UNCHANGED <<product, account, tests, abandoned, credOps>>

Persist(a) == Saved(a) /\ EndOperation(a) /\ UNCHANGED <<told, credFaults>>

\* Mutant: a failed import keeps what it created.
AfterFailureKept(a) == EndOperation(a)

AfterFailure(a) ==
    IF asked[a].receipt.bootstrap
    THEN Doing(a, [asked[a] EXCEPT !.at = "undoing"]) /\ UNCHANGED receipts
    ELSE EndOperation(a)

\* The commit succeeded and its answer was lost.
PersistLost(a) ==
    /\ Saved(a) /\ CredFault
    /\ AfterFailure(a)
    /\ told' = told \cup {asked[a].managed}

PersistFails(a) ==
    /\ asked[a].at = "persisting"
    /\ SaveAllowed(a, asked[a].receipt.endpoint) => CredFault
    /\ ~SaveAllowed(a, asked[a].receipt.endpoint) => UNCHANGED credFaults
    /\ AfterFailure(a)
    /\ UNCHANGED <<product, registry, account, tests, told, abandoned, serial, credOps>>

Undo(a) ==
    /\ asked[a].at = "undoing"
    /\ account' = [account EXCEPT ![asked[a].managed].there = FALSE]
    /\ EndOperation(a)
    /\ UNCHANGED <<product, registry, tests, told, abandoned, serial, credOps, credFaults>>

\* The error of Proxmox names the account; the others drop it.
UndoFails(a) ==
    /\ asked[a].at = "undoing" /\ CredFault
    /\ told' = IF product = "proxmox" THEN told \cup {asked[a].managed} ELSE told
    /\ EndOperation(a)
    /\ UNCHANGED <<product, registry, account, tests, abandoned, serial, credOps>>

----------------------------------------------------------------------------
(* Another endpoint, credential or certificate *)

\* The tester may provide another certificate; every test seals anew.
TestConnection(e, to) ==
    /\ Connected(e) /\ (to # e => ~Connected(to)) /\ Begin
    /\ serial' = serial + 1
    /\ \E pin \in {registry[e].cred.pin, serial + 1} :
          tests' = tests \cup {[id |-> registry[e].id, from |-> e, seal |-> registry[e].cred.seal,
                                to |-> to, cred |-> Sealed(serial + 1, to, pin)]}
    /\ UNCHANGED <<registry, account, receipts, asked, told>>

\* Mutant: the credential that was tested may be another than the current one.
UnchangedEndpointOnly(t) == registry[t.from].id = t.id /\ ~registry[t.from].leased

Unmodified(t) ==
    registry[t.from].id = t.id /\ registry[t.from].cred.seal = t.seal /\ ~registry[t.from].leased

\* Mutant: every change of endpoint records the one it leaves.
MovesAgain(t) == Managed(t.from) /\ t.to # t.from

Moves(t) == Managed(t.from) /\ registry[t.from].cleanup = NoEndpoint /\ t.to # t.from

Cleanup(t) == IF Moves(t) THEN t.from ELSE registry[t.from].cleanup

CleanSeal(t) ==
    IF Moves(t) THEN registry[t.from].cred
    ELSE IF registry[t.from].cleanup = t.to THEN t.cred ELSE registry[t.from].clean

\* Busy while a synchronisation holds the connector; refused, too, when it was
\* modified since the test or the endpoint was taken.
SaveConnection(t) ==
    /\ Unmodified(t) /\ (t.to # t.from => ~Connected(t.to))
    /\ registry' = [e \in Endpoint |->
                IF e = t.to
                THEN [registry[t.from] EXCEPT !.cred = t.cred, !.cleanup = Cleanup(t), !.clean = CleanSeal(t),
                        !.status = IF @ = "disabled" THEN @ ELSE "connected"]
                ELSE IF e = t.from THEN NoRow ELSE registry[e]]
    /\ UNCHANGED <<product, account, receipts, tests, asked, told, abandoned, serial, credOps, credFaults>>

ReapproveCertificate(a, e) ==
    /\ product = "proxmox" /\ asked[a].at = "idle" /\ Connected(e) /\ Begin
    /\ serial' = serial + 1
    /\ Doing(a, [at |-> "reapproving", id |-> registry[e].id, seal |-> registry[e].cred.seal,
                 cred |-> Sealed(serial + 1, e, serial + 1)])
    /\ UNCHANGED <<registry, account, receipts, tests, told>>

\* Only the credential that was read is replaced.
ReplaceProxmoxCredential(a) ==
    /\ asked[a].at = "reapproving"
    /\ registry' = [e \in Endpoint |->
                IF Connected(e) /\ registry[e].id = asked[a].id /\ registry[e].cred.seal = asked[a].seal
                THEN [registry[e] EXCEPT !.cred = asked[a].cred, !.leased = FALSE,
                                    !.clean = IF registry[e].cleanup = e THEN asked[a].cred ELSE @]
                ELSE registry[e]]
    /\ Doing(a, OpIdle)
    /\ UNCHANGED <<product, account, receipts, tests, told, abandoned, serial, credOps, credFaults>>

----------------------------------------------------------------------------
(* Removal *)

\* What every kind but a managed Proxmox does: nothing is removed remotely.
DeleteConnector(e) ==
    /\ Connected(e) /\ ~(product = "proxmox" /\ Managed(e)) /\ Begin
    /\ registry' = [registry EXCEPT ![e] = NoRow]
    /\ UNCHANGED <<account, receipts, tests, asked, told, serial>>

RemovalCredential(a, e) ==
    /\ product = "proxmox" /\ Managed(e) /\ asked[a].at = "idle" /\ Begin
    /\ Doing(a, [at |-> "suspending", id |-> registry[e].id, managed |-> registry[e].managed,
                 where |-> IF registry[e].cleanup = NoEndpoint THEN e ELSE registry[e].cleanup])
    /\ UNCHANGED <<registry, account, receipts, tests, told, serial>>

WithId(id) == {e \in Endpoint : registry[e].id = id}

SuspendForRemoval(a) ==
    /\ asked[a].at = "suspending"
    /\ registry' = [e \in Endpoint |->
                IF e \in WithId(asked[a].id) THEN [registry[e] EXCEPT !.status = "disabled", !.leased = FALSE]
                ELSE registry[e]]
    /\ Doing(a, IF WithId(asked[a].id) = {} THEN OpIdle ELSE [asked[a] EXCEPT !.at = "removing"])
    /\ UNCHANGED <<product, account, receipts, tests, told, abandoned, serial, credOps, credFaults>>

\* An account that is not found is taken for removed: retries are idempotent.
RemoveManaged(a) ==
    /\ asked[a].at = "removing"
    /\ IF account[asked[a].managed].home = asked[a].where
       THEN /\ account' = [account EXCEPT ![asked[a].managed].there = FALSE]
            /\ told' = told \cup {asked[a].managed}
       ELSE UNCHANGED <<account, told>>
    /\ Doing(a, [asked[a] EXCEPT !.at = "deleting"])
    /\ UNCHANGED <<product, registry, receipts, tests, abandoned, serial, credOps, credFaults>>

\* Deletion finds the connector wherever it is by then.
DeleteRemoved(a) ==
    /\ asked[a].at = "deleting"
    /\ registry' = [e \in Endpoint |-> IF e \in WithId(asked[a].id) THEN NoRow ELSE registry[e]]
    /\ Doing(a, OpIdle)
    /\ UNCHANGED <<product, account, receipts, tests, told, abandoned, serial, credOps, credFaults>>

RemovalFails(a) ==
    /\ asked[a].at \in {"removing", "deleting"} /\ CredFault
    /\ Doing(a, OpIdle)
    /\ UNCHANGED <<product, registry, account, receipts, tests, told, abandoned, serial, credOps>>

----------------------------------------------------------------------------

\* The account of an import in progress is known to nobody any more.
CredCrash(a) ==
    /\ asked[a].at # "idle" /\ CredFault
    /\ abandoned' = IF asked[a].at \in {"persisting", "undoing"} THEN abandoned \cup {asked[a].managed}
                    ELSE abandoned
    /\ Doing(a, OpIdle)
    /\ UNCHANGED <<product, registry, account, receipts, tests, told, serial, credOps>>

\* A synchronisation takes its connector and gives it back.
Lease(e) ==
    /\ Connected(e) /\ (registry[e].status # "disabled" \/ registry[e].leased)
    /\ registry' = [registry EXCEPT ![e].leased = ~@]
    /\ UNCHANGED <<product, account, receipts, tests, asked, told, abandoned, serial, credOps, credFaults>>

\* Suspended or resumed.
SetRowStatus(e) ==
    /\ Connected(e) /\ Begin
    /\ registry' = [registry EXCEPT ![e].status = IF @ = "disabled" THEN "connected" ELSE "disabled",
                          ![e].leased = FALSE]
    /\ UNCHANGED <<account, receipts, tests, asked, told, serial>>

Request(a) ==
    \/ Provision(a) \/ ProvisionRejected(a) \/ ProvisionBroken(a)
    \/ Persist(a) \/ PersistLost(a) \/ PersistFails(a) \/ Undo(a) \/ UndoFails(a)
    \/ ReplaceProxmoxCredential(a) \/ SuspendForRemoval(a) \/ RemoveManaged(a)
    \/ DeleteRemoved(a) \/ RemovalFails(a) \/ CredCrash(a)

AdministerAccess ==
    \/ \E e \in Endpoint :
          \/ PreviewZabbix(e) \/ PreviewUptimeKuma(e) \/ PreviewPatchMon(e)
          \/ PreviewArgus(e) \/ PreviewProxmox(e) \/ PreviewExisting(e)
          \/ DeleteConnector(e) \/ SetRowStatus(e)
          \/ \E a \in Admin : ReapproveCertificate(a, e) \/ RemovalCredential(a, e)
          \/ \E to \in Endpoint : TestConnection(e, to)
    \/ \E a \in Admin, r \in receipts :
          \/ BeginZabbixImport(a, r) \/ BeginUptimeKumaImport(a, r) \/ BeginPatchMonImport(a, r)
          \/ BeginArgusImport(a, r) \/ BeginProxmoxImport(a, r)

CredNext ==
    \/ \E a \in Admin : Request(a)
    \/ AdministerAccess
    \/ \E t \in tests : SaveConnection(t)
    \/ \E e \in Endpoint : Lease(e)
    \/ ReceiptExpires

CredSpec == CredInit /\ [][CredNext]_credVars

----------------------------------------------------------------------------
(* Correctness *)

HomeOf(e) == IF registry[e].cleanup = NoEndpoint THEN e ELSE registry[e].cleanup

\* Whatever the endpoint, the credential and the certificate are replaced by,
\* the connector opens the credential it has, and the one it keeps for the
\* endpoint of its former account: each is sealed for where it is used.  "An
\* address change must not redirect cleanup of an account CairnOps created": the
\* cleanup of a managed Proxmox goes where its account was created.
CredentialsFit ==
    \A e \in Endpoint :
        /\ Connected(e) => registry[e].cred.for = e /\ registry[e].clean.for = registry[e].cleanup
        /\ product = "proxmox" /\ Managed(e) => account[registry[e].managed].home = HomeOf(e)

Known(n) ==
    \/ \E e \in Endpoint : Managed(e) /\ registry[e].managed = n
    \/ \E a \in Admin : asked[a].at \in {"persisting", "undoing"} /\ asked[a].managed = n
    \/ n \in told \cup abandoned

\* No account is left in Proxmox that neither a connector nor a request in
\* progress knows of and no error named, unless the process died: not by an
\* import that failed at any point, two imports of one receipt, nor a removal
\* that met another endpoint or was tried again.  And the account of a connector
\* is there, unless its administrators were told of an error or asked for its
\* removal: no failed import removes the account another one persisted.
AccountsAgree ==
    /\ product = "proxmox" => \A n \in Account : account[n].there => Known(n)
    /\ \A e \in Endpoint : Managed(e) =>
          account[registry[e].managed].there \/ registry[e].managed \in told

PinAdvances(e, f) ==
    (product = "proxmox" /\ Connected(e) /\ registry'[f].id = registry[e].id)
    => registry'[f].cred.pin >= registry[e].cred.pin

\* A certificate that was approved is not replaced by the one it replaced: a
\* test of the connection that began before the approval cannot be saved.
PinsAdvance == [][\A e, f \in Endpoint : PinAdvances(e, f)]_credVars

=============================================================================
