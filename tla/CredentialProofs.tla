-------------------------- MODULE CredentialProofs --------------------------
(***************************************************************************)
(* What ManagedCredentials says of the access of connectors holds for any  *)
(* number of administrators, endpoints, requests and faults.               *)
(*                                                                         *)
(* A test and an approval name the credential they read by its number.     *)
(* Numbers only grow in a row, so the save that finds the same number      *)
(* finds the same credential.  An account has one owner at a time: the     *)
(* import that created it, until a row holds it, and who removes it by     *)
(* request tells its administrators.                                       *)
(***************************************************************************)
EXTENDS ManagedCredentials, TLAPS

----------------------------------------------------------------------------
(* The inductive invariant *)

Credential == [seal : Nat, for : Endpoint \cup {NoEndpoint}, pin : Nat]

Row ==
    [id : Nat \ {0}, mgmt : {"managed", "provided"}, managed : Account \cup {NoAccount},
     cred : Credential, cleanup : Endpoint \cup {NoEndpoint}, clean : Credential,
     status : {"connected", "disabled"}, leased : BOOLEAN]

Receipt ==
    [endpoint : Endpoint, bootstrap : BOOLEAN, mgmt : {"managed", "provided"},
     managed : Account \cup {NoAccount}, existing : Nat]

Test == [id : Nat \ {0}, from : Endpoint, seal : Nat, to : Endpoint, cred : Credential]

Import ==
    [at : {"provisioning", "persisting", "undoing"}, receipt : Receipt,
     managed : Account \cup {NoAccount}]

Reapproval == [at : {"reapproving"}, id : Nat \ {0}, seal : Nat, cred : Credential]

Removal ==
    [at : {"suspending", "removing", "deleting"}, id : Nat \ {0}, managed : Account,
     where : Endpoint]

CredTypes ==
    /\ product \in {"zabbix", "uptime_kuma", "patchmon", "argus", "proxmox"}
    /\ registry \in [Endpoint -> Row \cup {NoRow}]
    /\ account \in [Account -> [home : Endpoint \cup {NoEndpoint}, there : BOOLEAN]]
    /\ receipts \subseteq Receipt
    /\ tests \subseteq Test
    /\ asked \in [Admin -> {OpIdle} \cup Import \cup Reapproval \cup Removal]
    /\ serial \in Nat

\* Numbers are given once: no two rows have one, and none is ahead of the last.
NumbersAreUnique ==
    /\ \A e \in Endpoint : Connected(e) =>
          registry[e].id <= serial /\ registry[e].cred.seal <= serial /\ registry[e].cred.pin <= serial
    /\ \A e, f \in Endpoint : Connected(e) /\ registry[e].id = registry[f].id => e = f

\* What a test, or an approval, read of a row is of the past or the row is as it
\* was; then its certificate is not newer than the one that was tested.
Succeeds(p) ==
    /\ p.id <= serial /\ p.seal < p.cred.seal /\ p.cred.seal <= serial /\ p.cred.pin <= serial
    /\ \A f \in Endpoint : registry[f].id = p.id =>
          /\ p.seal <= registry[f].cred.seal
          /\ p.seal = registry[f].cred.seal => registry[f].cred.pin <= p.cred.pin

PendingSucceeds ==
    /\ \A t \in tests : Succeeds(t) /\ t.cred.for = t.to
    /\ \A a \in Admin : asked[a].at = "reapproving" =>
          /\ Succeeds(asked[a])
          /\ \A f \in Endpoint :
                registry[f].id = asked[a].id /\ registry[f].cred.seal = asked[a].seal
                => asked[a].cred.for = f

Importing == {a \in Admin : asked[a].at \in {"provisioning", "persisting", "undoing"}}

Removing == {a \in Admin : asked[a].at \in {"suspending", "removing", "deleting"}}

\* A receipt is an installer's, or names the account its connector had.
ReceiptFits(r) ==
    /\ r.bootstrap => r.mgmt = "managed" /\ r.managed = NoAccount /\ r.existing = 0
    /\ ~r.bootstrap => /\ r.mgmt = "managed" <=> r.managed # NoAccount
                       /\ product = "proxmox" /\ r.mgmt = "managed" => r.existing # 0

\* Only an installer and a connector that has one provide an account.
AccountsAreManaged ==
    /\ \A e \in Endpoint : Connected(e) => (Managed(e) <=> registry[e].managed # NoAccount)
    /\ \A r \in receipts : ReceiptFits(r)
    /\ \A a \in Importing :
          /\ ReceiptFits(asked[a].receipt)
          /\ asked[a].at # "persisting" => asked[a].receipt.bootstrap
          /\ asked[a].at # "provisioning" /\ asked[a].receipt.bootstrap => asked[a].managed # NoAccount
          /\ ~asked[a].receipt.bootstrap => asked[a].managed = asked[a].receipt.managed

\* The import of a holds the account n it created.
Installs(a, n) ==
    /\ a \in Importing /\ asked[a].at # "provisioning"
    /\ asked[a].receipt.bootstrap /\ asked[a].managed = n

\* A row, a receipt of it or an import of such a receipt has the account n.
Held(n) ==
    \/ \E e \in Endpoint : Connected(e) /\ registry[e].managed = n
    \/ \E r \in receipts : ~r.bootstrap /\ r.managed = n
    \/ \E a \in Importing : ~asked[a].receipt.bootstrap /\ asked[a].managed = n

\* The account n was not removed, or somebody was told.
Kept(n) == account[n].there \/ n \in told

\* An account is where its row, its import or its removal looks for it.
HomesFit ==
    /\ CredentialsFit
    /\ \A a \in Admin, n \in Account : Installs(a, n) => account[n].home = asked[a].receipt.endpoint
    /\ \A a \in Removing : asked[a].at # "deleting" => account[asked[a].managed].home = asked[a].where
    /\ \A n \in Account : Held(n) => account[n].home # NoEndpoint

\* An account that is held is kept, and no import can remove it any more; the
\* account of an import is its own.
HoldersAgree ==
    /\ \A n \in Account : Held(n) => Kept(n) /\ (n \in told \/ \A a \in Admin : ~Installs(a, n))
    /\ \A a \in Admin, n \in Account : Installs(a, n) => Kept(n)
    /\ \A a, b \in Admin, n \in Account : Installs(a, n) /\ Installs(b, n) => a = b

\* No account of Proxmox is left that nobody knows of.
NoneIsForgotten ==
    product = "proxmox" => \A n \in Account : account[n].there =>
        \/ \E e \in Endpoint : Managed(e) /\ registry[e].managed = n
        \/ \E a \in Admin : Installs(a, n)
        \/ n \in told \cup abandoned

\* A removal has the account of the connector it removes, and tells of it before
\* the connector goes.
RemovalsTell ==
    \A a \in Removing :
        /\ product = "proxmox" /\ asked[a].id <= serial
        /\ \A e \in Endpoint : registry[e].id = asked[a].id => registry[e].managed = asked[a].managed
        /\ asked[a].at = "deleting" => asked[a].managed \in told

CredInv ==
    /\ CredTypes /\ NumbersAreUnique /\ PendingSucceeds /\ AccountsAreManaged
    /\ HomesFit /\ HoldersAgree /\ NoneIsForgotten /\ RemovalsTell
----------------------------------------------------------------------------
(* Rows, requests and accounts *)

LEMMA NamesAndNumbers ==
    /\ NoEndpoint \notin Endpoint
    /\ Account \subseteq Nat \ {0} /\ NoAccount = 0 /\ NoAccount \notin Account
BY CredentialConstants DEF CredentialConstants, Account, NoAccount

\* The shape of the state, in the form the steps use it.
LEMMA Shape ==
    ASSUME CredTypes
    PROVE  /\ registry = [e \in Endpoint |-> registry[e]]
           /\ \A e \in Endpoint : Connected(e) => registry[e] \in Row
           /\ \A e \in Endpoint : ~Connected(e) => registry[e] = NoRow
           /\ asked = [a \in Admin |-> asked[a]]
           /\ \A a \in Importing : asked[a] \in Import
           /\ \A a \in Removing : asked[a] \in Removal
           /\ \A a \in Admin : asked[a].at = "reapproving" => asked[a] \in Reapproval
           /\ \A a \in Admin : asked[a].at = "idle" => asked[a] = OpIdle
           /\ account = [n \in Account |-> account[n]]
           /\ \A n \in Account : /\ account[n].home \in Endpoint \cup {NoEndpoint}
                                 /\ account[n].there \in BOOLEAN
<1>1. \A e \in Endpoint : registry[e] \in Row \/ registry[e] = NoRow
  BY DEF CredTypes
<1>2. \A e \in Endpoint : registry[e] \in Row => registry[e].id # 0
  BY DEF Row
<1>3. \A e \in Endpoint : registry[e] = NoRow => registry[e].id = 0
  BY DEF NoRow
<1>4. \A e \in Endpoint : /\ Connected(e) => registry[e] \in Row
                          /\ ~Connected(e) => registry[e] = NoRow
  BY <1>1, <1>2, <1>3 DEF Connected
<1>5. \A a \in Admin : \/ asked[a] = OpIdle /\ asked[a].at = "idle"
                       \/ asked[a] \in Import /\ asked[a].at \in {"provisioning", "persisting", "undoing"}
                       \/ asked[a] \in Reapproval /\ asked[a].at = "reapproving"
                       \/ asked[a] \in Removal /\ asked[a].at \in {"suspending", "removing", "deleting"}
  <2> SUFFICES ASSUME NEW a \in Admin
               PROVE  \/ asked[a] = OpIdle /\ asked[a].at = "idle"
                      \/ asked[a] \in Import /\ asked[a].at \in {"provisioning", "persisting", "undoing"}
                      \/ asked[a] \in Reapproval /\ asked[a].at = "reapproving"
                      \/ asked[a] \in Removal /\ asked[a].at \in {"suspending", "removing", "deleting"}
    OBVIOUS
  <2>1. asked[a] \in {OpIdle} \cup Import \cup Reapproval \cup Removal
    BY DEF CredTypes
  <2>2. CASE asked[a] = OpIdle
    BY <2>2 DEF OpIdle
  <2>3. CASE asked[a] \in Import
    BY <2>3 DEF Import
  <2>4. CASE asked[a] \in Reapproval
    BY <2>4 DEF Reapproval
  <2>5. CASE asked[a] \in Removal
    BY <2>5 DEF Removal
  <2> QED BY <2>1, <2>2, <2>3, <2>4, <2>5
<1>6. /\ registry = [e \in Endpoint |-> registry[e]]
      /\ asked = [a \in Admin |-> asked[a]]
      /\ account = [n \in Account |-> account[n]]
      /\ \A n \in Account : /\ account[n].home \in Endpoint \cup {NoEndpoint}
                            /\ account[n].there \in BOOLEAN
  BY DEF CredTypes
<1> QED BY <1>4, <1>5, <1>6 DEF Importing, Removing

\* Two rows of one connector, but for its status and its lease.
Alike(r, q) ==
    /\ r.id = q.id /\ r.mgmt = q.mgmt /\ r.managed = q.managed /\ r.cred = q.cred
    /\ r.cleanup = q.cleanup /\ r.clean = q.clean

\* Rows go or stay as they are.
RowsStay ==
    /\ registry' \in [Endpoint -> Row \cup {NoRow}]
    /\ \A e \in Endpoint :
          \/ registry'[e] = NoRow
          \/ Connected(e) /\ registry'[e].id # 0 /\ Alike(registry'[e], registry[e])

\* A row goes only when an administrator deletes it.
OnlyDeletedGo ==
    \A e \in Endpoint : Connected(e) =>
        \/ Connected(e)' \/ DeleteConnector(e)
        \/ \E a \in Admin : DeleteRemoved(a) /\ registry[e].id = asked[a].id

LEMMA StatusIsNoMatter ==
    ASSUME NEW row \in Row, NEW st \in {"connected", "disabled"}, NEW l \in BOOLEAN,
           NEW q \in {[row EXCEPT !.status = st, !.leased = l], [row EXCEPT !.leased = l]}
    PROVE  q \in Row /\ q.id # 0 /\ Alike(q, row)
<1>1. q \in Row
  BY ZenonT(60) DEF Row
<1>2. Alike(q, row)
  BY ZenonT(60) DEF Row, Alike
<1> QED BY <1>1, <1>2 DEF Row

LEMMA UntouchedRows ==
    ASSUME CredTypes, UNCHANGED registry
    PROVE  RowsStay /\ OnlyDeletedGo
BY Shape DEF RowsStay, OnlyDeletedGo, CredTypes, Connected, Alike, NoRow

LEMMA RowsStaySteps ==
    ASSUME CredTypes,
           \/ \E e \in Endpoint : DeleteConnector(e) \/ Lease(e) \/ SetRowStatus(e)
           \/ \E a \in Admin : SuspendForRemoval(a) \/ DeleteRemoved(a)
    PROVE  RowsStay /\ OnlyDeletedGo
<1>1. ASSUME NEW e \in Endpoint, DeleteConnector(e) PROVE RowsStay /\ OnlyDeletedGo
  <2>1. registry' = [registry EXCEPT ![e] = NoRow]
    BY <1>1 DEF DeleteConnector
  <2> QED BY <1>1, <2>1, Shape DEF RowsStay, OnlyDeletedGo, CredTypes, Connected, Alike, NoRow
<1>2. ASSUME NEW e \in Endpoint, Lease(e) \/ SetRowStatus(e) PROVE RowsStay /\ OnlyDeletedGo
  <2>1. Connected(e) /\ registry[e] \in Row
    BY <1>2, Shape DEF Lease, SetRowStatus
  <2>2. PICK q \in Row : q.id # 0 /\ Alike(q, registry[e]) /\ registry' = [registry EXCEPT ![e] = q]
    <3>1. CASE Lease(e)
      <4> DEFINE q == [registry[e] EXCEPT !.leased = ~registry[e].leased]
      <4>1. registry' = [registry EXCEPT ![e] = q]
        BY <3>1, Shape DEF Lease
      <4>2. q \in Row /\ q.id # 0 /\ Alike(q, registry[e])
        BY ZenonT(60), <2>1, StatusIsNoMatter DEF Row
      <4> HIDE DEF q
      <4> QED BY <4>1, <4>2
    <3>2. CASE SetRowStatus(e)
      <4> DEFINE st == IF registry[e].status = "disabled" THEN "connected" ELSE "disabled"
                 q == [registry[e] EXCEPT !.status = st, !.leased = FALSE]
      <4>1. registry' = [registry EXCEPT ![e] = q]
        BY <3>2, Shape DEF SetRowStatus
      <4>2. st \in {"connected", "disabled"}
        OBVIOUS
      <4> HIDE DEF st
      <4>3. q \in Row /\ q.id # 0 /\ Alike(q, registry[e])
        BY <2>1, <4>2, StatusIsNoMatter
      <4> HIDE DEF q
      <4> QED BY <4>1, <4>3
    <3> QED BY <1>2, <3>1, <3>2
  <2>3. registry' = [f \in Endpoint |-> IF f = e THEN q ELSE registry[f]]
    BY <2>2, Shape
  <2> QED BY <2>1, <2>2, <2>3, Shape DEF RowsStay, OnlyDeletedGo, CredTypes, Connected, Alike, NoRow
<1>3. ASSUME NEW a \in Admin, SuspendForRemoval(a) PROVE RowsStay /\ OnlyDeletedGo
  <2> DEFINE q(e) == [registry[e] EXCEPT !.status = "disabled", !.leased = FALSE]
  <2>1. registry' = [e \in Endpoint |-> IF e \in WithId(asked[a].id) THEN q(e) ELSE registry[e]]
    BY ZenonT(60), <1>3 DEF SuspendForRemoval
  <2>2. asked[a] \in Removal
    BY <1>3, Shape DEF SuspendForRemoval, Removing
  <2>3. \A e \in WithId(asked[a].id) : e \in Endpoint /\ Connected(e) /\ registry[e] \in Row
    BY <2>2, Shape DEF WithId, Connected, Removal
  <2>4. \A e \in WithId(asked[a].id) : q(e) \in Row /\ q(e).id # 0 /\ Alike(q(e), registry[e])
    <3> SUFFICES ASSUME NEW e \in WithId(asked[a].id)
                 PROVE  q(e) \in Row /\ q(e).id # 0 /\ Alike(q(e), registry[e])
      OBVIOUS
    <3> QED BY <2>3, StatusIsNoMatter
  <2> HIDE DEF q
  <2> QED BY <2>1, <2>3, <2>4, Shape DEF RowsStay, OnlyDeletedGo, CredTypes, Connected, Alike, NoRow
<1>4. ASSUME NEW a \in Admin, DeleteRemoved(a) PROVE RowsStay /\ OnlyDeletedGo
  <2>1. registry' = [e \in Endpoint |-> IF e \in WithId(asked[a].id) THEN NoRow ELSE registry[e]]
    BY <1>4 DEF DeleteRemoved
  <2>2. RowsStay
    BY <2>1, Shape DEF RowsStay, CredTypes, Connected, Alike, NoRow
  <2>3. OnlyDeletedGo
    BY SMTT(40), <1>4, <2>1 DEF OnlyDeletedGo, WithId, Connected
  <2> QED BY <2>2, <2>3
<1> QED BY <1>1, <1>2, <1>3, <1>4

\* What an import that is saved writes: the row of a connector of Proxmox it
\* names stays; any other gets the credential and the account of the import.
LEMMA SavedRow ==
    ASSUME CredTypes, NEW a \in Admin, Saved(a)
    PROVE  LET e == asked[a].receipt.endpoint
               r == asked[a].receipt
           IN
           /\ asked[a] \in Import /\ e \in Endpoint /\ r \in Receipt
           /\ serial' = serial + 1
           /\ \E row \in Row :
                /\ registry' = [registry EXCEPT ![e] = row]
                /\ \/ /\ product = "proxmox" /\ Connected(e) /\ Alike(row, registry[e])
                      /\ r.existing # 0 /\ registry[e].managed = asked[a].managed
                   \/ /\ row.cred = Sealed(serial + 1, e, serial + 1)
                      /\ row.mgmt = r.mgmt /\ row.managed = asked[a].managed
                      /\ \/ /\ ~Connected(e) /\ row.id = serial + 1
                            /\ row.cleanup = NoEndpoint /\ row.clean = NoSeal
                            /\ product = "proxmox" => r.existing = 0
                         \/ /\ product # "proxmox" /\ Connected(e) /\ row.id = registry[e].id
                            /\ row.cleanup = registry[e].cleanup /\ row.clean = registry[e].clean
<1> DEFINE r == asked[a].receipt
           e == r.endpoint
           new == NewRow(a)
           old == registry[e]
<1>1. asked[a] \in Import
  BY Shape DEF Saved, Importing
<1>2. r \in Receipt /\ asked[a].managed \in Account \cup {NoAccount}
  BY <1>1 DEF Import
<1>3. e \in Endpoint /\ r.mgmt \in {"managed", "provided"} /\ r.existing \in Nat
  BY <1>2 DEF Receipt
<1>4. /\ SaveAllowed(a, e) /\ serial' = serial + 1 /\ serial \in Nat
      /\ registry' = [registry EXCEPT ![e] = IF product = "proxmox" THEN ProxmoxSaved(a, e)
                                             ELSE Upserted(a, e)]
  BY DEF Saved, CredTypes
<1>5. /\ new \in Row /\ new.id = serial + 1 /\ new.mgmt = r.mgmt
      /\ new.managed = asked[a].managed /\ new.cred = Sealed(serial + 1, e, serial + 1)
      /\ new.cleanup = NoEndpoint /\ new.clean = NoSeal
  <2>1. Sealed(serial + 1, e, serial + 1) \in Credential /\ NoSeal \in Credential
    BY <1>3, <1>4 DEF Sealed, NoSeal, Credential
  <2> QED BY <1>2, <1>3, <1>4, <2>1 DEF NewRow, Row
<1>6. Connected(e) => old \in Row
  BY SMTT(40), <1>3, Shape
<1> HIDE DEF r, e, new, old
<1>7. CASE product = "proxmox" /\ Connected(e)
  <2>1. r.existing # 0 /\ old.managed = asked[a].managed
    BY <1>4, <1>7 DEF SaveAllowed, Connected, r, old
  <2>2. registry' = [registry EXCEPT ![e] = [old EXCEPT !.leased = FALSE]]
    BY <1>4, <1>7 DEF ProxmoxSaved, old
  <2>3. [old EXCEPT !.leased = FALSE] \in Row /\ Alike([old EXCEPT !.leased = FALSE], old)
    BY ZenonT(60), <1>6, <1>7, StatusIsNoMatter DEF Row
  <2> QED BY <1>1, <1>2, <1>3, <1>4, <1>7, <2>1, <2>2, <2>3 DEF r, e, old
<1>8. CASE product = "proxmox" /\ ~Connected(e)
  <2>1. r.existing = 0
    BY <1>3, <1>4, <1>8 DEF SaveAllowed, Connected, r
  <2>2. registry' = [registry EXCEPT ![e] = new]
    BY <1>4, <1>8 DEF ProxmoxSaved, new
  <2> QED BY <1>1, <1>2, <1>3, <1>4, <1>5, <1>8, <2>1, <2>2 DEF r, e
<1>9. CASE product # "proxmox" /\ ~Connected(e)
  <2>1. registry' = [registry EXCEPT ![e] = new]
    BY <1>4, <1>9 DEF Upserted, new
  <2> QED BY <1>1, <1>2, <1>3, <1>4, <1>5, <1>9, <2>1 DEF r, e
<1>10. CASE product # "proxmox" /\ Connected(e)
  <2> DEFINE row == [new EXCEPT !.id = old.id, !.cleanup = old.cleanup, !.clean = old.clean]
  <2>1. registry' = [registry EXCEPT ![e] = row]
    BY <1>4, <1>10 DEF Upserted, new, old
  <2>2. /\ row \in Row /\ row.id = old.id /\ row.cleanup = old.cleanup /\ row.clean = old.clean
        /\ row.cred = new.cred /\ row.mgmt = new.mgmt /\ row.managed = new.managed
    BY <1>5, <1>6, <1>10 DEF Row
  <2> HIDE DEF row
  <2> QED BY <1>1, <1>2, <1>3, <1>4, <1>5, <1>10, <2>1, <2>2 DEF r, e, old
<1> QED BY <1>7, <1>8, <1>9, <1>10

\* What a test that is saved writes: the row moves, with the tested credential,
\* and keeps the way to the account it leaves.
LEMMA ConnectionRow ==
    ASSUME CredTypes, NEW t \in tests, SaveConnection(t)
    PROVE  LET old == registry[t.from] IN
           /\ t \in Test /\ t.from \in Endpoint /\ t.to \in Endpoint
           /\ Connected(t.from) /\ old.id = t.id /\ old.cred.seal = t.seal
           /\ t.to # t.from => ~Connected(t.to)
           /\ \E row \in Row :
                /\ registry' = [e \in Endpoint |-> IF e = t.to THEN row
                                                   ELSE IF e = t.from THEN NoRow ELSE registry[e]]
                /\ row.id = old.id /\ row.mgmt = old.mgmt /\ row.managed = old.managed
                /\ row.cred = t.cred /\ row.cleanup = Cleanup(t) /\ row.clean = CleanSeal(t)
<1> DEFINE old == registry[t.from]
           st == IF old.status = "disabled" THEN old.status ELSE "connected"
           cl == Cleanup(t)
           cs == CleanSeal(t)
           row == [old EXCEPT !.cred = t.cred, !.cleanup = cl, !.clean = cs, !.status = st]
<1>1. t \in Test
  BY DEF CredTypes
<1>2. t.from \in Endpoint /\ t.to \in Endpoint /\ t.id # 0 /\ t.cred \in Credential
  BY <1>1 DEF Test
<1>3. old.id = t.id /\ old.cred.seal = t.seal /\ (t.to # t.from => ~Connected(t.to))
  BY DEF SaveConnection, Unmodified
<1>4. Connected(t.from) /\ old \in Row
  BY <1>2, <1>3, Shape DEF Connected
<1>5. registry' = [e \in Endpoint |-> IF e = t.to THEN row
                                      ELSE IF e = t.from THEN NoRow ELSE registry[e]]
  BY DEF SaveConnection
<1>6. /\ old.cred \in Credential /\ old.clean \in Credential /\ st \in {"connected", "disabled"}
      /\ old.cleanup \in Endpoint \cup {NoEndpoint}
  BY <1>4 DEF Row
<1>7. cl \in Endpoint \cup {NoEndpoint} /\ cs \in Credential
  BY <1>2, <1>6 DEF Cleanup, CleanSeal
<1> HIDE DEF cl, cs, st, old
<1>8. /\ row \in Row /\ row.id = old.id /\ row.mgmt = old.mgmt /\ row.managed = old.managed
      /\ row.cred = t.cred /\ row.cleanup = cl /\ row.clean = cs
  BY <1>2, <1>4, <1>6, <1>7 DEF Row, old
<1> HIDE DEF row
<1> QED BY <1>1, <1>2, <1>3, <1>4, <1>5, <1>8 DEF old, cl, cs

\* What an approval writes: the credential, in the row that has the one it read.
LEMMA ApprovedRow ==
    ASSUME CredTypes, NEW a \in Admin, ReplaceProxmoxCredential(a)
    PROVE  LET read(e) == /\ Connected(e) /\ registry[e].id = asked[a].id
                          /\ registry[e].cred.seal = asked[a].seal
           IN
           /\ asked[a] \in Reapproval
           /\ registry' \in [Endpoint -> Row \cup {NoRow}]
           /\ \A e \in Endpoint :
                /\ ~read(e) => registry'[e] = registry[e]
                /\ read(e) =>
                     /\ registry'[e] \in Row
                     /\ registry'[e].id = registry[e].id /\ registry'[e].mgmt = registry[e].mgmt
                     /\ registry'[e].managed = registry[e].managed
                     /\ registry'[e].cred = asked[a].cred
                     /\ registry'[e].cleanup = registry[e].cleanup
                     /\ registry'[e].clean = IF registry[e].cleanup = e THEN asked[a].cred
                                             ELSE registry[e].clean
<1> DEFINE read(e) == /\ Connected(e) /\ registry[e].id = asked[a].id
                      /\ registry[e].cred.seal = asked[a].seal
           cs(e) == IF registry[e].cleanup = e THEN asked[a].cred ELSE registry[e].clean
           row(e) == [registry[e] EXCEPT !.cred = asked[a].cred, !.leased = FALSE, !.clean = cs(e)]
<1>1. asked[a] \in Reapproval
  BY Shape DEF ReplaceProxmoxCredential
<1>2. asked[a].cred \in Credential
  BY <1>1 DEF Reapproval
<1>3. registry' = [e \in Endpoint |-> IF read(e) THEN row(e) ELSE registry[e]]
  BY DEF ReplaceProxmoxCredential
<1>4. \A e \in Endpoint : read(e) =>
        /\ row(e) \in Row /\ row(e).id = registry[e].id /\ row(e).mgmt = registry[e].mgmt
        /\ row(e).managed = registry[e].managed /\ row(e).cred = asked[a].cred
        /\ row(e).cleanup = registry[e].cleanup /\ row(e).clean = cs(e)
  <2> SUFFICES ASSUME NEW e \in Endpoint, read(e)
               PROVE  /\ row(e) \in Row /\ row(e).id = registry[e].id
                      /\ row(e).mgmt = registry[e].mgmt
                      /\ row(e).managed = registry[e].managed /\ row(e).cred = asked[a].cred
                      /\ row(e).cleanup = registry[e].cleanup /\ row(e).clean = cs(e)
    OBVIOUS
  <2>1. registry[e] \in Row
    BY Shape
  <2>2. cs(e) \in Credential
    BY <1>2, <2>1 DEF Row
  <2> HIDE DEF cs
  <2> QED BY <1>2, <2>1, <2>2 DEF Row
<1> HIDE DEF row
<1>5. registry' \in [Endpoint -> Row \cup {NoRow}]
  BY <1>3, <1>4, Shape
<1> QED BY <1>1, <1>3, <1>4, <1>5
\* The end of an import, and what follows its failure.
LEMMA EndShape ==
    ASSUME CredTypes, NEW a \in Admin, EndOperation(a)
    PROVE  asked' = [asked EXCEPT ![a] = OpIdle] /\ receipts' \subseteq receipts
BY DEF EndOperation, Doing

LEMMA AfterFailureShape ==
    ASSUME CredTypes, NEW a \in Admin, asked[a] \in Import, AfterFailure(a)
    PROVE  /\ receipts' \subseteq receipts
           /\ \E to \in Import \cup {OpIdle} :
                /\ asked' = [asked EXCEPT ![a] = to]
                /\ \/ ~asked[a].receipt.bootstrap /\ to = OpIdle
                   \/ /\ asked[a].receipt.bootstrap /\ to \in Import /\ to.at = "undoing"
                      /\ to.receipt = asked[a].receipt /\ to.managed = asked[a].managed
<1>1. CASE asked[a].receipt.bootstrap
  <2> DEFINE to == [asked[a] EXCEPT !.at = "undoing"]
  <2>1. to \in Import /\ to.at = "undoing" /\ to.receipt = asked[a].receipt
        /\ to.managed = asked[a].managed
    BY DEF Import
  <2>2. asked' = [asked EXCEPT ![a] = to] /\ receipts' \subseteq receipts
    BY <1>1 DEF AfterFailure, Doing
  <2> HIDE DEF to
  <2> QED BY <1>1, <2>1, <2>2
<1>2. CASE ~asked[a].receipt.bootstrap
  BY <1>2, EndShape DEF AfterFailure
<1> QED BY <1>1, <1>2

\* An account that is created was none before.
LEMMA CreatedShape ==
    ASSUME CredTypes, NEW a \in Admin, asked[a] \in Import, Created(a)
    PROVE  /\ Fresh \in Account /\ account[Fresh].home = NoEndpoint
           /\ asked[a].receipt.endpoint \in Endpoint
           /\ account' = [account EXCEPT ![Fresh] =
                             [home |-> asked[a].receipt.endpoint, there |-> TRUE]]
           /\ account' \in [Account -> [home : Endpoint \cup {NoEndpoint}, there : BOOLEAN]]
<1>1. Fresh \in Unused
  BY Zenon DEF Created, Fresh
<1>2. asked[a].receipt.endpoint \in Endpoint
  BY DEF Import, Receipt
<1>3. account' = [account EXCEPT ![Fresh] =
                     [home |-> asked[a].receipt.endpoint, there |-> TRUE]]
  BY DEF Created
<1>4. Fresh \in Account /\ account[Fresh].home = NoEndpoint
  BY <1>1 DEF Unused
<1>5. account' \in [Account -> [home : Endpoint \cup {NoEndpoint}, there : BOOLEAN]]
  BY <1>2, <1>3, <1>4 DEF CredTypes
<1> QED BY <1>2, <1>3, <1>4, <1>5

\* The import of an installer that created its account.
LEMMA ProvisionShape ==
    ASSUME CredTypes, NEW a \in Admin, Provision(a) \/ ProvisionBroken(a)
    PROVE  /\ asked[a] \in Import /\ asked[a].at = "provisioning" /\ Created(a)
           /\ receipts' \subseteq receipts
           /\ UNCHANGED <<product, registry, tests, told, abandoned, serial>>
           /\ \E to \in Import \cup {OpIdle} :
                /\ asked' = [asked EXCEPT ![a] = to]
                /\ \/ product # "proxmox" /\ to = OpIdle
                   \/ /\ to \in Import /\ to.at \in {"persisting", "undoing"}
                      /\ to.receipt = asked[a].receipt /\ to.managed = Fresh
<1>1. asked[a].at = "provisioning" /\ Created(a)
      /\ UNCHANGED <<product, registry, tests, told, abandoned, serial>>
  BY DEF Provision, ProvisionBroken
<1>2. asked[a] \in Import
  BY <1>1, Shape DEF Importing
<1>3. Fresh \in Account
  BY <1>1, <1>2, CreatedShape
<1>4. CASE product # "proxmox" /\ EndOperation(a)
  BY <1>1, <1>2, <1>4, EndShape
<1>5. ASSUME NEW at \in {"persisting", "undoing"},
             asked' = [asked EXCEPT ![a] = [asked[a] EXCEPT !.at = at, !.managed = Fresh]],
             UNCHANGED receipts
      PROVE  /\ receipts' \subseteq receipts
             /\ \E to \in Import :
                  /\ asked' = [asked EXCEPT ![a] = to]
                  /\ to.at \in {"persisting", "undoing"}
                  /\ to.receipt = asked[a].receipt /\ to.managed = Fresh
  <2> DEFINE to == [asked[a] EXCEPT !.at = at, !.managed = Fresh]
  <2>1. to \in Import /\ to.at = at /\ to.receipt = asked[a].receipt /\ to.managed = Fresh
    BY <1>2, <1>3 DEF Import
  <2> HIDE DEF to
  <2>2. asked' = [asked EXCEPT ![a] = to]
    BY <1>5 DEF to
  <2> QED BY <1>5, <2>1, <2>2
<1>6. CASE Provision(a)
  BY <1>1, <1>2, <1>5, <1>6 DEF Provision, Doing
<1>7. CASE ProvisionBroken(a)
  BY <1>1, <1>2, <1>4, <1>5, <1>7 DEF ProvisionBroken, Doing
<1> QED BY <1>6, <1>7

\* A removal goes from one step to the next.
LEMMA RemovalShape ==
    ASSUME CredTypes, NEW a \in Admin, SuspendForRemoval(a) \/ RemoveManaged(a) \/ DeleteRemoved(a)
    PROVE  /\ a \in Removing /\ asked[a] \in Removal
           /\ \E to \in Removal \cup {OpIdle} :
                /\ asked' = [asked EXCEPT ![a] = to]
                /\ \/ to = OpIdle /\ (SuspendForRemoval(a) \/ DeleteRemoved(a))
                   \/ /\ to \in Removal
                      /\ to.id = asked[a].id /\ to.managed = asked[a].managed
                      /\ to.where = asked[a].where
                      /\ \/ SuspendForRemoval(a) /\ to.at = "removing"
                         \/ RemoveManaged(a) /\ to.at = "deleting"
<1>1. a \in Removing /\ asked[a] \in Removal
  BY Shape DEF SuspendForRemoval, RemoveManaged, DeleteRemoved, Removing
<1>2. ASSUME NEW at \in {"removing", "deleting"}
      PROVE  LET to == [asked[a] EXCEPT !.at = at] IN
             /\ to \in Removal /\ to.at = at /\ to.id = asked[a].id
             /\ to.managed = asked[a].managed /\ to.where = asked[a].where
  BY <1>1 DEF Removal
<1>3. CASE SuspendForRemoval(a)
  <2> DEFINE to == [asked[a] EXCEPT !.at = "removing"]
  <2>1. asked' = [asked EXCEPT ![a] = IF WithId(asked[a].id) = {} THEN OpIdle ELSE to]
    BY <1>3 DEF SuspendForRemoval, Doing
  <2>2. /\ to \in Removal /\ to.at = "removing" /\ to.id = asked[a].id
        /\ to.managed = asked[a].managed /\ to.where = asked[a].where
    BY <1>2
  <2> HIDE DEF to
  <2> QED BY <1>1, <1>3, <2>1, <2>2
<1>4. CASE RemoveManaged(a)
  <2> DEFINE to == [asked[a] EXCEPT !.at = "deleting"]
  <2>1. asked' = [asked EXCEPT ![a] = to]
    BY <1>4 DEF RemoveManaged, Doing
  <2>2. /\ to \in Removal /\ to.at = "deleting" /\ to.id = asked[a].id
        /\ to.managed = asked[a].managed /\ to.where = asked[a].where
    BY <1>2
  <2> HIDE DEF to
  <2> QED BY <1>1, <1>4, <2>1, <2>2
<1>5. CASE DeleteRemoved(a)
  BY <1>1, <1>5 DEF DeleteRemoved, Doing
<1> QED BY <1>3, <1>4, <1>5

\* What an administrator begins.
LEMMA BeginShape ==
    ASSUME CredTypes, NEW a \in Admin
    PROVE  /\ \A r \in receipts : BeginImport(a, r) =>
                \E to \in Import :
                    /\ asked' = [asked EXCEPT ![a] = to]
                    /\ to.receipt = r /\ to.managed = r.managed
                    /\ to.at = IF r.bootstrap THEN "provisioning" ELSE "persisting"
           /\ \A e \in Endpoint : ReapproveCertificate(a, e) =>
                \E to \in Reapproval :
                    /\ asked' = [asked EXCEPT ![a] = to]
                    /\ to.id = registry[e].id /\ to.seal = registry[e].cred.seal
                    /\ to.cred = Sealed(serial + 1, e, serial + 1)
           /\ \A e \in Endpoint : RemovalCredential(a, e) /\ registry[e].managed \in Account =>
                \E to \in Removal :
                    /\ asked' = [asked EXCEPT ![a] = to]
                    /\ to.at = "suspending" /\ to.id = registry[e].id
                    /\ to.managed = registry[e].managed /\ to.where = HomeOf(e)
<1>1. ASSUME NEW r \in receipts, BeginImport(a, r)
      PROVE  \E to \in Import :
                    /\ asked' = [asked EXCEPT ![a] = to]
                    /\ to.receipt = r /\ to.managed = r.managed
                    /\ to.at = IF r.bootstrap THEN "provisioning" ELSE "persisting"
  <2> DEFINE to == [at |-> IF r.bootstrap THEN "provisioning" ELSE "persisting",
                    receipt |-> r, managed |-> r.managed]
  <2>1. r \in Receipt /\ r.managed \in Account \cup {NoAccount}
    BY DEF CredTypes, Receipt
  <2>2. to \in Import
    BY <2>1 DEF Import
  <2>3. asked' = [asked EXCEPT ![a] = to]
    BY <1>1 DEF BeginImport, Doing
  <2> QED BY <2>2, <2>3
<1>2. ASSUME NEW e \in Endpoint, ReapproveCertificate(a, e)
      PROVE  \E to \in Reapproval :
                    /\ asked' = [asked EXCEPT ![a] = to]
                    /\ to.id = registry[e].id /\ to.seal = registry[e].cred.seal
                    /\ to.cred = Sealed(serial + 1, e, serial + 1)
  <2> DEFINE to == [at |-> "reapproving", id |-> registry[e].id, seal |-> registry[e].cred.seal,
                    cred |-> Sealed(serial + 1, e, serial + 1)]
  <2>1. registry[e] \in Row
    BY <1>2, Shape DEF ReapproveCertificate
  <2>2. registry[e].id \in Nat \ {0} /\ registry[e].cred.seal \in Nat
    BY <2>1 DEF Row, Credential
  <2>3. Sealed(serial + 1, e, serial + 1) \in Credential
    BY DEF Sealed, Credential, CredTypes
  <2>4. to \in Reapproval
    BY <2>2, <2>3 DEF Reapproval
  <2>5. asked' = [asked EXCEPT ![a] = to]
    BY <1>2 DEF ReapproveCertificate, Doing
  <2> QED BY <2>4, <2>5
<1>3. ASSUME NEW e \in Endpoint, RemovalCredential(a, e), registry[e].managed \in Account
      PROVE  \E to \in Removal :
                    /\ asked' = [asked EXCEPT ![a] = to]
                    /\ to.at = "suspending" /\ to.id = registry[e].id
                    /\ to.managed = registry[e].managed /\ to.where = HomeOf(e)
  <2> DEFINE to == [at |-> "suspending", id |-> registry[e].id, managed |-> registry[e].managed,
                    where |-> HomeOf(e)]
  <2>1. registry[e] \in Row
    BY <1>3, Shape DEF RemovalCredential, Managed
  <2>2. registry[e].id \in Nat \ {0} /\ HomeOf(e) \in Endpoint
    BY <2>1 DEF Row, HomeOf
  <2>3. to \in Removal
    BY <1>3, <2>2 DEF Removal
  <2>4. asked' = [asked EXCEPT ![a] = to]
    BY <1>3 DEF RemovalCredential, Doing, HomeOf
  <2> QED BY <2>3, <2>4
<1> QED BY <1>1, <1>2, <1>3
----------------------------------------------------------------------------
(* Types *)

\* Steps that begin nothing, and steps that only begin something.
Previews(e) ==
    \/ PreviewZabbix(e) \/ PreviewUptimeKuma(e) \/ PreviewPatchMon(e)
    \/ PreviewArgus(e) \/ PreviewProxmox(e) \/ PreviewExisting(e)

\* What a preview seals.
LEMMA PreviewShape ==
    ASSUME CredTypes, AccountsAreManaged, NEW e \in Endpoint, Previews(e)
    PROVE  /\ UNCHANGED <<product, registry, account, tests, asked, told, abandoned, serial>>
           /\ \E r \in Receipt :
                /\ receipts' = receipts \cup {r}
                /\ ReceiptFits(r)
                /\ ~r.bootstrap /\ r.managed # NoAccount =>
                        Connected(e) /\ registry[e].managed = r.managed
<1>1. CASE Previewed(e, TRUE, "managed", NoAccount, 0)
  <2> DEFINE r == [endpoint |-> e, bootstrap |-> TRUE, mgmt |-> "managed",
                   managed |-> NoAccount, existing |-> 0]
  <2>1. r \in Receipt /\ ReceiptFits(r) /\ r.bootstrap
    BY DEF Receipt, ReceiptFits
  <2>2. receipts' = receipts \cup {r}
        /\ UNCHANGED <<product, registry, account, tests, asked, told, abandoned, serial>>
    BY <1>1 DEF Previewed, Begin
  <2> HIDE DEF r
  <2> QED BY <2>1, <2>2
<1>2. CASE Previewed(e, FALSE, "provided", NoAccount, 0)
  <2> DEFINE r == [endpoint |-> e, bootstrap |-> FALSE, mgmt |-> "provided",
                   managed |-> NoAccount, existing |-> 0]
  <2>1. r \in Receipt /\ ReceiptFits(r) /\ r.managed = NoAccount
    BY DEF Receipt, ReceiptFits
  <2>2. receipts' = receipts \cup {r}
        /\ UNCHANGED <<product, registry, account, tests, asked, told, abandoned, serial>>
    BY <1>2 DEF Previewed, Begin
  <2> HIDE DEF r
  <2> QED BY <2>1, <2>2
<1>3. CASE /\ Connected(e)
           /\ Previewed(e, FALSE, registry[e].mgmt, registry[e].managed,
                        IF product = "proxmox" THEN registry[e].id ELSE 0)
  <2> DEFINE x == IF product = "proxmox" THEN registry[e].id ELSE 0
             r == [endpoint |-> e, bootstrap |-> FALSE, mgmt |-> registry[e].mgmt,
                   managed |-> registry[e].managed, existing |-> x]
  <2>1. registry[e] \in Row
    BY <1>3, Shape
  <2>2. /\ registry[e].mgmt \in {"managed", "provided"} /\ x \in Nat
        /\ registry[e].managed \in Account \cup {NoAccount}
        /\ product = "proxmox" => x # 0
    BY <2>1 DEF Row
  <2>3. registry[e].mgmt = "managed" <=> registry[e].managed # NoAccount
    BY <1>3 DEF AccountsAreManaged, Managed
  <2>4. receipts' = receipts \cup {r}
        /\ UNCHANGED <<product, registry, account, tests, asked, told, abandoned, serial>>
    BY <1>3 DEF Previewed, Begin
  <2> HIDE DEF x
  <2>5. r \in Receipt /\ r.managed = registry[e].managed
    BY <2>2 DEF Receipt
  <2>6. ReceiptFits(r)
    BY <2>2, <2>3 DEF ReceiptFits
  <2> HIDE DEF r
  <2> QED BY <1>3, <2>4, <2>5, <2>6
<1>4. \/ Previewed(e, TRUE, "managed", NoAccount, 0)
      \/ Previewed(e, FALSE, "provided", NoAccount, 0)
      \/ /\ Connected(e)
         /\ Previewed(e, FALSE, registry[e].mgmt, registry[e].managed,
                      IF product = "proxmox" THEN registry[e].id ELSE 0)
  BY DEF Previews, PreviewZabbix, PreviewUptimeKuma, PreviewPatchMon, PreviewArgus,
         PreviewProxmox, PreviewExisting, NewAccess
<1> QED BY <1>1, <1>2, <1>3, <1>4

\* An import of any kind begins alike.
Imports(a) ==
    \E r \in receipts :
        \/ BeginZabbixImport(a, r) \/ BeginUptimeKumaImport(a, r) \/ BeginPatchMonImport(a, r)
        \/ BeginArgusImport(a, r) \/ BeginProxmoxImport(a, r)

LEMMA ImportsBegin ==
    ASSUME NEW a \in Admin, Imports(a)
    PROVE  \E r \in receipts : BeginImport(a, r)
BY DEF Imports, BeginZabbixImport, BeginUptimeKumaImport, BeginPatchMonImport, BeginArgusImport,
       BeginProxmoxImport

\* What a test seals.
LEMMA TestShape ==
    ASSUME CredTypes, NumbersAreUnique, NEW e \in Endpoint, NEW to \in Endpoint,
           TestConnection(e, to)
    PROVE  /\ Connected(e) /\ serial' = serial + 1
           /\ UNCHANGED <<product, registry, account, receipts, asked, told, abandoned>>
           /\ \E t \in Test :
                /\ tests' = tests \cup {t}
                /\ t.id = registry[e].id /\ t.from = e /\ t.to = to
                /\ t.seal = registry[e].cred.seal
                /\ t.cred.seal = serial + 1 /\ t.cred.for = to
                /\ t.cred.pin \in {registry[e].cred.pin, serial + 1}
<1>1. /\ Connected(e) /\ serial' = serial + 1 /\ serial \in Nat
      /\ UNCHANGED <<product, registry, account, receipts, asked, told, abandoned>>
  BY DEF TestConnection, Begin, CredTypes
<1>2. PICK pin \in {registry[e].cred.pin, serial + 1} :
        tests' = tests \cup {[id |-> registry[e].id, from |-> e, seal |-> registry[e].cred.seal,
                              to |-> to, cred |-> Sealed(serial + 1, to, pin)]}
  BY DEF TestConnection
<1>3. registry[e].id \in Nat \ {0} /\ registry[e].cred \in Credential
  BY <1>1, Shape DEF Row
<1>4. registry[e].cred.seal \in Nat /\ pin \in Nat
  BY <1>1, <1>3 DEF Credential
<1> DEFINE c == Sealed(serial + 1, to, pin)
           t == [id |-> registry[e].id, from |-> e, seal |-> registry[e].cred.seal,
                 to |-> to, cred |-> c]
<1>5. c \in Credential /\ c.seal = serial + 1 /\ c.for = to /\ c.pin = pin
  BY <1>1, <1>4 DEF Sealed, Credential
<1> HIDE DEF c
<1>6. t \in Test
  BY <1>3, <1>4, <1>5 DEF Test
<1> QED BY <1>1, <1>2, <1>5, <1>6 DEF c

\* Steps that leave every row and every account, and drop a request at most.
Forgets(a) ==
    \/ ProvisionRejected(a) \/ PersistFails(a) \/ UndoFails(a) \/ RemovalFails(a) \/ CredCrash(a)

LEMMA ForgetShape ==
    ASSUME CredTypes, NEW a \in Admin, Forgets(a)
    PROVE  /\ UNCHANGED <<product, registry, account, tests, serial>>
           /\ receipts' \subseteq receipts /\ told \subseteq told' /\ abandoned \subseteq abandoned'
           /\ \E to \in Import \cup {OpIdle} :
                /\ asked' = [asked EXCEPT ![a] = to]
                /\ \/ to = OpIdle
                   \/ /\ PersistFails(a) /\ asked[a] \in Import
                      /\ asked[a].receipt.bootstrap /\ asked[a].at = "persisting"
                      /\ to \in Import /\ to.at = "undoing"
                      /\ to.receipt = asked[a].receipt /\ to.managed = asked[a].managed
<1>1. CASE ProvisionRejected(a) \/ UndoFails(a)
  BY <1>1, EndShape DEF ProvisionRejected, UndoFails
<1>2. CASE RemovalFails(a) \/ CredCrash(a)
  BY <1>2 DEF RemovalFails, CredCrash, Doing
<1>3. CASE PersistFails(a)
  <2>1. asked[a].at = "persisting" /\ asked[a] \in Import
    BY <1>3, Shape DEF PersistFails, Importing
  <2>2. AfterFailure(a) /\ UNCHANGED <<product, registry, account, tests, told, abandoned, serial>>
    BY <1>3 DEF PersistFails
  <2> QED BY <1>3, <2>1, <2>2, AfterFailureShape
<1> QED BY <1>1, <1>2, <1>3 DEF Forgets

\* The steps of CredNext, by what they do.
LEMMA CredCases ==
    ASSUME CredNext
    PROVE  \/ \E e \in Endpoint :
                 \/ Previews(e) \/ DeleteConnector(e) \/ SetRowStatus(e) \/ Lease(e)
                 \/ \E a \in Admin : ReapproveCertificate(a, e) \/ RemovalCredential(a, e)
                 \/ \E to \in Endpoint : TestConnection(e, to)
           \/ \E a \in Admin :
                 \/ Imports(a) \/ Forgets(a)
                 \/ Provision(a) \/ ProvisionBroken(a) \/ Persist(a) \/ PersistLost(a) \/ Undo(a)
                 \/ ReplaceProxmoxCredential(a) \/ SuspendForRemoval(a) \/ RemoveManaged(a)
                 \/ DeleteRemoved(a)
           \/ \E t \in tests : SaveConnection(t)
           \/ ReceiptExpires
BY DEF CredNext, Request, AdministerAccess, Previews, Imports, Forgets

LEMMA TypesStep ==
    ASSUME CredTypes, NumbersAreUnique, AccountsAreManaged, CredNext
    PROVE  CredTypes'
<1> DEFINE Asked == {OpIdle} \cup Import \cup Reapproval \cup Removal
           Accounts == [Account -> [home : Endpoint \cup {NoEndpoint}, there : BOOLEAN]]
<1>1. SUFFICES /\ product' = product
               /\ registry' \in [Endpoint -> Row \cup {NoRow}]
               /\ account' \in Accounts
               /\ receipts' \subseteq Receipt /\ tests' \subseteq Test
               /\ asked' \in [Admin -> Asked]
               /\ serial' \in {serial, serial + 1}
  BY DEF CredTypes
<1>2. /\ registry \in [Endpoint -> Row \cup {NoRow}] /\ account \in Accounts
      /\ receipts \subseteq Receipt /\ tests \subseteq Test /\ asked \in [Admin -> Asked]
  BY DEF CredTypes
<1>3. \A a \in Admin, to \in Asked :
        asked' = [asked EXCEPT ![a] = to] => asked' \in [Admin -> Asked]
  BY <1>2
<1>4. RowsStay => registry' \in [Endpoint -> Row \cup {NoRow}]
  BY DEF RowsStay
<1> HIDE DEF Asked, Accounts
<1>5. Import \subseteq Asked /\ Reapproval \subseteq Asked /\ Removal \subseteq Asked /\ OpIdle \in Asked
  BY DEF Asked
<1>6. ASSUME NEW e \in Endpoint, Previews(e) PROVE <1>1!1
  BY <1>2, <1>6, PreviewShape
<1>7. ASSUME NEW e \in Endpoint, DeleteConnector(e) \/ SetRowStatus(e) \/ Lease(e) PROVE <1>1!1
  <2>1. RowsStay
    BY <1>7, RowsStaySteps
  <2>2. UNCHANGED <<product, account, receipts, tests, asked, serial>>
    BY <1>7 DEF DeleteConnector, SetRowStatus, Lease, Begin
  <2> QED BY <1>2, <1>4, <2>1, <2>2
<1>8. ASSUME NEW e \in Endpoint, NEW a \in Admin, ReapproveCertificate(a, e) PROVE <1>1!1
  <2>1. UNCHANGED <<product, registry, account, receipts, tests>> /\ serial' = serial + 1
    BY <1>8 DEF ReapproveCertificate, Begin
  <2>2. asked' \in [Admin -> Asked]
    BY <1>3, <1>5, <1>8, BeginShape
  <2> QED BY <1>2, <2>1, <2>2
<1>9. ASSUME NEW e \in Endpoint, NEW a \in Admin, RemovalCredential(a, e) PROVE <1>1!1
  <2>1. UNCHANGED <<product, registry, account, receipts, tests, serial>>
    BY <1>9 DEF RemovalCredential, Begin
  <2>2. registry[e].managed \in Account
    BY <1>9, Shape DEF RemovalCredential, Managed, AccountsAreManaged, Row
  <2>3. asked' \in [Admin -> Asked]
    BY <1>3, <1>5, <1>9, <2>2, BeginShape
  <2> QED BY <1>2, <2>1, <2>3
<1>10. ASSUME NEW e \in Endpoint, NEW to \in Endpoint, TestConnection(e, to) PROVE <1>1!1
  <2>1. UNCHANGED <<product, registry, account, receipts, asked>> /\ serial' = serial + 1
    BY <1>10 DEF TestConnection, Begin
  <2>2. tests' \subseteq Test
    BY <1>2, <1>10, TestShape
  <2> QED BY <1>2, <2>1, <2>2
<1>11. ASSUME NEW a \in Admin, Imports(a) PROVE <1>1!1
  <2>1. PICK r \in receipts : BeginImport(a, r)
    BY <1>11, ImportsBegin
  <2>2. UNCHANGED <<product, registry, account, receipts, tests, serial>>
    BY <2>1 DEF BeginImport, Begin
  <2>3. asked' \in [Admin -> Asked]
    BY <1>3, <1>5, <2>1, BeginShape
  <2> QED BY <1>2, <2>2, <2>3
<1>12. ASSUME NEW a \in Admin, Forgets(a) PROVE <1>1!1
  BY <1>2, <1>3, <1>5, <1>12, ForgetShape
<1>13. ASSUME NEW a \in Admin, Provision(a) \/ ProvisionBroken(a) PROVE <1>1!1
  <2>1. asked[a] \in Import /\ Created(a)
    BY <1>13, ProvisionShape
  <2>2. account' \in Accounts
    BY <2>1, CreatedShape DEF Accounts
  <2>3. asked' \in [Admin -> Asked] /\ receipts' \subseteq receipts
        /\ UNCHANGED <<product, registry, tests, serial>>
    BY <1>3, <1>5, <1>13, ProvisionShape
  <2> QED BY <1>2, <2>2, <2>3
<1>14. ASSUME NEW a \in Admin, Persist(a) \/ PersistLost(a) PROVE <1>1!1
  <2>1. Saved(a) /\ UNCHANGED <<product, account, tests>>
    BY <1>14 DEF Persist, PersistLost, Saved
  <2>2. asked[a] \in Import /\ serial' = serial + 1
        /\ registry' \in [Endpoint -> Row \cup {NoRow}]
    BY <1>2, <2>1, SavedRow
  <2>3. asked' \in [Admin -> Asked] /\ receipts' \subseteq receipts
    BY <1>3, <1>5, <1>14, <2>2, EndShape, AfterFailureShape DEF Persist, PersistLost
  <2> QED BY <1>2, <2>1, <2>2, <2>3
<1>15. ASSUME NEW a \in Admin, Undo(a) PROVE <1>1!1
  <2>1. UNCHANGED <<product, registry, tests, serial>> /\ EndOperation(a)
        /\ account' = [account EXCEPT ![asked[a].managed].there = FALSE]
    BY <1>15 DEF Undo
  <2>2. account' \in Accounts
    BY <1>2, <2>1 DEF Accounts
  <2> QED BY <1>2, <1>3, <1>5, <2>1, <2>2, EndShape
<1>16. ASSUME NEW a \in Admin, ReplaceProxmoxCredential(a) PROVE <1>1!1
  <2>1. UNCHANGED <<product, account, receipts, tests, serial>> /\ asked' = [asked EXCEPT ![a] = OpIdle]
    BY <1>16 DEF ReplaceProxmoxCredential, Doing
  <2> QED BY <1>2, <1>3, <1>5, <1>16, <2>1, ApprovedRow
<1>17. ASSUME NEW a \in Admin, SuspendForRemoval(a) \/ RemoveManaged(a) \/ DeleteRemoved(a)
       PROVE  <1>1!1
  <2>1. UNCHANGED <<product, receipts, tests, serial>>
    BY <1>17 DEF SuspendForRemoval, RemoveManaged, DeleteRemoved
  <2>2. asked' \in [Admin -> Asked]
    BY <1>3, <1>5, <1>17, RemovalShape
  <2>3. account' \in Accounts
    <3>1. \/ account' = account
          \/ account' = [account EXCEPT ![asked[a].managed].there = FALSE]
      BY <1>17 DEF SuspendForRemoval, RemoveManaged, DeleteRemoved
    <3> QED BY ZenonT(60), <1>2, <3>1 DEF Accounts
  <2>4. registry' \in [Endpoint -> Row \cup {NoRow}]
    BY <1>2, <1>4, <1>17, RowsStaySteps DEF RemoveManaged
  <2> QED BY SMTT(40), <1>2, <2>1, <2>2, <2>3, <2>4
<1>18. ASSUME NEW t \in tests, SaveConnection(t) PROVE <1>1!1
  <2>1. UNCHANGED <<product, account, receipts, tests, asked, serial>>
    BY <1>18 DEF SaveConnection
  <2>2. registry' \in [Endpoint -> Row \cup {NoRow}]
    BY <1>2, <1>18, ConnectionRow
  <2> QED BY <1>2, <2>1, <2>2
<1>19. CASE ReceiptExpires
  BY <1>2, <1>19 DEF ReceiptExpires
<1> QED BY <1>6, <1>7, <1>8, <1>9, <1>10, <1>11, <1>12, <1>13, <1>14, <1>15, <1>16, <1>17, <1>18,
           <1>19, CredCases
----------------------------------------------------------------------------
(* Numbers, and the credentials they name *)

\* The rows of a connector: its credential is the one it was, in its place, or a
\* later one; a new connector has a new number.
RowsAdvance ==
    \A e \in Endpoint : Connected(e)' =>
        \/ registry'[e].id > serial
        \/ \E f \in Endpoint :
              /\ Connected(f) /\ registry[f].id = registry'[e].id
              /\ \/ f = e /\ registry'[e].cred = registry[f].cred
                 \/ /\ registry'[e].cred.seal > registry[f].cred.seal
                    /\ product = "proxmox" => registry'[e].cred.pin >= registry[f].cred.pin

LEMMA NumbersOfRows ==
    ASSUME CredTypes, NEW e \in Endpoint, Connected(e)
    PROVE  /\ registry[e].id \in Nat \ {0} /\ registry[e].cred \in Credential
           /\ registry[e].cred.seal \in Nat /\ registry[e].cred.pin \in Nat
           /\ registry[e].managed \in Account \cup {NoAccount}
           /\ registry[e].cleanup \in Endpoint \cup {NoEndpoint}
<1>1. registry[e] \in Row
  BY Shape
<1>2. /\ registry[e].id \in Nat \ {0} /\ registry[e].cred \in Credential
      /\ registry[e].managed \in Account \cup {NoAccount}
      /\ registry[e].cleanup \in Endpoint \cup {NoEndpoint}
  BY <1>1 DEF Row
<1> QED BY <1>2 DEF Credential

\* Steps that keep the rows keep their numbers.
LEMMA RowsStayNumbers ==
    ASSUME CredTypes, NumbersAreUnique, RowsStay, serial' >= serial, serial' \in Nat
    PROVE  RowsAdvance /\ NumbersAreUnique'
<1>1. \A e \in Endpoint : Connected(e)' =>
         Connected(e) /\ registry'[e].id = registry[e].id /\ registry'[e].cred = registry[e].cred
  BY DEF RowsStay, Connected, Alike, NoRow
<1>2. \A e \in Endpoint : Connected(e) =>
        /\ registry[e].id \in Nat /\ registry[e].cred.seal \in Nat /\ registry[e].cred.pin \in Nat
  BY NumbersOfRows
<1>3. RowsAdvance
  BY <1>1 DEF RowsAdvance
<1>4. serial \in Nat
  BY DEF CredTypes
<1>5. \A e \in Endpoint : Connected(e)' =>
        /\ registry'[e].id <= serial' /\ registry'[e].cred.seal <= serial'
        /\ registry'[e].cred.pin <= serial'
  BY <1>1, <1>2, <1>4 DEF NumbersAreUnique
<1>6. \A e, f \in Endpoint : Connected(e)' /\ registry'[e].id = registry'[f].id => e = f
  <2> SUFFICES ASSUME NEW e \in Endpoint, NEW f \in Endpoint,
                      Connected(e)', registry'[e].id = registry'[f].id
               PROVE  e = f
    OBVIOUS
  <2>1. Connected(f)'
    BY DEF Connected
  <2> QED BY <1>1, <2>1 DEF NumbersAreUnique
<1> QED BY <1>3, <1>5, <1>6 DEF NumbersAreUnique

LEMMA SavedNumbers ==
    ASSUME CredTypes, NumbersAreUnique, NEW a \in Admin, Saved(a)
    PROVE  RowsAdvance /\ NumbersAreUnique'
<1> DEFINE e == asked[a].receipt.endpoint
<1>1. e \in Endpoint /\ serial' = serial + 1 /\ serial \in Nat
  BY SavedRow DEF CredTypes
<1>2. PICK row \in Row :
        /\ registry' = [registry EXCEPT ![e] = row]
        /\ \/ product = "proxmox" /\ Connected(e) /\ row.id = registry[e].id /\ row.cred = registry[e].cred
           \/ /\ row.cred = Sealed(serial + 1, e, serial + 1)
              /\ \/ ~Connected(e) /\ row.id = serial + 1
                 \/ Connected(e) /\ row.id = registry[e].id
  BY SavedRow DEF Alike
<1> HIDE DEF e
<1>3. \A f \in Endpoint : Connected(f) =>
        /\ registry[f].id \in Nat \ {0} /\ registry[f].cred.seal \in Nat
        /\ registry[f].cred.pin \in Nat
        /\ registry[f].id <= serial /\ registry[f].cred.seal <= serial /\ registry[f].cred.pin <= serial
  BY NumbersOfRows DEF NumbersAreUnique
<1>4. \A f \in Endpoint : registry'[f] = IF f = e THEN row ELSE registry[f]
  BY <1>1, <1>2, Shape
<1>5. row.id \in Nat \ {0}
  BY DEF Row
<1>6. \/ Connected(e) /\ row.id = registry[e].id /\ row.cred = registry[e].cred
      \/ /\ row.cred.seal = serial + 1 /\ row.cred.pin = serial + 1
         /\ \/ row.id = serial + 1 /\ ~Connected(e)
            \/ row.id = registry[e].id /\ Connected(e)
  BY <1>2 DEF Sealed
<1>7. RowsAdvance
  <2> SUFFICES ASSUME NEW f \in Endpoint, Connected(f)'
               PROVE  \/ registry'[f].id > serial
                      \/ \E g \in Endpoint :
                            /\ Connected(g) /\ registry[g].id = registry'[f].id
                            /\ \/ g = f /\ registry'[f].cred = registry[g].cred
                               \/ /\ registry'[f].cred.seal > registry[g].cred.seal
                                  /\ product = "proxmox" => registry'[f].cred.pin >= registry[g].cred.pin
    BY DEF RowsAdvance
  <2>1. CASE f # e
    BY <1>4, <2>1 DEF Connected
  <2>2. CASE f = e
    BY <1>1, <1>3, <1>4, <1>6, <2>2
  <2> QED BY <2>1, <2>2
<1>8. \A f \in Endpoint : Connected(f)' =>
        /\ registry'[f].id <= serial' /\ registry'[f].cred.seal <= serial'
        /\ registry'[f].cred.pin <= serial'
  BY <1>1, <1>3, <1>4, <1>6 DEF Connected
<1>9. \A f, g \in Endpoint : Connected(f)' /\ registry'[f].id = registry'[g].id => f = g
  BY <1>1, <1>3, <1>4, <1>5, <1>6 DEF Connected, NumbersAreUnique
<1> QED BY <1>7, <1>8, <1>9 DEF NumbersAreUnique

LEMMA ConnectionNumbers ==
    ASSUME CredTypes, NumbersAreUnique, PendingSucceeds, NEW t \in tests, SaveConnection(t)
    PROVE  RowsAdvance /\ NumbersAreUnique'
<1> DEFINE old == registry[t.from]
<1>1. /\ t \in Test /\ t.from \in Endpoint /\ t.to \in Endpoint
      /\ Connected(t.from) /\ old.id = t.id /\ old.cred.seal = t.seal
      /\ t.to # t.from => ~Connected(t.to)
  BY ConnectionRow
<1>2. PICK row \in Row :
        /\ registry' = [e \in Endpoint |-> IF e = t.to THEN row
                                           ELSE IF e = t.from THEN NoRow ELSE registry[e]]
        /\ row.id = old.id /\ row.cred = t.cred
  BY ConnectionRow
<1>3. \A f \in Endpoint : Connected(f) =>
        /\ registry[f].id \in Nat \ {0} /\ registry[f].cred.seal \in Nat
        /\ registry[f].cred.pin \in Nat
        /\ registry[f].id <= serial /\ registry[f].cred.seal <= serial /\ registry[f].cred.pin <= serial
  BY NumbersOfRows DEF NumbersAreUnique
<1>4. t.seal < t.cred.seal /\ t.cred.seal <= serial /\ t.cred.pin <= serial
      /\ old.cred.pin <= t.cred.pin
  BY <1>1 DEF PendingSucceeds, Succeeds
<1>5. t.seal \in Nat /\ t.cred.seal \in Nat /\ t.cred.pin \in Nat
  <2>1. t.cred \in Credential /\ t.seal \in Nat
    BY <1>1 DEF Test
  <2> QED BY <2>1 DEF Credential
<1>6. serial' = serial /\ serial \in Nat
  BY DEF SaveConnection, CredTypes
<1>7. \A e \in Endpoint : Connected(e)' =>
        \/ e = t.to /\ registry'[e].id = old.id /\ registry'[e].cred = t.cred
        \/ e # t.to /\ e # t.from /\ registry'[e] = registry[e] /\ Connected(e)
  BY <1>2 DEF Connected, NoRow
<1> HIDE DEF old
<1>8. RowsAdvance
  <2> SUFFICES ASSUME NEW f \in Endpoint, Connected(f)'
               PROVE  \E g \in Endpoint :
                            /\ Connected(g) /\ registry[g].id = registry'[f].id
                            /\ \/ g = f /\ registry'[f].cred = registry[g].cred
                               \/ /\ registry'[f].cred.seal > registry[g].cred.seal
                                  /\ product = "proxmox" => registry'[f].cred.pin >= registry[g].cred.pin
    BY DEF RowsAdvance
  <2>1. CASE f = t.to
    <3>1. /\ registry[t.from].id = registry'[f].id
          /\ registry'[f].cred.seal > registry[t.from].cred.seal
          /\ registry'[f].cred.pin >= registry[t.from].cred.pin
      BY <1>1, <1>3, <1>4, <1>5, <1>7, <2>1 DEF old
    <3> QED BY <1>1, <3>1
  <2>2. CASE f # t.to
    BY <1>7, <2>2
  <2> QED BY <2>1, <2>2
<1>9. \A f \in Endpoint : Connected(f)' =>
        /\ registry'[f].id <= serial' /\ registry'[f].cred.seal <= serial'
        /\ registry'[f].cred.pin <= serial'
  BY <1>1, <1>3, <1>4, <1>6, <1>7 DEF old
<1>10. \A f, g \in Endpoint : Connected(f)' /\ registry'[f].id = registry'[g].id => f = g
  <2> SUFFICES ASSUME NEW f \in Endpoint, NEW g \in Endpoint,
                      Connected(f)', registry'[f].id = registry'[g].id
               PROVE  f = g
    OBVIOUS
  <2>1. Connected(g)'
    BY DEF Connected
  <2> QED BY <1>1, <1>7, <2>1 DEF NumbersAreUnique, old
<1> QED BY <1>8, <1>9, <1>10 DEF NumbersAreUnique

LEMMA ApprovedNumbers ==
    ASSUME CredTypes, NumbersAreUnique, PendingSucceeds, NEW a \in Admin, ReplaceProxmoxCredential(a)
    PROVE  RowsAdvance /\ NumbersAreUnique'
<1> DEFINE read(e) == /\ Connected(e) /\ registry[e].id = asked[a].id
                      /\ registry[e].cred.seal = asked[a].seal
<1>1. asked[a] \in Reapproval /\ asked[a].at = "reapproving"
  BY ApprovedRow DEF ReplaceProxmoxCredential
<1>2. \A e \in Endpoint :
        /\ ~read(e) => registry'[e] = registry[e]
        /\ read(e) => registry'[e].id = registry[e].id /\ registry'[e].cred = asked[a].cred
  BY ApprovedRow
<1>3. \A f \in Endpoint : Connected(f) =>
        /\ registry[f].id \in Nat \ {0} /\ registry[f].cred.seal \in Nat
        /\ registry[f].cred.pin \in Nat
        /\ registry[f].id <= serial /\ registry[f].cred.seal <= serial /\ registry[f].cred.pin <= serial
  BY NumbersOfRows DEF NumbersAreUnique
<1>4. Succeeds(asked[a])
  BY <1>1 DEF PendingSucceeds
<1>5. asked[a].seal \in Nat /\ asked[a].cred.seal \in Nat /\ asked[a].cred.pin \in Nat
  <2>1. asked[a].cred \in Credential /\ asked[a].seal \in Nat
    BY <1>1 DEF Reapproval
  <2> QED BY <2>1 DEF Credential
<1>6. serial' = serial /\ serial \in Nat
  BY DEF ReplaceProxmoxCredential, CredTypes
<1>7. \A e \in Endpoint : read(e) =>
        /\ asked[a].cred.seal > registry[e].cred.seal
        /\ asked[a].cred.pin >= registry[e].cred.pin
        /\ asked[a].cred.seal <= serial /\ asked[a].cred.pin <= serial
  BY <1>3, <1>4, <1>5 DEF Succeeds
<1>8. \A e \in Endpoint : /\ registry'[e].id = registry[e].id
                          /\ \/ registry'[e] = registry[e]
                             \/ read(e) /\ registry'[e].cred = asked[a].cred
  BY <1>2
<1> HIDE DEF read
<1>9. RowsAdvance
  <2> SUFFICES ASSUME NEW f \in Endpoint, Connected(f)'
               PROVE  /\ Connected(f) /\ registry[f].id = registry'[f].id
                      /\ \/ registry'[f].cred = registry[f].cred
                         \/ /\ registry'[f].cred.seal > registry[f].cred.seal
                            /\ product = "proxmox" => registry'[f].cred.pin >= registry[f].cred.pin
    BY DEF RowsAdvance
  <2> QED BY <1>7, <1>8 DEF Connected
<1>10. \A f \in Endpoint : Connected(f)' =>
        /\ registry'[f].id <= serial' /\ registry'[f].cred.seal <= serial'
        /\ registry'[f].cred.pin <= serial'
  BY <1>3, <1>6, <1>7, <1>8 DEF Connected
<1>11. \A f, g \in Endpoint : Connected(f)' /\ registry'[f].id = registry'[g].id => f = g
  BY <1>8 DEF NumbersAreUnique, Connected
<1> QED BY SMTT(40), <1>9, <1>10, <1>11 DEF NumbersAreUnique

\* Nothing else writes a row.
LEMMA NumbersStep ==
    ASSUME CredTypes, NumbersAreUnique, PendingSucceeds, AccountsAreManaged, CredNext
    PROVE  /\ RowsAdvance /\ NumbersAreUnique'
           /\ serial' \in {serial, serial + 1}
           /\ \/ RowsStay /\ OnlyDeletedGo
              \/ \E a \in Admin : Persist(a) \/ PersistLost(a) \/ ReplaceProxmoxCredential(a)
              \/ \E t \in tests : SaveConnection(t)
<1>1. serial \in Nat
  BY DEF CredTypes
<1>2. CASE \E a \in Admin : Persist(a) \/ PersistLost(a)
  BY SMTT(40), <1>2, SavedNumbers, SavedRow DEF Persist, PersistLost
<1>3. CASE \E a \in Admin : ReplaceProxmoxCredential(a)
  BY <1>3, ApprovedNumbers DEF ReplaceProxmoxCredential
<1>4. CASE \E t \in tests : SaveConnection(t)
  BY <1>4, ConnectionNumbers DEF SaveConnection
<1>5. CASE \/ \E e \in Endpoint : DeleteConnector(e) \/ Lease(e) \/ SetRowStatus(e)
           \/ \E a \in Admin : SuspendForRemoval(a) \/ DeleteRemoved(a)
  <2>1. RowsStay /\ OnlyDeletedGo
    BY SMTT(40), <1>5, RowsStaySteps
  <2>2. serial' = serial
    BY <1>5 DEF DeleteConnector, Lease, SetRowStatus, SuspendForRemoval, DeleteRemoved
  <2> QED BY <1>1, <2>1, <2>2, RowsStayNumbers
<1>6. CASE \/ \E e \in Endpoint : Previews(e)
           \/ \E e \in Endpoint, a \in Admin : ReapproveCertificate(a, e) \/ RemovalCredential(a, e)
           \/ \E e \in Endpoint, to \in Endpoint : TestConnection(e, to)
           \/ \E a \in Admin : \/ Imports(a) \/ Forgets(a) \/ Provision(a) \/ ProvisionBroken(a)
                               \/ Undo(a) \/ RemoveManaged(a)
           \/ ReceiptExpires
  <2>1. UNCHANGED registry /\ serial' \in {serial, serial + 1}
    <3>1. CASE \E e \in Endpoint : Previews(e)
      BY <3>1, PreviewShape
    <3>2. CASE \E e \in Endpoint, a \in Admin : ReapproveCertificate(a, e) \/ RemovalCredential(a, e)
      BY <3>2 DEF ReapproveCertificate, RemovalCredential
    <3>3. CASE \E e \in Endpoint, to \in Endpoint : TestConnection(e, to)
      BY <3>3 DEF TestConnection
    <3>4. CASE \E a \in Admin : Imports(a)
      BY <3>4, ImportsBegin DEF BeginImport
    <3>5. CASE \E a \in Admin : Forgets(a) \/ Provision(a) \/ ProvisionBroken(a)
      BY <3>5, ForgetShape, ProvisionShape
    <3>6. CASE (\E a \in Admin : Undo(a) \/ RemoveManaged(a)) \/ ReceiptExpires
      BY <3>6 DEF Undo, RemoveManaged, ReceiptExpires
    <3> QED BY <1>6, <3>1, <3>2, <3>3, <3>4, <3>5, <3>6
  <2>2. RowsStay /\ OnlyDeletedGo /\ serial' >= serial /\ serial' \in Nat
    BY <1>1, <2>1, UntouchedRows
  <2> QED BY <2>1, <2>2, RowsStayNumbers
<1> QED BY <1>2, <1>3, <1>4, <1>5, <1>6, CredCases
\* Succeeds of the rows after the step, for what was read before it.
WillSucceed(p) ==
    /\ p.id <= serial' /\ p.seal < p.cred.seal /\ p.cred.seal <= serial' /\ p.cred.pin <= serial'
    /\ \A f \in Endpoint : registry'[f].id = p.id =>
          /\ p.seal <= registry'[f].cred.seal
          /\ p.seal = registry'[f].cred.seal => registry'[f].cred.pin <= p.cred.pin

\* What was read before the step, and still succeeds, does so after it.
LEMMA SucceedsStays ==
    ASSUME CredTypes, CredTypes', RowsAdvance, serial' \in {serial, serial + 1},
           NEW p, p.id \in Nat \ {0}, p.seal \in Nat, p.cred \in Credential, Succeeds(p)
    PROVE  /\ WillSucceed(p)
           /\ \A f \in Endpoint :
                registry'[f].id = p.id /\ registry'[f].cred.seal = p.seal =>
                    /\ registry[f].id = p.id /\ registry[f].cred.seal = p.seal
<1>1. /\ p.cred.seal \in Nat /\ p.cred.pin \in Nat
      /\ serial \in Nat /\ serial' \in Nat /\ serial <= serial'
  BY DEF Credential, CredTypes
<1>2. p.id <= serial /\ p.seal < p.cred.seal /\ p.cred.seal <= serial /\ p.cred.pin <= serial
  BY DEF Succeeds
<1>3. ASSUME NEW f \in Endpoint, registry'[f].id = p.id
      PROVE  /\ p.seal <= registry'[f].cred.seal
             /\ p.seal = registry'[f].cred.seal =>
                  /\ registry'[f].cred.pin <= p.cred.pin
                  /\ registry[f].id = p.id /\ registry[f].cred.seal = p.seal
  <2>1. Connected(f)'
    BY <1>3 DEF Connected
  <2>2. registry'[f].cred.seal \in Nat
    <3>1. registry'[f] \in Row
      BY <2>1 DEF CredTypes, Connected, NoRow
    <3>2. registry'[f].cred \in Credential
      BY <3>1 DEF Row
    <3> QED BY <3>2 DEF Credential
  <2>3. ~(registry'[f].id > serial)
    BY <1>1, <1>2, <1>3
  <2>4. PICK g \in Endpoint :
          /\ Connected(g) /\ registry[g].id = registry'[f].id
          /\ \/ g = f /\ registry'[f].cred = registry[g].cred
             \/ registry'[f].cred.seal > registry[g].cred.seal
    BY <2>1, <2>3 DEF RowsAdvance
  <2>5. /\ p.seal <= registry[g].cred.seal
        /\ p.seal = registry[g].cred.seal => registry[g].cred.pin <= p.cred.pin
        /\ registry[g].cred.seal \in Nat
    BY <1>3, <2>4, NumbersOfRows DEF Succeeds
  <2>6. CASE g = f /\ registry'[f].cred = registry[g].cred
    BY <1>3, <2>4, <2>5, <2>6
  <2>7. CASE registry'[f].cred.seal > registry[g].cred.seal
    BY <2>2, <2>5, <2>7
  <2> QED BY <2>4, <2>6, <2>7
<1>4. WillSucceed(p)
  BY <1>1, <1>2, <1>3 DEF WillSucceed
<1> QED BY <1>3, <1>4

\* A request that is not an approval, or is one since before.
LEMMA ApprovalsStay ==
    ASSUME CredTypes, CredTypes', PendingSucceeds, RowsAdvance, serial' \in {serial, serial + 1},
           NEW b \in Admin, asked'[b] = asked[b], asked[b].at = "reapproving"
    PROVE  /\ WillSucceed(asked[b])
           /\ \A f \in Endpoint :
                registry'[f].id = asked[b].id /\ registry'[f].cred.seal = asked[b].seal
                => asked[b].cred.for = f
<1> DEFINE p == asked[b]
<1>1. p \in Reapproval
  BY Shape
<1>2. p.id \in Nat \ {0} /\ p.seal \in Nat /\ p.cred \in Credential
  BY <1>1 DEF Reapproval
<1>3. /\ Succeeds(p)
      /\ \A f \in Endpoint : registry[f].id = p.id /\ registry[f].cred.seal = p.seal => p.cred.for = f
  BY DEF PendingSucceeds
<1> HIDE DEF p
<1>4. /\ WillSucceed(p)
      /\ \A f \in Endpoint :
           registry'[f].id = p.id /\ registry'[f].cred.seal = p.seal =>
               /\ registry[f].id = p.id /\ registry[f].cred.seal = p.seal
  BY <1>2, <1>3, SucceedsStays
<1> QED BY <1>3, <1>4 DEF p

\* The tests and the approvals that a step leaves.
LEMMA PendingFrame ==
    ASSUME CredTypes, CredTypes', PendingSucceeds, RowsAdvance, serial' \in {serial, serial + 1},
           \A t \in tests' \ tests : WillSucceed(t) /\ t.cred.for = t.to,
           \A b \in Admin :
               \/ asked'[b] = asked[b]
               \/ asked'[b].at # "reapproving"
               \/ /\ WillSucceed(asked'[b])
                  /\ \A f \in Endpoint :
                        registry'[f].id = asked'[b].id /\ registry'[f].cred.seal = asked'[b].seal
                        => asked'[b].cred.for = f
    PROVE  PendingSucceeds'
<1>1. ASSUME NEW t \in tests' PROVE WillSucceed(t) /\ t.cred.for = t.to
  <2>1. CASE t \in tests
    <3>1. t.id \in Nat \ {0} /\ t.seal \in Nat /\ t.cred \in Credential
      BY <2>1 DEF CredTypes, Test
    <3>2. Succeeds(t) /\ t.cred.for = t.to
      BY <2>1 DEF PendingSucceeds
    <3> QED BY <3>1, <3>2, SucceedsStays
  <2> QED BY <2>1
<1>2. ASSUME NEW b \in Admin, asked'[b].at = "reapproving"
      PROVE  /\ WillSucceed(asked'[b])
             /\ \A f \in Endpoint :
                  registry'[f].id = asked'[b].id /\ registry'[f].cred.seal = asked'[b].seal
                  => asked'[b].cred.for = f
  <2>1. CASE asked'[b] = asked[b]
    <3>1. asked[b].at = "reapproving"
      BY <1>2, <2>1
    <3>2. /\ WillSucceed(asked[b])
          /\ \A f \in Endpoint :
               registry'[f].id = asked[b].id /\ registry'[f].cred.seal = asked[b].seal
               => asked[b].cred.for = f
      BY <2>1, <3>1, ApprovalsStay
    <3> QED BY <2>1, <3>2
  <2>2. CASE asked'[b] # asked[b]
    BY <1>2, <2>2
  <2> QED BY <2>1, <2>2
<1>3. \A t \in tests' : Succeeds(t)'
  BY <1>1 DEF Succeeds, WillSucceed
<1>4. \A b \in Admin : asked'[b].at = "reapproving" => Succeeds(asked[b])'
  BY <1>2 DEF Succeeds, WillSucceed
<1> QED BY <1>1, <1>2, <1>3, <1>4 DEF PendingSucceeds

LEMMA PendingStep ==
    ASSUME CredTypes, CredTypes', NumbersAreUnique, PendingSucceeds, AccountsAreManaged, CredNext
    PROVE  PendingSucceeds'
<1>1. RowsAdvance /\ serial' \in {serial, serial + 1} /\ serial \in Nat
  BY NumbersStep DEF CredTypes
<1>2. CASE \E e, to \in Endpoint : TestConnection(e, to)
  <2>1. PICK e \in Endpoint, to \in Endpoint : TestConnection(e, to)
    BY <1>2
  <2>2. PICK t \in Test :
          /\ tests' = tests \cup {t}
          /\ t.id = registry[e].id /\ t.to = to /\ t.seal = registry[e].cred.seal
          /\ t.cred.seal = serial + 1 /\ t.cred.for = to
          /\ t.cred.pin \in {registry[e].cred.pin, serial + 1}
    BY <2>1, TestShape
  <2>3. /\ Connected(e) /\ serial' = serial + 1 /\ UNCHANGED <<registry, asked>>
    BY <2>1, TestShape
  <2>4. /\ registry[e].id <= serial /\ registry[e].cred.seal <= serial /\ registry[e].cred.pin <= serial
        /\ \A f \in Endpoint : registry[f].id = registry[e].id => f = e
    BY <2>3 DEF NumbersAreUnique
  <2>5. /\ registry[e].id \in Nat /\ registry[e].cred.seal \in Nat /\ registry[e].cred.pin \in Nat
    BY <2>3, NumbersOfRows
  <2>6. WillSucceed(t)
    BY <1>1, <2>2, <2>3, <2>4, <2>5 DEF WillSucceed
  <2> QED BY <1>1, <2>2, <2>3, <2>6, PendingFrame
<1>3. CASE \E a \in Admin, e \in Endpoint : ReapproveCertificate(a, e)
  <2>1. PICK a \in Admin, e \in Endpoint : ReapproveCertificate(a, e)
    BY <1>3
  <2>2. PICK p \in Reapproval :
          /\ asked' = [asked EXCEPT ![a] = p]
          /\ p.id = registry[e].id /\ p.seal = registry[e].cred.seal
          /\ p.cred = Sealed(serial + 1, e, serial + 1)
    BY <2>1, BeginShape
  <2>3. Connected(e) /\ serial' = serial + 1 /\ UNCHANGED <<registry, tests>>
    BY <2>1 DEF ReapproveCertificate
  <2>4. /\ registry[e].id <= serial /\ registry[e].cred.seal <= serial /\ registry[e].cred.pin <= serial
        /\ \A f \in Endpoint : registry[f].id = registry[e].id => f = e
    BY <2>3 DEF NumbersAreUnique
  <2>5. /\ registry[e].id \in Nat /\ registry[e].cred.seal \in Nat /\ registry[e].cred.pin \in Nat
    BY <2>3, NumbersOfRows
  <2>6. p.cred.seal = serial + 1 /\ p.cred.pin = serial + 1 /\ p.cred.for = e
    BY <2>2 DEF Sealed
  <2>7. /\ WillSucceed(p)
        /\ \A f \in Endpoint :
             registry'[f].id = p.id /\ registry'[f].cred.seal = p.seal => p.cred.for = f
    BY <1>1, <2>2, <2>3, <2>4, <2>5, <2>6 DEF WillSucceed
  <2>8. \A b \in Admin : asked'[b] = IF b = a THEN p ELSE asked[b]
    BY <2>2, Shape
  <2> QED BY <1>1, <2>3, <2>7, <2>8, PendingFrame
<1>4. ASSUME tests' \subseteq tests, NEW a \in Admin, NEW to, asked' = [asked EXCEPT ![a] = to],
             to.at # "reapproving"
      PROVE  PendingSucceeds'
  <2>1. \A b \in Admin : asked'[b] = asked[b] \/ asked'[b].at # "reapproving"
    BY <1>4, Shape
  <2> QED BY <1>1, <1>4, <2>1, PendingFrame
<1>5. ASSUME tests' \subseteq tests, UNCHANGED asked PROVE PendingSucceeds'
  BY <1>1, <1>5, PendingFrame
<1>6. OpIdle.at # "reapproving" /\ (\A to \in Import \cup Removal : to.at # "reapproving")
  BY DEF OpIdle, Import, Removal
<1>7. ASSUME NEW e \in Endpoint, Previews(e) \/ DeleteConnector(e) \/ SetRowStatus(e) \/ Lease(e)
      PROVE  PendingSucceeds'
  BY <1>5, <1>7, PreviewShape DEF DeleteConnector, SetRowStatus, Lease
<1>8. ASSUME NEW e \in Endpoint, NEW a \in Admin, RemovalCredential(a, e) PROVE PendingSucceeds'
  <2>1. registry[e].managed \in Account
    BY <1>8, Shape DEF RemovalCredential, Managed, AccountsAreManaged, Row
  <2>2. PICK to \in Removal : asked' = [asked EXCEPT ![a] = to]
    BY <1>8, <2>1, BeginShape
  <2>3. UNCHANGED tests
    BY <1>8 DEF RemovalCredential
  <2> QED BY <1>4, <1>6, <2>2, <2>3
<1>9. ASSUME NEW a \in Admin, Imports(a) PROVE PendingSucceeds'
  <2>1. PICK r \in receipts : BeginImport(a, r)
    BY <1>9, ImportsBegin
  <2>2. PICK to \in Import : asked' = [asked EXCEPT ![a] = to]
    BY <2>1, BeginShape
  <2>3. UNCHANGED tests
    BY <2>1 DEF BeginImport
  <2> QED BY <1>4, <1>6, <2>2, <2>3
<1>10. ASSUME NEW a \in Admin, Forgets(a) \/ Provision(a) \/ ProvisionBroken(a) PROVE PendingSucceeds'
  <2>1. PICK to \in Import \cup {OpIdle} : asked' = [asked EXCEPT ![a] = to]
    BY <1>10, ForgetShape, ProvisionShape
  <2>2. UNCHANGED tests
    BY <1>10, ForgetShape, ProvisionShape
  <2> QED BY <1>4, <1>6, <2>1, <2>2
<1>11. ASSUME NEW a \in Admin, Persist(a) \/ PersistLost(a) PROVE PendingSucceeds'
  <2>1. Saved(a) /\ UNCHANGED tests
    BY <1>11 DEF Persist, PersistLost, Saved
  <2>2. asked[a] \in Import
    BY <2>1, SavedRow
  <2>3. PICK to \in Import \cup {OpIdle} : asked' = [asked EXCEPT ![a] = to]
    BY <1>11, <2>2, EndShape, AfterFailureShape DEF Persist, PersistLost
  <2> QED BY <1>4, <1>6, <2>1, <2>3
<1>12. ASSUME NEW a \in Admin, Undo(a) \/ ReplaceProxmoxCredential(a) PROVE PendingSucceeds'
  <2>1. asked' = [asked EXCEPT ![a] = OpIdle] /\ UNCHANGED tests
    BY <1>12, EndShape DEF Undo, ReplaceProxmoxCredential, Doing
  <2> QED BY <1>4, <1>6, <2>1
<1>13. ASSUME NEW a \in Admin, SuspendForRemoval(a) \/ RemoveManaged(a) \/ DeleteRemoved(a)
       PROVE  PendingSucceeds'
  <2>1. PICK to \in Removal \cup {OpIdle} : asked' = [asked EXCEPT ![a] = to]
    BY <1>13, RemovalShape
  <2>2. UNCHANGED tests
    BY <1>13 DEF SuspendForRemoval, RemoveManaged, DeleteRemoved
  <2> QED BY <1>4, <1>6, <2>1, <2>2
<1>14. ASSUME NEW t \in tests, SaveConnection(t) PROVE PendingSucceeds'
  BY <1>5, <1>14 DEF SaveConnection
<1>15. CASE ReceiptExpires
  BY <1>5, <1>15 DEF ReceiptExpires
<1> QED BY <1>2, <1>3, <1>7, <1>8, <1>9, <1>10, <1>11, <1>12, <1>13, <1>14, <1>15, CredCases
----------------------------------------------------------------------------
(* What a step keeps of the accounts *)

\* Every row has the account one had, and looks for it where that one did.
RowsKeep ==
    \A e \in Endpoint : Connected(e)' =>
        \E f \in Endpoint :
            /\ Connected(f) /\ registry'[e].id = registry[f].id
            /\ registry'[e].mgmt = registry[f].mgmt /\ registry'[e].managed = registry[f].managed
            /\ Managed(f) => HomeOf(e)' = HomeOf(f)

\* Every receipt is one there was, or of a row.
ReceiptsKeep ==
    \A r \in receipts' :
        \/ r \in receipts
        \/ /\ ReceiptFits(r)
           /\ ~r.bootstrap /\ r.managed # NoAccount =>
                \E e \in Endpoint : Connected(e) /\ registry[e].managed = r.managed

\* Every import goes on with its account, or begins.
ImportGoesOn(b) ==
    \/ /\ b \in Importing
       /\ asked'[b].receipt = asked[b].receipt /\ asked'[b].managed = asked[b].managed
       /\ \/ asked'[b].at = asked[b].at
          \/ /\ asked[b].at = "persisting" /\ asked'[b].at = "undoing"
             /\ asked[b].receipt.bootstrap
    \/ /\ asked'[b].receipt \in receipts
       /\ asked'[b].managed = asked'[b].receipt.managed
       /\ asked'[b].at = IF asked'[b].receipt.bootstrap THEN "provisioning" ELSE "persisting"

ImportsKeep == \A b \in Importing' : ImportGoesOn(b)

\* Every removal goes on with its account, and tells of it before the deletion,
\* or begins with that of a row.
RemovalGoesOn(b) ==
    \/ /\ b \in Removing
       /\ asked'[b].id = asked[b].id /\ asked'[b].managed = asked[b].managed
       /\ asked'[b].where = asked[b].where
       /\ asked'[b].at # "deleting" => asked[b].at # "deleting"
       /\ asked'[b].at = "deleting" => asked[b].at = "deleting" \/ asked[b].managed \in told'
    \/ /\ product = "proxmox" /\ asked'[b].at = "suspending"
       /\ \E e \in Endpoint :
             /\ Managed(e) /\ asked'[b].id = registry[e].id
             /\ asked'[b].managed = registry[e].managed /\ asked'[b].where = HomeOf(e)

RemovalsKeep == \A b \in Removing' : RemovalGoesOn(b)

LEMMA RowsStayKeep ==
    ASSUME CredTypes, RowsStay
    PROVE  RowsKeep
<1> SUFFICES ASSUME NEW e \in Endpoint, Connected(e)'
             PROVE  /\ Connected(e) /\ registry'[e].id = registry[e].id
                    /\ registry'[e].mgmt = registry[e].mgmt
                    /\ registry'[e].managed = registry[e].managed
                    /\ HomeOf(e)' = HomeOf(e)
  BY DEF RowsKeep
<1>1. Connected(e) /\ Alike(registry'[e], registry[e])
  BY DEF RowsStay, Connected, NoRow
<1> QED BY <1>1 DEF Alike, HomeOf

LEMMA ConnectionKeeps ==
    ASSUME CredTypes, NEW t \in tests, SaveConnection(t)
    PROVE  RowsKeep
<1> DEFINE old == registry[t.from]
<1>1. /\ t.from \in Endpoint /\ t.to \in Endpoint /\ Connected(t.from)
      /\ t.to # t.from => ~Connected(t.to)
  BY ConnectionRow
<1>2. PICK row \in Row :
        /\ registry' = [e \in Endpoint |-> IF e = t.to THEN row
                                           ELSE IF e = t.from THEN NoRow ELSE registry[e]]
        /\ row.id = old.id /\ row.mgmt = old.mgmt /\ row.managed = old.managed
        /\ row.cleanup = Cleanup(t)
  BY ConnectionRow
<1> SUFFICES ASSUME NEW e \in Endpoint, Connected(e)'
             PROVE  \E f \in Endpoint :
                        /\ Connected(f) /\ registry'[e].id = registry[f].id
                        /\ registry'[e].mgmt = registry[f].mgmt
                        /\ registry'[e].managed = registry[f].managed
                        /\ Managed(f) => HomeOf(e)' = HomeOf(f)
  BY DEF RowsKeep
<1>3. CASE e = t.to
  <2>1. registry'[e] = row
    BY <1>2, <1>3
  <2>2. Managed(t.from) => HomeOf(e)' = HomeOf(t.from)
    <3>1. HomeOf(e)' = IF Cleanup(t) = NoEndpoint THEN e ELSE Cleanup(t)
      BY <1>2, <2>1 DEF HomeOf
    <3>2. CASE Moves(t)
      BY <1>1, <3>1, <3>2, NamesAndNumbers DEF Moves, Cleanup, HomeOf
    <3>3. CASE ~Moves(t)
      BY <1>3, <3>1, <3>3 DEF Moves, Cleanup, HomeOf
    <3> QED BY <3>2, <3>3
  <2> QED BY <1>1, <1>2, <2>1, <2>2
<1>4. CASE e # t.to
  <2>1. registry'[e] = registry[e] /\ Connected(e)
    BY <1>2, <1>4 DEF Connected, NoRow
  <2>2. HomeOf(e)' = HomeOf(e)
    BY <2>1 DEF HomeOf
  <2> QED BY <2>1, <2>2
<1> QED BY <1>3, <1>4

LEMMA ApprovalKeeps ==
    ASSUME CredTypes, NEW a \in Admin, ReplaceProxmoxCredential(a)
    PROVE  RowsKeep
<1> SUFFICES ASSUME NEW e \in Endpoint, Connected(e)'
             PROVE  /\ Connected(e) /\ registry'[e].id = registry[e].id
                    /\ registry'[e].mgmt = registry[e].mgmt
                    /\ registry'[e].managed = registry[e].managed
                    /\ HomeOf(e)' = HomeOf(e)
  BY DEF RowsKeep
<1>1. \/ registry'[e] = registry[e]
      \/ /\ registry'[e].id = registry[e].id /\ registry'[e].mgmt = registry[e].mgmt
         /\ registry'[e].managed = registry[e].managed /\ registry'[e].cleanup = registry[e].cleanup
  BY ApprovedRow
<1> QED BY <1>1 DEF Connected, HomeOf

\* Who is not changed goes on.
LEMMA OthersGoOn ==
    ASSUME CredTypes, NEW a \in Admin, NEW to, asked' = [asked EXCEPT ![a] = to]
    PROVE  /\ \A b \in Importing' : b # a => ImportGoesOn(b)
           /\ \A b \in Removing' : b # a => RemovalGoesOn(b)
           /\ asked'[a] = to
           /\ a \in Importing' => to.at \in {"provisioning", "persisting", "undoing"}
           /\ a \in Removing' => to.at \in {"suspending", "removing", "deleting"}
<1>1. \A b \in Admin : asked'[b] = IF b = a THEN to ELSE asked[b]
  BY Shape
<1>2. \A b \in Importing' : b \in Admin /\ asked'[b].at \in {"provisioning", "persisting", "undoing"}
  BY DEF Importing
<1>3. \A b \in Removing' : b \in Admin /\ asked'[b].at \in {"suspending", "removing", "deleting"}
  BY DEF Removing
<1>4. ASSUME NEW b \in Importing', b # a PROVE ImportGoesOn(b)
  <2>1. asked'[b] = asked[b] /\ b \in Importing
    BY <1>1, <1>2, <1>4 DEF Importing
  <2> QED BY <2>1 DEF ImportGoesOn
<1>5. ASSUME NEW b \in Removing', b # a PROVE RemovalGoesOn(b)
  <2>1. asked'[b] = asked[b] /\ b \in Removing
    BY <1>1, <1>3, <1>5 DEF Removing
  <2> QED BY <2>1 DEF RemovalGoesOn
<1> QED BY <1>1, <1>2, <1>3, <1>4, <1>5

LEMMA AllGoOn ==
    ASSUME UNCHANGED asked
    PROVE  ImportsKeep /\ RemovalsKeep
BY DEF ImportsKeep, RemovalsKeep, ImportGoesOn, RemovalGoesOn, Importing, Removing

LEMMA KeepStep ==
    ASSUME CredInv, CredNext
    PROVE  /\ product' = product /\ told \subseteq told'
           /\ ReceiptsKeep /\ RemovalsKeep
           /\ RowsKeep \/ \E a \in Admin : Persist(a) \/ PersistLost(a)
           /\ ImportsKeep \/ \E a \in Admin : Provision(a) \/ ProvisionBroken(a)
<1>0. /\ CredTypes /\ NumbersAreUnique /\ PendingSucceeds /\ AccountsAreManaged /\ HomesFit
      /\ RemovalsTell
  BY DEF CredInv
<1>1. RowsKeep \/ \E a \in Admin : Persist(a) \/ PersistLost(a)
  BY <1>0, NumbersStep, RowsStayKeep, ApprovalKeeps, ConnectionKeeps
<1>2. (receipts' \subseteq receipts) => ReceiptsKeep
  BY DEF ReceiptsKeep
<1> DEFINE Rest == /\ product' = product /\ told \subseteq told'
                   /\ ReceiptsKeep /\ RemovalsKeep
                   /\ ImportsKeep \/ \E a \in Admin : Provision(a) \/ ProvisionBroken(a)
<1>3. ASSUME NEW e \in Endpoint, Previews(e) PROVE Rest
  <2>1. UNCHANGED <<product, told, asked>>
    BY <1>0, <1>3, PreviewShape
  <2>2. ReceiptsKeep
    BY <1>0, <1>3, PreviewShape DEF ReceiptsKeep
  <2> QED BY <2>1, <2>2, AllGoOn
<1>4. ASSUME NEW e \in Endpoint, DeleteConnector(e) \/ SetRowStatus(e) \/ Lease(e) PROVE Rest
  <2>1. UNCHANGED <<product, told, asked, receipts>>
    BY <1>4 DEF DeleteConnector, SetRowStatus, Lease, Begin
  <2> QED BY <1>2, <2>1, AllGoOn
<1>5. ASSUME NEW e \in Endpoint, NEW a \in Admin, ReapproveCertificate(a, e) PROVE Rest
  <2>1. UNCHANGED <<product, told, receipts>>
    BY <1>5 DEF ReapproveCertificate, Begin
  <2>2. PICK to \in Reapproval : asked' = [asked EXCEPT ![a] = to]
    BY <1>0, <1>5, BeginShape
  <2>3. to.at = "reapproving"
    BY DEF Reapproval
  <2> QED BY <1>0, <1>2, <2>1, <2>2, <2>3, OthersGoOn DEF ImportsKeep, RemovalsKeep
<1>6. ASSUME NEW e \in Endpoint, NEW a \in Admin, RemovalCredential(a, e) PROVE Rest
  <2>1. UNCHANGED <<product, told, receipts>>
    BY <1>6 DEF RemovalCredential, Begin
  <2>2. product = "proxmox" /\ Managed(e)
    BY <1>6 DEF RemovalCredential
  <2>3. registry[e].managed \in Account
    BY <1>0, <2>2, Shape DEF Managed, AccountsAreManaged, Row
  <2>4. PICK to \in Removal :
          /\ asked' = [asked EXCEPT ![a] = to]
          /\ to.at = "suspending" /\ to.id = registry[e].id
          /\ to.managed = registry[e].managed /\ to.where = HomeOf(e)
    BY <1>0, <1>6, <2>3, BeginShape
  <2>5. ImportsKeep
    BY <1>0, <2>4, OthersGoOn DEF ImportsKeep
  <2>6. ASSUME NEW b \in Removing', b = a PROVE RemovalGoesOn(b)
    <3>1. asked'[b] = to
      BY <1>0, <2>4, <2>6, OthersGoOn
    <3> QED BY <2>2, <2>4, <3>1 DEF RemovalGoesOn
  <2>7. RemovalsKeep
    BY <1>0, <2>4, <2>6, OthersGoOn DEF RemovalsKeep
  <2> QED BY <1>2, <2>1, <2>5, <2>7
<1>7. ASSUME NEW e \in Endpoint, NEW to \in Endpoint, TestConnection(e, to) PROVE Rest
  BY <1>0, <1>2, <1>7, TestShape, AllGoOn
<1>8. ASSUME NEW a \in Admin, Imports(a) PROVE Rest
  <2>1. PICK r \in receipts : BeginImport(a, r)
    BY <1>8, ImportsBegin
  <2>2. UNCHANGED <<product, told, receipts>>
    BY <2>1 DEF BeginImport, Begin
  <2>3. PICK to \in Import :
          /\ asked' = [asked EXCEPT ![a] = to]
          /\ to.receipt = r /\ to.managed = r.managed
          /\ to.at = IF r.bootstrap THEN "provisioning" ELSE "persisting"
    BY <1>0, <2>1, BeginShape
  <2>4. RemovalsKeep
    BY <1>0, <2>3, OthersGoOn DEF RemovalsKeep
  <2>5. ASSUME NEW b \in Importing', b = a PROVE ImportGoesOn(b)
    <3>1. asked'[b] = to
      BY <1>0, <2>3, <2>5, OthersGoOn
    <3> QED BY <2>3, <3>1 DEF ImportGoesOn
  <2>6. ImportsKeep
    BY <1>0, <2>3, <2>5, OthersGoOn DEF ImportsKeep
  <2> QED BY <1>2, <2>2, <2>4, <2>6
\* A request that ends, or goes on to undo what it created.
<1>9. ASSUME NEW a \in Admin, NEW to \in Import \cup {OpIdle}, asked' = [asked EXCEPT ![a] = to],
             \/ to = OpIdle
             \/ /\ asked[a] \in Import /\ asked[a].at = "persisting" /\ asked[a].receipt.bootstrap
                /\ to.at = "undoing" /\ to.receipt = asked[a].receipt
                /\ to.managed = asked[a].managed
      PROVE  ImportsKeep /\ RemovalsKeep
  <2>1. to.at \in {"idle", "undoing"} /\ (to.at = "undoing" => to # OpIdle)
    BY <1>9 DEF OpIdle
  <2>2. RemovalsKeep
    BY <1>0, <1>9, <2>1, OthersGoOn DEF RemovalsKeep
  <2>3. ASSUME NEW b \in Importing', b = a PROVE ImportGoesOn(b)
    <3>1. asked'[b] = to /\ to.at = "undoing"
      BY ZenonT(60), <1>0, <1>9, <2>1, <2>3, OthersGoOn
    <3> QED BY <1>9, <2>1, <2>3, <3>1 DEF ImportGoesOn, Importing
  <2>4. ImportsKeep
    BY <1>0, <1>9, <2>3, OthersGoOn DEF ImportsKeep
  <2> QED BY <2>2, <2>4
<1>10. ASSUME NEW a \in Admin, Forgets(a) PROVE Rest
  <2>1. product' = product /\ told \subseteq told' /\ receipts' \subseteq receipts
    BY <1>0, <1>10, ForgetShape
  <2>2. PICK to \in Import \cup {OpIdle} :
          /\ asked' = [asked EXCEPT ![a] = to]
          /\ \/ to = OpIdle
             \/ /\ asked[a] \in Import /\ asked[a].at = "persisting" /\ asked[a].receipt.bootstrap
                /\ to.at = "undoing" /\ to.receipt = asked[a].receipt
                /\ to.managed = asked[a].managed
    BY <1>0, <1>10, ForgetShape
  <2> QED BY <1>2, <1>9, <2>1, <2>2
<1>11. ASSUME NEW a \in Admin, Persist(a) \/ PersistLost(a) PROVE Rest
  <2>1. Saved(a) /\ product' = product /\ told \subseteq told' /\ asked[a].at = "persisting"
    BY <1>11 DEF Persist, PersistLost, Saved
  <2>2. asked[a] \in Import
    BY <1>0, <2>1, SavedRow
  <2>3. receipts' \subseteq receipts
    BY <1>0, <1>11, <2>2, EndShape, AfterFailureShape DEF Persist, PersistLost
  <2>4. PICK to \in Import \cup {OpIdle} :
          /\ asked' = [asked EXCEPT ![a] = to]
          /\ \/ to = OpIdle
             \/ /\ asked[a].receipt.bootstrap
                /\ to.at = "undoing" /\ to.receipt = asked[a].receipt
                /\ to.managed = asked[a].managed
    BY <1>0, <1>11, <2>2, EndShape, AfterFailureShape DEF Persist, PersistLost
  <2> QED BY <1>2, <1>9, <2>1, <2>2, <2>3, <2>4
<1>12. ASSUME NEW a \in Admin, Undo(a) PROVE Rest
  <2>1. UNCHANGED <<product, told>> /\ EndOperation(a)
    BY <1>12 DEF Undo
  <2>2. asked' = [asked EXCEPT ![a] = OpIdle] /\ receipts' \subseteq receipts
    BY <1>0, <2>1, EndShape
  <2> QED BY <1>2, <1>9, <2>1, <2>2
<1>13. ASSUME NEW a \in Admin, ReplaceProxmoxCredential(a) PROVE Rest
  <2>1. UNCHANGED <<product, told, receipts>> /\ asked' = [asked EXCEPT ![a] = OpIdle]
    BY <1>13 DEF ReplaceProxmoxCredential, Doing
  <2> QED BY <1>2, <1>9, <2>1
<1>14. ASSUME NEW a \in Admin, Provision(a) \/ ProvisionBroken(a) PROVE Rest
  <2>1. UNCHANGED <<product, told>> /\ receipts' \subseteq receipts
    BY <1>0, <1>14, ProvisionShape
  <2>2. PICK to \in Import \cup {OpIdle} : asked' = [asked EXCEPT ![a] = to]
    BY <1>0, <1>14, ProvisionShape
  <2>3. to.at \notin {"suspending", "removing", "deleting"}
    BY DEF Import, OpIdle
  <2>4. RemovalsKeep
    BY <1>0, <2>2, <2>3, OthersGoOn DEF RemovalsKeep
  <2> QED BY <1>2, <1>14, <2>1, <2>4
<1>15. ASSUME NEW a \in Admin, SuspendForRemoval(a) \/ RemoveManaged(a) \/ DeleteRemoved(a)
       PROVE  Rest
  <2>1. UNCHANGED <<product, receipts>> /\ told \subseteq told'
    BY <1>15 DEF SuspendForRemoval, RemoveManaged, DeleteRemoved
  <2>2. PICK to \in Removal \cup {OpIdle} :
          /\ asked' = [asked EXCEPT ![a] = to]
          /\ \/ to = OpIdle
             \/ /\ to.id = asked[a].id /\ to.managed = asked[a].managed
                /\ to.where = asked[a].where
                /\ \/ SuspendForRemoval(a) /\ to.at = "removing"
                   \/ RemoveManaged(a) /\ to.at = "deleting"
    BY <1>0, <1>15, RemovalShape
  <2>3. to.at \in {"idle", "suspending", "removing", "deleting"} /\ (to = OpIdle => to.at = "idle")
    BY DEF Removal, OpIdle
  <2>4. ImportsKeep
    BY <1>0, <2>2, <2>3, OthersGoOn DEF ImportsKeep
  <2>5. ASSUME NEW b \in Removing', b = a PROVE RemovalGoesOn(b)
    <3>1. asked'[b] = to /\ to # OpIdle
      BY ZenonT(60), <1>0, <2>2, <2>3, <2>5, OthersGoOn
    <3>2. a \in Removing
      BY <1>0, <1>15, RemovalShape
    <3>3. CASE SuspendForRemoval(a) /\ to.at = "removing"
      BY <2>2, <2>5, <3>1, <3>2, <3>3 DEF RemovalGoesOn, SuspendForRemoval
    <3>4. CASE RemoveManaged(a) /\ to.at = "deleting"
      <4>1. account[asked[a].managed].home = asked[a].where
        BY <1>0, <3>2, <3>4 DEF HomesFit, RemoveManaged
      <4>2. asked[a].managed \in told'
        BY <3>4, <4>1 DEF RemoveManaged
      <4> QED BY <2>2, <2>5, <3>1, <3>2, <3>4, <4>2 DEF RemovalGoesOn
    <3> QED BY <2>2, <3>1, <3>3, <3>4
  <2>6. RemovalsKeep
    BY <1>0, <2>2, <2>5, OthersGoOn DEF RemovalsKeep
  <2> QED BY <1>2, <2>1, <2>4, <2>6
<1>16. ASSUME NEW t \in tests, SaveConnection(t) PROVE Rest
  <2>1. UNCHANGED <<product, told, asked, receipts>>
    BY <1>16 DEF SaveConnection
  <2> QED BY <1>2, <2>1, AllGoOn
<1>17. ASSUME ReceiptExpires PROVE Rest
  <2>1. UNCHANGED <<product, told, asked>> /\ receipts' \subseteq receipts
    BY <1>17 DEF ReceiptExpires
  <2>2. ReceiptsKeep /\ ImportsKeep /\ RemovalsKeep
    BY <1>2, <2>1, AllGoOn
  <2> QED BY <2>1, <2>2
<1>18. Rest
  <2> HIDE DEF Rest
  <2>1. CASE \E e \in Endpoint :
                 \/ Previews(e) \/ DeleteConnector(e) \/ SetRowStatus(e) \/ Lease(e)
                 \/ \E a \in Admin : ReapproveCertificate(a, e) \/ RemovalCredential(a, e)
                 \/ \E to \in Endpoint : TestConnection(e, to)
    BY <1>3, <1>4, <1>5, <1>6, <1>7, <2>1
  <2>2. CASE \E a \in Admin :
                 \/ Imports(a) \/ Forgets(a)
                 \/ Provision(a) \/ ProvisionBroken(a) \/ Persist(a) \/ PersistLost(a) \/ Undo(a)
                 \/ ReplaceProxmoxCredential(a) \/ SuspendForRemoval(a) \/ RemoveManaged(a)
                 \/ DeleteRemoved(a)
    BY <1>8, <1>10, <1>11, <1>12, <1>13, <1>14, <1>15, <2>2
  <2> QED BY <1>16, <1>17, <2>1, <2>2, CredCases
<1> QED BY <1>1, <1>18
----------------------------------------------------------------------------
(* Accounts are of installers, or of connectors *)

\* An import that goes on is managed as it was; one that begins, as its receipt.
LEMMA ImportsStayManaged ==
    ASSUME AccountsAreManaged, NEW b \in Admin, ImportGoesOn(b)
    PROVE  /\ ReceiptFits(asked'[b].receipt)
           /\ asked'[b].at # "persisting" => asked'[b].receipt.bootstrap
           /\ asked'[b].at # "provisioning" /\ asked'[b].receipt.bootstrap
                => asked'[b].managed # NoAccount
           /\ ~asked'[b].receipt.bootstrap => asked'[b].managed = asked'[b].receipt.managed
<1>1. CASE b \in Importing /\ asked'[b].receipt = asked[b].receipt
           /\ asked'[b].managed = asked[b].managed /\ asked'[b].at = asked[b].at
  BY <1>1 DEF AccountsAreManaged
<1>2. CASE b \in Importing /\ asked'[b].receipt = asked[b].receipt
           /\ asked'[b].managed = asked[b].managed /\ asked[b].at = "persisting"
           /\ asked'[b].at = "undoing" /\ asked[b].receipt.bootstrap
  BY <1>2 DEF AccountsAreManaged
<1>3. CASE asked'[b].receipt \in receipts /\ asked'[b].managed = asked'[b].receipt.managed
           /\ asked'[b].at = IF asked'[b].receipt.bootstrap THEN "provisioning" ELSE "persisting"
  BY <1>3 DEF AccountsAreManaged
<1> QED BY <1>1, <1>2, <1>3 DEF ImportGoesOn

\* A row that is written has the account of the import, or that of the row.
LEMMA RowsStayManaged ==
    ASSUME CredTypes, AccountsAreManaged, CredTypes',
           RowsKeep \/ \E a \in Admin : Persist(a) \/ PersistLost(a)
    PROVE  \A e \in Endpoint : Connected(e)' =>
              (registry'[e].mgmt = "managed" <=> registry'[e].managed # NoAccount)
<1>1. CASE RowsKeep
  BY <1>1 DEF RowsKeep, AccountsAreManaged, Managed
<1>2. ASSUME NEW a \in Admin, Saved(a), NEW e \in Endpoint, Connected(e)'
      PROVE  registry'[e].mgmt = "managed" <=> registry'[e].managed # NoAccount
  <2> DEFINE r == asked[a].receipt
             f == r.endpoint
  <2>1. PICK row \in Row :
          /\ registry' = [registry EXCEPT ![f] = row]
          /\ \/ Connected(f) /\ Alike(row, registry[f])
             \/ row.mgmt = r.mgmt /\ row.managed = asked[a].managed
    BY SMTT(40), <1>2, SavedRow
  <2>2. f \in Endpoint /\ a \in Importing /\ asked[a].at = "persisting"
    BY <1>2, SavedRow DEF Saved, Importing
  <2>3. r.mgmt = "managed" <=> asked[a].managed # NoAccount
    BY <2>2 DEF AccountsAreManaged, ReceiptFits
  <2>4. \A g \in Endpoint : Connected(g) =>
           (registry[g].mgmt = "managed" <=> registry[g].managed # NoAccount)
    BY DEF AccountsAreManaged, Managed
  <2>5. registry'[e] = IF e = f THEN row ELSE registry[e]
    BY <2>1, <2>2, Shape
  <2> HIDE DEF r, f
  <2>6. CASE e = f
    BY <2>1, <2>2, <2>3, <2>4, <2>5, <2>6 DEF Alike
  <2>7. CASE e # f
    BY <1>2, <2>4, <2>5, <2>7 DEF Connected
  <2> QED BY <2>6, <2>7
<1> QED BY <1>1, <1>2 DEF Persist, PersistLost

LEMMA ManagedStep ==
    ASSUME CredInv, CredTypes', CredNext
    PROVE  AccountsAreManaged'
<1>0. CredTypes /\ AccountsAreManaged /\ product' = product
  BY KeepStep DEF CredInv
<1>1. \A e \in Endpoint : Connected(e)' => (Managed(e)' <=> registry'[e].managed # NoAccount)
  BY <1>0, KeepStep, RowsStayManaged DEF Managed
<1>2. \A r \in receipts' : ReceiptFits(r)
  BY <1>0, KeepStep DEF ReceiptsKeep, AccountsAreManaged
<1>3. \A b \in Importing' :
        /\ ReceiptFits(asked'[b].receipt)
        /\ asked'[b].at # "persisting" => asked'[b].receipt.bootstrap
        /\ asked'[b].at # "provisioning" /\ asked'[b].receipt.bootstrap
             => asked'[b].managed # NoAccount
        /\ ~asked'[b].receipt.bootstrap => asked'[b].managed = asked'[b].receipt.managed
  <2>1. CASE ImportsKeep
    BY <1>0, <2>1, ImportsStayManaged DEF ImportsKeep, Importing
  <2>2. ASSUME NEW a \in Admin, Provision(a) \/ ProvisionBroken(a), NEW b \in Importing'
        PROVE  /\ ReceiptFits(asked'[b].receipt)
               /\ asked'[b].at # "persisting" => asked'[b].receipt.bootstrap
               /\ asked'[b].at # "provisioning" /\ asked'[b].receipt.bootstrap
                    => asked'[b].managed # NoAccount
               /\ ~asked'[b].receipt.bootstrap => asked'[b].managed = asked'[b].receipt.managed
    <3>1. PICK to \in Import \cup {OpIdle} :
            /\ asked' = [asked EXCEPT ![a] = to]
            /\ \/ to = OpIdle
               \/ to.receipt = asked[a].receipt /\ to.managed = Fresh
      BY <1>0, <2>2, ProvisionShape
    <3>2. asked[a].at = "provisioning" /\ a \in Importing /\ Fresh \in Account
      BY <1>0, <2>2, ProvisionShape, CreatedShape DEF Importing
    <3>3. CASE b # a
      <4>1. b \in Admin /\ ImportGoesOn(b)
        BY <1>0, <2>2, <3>1, <3>3, OthersGoOn DEF Importing
      <4> QED BY <1>0, <4>1, ImportsStayManaged
    <3>4. CASE b = a
      <4>1. asked'[b] = to /\ to.at \in {"provisioning", "persisting", "undoing"}
        BY <1>0, <2>2, <3>1, <3>4, OthersGoOn
      <4>2. to.receipt = asked[a].receipt /\ to.managed = Fresh
        BY <3>1, <4>1 DEF OpIdle
      <4>3. ReceiptFits(asked[a].receipt) /\ asked[a].receipt.bootstrap
        BY <1>0, <3>2 DEF AccountsAreManaged
      <4>4. Fresh # NoAccount
        BY <3>2, NamesAndNumbers
      <4> QED BY <4>1, <4>2, <4>3, <4>4
    <3> QED BY <3>3, <3>4
  <2> QED BY <2>1, <2>2, KeepStep
<1> QED BY <1>0, <1>1, <1>2, <1>3 DEF AccountsAreManaged, ReceiptFits
----------------------------------------------------------------------------
(* What rows open is sealed for where they use it *)

LEMMA SavedFits ==
    ASSUME CredTypes, CredentialsFit, NEW a \in Admin, Saved(a),
           NEW e \in Endpoint, Connected(e)'
    PROVE  registry'[e].cred.for = e /\ registry'[e].clean.for = registry'[e].cleanup
<1> DEFINE f == asked[a].receipt.endpoint
<1>1. PICK row \in Row :
        /\ registry' = [registry EXCEPT ![f] = row]
        /\ \/ Connected(f) /\ Alike(row, registry[f])
           \/ /\ row.cred = Sealed(serial + 1, f, serial + 1)
              /\ \/ row.cleanup = NoEndpoint /\ row.clean = NoSeal
                 \/ /\ Connected(f) /\ row.cleanup = registry[f].cleanup
                    /\ row.clean = registry[f].clean
  BY SavedRow
<1>2. f \in Endpoint
  BY SavedRow
<1>3. registry'[e] = IF e = f THEN row ELSE registry[e]
  BY <1>1, <1>2, Shape
<1>4. Sealed(serial + 1, f, serial + 1).for = f /\ NoSeal.for = NoEndpoint
  BY DEF Sealed, NoSeal
<1> HIDE DEF f
<1>5. CASE e = f
  BY <1>1, <1>2, <1>3, <1>4, <1>5 DEF Alike, CredentialsFit
<1>6. CASE e # f
  BY <1>3, <1>6 DEF CredentialsFit, Connected
<1> QED BY <1>5, <1>6

LEMMA ConnectionFits ==
    ASSUME CredTypes, CredentialsFit, PendingSucceeds, NEW t \in tests, SaveConnection(t),
           NEW e \in Endpoint, Connected(e)'
    PROVE  registry'[e].cred.for = e /\ registry'[e].clean.for = registry'[e].cleanup
<1> DEFINE old == registry[t.from]
<1>1. PICK row \in Row :
        /\ registry' = [f \in Endpoint |-> IF f = t.to THEN row
                                           ELSE IF f = t.from THEN NoRow ELSE registry[f]]
        /\ row.cred = t.cred /\ row.cleanup = Cleanup(t) /\ row.clean = CleanSeal(t)
  BY ConnectionRow
<1>2. t.from \in Endpoint /\ t.to \in Endpoint /\ Connected(t.from)
  BY ConnectionRow
<1>3. t.cred.for = t.to
  BY DEF PendingSucceeds
<1>4. old.cred.for = t.from /\ old.clean.for = old.cleanup
  BY <1>2 DEF CredentialsFit
<1>5. CleanSeal(t).for = Cleanup(t)
  BY <1>3, <1>4 DEF CleanSeal, Cleanup
<1>6. CASE e = t.to
  BY <1>1, <1>3, <1>5, <1>6
<1>7. CASE e # t.to
  <2>1. registry'[e] = registry[e]
    BY <1>1, <1>7 DEF Connected, NoRow
  <2> QED BY <2>1 DEF CredentialsFit, Connected
<1> QED BY <1>6, <1>7

LEMMA ApprovalFits ==
    ASSUME CredTypes, CredentialsFit, PendingSucceeds, NEW a \in Admin,
           ReplaceProxmoxCredential(a), NEW e \in Endpoint, Connected(e)'
    PROVE  registry'[e].cred.for = e /\ registry'[e].clean.for = registry'[e].cleanup
<1> DEFINE read == /\ Connected(e) /\ registry[e].id = asked[a].id
                   /\ registry[e].cred.seal = asked[a].seal
<1>1. /\ ~read => registry'[e] = registry[e]
      /\ read => /\ registry'[e].cred = asked[a].cred
                 /\ registry'[e].cleanup = registry[e].cleanup
                 /\ registry'[e].clean = IF registry[e].cleanup = e THEN asked[a].cred
                                         ELSE registry[e].clean
  BY ApprovedRow
<1>2. CASE read
  <2>1. asked[a].cred.for = e
    BY <1>2 DEF PendingSucceeds, ReplaceProxmoxCredential
  <2>2. registry[e].clean.for = registry[e].cleanup
    BY <1>2 DEF CredentialsFit
  <2> QED BY SMTT(40), <1>1, <1>2, <2>1, <2>2
<1>3. CASE ~read
  BY <1>1, <1>3 DEF CredentialsFit, Connected
<1> QED BY <1>2, <1>3

LEMMA FitStep ==
    ASSUME CredInv, CredNext
    PROVE  \A e \in Endpoint : Connected(e)' =>
              registry'[e].cred.for = e /\ registry'[e].clean.for = registry'[e].cleanup
<1>0. CredTypes /\ CredentialsFit /\ PendingSucceeds /\ NumbersAreUnique /\ AccountsAreManaged
  BY DEF CredInv, HomesFit
<1>1. CASE RowsStay
  <2>1. \A e \in Endpoint : Connected(e)' => Connected(e) /\ Alike(registry'[e], registry[e])
    BY <1>1 DEF RowsStay, Connected, NoRow
  <2> QED BY <1>0, <2>1 DEF CredentialsFit, Alike
<1>2. CASE \E a \in Admin : Persist(a) \/ PersistLost(a)
  BY <1>0, <1>2, SavedFits DEF Persist, PersistLost
<1>3. CASE \E a \in Admin : ReplaceProxmoxCredential(a)
  BY <1>0, <1>3, ApprovalFits
<1>4. CASE \E t \in tests : SaveConnection(t)
  BY <1>0, <1>4, ConnectionFits
<1> QED BY <1>0, <1>1, <1>2, <1>3, <1>4, NumbersStep
----------------------------------------------------------------------------
(* Accounts appear once, and are removed by those who say so *)

\* The account n is created, undone, or removed by request, or stays as it is.
Appears(n) ==
    \E a \in Admin :
        /\ Provision(a) \/ ProvisionBroken(a)
        /\ n = Fresh /\ account[n].home = NoEndpoint
        /\ account'[n].home = asked[a].receipt.endpoint /\ account'[n].there

Undone(n) ==
    /\ account'[n].home = account[n].home /\ ~account'[n].there
    /\ \E a \in Admin : Undo(a) /\ Installs(a, n)

Removed(n) == account'[n].home = account[n].home /\ ~account'[n].there /\ n \in told'

LEMMA UndoShape ==
    ASSUME CredInv, NEW a \in Admin, Undo(a)
    PROVE  /\ asked[a] \in Import /\ asked[a].managed \in Account
           /\ Installs(a, asked[a].managed)
           /\ asked' = [asked EXCEPT ![a] = OpIdle] /\ receipts' \subseteq receipts
           /\ UNCHANGED <<product, registry, tests, told, abandoned, serial>>
<1>0. CredTypes /\ AccountsAreManaged
  BY DEF CredInv
<1>1. a \in Importing /\ asked[a].at = "undoing"
  BY DEF Undo, Importing
<1>2. asked[a] \in Import /\ asked[a].receipt.bootstrap /\ asked[a].managed # NoAccount
  BY <1>0, <1>1, Shape DEF AccountsAreManaged
<1>3. asked[a].managed \in Account
  BY <1>2 DEF Import
<1>4. Installs(a, asked[a].managed)
  BY <1>1, <1>2 DEF Installs
<1>5. EndOperation(a) /\ UNCHANGED <<product, registry, tests, told, abandoned, serial>>
  BY DEF Undo
<1> QED BY <1>0, <1>2, <1>3, <1>4, <1>5, EndShape

LEMMA AccountSteps ==
    ASSUME CredInv, CredNext
    PROVE  \A n \in Account :
              account'[n] = account[n] \/ Appears(n) \/ Undone(n) \/ Removed(n)
<1>0. CredTypes /\ NumbersAreUnique /\ AccountsAreManaged
  BY DEF CredInv
<1> DEFINE Rest == \A n \in Account :
                      account'[n] = account[n] \/ Appears(n) \/ Undone(n) \/ Removed(n)
<1>1. (UNCHANGED account) => Rest
  OBVIOUS
<1>2. ASSUME NEW a \in Admin, Provision(a) \/ ProvisionBroken(a) PROVE Rest
  <2>1. /\ Fresh \in Account /\ account[Fresh].home = NoEndpoint
        /\ account' = [account EXCEPT ![Fresh] =
                          [home |-> asked[a].receipt.endpoint, there |-> TRUE]]
    BY <1>0, <1>2, ProvisionShape, CreatedShape
  <2>2. account'[Fresh] = [home |-> asked[a].receipt.endpoint, there |-> TRUE]
    BY <1>0, <2>1, Shape
  <2>3. Appears(Fresh)
    BY <1>2, <2>1, <2>2 DEF Appears
  <2> QED BY <1>0, <2>1, <2>3, Shape
<1>3. ASSUME NEW a \in Admin, Undo(a) PROVE Rest
  <2> DEFINE m == asked[a].managed
  <2>1. m \in Account /\ Installs(a, m)
    BY <1>3, UndoShape
  <2>2. account' = [account EXCEPT ![m].there = FALSE]
    BY <1>3 DEF Undo
  <2> HIDE DEF m
  <2>3. account'[m].home = account[m].home /\ ~account'[m].there
    BY <1>0, <2>1, <2>2 DEF CredTypes
  <2>4. Undone(m)
    BY <1>3, <2>1, <2>3 DEF Undone
  <2> QED BY <1>0, <2>1, <2>2, <2>4, Shape
<1>4. ASSUME NEW a \in Admin, RemoveManaged(a) PROVE Rest
  <2> DEFINE m == asked[a].managed
  <2>1. asked[a] \in Removal
    BY <1>0, <1>4, RemovalShape
  <2>2. m \in Account
    BY <2>1 DEF Removal
  <2>3. CASE account[m].home = asked[a].where
    <3>1. account' = [account EXCEPT ![m].there = FALSE] /\ told' = told \cup {m}
      BY <1>4, <2>3 DEF RemoveManaged
    <3> HIDE DEF m
    <3>2. Removed(m)
      BY <1>0, <2>2, <3>1 DEF CredTypes, Removed
    <3> QED BY <1>0, <2>2, <3>1, <3>2, Shape
  <2>4. CASE account[m].home # asked[a].where
    BY <1>1, <1>4, <2>4 DEF RemoveManaged
  <2> QED BY <2>3, <2>4
<1>5. ASSUME NEW a \in Admin,
             \/ Imports(a) \/ Forgets(a) \/ Persist(a) \/ PersistLost(a)
             \/ ReplaceProxmoxCredential(a) \/ SuspendForRemoval(a) \/ DeleteRemoved(a)
      PROVE  UNCHANGED account
  <2>1. CASE Imports(a)
    BY <2>1, ImportsBegin DEF BeginImport
  <2>2. CASE Forgets(a)
    BY <1>0, <2>2, ForgetShape
  <2>3. CASE Persist(a) \/ PersistLost(a)
    BY <2>3 DEF Persist, PersistLost, Saved
  <2>4. CASE ReplaceProxmoxCredential(a) \/ SuspendForRemoval(a) \/ DeleteRemoved(a)
    BY <2>4 DEF ReplaceProxmoxCredential, SuspendForRemoval, DeleteRemoved
  <2> QED BY <1>5, <2>1, <2>2, <2>3, <2>4
<1>6. ASSUME ReceiptExpires \/ \E t \in tests : SaveConnection(t) PROVE UNCHANGED account
  BY <1>6 DEF ReceiptExpires, SaveConnection
<1> HIDE DEF Rest
<1>7. ASSUME \E e \in Endpoint :
                 \/ Previews(e) \/ DeleteConnector(e) \/ SetRowStatus(e) \/ Lease(e)
                 \/ \E a \in Admin : ReapproveCertificate(a, e) \/ RemovalCredential(a, e)
                 \/ \E to \in Endpoint : TestConnection(e, to)
      PROVE  Rest
  <2>1. ASSUME NEW e \in Endpoint, Previews(e) \/ DeleteConnector(e) \/ SetRowStatus(e) \/ Lease(e)
        PROVE  UNCHANGED account
    <3>1. CASE Previews(e)
      BY <1>0, <3>1, PreviewShape
    <3>2. CASE DeleteConnector(e) \/ SetRowStatus(e) \/ Lease(e)
      BY <3>2 DEF DeleteConnector, SetRowStatus, Lease
    <3> QED BY <2>1, <3>1, <3>2
  <2>2. ASSUME NEW e \in Endpoint, NEW to \in Endpoint, TestConnection(e, to)
        PROVE  UNCHANGED account
    BY <1>0, <2>2, TestShape
  <2>3. ASSUME NEW e \in Endpoint, NEW a \in Admin, ReapproveCertificate(a, e) \/ RemovalCredential(a, e)
        PROVE  UNCHANGED account
    BY <2>3 DEF ReapproveCertificate, RemovalCredential
  <2> QED BY <1>1, <1>7, <2>1, <2>2, <2>3
<1>8. ASSUME \E a \in Admin :
                 \/ Imports(a) \/ Forgets(a)
                 \/ Provision(a) \/ ProvisionBroken(a) \/ Persist(a) \/ PersistLost(a) \/ Undo(a)
                 \/ ReplaceProxmoxCredential(a) \/ SuspendForRemoval(a) \/ RemoveManaged(a)
                 \/ DeleteRemoved(a)
      PROVE  Rest
  BY <1>1, <1>2, <1>3, <1>4, <1>5, <1>8
<1>9. Rest
  BY <1>1, <1>6, <1>7, <1>8, CredCases
<1> QED BY <1>9 DEF Rest
----------------------------------------------------------------------------
(* Who has an account had it, created it, or persisted it *)

\* The import b creates the account n in this step.
Creates(b, n) ==
    /\ Provision(b) \/ ProvisionBroken(b)
    /\ n = Fresh /\ account[n].home = NoEndpoint
    /\ account'[n].home = asked'[b].receipt.endpoint /\ account'[n].there

LEMMA InstallsFrame ==
    ASSUME CredInv, CredNext, NEW b \in Admin, NEW n \in Account, Installs(b, n)'
    PROVE  \/ Installs(b, n) /\ asked'[b].receipt = asked[b].receipt
           \/ Creates(b, n)
<1>0. CredTypes /\ AccountsAreManaged
  BY DEF CredInv
<1>1. /\ b \in Importing' /\ asked'[b].at # "provisioning"
      /\ asked'[b].receipt.bootstrap /\ asked'[b].managed = n
  BY DEF Installs
<1>2. ASSUME ImportGoesOn(b) PROVE Installs(b, n) /\ asked'[b].receipt = asked[b].receipt
  <2>1. /\ b \in Importing
        /\ asked'[b].receipt = asked[b].receipt /\ asked'[b].managed = asked[b].managed
        /\ asked'[b].at = asked[b].at \/ asked[b].at = "persisting"
    BY <1>1, <1>2 DEF ImportGoesOn
  <2> QED BY <1>1, <2>1 DEF Installs
<1>3. CASE ImportsKeep
  BY <1>1, <1>2, <1>3 DEF ImportsKeep
<1>4. ASSUME NEW a \in Admin, Provision(a) \/ ProvisionBroken(a), b # a PROVE ImportGoesOn(b)
  BY <1>0, <1>1, <1>4, ProvisionShape, OthersGoOn
<1>5. ASSUME Provision(b) \/ ProvisionBroken(b) PROVE Creates(b, n)
  <2>1. PICK to \in Import \cup {OpIdle} :
          /\ asked' = [asked EXCEPT ![b] = to]
          /\ \/ to = OpIdle
             \/ to.receipt = asked[b].receipt /\ to.managed = Fresh
    BY <1>0, <1>5, ProvisionShape
  <2>2. asked'[b] = to /\ to.at \in {"provisioning", "persisting", "undoing"}
    BY <1>0, <1>1, <2>1, OthersGoOn
  <2>3. to.receipt = asked[b].receipt /\ to.managed = Fresh
    BY <2>1, <2>2 DEF OpIdle
  <2>4. /\ Fresh \in Account /\ account[Fresh].home = NoEndpoint
        /\ account' = [account EXCEPT ![Fresh] =
                          [home |-> asked[b].receipt.endpoint, there |-> TRUE]]
    BY <1>0, <1>5, ProvisionShape, CreatedShape
  <2>5. account'[Fresh] = [home |-> asked[b].receipt.endpoint, there |-> TRUE]
    BY <1>0, <2>4, Shape
  <2> QED BY <1>1, <1>5, <2>2, <2>3, <2>4, <2>5 DEF Creates
<1> QED BY <1>2, <1>3, <1>4, <1>5, KeepStep

LEMMA HeldFrame ==
    ASSUME CredInv, CredNext, NEW n \in Account, Held(n)'
    PROVE  \/ Held(n)
           \/ \E a \in Admin : (Persist(a) \/ PersistLost(a)) /\ Installs(a, n)
<1>0. CredTypes /\ AccountsAreManaged /\ n # NoAccount
  BY NamesAndNumbers DEF CredInv
<1> DEFINE Goal == \/ Held(n)
                   \/ \E a \in Admin : (Persist(a) \/ PersistLost(a)) /\ Installs(a, n)
<1>1. ASSUME NEW e \in Endpoint, Connected(e)', registry'[e].managed = n PROVE Goal
  <2>1. ASSUME RowsKeep PROVE Held(n)
    BY <1>1, <2>1 DEF RowsKeep, Held
  <2>2. ASSUME NEW a \in Admin, Persist(a) \/ PersistLost(a) PROVE Held(n) \/ Installs(a, n)
    <3> DEFINE f == asked[a].receipt.endpoint
    <3>1. Saved(a) /\ a \in Importing /\ asked[a].at = "persisting"
      BY <2>2 DEF Persist, PersistLost, Saved, Importing
    <3>2. PICK row \in Row :
            /\ registry' = [registry EXCEPT ![f] = row]
            /\ \/ Connected(f) /\ Alike(row, registry[f])
               \/ row.managed = asked[a].managed
      BY <1>0, <3>1, SavedRow
    <3>3. f \in Endpoint
      BY <1>0, <3>1, SavedRow
    <3>4. registry'[e] = IF e = f THEN row ELSE registry[e]
      BY <1>0, <3>2, <3>3, Shape
    <3> HIDE DEF f
    <3>5. CASE e # f
      BY <1>1, <3>4, <3>5 DEF Held, Connected
    <3>6. CASE e = f /\ Connected(f) /\ Alike(row, registry[f])
      BY <1>1, <3>4, <3>6 DEF Held, Alike
    <3>7. CASE asked[a].managed = n
      BY <3>1, <3>7 DEF Held, Installs
    <3> QED BY <1>1, <3>2, <3>4, <3>5, <3>6, <3>7
  <2> QED BY <2>1, <2>2, KeepStep
<1>2. ASSUME NEW r \in receipts', ~r.bootstrap, r.managed = n PROVE Held(n)
  BY <1>0, <1>2, KeepStep DEF ReceiptsKeep, Held
<1>3. ASSUME NEW b \in Importing', ~asked'[b].receipt.bootstrap, asked'[b].managed = n
      PROVE  Held(n)
  <2>1. ASSUME ImportGoesOn(b) PROVE Held(n)
    <3>1. CASE b \in Importing /\ asked'[b].receipt = asked[b].receipt
               /\ asked'[b].managed = asked[b].managed
      BY <1>3, <3>1 DEF Held
    <3>2. CASE asked'[b].receipt \in receipts /\ asked'[b].managed = asked'[b].receipt.managed
      BY <1>3, <3>2 DEF Held
    <3> QED BY <2>1, <3>1, <3>2 DEF ImportGoesOn
  <2>2. ASSUME NEW a \in Admin, Provision(a) \/ ProvisionBroken(a), b # a PROVE ImportGoesOn(b)
    BY <1>0, <1>3, <2>2, ProvisionShape, OthersGoOn
  <2>3. ASSUME NEW a \in Admin, Provision(a) \/ ProvisionBroken(a), b = a PROVE FALSE
    <3>1. PICK to \in Import \cup {OpIdle} :
            /\ asked' = [asked EXCEPT ![a] = to]
            /\ \/ to = OpIdle
               \/ to.receipt = asked[a].receipt /\ to.managed = Fresh
      BY <1>0, <2>3, ProvisionShape
    <3>2. asked'[b] = to /\ to.at \in {"provisioning", "persisting", "undoing"}
      BY <1>0, <1>3, <2>3, <3>1, OthersGoOn
    <3>3. to.receipt = asked[a].receipt
      BY <3>1, <3>2 DEF OpIdle
    <3>4. a \in Importing /\ asked[a].at = "provisioning"
      BY <1>0, <2>3, ProvisionShape DEF Importing
    <3>5. asked[a].receipt.bootstrap
      BY <1>0, <3>4 DEF AccountsAreManaged
    <3> QED BY <1>3, <3>2, <3>3, <3>5
  <2> QED BY <1>3, <2>1, <2>2, <2>3, KeepStep DEF ImportsKeep
<1> QED BY <1>1, <1>2, <1>3 DEF Held
----------------------------------------------------------------------------
(* Accounts stay where they are, and with those who have them *)

LEMMA HomeStays ==
    ASSUME CredInv, CredNext, NEW n \in Account, account[n].home # NoEndpoint
    PROVE  account'[n].home = account[n].home
BY AccountSteps DEF Appears, Undone, Removed

\* Who undoes an import, or persists it, has it no more.
LEMMA EndsInstall ==
    ASSUME CredInv, NEW a \in Admin, Undo(a) \/ Persist(a), NEW n \in Account
    PROVE  ~Installs(a, n)'
<1>1. asked' = [asked EXCEPT ![a] = OpIdle]
  BY EndShape DEF Undo, Persist, CredInv
<1>2. asked'[a].at = "idle"
  BY <1>1, Shape DEF CredInv, OpIdle
<1> QED BY <1>2 DEF Installs, Importing

LEMMA HoldersStep ==
    ASSUME CredInv, CredTypes', CredNext
    PROVE  HoldersAgree'
<1>0. CredTypes /\ HomesFit /\ HoldersAgree /\ told \subseteq told'
  BY KeepStep DEF CredInv
<1>1. \A a \in Admin, n \in Account : Installs(a, n) => account[n].home # NoEndpoint
  <2> SUFFICES ASSUME NEW a \in Admin, NEW n \in Account, Installs(a, n)
               PROVE  account[n].home # NoEndpoint
    OBVIOUS
  <2>1. asked[a] \in Import
    BY <1>0, Shape DEF Installs
  <2>2. asked[a].receipt.endpoint \in Endpoint
    BY <2>1 DEF Import, Receipt
  <2>3. account[n].home = asked[a].receipt.endpoint
    BY <1>0 DEF HomesFit
  <2> QED BY <2>2, <2>3, NamesAndNumbers
<1>2. ASSUME NEW n \in Account, Held(n)' PROVE Kept(n)'
  <2>1. CASE Held(n)
    <3>1. Kept(n) /\ (n \in told \/ \A a \in Admin : ~Installs(a, n))
      BY <1>0, <2>1 DEF HoldersAgree
    <3> QED BY <1>0, <3>1, AccountSteps DEF Kept, Appears, Undone, Removed
  <2>2. ASSUME NEW a \in Admin, Persist(a) \/ PersistLost(a), Installs(a, n) PROVE Kept(n)'
    <3>1. Kept(n) /\ account' = account
      BY <1>0, <2>2 DEF HoldersAgree, Persist, PersistLost, Saved
    <3> QED BY <1>0, <3>1 DEF Kept
  <2> QED BY <1>2, <2>1, <2>2, HeldFrame
<1>3. ASSUME NEW n \in Account, Held(n)', NEW b \in Admin, Installs(b, n)' PROVE n \in told'
  <2>1. Installs(b, n) \/ account[n].home = NoEndpoint
    BY <1>3, InstallsFrame DEF Creates
  <2>2. CASE Held(n)
    BY <1>0, <2>1, <2>2 DEF HomesFit, HoldersAgree
  <2>3. ASSUME NEW a \in Admin, Persist(a) \/ PersistLost(a), Installs(a, n) PROVE n \in told'
    <3>1. a = b
      BY <1>0, <1>1, <2>1, <2>3 DEF HoldersAgree
    <3>2. PersistLost(a)
      BY <1>3, <2>3, <3>1, EndsInstall
    <3> QED BY <2>3, <3>2 DEF PersistLost, Installs
  <2> QED BY <1>3, <2>2, <2>3, HeldFrame
<1>4. ASSUME NEW a \in Admin, NEW n \in Account, Installs(a, n)' PROVE Kept(n)'
  <2>1. CASE Creates(a, n)
    BY <2>1 DEF Creates, Kept
  <2>2. CASE Installs(a, n)
    <3>1. Kept(n)
      BY <1>0, <2>2 DEF HoldersAgree
    <3>2. ~Undone(n)
      BY <1>0, <1>4, <2>2, EndsInstall DEF HoldersAgree, Undone
    <3> QED BY <1>0, <3>1, <3>2, AccountSteps DEF Kept, Appears, Removed
  <2> QED BY <1>4, <2>1, <2>2, InstallsFrame
<1>5. ASSUME NEW a \in Admin, NEW b \in Admin, NEW n \in Account, Installs(a, n)', Installs(b, n)'
      PROVE  a = b
  <2>1. CASE Installs(a, n) /\ Installs(b, n)
    BY <1>0, <2>1 DEF HoldersAgree
  <2>2. CASE Creates(a, n) /\ Creates(b, n)
    <3>1. asked[b].at = "provisioning"
      BY <1>0, <2>2, ProvisionShape DEF Creates
    <3>2. a # b => asked'[b] = asked[b]
      BY <1>0, <2>2, ProvisionShape, Shape DEF Creates
    <3> QED BY <1>5, <3>1, <3>2 DEF Installs
  <2> QED BY <1>1, <1>5, <2>1, <2>2, InstallsFrame DEF Creates
<1> QED BY <1>2, <1>3, <1>4, <1>5 DEF HoldersAgree

LEMMA SavedProxmox ==
    ASSUME CredInv, product = "proxmox", NEW a \in Admin, Saved(a)
    PROVE  /\ asked[a].receipt.endpoint \in Endpoint /\ a \in Importing
           /\ \A e \in Endpoint : e # asked[a].receipt.endpoint => registry'[e] = registry[e]
           /\ LET f == asked[a].receipt.endpoint IN
              \/ /\ Connected(f) /\ registry'[f] \in Row /\ Alike(registry'[f], registry[f])
                 /\ asked[a].receipt.existing # 0
              \/ /\ ~Connected(f) /\ registry'[f] \in Row
                 /\ registry'[f].id = serial + 1 /\ registry'[f].cleanup = NoEndpoint
                 /\ registry'[f].mgmt = asked[a].receipt.mgmt
                 /\ registry'[f].managed = asked[a].managed /\ asked[a].receipt.existing = 0
<1> DEFINE f == asked[a].receipt.endpoint
<1>1. CredTypes
  BY DEF CredInv
<1>2. PICK row \in Row :
        /\ registry' = [registry EXCEPT ![f] = row]
        /\ \/ /\ Connected(f) /\ Alike(row, registry[f])
              /\ asked[a].receipt.existing # 0
           \/ /\ ~Connected(f) /\ row.id = serial + 1 /\ row.cleanup = NoEndpoint
              /\ row.mgmt = asked[a].receipt.mgmt /\ row.managed = asked[a].managed
              /\ asked[a].receipt.existing = 0
  BY <1>1, SavedRow
<1>3. f \in Endpoint
  BY <1>1, SavedRow
<1>4. registry'[f] = row /\ \A e \in Endpoint : e # f => registry'[e] = registry[e]
  BY <1>1, <1>2, <1>3, Shape
<1>5. a \in Importing
  BY DEF Importing, Saved
<1> QED BY <1>2, <1>3, <1>4, <1>5

\* A row of Proxmox that is not new is one there was, with its account.
LEMMA RowOfNumber ==
    ASSUME CredInv, CredNext, product = "proxmox",
           NEW e \in Endpoint, Connected(e)', registry'[e].id <= serial
    PROVE  \E f \in Endpoint :
              /\ Connected(f) /\ registry[f].id = registry'[e].id
              /\ registry[f].managed = registry'[e].managed
<1>1. CASE RowsKeep
  BY <1>1 DEF RowsKeep
<1>2. ASSUME NEW a \in Admin, Saved(a)
      PROVE  /\ Connected(e) /\ registry[e].id = registry'[e].id
             /\ registry[e].managed = registry'[e].managed
  <2>1. serial \in Nat
    BY DEF CredInv, CredTypes
  <2>2. registry'[e].id # serial + 1
    BY <2>1
  <2>3. CASE e # asked[a].receipt.endpoint
    BY SMTT(40), <1>2, <2>3, SavedProxmox DEF Connected
  <2>4. CASE e = asked[a].receipt.endpoint
    BY <1>2, <2>2, <2>4, SavedProxmox DEF Alike
  <2> QED BY <2>3, <2>4
<1> QED BY <1>1, <1>2, KeepStep DEF Persist, PersistLost

\* The account of a managed Proxmox is where the connector looks for it.
LEMMA RowHomesStep ==
    ASSUME CredInv, CredTypes', CredNext, product = "proxmox", NEW e \in Endpoint, Managed(e)'
    PROVE  account'[registry'[e].managed].home = HomeOf(e)'
<1>0. CredTypes /\ AccountsAreManaged /\ HomesFit
  BY DEF CredInv
<1>1. \A f \in Endpoint : Managed(f) =>
        /\ account'[registry[f].managed].home = HomeOf(f)
        /\ account[registry[f].managed].home = HomeOf(f)
  <2> SUFFICES ASSUME NEW f \in Endpoint, Managed(f)
               PROVE  /\ account'[registry[f].managed].home = HomeOf(f)
                      /\ account[registry[f].managed].home = HomeOf(f)
    OBVIOUS
  <2>1. registry[f] \in Row /\ registry[f].managed # NoAccount
    BY <1>0, Shape DEF Managed, AccountsAreManaged
  <2>2. registry[f].managed \in Account /\ HomeOf(f) \in Endpoint
    BY <2>1 DEF Row, HomeOf
  <2>3. account[registry[f].managed].home = HomeOf(f)
    BY <1>0 DEF HomesFit, CredentialsFit
  <2> QED BY <2>2, <2>3, HomeStays, NamesAndNumbers
<1>2. CASE RowsKeep
  <2>1. PICK f \in Endpoint : /\ Managed(f) /\ registry'[e].managed = registry[f].managed
                              /\ HomeOf(e)' = HomeOf(f)
    BY <1>2 DEF RowsKeep, Managed
  <2> QED BY <1>1, <2>1
<1>3. ASSUME NEW a \in Admin, Saved(a) PROVE account'[registry'[e].managed].home = HomeOf(e)'
  <2> DEFINE f == asked[a].receipt.endpoint
  <2>1. CASE e # f
    <3>1. registry'[e] = registry[e]
      BY <1>3, <2>1, SavedProxmox
    <3>2. Managed(e) /\ HomeOf(e)' = HomeOf(e)
      BY <3>1 DEF Managed, Connected, HomeOf
    <3> QED BY <1>1, <3>1, <3>2
  <2>2. CASE e = f /\ Connected(f) /\ Alike(registry'[f], registry[f])
    <3>1. Managed(e) /\ HomeOf(e)' = HomeOf(e) /\ registry'[e].managed = registry[e].managed
      BY <2>2 DEF Managed, HomeOf, Alike
    <3> QED BY <1>1, <3>1
  <2>3. CASE /\ e = f /\ registry'[f].cleanup = NoEndpoint
             /\ registry'[f].mgmt = asked[a].receipt.mgmt
             /\ registry'[f].managed = asked[a].managed /\ asked[a].receipt.existing = 0
    <3> DEFINE n == asked[a].managed
    <3>1. a \in Importing /\ asked[a].receipt.mgmt = "managed"
      BY <1>3, <2>3, SavedProxmox DEF Managed
    <3>2. asked[a].receipt.bootstrap /\ asked[a].at = "persisting"
      BY <1>0, <1>3, <2>3, <3>1 DEF AccountsAreManaged, ReceiptFits, Saved
    <3>3. asked[a] \in Import /\ n # NoAccount
      BY <1>0, <3>1, <3>2, Shape DEF AccountsAreManaged
    <3>4. n \in Account
      BY <3>3 DEF Import
    <3>5. Installs(a, n)
      BY <3>1, <3>2 DEF Installs
    <3>6. account[n].home = f /\ account' = account
      BY <1>0, <1>3, <3>4, <3>5 DEF HomesFit, Saved
    <3>7. HomeOf(e)' = f
      BY <2>3 DEF HomeOf
    <3> QED BY SMTT(40), <2>3, <3>6, <3>7
  <2> QED BY <1>3, <2>1, <2>2, <2>3, SavedProxmox
<1> QED BY <1>2, <1>3, KeepStep DEF Persist, PersistLost

LEMMA HomesStep ==
    ASSUME CredInv, CredTypes', CredNext
    PROVE  HomesFit'
<1>0. CredTypes /\ HomesFit /\ product' = product
  BY KeepStep DEF CredInv
<1>1. CredentialsFit'
  BY <1>0, FitStep, RowHomesStep DEF CredentialsFit
<1>2. \A a \in Admin, n \in Account : Installs(a, n) =>
         /\ account[n].home = asked[a].receipt.endpoint /\ account[n].home # NoEndpoint
  <2> SUFFICES ASSUME NEW a \in Admin, NEW n \in Account, Installs(a, n)
               PROVE  account[n].home = asked[a].receipt.endpoint /\ account[n].home # NoEndpoint
    OBVIOUS
  <2>1. asked[a] \in Import
    BY <1>0, Shape DEF Installs
  <2>2. asked[a].receipt.endpoint \in Endpoint
    BY <2>1 DEF Import, Receipt
  <2>3. account[n].home = asked[a].receipt.endpoint
    BY <1>0 DEF HomesFit
  <2> QED BY <2>2, <2>3, NamesAndNumbers
<1>3. ASSUME NEW a \in Admin, NEW n \in Account, Installs(a, n)'
      PROVE  account'[n].home = asked'[a].receipt.endpoint
  <2>1. CASE Creates(a, n)
    BY <2>1 DEF Creates
  <2>2. CASE Installs(a, n) /\ asked'[a].receipt = asked[a].receipt
    BY <1>2, <2>2, HomeStays
  <2> QED BY <1>3, <2>1, <2>2, InstallsFrame
<1>4. ASSUME NEW b \in Removing', asked'[b].at # "deleting"
      PROVE  account'[asked'[b].managed].home = asked'[b].where
  <2>1. RemovalGoesOn(b) /\ asked'[b] \in Removal
    BY <1>4, KeepStep, Shape DEF RemovalsKeep, CredTypes, Removing, Import, Reapproval, OpIdle
  <2>2. asked'[b].managed \in Account /\ asked'[b].where \in Endpoint
    BY <2>1 DEF Removal
  <2>3. account[asked'[b].managed].home = asked'[b].where
    <3>1. CASE /\ b \in Removing /\ asked[b].at # "deleting"
               /\ asked'[b].managed = asked[b].managed /\ asked'[b].where = asked[b].where
      BY <1>0, <3>1 DEF HomesFit
    <3>2. ASSUME NEW e \in Endpoint, product = "proxmox", Managed(e),
                 asked'[b].managed = registry[e].managed, asked'[b].where = HomeOf(e)
          PROVE  account[asked'[b].managed].home = asked'[b].where
      BY <1>0, <3>2 DEF HomesFit, CredentialsFit
    <3> QED BY <1>4, <2>1, <3>1, <3>2 DEF RemovalGoesOn
  <2> QED BY <2>2, <2>3, HomeStays, NamesAndNumbers
<1>5. ASSUME NEW n \in Account, Held(n)' PROVE account'[n].home # NoEndpoint
  <2>1. account[n].home # NoEndpoint
    BY <1>0, <1>2, <1>5, HeldFrame DEF HomesFit
  <2> QED BY <2>1, HomeStays
<1> QED BY <1>1, <1>3, <1>4, <1>5 DEF HomesFit
----------------------------------------------------------------------------
(* Removals tell, and no account of Proxmox is forgotten *)

LEMMA RemovalsStep ==
    ASSUME CredInv, CredTypes', CredNext
    PROVE  RemovalsTell'
<1>0. /\ CredTypes /\ NumbersAreUnique /\ RemovalsTell /\ product' = product
      /\ told \subseteq told' /\ RemovalsKeep
  BY KeepStep DEF CredInv
<1>1. serial' \in {serial, serial + 1} /\ serial \in Nat
  BY NumbersStep DEF CredInv, CredTypes
<1> SUFFICES ASSUME NEW b \in Removing'
             PROVE  /\ product' = "proxmox" /\ asked'[b].id <= serial'
                    /\ \A e \in Endpoint : registry'[e].id = asked'[b].id =>
                          registry'[e].managed = asked'[b].managed
                    /\ asked'[b].at = "deleting" => asked'[b].managed \in told'
  BY DEF RemovalsTell
<1>2. asked'[b] \in Removal /\ RemovalGoesOn(b)
  BY <1>0, Shape DEF RemovalsKeep, CredTypes, Removing, Import, Reapproval, OpIdle
<1>3. asked'[b].id \in Nat \ {0}
  BY <1>2 DEF Removal
<1>4. /\ product = "proxmox" /\ asked'[b].id <= serial
      /\ \A f \in Endpoint : registry[f].id = asked'[b].id =>
            registry[f].managed = asked'[b].managed
  <2>1. CASE b \in Removing /\ asked'[b].id = asked[b].id /\ asked'[b].managed = asked[b].managed
    BY <1>0, <2>1 DEF RemovalsTell
  <2>2. ASSUME product = "proxmox", NEW e \in Endpoint, Managed(e),
               asked'[b].id = registry[e].id, asked'[b].managed = registry[e].managed
        PROVE  /\ asked'[b].id <= serial
               /\ \A f \in Endpoint : registry[f].id = asked'[b].id =>
                     registry[f].managed = asked'[b].managed
    <3>1. Connected(e) /\ registry[e].id <= serial
      BY <1>0, <2>2 DEF NumbersAreUnique, Managed
    <3>2. \A f \in Endpoint : registry[f].id = registry[e].id => f = e
      BY <1>0, <3>1 DEF NumbersAreUnique
    <3> QED BY <2>2, <3>1, <3>2
  <2> QED BY <1>2, <2>1, <2>2 DEF RemovalGoesOn
<1>5. ASSUME NEW e \in Endpoint, registry'[e].id = asked'[b].id
      PROVE  registry'[e].managed = asked'[b].managed
  <2>1. Connected(e)' /\ registry'[e].id <= serial
    BY <1>3, <1>4, <1>5 DEF Connected
  <2> QED BY <1>4, <1>5, <2>1, RowOfNumber
<1>6. asked'[b].at = "deleting" => asked'[b].managed \in told'
  BY <1>0, <1>2 DEF RemovalGoesOn, RemovalsTell
<1> QED BY <1>0, <1>1, <1>3, <1>4, <1>5, <1>6

\* Who is told of an account, or that it was abandoned, is for good.
LEMMA AbandonedStays ==
    ASSUME CredInv, CredNext
    PROVE  abandoned \subseteq abandoned'
<1>0. CredTypes /\ NumbersAreUnique /\ AccountsAreManaged
  BY DEF CredInv
<1>1. ASSUME NEW e \in Endpoint, Previews(e) \/ DeleteConnector(e) \/ SetRowStatus(e) \/ Lease(e)
      PROVE  abandoned' = abandoned
  <2>1. CASE Previews(e)
    BY <1>0, <2>1, PreviewShape
  <2>2. CASE DeleteConnector(e) \/ SetRowStatus(e) \/ Lease(e)
    BY <2>2 DEF DeleteConnector, SetRowStatus, Lease, Begin
  <2> QED BY <1>1, <2>1, <2>2
<1>2. ASSUME NEW e \in Endpoint, NEW a \in Admin, ReapproveCertificate(a, e) \/ RemovalCredential(a, e)
      PROVE  abandoned' = abandoned
  BY <1>2 DEF ReapproveCertificate, RemovalCredential, Begin
<1>3. ASSUME NEW e \in Endpoint, NEW to \in Endpoint, TestConnection(e, to)
      PROVE  abandoned' = abandoned
  BY <1>0, <1>3, TestShape
<1>4. ASSUME NEW a \in Admin,
             \/ Imports(a) \/ Forgets(a)
             \/ Provision(a) \/ ProvisionBroken(a) \/ Persist(a) \/ PersistLost(a) \/ Undo(a)
             \/ ReplaceProxmoxCredential(a) \/ SuspendForRemoval(a) \/ RemoveManaged(a)
             \/ DeleteRemoved(a)
      PROVE  abandoned \subseteq abandoned'
  <2>1. CASE Imports(a)
    BY <2>1, ImportsBegin DEF BeginImport, Begin
  <2>2. CASE Forgets(a)
    BY <1>0, <2>2, ForgetShape
  <2>3. CASE Provision(a) \/ ProvisionBroken(a)
    BY <1>0, <2>3, ProvisionShape
  <2>4. CASE Persist(a) \/ PersistLost(a) \/ Undo(a)
    BY <2>4 DEF Persist, PersistLost, Saved, Undo
  <2>5. CASE \/ ReplaceProxmoxCredential(a) \/ SuspendForRemoval(a) \/ RemoveManaged(a)
             \/ DeleteRemoved(a)
    BY ZenonT(60), <2>5 DEF ReplaceProxmoxCredential, SuspendForRemoval, RemoveManaged, DeleteRemoved
  <2> QED BY <1>4, <2>1, <2>2, <2>3, <2>4, <2>5
<1>5. CASE ReceiptExpires \/ \E t \in tests : SaveConnection(t)
  BY <1>5 DEF ReceiptExpires, SaveConnection
<1>6. CASE \E e \in Endpoint :
                 \/ Previews(e) \/ DeleteConnector(e) \/ SetRowStatus(e) \/ Lease(e)
                 \/ \E a \in Admin : ReapproveCertificate(a, e) \/ RemovalCredential(a, e)
                 \/ \E to \in Endpoint : TestConnection(e, to)
  BY <1>1, <1>2, <1>3, <1>6
<1> QED BY <1>4, <1>5, <1>6, CredCases

\* A managed row of Proxmox goes only when its account was told of.
LEMMA RowsAreRemembered ==
    ASSUME CredInv, CredNext, product = "proxmox", NEW e \in Endpoint, Managed(e)
    PROVE  \/ registry[e].managed \in told'
           \/ \E f \in Endpoint : Managed(f)' /\ registry'[f].managed = registry[e].managed
<1>0. CredTypes /\ RemovalsTell /\ told \subseteq told' /\ Connected(e)
  BY KeepStep DEF CredInv, Managed
<1>1. CASE RowsStay /\ OnlyDeletedGo
  <2>1. ~DeleteConnector(e)
    BY DEF DeleteConnector
  <2>2. ASSUME NEW a \in Admin, DeleteRemoved(a), registry[e].id = asked[a].id
        PROVE  registry[e].managed \in told'
    BY <1>0, <2>2 DEF RemovalsTell, DeleteRemoved, Removing
  <2>3. ASSUME Connected(e)' PROVE Managed(e)' /\ registry'[e].managed = registry[e].managed
    BY <1>1, <2>3 DEF RowsStay, Alike, Managed, Connected, NoRow
  <2> QED BY <1>0, <1>1, <2>1, <2>2, <2>3 DEF OnlyDeletedGo
<1>2. ASSUME NEW a \in Admin, Saved(a)
      PROVE  Managed(e)' /\ registry'[e].managed = registry[e].managed
  <2>1. CASE e # asked[a].receipt.endpoint
    BY SMTT(40), <1>2, <2>1, SavedProxmox DEF Managed, Connected
  <2>2. CASE e = asked[a].receipt.endpoint
    BY <1>0, <1>2, <2>2, SavedProxmox DEF Managed, Connected, Alike, Row
  <2> QED BY <2>1, <2>2
<1>3. ASSUME NEW a \in Admin, ReplaceProxmoxCredential(a)
      PROVE  Managed(e)' /\ registry'[e].managed = registry[e].managed
  <2>1. /\ registry'[e].id = registry[e].id /\ registry'[e].mgmt = registry[e].mgmt
        /\ registry'[e].managed = registry[e].managed
    BY <1>0, <1>3, ApprovedRow
  <2> QED BY <2>1 DEF Managed, Connected
<1>4. ASSUME NEW t \in tests, SaveConnection(t)
      PROVE  \E f \in Endpoint : Managed(f)' /\ registry'[f].managed = registry[e].managed
  <2>1. PICK row \in Row :
          /\ registry' = [f \in Endpoint |-> IF f = t.to THEN row
                                             ELSE IF f = t.from THEN NoRow ELSE registry[f]]
          /\ row.id = registry[t.from].id /\ row.mgmt = registry[t.from].mgmt
          /\ row.managed = registry[t.from].managed
    BY <1>0, <1>4, ConnectionRow
  <2>2. t.to \in Endpoint /\ (t.to # t.from => ~Connected(t.to))
    BY <1>0, <1>4, ConnectionRow
  <2>3. CASE e = t.from
    <3>1. Managed(t.to)' /\ registry'[t.to].managed = registry[e].managed
      BY <2>1, <2>2, <2>3 DEF Managed, Connected
    <3> QED BY <2>2, <3>1
  <2>4. CASE e # t.from
    <3>1. registry'[e] = registry[e]
      BY <1>0, <2>1, <2>2, <2>4
    <3> QED BY <3>1 DEF Managed, Connected
  <2> QED BY <2>3, <2>4
<1> QED BY <1>1, <1>2, <1>3, <1>4, NumbersStep DEF CredInv, Persist, PersistLost
\* Somebody knows of the account n after the step.
WillBeKnown(n) ==
    \/ \E f \in Endpoint : Managed(f)' /\ registry'[f].managed = n
    \/ \E b \in Admin : Installs(b, n)'
    \/ n \in told' \cup abandoned'

\* The requests of others leave an import alone.
LEMMA OthersLeave ==
    ASSUME CredInv, NEW a \in Admin, NEW n \in Account, Installs(a, n),
           \/ UNCHANGED asked
           \/ \E b \in Admin \ {a} : \E to : asked' = [asked EXCEPT ![b] = to]
    PROVE  WillBeKnown(n)
<1>1. asked'[a] = asked[a]
  BY Shape DEF CredInv
<1> QED BY <1>1 DEF Installs, Importing, WillBeKnown

\* What an import of Proxmox becomes that holds its account.
LEMMA ImportIsRemembered ==
    ASSUME CredInv, product = "proxmox", NEW a \in Admin, NEW n \in Account, Installs(a, n),
           account'[n].there,
           \/ Imports(a) \/ Forgets(a)
           \/ Provision(a) \/ ProvisionBroken(a) \/ Persist(a) \/ PersistLost(a) \/ Undo(a)
           \/ ReplaceProxmoxCredential(a) \/ SuspendForRemoval(a) \/ RemoveManaged(a)
           \/ DeleteRemoved(a)
    PROVE  WillBeKnown(n)
<1>0. /\ CredTypes /\ AccountsAreManaged /\ a \in Importing
      /\ asked[a].at \in {"persisting", "undoing"} /\ asked[a].receipt.bootstrap
      /\ asked[a].managed = n
  BY DEF CredInv, Installs, Importing
<1>1. ~Imports(a)
  BY ZenonT(60), <1>0, ImportsBegin DEF BeginImport
<1>2. ~Provision(a) /\ ~ProvisionBroken(a)
  BY <1>0, ProvisionShape
<1>3. ~ReplaceProxmoxCredential(a)
  BY <1>0 DEF ReplaceProxmoxCredential
<1>4. ~SuspendForRemoval(a) /\ ~RemoveManaged(a) /\ ~DeleteRemoved(a)
  BY <1>0 DEF SuspendForRemoval, RemoveManaged, DeleteRemoved
<1>5. CASE PersistLost(a)
  BY <1>0, <1>5 DEF PersistLost, WillBeKnown
<1>6. ASSUME Undo(a) PROVE FALSE
  <2>1. account' = [account EXCEPT ![n].there = FALSE]
    BY <1>0, <1>6 DEF Undo
  <2> QED BY <1>0, <2>1 DEF CredTypes
<1>7. CASE Persist(a)
  <2> PICK f \in Endpoint : f = asked[a].receipt.endpoint
    BY <1>0, <1>7, SavedProxmox DEF Persist
  <2>1. asked[a].receipt.existing = 0 /\ asked[a].receipt.mgmt = "managed"
    BY <1>0 DEF AccountsAreManaged, ReceiptFits
  <2>2. /\ registry'[f].id = serial + 1
        /\ registry'[f].mgmt = "managed" /\ registry'[f].managed = n
    BY <1>0, <1>7, <2>1, SavedProxmox DEF Persist
  <2>3. serial + 1 # 0
    BY <1>0 DEF CredTypes
  <2>4. Managed(f)'
    BY <2>2, <2>3 DEF Managed, Connected
  <2> QED BY <2>2, <2>4 DEF WillBeKnown
<1>8. CASE Forgets(a)
  <2>1. ~ProvisionRejected(a) /\ ~RemovalFails(a)
    BY <1>0 DEF ProvisionRejected, RemovalFails
  <2>2. CASE UndoFails(a)
    BY <1>0, <2>2 DEF UndoFails, WillBeKnown
  <2>3. CASE CredCrash(a)
    BY <1>0, <2>3 DEF CredCrash, WillBeKnown
  <2>4. CASE PersistFails(a)
    <3>1. AfterFailure(a) /\ asked[a] \in Import
      BY <1>0, <2>4, Shape DEF PersistFails
    <3>2. PICK to \in Import : /\ asked' = [asked EXCEPT ![a] = to] /\ to.at = "undoing"
                               /\ to.receipt = asked[a].receipt /\ to.managed = asked[a].managed
      BY <1>0, <3>1, AfterFailureShape
    <3>3. asked'[a] = to
      BY <1>0, <3>2, Shape
    <3>4. Installs(a, n)'
      BY <1>0, <3>2, <3>3 DEF Installs, Importing
    <3> QED BY <3>4 DEF WillBeKnown
  <2> QED BY <1>8, <2>1, <2>2, <2>3, <2>4 DEF Forgets
<1> QED BY <1>1, <1>2, <1>3, <1>4, <1>5, <1>6, <1>7, <1>8

\* An account of Proxmox that is created belongs to its import.
LEMMA CreatedIsKnown ==
    ASSUME CredInv, product = "proxmox", NEW n \in Account, Appears(n)
    PROVE  WillBeKnown(n)
<1>0. CredTypes /\ AccountsAreManaged
  BY DEF CredInv
<1>1. PICK a \in Admin : (Provision(a) \/ ProvisionBroken(a)) /\ n = Fresh
  BY DEF Appears
<1>2. PICK to \in Import :
        /\ asked' = [asked EXCEPT ![a] = to]
        /\ to.at \in {"persisting", "undoing"}
        /\ to.receipt = asked[a].receipt /\ to.managed = n
  BY <1>0, <1>1, ProvisionShape
<1>3. a \in Importing /\ asked[a].at = "provisioning"
  BY <1>0, <1>1, ProvisionShape DEF Importing
<1>4. asked[a].receipt.bootstrap /\ asked'[a] = to
  BY <1>0, <1>2, <1>3, Shape DEF AccountsAreManaged
<1>5. Installs(a, n)'
  BY <1>2, <1>4 DEF Installs, Importing
<1> QED BY <1>5 DEF WillBeKnown

LEMMA NoneForgottenStep ==
    ASSUME CredInv, CredNext
    PROVE  NoneIsForgotten'
<1>0. /\ CredTypes /\ NumbersAreUnique /\ AccountsAreManaged /\ NoneIsForgotten
      /\ product' = product /\ told \subseteq told' /\ abandoned \subseteq abandoned'
  BY KeepStep, AbandonedStays DEF CredInv
<1> SUFFICES ASSUME product = "proxmox", NEW n \in Account, account'[n].there
             PROVE  WillBeKnown(n)
  BY <1>0 DEF NoneIsForgotten, WillBeKnown
<1>1. CASE Appears(n)
  BY <1>1, CreatedIsKnown
<1>2. ASSUME NEW e \in Endpoint, Managed(e), registry[e].managed = n PROVE WillBeKnown(n)
  BY <1>2, RowsAreRemembered DEF WillBeKnown
<1>3. ASSUME NEW a \in Admin, Installs(a, n) PROVE WillBeKnown(n)
  <2>1. ASSUME NEW e \in Endpoint, Previews(e) \/ DeleteConnector(e) \/ SetRowStatus(e) \/ Lease(e)
        PROVE  WillBeKnown(n)
    <3>1. UNCHANGED asked
      BY <1>0, <2>1, PreviewShape DEF DeleteConnector, SetRowStatus, Lease
    <3> QED BY <1>3, <3>1, OthersLeave
  <2>2. ASSUME NEW e \in Endpoint, NEW b \in Admin, ReapproveCertificate(b, e) \/ RemovalCredential(b, e)
        PROVE  WillBeKnown(n)
    <3>1. b # a /\ \E to : asked' = [asked EXCEPT ![b] = to]
      BY <1>3, <2>2 DEF ReapproveCertificate, RemovalCredential, Doing, Installs, Importing
    <3> QED BY <1>3, <3>1, OthersLeave
  <2>3. ASSUME NEW e \in Endpoint, NEW to \in Endpoint, TestConnection(e, to) PROVE WillBeKnown(n)
    BY <1>0, <1>3, <2>3, TestShape, OthersLeave
  <2>4. ASSUME NEW b \in Admin,
               \/ Imports(b) \/ Forgets(b)
               \/ Provision(b) \/ ProvisionBroken(b) \/ Persist(b) \/ PersistLost(b) \/ Undo(b)
               \/ ReplaceProxmoxCredential(b) \/ SuspendForRemoval(b) \/ RemoveManaged(b)
               \/ DeleteRemoved(b)
        PROVE  WillBeKnown(n)
    <3>1. CASE b = a
      BY <1>3, <2>4, <3>1, ImportIsRemembered
    <3>2. ASSUME b # a PROVE \E to : asked' = [asked EXCEPT ![b] = to]
      <4>1. CASE Imports(b)
        BY <4>1, ImportsBegin DEF BeginImport, Doing
      <4>2. CASE Forgets(b)
        BY <1>0, <4>2, ForgetShape
      <4>3. CASE Provision(b) \/ ProvisionBroken(b)
        BY <1>0, <4>3, ProvisionShape
      <4>4. CASE Persist(b) \/ Undo(b)
        BY <1>0, <4>4, EndShape DEF Persist, Undo
      <4>5. CASE PersistLost(b)
        BY SMTT(40), <1>0, <4>5, SavedRow, AfterFailureShape DEF PersistLost
      <4>6. CASE SuspendForRemoval(b) \/ RemoveManaged(b) \/ DeleteRemoved(b)
        BY <1>0, <4>6, RemovalShape
      <4>7. CASE ReplaceProxmoxCredential(b)
        BY <4>7 DEF ReplaceProxmoxCredential, Doing
      <4> QED BY <2>4, <4>1, <4>2, <4>3, <4>4, <4>5, <4>6, <4>7
    <3>3. CASE b # a
      BY <1>3, <3>2, <3>3, OthersLeave
    <3> QED BY <3>1, <3>3
  <2>5. ASSUME ReceiptExpires \/ \E t \in tests : SaveConnection(t) PROVE WillBeKnown(n)
    <3>1. UNCHANGED asked
      BY <2>5 DEF ReceiptExpires, SaveConnection
    <3> QED BY SMTT(40), <1>3, <3>1, OthersLeave
  <2>6. CASE \E e \in Endpoint :
                 \/ Previews(e) \/ DeleteConnector(e) \/ SetRowStatus(e) \/ Lease(e)
                 \/ \E b \in Admin : ReapproveCertificate(b, e) \/ RemovalCredential(b, e)
                 \/ \E to \in Endpoint : TestConnection(e, to)
    BY <2>1, <2>2, <2>3, <2>6
  <2> QED BY <2>4, <2>5, <2>6, CredCases
<1>4. CASE n \in told \cup abandoned
  BY <1>0, <1>4 DEF WillBeKnown
<1>5. account[n].there \/ Appears(n)
  BY AccountSteps DEF Undone, Removed
<1> QED BY <1>0, <1>1, <1>2, <1>3, <1>4, <1>5 DEF NoneIsForgotten
----------------------------------------------------------------------------
(* What holds of every behaviour *)

LEMMA CredInitially == CredInit => CredInv
<1> SUFFICES ASSUME CredInit PROVE CredInv
  OBVIOUS
<1>1. product \in AccessKind /\ receipts = {} /\ tests = {} /\ told = {} /\ serial = 0
  BY DEF CredInit
<1>2. /\ \A e \in Endpoint : registry[e] = NoRow /\ ~Connected(e)
      /\ \A a \in Admin : asked[a] = OpIdle
      /\ \A n \in Account : account[n].home = NoEndpoint /\ ~account[n].there
  BY DEF CredInit, Connected, NoRow
<1>3. Importing = {} /\ Removing = {} /\ \A a \in Admin : asked[a].at # "reapproving"
  BY <1>2 DEF Importing, Removing, OpIdle
<1>4. CredTypes
  BY <1>1, CredentialConstants DEF CredInit, CredTypes, CredentialConstants
<1>5. \A e, f \in Endpoint : ~(Connected(e) /\ registry[e].id = registry[f].id)
  BY <1>2
<1>6. NumbersAreUnique /\ PendingSucceeds /\ AccountsAreManaged
  BY <1>1, <1>2, <1>3, <1>5 DEF NumbersAreUnique, PendingSucceeds, AccountsAreManaged
<1>7. \A n \in Account : ~Held(n) /\ \A a \in Admin : ~Installs(a, n)
  BY <1>1, <1>2, <1>3 DEF Held, Installs
<1>8. CredentialsFit
  BY <1>2 DEF CredentialsFit, Managed
<1>9. HomesFit /\ HoldersAgree /\ NoneIsForgotten /\ RemovalsTell
  BY <1>2, <1>3, <1>7, <1>8 DEF HomesFit, HoldersAgree, NoneIsForgotten, RemovalsTell
<1> QED BY <1>4, <1>6, <1>9 DEF CredInv

LEMMA CredNextKeeps == CredInv /\ [CredNext]_credVars => CredInv'
<1>1. ASSUME CredInv, CredNext PROVE CredInv'
  <2>1. CredTypes' /\ NumbersAreUnique'
    BY <1>1, TypesStep, NumbersStep DEF CredInv
  <2>2. PendingSucceeds' /\ AccountsAreManaged'
    BY <1>1, <2>1, PendingStep, ManagedStep DEF CredInv
  <2>3. HomesFit' /\ HoldersAgree' /\ NoneIsForgotten' /\ RemovalsTell'
    BY <1>1, <2>1, HomesStep, HoldersStep, NoneForgottenStep, RemovalsStep
  <2> QED BY <2>1, <2>2, <2>3 DEF CredInv
<1>2. ASSUME CredInv, UNCHANGED credVars PROVE CredInv'
  <2>1. CredTypes' /\ NumbersAreUnique' /\ PendingSucceeds'
    BY <1>2 DEF credVars, CredInv, CredTypes, NumbersAreUnique, PendingSucceeds, Succeeds, Connected
  <2>2. AccountsAreManaged' /\ HomesFit'
    BY <1>2 DEF credVars, CredInv, AccountsAreManaged, ReceiptFits, HomesFit, CredentialsFit, HomeOf,
                Installs, Held, Importing, Removing, Connected, Managed
  <2>3. HoldersAgree' /\ NoneIsForgotten' /\ RemovalsTell'
    BY <1>2 DEF credVars, CredInv, HoldersAgree, Installs, Held, Kept, NoneIsForgotten, RemovalsTell,
                Importing, Removing, Connected, Managed
  <2> QED BY <2>1, <2>2, <2>3 DEF CredInv
<1> QED BY <1>1, <1>2

\* Whatever administrators replace, however requests interleave, connectors open
\* their credentials with what they were sealed for (connection_store.go), and
\* the removal of a managed Proxmox goes to the endpoint where its account was
\* created.
THEOREM AccessFits == CredSpec => []CredentialsFit
<1>1. CredInv => CredentialsFit
  BY DEF CredInv, HomesFit
<1> QED BY <1>1, CredInitially, CredNextKeeps, PTL DEF CredSpec

\* No account that CairnOps created in Proxmox is forgotten while its process
\* lives, and a connector has its account until administrators were told
\* otherwise (ImportProxmox and RemoveProxmox, proxmox.go): any number of
\* imports, failures, lost answers and removals.
THEOREM NoAccountIsLost == CredSpec => []AccountsAgree
<1>1. ASSUME CredInv PROVE AccountsAgree
  <2>1. ASSUME product = "proxmox", NEW n \in Account, account[n].there PROVE Known(n)
    BY <1>1, <2>1 DEF CredInv, NoneIsForgotten, Installs, Known, Importing
  <2>2. ASSUME NEW e \in Endpoint, Managed(e)
        PROVE  account[registry[e].managed].there \/ registry[e].managed \in told
    <3>1. registry[e] \in Row /\ registry[e].managed # NoAccount /\ Connected(e)
      BY <1>1, <2>2, Shape DEF CredInv, AccountsAreManaged, Managed
    <3>2. registry[e].managed \in Account
      BY <3>1 DEF Row
    <3>3. Held(registry[e].managed)
      BY <3>1 DEF Held
    <3> QED BY <1>1, <3>2, <3>3 DEF CredInv, HoldersAgree, Kept
  <2> QED BY <2>1, <2>2 DEF AccountsAgree
<1> QED BY <1>1, CredInitially, CredNextKeeps, PTL DEF CredSpec

LEMMA PinsStep ==
    ASSUME CredInv, CredNext, NEW e \in Endpoint, NEW f \in Endpoint
    PROVE  PinAdvances(e, f)
<1> SUFFICES ASSUME product = "proxmox", Connected(e), registry'[f].id = registry[e].id
             PROVE  registry'[f].cred.pin >= registry[e].cred.pin
  BY DEF PinAdvances
<1>1. RowsAdvance /\ NumbersAreUnique /\ serial \in Nat /\ Connected(f)'
  BY NumbersStep DEF CredInv, CredTypes, Connected
<1>2. registry[e].id \in Nat /\ registry[e].id <= serial /\ registry[e].cred.pin \in Nat
  BY <1>1, NumbersOfRows DEF CredInv, NumbersAreUnique
<1>3. PICK g \in Endpoint :
        /\ Connected(g) /\ registry[g].id = registry'[f].id
        /\ \/ g = f /\ registry'[f].cred = registry[g].cred
           \/ registry'[f].cred.pin >= registry[g].cred.pin
  BY <1>1, <1>2 DEF RowsAdvance
<1>4. g = e
  BY <1>1, <1>3 DEF NumbersAreUnique
<1> QED BY <1>2, <1>3, <1>4

\* A test that began before an approval never overwrites its certificate: the
\* number of the credential that the test read (UpdateConnection) protects it,
\* for any number of concurrent tests, approvals and imports.
THEOREM ApprovalsAreNotUndone == CredSpec => PinsAdvance
<1>1. CredInv /\ [CredNext]_credVars => [\A e, f \in Endpoint : PinAdvances(e, f)]_credVars
  BY PinsStep
<1> QED BY <1>1, CredInitially, CredNextKeeps, PTL DEF CredSpec, PinsAdvance

=============================================================================
