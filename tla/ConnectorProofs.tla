-------------------------- MODULE ConnectorProofs --------------------------
(***************************************************************************)
(* Proofs about what the server exchanges with the products it reads and   *)
(* with those that call it: the quarantine of a webhook, OpenID Connect,   *)
(* the synchronisers of a connector and the acknowledgement of incidents.  *)
(***************************************************************************)
EXTENDS Webhooks, ExternalIdentity, ConnectorSync, Acknowledgement, FiniteSetTheorems, TLAPS

----------------------------------------------------------------------------
(* Webhooks: nothing that was answered is lost *)

HookTypes ==
    /\ hook \in {"connected", "disabled", "gone"} /\ bound \in BOOLEAN
    /\ kept \in [event : Nat, approved : BOOLEAN]
    /\ routed \in Nat /\ answered \subseteq 1..routed
    /\ request = [r \in Receiver |-> request[r]]
    /\ approval = [a \in Approver |-> approval[a]]

\* A request between the two halves of a routing holds the lock; what it found
\* is still so, and its event is the last one.
RoutingsExclude ==
    \A r \in Receiver :
        /\ request[r].at \in {"found", "unknown"} => locked = r
        /\ request[r].at = "unknown" => request[r].event = routed /\ ~bound
        /\ request[r].at \in {"found", "unknown", "applying"} => request[r].event \in 1..routed

\* An approval in progress is one of the row that is kept: nothing is
\* quarantined once the identity is bound.
ApprovalsAreOfTheRow ==
    hook # "gone" =>
        \A a \in Approver :
            /\ approval[a].at = "replaying" => bound /\ approval[a].event = kept.event
            /\ approval[a].at = "completing" => bound /\ kept.event \in applied

HookInv == HookTypes /\ RoutingsExclude /\ ApprovalsAreOfTheRow /\ NothingLost

LEMMA HookInitially == HookInit => HookInv
<1> SUFFICES ASSUME HookInit PROVE HookInv
  OBVIOUS
<1>1. HookTypes
  BY DEF HookInit, HookTypes, NothingKept
<1>2. RoutingsExclude /\ ApprovalsAreOfTheRow
  BY DEF HookInit, HookIdle, RoutingsExclude, ApprovalsAreOfTheRow
<1>3. NothingLost
  BY DEF HookInit, NothingLost
<1> QED BY <1>1, <1>2, <1>3 DEF HookInv

LEMMA HookNextKeeps == HookInv /\ [HookNext]_hookVars => HookInv'
<1> SUFFICES ASSUME HookInv, [HookNext]_hookVars PROVE HookInv'
  OBVIOUS
<1> USE DEF HookInv, HookTypes, RoutingsExclude, ApprovalsAreOfTheRow
<1>1. ASSUME NEW r \in Receiver, Authenticate(r) PROVE HookInv'
  BY <1>1 DEF Authenticate, Serving, NothingLost
<1>2. ASSUME NEW r \in Receiver, FindBinding(r) PROVE HookInv'
  BY <1>2, WebhookConstants DEF WebhookConstants, FindBinding, Serving, LockFree, NothingLost
<1>3. ASSUME NEW r \in Receiver, RouteToBinding(r) PROVE HookInv'
  BY <1>3, WebhookConstants DEF WebhookConstants, RouteToBinding, Serving, NothingLost
<1>4. ASSUME NEW r \in Receiver, Quarantine(r) PROVE HookInv'
  BY <1>4, WebhookConstants DEF WebhookConstants, Quarantine, Serving, HookIdle, NothingLost
<1>5. ASSUME NEW r \in Receiver, ApplyLive(r) PROVE HookInv'
  BY <1>5 DEF ApplyLive, Serving, HookIdle, NothingLost
<1>6. ASSUME NEW r \in Receiver, ReceiveFails(r) PROVE HookInv'
  BY <1>6, WebhookConstants DEF WebhookConstants, ReceiveFails, Serving, HookIdle, NothingLost
<1>7. ASSUME NEW a \in Approver, ApproveWebhookIdentity(a) PROVE HookInv'
  BY <1>7, WebhookConstants DEF WebhookConstants, ApproveWebhookIdentity, Approving, LockFree, NothingLost
<1>8. ASSUME NEW a \in Approver, Replay(a) PROVE HookInv'
  BY <1>8 DEF Replay, Approving, NothingLost
<1>9. ASSUME NEW a \in Approver, CompleteWebhookApproval(a) PROVE HookInv'
  BY <1>9 DEF CompleteWebhookApproval, Approving, HookIdle, NothingLost
<1>10. ASSUME NEW a \in Approver, ApprovalFails(a) PROVE HookInv'
  BY <1>10 DEF ApprovalFails, Approving, HookIdle, NothingLost
<1>11. ASSUME SuspendOrResume PROVE HookInv'
  BY <1>11 DEF SuspendOrResume, HookOperation, NothingLost
<1>12. ASSUME DeleteWebhook PROVE HookInv'
  BY <1>12 DEF DeleteWebhook, NothingKept, NothingLost
<1>13. ASSUME UNCHANGED hookVars PROVE HookInv'
  BY <1>13 DEF hookVars, NothingLost
<1> QED
  BY <1>1, <1>2, <1>3, <1>4, <1>5, <1>6, <1>7, <1>8, <1>9, <1>10, <1>11, <1>12, <1>13
     DEF HookNext, Receive, Approve

\* An event whose sender was answered is applied, waits to be approved, or was
\* replaced by a newer one of which this holds, whatever fails between the
\* binding of an identity and the end of its replay (webhooks.go).
THEOREM HookLosesNothing == HookSpec => []NothingLost
<1>1. HookInv => NothingLost
  BY DEF HookInv
<1> QED BY <1>1, HookInitially, HookNextKeeps, PTL DEF HookSpec

----------------------------------------------------------------------------
(* OpenID Connect: a configuration is tested before it is active *)

TestInv ==
    /\ drafts \in Nat /\ draft \in [id : Nat, tested : BOOLEAN]
    /\ ActiveWasTested
    /\ draft.tested => draft.id \in passed

LEMMA TestInitially == ExtInit => TestInv
BY ExternalConstants DEF ExternalConstants, ExtInit, TestInv, ActiveWasTested

LEMMA TestNextKeeps == TestInv /\ [ExtNext]_extVars => TestInv'
<1> SUFFICES ASSUME TestInv, [ExtNext]_extVars PROVE TestInv'
  OBVIOUS
<1> USE DEF TestInv, ActiveWasTested
<1>1. CASE SaveDraft
  BY <1>1 DEF SaveDraft
<1>2. CASE Activate
  BY <1>2 DEF Activate
<1>3. ASSUME NEW b \in Browser, CompleteTest(b) PROVE TestInv'
  <2>1. CASE UNCHANGED <<draft, passed>>
    BY <1>3, <2>1 DEF CompleteTest
  <2>2. CASE /\ draft' = [draft EXCEPT !.tested = @ \/ Tested(b)]
             /\ passed' = passed \cup {callback[b].flow.configuration}
    BY <1>3, <2>2 DEF CompleteTest, Tested
  <2> QED BY <1>3, <2>1, <2>2 DEF CompleteTest
<1>4. CASE UNCHANGED settings
  BY <1>4 DEF settings
<1> QED
  BY <1>1, <1>2, <1>3, <1>4
     DEF ExtNext, extVars, settings, Begin, FlowExpires, ClaimFlow, ReadClaims, CallbackFails,
         SuspendByIdentity, ApplyExternalLogin, ClaimAccess, SyncStep, Refused, RefreshAccess,
         ProviderFails, Succeed, Fail, SyncDies, Syncing, SyncLeaseLapses, GraceEnds,
         GroupsChange, ProviderGoes, SetExternalActivation, ExtRest

\* The configuration that logins use went through its interactive test, also
\* when a draft is replaced while its test is under way (oidcauth.Activate).
THEOREM ActiveIsTested == ExtSpec => []ActiveWasTested
<1>1. TestInv => ActiveWasTested
  BY DEF TestInv
<1> QED BY <1>1, TestInitially, TestNextKeeps, PTL DEF ExtSpec

----------------------------------------------------------------------------
(* OpenID Connect: a synchronisation never undoes a later login *)

Role == {"none", "observer", "administrator", "refused", "unavailable"}

UserRow ==
    [known : BOOLEAN, role : Role, suspended : BOOLEAN, deactivated : BOOLEAN, good : BOOLEAN,
     owner : Synchronizer \cup {noone}, held : BOOLEAN, late : BOOLEAN]

\* What a callback or a synchroniser holds, whatever it holds besides.
Holds(h, n) ==
    /\ h = [x \in DOMAIN h |-> h[x]]
    /\ {"at", "good", "version", "role"} \subseteq DOMAIN h
    /\ h.good \in BOOLEAN /\ h.role \in Role /\ h.version \in 0..n

AllHold(f, S, n) == f = [x \in S |-> f[x]] /\ \A x \in S : Holds(f[x], n)

LoginTypes ==
    /\ groups \in [version : Nat, role : {"none", "observer", "administrator"}]
    /\ reading \in 0..groups.version /\ extFaults \in Nat
    /\ ext \in UserRow
    /\ AllHold(callback, Browser, groups.version)
    /\ AllHold(syncing, Synchronizer, groups.version)

\* Only the answer of the lease in force can be applied, and no login came after it.
LeasedIsFresh ==
    \A s \in Synchronizer :
        Owned(s) /\ syncing[s].at = "answered" /\ syncing[s].role \in {"observer", "administrator"}
        => syncing[s].version >= reading

LoginInv == LoginTypes /\ LeasedIsFresh

LEMMA LoginInitially == ExtInit => LoginInv
<1> SUFFICES ASSUME ExtInit PROVE LoginInv
  OBVIOUS
<1>1. ext \in UserRow
  <2>1. Stranger \in UserRow /\ "observer" \in Role
    BY DEF Stranger, UserRow, Role
  <2>2. [Stranger EXCEPT !.known = TRUE, !.role = "observer", !.good = TRUE] \in UserRow
    BY <2>1 DEF UserRow
  <2> QED BY <2>1, <2>2 DEF ExtInit
<1>2. \A n \in Nat : Holds(ExtIdle, n)
  BY DEF ExtIdle, Holds, Role
<1>3. /\ groups \in [version : Nat, role : {"none", "observer", "administrator"}]
      /\ reading \in 0..groups.version /\ extFaults \in Nat
  BY DEF ExtInit
<1>4. /\ AllHold(callback, Browser, groups.version)
      /\ AllHold(syncing, Synchronizer, groups.version)
  BY <1>2, <1>3 DEF ExtInit, AllHold
<1>5. LeasedIsFresh
  BY DEF ExtInit, ExtIdle, LeasedIsFresh
<1> QED BY <1>1, <1>3, <1>4, <1>5 DEF LoginInv, LoginTypes

\* One caller moves on.
LEMMA MoveHolds ==
    ASSUME NEW S, NEW f, NEW n, AllHold(f, S, n), NEW x \in S, NEW h, Holds(h, n),
           NEW g, g = [f EXCEPT ![x] = h]
    PROVE  AllHold(g, S, n)
BY DEF AllHold

\* A rotation spoils tokens and leaves what was read alone.
LEMMA SpoiltHolds ==
    ASSUME NEW S, NEW f, NEW n \in Nat, AllHold(f, S, n)
    PROVE  LET g == Spoilt(f) IN
           /\ AllHold(g, S, n)
           /\ \A x \in S : /\ g[x].at = f[x].at /\ g[x].role = f[x].role
                           /\ g[x].version = f[x].version
<1>1. ASSUME NEW h, Holds(h, n)
      PROVE  LET t == [h EXCEPT !.good = FALSE] IN
             Holds(t, n) /\ t.at = h.at /\ t.role = h.role /\ t.version = h.version
  BY <1>1 DEF Holds
<1>2. Spoilt(f) = [x \in S |-> [f[x] EXCEPT !.good = FALSE]]
  BY DEF Spoilt, AllHold
<1> QED BY <1>1, <1>2 DEF AllHold

LEMMA LoginNextKeeps == LoginInv /\ [ExtNext]_extVars => LoginInv'
<1> SUFFICES ASSUME LoginInv, [ExtNext]_extVars PROVE LoginInv'
  OBVIOUS
<1> DEFINE N == groups.version
<1>0. /\ N \in Nat /\ noone \notin Synchronizer
      /\ AllHold(callback, Browser, N) /\ AllHold(syncing, Synchronizer, N)
  BY ExternalConstants DEF LoginInv, LoginTypes, ExternalConstants
<1>1. Holds(ExtIdle, N)
  BY <1>0 DEF Holds, ExtIdle, Role
\* A callback moves on, or a rotation spoils the tokens of all.
<1>2. ASSUME AllHold(callback', Browser, N), UNCHANGED <<groups, reading, extFaults>>,
             ext' \in UserRow, ext'.owner = ext.owner,
             AllHold(syncing', Synchronizer, N),
             \A s \in Synchronizer : /\ syncing'[s].at = syncing[s].at
                                     /\ syncing'[s].role = syncing[s].role
                                     /\ syncing'[s].version = syncing[s].version
      PROVE  LoginInv'
  BY <1>2 DEF LoginInv, LoginTypes, LeasedIsFresh, Owned
<1>3. ASSUME NEW b \in Browser, NEW f, ClaimFlow(b, f) PROVE LoginInv'
  <2> DEFINE h == [at |-> "claimed", good |-> FALSE, version |-> 0, role |-> "none", flow |-> f]
  <2>1. Holds(h, N)
    BY <1>0 DEF Holds, Role
  <2>2. callback' = [callback EXCEPT ![b] = h]
    BY <1>3 DEF ClaimFlow, Calling
  <2>3. AllHold(callback', Browser, N)
    <3> HIDE DEF h, N
    <3> QED BY <1>0, <2>1, <2>2, MoveHolds
  <2> QED BY <1>2, <1>3, <2>3 DEF ClaimFlow, LoginInv, LoginTypes
<1>4. ASSUME NEW b \in Browser, ReadClaims(b) PROVE LoginInv'
  <2> PICK rotates \in BOOLEAN :
          /\ callback' = [IF rotates THEN Spoilt(callback) ELSE callback EXCEPT
                            ![b] = [@ EXCEPT !.at = "read", !.good = TRUE, !.version = groups.version,
                                             !.role = groups.role]]
          /\ syncing' = IF rotates THEN Spoilt(syncing) ELSE syncing
          /\ ext' = [ext EXCEPT !.good = @ /\ ~rotates]
    BY <1>4 DEF ReadClaims
  <2> DEFINE f == IF rotates THEN Spoilt(callback) ELSE callback
             h == [f[b] EXCEPT !.at = "read", !.good = TRUE, !.version = N, !.role = groups.role]
  <2>1. AllHold(f, Browser, N)
    BY <1>0, SpoiltHolds DEF LoginInv, LoginTypes
  <2>2. groups.role \in Role /\ N \in 0..N
    BY <1>0 DEF LoginInv, LoginTypes, Role
  <2>3. callback' = [f EXCEPT ![b] = h]
    OBVIOUS
  <2> HIDE DEF f
  <2>4. AllHold(callback', Browser, N)
    <3>1. Holds(f[b], N)
      BY <2>1 DEF AllHold
    <3>2. Holds(h, N)
      BY <1>0, <2>2, <3>1 DEF Holds
    <3> HIDE DEF h, N
    <3> QED BY <2>1, <2>3, <3>2, MoveHolds
  <2>5. /\ AllHold(syncing', Synchronizer, N)
        /\ \A s \in Synchronizer : /\ syncing'[s].at = syncing[s].at
                                   /\ syncing'[s].role = syncing[s].role
                                   /\ syncing'[s].version = syncing[s].version
    BY <1>0, SpoiltHolds DEF LoginInv, LoginTypes
  <2>6. ext' \in UserRow /\ ext'.owner = ext.owner
    BY DEF LoginInv, LoginTypes, UserRow
  <2> QED BY <1>2, <1>4, <2>4, <2>5, <2>6 DEF ReadClaims
<1>5. ASSUME NEW b \in Browser, CallbackFails(b) \/ CompleteTest(b) \/ SuspendByIdentity(b)
      PROVE LoginInv'
  <2>1. AllHold(callback', Browser, N)
    <3>1. callback' = [callback EXCEPT ![b] = ExtIdle]
      BY <1>5 DEF CallbackFails, CompleteTest, SuspendByIdentity, Calling
    <3> HIDE DEF N
    <3> QED BY <1>0, <1>1, <3>1, MoveHolds
  <2>2. ext' \in UserRow /\ ext'.owner = ext.owner
    BY ZenonT(60), <1>5 DEF CallbackFails, CompleteTest, SuspendByIdentity, LoginInv, LoginTypes, UserRow
  <2>3. extFaults' \in Nat /\ UNCHANGED <<groups, reading, syncing>>
    BY <1>5 DEF CallbackFails, CompleteTest, SuspendByIdentity, ExtFault, LoginInv, LoginTypes
  <2> QED BY <2>1, <2>2, <2>3 DEF LoginInv, LoginTypes, LeasedIsFresh, Owned
<1>6. ASSUME NEW b \in Browser, ApplyExternalLogin(b) PROVE LoginInv'
  <2>1. AllHold(callback', Browser, N)
    <3>1. callback' = [callback EXCEPT ![b] = ExtIdle]
      BY <1>6 DEF ApplyExternalLogin, Calling
    <3> HIDE DEF N
    <3> QED BY <1>0, <1>1, <3>1, MoveHolds
  <2>2. /\ callback[b].version \in 0..N /\ callback[b].role \in Role
        /\ callback[b].good \in BOOLEAN
    BY DEF LoginInv, LoginTypes, AllHold, Holds
  <2>3. /\ ext' \in UserRow
        /\ \/ UNCHANGED <<ext, reading>>
           \/ ext'.owner = noone /\ reading' = callback[b].version
    <3> PICK issued \in BOOLEAN :
            IF ext.deactivated \/ (~issued /\ ~ext.known) THEN UNCHANGED <<ext, reading>>
            ELSE /\ ext' = [LoginEndsLease(ext) EXCEPT
                               !.known = TRUE, !.role = callback[b].role, !.suspended = FALSE,
                               !.good = IF issued THEN callback[b].good ELSE @, !.late = FALSE]
                 /\ reading' = callback[b].version
      BY <1>6 DEF ApplyExternalLogin
    <3>1. CASE UNCHANGED <<ext, reading>>
      BY <3>1 DEF LoginInv, LoginTypes
    <3>2. CASE ~UNCHANGED <<ext, reading>>
      <4>1. LoginEndsLease(ext) \in UserRow /\ LoginEndsLease(ext).owner = noone
        BY DEF LoginEndsLease, LoginInv, LoginTypes, UserRow
      <4> DEFINE user == LoginEndsLease(ext)
                 good == IF issued THEN callback[b].good ELSE user.good
      <4>2. good \in BOOLEAN
        BY <2>2, <4>1 DEF UserRow
      <4>3. /\ ext' = [user EXCEPT !.known = TRUE, !.role = callback[b].role, !.suspended = FALSE,
                                  !.good = good, !.late = FALSE]
            /\ reading' = callback[b].version
        BY <3>2
      <4> HIDE DEF user, good
      <4> QED BY ZenonT(60), <2>2, <4>1, <4>2, <4>3 DEF UserRow, user
    <3> QED BY <3>1, <3>2
  <2>4. UNCHANGED <<groups, extFaults, syncing>>
    BY <1>6 DEF ApplyExternalLogin
  <2> QED BY <1>0, <2>1, <2>2, <2>3, <2>4 DEF LoginInv, LoginTypes, LeasedIsFresh, Owned
<1>7. ASSUME NEW s \in Synchronizer, ClaimAccess(s) PROVE LoginInv'
  <2> DEFINE h == [at |-> "claimed", good |-> ext.good, version |-> 0, role |-> "none",
                   late |-> ext.late]
  <2>1. Holds(h, N) /\ h.at = "claimed"
    BY <1>0 DEF Holds, Role, LoginInv, LoginTypes, UserRow
  <2>2. syncing' = [syncing EXCEPT ![s] = h]
    BY <1>7 DEF ClaimAccess, Syncing
  <2> HIDE DEF h
  <2>3. /\ AllHold(syncing', Synchronizer, N)
        /\ syncing'[s] = h /\ \A t \in Synchronizer : t # s => syncing'[t] = syncing[t]
    <3>2. AllHold(syncing', Synchronizer, N)
      <4> HIDE DEF N
      <4> QED BY <1>0, <2>1, <2>2, MoveHolds
    <3> QED BY <1>0, <2>1, <2>2, <3>2 DEF AllHold
  <2>4. ext' \in UserRow /\ ext'.owner = s
    BY <1>7 DEF ClaimAccess, LoginInv, LoginTypes, UserRow
  <2> QED BY <1>7, <2>1, <2>3, <2>4 DEF ClaimAccess, Syncing, LoginInv, LoginTypes, LeasedIsFresh, Owned
<1>8. ASSUME NEW s \in Synchronizer, Refused(s) \/ ProviderFails(s) PROVE LoginInv'
  <2>1. PICK r \in {"refused", "unavailable"} :
           syncing' = [syncing EXCEPT ![s] = [syncing[s] EXCEPT !.at = "answered", !.role = r]]
    BY <1>8 DEF Refused, ProviderFails, Syncing
  <2> DEFINE h == [syncing[s] EXCEPT !.at = "answered", !.role = r]
  <2>2. Holds(h, N) /\ h.role = r
    <3>1. Holds(syncing[s], N) /\ r \in Role
      BY <1>0 DEF AllHold, Role
    <3> QED BY <3>1 DEF Holds
  <2> HIDE DEF h
  <2>3. syncing' = [syncing EXCEPT ![s] = h]
    BY <2>1 DEF h
  <2>4. /\ AllHold(syncing', Synchronizer, N)
        /\ syncing'[s] = h /\ \A t \in Synchronizer : t # s => syncing'[t] = syncing[t]
    <3>2. AllHold(syncing', Synchronizer, N)
      <4> HIDE DEF N
      <4> QED BY <1>0, <2>2, <2>3, MoveHolds
    <3> QED BY <1>0, <2>2, <2>3, <3>2 DEF AllHold
  <2>5. extFaults' \in Nat /\ UNCHANGED <<groups, reading, callback, ext>>
    BY <1>8 DEF Refused, ProviderFails, Syncing, ExtFault, LoginInv, LoginTypes
  <2> QED BY <2>2, <2>4, <2>5, <1>0 DEF LoginInv, LoginTypes, LeasedIsFresh, Owned
<1>9. ASSUME NEW s \in Synchronizer, RefreshAccess(s) PROVE LoginInv'
  <2> PICK rotates \in BOOLEAN :
          /\ syncing' = [IF rotates THEN Spoilt(syncing) ELSE syncing EXCEPT
                            ![s] = [@ EXCEPT !.at = "answered", !.good = TRUE, !.version = groups.version,
                                             !.role = groups.role]]
          /\ callback' = IF rotates THEN Spoilt(callback) ELSE callback
          /\ ext' = [ext EXCEPT !.good = @ /\ ~rotates]
    BY <1>9 DEF RefreshAccess
  <2> DEFINE f == IF rotates THEN Spoilt(syncing) ELSE syncing
             h == [f[s] EXCEPT !.at = "answered", !.good = TRUE, !.version = N, !.role = groups.role]
  <2>1. /\ AllHold(f, Synchronizer, N)
        /\ \A t \in Synchronizer : /\ f[t].at = syncing[t].at /\ f[t].role = syncing[t].role
                                   /\ f[t].version = syncing[t].version
    BY <1>0, SpoiltHolds DEF LoginInv, LoginTypes
  <2>2. groups.role \in Role /\ N \in 0..N
    BY <1>0 DEF LoginInv, LoginTypes, Role
  <2>3. syncing' = [f EXCEPT ![s] = h]
    OBVIOUS
  <2> HIDE DEF f
  <2>9. Holds(h, N) /\ h.version = N
    <3>1. Holds(f[s], N)
      BY <2>1 DEF AllHold
    <3> QED BY <1>0, <2>2, <3>1 DEF Holds
  <2> HIDE DEF h
  <2>4. /\ AllHold(syncing', Synchronizer, N)
        /\ syncing'[s] = h /\ \A t \in Synchronizer : t # s => syncing'[t] = f[t]
    <3>2. AllHold(syncing', Synchronizer, N)
      <4> HIDE DEF N
      <4> QED BY <2>1, <2>9, <2>3, MoveHolds
    <3> QED BY <2>1, <2>9, <2>3, <3>2 DEF AllHold
  <2>5. AllHold(callback', Browser, N)
    BY <1>0, SpoiltHolds DEF LoginInv, LoginTypes
  <2>6. ext' \in UserRow /\ ext'.owner = ext.owner
    BY DEF LoginInv, LoginTypes, UserRow
  <2>7. reading \in 0..N /\ UNCHANGED <<groups, reading, extFaults>>
    BY <1>9 DEF RefreshAccess, LoginInv, LoginTypes
  <2>8. LeasedIsFresh'
    BY <2>1, <2>9, <2>4, <2>6, <2>7 DEF LoginInv, LeasedIsFresh, Owned
  <2> QED BY <2>4, <2>5, <2>6, <2>7, <2>8 DEF LoginInv, LoginTypes
<1>10. ASSUME NEW s \in Synchronizer, Succeed(s) \/ Fail(s) \/ SyncDies(s) PROVE LoginInv'
  <2>1. /\ AllHold(syncing', Synchronizer, N)
        /\ syncing'[s] = ExtIdle /\ \A t \in Synchronizer : t # s => syncing'[t] = syncing[t]
    <3>1. syncing' = [syncing EXCEPT ![s] = ExtIdle]
      BY <1>10 DEF Succeed, Fail, SyncDies, Syncing
    <3>2. AllHold(syncing', Synchronizer, N)
      <4> HIDE DEF N
      <4> QED BY <1>0, <1>1, <3>1, MoveHolds
    <3> QED BY <1>0, <1>1, <3>1, <3>2 DEF AllHold
  <2>2. syncing[s].role \in Role /\ syncing[s].good \in BOOLEAN
    BY DEF LoginInv, LoginTypes, AllHold, Holds
  <2>3. CASE Succeed(s) /\ ext' = Verified(s)
    <3> ext' \in UserRow /\ ext'.owner = noone
      <4> DEFINE user == LoginEndsLease(ext)
      <4>1. user \in UserRow /\ user.owner = noone
        BY DEF LoginEndsLease, LoginInv, LoginTypes, UserRow
      <4>2. ext' = [user EXCEPT !.role = syncing[s].role, !.suspended = FALSE,
                               !.good = syncing[s].good, !.late = FALSE]
        BY <2>3 DEF Verified
      <4> HIDE DEF user
      <4> QED BY <2>2, <4>1, <4>2 DEF UserRow
    <3> QED
      BY <1>0, <2>1, <2>3
         DEF Succeed, Syncing, ExtIdle, LoginInv, LoginTypes, LeasedIsFresh, Owned
  <2>4. CASE Fail(s) /\ ext' = [LoginEndsLease(ext) EXCEPT !.suspended = ext.suspended \/ Suspends(s)]
    <3> ext' \in UserRow /\ ext'.owner = noone
      BY <2>4 DEF LoginEndsLease, Suspends, LoginInv, LoginTypes, UserRow
    <3> QED
      BY <1>0, <2>1, <2>4
         DEF Fail, Syncing, ExtIdle, LoginInv, LoginTypes, LeasedIsFresh, Owned
  <2>5. CASE UNCHANGED ext
    BY <1>10, <2>1, <2>5
       DEF Succeed, Fail, SyncDies, ExtFault, Syncing, ExtIdle, LoginInv, LoginTypes, LeasedIsFresh,
           Owned
  <2> QED BY <1>10, <2>3, <2>4, <2>5 DEF Succeed, Fail, SyncDies
<1>11. ASSUME SyncLeaseLapses \/ GraceEnds \/ SetExternalActivation PROVE LoginInv'
  <2>1. ext' \in UserRow /\ ext'.owner = ext.owner
    BY ZenonT(60), <1>11 DEF SyncLeaseLapses, GraceEnds, SetExternalActivation, LoginInv, LoginTypes, UserRow
  <2>3. extFaults' \in Nat
    BY <1>11 DEF SyncLeaseLapses, GraceEnds, SetExternalActivation, ExtFault, LoginInv, LoginTypes
  <2>2. UNCHANGED <<callback, syncing, groups, reading>>
    BY <1>11 DEF SyncLeaseLapses, GraceEnds, SetExternalActivation, ExtRest
  <2> QED BY <2>1, <2>2, <2>3 DEF LoginInv, LoginTypes, LeasedIsFresh, Owned
<1>12. ASSUME GroupsChange PROVE LoginInv'
  <2>1. \A h : Holds(h, N) => Holds(h, N + 1)
    BY <1>0 DEF Holds
  <2>2. /\ groups' \in [version : Nat, role : {"none", "observer", "administrator"}]
        /\ groups'.version = N + 1
    BY <1>0, <1>12 DEF GroupsChange
  <2> QED
    BY <1>0, <1>12, <2>1, <2>2
       DEF GroupsChange, ExtRest, AllHold, LoginInv, LoginTypes, LeasedIsFresh, Owned
<1>13. CASE UNCHANGED <<callback, groups, ext, syncing, reading, extFaults>>
  BY SMTT(40), <1>13 DEF LoginInv, LoginTypes, LeasedIsFresh, Owned
<1> QED
  BY <1>3, <1>4, <1>5, <1>6, <1>7, <1>8, <1>9, <1>10, <1>11, <1>12, <1>13
     DEF ExtNext, SyncStep, extVars, SaveDraft, Activate, Begin, FlowExpires, ProviderGoes, ExtRest

LEMMA StepGivesNoOlderRole ==
    ASSUME LoginInv, [ExtNext]_extVars, NEW s \in Synchronizer
    PROVE  GivesNoOlderRole(s)
<1> SUFFICES ASSUME syncing[s].at = "answered", syncing'[s].at = "idle",
                    extFaults' = extFaults, ext'.role # ext.role
             PROVE  syncing[s].version >= reading
  BY DEF GivesNoOlderRole
<1>0. /\ groups.version \in Nat /\ extFaults \in Nat /\ ext \in UserRow
      /\ AllHold(callback, Browser, groups.version)
      /\ AllHold(syncing, Synchronizer, groups.version)
  BY DEF LoginInv, LoginTypes
<1>1. ASSUME Succeed(s) PROVE syncing[s].version >= reading
  BY <1>1 DEF Succeed, LoginInv, LeasedIsFresh
<1>2. ASSUME Fail(s) PROVE FALSE
  BY <1>0, <1>2 DEF Fail, LoginEndsLease, UserRow
<1>3. ASSUME SyncDies(s) PROVE FALSE
  BY <1>0, <1>3 DEF SyncDies, ExtFault
<1>4. ASSUME NEW t \in Synchronizer, t # s,
             \/ ClaimAccess(t) \/ Refused(t) \/ ProviderFails(t) \/ Succeed(t) \/ Fail(t) \/ SyncDies(t)
      PROVE  FALSE
  BY <1>0, <1>4 DEF ClaimAccess, Refused, ProviderFails, Succeed, Fail, SyncDies, Syncing, AllHold
<1>5. ASSUME ClaimAccess(s) \/ Refused(s) \/ ProviderFails(s) PROVE FALSE
  BY <1>5 DEF ClaimAccess, Refused, ProviderFails
<1>6. ASSUME NEW t \in Synchronizer, RefreshAccess(t) PROVE FALSE
  <2> PICK rotates \in BOOLEAN :
          syncing' = [IF rotates THEN Spoilt(syncing) ELSE syncing EXCEPT
                         ![t] = [@ EXCEPT !.at = "answered", !.good = TRUE, !.version = groups.version,
                                          !.role = groups.role]]
    BY <1>6 DEF RefreshAccess
  <2> DEFINE f == IF rotates THEN Spoilt(syncing) ELSE syncing
  <2>1. AllHold(f, Synchronizer, groups.version) /\ f[s].at = "answered"
    BY <1>0, SpoiltHolds
  <2> HIDE DEF f
  <2>2. syncing' = [f EXCEPT ![t] = [f[t] EXCEPT !.at = "answered", !.good = TRUE,
                                             !.version = groups.version, !.role = groups.role]]
    BY DEF f
  <2> QED BY <2>1, <2>2 DEF AllHold, Holds
<1>7. ASSUME NEW b \in Browser, ReadClaims(b) PROVE FALSE
  BY <1>0, <1>7, SpoiltHolds DEF ReadClaims
<1>8. ASSUME UNCHANGED syncing PROVE FALSE
  BY <1>8
<1> QED
  BY <1>1, <1>2, <1>3, <1>4, <1>5, <1>6, <1>7, <1>8
     DEF ExtNext, SyncStep, extVars, SaveDraft, Activate, Begin, FlowExpires, ClaimFlow,
         CallbackFails, CompleteTest, SuspendByIdentity, ApplyExternalLogin, SyncLeaseLapses,
         GraceEnds, GroupsChange, ProviderGoes, SetExternalActivation, ExtRest

\* A synchronisation never gives a user an older role than a login that came
\* after its claim, however long the provider takes to answer it
\* (ApplyExternalLogin and the lease of oidcauth).
THEOREM LoginsAreNotUndone == ExtSpec => LoginsPrevail
<1>1. LoginInv /\ [ExtNext]_extVars => \A s \in Synchronizer : GivesNoOlderRole(s)
  BY StepGivesNoOlderRole
<1>2. ExtSpec => []LoginInv
  BY LoginInitially, LoginNextKeeps, PTL DEF ExtSpec
<1> QED BY <1>1, <1>2, PTL DEF ExtSpec, LoginsPrevail

----------------------------------------------------------------------------
(* The synchronisers: workers yield to administrators and to each other *)

Reading == {"inspected", "refreshed", "read", "applied"}

ConnectorRow ==
    [id : Nat, status : {"none", "connected", "degraded", "disabled"},
     owner : Syncer \cup {nobody}, held : BOOLEAN, init : BOOLEAN]

\* What every position of a cycle carries, as far as the rest depends on it.
Carries(w) ==
    /\ cycle[w].at \in {"resting", "claimed", "reporting"} \cup Reading
    /\ cycle[w].at # "resting" => cycle[w].id \in 0..connector.id
    /\ cycle[w].at \in Reading => cycle[w].version \in 0..remote.version
    /\ cycle[w].at \in Reading \ {"inspected"} =>
          cycle[w] = [at |-> cycle[w].at, id |-> cycle[w].id, seen |-> cycle[w].seen,
                      version |-> cycle[w].version, bound |-> cycle[w].bound]

SyncTypes ==
    /\ kind \in Kind
    /\ connector \in ConnectorRow
    /\ remote.version \in Nat /\ shown \in 0..remote.version /\ ops \in Nat
    /\ binding \in [Object -> {"none", "linked", "indicator"}]
    /\ inventory \in [Object -> {"none", "known", "excluded", "pending"}]
    /\ evidence \subseteq Object /\ declined \subseteq Object /\ twin \subseteq Object
    /\ cycle = [w \in Syncer |-> cycle[w]] /\ \A w \in Syncer : Carries(w)

\* A suspension takes the lease away.
SuspendedIsUnleased == connector.status = "disabled" => connector.owner = nobody

\* What was left unselected is excluded in the inventory, unless it is bound
\* since; without a recorded selection nothing was left.  The inventory of
\* Proxmox holds it, and only what it never held is new.
DeclinedStaysOut ==
    \A o \in declined :
        IF kind = "proxmox" THEN inventory[o] # "none"
        ELSE connector.init /\ (binding[o] # "none" \/ inventory[o] = "excluded")

\* Evidence, and what a cycle is about to observe, is on what is bound.
EvidenceIsBound ==
    /\ evidence \subseteq Linked
    /\ \A w \in Syncer :
          cycle[w].at \in {"refreshed", "read", "applied"} /\ SameConnector(w)
          => cycle[w].bound \subseteq Linked

\* Whoever holds the lease has read no older version than the one that is shown.
LeaseIsFresh ==
    kind = "proxmox" =>
        \A w \in Syncer : cycle[w].at \in Reading /\ Leased(w) => shown <= cycle[w].version

SyncInv ==
    /\ SyncTypes /\ SuspendedIsUnleased /\ DeclinedStaysOut /\ EvidenceIsBound /\ LeaseIsFresh

LEMMA SyncInitially == SyncInit => SyncInv
<1> SUFFICES ASSUME SyncInit PROVE SyncInv
  OBVIOUS
<1>1. connector \in ConnectorRow
  BY DEF SyncInit, NoConnector, ConnectorRow
<1>2. /\ kind \in Kind
      /\ remote.version = 0 /\ shown = 0 /\ ops = 0 /\ evidence = {} /\ declined = {} /\ twin = {}
      /\ binding \in [Object -> {"none", "linked", "indicator"}]
      /\ inventory \in [Object -> {"none", "known", "excluded", "pending"}]
  BY DEF SyncInit
<1>3. /\ cycle = [w \in Syncer |-> cycle[w]]
      /\ \A w \in Syncer : cycle[w].at = "resting"
  BY DEF SyncInit, Syncer, Resting
<1>4. connector.status # "disabled"
  BY DEF SyncInit, NoConnector
<1> QED
  BY <1>1, <1>2, <1>3, <1>4
     DEF SyncInv, SyncTypes, Carries, SuspendedIsUnleased, DeclinedStaysOut, EvidenceIsBound,
         LeaseIsFresh, Reading

\* What the positions of the workers are about.
Rows == <<kind, connector, remote, binding, inventory, evidence, shown, declined, twin, ops>>

LEMMA NobodyIsNoSyncer == SyncInv => nobody \notin Syncer
BY SyncConstants DEF SyncConstants, SyncInv, SyncTypes, Syncer

\* A worker that stops reading changes nothing.
LEMMA WorkerStops ==
    ASSUME SyncInv, NEW w \in Syncer, NEW h, cycle' = [cycle EXCEPT ![w] = h],
           h.at \in {"resting", "claimed", "reporting"},
           h.at # "resting" => h.id \in 0..connector.id,
           UNCHANGED Rows
    PROVE  SyncInv'
<1>1. /\ cycle' = [v \in Syncer |-> cycle'[v]]
      /\ cycle'[w] = h /\ \A v \in Syncer : v # w => cycle'[v] = cycle[v]
  BY DEF SyncInv, SyncTypes
<1>2. Syncer' = Syncer /\ Linked' = Linked
  BY DEF Syncer, Linked, Rows
<1>3. SyncTypes'
  BY <1>1, <1>2 DEF SyncInv, SyncTypes, Carries, Reading, Rows, ConnectorRow
<1>4. SuspendedIsUnleased' /\ DeclinedStaysOut'
  BY DEF SyncInv, SuspendedIsUnleased, DeclinedStaysOut, Rows
<1>5. EvidenceIsBound'
  BY <1>1, <1>2 DEF SyncInv, EvidenceIsBound, SameConnector, Exists, Rows
<1>6. LeaseIsFresh'
  BY <1>1, <1>2 DEF SyncInv, LeaseIsFresh, Leased, SameConnector, Exists, Rows, Reading
<1> QED BY <1>3, <1>4, <1>5, <1>6 DEF SyncInv

\* A worker that reads or concludes: it carries on what it read.
LEMMA WorkerReads ==
    ASSUME SyncInv, NEW w \in Syncer, NEW h, cycle' = [cycle EXCEPT ![w] = h],
           h.at \in Reading, h.id = cycle[w].id, cycle[w].at # "resting",
           h.version \in 0..remote.version,
           h.at # "inspected" =>
              h = [at |-> h.at, id |-> h.id, seen |-> h.seen, version |-> h.version, bound |-> h.bound],
           h.at # "inspected" /\ SameConnector(w) => h.bound \subseteq Linked,
           kind = "proxmox" => shown <= h.version \/ ~Leased(w),
           UNCHANGED Rows
    PROVE  SyncInv'
<1>1. /\ cycle' = [v \in Syncer |-> cycle'[v]]
      /\ cycle'[w] = h /\ \A v \in Syncer : v # w => cycle'[v] = cycle[v]
  BY DEF SyncInv, SyncTypes
<1>2. Syncer' = Syncer /\ Linked' = Linked
  BY DEF Syncer, Linked, Rows
<1>3. SyncTypes'
  BY <1>1, <1>2 DEF SyncInv, SyncTypes, Carries, Reading, Rows, ConnectorRow
<1>4. SuspendedIsUnleased' /\ DeclinedStaysOut'
  BY DEF SyncInv, SuspendedIsUnleased, DeclinedStaysOut, Rows
<1>5. EvidenceIsBound'
  BY <1>1, <1>2 DEF SyncInv, EvidenceIsBound, SameConnector, Exists, Rows, Reading
<1>6. LeaseIsFresh'
  BY <1>1, <1>2 DEF SyncInv, LeaseIsFresh, Leased, SameConnector, Exists, Rows, Reading
<1> QED BY <1>3, <1>4, <1>5, <1>6 DEF SyncInv

LEMMA StoppingKeeps ==
    ASSUME SyncInv, NEW w \in Syncer,
           \/ FetchFails(w) \/ ApplyRefused(w) \/ RecordIntegrationObservations(w)
           \/ RecordNothing(w) \/ SyncCrash(w)
           \/ (cycle[w].at = "inspected" /\ Failing(w) /\ Kept /\ UNCHANGED connector)
    PROVE  SyncInv'
<1>1. UNCHANGED Rows
  BY DEF FetchFails, ApplyRefused, RecordIntegrationObservations, RecordNothing, Recorded, SyncCrash,
         Failing, Kept, Step, Rows
<1>2. cycle[w].at # "resting" /\ cycle[w].id \in 0..connector.id
  BY DEF FetchFails, ApplyRefused, ReadyToApply, RecordIntegrationObservations, RecordNothing,
         Recorded, SyncCrash, SyncInv, SyncTypes, Carries
<1>3. PICK h : /\ cycle' = [cycle EXCEPT ![w] = h]
               /\ h.at \in {"resting", "reporting"}
               /\ h.at # "resting" => h.id = cycle[w].id
  BY ZenonT(60) DEF FetchFails, ApplyRefused, RecordIntegrationObservations, RecordNothing, Recorded, SyncCrash,
         Failing, Step, Resting
<1> QED BY <1>1, <1>2, <1>3, WorkerStops

LEMMA ReadingKeeps ==
    ASSUME SyncInv, NEW w \in Syncer, Inspect(w) \/ Problems(w)
    PROVE  SyncInv'
<1>1. UNCHANGED Rows
  BY DEF Inspect, Problems, Kept, Step, Rows
<1>2. /\ remote.version \in 0..remote.version /\ shown <= remote.version
      /\ "inspected" \in Reading /\ "read" \in Reading /\ "read" # "inspected"
  BY DEF SyncInv, SyncTypes, Reading
<1>3. CASE Inspect(w)
  <2> DEFINE h == [at |-> "inspected", id |-> cycle[w].id, seen |-> remote.state,
                   version |-> remote.version, twins |-> twin]
  <2>1. cycle' = [cycle EXCEPT ![w] = h] /\ cycle[w].at # "resting"
    BY <1>3 DEF Inspect, Step
  <2>2. h.at = "inspected" /\ h.id = cycle[w].id /\ h.version = remote.version
    OBVIOUS
  <2> HIDE DEF h
  <2> QED BY <1>1, <1>2, <2>1, <2>2, WorkerReads
<1>4. CASE Problems(w)
  <2> DEFINE h == [at |-> "read", id |-> cycle[w].id, seen |-> remote.state,
                   version |-> remote.version, bound |-> cycle[w].bound]
  <2>1. cycle' = [cycle EXCEPT ![w] = h] /\ cycle[w].at = "refreshed"
    BY <1>4 DEF Problems, Step
  <2>2. SameConnector(w) => cycle[w].bound \subseteq Linked
    BY <2>1 DEF SyncInv, EvidenceIsBound
  <2>3. /\ h = [at |-> h.at, id |-> h.id, seen |-> h.seen, version |-> h.version, bound |-> h.bound]
        /\ h.at = "read" /\ h.id = cycle[w].id /\ h.version = remote.version
        /\ h.bound = cycle[w].bound
    OBVIOUS
  <2>4. cycle[w].at # "resting"
    BY <2>1
  <2> HIDE DEF h
  <2>5. h.at \in Reading /\ h.version \in 0..remote.version /\ shown <= h.version
    BY <1>2, <2>3
  <2> QED BY <1>1, <1>2, <2>1, <2>2, <2>3, <2>4, <2>5, WorkerReads
<1> QED BY <1>3, <1>4

\* A claim, a lapse and a report change the lease.
LEMMA LeaseKeeps ==
    ASSUME SyncInv,
           \/ \E w \in Syncer : ClaimDueConnector(w) \/ ReportSync(w)
           \/ LeaseLapses
    PROVE  SyncInv'
<1> USE NobodyIsNoSyncer
<1>1. /\ UNCHANGED <<kind, remote, binding, inventory, evidence, shown, declined, twin, ops>>
      /\ Syncer' = Syncer /\ Linked' = Linked
  BY DEF ClaimDueConnector, ReportSync, LeaseLapses, Kept, Step, Syncer, Linked
<1>2. ASSUME NEW w \in Syncer, ClaimDueConnector(w) PROVE SyncInv'
  <2>1. /\ connector' = [connector EXCEPT !.owner = w, !.held = TRUE]
        /\ cycle' = [cycle EXCEPT ![w] = [at |-> "claimed", id |-> connector.id]]
        /\ connector.status \in {"connected", "degraded"}
    BY <1>2 DEF ClaimDueConnector, Step
  <2>2. /\ connector' \in ConnectorRow /\ connector'.id = connector.id
        /\ connector'.status = connector.status /\ connector'.init = connector.init
        /\ connector'.owner = w
    BY <2>1 DEF SyncInv, SyncTypes, ConnectorRow
  <2>3. /\ cycle' = [v \in Syncer |-> cycle'[v]]
        /\ cycle'[w].at = "claimed" /\ cycle'[w].id = connector.id
        /\ \A v \in Syncer : v # w => cycle'[v] = cycle[v]
    BY <2>1 DEF SyncInv, SyncTypes
  <2>4. SyncTypes'
    BY <1>1, <2>2, <2>3 DEF SyncInv, SyncTypes, Carries, Reading, ConnectorRow
  <2>5. SuspendedIsUnleased' /\ DeclinedStaysOut'
    BY <1>1, <2>1, <2>2 DEF SyncInv, SuspendedIsUnleased, DeclinedStaysOut
  <2>6. EvidenceIsBound'
    BY <1>1, <2>2, <2>3 DEF SyncInv, EvidenceIsBound, SameConnector, Exists
  <2>7. LeaseIsFresh'
    BY <1>1, <2>2, <2>3 DEF SyncInv, LeaseIsFresh, Leased, Reading
  <2> QED BY <2>4, <2>5, <2>6, <2>7 DEF SyncInv
<1>3. ASSUME NEW w \in Syncer, ReportSync(w) PROVE SyncInv'
  <2>1. /\ cycle' = [cycle EXCEPT ![w] = Resting]
        /\ CompleteConnectorSync(w)
    BY <1>3 DEF ReportSync, Step
  <2>2. /\ connector' \in ConnectorRow /\ connector'.id = connector.id
        /\ connector'.init = connector.init
        /\ Exists <=> Exists'
        /\ connector'.status = "disabled" => connector' = connector
        /\ connector' = connector \/ connector'.owner = nobody
    BY ZenonT(60), <2>1 DEF CompleteConnectorSync, SameConnector, Exists, SyncInv, SyncTypes, ConnectorRow
  <2>3. /\ cycle' = [v \in Syncer |-> cycle'[v]]
        /\ cycle'[w].at = "resting"
        /\ \A v \in Syncer : v # w => cycle'[v] = cycle[v]
    BY <2>1 DEF SyncInv, SyncTypes, Resting
  <2>4. SyncTypes'
    BY <1>1, <2>2, <2>3 DEF SyncInv, SyncTypes, Carries, Reading, ConnectorRow
  <2>5. SuspendedIsUnleased' /\ DeclinedStaysOut'
    BY <1>1, <2>1, <2>2 DEF SyncInv, SuspendedIsUnleased, DeclinedStaysOut
  <2>6. EvidenceIsBound'
    BY <1>1, <2>2, <2>3 DEF SyncInv, EvidenceIsBound, SameConnector
  <2>7. LeaseIsFresh'
    BY <1>1, <2>2, <2>3 DEF SyncInv, LeaseIsFresh, Leased, SameConnector, Exists, Reading
  <2> QED BY <2>4, <2>5, <2>6, <2>7 DEF SyncInv
<1>4. CASE LeaseLapses
  <2>1. /\ connector' = [connector EXCEPT !.held = FALSE] /\ cycle' = cycle
    BY <1>4 DEF LeaseLapses
  <2>2. /\ connector' \in ConnectorRow /\ connector'.id = connector.id
        /\ connector'.status = connector.status /\ connector'.init = connector.init
        /\ connector'.owner = connector.owner /\ ~connector'.held
    BY <2>1 DEF SyncInv, SyncTypes, ConnectorRow
  <2>4. SyncTypes'
    BY <1>1, <2>1, <2>2 DEF SyncInv, SyncTypes, Carries, Reading, ConnectorRow
  <2>5. SuspendedIsUnleased' /\ DeclinedStaysOut'
    BY <1>1, <2>2 DEF SyncInv, SuspendedIsUnleased, DeclinedStaysOut
  <2>6. EvidenceIsBound'
    BY <1>1, <2>1, <2>2 DEF SyncInv, EvidenceIsBound, SameConnector, Exists
  <2>7. LeaseIsFresh'
    BY <1>1, <2>1, <2>2 DEF LeaseIsFresh, Leased
  <2> QED BY <2>4, <2>5, <2>6, <2>7 DEF SyncInv
<1> QED BY <1>2, <1>3, <1>4

LEMMA ConclusionsAreBound ==
    ASSUME SyncInv, NEW w \in Syncer, ReadyToApply(w), SnapshotAccepted(w)
    PROVE  Concluded(w) \subseteq Linked
<1>1. evidence \subseteq Linked /\ cycle[w].bound \subseteq Linked
  BY DEF SyncInv, EvidenceIsBound, ReadyToApply, SnapshotAccepted, Leased
<1>2. \A c : Among(w, c) \subseteq cycle[w].bound
  BY DEF Among
<1>3. \A c : Observing(w, c) \subseteq evidence \cup cycle[w].bound
  BY <1>2 DEF Observing
<1>4. /\ ZabbixEvidence(w) \subseteq Linked /\ UptimeKumaEvidence(w) \subseteq Linked
      /\ PatchMonEvidence(w) \subseteq Linked /\ ArgusEvidence(w) \subseteq Linked
      /\ ProxmoxEvidence(w) \subseteq Linked
  BY <1>1, <1>2, <1>3
     DEF ZabbixEvidence, UptimeKumaEvidence, PatchMonEvidence, ArgusEvidence, ProxmoxEvidence
<1> HIDE DEF ZabbixEvidence, UptimeKumaEvidence, PatchMonEvidence, ArgusEvidence, ProxmoxEvidence
<1> QED BY <1>4 DEF Concluded

LEMMA ApplyKeeps ==
    ASSUME SyncInv, NEW w \in Syncer, Apply(w)
    PROVE  SyncInv'
<1> DEFINE h == [cycle[w] EXCEPT !.at = "applied"]
<1>1. /\ UNCHANGED <<kind, connector, remote, binding, inventory, declined, twin, ops>>
      /\ Syncer' = Syncer /\ Linked' = Linked
      /\ cycle' = [cycle EXCEPT ![w] = h] /\ shown' = cycle[w].version
      /\ cycle[w].at \in {"read", "refreshed"}
  BY DEF Apply, Step, Syncer, Linked, ReadyToApply
<1>2. cycle[w] = [at |-> cycle[w].at, id |-> cycle[w].id, seen |-> cycle[w].seen,
                  version |-> cycle[w].version, bound |-> cycle[w].bound]
  BY <1>1 DEF SyncInv, SyncTypes, Carries, Reading
<1>3. /\ h = [at |-> h.at, id |-> h.id, seen |-> h.seen, version |-> h.version, bound |-> h.bound]
      /\ h.at = "applied" /\ h.id = cycle[w].id /\ h.version = cycle[w].version
      /\ h.bound = cycle[w].bound
  BY <1>2
<1> HIDE DEF h
<1>4. /\ cycle' = [v \in Syncer |-> cycle'[v]]
      /\ cycle'[w] = h /\ \A v \in Syncer : v # w => cycle'[v] = cycle[v]
  BY <1>1 DEF SyncInv, SyncTypes
<1>5. evidence' \subseteq Linked /\ SnapshotAccepted(w)
  BY ConclusionsAreBound DEF Apply
<1>6. SyncTypes'
  <2>1. shown' \in 0..remote.version
    BY <1>1 DEF SyncInv, SyncTypes, Carries, Reading
  <2>2. evidence' \subseteq Object
    BY <1>5 DEF Linked
  <2>3. \A v \in Syncer : Carries(v)'
    BY <1>1, <1>3, <1>4 DEF SyncInv, SyncTypes, Carries, Reading
  <2> QED BY <1>1, <1>4, <2>1, <2>2, <2>3 DEF SyncInv, SyncTypes, ConnectorRow
<1>7. SuspendedIsUnleased' /\ DeclinedStaysOut'
  BY <1>1 DEF SyncInv, SuspendedIsUnleased, DeclinedStaysOut
<1>8. EvidenceIsBound'
  BY <1>1, <1>3, <1>4, <1>5 DEF SyncInv, EvidenceIsBound, SameConnector, Exists
<1>9. LeaseIsFresh'
  <2> SUFFICES ASSUME kind = "proxmox", NEW v \in Syncer, Leased(v)'
               PROVE  shown' <= cycle'[v].version
    BY <1>1 DEF LeaseIsFresh
  <2>1. v = w
    BY <1>1, <1>5 DEF SnapshotAccepted, Leased
  <2>2. cycle[w].version \in Nat
    BY <1>1 DEF SyncInv, SyncTypes, Carries, Reading
  <2> QED BY <1>1, <1>3, <1>4, <2>1, <2>2
<1> QED BY <1>6, <1>7, <1>8, <1>9 DEF SyncInv

\* Discovery, of either kind of product: what is adopted stays within what the
\* inventory allows, and the cycle is to observe exactly what is bound.
LEMMA AdoptKeeps ==
    ASSUME SyncInv, NEW w \in Syncer, cycle[w].at = "inspected", Leased(w),
           NEW known \in [Object -> {"none", "known", "excluded", "pending"}],
           NEW new \in SUBSET Object, Adopt(w, known, new),
           declined' \subseteq Object,
           connector' = connector \/ connector' = [connector EXCEPT !.init = TRUE],
           DeclinedStaysOut'
    PROVE  SyncInv'
<1>1. /\ UNCHANGED <<kind, remote, evidence, shown, twin, ops>> /\ Syncer' = Syncer
      /\ binding' = [o \in Object |-> IF o \in new \ Matched(w) THEN "linked" ELSE binding[o]]
      /\ inventory' = [o \in Object |-> IF o \in new \cap Matched(w) THEN "pending" ELSE known[o]]
  BY DEF Adopt, Step, Syncer
<1>2. /\ binding' \in [Object -> {"none", "linked", "indicator"}]
      /\ inventory' \in [Object -> {"none", "known", "excluded", "pending"}]
      /\ Linked \subseteq Linked'
  BY <1>1 DEF SyncInv, SyncTypes, Linked
<1>3. /\ connector' \in ConnectorRow /\ connector'.id = connector.id
      /\ connector'.status = connector.status /\ connector'.owner = connector.owner
      /\ connector'.held = connector.held
  BY ZenonT(60) DEF SyncInv, SyncTypes, ConnectorRow
<1> DEFINE h == [at |-> "refreshed", id |-> cycle[w].id, seen |-> cycle[w].seen,
                 version |-> cycle[w].version, bound |-> {o \in Object : binding'[o] = "linked"}]
<1>4. cycle' = [cycle EXCEPT ![w] = h]
  BY <1>1 DEF Adopt, Step
<1>5. /\ h = [at |-> h.at, id |-> h.id, seen |-> h.seen, version |-> h.version, bound |-> h.bound]
      /\ h.at = "refreshed" /\ h.id = cycle[w].id /\ h.version = cycle[w].version
      /\ h.bound = Linked'
  BY DEF Linked
<1> HIDE DEF h
<1>6. /\ cycle' = [v \in Syncer |-> cycle'[v]]
      /\ cycle'[w] = h /\ \A v \in Syncer : v # w => cycle'[v] = cycle[v]
  BY <1>4 DEF SyncInv, SyncTypes
<1>7. SyncTypes'
  <2>1. \A v \in Syncer : Carries(v)'
    BY <1>1, <1>3, <1>5, <1>6 DEF SyncInv, SyncTypes, Carries, Reading
  <2>2. /\ kind' \in Kind /\ remote'.version \in Nat /\ shown' \in 0..remote'.version /\ ops' \in Nat
        /\ evidence' \subseteq Object /\ twin' \subseteq Object
    BY <1>1 DEF SyncInv, SyncTypes
  <2> QED BY <1>2, <1>3, <1>6, <2>1, <2>2, <1>1 DEF SyncTypes, ConnectorRow
<1>8. SuspendedIsUnleased'
  BY <1>3 DEF SyncInv, SuspendedIsUnleased
<1>9. EvidenceIsBound'
  BY <1>1, <1>2, <1>3, <1>5, <1>6 DEF SyncInv, EvidenceIsBound, SameConnector, Exists
<1>10. LeaseIsFresh'
  <2> SUFFICES ASSUME kind = "proxmox", NEW v \in Syncer, cycle'[v].at \in Reading, Leased(v)'
               PROVE  shown <= cycle'[v].version
    BY <1>1 DEF LeaseIsFresh
  <2>1. cycle[v].at \in Reading /\ cycle'[v].version = cycle[v].version /\ cycle'[v].id = cycle[v].id
    BY <1>5, <1>6 DEF Reading
  <2>2. Leased(v)
    BY <1>3, <2>1 DEF Leased, SameConnector, Exists
  <2> QED BY <2>1, <2>2 DEF SyncInv, LeaseIsFresh
<1> QED BY <1>7, <1>8, <1>9, <1>10 DEF SyncInv

LEMMA RefreshKeeps ==
    ASSUME SyncInv, NEW w \in Syncer, Refresh(w)
    PROVE  SyncInv'
<1>1. /\ inventory \in [Object -> {"none", "known", "excluded", "pending"}]
      /\ declined \subseteq Object /\ DeclinedStaysOut /\ cycle[w].at = "inspected"
  BY DEF SyncInv, SyncTypes, Refresh
<1>2. CASE ~Leased(w)
  BY <1>1, <1>2, StoppingKeeps DEF Refresh
<1>3. CASE Leased(w) /\ RefreshDiscovery(w)
  <2> DEFINE seen == cycle[w].seen
             taken == BoundIn(binding)
             base == IF connector.init THEN inventory ELSE Remembered(seen, taken)
             known == [o \in Object |->
                         IF base[o] = "pending" \/ (base[o] = "none" /\ o \in Listed(seen))
                         THEN "known" ELSE base[o]]
             new == {o \in EligibleObjects(seen) \ taken : known[o] # "excluded"}
  <2>1. /\ kind # "proxmox" /\ kind' = kind /\ Adopt(w, known, new)
        /\ connector' = [connector EXCEPT !.init = TRUE]
        /\ declined' = IF connector.init THEN declined
                       ELSE declined \cup {o \in EligibleObjects(seen) \ taken : base[o] = "excluded"}
    BY <1>3 DEF RefreshDiscovery, Adopt, Step
  <2>2. /\ base \in [Object -> {"none", "known", "excluded", "pending"}]
        /\ EligibleObjects(seen) \subseteq Object
    BY <1>1 DEF Remembered, EligibleObjects, Listed
  <2> HIDE DEF seen, taken, base
  <2>3. /\ known \in [Object -> {"none", "known", "excluded", "pending"}]
        /\ \A o \in Object : base[o] = "excluded" <=> known[o] = "excluded"
    BY <2>2
  <2>4. new \in SUBSET Object /\ \A o \in new : known[o] # "excluded"
    BY <2>2
  <2> HIDE DEF known, new
  <2>5. \A o \in declined' : o \in Object /\ (binding[o] # "none" \/ known[o] = "excluded")
    BY <1>1, <2>1, <2>2, <2>3 DEF DeclinedStaysOut, base
  <2>6. /\ \A o \in Object : binding[o] # "none" => binding'[o] # "none"
        /\ \A o \in Object : known[o] = "excluded" => inventory'[o] = "excluded"
    BY <2>1, <2>4 DEF Adopt
  <2>7. connector'.init
    BY <2>1 DEF SyncInv, SyncTypes, ConnectorRow
  <2>8. DeclinedStaysOut'
    BY <2>1, <2>5, <2>6, <2>7 DEF DeclinedStaysOut
  <2>9. declined' \subseteq Object
    BY <2>5
  <2> QED BY <1>1, <1>3, <2>1, <2>3, <2>4, <2>8, <2>9, AdoptKeeps
<1>4. CASE Leased(w) /\ RefreshProxmox(w)
  <2> DEFINE seen == cycle[w].seen
             known == [o \in Object |->
                         IF inventory[o] = "none" /\ o \in Listed(seen) THEN "known" ELSE inventory[o]]
             new == {o \in EligibleObjects(seen) : inventory[o] = "none"}
  <2>1. /\ kind = "proxmox" /\ kind' = kind /\ Adopt(w, known, new)
        /\ connector' = connector /\ declined' = declined
    BY <1>4 DEF RefreshProxmox, Adopt, Step
  <2>2. /\ known \in [Object -> {"none", "known", "excluded", "pending"}]
        /\ \A o \in Object : inventory[o] # "none" => known[o] # "none"
        /\ new \in SUBSET Object
    BY <1>1 DEF EligibleObjects, Listed
  <2> HIDE DEF known, new
  <2>3. \A o \in Object : known[o] # "none" => inventory'[o] # "none"
    BY <2>1 DEF Adopt
  <2>4. DeclinedStaysOut' /\ declined' \subseteq Object
    BY <1>1, <2>1, <2>2, <2>3 DEF DeclinedStaysOut
  <2> QED BY <1>1, <1>4, <2>1, <2>2, <2>4, AdoptKeeps
<1> QED BY <1>2, <1>3, <1>4 DEF Refresh

LEMMA ChangesKeep ==
    ASSUME SyncInv, RemoteChanges
    PROVE  SyncInv'
<1>1. /\ UNCHANGED <<kind, connector, binding, inventory, evidence, shown, declined, twin, cycle, ops>>
      /\ Syncer' = Syncer /\ Linked' = Linked
      /\ remote'.version = remote.version + 1 /\ remote.version \in Nat
  BY DEF RemoteChanges, Kept, Syncer, Linked, SyncInv, SyncTypes
<1>2. SyncTypes'
  BY <1>1 DEF SyncInv, SyncTypes, Carries, ConnectorRow, Reading
<1>3. SuspendedIsUnleased' /\ DeclinedStaysOut' /\ EvidenceIsBound' /\ LeaseIsFresh'
  BY <1>1 DEF SyncInv, SuspendedIsUnleased, DeclinedStaysOut, EvidenceIsBound, LeaseIsFresh,
              Leased, SameConnector, Exists
<1> QED BY <1>2, <1>3 DEF SyncInv

\* What administrators do leaves the connector to nobody, or leaves its row.
LEMMA AdministeredKeeps ==
    ASSUME SyncInv, Operation,
           connector' \in ConnectorRow, connector'.owner = nobody \/ connector' = connector,
           binding' \in [Object -> {"none", "linked", "indicator"}],
           inventory' \in [Object -> {"none", "known", "excluded", "pending"}],
           evidence' \subseteq Linked', declined' \subseteq Object, DeclinedStaysOut',
           twin' \subseteq Object,
           \/ connector'.id = connector.id /\ Linked \subseteq Linked' /\ (Exists' => Exists)
           \/ connector'.id = connector.id + 1
           \/ ~Exists' /\ connector'.id = connector.id,
           shown' = shown \/ shown' = 0
    PROVE  SyncInv'
<1>1. /\ UNCHANGED <<kind, remote, cycle>> /\ Syncer' = Syncer /\ ops \in Nat /\ ops' = ops + 1
      /\ connector.id \in Nat
  BY DEF Operation, Syncer, SyncInv, SyncTypes, ConnectorRow
<1>2. SyncTypes'
  <2>1. /\ kind' \in Kind /\ remote'.version \in Nat /\ ops' \in Nat /\ evidence' \subseteq Object
        /\ shown' \in 0..remote'.version /\ connector' \in ConnectorRow'
    BY <1>1 DEF SyncInv, SyncTypes, Linked, ConnectorRow
  <2>2. \A v \in Syncer : Carries(v)'
    BY <1>1 DEF SyncInv, SyncTypes, Carries
  <2>3. cycle' = [v \in Syncer' |-> cycle'[v]]
    BY <1>1 DEF SyncInv, SyncTypes
  <2> QED BY <1>1, <2>1, <2>2, <2>3 DEF SyncTypes
<1>3. SuspendedIsUnleased'
  BY DEF SyncInv, SuspendedIsUnleased
<1>4. EvidenceIsBound'
  <2> SUFFICES ASSUME NEW v \in Syncer, cycle[v].at \in {"refreshed", "read", "applied"},
                      Exists', connector'.id = cycle[v].id
               PROVE  cycle[v].bound \subseteq Linked'
    BY <1>1 DEF EvidenceIsBound, SameConnector
  <2>1. cycle[v].id <= connector.id
    BY <1>1 DEF SyncInv, SyncTypes, Carries
  <2> QED BY <1>1, <2>1 DEF SyncInv, EvidenceIsBound, SameConnector
<1>5. LeaseIsFresh'
  <2> SUFFICES ASSUME kind = "proxmox", NEW v \in Syncer, cycle[v].at \in Reading, Leased(v)'
               PROVE  shown' <= cycle[v].version
    BY <1>1 DEF LeaseIsFresh
  <2>1. connector' = connector
    BY NobodyIsNoSyncer DEF Leased
  <2>2. Leased(v) /\ cycle[v].version \in Nat
    BY <1>1, <2>1 DEF Leased, SameConnector, Exists, SyncInv, SyncTypes, Carries
  <2> QED BY <2>2 DEF SyncInv, LeaseIsFresh
<1> QED BY <1>2, <1>3, <1>4, <1>5 DEF SyncInv

LEMMA ImportKeeps ==
    ASSUME SyncInv, NEW s \in SUBSET Object,
           \/ ImportZabbix(s) \/ ImportUptimeKuma(s) \/ ImportPatchMon(s) \/ ImportArgus(s)
           \/ ImportProxmox(s)
    PROVE  SyncInv'
<1> DEFINE state == remote.state
<1>1. /\ connector \in ConnectorRow /\ connector.id \in Nat
      /\ binding \in [Object -> {"none", "linked", "indicator"}]
      /\ inventory \in [Object -> {"none", "known", "excluded", "pending"}]
      /\ declined \subseteq Object /\ DeclinedStaysOut /\ evidence \subseteq Linked
      /\ twin \subseteq Object
  BY DEF SyncInv, SyncTypes, EvidenceIsBound, ConnectorRow
<1>2. /\ Operation /\ kind' = kind /\ s \subseteq EligibleObjects(state) /\ Select(s)
      /\ binding' = [o \in Object |-> IF o \in s THEN "linked" ELSE binding[o]]
      /\ declined' = ((declined \ Reopened) \cup (EligibleObjects(state) \ BoundIn(binding))) \ s
      /\ UNCHANGED <<evidence, shown, twin>>
  BY DEF ImportZabbix, ImportUptimeKuma, ImportPatchMon, ImportArgus, ImportProxmox, Import, Select,
         Operation
<1>3. EligibleObjects(state) \subseteq Listed(state) /\ Listed(state) \subseteq Object
  BY DEF EligibleObjects, Listed
<1>4. /\ binding' \in [Object -> {"none", "linked", "indicator"}] /\ Linked \subseteq Linked'
      /\ \A o \in Object : binding[o] # "none" => binding'[o] # "none"
      /\ evidence' \subseteq Linked' /\ declined' \subseteq Object
  BY <1>1, <1>2, <1>3 DEF Linked
<1>5. CASE kind # "proxmox"
  <2>1. Import(s)
    BY <1>5 DEF ImportZabbix, ImportUptimeKuma, ImportPatchMon, ImportArgus, ImportProxmox
  <2>2. /\ connector' \in ConnectorRow /\ connector'.owner = nobody /\ connector'.init
        /\ connector'.status = "connected"
        /\ \/ connector'.id = connector.id /\ Exists
           \/ connector'.id = connector.id + 1
    <3>1. CASE Exists
      <4>1. connector' = [id |-> connector.id, status |-> "connected", owner |-> nobody,
                          held |-> FALSE, init |-> TRUE]
        BY <2>1, <3>1 DEF Import, NewConnector
      <4> QED BY <1>1, <3>1, <4>1 DEF ConnectorRow
    <3>2. CASE ~Exists
      BY <1>1, <2>1, <3>2 DEF Import, NewConnector, ConnectorRow
    <3> QED BY <3>1, <3>2
  <2>3. inventory' = [o \in Object |->
                         IF o \in EligibleObjects(state) \ (BoundIn(binding) \cup s) THEN "excluded"
                         ELSE IF o \in Listed(state) THEN "known" ELSE inventory[o]]
    BY <2>1 DEF Import, Remembered
  <2>4. inventory' \in [Object -> {"none", "known", "excluded", "pending"}]
    BY <1>1, <2>3
  <2>5. ASSUME NEW o \in declined', binding'[o] = "none" PROVE inventory'[o] = "excluded"
    <3>1. o \in Object /\ o \notin s /\ o \notin BoundIn(binding) /\ binding[o] = "none"
      BY <1>1, <1>2, <1>4, <2>5 DEF BoundIn
    <3>2. o \in EligibleObjects(state) \/ (o \notin Listed(state) /\ inventory[o] = "excluded")
      BY <1>1, <1>2, <1>5, <3>1 DEF DeclinedStaysOut, Reopened
    <3> QED BY <1>3, <2>3, <3>1, <3>2
  <2>6. DeclinedStaysOut'
    BY <1>2, <1>5, <2>2, <2>5 DEF DeclinedStaysOut
  <2> QED BY <1>1, <1>2, <1>4, <2>2, <2>4, <2>6, AdministeredKeeps
<1>6. CASE kind = "proxmox"
  <2>1. ImportProxmox(s)
    BY <1>6 DEF ImportZabbix, ImportUptimeKuma, ImportPatchMon, ImportArgus, ImportProxmox
  <2>2. /\ connector' \in ConnectorRow /\ connector'.owner = nobody
        /\ \/ connector'.id = connector.id /\ Exists
           \/ connector'.id = connector.id + 1
    <3>1. CASE Exists
      BY <1>1, <2>1, <3>1 DEF ImportProxmox, Released, ConnectorRow
    <3>2. CASE ~Exists
      BY <1>1, <2>1, <3>2 DEF ImportProxmox, NewConnector, ConnectorRow
    <3> QED BY <3>1, <3>2
  <2>3. inventory' = [o \in Object |->
                         IF o \in s \/ (inventory[o] = "none" /\ o \in Listed(state))
                         THEN "known" ELSE inventory[o]]
    BY <2>1 DEF ImportProxmox
  <2>4. inventory' \in [Object -> {"none", "known", "excluded", "pending"}]
    BY <1>1, <2>3
  <2>5. DeclinedStaysOut'
    BY <1>1, <1>2, <1>3, <1>6, <2>3 DEF DeclinedStaysOut
  <2> QED BY <1>1, <1>2, <1>4, <2>2, <2>4, <2>5, AdministeredKeeps
<1> QED BY <1>5, <1>6

LEMMA AdministerKeeps ==
    ASSUME SyncInv, Administer
    PROVE  SyncInv'
<1>1. /\ connector \in ConnectorRow /\ connector.id \in Nat
      /\ binding \in [Object -> {"none", "linked", "indicator"}]
      /\ inventory \in [Object -> {"none", "known", "excluded", "pending"}]
      /\ declined \subseteq Object /\ DeclinedStaysOut /\ evidence \subseteq Linked
      /\ twin \subseteq Object
  BY DEF SyncInv, SyncTypes, EvidenceIsBound, ConnectorRow
<1>2. ASSUME NEW status \in {"disabled", "connected"}, SetStatus(status) PROVE SyncInv'
  <2>1. /\ Operation /\ kind' = kind /\ Exists /\ Linked' = Linked
        /\ UNCHANGED <<binding, inventory, evidence, declined, shown, twin>>
        /\ connector' = [Released(connector) EXCEPT !.status = status]
    BY <1>2 DEF SetStatus, Operation, Linked
  <2>2. /\ connector' \in ConnectorRow /\ connector'.owner = nobody /\ connector'.id = connector.id
        /\ connector'.init = connector.init
    BY <1>1, <2>1 DEF Released, ConnectorRow
  <2>3. DeclinedStaysOut'
    BY <1>1, <2>1, <2>2 DEF DeclinedStaysOut
  <2> QED BY <1>1, <2>1, <2>2, <2>3, AdministeredKeeps
<1>3. CASE Delete
  <2>1. /\ Operation /\ evidence' = {} /\ declined' = {} /\ shown' = 0 /\ twin' = twin
        /\ binding' \in [Object -> {"none", "linked", "indicator"}]
        /\ inventory' \in [Object -> {"none", "known", "excluded", "pending"}]
        /\ connector' = [NoConnector EXCEPT !.id = connector.id]
    BY <1>3 DEF Delete
  <2>2. /\ connector' \in ConnectorRow /\ connector'.owner = nobody /\ connector'.id = connector.id
        /\ ~Exists'
    BY <1>1, <2>1 DEF NoConnector, ConnectorRow, Exists
  <2>3. DeclinedStaysOut'
    BY <2>1 DEF DeclinedStaysOut
  <2> QED BY <1>1, <2>1, <2>2, <2>3, AdministeredKeeps
<1>4. ASSUME NEW o \in Object, BindIndicator(o) PROVE SyncInv'
  <2>1. /\ Operation /\ kind' = kind /\ binding[o] = "none"
        /\ binding' = [binding EXCEPT ![o] = "indicator"]
        /\ UNCHANGED <<connector, inventory, evidence, declined, shown, twin>>
    BY <1>4 DEF BindIndicator, Operation
  <2>2. /\ binding' \in [Object -> {"none", "linked", "indicator"}] /\ Linked' = Linked
        /\ \A p \in Object : binding[p] # "none" => binding'[p] # "none"
    BY <1>1, <2>1 DEF Linked
  <2>3. DeclinedStaysOut'
    BY <1>1, <2>1, <2>2 DEF DeclinedStaysOut
  <2> QED BY <1>1, <2>1, <2>2, <2>3, AdministeredKeeps DEF Exists
<1>5. ASSUME NEW o \in Object, ChangeTargets(o) PROVE SyncInv'
  <2>1. /\ Operation /\ kind' = kind
        /\ UNCHANGED <<connector, binding, inventory, evidence, declined, shown>>
        /\ twin' = (twin \ {o}) \cup ({o} \ twin)
    BY <1>5 DEF ChangeTargets, Kept, Operation
  <2>2. DeclinedStaysOut' /\ Linked' = Linked /\ twin' \subseteq Object
    BY <1>1, <2>1 DEF DeclinedStaysOut, Linked
  <2> QED BY <1>1, <2>1, <2>2, AdministeredKeeps DEF Exists
<1> QED BY <1>2, <1>3, <1>4, <1>5, ImportKeeps DEF Administer, Suspend, Resume

LEMMA SyncNextKeeps == SyncInv /\ [SyncNext]_syncVars => SyncInv'
<1> SUFFICES ASSUME SyncInv, [SyncNext]_syncVars PROVE SyncInv'
  OBVIOUS
<1>1. ASSUME NEW w \in Syncer, CycleStep(w) PROVE SyncInv'
  BY <1>1, ReadingKeeps, RefreshKeeps, ApplyKeeps, StoppingKeeps, LeaseKeeps DEF CycleStep
<1>2. ASSUME NEW w \in Syncer, ClaimDueConnector(w) \/ FetchFails(w) \/ RecordNothing(w) \/ SyncCrash(w)
      PROVE  SyncInv'
  BY SMTT(40), <1>2, StoppingKeeps, LeaseKeeps
<1>3. CASE UNCHANGED syncVars
  BY <1>3 DEF syncVars, SyncInv, SyncTypes, SuspendedIsUnleased, DeclinedStaysOut, EvidenceIsBound,
              LeaseIsFresh, Carries, Leased, SameConnector, Exists, Linked, Syncer, ConnectorRow
<1> QED BY <1>1, <1>2, <1>3, LeaseKeeps, ChangesKeep, AdministerKeeps DEF SyncNext

\* A step of discovery binds what no exclusion and no resemblance keeps out.
LEMMA RefreshYields ==
    ASSUME SyncInv, SyncInv', NEW w \in Syncer, cycle[w].at = "inspected", Refresh(w)
    PROVE  Yields
<1>1. /\ declined \subseteq Object /\ twin \subseteq Object
      /\ DeclinedStaysOut /\ SuspendedIsUnleased
      /\ binding \in [Object -> {"none", "linked", "indicator"}]
      /\ shown \in Nat /\ evidence' \subseteq Linked'
  BY DEF SyncInv, SyncTypes, EvidenceIsBound
<1>2. CASE ~Leased(w)
  BY <1>1, <1>2 DEF Refresh, Failing, Kept, Step, Yields
<1>3. CASE Leased(w) /\ RefreshDiscovery(w)
  <2>1. /\ kind # "proxmox" /\ connector.status # "disabled"
        /\ \A o \in Object : binding[o] # "none" => binding'[o] = binding[o]
        /\ \A o \in twin : binding'[o] = binding[o]
    BY ZenonT(60), <1>1, <1>3 DEF RefreshDiscovery, Adopt, Matched, Leased, BoundIn, EligibleObjects, Listed
  <2>2. ASSUME NEW o \in declined, binding[o] = "none" PROVE binding'[o] = binding[o]
    BY <1>1, <1>3, <2>1, <2>2 DEF RefreshDiscovery, Adopt, DeclinedStaysOut
  <2> QED BY <1>1, <2>1, <2>2 DEF Yields
<1>4. CASE Leased(w) /\ RefreshProxmox(w)
  <2>1. /\ kind = "proxmox" /\ connector.status # "disabled" /\ shown' = shown
        /\ \A o \in Object : inventory[o] # "none" => binding'[o] = binding[o]
    BY <1>1, <1>4 DEF RefreshProxmox, Adopt, Leased, EligibleObjects, Listed
  <2> QED BY <1>1, <2>1 DEF Yields, DeclinedStaysOut
<1> QED BY <1>2, <1>3, <1>4 DEF Refresh

LEMMA StepYields ==
    ASSUME SyncInv, SyncInv', [SyncNext]_syncVars, ByWorkers
    PROVE  Yields
<1>1. /\ shown \in Nat /\ ops \in Nat /\ evidence' \subseteq Linked' /\ SuspendedIsUnleased
      /\ nobody \notin Syncer
  BY NobodyIsNoSyncer DEF SyncInv, SyncTypes, EvidenceIsBound
<1>2. ASSUME NEW w \in Syncer,
             ClaimDueConnector(w) \/ Inspect(w) \/ Problems(w) \/ FetchFails(w) \/ ApplyRefused(w)
               \/ RecordIntegrationObservations(w) \/ RecordNothing(w) \/ SyncCrash(w)
      PROVE  Yields
  <2>1. /\ UNCHANGED <<source, binding, evidence, shown>>
        /\ connector.status = "disabled" => connector' = connector
    BY <1>2 DEF ClaimDueConnector, Inspect, Problems, FetchFails, ApplyRefused, Kept, Step, Recorded,
                RecordIntegrationObservations, RecordNothing, SyncCrash
  <2> QED BY <1>1, <2>1 DEF Yields
<1>3. ASSUME NEW w \in Syncer, Refresh(w) PROVE Yields
  BY <1>3, RefreshYields DEF Refresh
<1>4. ASSUME NEW w \in Syncer, Apply(w) PROVE Yields
  <2>1. /\ UNCHANGED <<source, binding, connector>> /\ shown' = cycle[w].version
        /\ kind = "proxmox" => Leased(w) /\ cycle[w].at \in Reading
    BY <1>4 DEF Apply, SnapshotAccepted, ReadyToApply, Reading
  <2>2. kind = "proxmox" => shown' >= shown /\ connector.status # "disabled"
    BY <1>1, <2>1 DEF Leased, SyncInv, SyncTypes, Carries, LeaseIsFresh, Reading
  <2> QED BY <1>1, <2>1, <2>2 DEF Yields
<1>5. ASSUME NEW w \in Syncer, ReportSync(w) PROVE Yields
  <2>1. /\ UNCHANGED <<source, binding, evidence, shown>>
        /\ connector.status = "disabled" => connector' = connector
    BY <1>1, <1>5 DEF ReportSync, CompleteConnectorSync, Kept, SuspendedIsUnleased
  <2> QED BY <1>1, <2>1 DEF Yields
<1>6. ASSUME LeaseLapses \/ RemoteChanges PROVE Yields
  <2>1. /\ UNCHANGED <<source, binding, evidence, shown>>
        /\ connector'.status = connector.status
    BY <1>6 DEF LeaseLapses, RemoteChanges, Kept, SyncInv, SyncTypes, ConnectorRow
  <2> QED BY <1>1, <2>1 DEF Yields
<1>7. ~Administer
  <2>1. ~Operation
    BY <1>1 DEF Operation, ByWorkers
  <2>2. ~Suspend /\ ~Resume /\ ~Delete
    BY <2>1 DEF Suspend, Resume, SetStatus, Delete
  <2>3. \A s \in SUBSET Object : ~Select(s)
    BY <2>1 DEF Select
  <2>4. \A o \in Object : ~BindIndicator(o) /\ ~ChangeTargets(o)
    BY <2>1 DEF BindIndicator, ChangeTargets
  <2> QED
    BY <2>2, <2>3, <2>4
       DEF Administer, ImportZabbix, ImportUptimeKuma, ImportPatchMon, ImportArgus, ImportProxmox, Import
<1>8. CASE UNCHANGED syncVars
  BY <1>1, <1>8 DEF syncVars, Yields
<1> QED BY <1>2, <1>3, <1>4, <1>5, <1>6, <1>7, <1>8 DEF SyncNext, CycleStep

\* Whatever the kind, the workers and their leases: a suspension stays, what was
\* left unselected stays out, evidence is on what is bound, and a slow cycle of
\* Proxmox overwrites nothing newer (the cycle of the synchronisers, their
\* refreshes and the snapshots they conclude with).
THEOREM WorkersAlwaysYield == SyncSpec => WorkersYield
<1>1. SyncInv /\ SyncInv' /\ [SyncNext]_syncVars => (ByWorkers => Yields)
  BY StepYields
<1>2. SyncSpec => []SyncInv
  BY SyncInitially, SyncNextKeeps, PTL DEF SyncSpec
<1> QED BY <1>1, <1>2, PTL DEF SyncSpec, WorkersYield

----------------------------------------------------------------------------
(* Acknowledgement: whatever the operator's request, the runtime, stale     *)
(* snapshots and crashes interleave to, the status that is shown is derived *)
(* from the evidence and is true                                            *)

\* What a snapshot read as acknowledged was acknowledged in Zabbix, where an
\* acknowledgement is never withdrawn; and a row that says so is right.
UpstreamIsTrue ==
    /\ \A c \in Connector : snap[c].acked \subseteq upstream \cap snap[c].events
    /\ \A e \in Event : row[e].active /\ row[e].upAck => e \in upstream

\* A call concerns one incident, that is acknowledged, and what succeeded of it
\* is in Zabbix.
CallsAreOfTheIncident ==
    \A c \in Caller :
        /\ call[c].busy => inc[call[c].incident].acked
        /\ ~call[c].busy => call[c].todo = {} /\ call[c].done = {}
        /\ \A t \in call[c].todo : IncidentOf[t[1]] = call[c].incident
        /\ \A d \in call[c].done : /\ IncidentOf[d[1]] = call[c].incident
                                   /\ d[3] => d[1] \in upstream

PropagationInv == AckInv /\ AckIsShared /\ UpstreamIsTrue /\ CallsAreOfTheIncident

USE AckConstants DEF AckConstants

LEMMA PropagationInitially == Init => PropagationInv
<1> SUFFICES ASSUME Init PROVE PropagationInv
  OBVIOUS
<1>1. NoCall \in [busy : BOOLEAN, incident : Incident, todo : SUBSET (Event \X (0..MaxRows)),
                  done : SUBSET (Event \X (0..MaxRows) \X BOOLEAN)]
  BY DEF NoCall
<1>2. /\ queue = <<>> /\ \A c \in Caller : call[c] = NoCall
      /\ \A c \in Caller : call[c].busy = FALSE /\ call[c].todo = {} /\ call[c].done = {}
  BY DEF Init, NoCall
<1>3. order \subseteq Incident \X Incident
  BY DEF Init
<1>4. TypeOK
  BY <1>1, <1>2, <1>3 DEF Init, TypeOK, Row, IncidentState, SyncStatus, NoSnap
<1>5. StatusIsDerived /\ SynchronizedIsTrue /\ AckIsShared
  BY DEF Init, StatusIsDerived, SynchronizedIsTrue, AckIsShared
<1>6. UpstreamIsTrue
  BY DEF Init, UpstreamIsTrue, NoSnap
<1>7. CallsAreOfTheIncident
  BY <1>2 DEF CallsAreOfTheIncident
<1> QED BY <1>4, <1>5, <1>6, <1>7 DEF PropagationInv, AckInv

\* The derived column is a status.
LEMMA DerivedIsAStatus ==
    ASSUME NEW rows, NEW i PROVE DerivedSync(rows, i) \in SyncStatus
BY DEF DerivedSync, SyncStatus

\* It depends on the rows of the incident only.
LEMMA DerivedLocally ==
    ASSUME NEW i, NEW rows, NEW others,
           \A e \in Event : IncidentOf[e] = i => rows[e] = others[e]
    PROVE  DerivedSync(rows, i) = DerivedSync(others, i)
<1>1. /\ ActiveRows(rows, i) = ActiveRows(others, i)
      /\ \A e \in ActiveRows(rows, i) : rows[e] = others[e]
  BY DEF ActiveRows
<1> QED BY <1>1 DEF DerivedSync

LEMMA RecomputedIsDerived ==
    ASSUME NEW rows, NEW i, NEW state \in IncidentState
    PROVE  /\ Recomputed(state, rows, i) \in IncidentState
           /\ Recomputed(state, rows, i).acked = state.acked
           /\ Recomputed(state, rows, i).status = state.status
           /\ state.acked => Recomputed(state, rows, i).sync = DerivedSync(rows, i)
<1> DEFINE d == DerivedSync(rows, i)
<1>1. d \in SyncStatus
  BY DerivedIsAStatus
<1> HIDE DEF d
<1>2. Recomputed(state, rows, i) = IF state.acked THEN [state EXCEPT !.sync = d] ELSE state
  BY DEF Recomputed, d
<1>3. /\ Recomputed(state, rows, i) \in IncidentState
      /\ Recomputed(state, rows, i).acked = state.acked
      /\ Recomputed(state, rows, i).status = state.status
      /\ state.acked => Recomputed(state, rows, i).sync = d
  BY <1>1, <1>2 DEF IncidentState
<1> QED BY <1>3 DEF d

LEMMA WrittenIsAnOrder ==
    ASSUME NEW ids, Written(ids) PROVE order' \subseteq Incident \X Incident
BY DEF Written

\* The world of Zabbix: only upstream grows.
LEMMA ZabbixKeeps ==
    ASSUME PropagationInv, Upstream \/ (\E c \in Connector : ReadProblems(c)) PROVE PropagationInv'
<1>1. /\ UNCHANGED <<row, inc, order, cooled, call, queue, crashes>>
      /\ upstream \subseteq upstream' /\ upstream' \subseteq Event /\ present' \subseteq Event
  BY DEF Upstream, ProblemStarts, ProblemEnds, AcknowledgedUpstream, ReadProblems, PropagationInv, AckInv, TypeOK
<1>2. /\ snap' \in [Connector -> [read : BOOLEAN, events : SUBSET Event, acked : SUBSET Event]]
      /\ \A c \in Connector : snap'[c].acked \subseteq upstream' \cap snap'[c].events
  <2>1. CASE Upstream
    BY <1>1, <2>1 DEF Upstream, ProblemStarts, ProblemEnds, AcknowledgedUpstream, PropagationInv, AckInv, TypeOK,
                      UpstreamIsTrue
  <2>2. ASSUME NEW c \in Connector, ReadProblems(c)
        PROVE  /\ snap' \in [Connector -> [read : BOOLEAN, events : SUBSET Event, acked : SUBSET Event]]
               /\ \A d \in Connector : snap'[d].acked \subseteq upstream' \cap snap'[d].events
    BY ZenonT(60), <1>1, <2>2 DEF ReadProblems, PropagationInv, AckInv, TypeOK, UpstreamIsTrue
  <2> QED BY <2>1, <2>2
<1>3. TypeOK'
  BY <1>1, <1>2 DEF PropagationInv, AckInv, TypeOK
<1>4. StatusIsDerived' /\ AckIsShared' /\ SynchronizedIsTrue'
  BY ZenonT(60), <1>1 DEF PropagationInv, AckInv, StatusIsDerived, AckIsShared, SynchronizedIsTrue, DerivedSync, ActiveRows
<1>5. UpstreamIsTrue' /\ CallsAreOfTheIncident'
  BY <1>1, <1>2 DEF PropagationInv, UpstreamIsTrue, CallsAreOfTheIncident
<1> QED BY <1>3, <1>4, <1>5 DEF PropagationInv, AckInv

\* What every write of evidence has to show: the rows it leaves are acknowledged
\* as their incident is, and the columns of the incidents are derived from them.
LEMMA RowsKeep ==
    ASSUME PropagationInv, UNCHANGED <<present, upstream, crashes>>,
           snap' \in [Connector -> [read : BOOLEAN, events : SUBSET Event, acked : SUBSET Event]],
           \A c \in Connector : snap'[c] = snap[c] \/ snap'[c] = NoSnap,
           row' \in [Event -> Row], inc' \in [Incident -> IncidentState],
           order' \subseteq Incident \X Incident, cooled' \subseteq Event, queue' \in Seq(Incident),
           call' \in [Caller -> [busy : BOOLEAN, incident : Incident,
                                 todo : SUBSET (Event \X (0..MaxRows)),
                                 done : SUBSET (Event \X (0..MaxRows) \X BOOLEAN)]],
           CallsAreOfTheIncident',
           \A i \in Incident : inc'[i].acked => inc'[i].sync = DerivedSync(row', i),
           \A e \in Event : row'[e].active =>
              /\ inc'[IncidentOf[e]].acked => row'[e].sync # "not_applicable"
              /\ row'[e].upAck => inc'[IncidentOf[e]].acked /\ e \in upstream
              /\ row'[e].sync = "synchronized" => e \in upstream
    PROVE  PropagationInv'
<1>1. TypeOK'
  BY DEF PropagationInv, AckInv, TypeOK
<1>2. StatusIsDerived'
  BY DEF StatusIsDerived, DerivedSync, ActiveRows
<1>3. AckIsShared' /\ SynchronizedIsTrue'
  BY DEF AckIsShared, SynchronizedIsTrue
<1>4. UpstreamIsTrue'
  <2>1. NoSnap.acked = {}
    BY DEF NoSnap
  <2> QED BY <2>1 DEF PropagationInv, UpstreamIsTrue
<1> QED BY <1>1, <1>2, <1>3, <1>4 DEF PropagationInv, AckInv

LEMMA RetireKeeps ==
    ASSUME PropagationInv, NEW e \in Event, RetireRow(e) PROVE PropagationInv'
<1> DEFINE rows == [row EXCEPT ![e].active = FALSE]
           i == IncidentOf[e]
           after == Recomputed(inc[i], rows, i)
<1>1. /\ TypeOK /\ StatusIsDerived /\ AckIsShared /\ SynchronizedIsTrue /\ UpstreamIsTrue
      /\ CallsAreOfTheIncident /\ i \in Incident
  BY DEF PropagationInv, AckInv
<1>2. /\ rows \in [Event -> Row]
      /\ \A f \in Event : f # e => rows[f] = row[f]
      /\ ~rows[e].active
  BY ZenonT(60), <1>1 DEF TypeOK, Row
<1>3. inc[i] \in IncidentState
  BY <1>1 DEF TypeOK
<1> HIDE DEF rows
<1>4. /\ after \in IncidentState /\ after.acked = inc[i].acked
      /\ after.acked => after.sync = DerivedSync(rows, i)
  BY <1>3, RecomputedIsDerived
<1>5. /\ row' = rows /\ inc' = [inc EXCEPT ![i] = after]
      /\ order' \subseteq Incident \X Incident /\ cooled' \subseteq Event
      /\ UNCHANGED <<present, upstream, snap, call, queue, crashes>>
  BY <1>1, WrittenIsAnOrder DEF RetireRow, rows, Touch, TypeOK
<1> HIDE DEF after, i
<1>6. /\ inc' \in [Incident -> IncidentState] /\ inc'[i] = after
      /\ \A j \in Incident : j # i => inc'[j] = inc[j]
      /\ \A j \in Incident : inc'[j].acked = inc[j].acked
  BY <1>1, <1>4, <1>5 DEF TypeOK
<1>7. \A j \in Incident : inc'[j].acked => inc'[j].sync = DerivedSync(rows, j)
  <2> SUFFICES ASSUME NEW j \in Incident, inc'[j].acked PROVE inc'[j].sync = DerivedSync(rows, j)
    OBVIOUS
  <2>1. CASE j = i
    BY <1>4, <1>6, <2>1
  <2>2. CASE j # i
    <3>1. DerivedSync(rows, j) = DerivedSync(row, j)
      BY <1>2, <2>2, DerivedLocally DEF i
    <3> QED BY <1>1, <1>6, <2>2, <3>1 DEF StatusIsDerived
  <2> QED BY <2>1, <2>2
<1>8. CallsAreOfTheIncident'
  BY <1>1, <1>5, <1>6 DEF CallsAreOfTheIncident, TypeOK
<1>9. /\ snap' \in [Connector -> [read : BOOLEAN, events : SUBSET Event, acked : SUBSET Event]]
      /\ \A c \in Connector : snap'[c] = snap[c] \/ snap'[c] = NoSnap
      /\ queue' \in Seq(Incident)
      /\ call' \in [Caller -> [busy : BOOLEAN, incident : Incident,
                               todo : SUBSET (Event \X (0..MaxRows)),
                               done : SUBSET (Event \X (0..MaxRows) \X BOOLEAN)]]
  BY <1>1, <1>5 DEF TypeOK
<1>10. \A f \in Event : row'[f].active =>
          /\ inc'[IncidentOf[f]].acked => row'[f].sync # "not_applicable"
          /\ row'[f].upAck => inc'[IncidentOf[f]].acked /\ f \in upstream
          /\ row'[f].sync = "synchronized" => f \in upstream
  BY <1>1, <1>2, <1>5, <1>6 DEF AckIsShared, SynchronizedIsTrue, UpstreamIsTrue
<1> QED BY <1>2, <1>5, <1>6, <1>7, <1>8, <1>9, <1>10, RowsKeep

LEMMA SnapshotKeeps ==
    ASSUME PropagationInv, NEW c \in Connector, ApplySnapshot(c) PROVE PropagationInv'
<1> DEFINE rows == SnapshotRows(c)
           resumed(i) == [inc[i] EXCEPT !.acked = AckedAfter(c, i),
                                        !.status = IF ActiveRows(rows, i) # {} THEN "active" ELSE @]
           after(i) == Recomputed(resumed(i), rows, i)
<1>1. /\ TypeOK /\ StatusIsDerived /\ AckIsShared /\ SynchronizedIsTrue /\ UpstreamIsTrue
      /\ CallsAreOfTheIncident
      /\ \A i \in Incident : AckedAfter(c, i) \in BOOLEAN /\ (inc[i].acked => AckedAfter(c, i))
  BY DEF PropagationInv, AckInv, AckedAfter, TypeOK, IncidentState
<1>2. /\ \A e \in snap[c].events : row[e].active \/ row[e].gen < MaxRows
      /\ snap[c].acked \subseteq upstream \cap snap[c].events
      /\ row' = rows
      /\ UNCHANGED <<present, upstream, call, queue, crashes>>
      /\ snap' = [snap EXCEPT ![c] = NoSnap]
  BY <1>1 DEF ApplySnapshot, UpstreamIsTrue
<1>3. \A e \in Event : rows[e] \in Row
  <2> SUFFICES ASSUME NEW e \in Event PROVE rows[e] \in Row
    OBVIOUS
  <2>1. row[e] \in Row
    BY <1>1 DEF TypeOK
  <2>2. CASE e \in snap[c].events
    <3>1. rows[e] = ReportedRow(e, AckedAfter(c, IncidentOf[e]), c)
      BY <2>2 DEF SnapshotRows
    <3>2. row[e].gen \in 0..MaxRows /\ row[e].sync \in SyncStatus /\ (row[e].active \/ row[e].gen < MaxRows)
      BY <1>2, <2>1, <2>2 DEF Row
    <3> QED BY <3>1, <3>2 DEF ReportedRow, Row, SyncStatus
  <2>3. CASE e \notin snap[c].events
    BY <2>1, <2>3 DEF SnapshotRows, InheritedRow, Row, SyncStatus
  <2> QED BY <2>2, <2>3
<1>4. \A e \in Event : rows[e].active =>
          /\ AckedAfter(c, IncidentOf[e]) => rows[e].sync # "not_applicable"
          /\ rows[e].upAck => AckedAfter(c, IncidentOf[e]) /\ e \in upstream
          /\ rows[e].sync = "synchronized" => e \in upstream
  <2> SUFFICES ASSUME NEW e \in Event, rows[e].active
               PROVE  /\ AckedAfter(c, IncidentOf[e]) => rows[e].sync # "not_applicable"
                      /\ rows[e].upAck => AckedAfter(c, IncidentOf[e]) /\ e \in upstream
                      /\ rows[e].sync = "synchronized" => e \in upstream
    OBVIOUS
  <2>1. /\ row[e] \in Row
        /\ row[e].active =>
             /\ inc[IncidentOf[e]].acked => row[e].sync # "not_applicable"
             /\ row[e].upAck => inc[IncidentOf[e]].acked /\ e \in upstream
             /\ row[e].sync = "synchronized" => e \in upstream
        /\ inc[IncidentOf[e]].acked => AckedAfter(c, IncidentOf[e])
    BY <1>1 DEF TypeOK, AckIsShared, UpstreamIsTrue, SynchronizedIsTrue
  <2>2. CASE e \in snap[c].events
    <3>1. rows[e] = ReportedRow(e, AckedAfter(c, IncidentOf[e]), c)
      BY <2>2 DEF SnapshotRows
    <3>2. e \in snap[c].acked => AckedAfter(c, IncidentOf[e]) /\ e \in upstream
      BY <1>2 DEF AckedAfter
    <3> DEFINE acked == AckedAfter(c, IncidentOf[e])
    <3>3. /\ rows[e].upAck <=> e \in snap[c].acked
          /\ rows[e].sync = IF e \in snap[c].acked THEN "synchronized"
                            ELSE IF acked THEN "pending"
                            ELSE IF row[e].active THEN row[e].sync ELSE "not_applicable"
      <4> HIDE DEF acked
      <4>1. rows[e] = ReportedRow(e, acked, c)
        BY <3>1 DEF acked
      <4> HIDE DEF rows
      <4> DEFINE r == ReportedRow(e, acked, c)
      <4>2. r.upAck = (e \in snap[c].acked)
        BY DEF ReportedRow
      <4>3. r.sync = IF e \in snap[c].acked THEN "synchronized"
                     ELSE IF acked THEN "pending"
                     ELSE IF row[e].active THEN row[e].sync ELSE "not_applicable"
        BY DEF ReportedRow
      <4> HIDE DEF r
      <4> QED BY <4>1, <4>2, <4>3 DEF r
    <3>4. inc[IncidentOf[e]].acked => acked
      BY <2>1
    <3> HIDE DEF rows, acked
    <3>5. /\ acked => rows[e].sync # "not_applicable"
          /\ rows[e].upAck => acked /\ e \in upstream
          /\ rows[e].sync = "synchronized" => e \in upstream
      BY <2>1, <3>2, <3>3, <3>4 DEF acked
    <3> QED BY <3>5 DEF acked
  <2>3. CASE e \notin snap[c].events
    BY <2>1, <2>3 DEF SnapshotRows, InheritedRow, Row
  <2> QED BY <2>2, <2>3
<1>5. row' \in [Event -> Row]
  BY <1>2, <1>3 DEF SnapshotRows
<1>6. \A i \in Incident : resumed(i) \in IncidentState /\ resumed(i).acked = AckedAfter(c, i)
  <2> SUFFICES ASSUME NEW i \in Incident
               PROVE  resumed(i) \in IncidentState /\ resumed(i).acked = AckedAfter(c, i)
    OBVIOUS
  <2> DEFINE status == IF ActiveRows(rows, i) # {} THEN "active" ELSE inc[i].status
  <2>1. inc[i] \in IncidentState /\ AckedAfter(c, i) \in BOOLEAN
    BY <1>1 DEF TypeOK
  <2>2. status \in {"active", "resolved"}
    BY <2>1 DEF IncidentState
  <2>3. resumed(i) = [inc[i] EXCEPT !.acked = AckedAfter(c, i), !.status = status]
    OBVIOUS
  <2> HIDE DEF resumed, status
  <2> QED BY <2>1, <2>2, <2>3 DEF IncidentState
<1>7. inc' = [i \in Incident |-> after(i)]
  BY DEF ApplySnapshot
<1>8. \A i \in Incident : /\ after(i) \in IncidentState /\ after(i).acked = AckedAfter(c, i)
                          /\ after(i).acked => after(i).sync = DerivedSync(rows, i)
  <2> SUFFICES ASSUME NEW i \in Incident
               PROVE  /\ after(i) \in IncidentState /\ after(i).acked = AckedAfter(c, i)
                      /\ after(i).acked => after(i).sync = DerivedSync(rows, i)
    OBVIOUS
  <2> DEFINE g == resumed(i)
             a == after(i)
  <2>1. a = Recomputed(g, rows, i) /\ g \in IncidentState /\ g.acked = AckedAfter(c, i)
    BY <1>6
  <2> HIDE DEF rows, g
  <2>2. /\ a \in IncidentState /\ a.acked = g.acked
        /\ g.acked => a.sync = DerivedSync(rows, i)
    <3> HIDE DEF a
    <3> QED BY <2>1, RecomputedIsDerived
  <2> QED BY <2>1, <2>2
<1> HIDE DEF rows, after, resumed
<1>9. /\ inc' \in [Incident -> IncidentState]
      /\ \A i \in Incident : /\ inc'[i].acked = AckedAfter(c, i)
                             /\ inc'[i].acked => inc'[i].sync = DerivedSync(rows, i)
  BY <1>7, <1>8
<1>10. CallsAreOfTheIncident'
  BY <1>1, <1>2, <1>9 DEF CallsAreOfTheIncident, TypeOK
<1>11. /\ snap' \in [Connector -> [read : BOOLEAN, events : SUBSET Event, acked : SUBSET Event]]
       /\ \A d \in Connector : snap'[d] = snap[d] \/ snap'[d] = NoSnap
       /\ queue' \in Seq(Incident) /\ cooled' \subseteq Event
       /\ call' \in [Caller -> [busy : BOOLEAN, incident : Incident,
                                todo : SUBSET (Event \X (0..MaxRows)),
                                done : SUBSET (Event \X (0..MaxRows) \X BOOLEAN)]]
  <2>1. cooled' \subseteq cooled
    BY DEF ApplySnapshot, Touch
  <2>2. NoSnap \in [read : BOOLEAN, events : SUBSET Event, acked : SUBSET Event]
    BY DEF NoSnap
  <2> QED BY <1>1, <1>2, <2>1, <2>2 DEF TypeOK
<1>12. order' \subseteq Incident \X Incident
  BY WrittenIsAnOrder DEF ApplySnapshot
<1>13. /\ \A i \in Incident : inc'[i].acked => inc'[i].sync = DerivedSync(row', i)
       /\ \A f \in Event : row'[f].active =>
             /\ inc'[IncidentOf[f]].acked => row'[f].sync # "not_applicable"
             /\ row'[f].upAck => inc'[IncidentOf[f]].acked /\ f \in upstream
             /\ row'[f].sync = "synchronized" => f \in upstream
  BY <1>2, <1>4, <1>9
<1> QED BY <1>2, <1>5, <1>9, <1>10, <1>11, <1>12, <1>13, RowsKeep

LEMMA ResolveKeeps ==
    ASSUME PropagationInv, NEW i \in Incident, ResolveIncident(i) PROVE PropagationInv'
<1>1. /\ inc' = [inc EXCEPT ![i].status = "resolved"]
      /\ UNCHANGED <<present, upstream, snap, row, cooled, call, queue, crashes>>
      /\ order' \subseteq Incident \X Incident
  BY WrittenIsAnOrder DEF ResolveIncident
<1>2. /\ inc' \in [Incident -> IncidentState]
      /\ \A j \in Incident : inc'[j].acked = inc[j].acked /\ inc'[j].sync = inc[j].sync
  <2>1. inc \in [Incident -> IncidentState]
    BY DEF PropagationInv, AckInv, TypeOK
  <2>2. inc' \in [Incident -> IncidentState]
    BY <1>1, <2>1 DEF IncidentState
  <2>3. \A j \in Incident : inc'[j].acked = inc[j].acked /\ inc'[j].sync = inc[j].sync
    BY <1>1, <2>1 DEF IncidentState
  <2> QED BY <2>2, <2>3
<1>3. TypeOK' /\ CallsAreOfTheIncident'
  BY <1>1, <1>2 DEF PropagationInv, AckInv, TypeOK, CallsAreOfTheIncident
<1>4. StatusIsDerived' /\ AckIsShared' /\ SynchronizedIsTrue' /\ UpstreamIsTrue'
  BY <1>1, <1>2 DEF PropagationInv, AckInv, StatusIsDerived, AckIsShared, SynchronizedIsTrue, UpstreamIsTrue,
                    DerivedSync, ActiveRows
<1> QED BY <1>3, <1>4 DEF PropagationInv, AckInv

\* A call that is begun, by whoever begins it; the queue is the runtime's.
LEMMA LocalKeeps ==
    ASSUME PropagationInv, NEW c \in Caller, NEW i \in Incident, AcknowledgeLocal(c, i),
           queue' \in Seq(Incident)
    PROVE  PropagationInv'
<1> DEFINE fresh == ~inc[i].acked
           mine == ActiveRows(row, i)
           rows == [e \in Event |-> IF fresh /\ e \in mine THEN AcknowledgedRow(row[e]) ELSE row[e]]
           plan == {e \in mine : rows[e].sync \in {"pending", "failed"}}
           begun == [busy |-> TRUE, incident |-> i, todo |-> {<<e, row[e].gen>> : e \in plan},
                     done |-> {}]
<1>1. /\ TypeOK /\ StatusIsDerived /\ AckIsShared /\ SynchronizedIsTrue /\ UpstreamIsTrue
      /\ CallsAreOfTheIncident /\ inc[i] \in IncidentState
      /\ \A e \in mine : e \in Event /\ IncidentOf[e] = i /\ row[e].active
  BY DEF PropagationInv, AckInv, TypeOK, ActiveRows
<1>2. /\ row' = rows /\ UNCHANGED <<present, upstream, snap, crashes>>
      /\ call' = [call EXCEPT ![c] = IF plan = {} THEN NoCall ELSE begun]
      /\ fresh => inc' = [inc EXCEPT ![i].acked = TRUE,
                             ![i].sync = IF mine = {} THEN "not_applicable" ELSE "pending"]
      /\ ~fresh => inc' = inc
      /\ cooled' \subseteq cooled
  BY DEF AcknowledgeLocal, Touch
<1>3. order' \subseteq Incident \X Incident
  BY <1>1, WrittenIsAnOrder DEF AcknowledgeLocal, TypeOK
<1>4. \A e \in Event :
          /\ rows[e] \in Row /\ rows[e].active = row[e].active /\ rows[e].upAck = row[e].upAck
          /\ rows[e].sync = IF fresh /\ e \in mine
                            THEN (IF row[e].upAck THEN "synchronized" ELSE "pending")
                            ELSE row[e].sync
  BY ZenonT(60), <1>1 DEF TypeOK, AcknowledgedRow, Row, SyncStatus
<1>5. row' \in [Event -> Row]
  BY <1>2, <1>4
<1>6. plan \subseteq mine
  OBVIOUS
<1> HIDE DEF rows, plan
<1>7. /\ begun \in [busy : BOOLEAN, incident : Incident, todo : SUBSET (Event \X (0..MaxRows)),
                    done : SUBSET (Event \X (0..MaxRows) \X BOOLEAN)]
      /\ begun.busy /\ begun.incident = i /\ begun.done = {}
      /\ \A t \in begun.todo : IncidentOf[t[1]] = i
  <2> DEFINE todo == {<<e, row[e].gen>> : e \in plan}
  <2>1. \A e \in plan : e \in Event /\ IncidentOf[e] = i /\ row[e].gen \in 0..MaxRows
    BY <1>1, <1>6 DEF TypeOK, Row
  <2>2. todo \in SUBSET (Event \X (0..MaxRows)) /\ \A t \in todo : IncidentOf[t[1]] = i
    BY <2>1
  <2>3. begun = [busy |-> TRUE, incident |-> i, todo |-> todo, done |-> {}]
    OBVIOUS
  <2> HIDE DEF todo, begun
  <2> QED BY <2>2, <2>3
<1>8. /\ NoCall \in [busy : BOOLEAN, incident : Incident, todo : SUBSET (Event \X (0..MaxRows)),
                     done : SUBSET (Event \X (0..MaxRows) \X BOOLEAN)]
      /\ ~NoCall.busy /\ NoCall.todo = {} /\ NoCall.done = {}
  BY DEF NoCall
<1> HIDE DEF begun
<1>9. /\ call' \in [Caller -> [busy : BOOLEAN, incident : Incident,
                               todo : SUBSET (Event \X (0..MaxRows)),
                               done : SUBSET (Event \X (0..MaxRows) \X BOOLEAN)]]
      /\ call'[c] = NoCall \/ call'[c] = begun
      /\ \A d \in Caller : d # c => call'[d] = call[d]
  BY <1>1, <1>2, <1>7, <1>8 DEF TypeOK
<1>10. /\ inc' \in [Incident -> IncidentState] /\ inc'[i].acked
       /\ fresh => inc'[i].sync = IF mine = {} THEN "not_applicable" ELSE "pending"
       /\ ~fresh => inc' = inc
       /\ \A j \in Incident : j # i => inc'[j] = inc[j]
  <2>1. CASE fresh
    <3> DEFINE display == IF mine = {} THEN "not_applicable" ELSE "pending"
    <3>1. display \in SyncStatus /\ inc' = [inc EXCEPT ![i].acked = TRUE, ![i].sync = display]
      BY <1>2, <2>1 DEF SyncStatus
    <3>2. inc'[i].sync = display
      <4> HIDE DEF display
      <4> QED BY <1>1, <3>1 DEF TypeOK, IncidentState
    <3> HIDE DEF display, mine
    <3>3. /\ inc' \in [Incident -> IncidentState] /\ inc'[i].acked
          /\ \A j \in Incident : j # i => inc'[j] = inc[j]
      BY <1>1, <3>1 DEF TypeOK, IncidentState
    <3> QED BY <2>1, <3>2, <3>3 DEF display
  <2>2. CASE ~fresh
    BY <1>1, <1>2, <2>2 DEF TypeOK
  <2> QED BY <2>1, <2>2
<1>11. CallsAreOfTheIncident'
  BY <1>1, <1>2, <1>7, <1>8, <1>9, <1>10 DEF CallsAreOfTheIncident, TypeOK
<1>12. \A j \in Incident : inc'[j].acked => inc'[j].sync = DerivedSync(rows, j)
  <2> SUFFICES ASSUME NEW j \in Incident, inc'[j].acked PROVE inc'[j].sync = DerivedSync(rows, j)
    OBVIOUS
  <2>1. CASE j = i /\ fresh
    <3>1. /\ ActiveRows(rows, i) = mine
          /\ \A e \in mine : rows[e].sync = "pending"
      BY <1>1, <1>4, <2>1 DEF ActiveRows, AckIsShared
    <3> HIDE DEF mine
    <3>2. DerivedSync(rows, i) = IF mine = {} THEN "not_applicable" ELSE "pending"
      BY <3>1 DEF DerivedSync
    <3> QED BY <1>10, <2>1, <3>2
  <2>2. CASE ~(j = i /\ fresh)
    <3>1. DerivedSync(rows, j) = DerivedSync(row, j)
      <4>1. \A e \in Event : IncidentOf[e] = j => rows[e].active = row[e].active /\ rows[e].sync = row[e].sync
        BY <1>1, <1>4, <2>2
      <4>2. ActiveRows(rows, j) = ActiveRows(row, j)
        BY <4>1 DEF ActiveRows
      <4>3. \A e \in ActiveRows(row, j) : rows[e].sync = row[e].sync
        BY <4>1 DEF ActiveRows
      <4> QED BY <4>2, <4>3 DEF DerivedSync
    <3> QED BY <1>1, <1>10, <2>2, <3>1 DEF StatusIsDerived
  <2> QED BY <2>1, <2>2
<1>13. \A f \in Event : row'[f].active =>
          /\ inc'[IncidentOf[f]].acked => row'[f].sync # "not_applicable"
          /\ row'[f].upAck => inc'[IncidentOf[f]].acked /\ f \in upstream
          /\ row'[f].sync = "synchronized" => f \in upstream
  <2> SUFFICES ASSUME NEW f \in Event, rows[f].active
               PROVE  /\ inc'[IncidentOf[f]].acked => rows[f].sync # "not_applicable"
                      /\ rows[f].upAck => inc'[IncidentOf[f]].acked /\ f \in upstream
                      /\ rows[f].sync = "synchronized" => f \in upstream
    BY <1>2
  <2>1. /\ row[f].active
        /\ inc[IncidentOf[f]].acked => row[f].sync # "not_applicable"
        /\ row[f].upAck => inc[IncidentOf[f]].acked /\ f \in upstream
        /\ row[f].sync = "synchronized" => f \in upstream
    BY <1>1, <1>4 DEF AckIsShared, UpstreamIsTrue, SynchronizedIsTrue
  <2>2. inc[IncidentOf[f]].acked => inc'[IncidentOf[f]].acked
    BY <1>10
  <2>3. f \in mine <=> IncidentOf[f] = i
    BY <2>1 DEF ActiveRows
  <2> QED BY <1>4, <1>10, <2>1, <2>2, <2>3
<1>14. /\ snap' \in [Connector -> [read : BOOLEAN, events : SUBSET Event, acked : SUBSET Event]]
       /\ \A d \in Connector : snap'[d] = snap[d] \/ snap'[d] = NoSnap
       /\ cooled' \subseteq Event
  BY <1>1, <1>2 DEF TypeOK
<1> QED BY <1>2, <1>3, <1>5, <1>9, <1>10, <1>11, <1>12, <1>13, <1>14, RowsKeep

LEMMA QueueKeeps ==
    ASSUME PropagationInv, UNCHANGED <<present, upstream, snap, row, inc, order, cooled, call, crashes>>,
           queue' \in Seq(Incident)
    PROVE  PropagationInv'
<1>1. TypeOK'
  BY DEF PropagationInv, AckInv, TypeOK
<1>2. StatusIsDerived'
  <2>1. \A i \in Incident : DerivedSync(row', i) = DerivedSync(row, i)
    OBVIOUS
  <2> QED BY <2>1 DEF PropagationInv, AckInv, StatusIsDerived
<1>3. SynchronizedIsTrue' /\ AckIsShared' /\ UpstreamIsTrue'
  BY DEF PropagationInv, AckInv, SynchronizedIsTrue, AckIsShared, UpstreamIsTrue
<1>4. CallsAreOfTheIncident'
  BY DEF PropagationInv, CallsAreOfTheIncident
<1> QED BY <1>1, <1>2, <1>3, <1>4 DEF PropagationInv, AckInv

\* The batch of the runtime.
LEMMA SelectKeeps == ASSUME PropagationInv, RuntimeSelects PROVE PropagationInv'
<1> DEFINE items == {i \in Incident : Pending(i)}
           n == IF Cardinality(items) < Batch THEN Cardinality(items) ELSE Batch
<1>1. Cardinality(items) \in Nat
  BY FS_Subset, FS_CardinalityType
<1>2. n \in Nat
  BY <1>1
<1>3. queue' \in [1..n -> items]
  BY DEF RuntimeSelects
<1> HIDE DEF n
<1>4. queue' \in [1..n -> Incident]
  BY <1>3
<1>5. queue' \in Seq(Incident)
  <2>1. queue' = [k \in 1..n |-> queue'[k]] /\ \A k \in 1..n : queue'[k] \in Incident
    BY <1>4
  <2>2. [k \in 1..n |-> queue'[k]] \in Seq(Incident)
    BY SMTT(40), <1>2, <2>1
  <2> QED BY <2>1, <2>2
<1>6. UNCHANGED <<present, upstream, snap, row, inc, order, cooled, call, crashes>>
  BY DEF RuntimeSelects
<1> QED BY <1>5, <1>6, QueueKeeps

\* An answer, or none: the event goes from what is to be done to what is.
LEMMA CallKeeps ==
    ASSUME PropagationInv, NEW c \in Caller, NEW t \in call[c].todo,
           CallSucceeds(c, t) \/ CallFails(c, t)
    PROVE  PropagationInv'
<1>1. /\ TypeOK /\ CallsAreOfTheIncident /\ UpstreamIsTrue
      /\ t \in Event \X (0..MaxRows)
  BY DEF PropagationInv, AckInv, TypeOK
<1>2. PICK ok \in BOOLEAN :
          /\ Called(c, t, ok)
          /\ ok => upstream' = upstream \cup {t[1]}
          /\ upstream' = upstream \/ upstream' = upstream \cup {t[1]}
  BY DEF CallSucceeds, CallFails
<1>3. UNCHANGED <<present, snap, row, inc, order, cooled, queue, crashes>>
  BY DEF CallSucceeds, CallFails
<1>4. /\ upstream \subseteq upstream' /\ upstream' \subseteq Event
      /\ ok => t[1] \in upstream'
  BY <1>1, <1>2 DEF TypeOK
<1> DEFINE todo == call[c].todo \ {t}
           done == call[c].done \cup {<<t[1], t[2], ok>>}
<1>5. call' = [call EXCEPT ![c].todo = todo, ![c].done = done]
  BY <1>2 DEF Called
<1>6. /\ todo \in SUBSET (Event \X (0..MaxRows))
      /\ done \in SUBSET (Event \X (0..MaxRows) \X BOOLEAN)
  BY <1>1 DEF TypeOK
<1>7. /\ \A u \in todo : IncidentOf[u[1]] = call[c].incident
      /\ \A d \in done : IncidentOf[d[1]] = call[c].incident /\ (d[3] => d[1] \in upstream')
      /\ call[c].busy
  <2>1. /\ \A u \in call[c].todo : IncidentOf[u[1]] = call[c].incident
        /\ \A d \in call[c].done : IncidentOf[d[1]] = call[c].incident /\ (d[3] => d[1] \in upstream)
        /\ ~call[c].busy => call[c].todo = {}
    BY <1>1 DEF CallsAreOfTheIncident
  <2>2. <<t[1], t[2], ok>>[1] = t[1] /\ <<t[1], t[2], ok>>[3] = ok
    OBVIOUS
  <2>3. ASSUME NEW d \in done PROVE IncidentOf[d[1]] = call[c].incident /\ (d[3] => d[1] \in upstream')
    <3>1. CASE d \in call[c].done
      BY <1>4, <2>1, <3>1
    <3>2. CASE d = <<t[1], t[2], ok>>
      BY <1>4, <2>1, <2>2, <3>2
    <3> QED BY <2>3, <3>1, <3>2
  <2>4. \A u \in todo : IncidentOf[u[1]] = call[c].incident
    BY <2>1
  <2>5. call[c].busy
    BY <2>1
  <2> QED BY <2>3, <2>4, <2>5
<1> HIDE DEF todo, done
<1>8. /\ call' \in [Caller -> [busy : BOOLEAN, incident : Incident,
                               todo : SUBSET (Event \X (0..MaxRows)),
                               done : SUBSET (Event \X (0..MaxRows) \X BOOLEAN)]]
      /\ call'[c].todo = todo /\ call'[c].done = done
      /\ call'[c].busy = call[c].busy /\ call'[c].incident = call[c].incident
      /\ \A d \in Caller : d # c => call'[d] = call[d]
  BY ZenonT(60), <1>1, <1>5, <1>6 DEF TypeOK
<1>9. TypeOK'
  BY <1>1, <1>3, <1>4, <1>8 DEF TypeOK
<1>10. CallsAreOfTheIncident'
  <2> DEFINE Right(d) ==
                /\ call'[d].busy => inc[call'[d].incident].acked
                /\ ~call'[d].busy => call'[d].todo = {} /\ call'[d].done = {}
                /\ \A u \in call'[d].todo : IncidentOf[u[1]] = call'[d].incident
                /\ \A u \in call'[d].done : /\ IncidentOf[u[1]] = call'[d].incident
                                            /\ u[3] => u[1] \in upstream'
  <2>1. Right(c)
    <3>1. call[c].busy => inc[call[c].incident].acked
      BY <1>1 DEF CallsAreOfTheIncident
    <3>2. inc[call'[c].incident].acked /\ call'[c].busy
      BY <1>7, <1>8, <3>1
    <3>3. \A u \in call'[c].todo : IncidentOf[u[1]] = call'[c].incident
      BY <1>7, <1>8
    <3>4. \A u \in call'[c].done : IncidentOf[u[1]] = call'[c].incident /\ (u[3] => u[1] \in upstream')
      BY <1>7, <1>8, Zenon
    <3> QED BY <3>2, <3>3, <3>4, Zenon
  <2>2. ASSUME NEW d \in Caller, d # c PROVE Right(d)
    <3>1. call'[d] = call[d]
      BY <1>8, <2>2
    <3>2. /\ call[d].busy => inc[call[d].incident].acked
          /\ ~call[d].busy => call[d].todo = {} /\ call[d].done = {}
          /\ \A u \in call[d].todo : IncidentOf[u[1]] = call[d].incident
          /\ \A u \in call[d].done : /\ IncidentOf[u[1]] = call[d].incident
                                     /\ u[3] => u[1] \in upstream'
      BY <1>1, <1>4, <2>2, Zenon DEF CallsAreOfTheIncident
    <3> QED BY <3>1, <3>2
  <2> HIDE DEF Right
  <2>3. \A d \in Caller : Right(d)
    BY <2>1, <2>2
  <2> QED BY <1>3, <2>3, Zenon DEF CallsAreOfTheIncident, Right
<1>11. UpstreamIsTrue' /\ StatusIsDerived' /\ AckIsShared' /\ SynchronizedIsTrue'
  BY ZenonT(60), <1>1, <1>3, <1>4 DEF PropagationInv, AckInv, UpstreamIsTrue, StatusIsDerived, AckIsShared,
                          SynchronizedIsTrue, DerivedSync, ActiveRows
<1> QED BY <1>9, <1>10, <1>11 DEF PropagationInv, AckInv

\* The results are recorded on the rows that are still there.
LEMMA CompleteKeeps ==
    ASSUME PropagationInv, NEW c \in Caller, CompleteAcknowledgement(c) PROVE PropagationInv'
<1> DEFINE i == call[c].incident
           rows == [e \in Event |-> Completed(e, c)]
           after == Recomputed(inc[i], rows, i)
<1>1. /\ TypeOK /\ StatusIsDerived /\ AckIsShared /\ SynchronizedIsTrue /\ UpstreamIsTrue
      /\ CallsAreOfTheIncident /\ i \in Incident /\ inc[i] \in IncidentState
  BY DEF PropagationInv, AckInv, TypeOK
<1>2. /\ call[c].busy /\ inc[i].acked
      /\ row' = rows /\ inc' = [inc EXCEPT ![i] = after]
      /\ call' = [call EXCEPT ![c] = NoCall] /\ cooled' \subseteq cooled
      /\ order' \subseteq Incident \X Incident
      /\ UNCHANGED <<present, upstream, snap, queue, crashes>>
  BY <1>1, WrittenIsAnOrder DEF CompleteAcknowledgement, CallsAreOfTheIncident, Touch
<1>3. \A e \in Event :
          /\ rows[e] \in Row /\ rows[e].active = row[e].active
          /\ IncidentOf[e] # i => rows[e] = row[e]
          /\ rows[e].sync # row[e].sync => rows[e].sync \in {"synchronized", "failed"}
          /\ rows[e].sync = "synchronized" /\ row[e].sync # "synchronized" =>
                e \in upstream
          /\ rows[e].upAck => row[e].upAck \/ (e \in upstream /\ IncidentOf[e] = i)
  <2> SUFFICES ASSUME NEW e \in Event
               PROVE  /\ rows[e] \in Row /\ rows[e].active = row[e].active
                      /\ IncidentOf[e] # i => rows[e] = row[e]
                      /\ rows[e].sync # row[e].sync => rows[e].sync \in {"synchronized", "failed"}
                      /\ rows[e].sync = "synchronized" /\ row[e].sync # "synchronized" =>
                            e \in upstream
                      /\ rows[e].upAck => row[e].upAck \/ (e \in upstream /\ IncidentOf[e] = i)
    OBVIOUS
  <2>1. row[e] \in Row /\ rows[e] = Completed(e, c)
    BY <1>1 DEF TypeOK
  <2>2. \A d \in Results(e, c) : IncidentOf[e] = i /\ (d[3] => e \in upstream)
    BY <1>1 DEF Results, CallsAreOfTheIncident
  <2> HIDE DEF rows, i
  <2>3. CASE Results(e, c) = {}
    BY <2>1, <2>3 DEF Completed
  <2>4. CASE Results(e, c) # {} /\ \E d \in Results(e, c) : d[3]
    <3>1. rows[e] = [row[e] EXCEPT !.sync = "synchronized", !.upAck = TRUE]
      BY <2>1, <2>4 DEF Completed
    <3> QED BY <2>1, <2>2, <2>4, <3>1 DEF Row, SyncStatus
  <2>5. CASE Results(e, c) # {} /\ ~\E d \in Results(e, c) : d[3]
    <3>1. rows[e] = [row[e] EXCEPT !.sync = "failed"]
      BY <2>1, <2>5 DEF Completed
    <3> QED BY <2>1, <2>2, <2>5, <3>1 DEF Row, SyncStatus
  <2> QED BY <2>3, <2>4, <2>5
<1>4. row' \in [Event -> Row]
  BY <1>2, <1>3
<1> HIDE DEF rows
<1>5. /\ after \in IncidentState /\ after.acked = inc[i].acked
      /\ after.acked => after.sync = DerivedSync(rows, i)
  BY <1>1, RecomputedIsDerived
<1> HIDE DEF after
<1>6. /\ inc' \in [Incident -> IncidentState] /\ inc'[i] = after
      /\ \A j \in Incident : j # i => inc'[j] = inc[j]
      /\ \A j \in Incident : inc'[j].acked = inc[j].acked
  BY <1>1, <1>2, <1>5 DEF TypeOK
<1> HIDE DEF i
<1>7. \A j \in Incident : inc'[j].acked => inc'[j].sync = DerivedSync(rows, j)
  <2> SUFFICES ASSUME NEW j \in Incident, inc'[j].acked PROVE inc'[j].sync = DerivedSync(rows, j)
    OBVIOUS
  <2>1. CASE j = i
    BY <1>5, <1>6, <2>1
  <2>2. CASE j # i
    <3>1. DerivedSync(rows, j) = DerivedSync(row, j)
      BY <1>3, <2>2, DerivedLocally
    <3> QED BY <1>1, <1>6, <2>2, <3>1 DEF StatusIsDerived
  <2> QED BY <2>1, <2>2
<1>8. /\ NoCall \in [busy : BOOLEAN, incident : Incident, todo : SUBSET (Event \X (0..MaxRows)),
                     done : SUBSET (Event \X (0..MaxRows) \X BOOLEAN)]
      /\ ~NoCall.busy /\ NoCall.todo = {} /\ NoCall.done = {}
  BY DEF NoCall
<1>9. /\ call' \in [Caller -> [busy : BOOLEAN, incident : Incident,
                               todo : SUBSET (Event \X (0..MaxRows)),
                               done : SUBSET (Event \X (0..MaxRows) \X BOOLEAN)]]
      /\ call'[c] = NoCall
      /\ \A d \in Caller : d # c => call'[d] = call[d]
  BY <1>1, <1>2, <1>8 DEF TypeOK
<1>10. CallsAreOfTheIncident'
  BY <1>1, <1>2, <1>6, <1>8, <1>9 DEF CallsAreOfTheIncident, TypeOK
<1>11. \A f \in Event : row'[f].active =>
          /\ inc'[IncidentOf[f]].acked => row'[f].sync # "not_applicable"
          /\ row'[f].upAck => inc'[IncidentOf[f]].acked /\ f \in upstream
          /\ row'[f].sync = "synchronized" => f \in upstream
  <2> SUFFICES ASSUME NEW f \in Event, rows[f].active
               PROVE  /\ inc[IncidentOf[f]].acked => rows[f].sync # "not_applicable"
                      /\ rows[f].upAck => inc[IncidentOf[f]].acked /\ f \in upstream
                      /\ rows[f].sync = "synchronized" => f \in upstream
    BY <1>2, <1>6
  <2>1. /\ row[f].active
        /\ inc[IncidentOf[f]].acked => row[f].sync # "not_applicable"
        /\ row[f].upAck => inc[IncidentOf[f]].acked /\ f \in upstream
        /\ row[f].sync = "synchronized" => f \in upstream
    BY <1>1, <1>3 DEF AckIsShared, UpstreamIsTrue, SynchronizedIsTrue
  <2> QED BY <1>2, <1>3, <2>1
<1>12. /\ snap' \in [Connector -> [read : BOOLEAN, events : SUBSET Event, acked : SUBSET Event]]
       /\ \A d \in Connector : snap'[d] = snap[d] \/ snap'[d] = NoSnap
       /\ cooled' \subseteq Event /\ queue' \in Seq(Incident)
  BY <1>1, <1>2 DEF TypeOK
<1>13. \A j \in Incident : inc'[j].acked => inc'[j].sync = DerivedSync(row', j)
  BY <1>2, <1>7
<1> QED BY <1>2, <1>4, <1>6, <1>9, <1>10, <1>11, <1>12, <1>13, RowsKeep

\* Time, and a request or a worker that dies.
LEMMA RestKeeps ==
    ASSUME PropagationInv, (\E e \in Event : Cool(e)) \/ (\E c \in Caller : Crash(c)) PROVE PropagationInv'
<1>1. /\ UNCHANGED <<present, upstream, snap, row, inc, order>>
      /\ cooled' \subseteq Event /\ queue' \in Seq(Incident) /\ crashes' \in 0..MaxCrashes
      /\ call' = call \/ \E c \in Caller : call' = [call EXCEPT ![c] = NoCall]
  <2>1. ASSUME NEW e \in Event, Cool(e)
        PROVE  /\ UNCHANGED <<present, upstream, snap, row, inc, order, call>>
               /\ cooled' \subseteq Event /\ queue' \in Seq(Incident) /\ crashes' \in 0..MaxCrashes
    BY <2>1 DEF Cool, PropagationInv, AckInv, TypeOK
  <2>2. ASSUME NEW c \in Caller, Crash(c)
        PROVE  /\ UNCHANGED <<present, upstream, snap, row, inc, order>>
               /\ cooled' \subseteq Event /\ queue' \in Seq(Incident) /\ crashes' \in 0..MaxCrashes
               /\ call' = [call EXCEPT ![c] = NoCall]
    BY <2>2 DEF Crash, PropagationInv, AckInv, TypeOK
  <2> QED BY <2>1, <2>2
<1>2. /\ NoCall \in [busy : BOOLEAN, incident : Incident, todo : SUBSET (Event \X (0..MaxRows)),
                     done : SUBSET (Event \X (0..MaxRows) \X BOOLEAN)]
      /\ ~NoCall.busy /\ NoCall.todo = {} /\ NoCall.done = {}
  BY DEF NoCall
<1>3. \A c \in Caller : call'[c] = call[c] \/ call'[c] = NoCall
  BY <1>1 DEF PropagationInv, AckInv, TypeOK
<1>4. call' \in [Caller -> [busy : BOOLEAN, incident : Incident,
                            todo : SUBSET (Event \X (0..MaxRows)),
                            done : SUBSET (Event \X (0..MaxRows) \X BOOLEAN)]]
  BY <1>1, <1>2 DEF PropagationInv, AckInv, TypeOK
<1>5. TypeOK'
  BY <1>1, <1>4 DEF PropagationInv, AckInv, TypeOK
<1>6. CallsAreOfTheIncident'
  BY <1>1, <1>2, <1>3 DEF PropagationInv, CallsAreOfTheIncident
<1>7. UpstreamIsTrue' /\ StatusIsDerived' /\ AckIsShared' /\ SynchronizedIsTrue'
  <2>1. UNCHANGED <<present, upstream, snap, row, inc>>
    BY <1>1
  <2>2. UpstreamIsTrue'
    BY <2>1 DEF PropagationInv, UpstreamIsTrue
  <2>3. StatusIsDerived'
    <3>1. \A i \in Incident : DerivedSync(row', i) = DerivedSync(row, i)
      BY <2>1
    <3> QED BY <2>1, <3>1 DEF PropagationInv, AckInv, StatusIsDerived
  <2>4. AckIsShared'
    BY <2>1 DEF PropagationInv, AckIsShared
  <2>5. SynchronizedIsTrue'
    BY <2>1 DEF PropagationInv, AckInv, SynchronizedIsTrue
  <2> QED BY <2>2, <2>3, <2>4, <2>5
<1> QED BY <1>5, <1>6, <1>7 DEF PropagationInv, AckInv

LEMMA PropagationNextKeeps == PropagationInv /\ [Next]_vars => PropagationInv'
<1> SUFFICES ASSUME PropagationInv, [Next]_vars PROVE PropagationInv'
  OBVIOUS
<1>1. ASSUME NEW c \in Caller, CallStep(c) PROVE PropagationInv'
  BY <1>1, CallKeeps, CompleteKeeps DEF CallStep
<1>2. ASSUME NEW i \in Incident, OperatorAcknowledges(i) PROVE PropagationInv'
  <2>1. "operator" \in Caller /\ AcknowledgeLocal("operator", i) /\ queue' \in Seq(Incident)
    BY <1>2 DEF OperatorAcknowledges, Caller, PropagationInv, AckInv, TypeOK
  <2> QED BY <2>1, LocalKeeps
<1>3. CASE RuntimeAcknowledges
  <2>1. queue \in Seq(Incident) /\ queue # <<>> /\ queue' = Tail(queue)
    BY <1>3 DEF RuntimeAcknowledges, PropagationInv, AckInv, TypeOK
  <2>2. queue' \in Seq(Incident) /\ Head(queue) \in Incident
    BY <2>1
  <2>3. CASE AcknowledgeLocal("runtime", Head(queue))
    BY <2>2, <2>3, LocalKeeps DEF Caller
  <2>4. CASE UNCHANGED <<present, upstream, snap, row, inc, order, cooled, call, crashes>>
    BY <2>2, <2>4, QueueKeeps
  <2> QED BY <1>3, <2>3, <2>4 DEF RuntimeAcknowledges
<1>4. CASE UNCHANGED vars
  <2>1. queue' \in Seq(Incident)
    BY <1>4 DEF vars, PropagationInv, AckInv, TypeOK
  <2> QED BY <1>4, <2>1, QueueKeeps DEF vars
<1> QED
  BY <1>1, <1>2, <1>3, <1>4, ZabbixKeeps, SnapshotKeeps, RetireKeeps, RestKeeps, ResolveKeeps,
     SelectKeeps
     DEF Next

LEMMA PropagationAlways == Spec => []PropagationInv
BY PropagationInitially, PropagationNextKeeps, PTL DEF Spec

\* Whatever the transactions that write evidence and acknowledgements, the
\* synchronisation that is shown is that of the active evidence and no
\* "synchronized" is a lie (recomputeAcknowledgement, CompleteAcknowledgement).
THEOREM StatusIsHonest == Spec => []AckInv
BY PropagationAlways, PTL DEF PropagationInv

\* An acknowledgement covers the evidence that joins later, and one made in
\* Zabbix acknowledges the incident (acknowledgeFromEvidence).
THEOREM AcknowledgementIsShared == Spec => []AckIsShared
BY PropagationAlways, PTL DEF PropagationInv

=============================================================================
