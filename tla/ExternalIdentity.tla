--------------------------- MODULE ExternalIdentity ---------------------------
(***************************************************************************)
(* OpenID Connect (internal/oidcauth): the draft and the active            *)
(* configuration, the flows of logins and tests, and the synchronisers     *)
(* that read again what the provider says of a user.                       *)
(*                                                                         *)
(* One subject of one provider, as subjects are independent of each other. *)
(* The provider says which role its groups give, or none, and each of its  *)
(* answers is a reading with a number.  It may rotate refresh tokens: an   *)
(* exchange then makes the earlier ones invalid, and of a token only       *)
(* whether it still is good is kept.  Calls and transactions are single    *)
(* actions; the claim of an identity comes at any time, as sync_due_at is  *)
(* a date that comes.                                                      *)
(***************************************************************************)
EXTENDS Integers

CONSTANTS
    Browser,        \* the callbacks served at the same time
    Synchronizer,   \* the servers
    MaxGroups,      \* bound on the changes at the provider
    MaxDrafts,      \* bound on the drafts saved
    MaxFlows,       \* bound on the flows begun
    MaxExtFaults    \* bound on failed calls, lost answers and crashes

noone == "noone"

ASSUME ExternalConstants ==
    /\ MaxGroups \in Nat /\ MaxDrafts \in Nat /\ MaxFlows \in Nat /\ MaxExtFaults \in Nat
    /\ noone \notin Synchronizer

VARIABLES
    active,     \* the number of the active configuration, 0 for none
    draft,      \* the draft: its number and whether it is tested
    drafts,     \* how many were saved
    flow,       \* the flows that are not consumed
    flows,      \* how many were begun
    callback,   \* Browser -> what it is doing
    groups,     \* what the provider says: its number, the role
    provider,   \* up, or down for good
    ext,        \* the user and its identity
    syncing,    \* Synchronizer -> what it is doing
    passed,     \* history: the configurations an interactive test went through
    reading,    \* history: the number of the reading the last login applied
    extFaults

extVars == <<active, draft, drafts, flow, flows, callback, groups, provider, ext, syncing,
             passed, reading, extFaults>>

\* What is left alone by all but the administrators.
settings == <<active, draft, drafts, passed>>

\* What a callback or a synchroniser keeps: the reading, whether its token is good.
ExtIdle == [at |-> "idle", good |-> FALSE, version |-> 0, role |-> "none"]

Stranger ==
    [known |-> FALSE, role |-> "none", suspended |-> FALSE, deactivated |-> FALSE, good |-> FALSE,
     owner |-> noone, held |-> FALSE, late |-> FALSE]

\* Nothing is configured, or the last configuration is active and perhaps a user
\* logged in.
ExtInit ==
    /\ active \in {0, MaxDrafts} /\ drafts = active /\ passed = {active} \ {0}
    /\ draft = [id |-> 0, tested |-> FALSE]
    /\ flow = {} /\ flows = 0
    /\ callback = [b \in Browser |-> ExtIdle]
    /\ groups \in [version : {0}, role : {"none", "observer"}] /\ provider = "up"
    /\ \/ ext = Stranger
       \/ active # 0 /\ ext = [Stranger EXCEPT !.known = TRUE, !.role = "observer", !.good = TRUE]
    /\ syncing = [s \in Synchronizer |-> ExtIdle]
    /\ reading = 0 /\ extFaults = 0

ExtFault == extFaults < MaxExtFaults /\ extFaults' = extFaults + 1

----------------------------------------------------------------------------
(* The configuration *)

\* A draft takes the place of the one before, under the lock of Activate.
SaveDraft ==
    /\ drafts < MaxDrafts
    /\ drafts' = drafts + 1
    /\ draft' = [id |-> drafts + 1, tested |-> FALSE]
    /\ UNCHANGED <<active, flow, flows, callback, groups, provider, ext, syncing,
                   passed, reading, extFaults>>

Activate ==
    /\ draft.id # 0 /\ draft.tested
    /\ active' = draft.id
    /\ draft' = [id |-> 0, tested |-> FALSE]
    /\ UNCHANGED <<drafts, flow, flows, callback, groups, provider, ext, syncing,
                   passed, reading, extFaults>>

----------------------------------------------------------------------------
(* A flow *)

Begin(purpose) ==
    LET configuration == IF purpose = "login" THEN active ELSE draft.id IN
    /\ flows < MaxFlows /\ configuration # 0 /\ provider = "up"
    /\ flows' = flows + 1
    /\ flow' = flow \cup {[id |-> flows + 1, purpose |-> purpose, configuration |-> configuration]}
    /\ UNCHANGED <<settings, callback, groups, provider, ext, syncing, reading, extFaults>>

\* After ten minutes.
FlowExpires(f) ==
    /\ flow' = flow \ {f}
    /\ UNCHANGED <<settings, flows, callback, groups, provider, ext, syncing, reading,
                   extFaults>>

Calling(b, to) == callback' = [callback EXCEPT ![b] = to]

\* The configuration has not been replaced since.
Current(f) == f.configuration = IF f.purpose = "login" THEN active ELSE draft.id

\* Consumed once; kept when its configuration is not the current one.
ClaimFlow(b, f) ==
    /\ callback[b].at = "idle" /\ f \in flow /\ Current(f)
    /\ flow' = flow \ {f}
    /\ Calling(b, [at |-> "claimed", good |-> FALSE, version |-> 0, role |-> "none", flow |-> f])
    /\ UNCHANGED <<settings, flows, groups, provider, ext, syncing, reading, extFaults>>

\* A provider that rotates makes the token it gives the only one it accepts.
Spoilt(holders) == [h \in DOMAIN holders |-> [holders[h] EXCEPT !.good = FALSE]]

\* The exchange gives a refresh token, then UserInfo is read.
ReadClaims(b) ==
    /\ callback[b].at = "claimed" /\ provider = "up"
    /\ \E rotates \in BOOLEAN :
          /\ callback' = [IF rotates THEN Spoilt(callback) ELSE callback EXCEPT
                            ![b] = [@ EXCEPT !.at = "read", !.good = TRUE, !.version = groups.version,
                                             !.role = groups.role]]
          /\ syncing' = IF rotates THEN Spoilt(syncing) ELSE syncing
          /\ ext' = [ext EXCEPT !.good = @ /\ ~rotates]
    /\ UNCHANGED <<settings, flow, flows, groups, provider, reading, extFaults>>

\* The callback breaks, or the browser goes away.
CallbackFails(b) ==
    /\ callback[b].at # "idle"
    /\ IF provider = "up" THEN ExtFault ELSE UNCHANGED extFaults
    /\ Calling(b, ExtIdle)
    /\ UNCHANGED <<settings, flow, flows, groups, provider, ext, syncing, reading>>

\* Mutant: whatever draft there is was tested.
TestedAnyway(b) == draft.id # 0

Tested(b) == draft.id = callback[b].flow.configuration

\* A test without a recognised group or without a refresh token fails.
CompleteTest(b) ==
    /\ callback[b].at = "read" /\ callback[b].flow.purpose = "test"
    /\ \/ /\ callback[b].role # "none"
          /\ draft' = [draft EXCEPT !.tested = @ \/ Tested(b)]
          /\ passed' = passed \cup {callback[b].flow.configuration}
       \/ UNCHANGED <<draft, passed>>
    /\ Calling(b, ExtIdle)
    /\ UNCHANGED <<active, drafts, flow, flows, groups, provider, ext, syncing, reading,
                   extFaults>>

\* Without a recognised group: no user is created, a known one is suspended.
SuspendByIdentity(b) ==
    /\ callback[b].at = "read" /\ callback[b].flow.purpose = "login" /\ callback[b].role = "none"
    /\ ext' = IF ext.known THEN [ext EXCEPT !.suspended = TRUE] ELSE ext
    /\ Calling(b, ExtIdle)
    /\ UNCHANGED <<settings, flow, flows, groups, provider, syncing, reading, extFaults>>

\* Mutant: the login leaves the lease of a synchronisation in flight.
LoginKeepsLease(row) == row

LoginEndsLease(row) == [row EXCEPT !.owner = noone, !.held = FALSE]

\* Without a refresh token: a stranger is turned away, a known user keeps its own.
ApplyExternalLogin(b) ==
    /\ callback[b].at = "read" /\ callback[b].flow.purpose = "login" /\ callback[b].role # "none"
    /\ \E issued \in BOOLEAN :
          IF ext.deactivated \/ (~issued /\ ~ext.known) THEN UNCHANGED <<ext, reading>>
          ELSE /\ ext' = [LoginEndsLease(ext) EXCEPT
                             !.known = TRUE, !.role = callback[b].role, !.suspended = FALSE,
                             !.good = IF issued THEN callback[b].good ELSE @, !.late = FALSE]
               /\ reading' = callback[b].version
    /\ Calling(b, ExtIdle)
    /\ UNCHANGED <<settings, flow, flows, groups, provider, syncing, extFaults>>

----------------------------------------------------------------------------
(* The synchronisers *)

Syncing(s, to) ==
    /\ syncing' = [syncing EXCEPT ![s] = to]
    /\ UNCHANGED <<settings, flow, flows, callback, groups, provider, reading>>

ClaimAccess(s) ==
    /\ syncing[s].at = "idle" /\ active # 0 /\ ext.known /\ ~ext.held
    /\ ext' = [ext EXCEPT !.owner = s, !.held = TRUE]
    /\ Syncing(s, [at |-> "claimed", good |-> ext.good, version |-> 0, role |-> "none",
                   late |-> ext.late])
    /\ UNCHANGED extFaults

\* A token that was replaced is refused.
Refused(s) ==
    /\ syncing[s].at = "claimed" /\ provider = "up" /\ ~syncing[s].good
    /\ Syncing(s, [syncing[s] EXCEPT !.at = "answered", !.role = "refused"])
    /\ UNCHANGED <<ext, extFaults>>

RefreshAccess(s) ==
    /\ syncing[s].at = "claimed" /\ provider = "up" /\ syncing[s].good
    /\ \E rotates \in BOOLEAN :
          /\ syncing' = [IF rotates THEN Spoilt(syncing) ELSE syncing EXCEPT
                            ![s] = [@ EXCEPT !.at = "answered", !.good = TRUE, !.version = groups.version,
                                             !.role = groups.role]]
          /\ callback' = IF rotates THEN Spoilt(callback) ELSE callback
          /\ ext' = [ext EXCEPT !.good = @ /\ ~rotates]
    /\ UNCHANGED <<settings, flow, flows, groups, provider, reading, extFaults>>

\* A call fails without the provider refusing anything.
ProviderFails(s) ==
    /\ syncing[s].at = "claimed"
    /\ IF provider = "up" THEN ExtFault ELSE UNCHANGED extFaults
    /\ Syncing(s, [syncing[s] EXCEPT !.at = "answered", !.role = "unavailable"])
    /\ UNCHANGED ext

Owned(s) == ext.owner = s

\* Mutant: what suspended the user before still does.
VerifiedOnly(s) ==
    [LoginEndsLease(ext) EXCEPT !.role = syncing[s].role, !.good = syncing[s].good, !.late = FALSE]

Verified(s) ==
    [LoginEndsLease(ext) EXCEPT !.role = syncing[s].role, !.suspended = FALSE,
                                !.good = syncing[s].good, !.late = FALSE]

Succeed(s) ==
    /\ syncing[s].at = "answered" /\ syncing[s].role \in {"observer", "administrator"}
    /\ ext' = IF Owned(s) THEN Verified(s) ELSE ext
    /\ Syncing(s, ExtIdle) /\ UNCHANGED extFaults

\* At once when the provider said so, otherwise at the end of the grace.
Suspends(s) == syncing[s].role # "unavailable" \/ syncing[s].late

Fail(s) ==
    /\ syncing[s].at = "answered" /\ syncing[s].role \in {"refused", "unavailable", "none"}
    /\ ext' = IF Owned(s)
              THEN [LoginEndsLease(ext) EXCEPT !.suspended = ext.suspended \/ Suspends(s)]
              ELSE ext
    /\ Syncing(s, ExtIdle) /\ UNCHANGED extFaults

SyncDies(s) ==
    /\ syncing[s].at # "idle" /\ ExtFault
    /\ Syncing(s, ExtIdle) /\ UNCHANGED ext

ExtRest == UNCHANGED <<settings, flow, flows, callback, syncing, reading>>

SyncLeaseLapses ==
    /\ ext.held
    /\ IF syncing[ext.owner].at = "idle" THEN UNCHANGED extFaults ELSE ExtFault
    /\ ext' = [ext EXCEPT !.held = FALSE]
    /\ ExtRest /\ UNCHANGED <<groups, provider>>

\* Twelve hours without a successful reading, which come when the provider is
\* down for good.
GraceEnds ==
    /\ ext.known /\ ~ext.late /\ provider = "down"
    /\ ext' = [ext EXCEPT !.late = TRUE]
    /\ ExtRest /\ UNCHANGED <<groups, provider, extFaults>>

----------------------------------------------------------------------------
(* The provider, and administrators *)

GroupsChange ==
    /\ groups.version < MaxGroups
    /\ \E role \in {"none", "observer", "administrator"} \ {groups.role} :
          groups' = [version |-> groups.version + 1, role |-> role]
    /\ ExtRest /\ UNCHANGED <<provider, ext, extFaults>>

ProviderGoes ==
    /\ provider = "up" /\ provider' = "down"
    /\ ExtRest /\ UNCHANGED <<groups, ext, extFaults>>

SetExternalActivation ==
    /\ ext.known /\ ExtFault
    /\ ext' = [ext EXCEPT !.deactivated = ~@]
    /\ ExtRest /\ UNCHANGED <<groups, provider>>

----------------------------------------------------------------------------

SyncStep(s) == Refused(s) \/ RefreshAccess(s) \/ (provider = "down" /\ ProviderFails(s)) \/ Succeed(s) \/ Fail(s)

ExtNext ==
    \/ SaveDraft \/ Activate \/ \E purpose \in {"login", "test"} : Begin(purpose)
    \/ \E f \in flow : FlowExpires(f) \/ \E b \in Browser : ClaimFlow(b, f)
    \/ \E b \in Browser : \/ ReadClaims(b) \/ CallbackFails(b) \/ CompleteTest(b)
                          \/ SuspendByIdentity(b) \/ ApplyExternalLogin(b)
    \/ \E s \in Synchronizer : ClaimAccess(s) \/ SyncStep(s) \/ ProviderFails(s) \/ SyncDies(s)
    \/ SyncLeaseLapses \/ GraceEnds \/ GroupsChange \/ ProviderGoes \/ SetExternalActivation

ExtSpec == ExtInit /\ [][ExtNext]_extVars

\* A server polls for ever, a synchronisation that began goes on, and time passes.
ExtFairness ==
    /\ \A s \in Synchronizer : WF_extVars(ClaimAccess(s) \/ SyncStep(s))
    /\ WF_extVars(SyncLeaseLapses) /\ WF_extVars(GraceEnds)

ExtFairSpec == ExtSpec /\ ExtFairness

----------------------------------------------------------------------------
(* Correctness *)

\* The active configuration went through its interactive test: a test that ends
\* after its draft was replaced says nothing of the new one.
ActiveWasTested == active # 0 => active \in passed

GivesNoOlderRole(s) ==
    (syncing[s].at = "answered" /\ syncing'[s].at = "idle" /\ extFaults' = extFaults
        /\ ext'.role # ext.role)
    => syncing[s].version >= reading

\* A synchronisation never gives a user an older role than the login that came
\* after its claim: the login ends its lease.
LoginsPrevail == [][\A s \in Synchronizer : GivesNoOlderRole(s)]_extVars

Renewable == \/ ext.good
             \/ \E s \in Synchronizer : Owned(s) /\ syncing[s].at # "idle" /\ syncing[s].good

\* Access follows the provider.  What it withdrew, or cannot confirm any longer,
\* ends; and a user whose refresh token is not lost (a rotation gives it to the
\* synchroniser that owns the lease) comes to have the role the provider says,
\* through failed calls, late callbacks and a suspension.
AccessConverges ==
    /\ <>[](ext.known /\ (groups.role = "none" \/ provider = "down")) => <>[]ext.suspended
    /\ <>[](ext.known /\ provider = "up" /\ groups.role # "none" /\ Renewable)
          => <>[](~ext.suspended /\ ext.role = groups.role)

=============================================================================
