------------------------ MODULE AdministrationProofs ------------------------
(***************************************************************************)
(* Proofs about what administrators and users ask of the server: the       *)
(* pairing of devices, the accounts with their sessions, and the durable   *)
(* reconciliation operations.                                              *)
(***************************************************************************)
EXTENDS DevicePairing, Accounts, Reconciliation, FiniteSetTheorems, TLAPS

----------------------------------------------------------------------------
(* Pairing: the device that is confirmed is the one that was seen *)

PairingRow ==
    [claim : Phone \cup {nobodyYet}, confirmed : BOOLEAN, cancelled : BOOLEAN,
     consumed : BOOLEAN, expired : BOOLEAN]

PairingTypes ==
    /\ \E n \in 0..MaxPairings : pairing \in [1..n -> PairingRow]
    /\ screen = [w \in Window |-> screen[w]]
    /\ device = [i \in Invitation |-> device[i]]
    /\ holders = [i \in Invitation |-> holders[i]]
    /\ agreed = [i \in Invitation |-> agreed[i]]

\* A claim is never replaced: what a window once showed is still so.
ScreensAreTrue ==
    \A w \in Window :
        /\ screen[w].invitation \in {0} \cup Invitations
        /\ screen[w] = [invitation |-> screen[w].invitation, claim |-> screen[w].claim]
        /\ screen[w].claim # nobodyYet =>
              screen[w].invitation # 0 /\ pairing[screen[w].invitation].claim = screen[w].claim

\* A credential leaves with a confirmation that is final, and once.
CredentialLeavesOnce ==
    \A i \in Invitation :
        /\ device[i] = agreed[i]
        /\ holders[i] = {} \/ \E p \in Phone : holders[i] = {p}
        /\ i \notin Invitations => holders[i] = {}
        /\ i \in Invitations =>
              /\ pairing[i].confirmed => device[i] # nobodyYet /\ ~pairing[i].cancelled
              /\ holders[i] # {} => pairing[i].confirmed /\ pairing[i].consumed

PairInv == PairingTypes /\ ScreensAreTrue /\ CredentialLeavesOnce

LEMMA PairInitially == PairInit => PairInv
<1> SUFFICES ASSUME PairInit PROVE PairInv
  OBVIOUS
<1>1. Invitations = {} /\ 0 \in 0..MaxPairings /\ 1..0 = {}
  BY PairingConstants DEF PairInit, Invitations, PairingConstants
<1>2. pairing \in [1..0 -> PairingRow]
  BY <1>1 DEF PairInit
<1>3. PairingTypes
  BY <1>1, <1>2 DEF PairInit, PairingTypes
<1>4. ScreensAreTrue
  BY DEF PairInit, ScreensAreTrue, Blank
<1>5. CredentialLeavesOnce
  BY <1>1 DEF PairInit, CredentialLeavesOnce
<1> QED BY <1>3, <1>4, <1>5 DEF PairInv

\* The next invitation is the one after the last.
LEMMA Invited ==
    ASSUME PairInv
    PROVE  /\ Invitations \subseteq Invitation
           /\ \E n \in 0..MaxPairings : /\ Invitations = 1..n /\ Cardinality(Invitations) = n
                                        /\ pairing \in [1..n -> PairingRow]
<1>1. PICK n \in 0..MaxPairings : pairing \in [1..n -> PairingRow]
  BY DEF PairInv, PairingTypes
<1>2. Invitations = 1..n /\ n \in Nat /\ 1..n \subseteq Invitation
  BY <1>1, PairingConstants DEF Invitations, Invitation, PairingConstants
<1>3. Cardinality(1..n) = n
  BY <1>2, FS_Interval
<1> QED BY <1>1, <1>2, <1>3

\* A row that is there is changed without another claim.
LEMMA RowChanges ==
    ASSUME PairInv, NEW i \in Invitations, NEW r \in PairingRow, pairing' = [pairing EXCEPT ![i] = r],
           pairing[i].claim # nobodyYet => r.claim = pairing[i].claim,
           screen' = screen,
           device' = [device EXCEPT ![i] = device'[i]],
           agreed' = [agreed EXCEPT ![i] = agreed'[i]], device'[i] = agreed'[i],
           holders' = [holders EXCEPT ![i] = holders'[i]],
           r.confirmed => device'[i] # nobodyYet /\ ~r.cancelled,
           holders'[i] = {} \/ \E p \in Phone : holders'[i] = {p},
           holders'[i] # {} => r.confirmed /\ r.consumed
    PROVE  PairInv'
<1>1. PICK n \in 0..MaxPairings : /\ Invitations = 1..n /\ pairing \in [1..n -> PairingRow]
                                  /\ Invitations \subseteq Invitation
  BY Invited
<1>2. /\ pairing' \in [1..n -> PairingRow] /\ pairing'[i] = r
      /\ \A j \in Invitations : j # i => pairing'[j] = pairing[j]
      /\ Invitations' = Invitations
  BY <1>1 DEF Invitations
<1>3. PairingTypes'
  BY <1>2 DEF PairInv, PairingTypes
<1>4. ScreensAreTrue'
  BY <1>2 DEF PairInv, ScreensAreTrue
<1>5. \A j \in Invitation : j # i => /\ holders'[j] = holders[j] /\ device'[j] = device[j]
                                       /\ agreed'[j] = agreed[j]
  BY DEF PairInv, PairingTypes
<1>6. CredentialLeavesOnce'
  BY SMTT(40), <1>1, <1>2, <1>5 DEF PairInv, CredentialLeavesOnce
<1> QED BY <1>3, <1>4, <1>6 DEF PairInv

LEMMA PairNextKeeps == PairInv /\ [PairNext]_pairVars => PairInv'
<1> SUFFICES ASSUME PairInv, [PairNext]_pairVars PROVE PairInv'
  OBVIOUS
<1>1. /\ Invitations \subseteq Invitation
      /\ \A j \in Invitations : pairing[j] \in PairingRow
      /\ \A j \in Invitation :
            /\ device = [device EXCEPT ![j] = device[j]] /\ agreed = [agreed EXCEPT ![j] = agreed[j]]
            /\ holders = [holders EXCEPT ![j] = holders[j]]
  BY Invited DEF PairInv, PairingTypes
<1>2. ASSUME NEW w \in Window, CreatePairing(w) PROVE PairInv'
  <2>1. PICK n \in 0..MaxPairings : /\ Invitations = 1..n /\ Cardinality(Invitations) = n
                                    /\ pairing \in [1..n -> PairingRow]
    BY Invited
  <2> DEFINE i == n + 1
             blank == [claim |-> nobodyYet, confirmed |-> FALSE, cancelled |-> FALSE,
                       consumed |-> FALSE, expired |-> FALSE]
  <2>2. /\ i <= MaxPairings /\ UNCHANGED <<device, holders, agreed>>
        /\ pairing' = [j \in (1..n) \cup {i} |-> IF j = i THEN blank ELSE pairing[j]]
        /\ screen' = [screen EXCEPT ![w] = [invitation |-> i, claim |-> nobodyYet]]
    BY <1>2, <2>1 DEF CreatePairing
  <2>3. n \in Nat /\ (1..n) \cup {i} = 1..i /\ i \in 0..MaxPairings /\ i \in Invitation /\ i \notin 1..n
    BY <2>2, PairingConstants DEF PairingConstants, Invitation
  <2>4. blank \in PairingRow
    BY DEF PairingRow
  <2> HIDE DEF i, blank
  <2>5. /\ pairing' \in [1..i -> PairingRow] /\ Invitations' = 1..i
        /\ pairing'[i] = blank /\ \A j \in 1..n : pairing'[j] = pairing[j]
    BY <2>1, <2>2, <2>3, <2>4 DEF Invitations
  <2>6. PairingTypes'
    BY <2>2, <2>3, <2>5 DEF PairInv, PairingTypes
  <2>7. ScreensAreTrue'
    <3> SUFFICES ASSUME NEW v \in Window
                 PROVE  /\ screen'[v].invitation \in {0} \cup Invitations'
                        /\ screen'[v] = [invitation |-> screen'[v].invitation, claim |-> screen'[v].claim]
                        /\ screen'[v].claim # nobodyYet =>
                              /\ screen'[v].invitation # 0
                              /\ pairing'[screen'[v].invitation].claim = screen'[v].claim
      BY DEF ScreensAreTrue
    <3>1. CASE v = w
      BY <2>2, <2>3, <2>5, <3>1 DEF PairInv, PairingTypes
    <3>2. CASE v # w
      <4>1. screen'[v] = screen[v]
        BY <2>2, <3>2 DEF PairInv, PairingTypes
      <4> QED BY <2>1, <2>3, <2>5, <4>1 DEF PairInv, ScreensAreTrue
    <3> QED BY <3>1, <3>2
  <2>8. CredentialLeavesOnce'
    <3>1. ~blank.confirmed
      BY DEF blank
    <3>2. \A j \in Invitation : j \notin 1..n => holders[j] = {}
      BY <2>1 DEF PairInv, CredentialLeavesOnce
    <3> QED BY <2>1, <2>2, <2>3, <2>5, <3>1, <3>2 DEF PairInv, CredentialLeavesOnce
  <2> QED BY <2>6, <2>7, <2>8 DEF PairInv
<1>3. ASSUME NEW w \in Window, GetPairing(w) PROVE PairInv'
  <2>1. /\ screen' = [screen EXCEPT ![w].claim = pairing[screen[w].invitation].claim]
        /\ UNCHANGED <<pairing, device, holders, agreed>> /\ screen[w].invitation # 0
    BY <1>3 DEF GetPairing
  <2>2. PairingTypes' /\ CredentialLeavesOnce' /\ Invitations' = Invitations
    BY <2>1 DEF PairInv, PairingTypes, CredentialLeavesOnce, Invitations
  <2>3. /\ screen'[w] = [screen[w] EXCEPT !.claim = pairing[screen[w].invitation].claim]
        /\ \A v \in Window : v # w => screen'[v] = screen[v]
    BY <2>1 DEF PairInv, PairingTypes
  <2>4. screen[w] = [invitation |-> screen[w].invitation, claim |-> screen[w].claim]
    BY DEF PairInv, ScreensAreTrue
  <2>5. /\ screen'[w] = [invitation |-> screen'[w].invitation, claim |-> screen'[w].claim]
        /\ screen'[w].invitation = screen[w].invitation
        /\ screen'[w].claim = pairing[screen[w].invitation].claim
    BY <2>3, <2>4
  <2>6. ScreensAreTrue'
    BY ZenonT(60), <2>1, <2>2, <2>3, <2>5 DEF PairInv, ScreensAreTrue
  <2> QED BY <2>2, <2>6 DEF PairInv
<1>4. ASSUME NEW w \in Window, ConfirmPairing(w) PROVE PairInv'
  <2> DEFINE i == screen[w].invitation
             r == [pairing[i] EXCEPT !.confirmed = TRUE]
  <2>1. /\ i \in Invitations /\ pairing[i].claim = screen[w].claim /\ screen[w].claim # nobodyYet
    BY <1>4 DEF ConfirmPairing, PairInv, ScreensAreTrue
  <2>2. /\ ~pairing[i].cancelled /\ ~pairing[i].confirmed
        /\ pairing' = [pairing EXCEPT ![i] = r]
        /\ device' = [device EXCEPT ![i] = pairing[i].claim]
        /\ agreed' = [agreed EXCEPT ![i] = screen[w].claim]
        /\ UNCHANGED <<screen, holders>>
    BY <1>4 DEF ConfirmPairing
  <2>3. /\ pairing[i] \in PairingRow
    BY <1>1, <2>1
  <2>4. r \in PairingRow /\ r.claim = pairing[i].claim /\ ~r.cancelled /\ r.confirmed
    BY <2>2, <2>3 DEF PairingRow
  <2>5. device'[i] = pairing[i].claim /\ agreed'[i] = pairing[i].claim
    BY <1>1, <2>1, <2>2 DEF PairInv, PairingTypes
  <2>6. holders[i] = {}
    BY <1>1, <2>1, <2>2 DEF PairInv, CredentialLeavesOnce
  <2> HIDE DEF r, i
  <2> QED BY <1>1, <2>1, <2>2, <2>4, <2>5, <2>6, RowChanges
<1>5. ASSUME NEW i \in Invitations, NEW p \in Phone, ClaimPairing(p, i) PROVE PairInv'
  <2> DEFINE r == [pairing[i] EXCEPT !.claim = p]
  <2>1. /\ pairing' = [pairing EXCEPT ![i] = r] /\ pairing[i].claim = nobodyYet
        /\ ~pairing[i].confirmed /\ UNCHANGED <<screen, device, holders, agreed>>
    BY <1>5 DEF ClaimPairing, Claimable
  <2>2. r \in PairingRow /\ r.confirmed = pairing[i].confirmed
    BY <1>1 DEF PairingRow
  <2>3. holders[i] = {} /\ device[i] = agreed[i]
    BY <1>1, <2>1 DEF PairInv, CredentialLeavesOnce
  <2> HIDE DEF r
  <2> QED BY <1>1, <2>1, <2>2, <2>3, RowChanges
<1>6. ASSUME NEW i \in Invitations, NEW p \in Phone, PairingResult(p, i) PROVE PairInv'
  <2> DEFINE r == [pairing[i] EXCEPT !.consumed = TRUE]
  <2>1. /\ pairing' = [pairing EXCEPT ![i] = r]
        /\ pairing[i].confirmed /\ ~pairing[i].cancelled /\ ~pairing[i].consumed
        /\ holders' \in {holders, [holders EXCEPT ![i] = @ \cup {p}]}
        /\ UNCHANGED <<screen, device, agreed>>
    BY <1>6 DEF PairingResult, Retrievable
  <2>2. /\ r \in PairingRow /\ r.claim = pairing[i].claim /\ ~r.cancelled /\ r.confirmed /\ r.consumed
    BY <1>1, <2>1 DEF PairingRow
  <2>3. holders[i] = {} /\ device[i] = agreed[i] /\ device[i] # nobodyYet
    BY <1>1, <2>1 DEF PairInv, CredentialLeavesOnce
  <2>4. /\ holders' = [holders EXCEPT ![i] = holders'[i]]
        /\ holders'[i] = {} \/ holders'[i] = {p}
    BY <1>1, <2>1, <2>3 DEF PairInv, PairingTypes
  <2> HIDE DEF r
  <2> QED BY <1>1, <2>1, <2>2, <2>3, <2>4, RowChanges
<1>7. ASSUME NEW i \in Invitations, CancelPairing(i) \/ PairingExpires(i) PROVE PairInv'
  <2> PICK r \in PairingRow :
          /\ pairing' = [pairing EXCEPT ![i] = r]
          /\ r.claim = pairing[i].claim /\ r.confirmed = pairing[i].confirmed
          /\ r.consumed = pairing[i].consumed
          /\ r.confirmed => r.cancelled = pairing[i].cancelled
    <3>1. CASE CancelPairing(i)
      <4> DEFINE r == [pairing[i] EXCEPT !.cancelled = TRUE]
      <4>1. pairing' = [pairing EXCEPT ![i] = r] /\ ~pairing[i].confirmed
        BY <3>1 DEF CancelPairing
      <4>2. /\ r \in PairingRow /\ r.claim = pairing[i].claim /\ r.confirmed = pairing[i].confirmed
            /\ r.consumed = pairing[i].consumed
        BY <1>1 DEF PairingRow
      <4> HIDE DEF r
      <4> QED BY <4>1, <4>2
    <3>2. CASE PairingExpires(i)
      <4> DEFINE r == [pairing[i] EXCEPT !.expired = TRUE]
      <4>1. pairing' = [pairing EXCEPT ![i] = r]
        BY <3>2 DEF PairingExpires
      <4>2. /\ r \in PairingRow /\ r.claim = pairing[i].claim /\ r.confirmed = pairing[i].confirmed
            /\ r.consumed = pairing[i].consumed /\ r.cancelled = pairing[i].cancelled
        BY <1>1 DEF PairingRow
      <4> HIDE DEF r
      <4> QED BY <4>1, <4>2
    <3> QED BY <1>7, <3>1, <3>2
  <2>1. UNCHANGED <<screen, device, holders, agreed>>
    BY <1>7 DEF CancelPairing, PairingExpires
  <2>2. /\ device[i] = agreed[i] /\ (holders[i] = {} \/ \E p \in Phone : holders[i] = {p})
        /\ pairing[i].confirmed => device[i] # nobodyYet /\ ~pairing[i].cancelled
        /\ holders[i] # {} => pairing[i].confirmed /\ pairing[i].consumed
    BY <1>1 DEF PairInv, CredentialLeavesOnce
  <2>3. r.confirmed => device'[i] # nobodyYet /\ ~r.cancelled
    BY <2>1, <2>2
  <2>4. holders'[i] # {} => r.confirmed /\ r.consumed
    BY <2>1, <2>2
  <2> QED BY <1>1, <2>1, <2>2, <2>3, <2>4, RowChanges
<1>8. CASE UNCHANGED pairVars
  BY <1>8 DEF pairVars, PairInv, PairingTypes, ScreensAreTrue, CredentialLeavesOnce, Invitations
<1> QED BY <1>2, <1>3, <1>4, <1>5, <1>6, <1>7, <1>8 DEF PairNext

\* The device a confirmation creates is the one the user saw, and its credential
\* is given once (ConfirmPairing, PairingResult).
THEOREM PairingIsWhatWasSeen == PairSpec => []ConfirmedIsSeen
<1>1. PairInv => ConfirmedIsSeen
  <2> SUFFICES ASSUME PairInv, NEW i \in Invitation
               PROVE  /\ device[i] = agreed[i]
                      /\ Cardinality(holders[i]) <= 1
                      /\ holders[i] # {} => device[i] # nobodyYet /\ ~pairing[i].cancelled
    BY DEF ConfirmedIsSeen
  <2>1. Cardinality(holders[i]) <= 1
    <3>1. holders[i] = {} \/ \E p \in Phone : holders[i] = {p}
      BY DEF PairInv, CredentialLeavesOnce
    <3>2. Cardinality({}) = 0 /\ \A p : Cardinality({p}) = 1
      BY FS_EmptySet, FS_Singleton, Zenon
    <3>3. Cardinality(holders[i]) \in {0, 1}
      BY <3>1, <3>2
    <3> QED BY <3>3
  <2> QED BY <2>1 DEF PairInv, CredentialLeavesOnce
<1> QED BY <1>1, PairInitially, PairNextKeeps, PTL DEF PairSpec

----------------------------------------------------------------------------
(* Accounts: what a change takes away from somebody ends their sessions *)

AccountRow ==
    [role : {"none"} \cup Role, regime : {"none", "local", "external"}, active : BOOLEAN,
     password : Nat]

AcctTypes ==
    /\ acct \in [User -> AccountRow]
    /\ acctLock = [u \in User |-> acctLock[u]]
    /\ handler = [h \in Handler |-> handler[h]]
    /\ opened \in Nat /\ \A s \in sessions : s.id \in 1..opened

\* A user of the provider has no password here.
RegimesAreKept ==
    \A u \in User : /\ Registered(u) <=> acct[u].regime # "none"
                    /\ acct[u].regime = "external" => acct[u].password = 0

Mutating(h) == handler[h].at \in {"changed", "counted"}

\* A transaction that is to write a row holds its lock; the row is as it read it
\* but for its role or its activation, and what it takes away it revokes.
MutationsHoldTheirRow ==
    \A h \in Handler : Mutating(h) =>
        LET u == handler[h].user
            new == handler[h].row IN
        /\ u \in User /\ acctLock[u] = h /\ Registered(u) /\ new \in AccountRow
        /\ new.role # "none" /\ new.regime = acct[u].regime /\ new.password = acct[u].password
        /\ ~handler[h].revokes => new.role = acct[u].role /\ new.active

AcctInv == AcctTypes /\ RegimesAreKept /\ MutationsHoldTheirRow

LEMMA AcctInitially == AcctInit => AcctInv
<1> SUFFICES ASSUME AcctInit PROVE AcctInv
  OBVIOUS
<1>1. NoUser \in AccountRow
  BY DEF NoUser, AccountRow
<1>2. AcctTypes
  BY <1>1 DEF AcctInit, AcctTypes
<1>3. RegimesAreKept /\ MutationsHoldTheirRow
  BY DEF AcctInit, RegimesAreKept, MutationsHoldTheirRow, Mutating, Registered, NoUser, AcctIdle
<1> QED BY <1>2, <1>3 DEF AcctInv

\* A row that no transaction holds is written.
LEMMA FreeRowChanges ==
    ASSUME AcctInv, NEW u \in User, NEW r \in AccountRow, acct' = [acct EXCEPT ![u] = r],
           acctLock' = acctLock, acctLock[u] = free \/ ~Registered(u),
           r.role # "none", r.regime # "none", r.regime = "external" => r.password = 0,
           handler' = handler \/ \E h \in Handler : handler' = [handler EXCEPT ![h] = AcctIdle],
           opened' \in Nat, opened' >= opened,
           \A s \in sessions' : s \in sessions \/ s.id \in 1..opened'
    PROVE  AcctInv'
<1>1. /\ acct' \in [User -> AccountRow] /\ acct'[u] = r
      /\ \A v \in User : v # u => acct'[v] = acct[v]
  BY DEF AcctInv, AcctTypes
<1>2. /\ handler' = [h \in Handler |-> handler'[h]]
      /\ \A h \in Handler : handler'[h] = handler[h] \/ handler'[h] = AcctIdle
  BY DEF AcctInv, AcctTypes
<1>3. AcctTypes'
  BY <1>1, <1>2 DEF AcctInv, AcctTypes
<1>4. RegimesAreKept'
  BY <1>1 DEF AcctInv, RegimesAreKept, Registered
<1>5. MutationsHoldTheirRow'
  <2> SUFFICES ASSUME NEW h \in Handler, Mutating(h)'
               PROVE  /\ handler[h].user \in User /\ acctLock[handler[h].user] = h
                      /\ Registered(handler[h].user)' /\ handler[h].row \in AccountRow
                      /\ handler[h].row.role # "none"
                      /\ handler[h].row.regime = acct'[handler[h].user].regime
                      /\ handler[h].row.password = acct'[handler[h].user].password
                      /\ ~handler[h].revokes =>
                            handler[h].row.role = acct'[handler[h].user].role /\ handler[h].row.active
                      /\ handler'[h] = handler[h]
    BY DEF MutationsHoldTheirRow
  <2>1. handler'[h] = handler[h] /\ Mutating(h)
    BY <1>2 DEF Mutating, AcctIdle
  <2>2. /\ handler[h].user \in User /\ acctLock[handler[h].user] = h /\ Registered(handler[h].user)
        /\ h # free
    BY <2>1, AccountConstants DEF AcctInv, MutationsHoldTheirRow, AccountConstants
  <2>3. handler[h].user # u
    BY <2>2
  <2> QED BY <1>1, <2>1, <2>2, <2>3 DEF AcctInv, MutationsHoldTheirRow, Registered
<1> QED BY <1>3, <1>4, <1>5 DEF AcctInv

\* A handler moves without a change of any row.
LEMMA HandlerMoves ==
    ASSUME AcctInv, NEW h \in Handler, NEW x, handler' = [handler EXCEPT ![h] = x],
           UNCHANGED <<acct, acctLock>>, x.at \notin {"changed", "counted"}, ~Mutating(h),
           opened' \in Nat, opened' >= opened,
           \A s \in sessions' : s \in sessions \/ s.id \in 1..opened'
    PROVE  AcctInv'
<1>1. /\ handler' = [g \in Handler |-> handler'[g]] /\ handler'[h] = x
      /\ \A g \in Handler : g # h => handler'[g] = handler[g]
  BY DEF AcctInv, AcctTypes
<1>2. AcctTypes' /\ RegimesAreKept'
  BY <1>1 DEF AcctInv, AcctTypes, RegimesAreKept, Registered
<1>3. MutationsHoldTheirRow'
  BY <1>1 DEF AcctInv, MutationsHoldTheirRow, Mutating, Registered
<1> QED BY <1>2, <1>3 DEF AcctInv
\* A row is written with a new password.
LEMMA WritePasswordKeeps ==
    ASSUME AcctInv, NEW u \in User, WritePassword(u),
           handler' = handler \/ \E h \in Handler : handler' = [handler EXCEPT ![h] = AcctIdle]
    PROVE  AcctInv'
<1> DEFINE r == [acct[u] EXCEPT !.password = @ + 1]
<1>1. acct[u] \in AccountRow
  BY DEF AcctInv, AcctTypes
<1>2. r \in AccountRow
  BY <1>1 DEF AccountRow
<1>3. r.role = acct[u].role /\ r.regime = acct[u].regime
  BY <1>1 DEF AccountRow
<1>4. acct' = [acct EXCEPT ![u] = r] /\ acctLock' = acctLock /\ acctLock[u] = free
  BY DEF WritePassword
<1>5. r.role # "none" /\ r.regime = "local"
  BY <1>3 DEF AcctInv, RegimesAreKept, Registered, WritePassword, Local
<1>6. /\ opened' \in Nat /\ opened' >= opened
      /\ \A s \in sessions' : s \in sessions \/ s.id \in 1..opened'
  BY DEF AcctInv, AcctTypes, WritePassword, Revoked
<1> HIDE DEF r
<1> QED BY <1>2, <1>4, <1>5, <1>6, FreeRowChanges

\* An account is registered, or follows its provider as it logs in.
LEMMA RegistrationsKeep ==
    ASSUME AcctInv, NEW u \in User, NEW role \in Role
    PROVE  /\ InitializeInstance(u) => AcctInv'
           /\ ExternalLogin(u, role) => AcctInv'
           /\ \A h \in Handler : CreateAccount(h, u, role) => AcctInv'
<1>1. \A q \in Role : LocalUser(q) \in AccountRow /\ LocalUser(q).role = q
                      /\ LocalUser(q).regime = "local"
  BY DEF LocalUser, AccountRow
<1>2. opened \in Nat
  BY DEF AcctInv, AcctTypes
<1>3. ASSUME InitializeInstance(u) PROVE AcctInv'
  <2>1. /\ acct' = [acct EXCEPT ![u] = LocalUser("administrator")] /\ acctLock' = acctLock
        /\ ~Registered(u) /\ handler' = handler
        /\ opened' \in Nat /\ opened' >= opened
        /\ \A s \in sessions' : s \in sessions \/ s.id \in 1..opened'
    BY <1>2, <1>3 DEF InitializeInstance, Initialized, OpenSession
  <2> QED BY <1>1, <2>1, FreeRowChanges DEF Role
<1>4. ASSUME ExternalLogin(u, role) PROVE AcctInv'
  <2> DEFINE r == [role |-> role, regime |-> "external", active |-> TRUE, password |-> 0]
  <2>1. r \in AccountRow /\ r.role # "none" /\ r.regime # "none" /\ r.password = 0
    BY DEF AccountRow, Role
  <2>2. /\ acct' = [acct EXCEPT ![u] = r] /\ acctLock' = acctLock /\ acctLock[u] = free
        /\ handler' = handler /\ opened' \in Nat /\ opened' >= opened
        /\ \A s \in sessions' : s \in sessions \/ s.id \in 1..opened'
    BY <1>2, <1>4 DEF ExternalLogin, Revoked
  <2> HIDE DEF r
  <2> QED BY <2>1, <2>2, FreeRowChanges
<1>5. ASSUME NEW h \in Handler, CreateAccount(h, u, role) PROVE AcctInv'
  <2>1. /\ acct' = [acct EXCEPT ![u] = LocalUser(role)] /\ acctLock' = acctLock
        /\ ~Registered(u) /\ handler' = [handler EXCEPT ![h] = AcctIdle]
        /\ opened' \in Nat /\ opened' >= opened
        /\ \A s \in sessions' : s \in sessions \/ s.id \in 1..opened'
    BY <1>2, <1>5 DEF CreateAccount, Handling, AcctInv, AcctTypes
  <2> QED BY <1>1, <2>1, FreeRowChanges DEF Role
<1> QED BY <1>3, <1>4, <1>5

\* A request that only reads, or opens or closes a session.
LEMMA RequestsKeep ==
    ASSUME AcctInv, NEW h \in Handler
    PROVE  /\ \A u \in User : Authorize(h, u) => AcctInv'
           /\ \A u \in User : Login(h, u) => AcctInv'
           /\ CreateSession(h) => AcctInv'
           /\ \A s \in sessions : Logout(s) => AcctInv'
<1>1. opened \in Nat /\ \A s \in sessions : s.id \in 1..opened
  BY DEF AcctInv, AcctTypes
<1>2. ASSUME NEW u \in User, Authorize(h, u) PROVE AcctInv'
  <2> DEFINE x == [at |-> "authorized", actor |-> u]
  <2>1. /\ handler' = [handler EXCEPT ![h] = x] /\ UNCHANGED <<acct, acctLock, sessions, opened>>
        /\ x.at = "authorized" /\ ~Mutating(h)
        /\ x.at \notin {"changed", "counted"}
        /\ opened' \in Nat /\ opened' >= opened /\ \A s \in sessions' : s \in sessions
    BY <1>1, <1>2 DEF Authorize, Handling, Mutating
  <2> HIDE DEF x
  <2> QED BY <1>1, <2>1, HandlerMoves
<1>3. ASSUME NEW u \in User, Login(h, u) PROVE AcctInv'
  <2> DEFINE x == [at |-> "verified", user |-> u]
  <2>1. /\ handler' = [handler EXCEPT ![h] = x] /\ UNCHANGED <<acct, acctLock, sessions, opened>>
        /\ x.at = "verified" /\ ~Mutating(h)
        /\ x.at \notin {"changed", "counted"}
        /\ opened' \in Nat /\ opened' >= opened /\ \A s \in sessions' : s \in sessions
    BY <1>1, <1>3 DEF Login, Handling, Mutating
  <2> HIDE DEF x
  <2> QED BY <1>1, <2>1, HandlerMoves
<1>4. ASSUME CreateSession(h) PROVE AcctInv'
  <2>1. /\ handler' = [handler EXCEPT ![h] = AcctIdle] /\ UNCHANGED <<acct, acctLock>>
        /\ AcctIdle.at = "idle" /\ ~Mutating(h)
    BY <1>4 DEF CreateSession, Handling, Mutating, AcctIdle
  <2>2. /\ opened' \in Nat /\ opened' >= opened
        /\ \A s \in sessions' : s \in sessions \/ s.id \in 1..opened'
    BY <1>1, <1>4 DEF CreateSession, OpenSession
  <2> QED BY <2>1, <2>2, HandlerMoves
<1>5. ASSUME NEW s \in sessions, Logout(s) PROVE AcctInv'
  BY <1>5 DEF Logout, AcctInv, AcctTypes, RegimesAreKept, MutationsHoldTheirRow, Mutating, Registered
<1> QED BY <1>2, <1>3, <1>4, <1>5

\* A transaction that took the lock of a row is to write it.
LEMMA MutationBegins ==
    ASSUME AcctInv, NEW h \in Handler, NEW u \in User, NEW r \in AccountRow, NEW revokes,
           MutateAccount(h, u, r, revokes), ~Mutating(h), Registered(u),
           r.role # "none", r.regime = acct[u].regime, r.password = acct[u].password,
           ~revokes => r.role = acct[u].role /\ r.active
    PROVE  AcctInv'
<1> DEFINE x == [at |-> "changed", user |-> u, row |-> r, revokes |-> revokes]
<1>1. /\ handler' = [g \in Handler |-> handler'[g]] /\ handler'[h] = x
      /\ \A g \in Handler : g # h => handler'[g] = handler[g]
  BY DEF AcctInv, AcctTypes, MutateAccount, Handling
<1>2. /\ acctLock' = [v \in User |-> acctLock'[v]] /\ acctLock'[u] = h /\ acctLock[u] = free
      /\ \A v \in User : v # u => acctLock'[v] = acctLock[v]
  BY DEF AcctInv, AcctTypes, MutateAccount
<1>3. AcctTypes' /\ RegimesAreKept'
  BY <1>1, <1>2 DEF AcctInv, AcctTypes, RegimesAreKept, Registered, MutateAccount
<1>4. x.user = u /\ x.row = r /\ x.revokes = revokes
  OBVIOUS
<1> HIDE DEF x
<1>5. MutationsHoldTheirRow'
  <2> SUFFICES ASSUME NEW g \in Handler, Mutating(g)'
               PROVE  LET v == handler'[g].user
                          new == handler'[g].row IN
                      /\ v \in User /\ acctLock'[v] = g /\ acct'[v].role # "none"
                      /\ new \in AccountRow
                      /\ new.role # "none" /\ new.regime = acct'[v].regime
                      /\ new.password = acct'[v].password
                      /\ ~handler'[g].revokes => new.role = acct'[v].role /\ new.active
    BY DEF MutationsHoldTheirRow, Registered
  <2>1. acct' = acct
    BY DEF MutateAccount
  <2>2. CASE g = h
    BY <1>1, <1>2, <1>4, <2>1, <2>2 DEF Registered
  <2>3. CASE g # h
    <3>1. handler'[g] = handler[g] /\ Mutating(g)
      BY <1>1, <2>3 DEF Mutating
    <3>2. handler[g].user # u
      BY <1>2, <3>1, AccountConstants DEF AcctInv, MutationsHoldTheirRow, AccountConstants
    <3> QED BY <1>2, <2>1, <3>1, <3>2 DEF AcctInv, MutationsHoldTheirRow, Registered
  <2> QED BY <2>2, <2>3
<1> QED BY <1>3, <1>5 DEF AcctInv

\* mutateAccount, from its lock to its commit.
LEMMA MutationsKeep ==
    ASSUME AcctInv, NEW h \in Handler, NEW u \in User
    PROVE  /\ \A role \in Role : UpdateAccount(h, u, role) => AcctInv'
           /\ \A active \in BOOLEAN : SetAccountActivation(h, u, active) => AcctInv'
           /\ CountAdministrators(h) => AcctInv'
           /\ RollbackAccount(h) => AcctInv'
           /\ CommitAccount(h) => AcctInv'
<1>1. acct[u] \in AccountRow /\ (Registered(u) <=> acct[u].regime # "none")
  BY DEF AcctInv, AcctTypes, RegimesAreKept
<1>2. ASSUME NEW role \in Role, UpdateAccount(h, u, role) PROVE AcctInv'
  <2> DEFINE r == [acct[u] EXCEPT !.role = role]
  <2>1. r \in AccountRow /\ r.role # "none" /\ r.regime = acct[u].regime /\ r.password = acct[u].password
    BY <1>1 DEF AccountRow, Role
  <2>2. MutateAccount(h, u, r, TRUE) /\ ~Mutating(h) /\ Registered(u)
    BY <1>1, <1>2 DEF UpdateAccount, Serves, Mutating, Local
  <2> HIDE DEF r
  <2> QED BY <2>1, <2>2, MutationBegins
<1>3. ASSUME NEW active \in BOOLEAN, SetAccountActivation(h, u, active) PROVE AcctInv'
  <2> DEFINE r == [acct[u] EXCEPT !.active = active]
  <2>1. /\ r \in AccountRow /\ r.role = acct[u].role /\ r.regime = acct[u].regime
        /\ r.password = acct[u].password /\ r.active = active
    BY <1>1 DEF AccountRow
  <2>2. MutateAccount(h, u, r, ~active) /\ ~Mutating(h) /\ Registered(u)
    BY <1>3 DEF SetAccountActivation, Serves, Mutating
  <2>3. r.role # "none"
    BY <2>1, <2>2 DEF Registered
  <2>4. ~(~active) => r.role = acct[u].role /\ r.active
    BY <2>1
  <2> HIDE DEF r
  <2> QED BY <2>1, <2>2, <2>3, <2>4, MutationBegins
<1>4. ASSUME CountAdministrators(h) PROVE AcctInv'
  <2> DEFINE x == [handler[h] EXCEPT !.at = "counted"]
  <2>1. /\ handler' = [g \in Handler |-> handler'[g]] /\ handler'[h] = x
        /\ \A g \in Handler : g # h => handler'[g] = handler[g]
    BY <1>4 DEF AcctInv, AcctTypes, CountAdministrators, Handling
  <2>2. x.user = handler[h].user /\ x.row = handler[h].row /\ x.revokes = handler[h].revokes
    OBVIOUS
  <2> HIDE DEF x
  <2>3. AcctTypes' /\ RegimesAreKept' /\ Mutating(h) /\ UNCHANGED <<acct, acctLock>>
    BY <1>4, <2>1 DEF AcctInv, AcctTypes, RegimesAreKept, Registered, CountAdministrators, Mutating
  <2>4. \A g \in Handler : Mutating(g)' => Mutating(g)
    BY <2>1, <2>3 DEF Mutating
  <2>5. \A g \in Handler : /\ handler'[g].user = handler[g].user /\ handler'[g].row = handler[g].row
                           /\ handler'[g].revokes = handler[g].revokes
    BY <2>1, <2>2
  <2>6. MutationsHoldTheirRow'
    BY <2>3, <2>4, <2>5 DEF AcctInv, MutationsHoldTheirRow, Registered
  <2> QED BY <2>3, <2>6 DEF AcctInv
<1>5. ASSUME RollbackAccount(h) \/ CommitAccount(h) PROVE AcctInv'
  <2> DEFINE v == handler[h].user
  <2>1. /\ Mutating(h) /\ v \in User /\ acctLock[v] = h /\ handler[h].row \in AccountRow
        /\ handler[h].row.role # "none" /\ handler[h].row.regime = acct[v].regime
        /\ handler[h].row.password = acct[v].password /\ Registered(v)
    BY <1>5 DEF RollbackAccount, CommitAccount, Mutating, AcctInv, MutationsHoldTheirRow
  <2>2. /\ handler' = [handler EXCEPT ![h] = AcctIdle] /\ opened' = opened
        /\ acctLock' = [acctLock EXCEPT ![v] = free]
        /\ acct' = acct \/ acct' = [acct EXCEPT ![v] = handler[h].row]
        /\ \A s \in sessions' : s \in sessions
    BY <1>5 DEF RollbackAccount, CommitAccount, Handling, Revoked
  <2> HIDE DEF v
  <2>3. /\ handler' = [g \in Handler |-> handler'[g]] /\ handler'[h] = AcctIdle
        /\ \A g \in Handler : g # h => handler'[g] = handler[g]
    BY <2>2 DEF AcctInv, AcctTypes
  <2>4. /\ acctLock' = [w \in User |-> acctLock'[w]]
        /\ \A w \in User : w # v => acctLock'[w] = acctLock[w]
    BY <2>2 DEF AcctInv, AcctTypes
  <2>5. /\ acct' \in [User -> AccountRow]
        /\ \A w \in User : w # v => acct'[w] = acct[w]
        /\ acct'[v] = acct[v] \/ acct'[v] = handler[h].row
    BY <2>1, <2>2 DEF AcctInv, AcctTypes
  <2>6. AcctTypes'
    BY <2>2, <2>3, <2>4, <2>5 DEF AcctInv, AcctTypes
  <2>7. RegimesAreKept'
    BY <2>1, <2>5 DEF AcctInv, RegimesAreKept, Registered
  <2>8. \A g \in Handler : Mutating(g)' => /\ handler'[g] = handler[g] /\ Mutating(g)
                                           /\ handler[g].user # v
    BY <2>1, <2>3 DEF Mutating, AcctIdle, AcctInv, MutationsHoldTheirRow
  <2>9. MutationsHoldTheirRow'
    BY <2>4, <2>5, <2>8 DEF AcctInv, MutationsHoldTheirRow, Registered
  <2> QED BY <2>6, <2>7, <2>9 DEF AcctInv
<1> QED BY <1>2, <1>3, <1>4, <1>5

LEMMA AcctNextKeeps == AcctInv /\ [AcctNext]_acctVars => AcctInv'
<1> SUFFICES ASSUME AcctInv, [AcctNext]_acctVars PROVE AcctInv'
  OBVIOUS
<1>1. ASSUME NEW u \in User,
             \/ InitializeInstance(u) \/ ChangePassword(u) \/ RecoverPassword(u)
             \/ \E role \in Role : ExternalLogin(u, role)
      PROVE  AcctInv'
  BY <1>1, RegistrationsKeep, WritePasswordKeeps DEF ChangePassword, RecoverPassword, Role
<1>2. ASSUME NEW h \in Handler,
             CreateSession(h) \/ CountAdministrators(h) \/ RollbackAccount(h) \/ CommitAccount(h)
      PROVE  AcctInv'
  <2>1. CASE CreateSession(h)
    BY <2>1, RequestsKeep
  <2>2. CASE ~CreateSession(h)
    <3>1. handler[h].user \in User
      BY <1>2, <2>2 DEF AcctInv, MutationsHoldTheirRow, CountAdministrators, RollbackAccount,
                        CommitAccount, Mutating
    <3> QED BY <1>2, <2>2, <3>1, MutationsKeep
  <2> QED BY <2>1, <2>2
<1>3. ASSUME NEW h \in Handler, NEW u \in User,
             \/ Login(h, u) \/ Authorize(h, u) \/ SetPassword(h, u)
             \/ \E role \in Role : CreateAccount(h, u, role) \/ UpdateAccount(h, u, role)
             \/ \E active \in BOOLEAN : SetAccountActivation(h, u, active)
      PROVE  AcctInv'
  <2>1. CASE SetPassword(h, u)
    BY <2>1, WritePasswordKeeps DEF SetPassword, Handling
  <2> QED BY <1>3, <2>1, RequestsKeep, MutationsKeep, RegistrationsKeep
<1>4. ASSUME NEW s \in sessions, Logout(s) PROVE AcctInv'
  BY <1>4 DEF Logout, AcctInv, AcctTypes, RegimesAreKept, MutationsHoldTheirRow, Mutating, Registered
<1>5. ASSUME UNCHANGED acctVars PROVE AcctInv'
  BY <1>5 DEF acctVars, AcctInv, AcctTypes, RegimesAreKept, MutationsHoldTheirRow, Mutating, Registered
<1> QED BY <1>1, <1>2, <1>3, <1>4, <1>5 DEF AcctNext

\* What each way of changing a row does to the sessions of its user.
LEMMA StepsCloseSessions ==
    AcctInv /\ [AcctNext]_acctVars => \A u \in User : ClosesSessions(u)
<1> SUFFICES ASSUME AcctInv, [AcctNext]_acctVars, NEW u \in User PROVE ClosesSessions(u)
  OBVIOUS
<1> USE DEF ClosesSessions
<1>1. acct \in [User -> AccountRow] /\ opened \in Nat /\ \A s \in sessions : s.id # opened + 1
  BY DEF AcctInv, AcctTypes
<1>2. ASSUME NEW v \in User, InitializeInstance(v) PROVE ClosesSessions(u)
  BY <1>1, <1>2 DEF InitializeInstance, Initialized, Registered, LocalUser
<1>3. ASSUME NEW v \in User, WritePassword(v) PROVE ClosesSessions(u)
  BY <1>1, <1>3 DEF WritePassword, Revoked
<1>4. ASSUME NEW v \in User, NEW role \in Role, ExternalLogin(v, role) PROVE ClosesSessions(u)
  <2>1. acct'[v] = [role |-> role, regime |-> "external", active |-> TRUE, password |-> 0]
        /\ \A w \in User : w # v => acct'[w] = acct[w]
    BY <1>1, <1>4 DEF ExternalLogin
  <2>2. acct'[v].role = role /\ acct'[v].active /\ acct'[v].password = 0
    BY <2>1
  <2>3. Registered(v) => acct[v].password = 0
    BY <1>1, <1>4 DEF AcctInv, RegimesAreKept, ExternalLogin, Local, AccountRow
  <2>4. role # acct[v].role => \A s \in sessions \cap sessions' : s.user # v
    BY <1>1, <1>4 DEF ExternalLogin, Revoked
  <2> QED BY <2>1, <2>2, <2>3, <2>4
<1>5. ASSUME NEW h \in Handler, CommitAccount(h) PROVE ClosesSessions(u)
  <2> DEFINE v == handler[h].user
  <2>1. /\ v \in User /\ handler[h].row.password = acct[v].password
        /\ ~handler[h].revokes => handler[h].row.role = acct[v].role /\ handler[h].row.active
    BY <1>5 DEF CommitAccount, Mutating, AcctInv, MutationsHoldTheirRow
  <2>2. /\ acct'[v] = handler[h].row /\ \A w \in User : w # v => acct'[w] = acct[w]
        /\ handler[h].revokes => \A s \in sessions' : s.user # v
    BY <1>1, <1>5, <2>1 DEF CommitAccount, Revoked
  <2> HIDE DEF v
  <2> QED BY <2>1, <2>2
<1>6. ASSUME NEW h \in Handler, NEW v \in User, NEW role \in Role, CreateAccount(h, v, role)
      PROVE  ClosesSessions(u)
  <2>1. acct'[v] = LocalUser(role) /\ ~Registered(v) /\ \A w \in User : w # v => acct'[w] = acct[w]
    BY <1>1, <1>6 DEF CreateAccount
  <2> QED BY <2>1 DEF LocalUser
<1>7. ASSUME UNCHANGED acct PROVE ClosesSessions(u)
  BY <1>7
<1>8. ASSUME NEW h \in Handler, NEW v \in User,
             \/ Login(h, v) \/ Authorize(h, v) \/ CreateSession(h) \/ CountAdministrators(h)
             \/ RollbackAccount(h) \/ \E role \in Role : UpdateAccount(h, v, role)
             \/ \E active \in BOOLEAN : SetAccountActivation(h, v, active)
      PROVE  UNCHANGED acct
  BY <1>8 DEF Login, Authorize, CreateSession, CountAdministrators, RollbackAccount, UpdateAccount,
              SetAccountActivation, MutateAccount
<1>9. ASSUME NEW s \in sessions, Logout(s) PROVE UNCHANGED acct
  BY <1>9 DEF Logout
<1> HIDE DEF ClosesSessions
<1> QED BY <1>2, <1>3, <1>4, <1>5, <1>6, <1>7, <1>8, <1>9
        DEF AcctNext, ChangePassword, RecoverPassword, SetPassword, acctVars

\* However requests and their transactions interleave, a new password, another
\* role or a deactivation leaves its user none of the sessions opened before.
THEOREM SessionsEndWithTheChange == AcctSpec => ChangesCloseSessions
<1>1. AcctInv /\ [AcctNext]_acctVars => [\A u \in User : ClosesSessions(u)]_acctVars
  BY StepsCloseSessions
<1> QED BY <1>1, AcctInitially, AcctNextKeeps, PTL DEF AcctSpec, ChangesCloseSessions

----------------------------------------------------------------------------
(* Operations: what two targets exchange is exchanged once *)

\* Another operation has moved the source of o.
MovedByAnother(o) ==
    \E u \in Operation \ {o} : mutated[u] > 0 /\ op[u].source = op[o].source

Asked ==
    \A o \in Operation :
        op[o].status # "unasked" =>
            /\ op[o].primary # op[o].secondary
            /\ op[o].kind = "source_move" => op[o].source \in Source

\* An operation that was mutated finds no second time what it needs: a merge
\* leaves a redirection, a move leaves the source, unless another one took it.
MutationsHold ==
    \A o \in Operation :
        /\ mutated[o] > 0 => op[o].status # "unasked"
        /\ op[o].kind = "target_merge" =>
              /\ mutated[o] <= 1
              /\ mutated[o] > 0 => tgt[op[o].secondary].into # None
        /\ op[o].kind = "source_move" =>
              /\ mutated[o] > 1 => MovedByAnother(o)
              /\ mutated[o] > 0 => \/ at[op[o].source] = op[o].primary
                                   \/ tgt[op[o].primary].into # None
                                   \/ MovedByAnother(o)

\* Only an operation that runs has an owner, and a lease; one that succeeded
\* was mutated.
ReportsHold ==
    \A o \in Operation :
        /\ op[o].owner # None \/ op[o].live => op[o].status = "running"
        /\ op[o].status = "succeeded" => mutated[o] > 0

\* A processor works on what was asked, and knows what it did.
WorkHolds ==
    \A x \in Processor :
        work[x].op # None =>
            /\ op[work[x].op].status # "unasked"
            /\ work[x].step \in {"mutated", "verified"} => mutated[work[x].op] > 0

OpInv ==
    /\ TypeOK
    /\ OneOperationPerTarget
    /\ Asked
    /\ MutationsHold
    /\ ReportsHold
    /\ WorkHolds
    /\ RedirectsEnd

LEMMA OperationsInitially == Init => OpInv
<1> SUFFICES ASSUME Init PROVE OpInv
  OBVIOUS
<1>1. PICK first \in Target : first = CHOOSE u \in Target : TRUE
  BY ReconciliationConstants
<1>2. Unasked \in OperationRow /\ Free \in Work
  BY <1>1, ReconciliationConstants DEF Unasked, OperationRow, Status, Free, Work
<1>3. TypeOK
  BY <1>2, ReconciliationConstants DEF Init, TypeOK
<1>4. \A o \in Operation : /\ op[o].status = "unasked" /\ op[o].owner = None /\ ~op[o].live
                           /\ mutated[o] = 0
  BY DEF Init, Unasked
<1>5. \A x \in Processor : work[x].op = None
  BY DEF Init, Free
<1>6. RedirectsEnd
  <2>1. \A t \in Target : tgt[t].into = None /\ None \notin Target
    BY ReconciliationConstants DEF Init
  <2> QED BY <2>1 DEF RedirectsEnd
<1> QED BY <1>3, <1>4, <1>5, <1>6
        DEF OpInv, OneOperationPerTarget, Pending, Asked, MutationsHold, ReportsHold, WorkHolds

\* A step that only reports leaves what an operation asks for, and what is
\* pending.
Reports(o) ==
    /\ op'[o].kind = op[o].kind /\ op'[o].source = op[o].source
    /\ op'[o].primary = op[o].primary /\ op'[o].secondary = op[o].secondary
    /\ op'[o].status = "unasked" <=> op[o].status = "unasked"
    /\ op'[o].status \in {"queued", "running"} => Pending(o)
    /\ op'[o].owner # None \/ op'[o].live => op'[o].status = "running"
    /\ op'[o].status = "succeeded" => op[o].status = "succeeded" \/ mutated[o] > 0

LEMMA ReportsKeep ==
    ASSUME OpInv, UNCHANGED <<tgt, at, seen, check, mutated>>,
           op' \in [Operation -> OperationRow], work' \in [Processor -> Work],
           \A o \in Operation : Reports(o),
           \A x \in Processor :
               work'[x].op # None =>
                  /\ op[work'[x].op].status # "unasked"
                  /\ work'[x].step \in {"mutated", "verified"} => mutated[work'[x].op] > 0
    PROVE  OpInv'
<1>1. TypeOK'
  BY DEF OpInv, TypeOK
<1>2. OneOperationPerTarget'
  <2> SUFFICES ASSUME NEW o \in Operation, NEW u \in Operation, o # u, Pending(o)', Pending(u)'
               PROVE  Involved(o)' \cap Involved(u)' = {}
    BY DEF OneOperationPerTarget
  <2>1. Pending(o) /\ Pending(u)
    BY DEF Reports, Pending
  <2>2. Involved(o) \cap Involved(u) = {}
    BY <2>1 DEF OpInv, OneOperationPerTarget
  <2>3. Involved(o)' = Involved(o) /\ Involved(u)' = Involved(u)
    BY DEF Reports, Involved
  <2> QED BY <2>2, <2>3
<1>3. Asked'
  BY DEF OpInv, Asked, Reports
<1>4. \A o \in Operation : MovedByAnother(o) => MovedByAnother(o)'
  BY DEF MovedByAnother, Reports
<1>5. MutationsHold'
  BY <1>4 DEF OpInv, MutationsHold, Reports
<1>6. ReportsHold'
  BY DEF OpInv, ReportsHold, Reports
<1>7. WorkHolds'
  <2> SUFFICES ASSUME NEW x \in Processor, work'[x].op # None
               PROVE  /\ op'[work'[x].op].status # "unasked"
                      /\ work'[x].step \in {"mutated", "verified"} => mutated'[work'[x].op] > 0
    BY DEF WorkHolds
  <2>1. work'[x].op \in Operation
    BY DEF Work
  <2> QED BY <2>1 DEF Reports
<1>8. RedirectsEnd'
  BY DEF OpInv, RedirectsEnd
<1> QED BY <1>1, <1>2, <1>3, <1>5, <1>6, <1>7, <1>8 DEF OpInv
\* One row is written, the others stay.
LEMMA RowReports ==
    ASSUME OpInv, NEW o \in Operation, NEW row \in OperationRow, op' = [op EXCEPT ![o] = row],
           row.kind = op[o].kind, row.source = op[o].source,
           row.primary = op[o].primary, row.secondary = op[o].secondary,
           row.status # "unasked", op[o].status # "unasked",
           row.status \in {"queued", "running"} => Pending(o),
           row.owner # None \/ row.live => row.status = "running",
           row.status = "succeeded" => mutated[o] > 0
    PROVE  op' \in [Operation -> OperationRow] /\ \A u \in Operation : Reports(u)
<1>1. op \in [Operation -> OperationRow]
  BY DEF OpInv, TypeOK
<1>2. /\ op' \in [Operation -> OperationRow] /\ op'[o] = row
      /\ \A u \in Operation : u # o => op'[u] = op[u]
  BY <1>1
<1>3. \A u \in Operation : /\ op[u].owner # None \/ op[u].live => op[u].status = "running"
  BY DEF OpInv, ReportsHold
<1> QED BY <1>2, <1>3 DEF Reports, Pending

\* What a processor does next is on what was asked.
LEMMA WorkReports ==
    ASSUME OpInv, NEW x \in Processor, NEW next \in Work, work' = [work EXCEPT ![x] = next],
           next.op # None =>
               /\ op[next.op].status # "unasked"
               /\ next.step \in {"mutated", "verified"} => mutated[next.op] > 0
    PROVE  /\ work' \in [Processor -> Work]
           /\ \A y \in Processor :
                  work'[y].op # None =>
                     /\ op[work'[y].op].status # "unasked"
                     /\ work'[y].step \in {"mutated", "verified"} => mutated[work'[y].op] > 0
<1>1. work \in [Processor -> Work]
  BY DEF OpInv, TypeOK
<1>2. /\ work' \in [Processor -> Work] /\ work'[x] = next
      /\ \A y \in Processor : y # x => work'[y] = work[y]
  BY <1>1
<1> QED BY <1>2 DEF OpInv, WorkHolds

\* A row that stays reports nothing new.
LEMMA NothingReports ==
    ASSUME OpInv, UNCHANGED op
    PROVE  op' \in [Operation -> OperationRow] /\ \A u \in Operation : Reports(u)
BY DEF OpInv, TypeOK, ReportsHold, Reports, Pending

LEMMA WorkTyped ==
    ASSUME OpInv, NEW x \in Processor, ~Idle(x)
    PROVE  /\ work[x].op \in Operation /\ work[x].op # None
           /\ work[x].attempts \in 0..MaxAttempts
           /\ work[x] = [op |-> work[x].op, step |-> work[x].step, attempts |-> work[x].attempts]
           /\ op[work[x].op] \in OperationRow
           /\ op[work[x].op].status # "unasked"
           /\ work[x].step \in {"mutated", "verified"} => mutated[work[x].op] > 0
           /\ op[work[x].op].owner # None \/ op[work[x].op].live
                 => op[work[x].op].status = "running"
<1>1. work[x] \in Work /\ work[x].op # None
  BY DEF OpInv, TypeOK, Idle
<1>2. work[x].op \in Operation
  BY <1>1 DEF Work
<1>3. op[work[x].op] \in OperationRow
  BY <1>2 DEF OpInv, TypeOK
<1>4. /\ work[x].attempts \in 0..MaxAttempts
      /\ work[x] = [op |-> work[x].op, step |-> work[x].step, attempts |-> work[x].attempts]
  BY <1>1 DEF Work
<1> QED BY <1>1, <1>2, <1>3, <1>4 DEF OpInv, WorkHolds, ReportsHold

LEMMA ClaimKeeps ==
    ASSUME OpInv, NEW x \in Processor, NEW o \in Operation, Claim(x, o) PROVE OpInv'
<1> DEFINE row == [op[o] EXCEPT !.status = "running", !.attempts = @ + 1,
                                !.owner = x, !.live = TRUE]
           next == [op |-> o, step |-> "claimed", attempts |-> op[o].attempts + 1]
<1>1. op[o] \in OperationRow /\ Pending(o) /\ op[o].attempts < MaxAttempts
  BY DEF OpInv, TypeOK, Claim
<1>2. op[o].attempts + 1 \in 0..MaxAttempts
  BY <1>1, ReconciliationConstants DEF OperationRow
<1>3. /\ row \in OperationRow /\ row.status = "running" /\ row.kind = op[o].kind
      /\ row.source = op[o].source /\ row.primary = op[o].primary
      /\ row.secondary = op[o].secondary
  BY <1>1, <1>2 DEF OperationRow, Status
<1>4. op' = [op EXCEPT ![o] = row] /\ work' = [work EXCEPT ![x] = next]
      /\ UNCHANGED <<tgt, at, seen, check, mutated>>
  BY <1>1 DEF Claim, OpInv, TypeOK, OperationRow
<1>5. next \in Work /\ next.op = o /\ next.step = "claimed"
  BY <1>2 DEF Work
<1>6. op[o].status # "unasked"
  BY <1>1 DEF Pending
<1> HIDE DEF row, next
<1>7. op' \in [Operation -> OperationRow] /\ \A u \in Operation : Reports(u)
  BY <1>1, <1>3, <1>4, <1>6, RowReports
<1>8. /\ work' \in [Processor -> Work]
      /\ \A y \in Processor :
             work'[y].op # None =>
                /\ op[work'[y].op].status # "unasked"
                /\ work'[y].step \in {"mutated", "verified"} => mutated[work'[y].op] > 0
  BY <1>4, <1>5, <1>6, WorkReports
<1> QED BY <1>4, <1>7, <1>8, ReportsKeep

\* The end of the work of a processor, whatever it reports.
LEMMA FreedWork ==
    ASSUME OpInv, NEW x \in Processor, work' = [work EXCEPT ![x] = Free]
    PROVE  /\ work' \in [Processor -> Work]
           /\ \A y \in Processor :
                  work'[y].op # None =>
                     /\ op[work'[y].op].status # "unasked"
                     /\ work'[y].step \in {"mutated", "verified"} => mutated[work'[y].op] > 0
<1>1. Free \in Work /\ Free.op = None
  BY ReconciliationConstants DEF Free, Work
<1> QED BY <1>1, WorkReports

LEMMA FailedKeeps ==
    ASSUME OpInv, NEW x \in Processor, ~Idle(x), NEW permanent \in BOOLEAN,
           Failed(x, permanent), UNCHANGED <<tgt, at, seen, check, mutated>>
    PROVE  OpInv'
<1>1. PICK o \in Operation : o = work[x].op
  BY WorkTyped
<1>2. /\ op[o] \in OperationRow /\ op[o].status # "unasked"
      /\ op[o].owner # None => op[o].status = "running"
  BY <1>1, WorkTyped
<1>3. work' = [work EXCEPT ![x] = Free]
  BY DEF Failed
<1>4. CASE op[o].owner # x
  <2>1. UNCHANGED op
    BY <1>1, <1>4 DEF Failed
  <2> QED BY <1>3, <2>1, FreedWork, NothingReports, ReportsKeep
<1>5. CASE op[o].owner = x
  <2>1. PICK again \in BOOLEAN : again = (work[x].attempts < MaxAttempts /\ ~permanent)
    OBVIOUS
  <2> DEFINE row == [op[o] EXCEPT !.status = IF again THEN "queued" ELSE "failed",
                                  !.ready = ~again, !.owner = None, !.live = FALSE]
  <2>2. op' = [op EXCEPT ![o] = row]
    BY <1>1, <1>2, <1>5, <2>1 DEF Failed, OpInv, TypeOK, OperationRow
  <2>3. /\ row \in OperationRow /\ row.status \in {"queued", "failed"} /\ row.owner = None
        /\ row.live = FALSE /\ row.kind = op[o].kind /\ row.source = op[o].source
        /\ row.primary = op[o].primary /\ row.secondary = op[o].secondary
    BY <1>2 DEF OperationRow, Status
  <2>4. Pending(o)
    BY <1>2, <1>5, ReconciliationConstants DEF Pending
  <2> HIDE DEF row
  <2>5. op' \in [Operation -> OperationRow] /\ \A u \in Operation : Reports(u)
    BY <1>2, <2>2, <2>3, <2>4, RowReports
  <2> QED BY <1>3, <2>5, FreedWork, ReportsKeep
<1> QED BY <1>4, <1>5
\* A stage renews the lease of the owner, and the processor advances.
LEMMA StagedKeeps ==
    ASSUME OpInv, NEW x \in Processor, ~Idle(x), Owns(x), Staged(x),
           NEW step \in {"prepared", "verified"}, Advanced(x, step),
           step = "verified" => work[x].step = "mutated",
           UNCHANGED <<tgt, at, seen, check, mutated>>
    PROVE  OpInv'
<1>1. PICK o \in Operation : o = work[x].op
  BY WorkTyped
<1>2. /\ op[o] \in OperationRow /\ op[o].status = "running"
      /\ work[x].step \in {"mutated", "verified"} => mutated[o] > 0
      /\ work[x].attempts \in 0..MaxAttempts
      /\ work[x] = [op |-> o, step |-> work[x].step, attempts |-> work[x].attempts]
  BY <1>1, WorkTyped DEF Owns
<1> DEFINE row == [op[o] EXCEPT !.live = TRUE]
           next == [op |-> o, step |-> step, attempts |-> work[x].attempts]
<1>3. op' = [op EXCEPT ![o] = row] /\ work' = [work EXCEPT ![x] = next]
  <2>1. op' = [op EXCEPT ![o] = row]
    BY <1>1, <1>2 DEF Staged, OpInv, TypeOK, OperationRow
  <2>2. work' = [work EXCEPT ![x] = [work[x] EXCEPT !.step = step]]
    BY DEF Advanced
  <2>3. [work[x] EXCEPT !.step = step] = next
    BY <1>2
  <2> QED BY <2>1, <2>2, <2>3
<1>4. /\ row \in OperationRow /\ row.status = "running" /\ row.kind = op[o].kind
      /\ row.source = op[o].source /\ row.primary = op[o].primary
      /\ row.secondary = op[o].secondary
  BY <1>2 DEF OperationRow
<1>5. next \in Work /\ next.op = o /\ next.step = step
  BY <1>2 DEF Work
<1>6. Pending(o)
  BY <1>2 DEF Pending
<1> HIDE DEF row, next
<1>7. op' \in [Operation -> OperationRow] /\ \A u \in Operation : Reports(u)
  BY <1>2, <1>3, <1>4, <1>6, RowReports
<1>8. /\ work' \in [Processor -> Work]
      /\ \A y \in Processor :
             work'[y].op # None =>
                /\ op[work'[y].op].status # "unasked"
                /\ work'[y].step \in {"mutated", "verified"} => mutated[work'[y].op] > 0
  BY <1>2, <1>3, <1>5, WorkReports
<1> QED BY <1>7, <1>8, ReportsKeep

LEMMA FinishKeeps ==
    ASSUME OpInv, NEW x \in Processor, Finish(x) PROVE OpInv'
<1>1. ~Idle(x) /\ work[x].step = "verified" /\ Owns(x)
  BY DEF Finish
<1>2. PICK o \in Operation : o = work[x].op
  BY <1>1, WorkTyped
<1>3. op[o] \in OperationRow /\ op[o].status = "running" /\ mutated[o] > 0
  BY <1>1, <1>2, WorkTyped DEF Owns
<1> DEFINE row == [op[o] EXCEPT !.status = "succeeded", !.owner = None, !.live = FALSE]
<1>4. /\ op' = [op EXCEPT ![o] = row] /\ work' = [work EXCEPT ![x] = Free]
      /\ UNCHANGED <<tgt, at, seen, check, mutated>>
  BY <1>2, <1>3 DEF Finish, OpInv, TypeOK, OperationRow
<1>5. /\ row \in OperationRow /\ row.status = "succeeded" /\ row.kind = op[o].kind
      /\ row.source = op[o].source /\ row.primary = op[o].primary
      /\ row.secondary = op[o].secondary /\ row.owner = None /\ row.live = FALSE
  BY <1>3 DEF OperationRow, Status
<1> HIDE DEF row
<1>6. op' \in [Operation -> OperationRow] /\ \A u \in Operation : Reports(u)
  BY <1>3, <1>4, <1>5, RowReports
<1> QED BY <1>4, <1>6, FreedWork, ReportsKeep

\* A lease or a delay that ends.
LEMMA LapsesKeep ==
    ASSUME OpInv, NEW o \in Operation, LeaseExpires(o) \/ BackoffEnds(o) PROVE OpInv'
<1>1. /\ op[o] \in OperationRow
      /\ op[o].owner # None \/ op[o].live => op[o].status = "running"
  BY DEF OpInv, TypeOK, ReportsHold
<1>2. PICK live \in BOOLEAN, ready \in BOOLEAN :
          /\ op' = [op EXCEPT ![o] = [op[o] EXCEPT !.live = live, !.ready = ready]]
          /\ live => op[o].live
          /\ Pending(o)
  <2>1. CASE LeaseExpires(o)
    <3>1. op' = [op EXCEPT ![o] = [op[o] EXCEPT !.live = FALSE, !.ready = op[o].ready]]
      BY <1>1, <2>1 DEF LeaseExpires, OpInv, TypeOK, OperationRow
    <3>2. Pending(o) /\ op[o].ready \in BOOLEAN
      BY <1>1, <2>1 DEF LeaseExpires, Pending, OperationRow
    <3> QED BY <3>1, <3>2
  <2>2. CASE BackoffEnds(o)
    <3>1. op' = [op EXCEPT ![o] = [op[o] EXCEPT !.live = op[o].live, !.ready = TRUE]]
      BY <1>1, <2>2 DEF BackoffEnds, OpInv, TypeOK, OperationRow
    <3>2. Pending(o) /\ op[o].live \in BOOLEAN
      BY <1>1, <2>2 DEF BackoffEnds, Pending, OperationRow
    <3> QED BY <3>1, <3>2
  <2> QED BY <2>1, <2>2
<1> DEFINE row == [op[o] EXCEPT !.live = live, !.ready = ready]
<1>3. /\ row \in OperationRow /\ row.status = op[o].status /\ row.kind = op[o].kind
      /\ row.source = op[o].source /\ row.primary = op[o].primary
      /\ row.secondary = op[o].secondary /\ row.owner = op[o].owner /\ row.live = live
  BY <1>1 DEF OperationRow
<1>4. op' = [op EXCEPT ![o] = row] /\ UNCHANGED <<tgt, at, seen, check, work, mutated>>
  BY <1>2 DEF LeaseExpires, BackoffEnds
<1>5. op[o].status \in {"queued", "running"}
  BY <1>2 DEF Pending
<1> HIDE DEF row
<1>a. row.owner # None \/ row.live => row.status = "running"
  BY <1>1, <1>2, <1>3
<1>b. row.status # "unasked" /\ op[o].status # "unasked" /\ row.status # "succeeded"
  BY <1>3, <1>5
<1>6. op' \in [Operation -> OperationRow] /\ \A u \in Operation : Reports(u)
  BY <1>2, <1>3, <1>4, <1>a, <1>b, RowReports
<1>7. /\ work' \in [Processor -> Work]
      /\ \A x \in Processor :
             work'[x].op # None =>
                /\ op[work'[x].op].status # "unasked"
                /\ work'[x].step \in {"mutated", "verified"} => mutated[work'[x].op] > 0
  BY <1>4 DEF OpInv, TypeOK, WorkHolds
<1> QED BY <1>4, <1>6, <1>7, ReportsKeep

LEMMA ProcessorKeeps ==
    ASSUME OpInv, NEW x \in Processor,
           \/ \E o \in Operation : Claim(x, o)
           \/ Prepare(x) \/ MutateConflict(x) \/ Verify(x) \/ Finish(x)
           \/ Error(x) \/ Crash(x)
    PROVE  OpInv'
<1>1. CASE Prepare(x)
  <2>1. "prepared" \in {"prepared", "verified"}
    OBVIOUS
  <2> QED BY <1>1, <2>1, StagedKeeps DEF Prepare
<1>2. CASE MutateConflict(x)
  BY <1>2, FailedKeeps DEF MutateConflict
<1>3. CASE Verify(x)
  <2>1. CASE Attributed(work[x].op)
    <3>1. "verified" \in {"prepared", "verified"}
      OBVIOUS
    <3> QED BY <1>3, <2>1, <3>1, StagedKeeps DEF Verify
  <2>2. CASE ~Attributed(work[x].op)
    BY <1>3, <2>2, FailedKeeps DEF Verify
  <2> QED BY <2>1, <2>2
<1>4. CASE Error(x)
  BY <1>4, FailedKeeps DEF Error
<1>5. CASE Crash(x)
  BY <1>5, FreedWork, NothingReports, ReportsKeep DEF Crash
<1> QED BY <1>1, <1>2, <1>3, <1>4, <1>5, ClaimKeeps, FinishKeeps

\* No operation is asked for yet.
LEMMA UnaskedRow ==
    Unasked \in OperationRow /\ Unasked.owner = None /\ Unasked.live = FALSE
<1>1. PICK first \in Target : first = CHOOSE t \in Target : TRUE
  BY ReconciliationConstants
<1> QED BY <1>1, ReconciliationConstants DEF Unasked, OperationRow, Status

\* What is asked shares no target with what is pending.
LEMMA EnqueueKeeps ==
    ASSUME OpInv, NEW o \in Operation, NEW p \in Target, NEW q \in Target,
           NEW s \in Source \cup {None}, NEW archive \in BOOLEAN, Enqueue(o, p, q, s, archive)
    PROVE  OpInv'
<1> DEFINE kind == IF s = None THEN "target_merge" ELSE "source_move"
           moved == archive /\ s # None
           row == [Unasked EXCEPT !.status = "queued", !.primary = p, !.secondary = q,
                                  !.source = s, !.archive = moved, !.kind = kind]
<1>1. /\ op[o].status = "unasked" /\ p # q /\ ~Busy(p) /\ ~Busy(q)
      /\ op' = [op EXCEPT ![o] = row]
      /\ UNCHANGED <<tgt, at, seen, check, work, mutated>>
  BY DEF Enqueue
<1>0. /\ kind \in {"target_merge", "source_move"} /\ moved \in BOOLEAN
      /\ kind = "source_move" => s \in Source
  OBVIOUS
<1> HIDE DEF kind, moved
<1>2. /\ row \in OperationRow /\ row.status = "queued" /\ row.primary = p /\ row.secondary = q
      /\ row.owner = None /\ row.live = FALSE
      /\ row.kind = "source_move" => s \in Source /\ row.source = s
  BY <1>0, UnaskedRow DEF OperationRow, Status
<1> HIDE DEF row
<1>3. op \in [Operation -> OperationRow] /\ op' \in [Operation -> OperationRow]
  BY <1>1, <1>2 DEF OpInv, TypeOK
<1>4. op'[o] = row /\ \A u \in Operation : u # o => op'[u] = op[u]
  BY <1>1, <1>3
<1>5. mutated[o] = 0
  BY <1>1 DEF OpInv, MutationsHold, TypeOK
<1>6. TypeOK'
  BY <1>1, <1>3 DEF OpInv, TypeOK
<1>7. OneOperationPerTarget'
  <2>1. ASSUME NEW u \in Operation, u # o, Pending(u)'
        PROVE  Involved(u)' \cap Involved(o)' = {}
    <3>1. Pending(u) /\ Involved(u)' = Involved(u)
      BY <1>4, <2>1 DEF Pending, Involved
    <3>2. p \notin Involved(u) /\ q \notin Involved(u)
      BY <1>1, <3>1 DEF Busy
    <3>3. Involved(o)' = {p, q}
      BY <1>2, <1>4 DEF Involved
    <3> QED BY <3>1, <3>2, <3>3
  <2>2. ASSUME NEW u \in Operation, NEW v \in Operation, u # v, u # o, v # o,
               Pending(u)', Pending(v)'
        PROVE  Involved(u)' \cap Involved(v)' = {}
    <3>1. op'[u] = op[u] /\ op'[v] = op[v]
      BY <1>4, <2>2
    <3>2. Pending(u) /\ Pending(v)
      BY <2>2, <3>1 DEF Pending
    <3>3. Involved(u) \cap Involved(v) = {}
      BY <2>2, <3>2 DEF OpInv, OneOperationPerTarget
    <3> QED BY <3>1, <3>3 DEF Involved
  <2> QED BY <2>1, <2>2 DEF OneOperationPerTarget
<1>8. Asked'
  BY <1>1, <1>2, <1>4 DEF OpInv, Asked
<1>9. ASSUME NEW u \in Operation, MovedByAnother(u), u # o PROVE MovedByAnother(u)'
  <2>1. PICK v \in Operation \ {u} : mutated[v] > 0 /\ op[v].source = op[u].source
    BY <1>9 DEF MovedByAnother
  <2>2. v # o
    BY <1>5, <2>1
  <2> QED BY <1>1, <1>4, <1>9, <2>1, <2>2 DEF MovedByAnother
<1>10. MutationsHold'
  <2>1. \A u \in Operation : u # o => mutated'[u] = mutated[u] /\ op'[u] = op[u]
    BY <1>1, <1>4
  <2>2. mutated'[o] = 0
    BY <1>1, <1>5
  <2> QED BY <1>1, <1>9, <2>1, <2>2 DEF OpInv, MutationsHold
<1>11. ReportsHold'
  BY <1>1, <1>2, <1>4 DEF OpInv, ReportsHold
<1>12. WorkHolds'
  <2> SUFFICES ASSUME NEW x \in Processor, work[x].op # None
               PROVE  /\ op'[work[x].op].status # "unasked"
                      /\ work[x].step \in {"mutated", "verified"} => mutated[work[x].op] > 0
    BY <1>1 DEF WorkHolds
  <2>1. work[x].op \in Operation
    BY DEF OpInv, TypeOK, Work
  <2> QED BY <1>1, <1>4, <2>1 DEF OpInv, WorkHolds
<1>13. RedirectsEnd'
  BY <1>1 DEF OpInv, RedirectsEnd
<1> QED BY <1>6, <1>7, <1>8, <1>10, <1>11, <1>12, <1>13 DEF OpInv
\* An administrator archives and restores, but undoes no redirection.
LEMMA TargetsKeep ==
    ASSUME OpInv, NEW t \in Target, ArchiveTarget(t) \/ RestoreTarget(t) PROVE OpInv'
<1>1. /\ UNCHANGED <<at, seen, check, op, work, mutated>>
      /\ tgt' \in [Target -> [archived : BOOLEAN, into : Target \cup {None}]]
      /\ \A u \in Target : /\ tgt'[u].into = tgt[u].into
                           /\ tgt'[u].into # None => tgt'[u].archived
  <2>1. /\ tgt \in [Target -> [archived : BOOLEAN, into : Target \cup {None}]]
        /\ \A u \in Target : tgt[u].into # None => tgt[u].archived
    BY DEF OpInv, TypeOK, RedirectsEnd
  <2>2. CASE ArchiveTarget(t)
    BY <2>1, <2>2 DEF ArchiveTarget
  <2>3. CASE RestoreTarget(t)
    BY ZenonT(60), <2>1, <2>3 DEF RestoreTarget
  <2> QED BY <2>2, <2>3
<1>2. TypeOK'
  BY <1>1 DEF OpInv, TypeOK
<1>3. OneOperationPerTarget' /\ Asked' /\ ReportsHold' /\ WorkHolds'
  BY <1>1 DEF OpInv, OneOperationPerTarget, Pending, Involved, Asked, ReportsHold, WorkHolds
<1>4. MutationsHold'
  <2>1. \A o \in Operation : op[o].primary \in Target /\ op[o].secondary \in Target
    BY DEF OpInv, TypeOK, OperationRow
  <2>2. \A o \in Operation : MovedByAnother(o)' <=> MovedByAnother(o)
    BY <1>1 DEF MovedByAnother
  <2> QED BY <1>1, <2>1, <2>2 DEF OpInv, MutationsHold
<1>5. RedirectsEnd'
  BY <1>1 DEF OpInv, RedirectsEnd
<1> QED BY <1>2, <1>3, <1>4, <1>5 DEF OpInv

LEMMA ChecksKeep ==
    ASSUME OpInv, NEW s \in Source, CheckStarts(s) \/ CheckRecords(s) PROVE OpInv'
<1>1. /\ UNCHANGED <<tgt, at, op, work, mutated>>
      /\ seen' \in [Source -> SUBSET Target] /\ check' \in [Source -> Target \cup {None}]
  BY DEF OpInv, TypeOK, CheckStarts, CheckRecords
<1>2. TypeOK'
  BY <1>1 DEF OpInv, TypeOK
<1>3. OneOperationPerTarget' /\ Asked' /\ ReportsHold' /\ WorkHolds'
  BY <1>1 DEF OpInv, OneOperationPerTarget, Pending, Involved, Asked, ReportsHold, WorkHolds
<1>4. MutationsHold' /\ RedirectsEnd'
  BY <1>1 DEF OpInv, MutationsHold, MovedByAnother, RedirectsEnd
<1> QED BY <1>2, <1>3, <1>4 DEF OpInv

\* What a mutation writes: o is the operation, from q to p.
Mutates(x, o, p, q) ==
    /\ x \in Processor /\ o \in Operation /\ p \in Target /\ q \in Target /\ p # q
    /\ op[o].primary = p /\ op[o].secondary = q /\ op[o].status # "unasked"
    /\ tgt[p].into = None /\ tgt[q].into = None
    /\ UNCHANGED <<check, op>>
    /\ mutated[o] \in Nat /\ mutated' = [mutated EXCEPT ![o] = @ + 1]
    /\ seen' \in [Source -> SUBSET Target]
    /\ at' = [s \in Source |-> IF s \in Moved(o) THEN p ELSE at[s]]
    /\ \/ /\ op[o].kind = "target_merge"
          /\ tgt' = [tgt EXCEPT ![q] = [archived |-> TRUE, into |-> p]]
          /\ Moved(o) = {s \in Source : at[s] = q}
       \/ /\ op[o].kind = "source_move" /\ op[o].source \in Source
          /\ tgt' = [tgt EXCEPT ![q] = [archived |-> op[o].archive, into |-> None]]
          /\ op[o].archive \in BOOLEAN
          /\ Moved(o) = {op[o].source} /\ at[op[o].source] = q
    /\ work' = [work EXCEPT ![x] =
                   [op |-> o, step |-> "mutated", attempts |-> work[x].attempts]]
    /\ work[x].attempts \in 0..MaxAttempts

LEMMA MutateEffects ==
    ASSUME OpInv, NEW x \in Processor, Mutate(x)
    PROVE  \E o \in Operation, p \in Target, q \in Target : Mutates(x, o, p, q)
<1>1. ~Idle(x)
  BY DEF Mutate
<1>2. PICK o \in Operation : o = work[x].op
  BY <1>1, WorkTyped
<1>3. /\ op[o] \in OperationRow /\ op[o].status # "unasked"
      /\ work[x].attempts \in 0..MaxAttempts
      /\ work[x] = [op |-> o, step |-> work[x].step, attempts |-> work[x].attempts]
  BY <1>1, <1>2, WorkTyped
<1>4. PICK p \in Target, q \in Target : p = op[o].primary /\ q = op[o].secondary
  BY <1>3 DEF OperationRow
<1>5. p # q /\ (op[o].kind = "source_move" => op[o].source \in Source)
  BY <1>3, <1>4 DEF OpInv, Asked
<1>6. LockTargets(o) /\ SourceInPlace(o)
  BY <1>2 DEF Mutate
<1>7. tgt[p].into = None /\ tgt[q].into = None
  BY <1>4, <1>6 DEF LockTargets, Involved
<1>8. mutated[o] \in Nat /\ mutated' = [mutated EXCEPT ![o] = @ + 1] /\ UNCHANGED <<check, op>>
  BY SMTT(40), <1>2 DEF Mutate, OpInv, TypeOK
<1>9. seen' \in [Source -> SUBSET Target]
  <2>1. \A s \in Source : Reattributed(o, s) \in SUBSET Target
    <3>1. op[o].primary \in Target /\ \A s \in Source : seen[s] \in SUBSET Target
      BY SMTT(40), <1>3 DEF OpInv, TypeOK, OperationRow
    <3> QED BY <3>1 DEF Reattributed
  <2> QED BY <1>2, <2>1 DEF Mutate
<1>10. at' = [s \in Source |-> IF s \in Moved(o) THEN p ELSE at[s]]
  BY <1>2, <1>4 DEF Mutate
<1>11. work' = [work EXCEPT ![x] =
                   [op |-> o, step |-> "mutated", attempts |-> work[x].attempts]]
  <2>1. work' = [work EXCEPT ![x] = [work[x] EXCEPT !.step = "mutated"]]
    BY DEF Mutate, Advanced
  <2>2. [work[x] EXCEPT !.step = "mutated"]
        = [op |-> o, step |-> "mutated", attempts |-> work[x].attempts]
    BY <1>3
  <2> QED BY <2>1, <2>2
<1>12. CASE op[o].kind = "target_merge"
  <2>1. tgt' = [tgt EXCEPT ![q] = [archived |-> TRUE, into |-> p]]
    BY <1>2, <1>4, <1>12 DEF Mutate
  <2>2. Moved(o) = {s \in Source : at[s] = q}
    BY <1>4, <1>12 DEF Moved
  <2> QED BY <1>3, <1>4, <1>5, <1>7, <1>8, <1>9, <1>10, <1>11, <1>12, <2>1, <2>2 DEF Mutates
<1>13. CASE op[o].kind = "source_move"
  <2>1. tgt' = [tgt EXCEPT ![q] = [archived |-> op[o].archive, into |-> None]]
    <3>1. tgt' = [tgt EXCEPT ![q] = [tgt[q] EXCEPT !.archived = op[o].archive]]
      BY <1>2, <1>4, <1>13 DEF Mutate
    <3>2. tgt[q] \in [archived : BOOLEAN, into : Target \cup {None}]
      BY DEF OpInv, TypeOK
    <3>3. op[o].archive \in BOOLEAN
      BY <1>3 DEF OperationRow
    <3>4. [tgt[q] EXCEPT !.archived = op[o].archive]
          = [archived |-> op[o].archive, into |-> None]
      BY <1>7, <3>2, <3>3
    <3> QED BY <3>1, <3>4
  <2>2. Moved(o) = {op[o].source} /\ at[op[o].source] = q
    BY <1>4, <1>6, <1>13 DEF Moved, SourceInPlace
  <2>3. op[o].archive \in BOOLEAN
    BY <1>3 DEF OperationRow
  <2> QED BY <1>3, <1>4, <1>5, <1>7, <1>8, <1>9, <1>10, <1>11, <1>13, <2>1, <2>2, <2>3 DEF Mutates
<1> QED BY SMTT(40), <1>3, <1>12, <1>13 DEF OperationRow

LEMMA MutateKeeps ==
    ASSUME OpInv, NEW x \in Processor, Mutate(x) PROVE OpInv'
<1>0. PICK o \in Operation, p \in Target, q \in Target : Mutates(x, o, p, q)
  BY MutateEffects
<1>1. /\ p # q /\ op[o].primary = p /\ op[o].secondary = q /\ op[o].status # "unasked"
      /\ tgt[p].into = None /\ tgt[q].into = None
      /\ UNCHANGED <<check, op>>
  BY <1>0 DEF Mutates
<1>2. /\ mutated' \in [Operation -> Nat] /\ mutated'[o] = mutated[o] + 1 /\ mutated[o] \in Nat
      /\ mutated'[o] > 0
      /\ \A u \in Operation : u # o => mutated'[u] = mutated[u]
      /\ \A u \in Operation : mutated[u] > 0 => mutated'[u] > 0
  <2>1. mutated \in [Operation -> Nat] /\ mutated' = [mutated EXCEPT ![o] = @ + 1]
    BY <1>0 DEF OpInv, TypeOK, Mutates
  <2> QED BY <2>1
<1>3. /\ work' \in [Processor -> Work] /\ work'[x].op = o
      /\ \A y \in Processor : y # x => work'[y] = work[y]
  <2>1. [op |-> o, step |-> "mutated", attempts |-> work[x].attempts] \in Work
    BY <1>0 DEF Mutates, Work
  <2> QED BY <1>0, <2>1 DEF OpInv, TypeOK, Mutates
<1>4. /\ at' \in [Source -> Target]
      /\ \A s \in Source : at'[s] = IF s \in Moved(o) THEN p ELSE at[s]
  BY <1>0 DEF OpInv, TypeOK, Mutates
<1>5. /\ tgt' \in [Target -> [archived : BOOLEAN, into : Target \cup {None}]]
      /\ \A t \in Target : t # q => tgt'[t] = tgt[t]
      /\ op[o].kind = "target_merge" => tgt'[q].archived /\ tgt'[q].into = p
      /\ op[o].kind = "source_move" => tgt'[q].into = None
  <2>1. tgt \in [Target -> [archived : BOOLEAN, into : Target \cup {None}]]
    BY DEF OpInv, TypeOK
  <2>2. CASE op[o].kind = "target_merge"
    <3>1. tgt' = [tgt EXCEPT ![q] = [archived |-> TRUE, into |-> p]]
      BY <1>0, <2>2 DEF Mutates
    <3> QED BY <2>1, <2>2, <3>1
  <2>3. CASE op[o].kind = "source_move"
    <3>1. /\ tgt' = [tgt EXCEPT ![q] = [archived |-> op[o].archive, into |-> None]]
          /\ op[o].archive \in BOOLEAN
      BY <1>0, <2>3 DEF Mutates
    <3> QED BY <2>1, <2>3, <3>1
  <2> QED BY <1>0, <2>2, <2>3 DEF Mutates
<1>6. /\ op[o].kind \in {"target_merge", "source_move"}
      /\ op[o].kind = "target_merge" => Moved(o) = {s \in Source : at[s] = q}
      /\ op[o].kind = "source_move" => /\ Moved(o) = {op[o].source}
                                       /\ op[o].source \in Source /\ at[op[o].source] = q
  BY <1>0 DEF Mutates
<1>7. None \notin Target
  BY ReconciliationConstants
<1>8. TypeOK'
  BY <1>0, <1>1, <1>2, <1>3, <1>4, <1>5 DEF OpInv, TypeOK, Mutates
<1>9. OneOperationPerTarget' /\ Asked'
  BY <1>1 DEF OpInv, OneOperationPerTarget, Pending, Involved, Asked
<1>10. ReportsHold'
  BY <1>1, <1>2 DEF OpInv, ReportsHold
<1>11. WorkHolds'
  <2>1. \A y \in Processor : work[y].op # None => work[y].op \in Operation
    BY DEF OpInv, TypeOK, Work
  <2>2. ASSUME NEW y \in Processor, y # x, work'[y].op # None
        PROVE  /\ op'[work'[y].op].status # "unasked"
               /\ work'[y].step \in {"mutated", "verified"} => mutated'[work'[y].op] > 0
    BY <1>1, <1>2, <1>3, <2>1, <2>2 DEF OpInv, WorkHolds
  <2> QED BY <1>1, <1>2, <1>3, <2>2 DEF WorkHolds
<1>12. \A u \in Operation : MovedByAnother(u) => MovedByAnother(u)'
  BY <1>1, <1>2 DEF MovedByAnother
<1>13. \A t \in Target : tgt[t].into # None => tgt'[t].into # None
  BY <1>1, <1>5
<1>14. MutationsHold'
  <2>1. ASSUME NEW u \in Operation PROVE mutated'[u] > 0 => op'[u].status # "unasked"
    BY <1>1, <1>2 DEF OpInv, MutationsHold
  <2>2. ASSUME NEW u \in Operation, op[u].kind = "target_merge"
        PROVE  mutated'[u] <= 1 /\ (mutated'[u] > 0 => tgt'[op[u].secondary].into # None)
    <3>1. CASE u = o
      <4>1. ~(mutated[o] > 0)
        BY <1>1, <2>2, <3>1 DEF OpInv, MutationsHold
      <4> QED BY <1>1, <1>2, <1>5, <1>7, <2>2, <3>1, <4>1
    <3>2. CASE u # o
      <4>1. op[u].secondary \in Target
        BY DEF OpInv, TypeOK, OperationRow
      <4> QED BY <1>2, <1>13, <2>2, <3>2, <4>1 DEF OpInv, MutationsHold
    <3> QED BY <3>1, <3>2
  <2>3. ASSUME NEW u \in Operation, op[u].kind = "source_move"
        PROVE  /\ mutated'[u] > 1 => MovedByAnother(u)'
               /\ mutated'[u] > 0 => \/ at'[op[u].source] = op[u].primary
                                     \/ tgt'[op[u].primary].into # None
                                     \/ MovedByAnother(u)'
    <3>1. CASE u = o
      <4>1. at'[op[o].source] = p
        BY <1>4, <1>6, <2>3, <3>1
      <4>2. mutated[o] > 0 => MovedByAnother(o)
        BY <1>1, <1>6, <2>3, <3>1 DEF OpInv, MutationsHold
      <4> QED BY <1>1, <1>2, <1>12, <3>1, <4>1, <4>2
    <3>2. CASE u # o
      <4>1. mutated'[u] = mutated[u] /\ op[u].primary \in Target
        BY <1>2, <3>2 DEF OpInv, TypeOK, OperationRow
      <4>2. /\ mutated[u] > 1 => MovedByAnother(u)
            /\ mutated[u] > 0 => \/ at[op[u].source] = op[u].primary
                                 \/ tgt[op[u].primary].into # None
                                 \/ MovedByAnother(u)
        BY <2>3 DEF OpInv, MutationsHold
      <4>3. ASSUME mutated[u] > 0, at[op[u].source] = op[u].primary, op[u].source \in Moved(o)
            PROVE  tgt'[op[u].primary].into # None \/ MovedByAnother(u)'
        <5>1. CASE op[o].kind = "target_merge"
          BY <1>5, <1>6, <1>7, <4>3, <5>1
        <5>2. CASE op[o].kind = "source_move"
          BY <1>1, <1>2, <1>6, <3>2, <4>3, <5>2 DEF MovedByAnother
        <5> QED BY <1>6, <5>1, <5>2
      <4>4. mutated[u] > 0 => op[u].source \in Source
        BY <2>3 DEF OpInv, MutationsHold, Asked
      <4>5. mutated[u] > 0 /\ at[op[u].source] = op[u].primary /\ op[u].source \notin Moved(o)
            => at'[op[u].source] = op[u].primary
        BY <1>4, <4>4
      <4> QED BY <1>12, <1>13, <4>1, <4>2, <4>3, <4>5
    <3> QED BY <3>1, <3>2
  <2> QED BY <1>1, <2>1, <2>2, <2>3 DEF MutationsHold
<1>15. \A t \in Target :
          tgt'[t].into # None => tgt'[t].archived /\ \A s \in Source : at'[s] # t
  <2> SUFFICES ASSUME NEW t \in Target, tgt'[t].into # None
               PROVE  tgt'[t].archived /\ \A s \in Source : at'[s] # t
    OBVIOUS
  <2>1. CASE t = q
    BY <1>1, <1>4, <1>5, <1>6, <2>1
  <2>2. CASE t # q
    <3>1. tgt'[t] = tgt[t] /\ t # p
      BY <1>1, <1>5, <2>2
    <3>2. tgt[t].archived /\ \A s \in Source : at[s] # t
      BY <3>1 DEF OpInv, RedirectsEnd
    <3> QED BY <1>4, <3>1, <3>2
  <2> QED BY <2>1, <2>2
<1>16. ASSUME NEW S \in SUBSET Target, S # {} PROVE \E t \in S : tgt'[t].into \notin S
  <2>1. CASE q \notin S
    BY <1>5, <1>16, <2>1 DEF OpInv, RedirectsEnd
  <2>2. CASE q \in S /\ p \notin S
    BY <1>5, <1>6, <1>7, <2>2
  <2>3. CASE q \in S /\ p \in S
    BY <1>1, <1>5, <1>7, <2>3
  <2> QED BY <2>1, <2>2, <2>3
<1>17. RedirectsEnd'
  BY <1>15, <1>16 DEF RedirectsEnd
<1> QED BY <1>8, <1>9, <1>10, <1>11, <1>14, <1>17 DEF OpInv

LEMMA OperationsNextKeeps == OpInv /\ [Next]_vars => OpInv'
<1> SUFFICES ASSUME OpInv, [Next]_vars PROVE OpInv'
  OBVIOUS
<1>1. CASE Administer
  BY <1>1, EnqueueKeeps, TargetsKeep DEF Administer
<1>2. CASE \E s \in Source : CheckStarts(s) \/ CheckRecords(s)
  BY <1>2, ChecksKeep
<1>3. CASE \E x \in Processor : Process(x) \/ Error(x) \/ Crash(x)
  BY <1>3, ProcessorKeeps, MutateKeeps DEF Process
<1>4. CASE \E o \in Operation : LeaseExpires(o) \/ BackoffEnds(o)
  BY <1>4, LapsesKeep
<1>5. CASE UNCHANGED vars
  BY <1>5 DEF vars, OpInv, TypeOK, OneOperationPerTarget, Pending, Involved, Asked,
     MutationsHold, MovedByAnother, ReportsHold, WorkHolds, RedirectsEnd
<1> QED BY <1>1, <1>2, <1>3, <1>4, <1>5 DEF Next

LEMMA OperationsInvariance == Spec => []OpInv
BY OperationsInitially, OperationsNextKeeps, PTL DEF Spec

\* Pending operations share no target, no retry repeats what was committed, and
\* redirections end, however many operations, processors and failures meet
\* (Enqueue, lockTargets, mergeTargets, moveSource).
THEOREM OperationsAreDoneOnce == Spec => []OperationsInv
<1>1. OpInv => OperationsInv
  <2> SUFFICES ASSUME OpInv PROVE MutatesOnce
    BY DEF OpInv, OperationsInv
  <2>1. \A o \in Operation : op[o].kind \in {"target_merge", "source_move"} /\ mutated[o] \in Nat
    BY DEF OpInv, TypeOK, OperationRow
  <2> QED BY <2>1 DEF OpInv, MutationsHold, MovedByAnother, MutatesOnce
<1> QED BY <1>1, OperationsInvariance, PTL

\* A step writes the row of an operation only while it is pending or not asked.
LEMMA StepKeepsReport ==
    ASSUME OpInv, OpInv', [Next]_vars, NEW o \in Operation PROVE KeepsReport(o)
<1>1. op'[o].status = "succeeded" => mutated'[o] > 0
  BY DEF OpInv, ReportsHold
<1> SUFFICES ASSUME op[o].status \in {"succeeded", "failed"} PROVE op'[o] = op[o]
  BY <1>1 DEF KeepsReport
<1>2. op \in [Operation -> OperationRow] /\ op[o].owner = None /\ ~op[o].live
  BY DEF OpInv, TypeOK, ReportsHold
<1>3. CASE Administer
  BY ZenonT(60), <1>2, <1>3 DEF Administer, Enqueue, ArchiveTarget, RestoreTarget
<1>4. CASE \E s \in Source : CheckStarts(s) \/ CheckRecords(s)
  BY <1>4 DEF CheckStarts, CheckRecords
<1>5. ASSUME NEW x \in Processor, NEW permanent \in BOOLEAN, Failed(x, permanent)
      PROVE  op'[o] = op[o]
  <2>1. op[o].owner # x
    BY <1>2, ReconciliationConstants
  <2>2. CASE op[work[x].op].owner # x
    BY <1>5, <2>2 DEF Failed
  <2>3. CASE op[work[x].op].owner = x
    <3>1. work[x].op # o
      BY <2>1, <2>3
    <3> QED BY <1>2, <1>5, <2>3, <3>1 DEF Failed
  <2> QED BY <2>2, <2>3
<1>6. ASSUME NEW x \in Processor, Process(x) \/ Error(x) \/ Crash(x) PROVE op'[o] = op[o]
  <2>1. ASSUME NEW u \in Operation, Claim(x, u) PROVE op'[o] = op[o]
    BY <1>2, <2>1 DEF Claim, Pending
  <2>2. ASSUME Owns(x), Staged(x) \/ Finish(x) PROVE op'[o] = op[o]
    <3>1. work[x].op # o
      BY <2>2 DEF Owns
    <3> QED BY <1>2, <2>2, <3>1 DEF Staged, Finish
  <2>3. CASE Prepare(x) \/ Finish(x)
    BY <2>2, <2>3 DEF Prepare, Finish
  <2>4. CASE Verify(x)
    BY <1>5, <2>2, <2>4 DEF Verify
  <2>5. CASE Mutate(x) \/ Crash(x)
    BY <2>5 DEF Mutate, Crash
  <2>6. CASE MutateConflict(x) \/ Error(x)
    BY <1>5, <2>6 DEF MutateConflict, Error
  <2> QED BY <1>6, <2>1, <2>3, <2>4, <2>5, <2>6 DEF Process
<1>7. CASE \E u \in Operation : LeaseExpires(u) \/ BackoffEnds(u)
  <2>1. PICK u \in Operation : LeaseExpires(u) \/ BackoffEnds(u)
    BY <1>7
  <2>2. u # o
    BY <1>2, <2>1 DEF LeaseExpires, BackoffEnds
  <2> QED BY <1>2, <2>1, <2>2 DEF LeaseExpires, BackoffEnds
<1>8. CASE UNCHANGED vars
  BY <1>8 DEF vars
<1> QED BY <1>3, <1>4, <1>6, <1>7, <1>8 DEF Next

\* What an operation reports was done and is never revised, though a processor
\* that lost its lease may still be at work (fail, setStage, finish).
THEOREM ReportsAreNotRevised == Spec => ReportsAreFinal
<1>1. OpInv /\ OpInv' /\ [Next]_vars => [\A o \in Operation : KeepsReport(o)]_vars
  BY StepKeepsReport
<1> QED BY <1>1, OperationsInvariance, PTL DEF Spec, ReportsAreFinal

=============================================================================
