---------------------------- MODULE DevicePairing ----------------------------
(***************************************************************************)
(* The pairing of a mobile device (internal/devices): an invitation shown  *)
(* as a QR code, claimed by whoever scans it, confirmed by the user who    *)
(* sees the claim, and exchanged once for the credential of the device.    *)
(*                                                                         *)
(* Several phones may have scanned the code and several windows of the     *)
(* user may follow the pairing.  Every request is one statement or one     *)
(* transaction that locks the row.  What becomes of a device afterwards is *)
(* in InAppDelivery.                                                       *)
(***************************************************************************)
EXTENDS Integers, FiniteSets

CONSTANTS
    Phone,
    Window,         \* the windows in which the user follows pairings
    MaxPairings     \* bound on the invitations

ASSUME PairingConstants == MaxPairings \in Nat

VARIABLES
    pairing,    \* the invitations in their order: their rows
    screen,     \* Window -> the invitation and the claim it shows
    device,     \* invitation -> the device its confirmation created
    holders,    \* invitation -> the phones that were given its credential
    agreed      \* history: invitation -> the claim the user confirmed

pairVars == <<pairing, screen, device, holders, agreed>>

nobodyYet == "nobody"

Invitation == 1..MaxPairings

Invitations == DOMAIN pairing

Blank == [invitation |-> 0, claim |-> nobodyYet]

PairInit ==
    /\ pairing = [i \in {} |-> nobodyYet]
    /\ screen = [w \in Window |-> Blank]
    /\ device = [i \in Invitation |-> nobodyYet]
    /\ holders = [i \in Invitation |-> {}]
    /\ agreed = [i \in Invitation |-> nobodyYet]

\* For users who are active, from one of their windows.
CreatePairing(w) ==
    LET i == Cardinality(Invitations) + 1 IN
    /\ i <= MaxPairings
    /\ pairing' = [j \in Invitations \cup {i} |->
                        IF j = i THEN [claim |-> nobodyYet, confirmed |-> FALSE, cancelled |-> FALSE,
                                       consumed |-> FALSE, expired |-> FALSE]
                        ELSE pairing[j]]
    /\ screen' = [screen EXCEPT ![w] = [invitation |-> i, claim |-> nobodyYet]]
    /\ UNCHANGED <<device, holders, agreed>>

\* Mutant: a second scan takes the place of the first.
ClaimableAgain(i) ==
    ~pairing[i].confirmed /\ ~pairing[i].cancelled /\ ~pairing[i].expired

Claimable(i) ==
    /\ pairing[i].claim = nobodyYet
    /\ ~pairing[i].confirmed /\ ~pairing[i].cancelled /\ ~pairing[i].expired

ClaimPairing(p, i) ==
    /\ Claimable(i)
    /\ pairing' = [pairing EXCEPT ![i].claim = p]
    /\ UNCHANGED <<screen, device, holders, agreed>>

\* A window reads the pairing again and again.
GetPairing(w) ==
    /\ screen[w].invitation # 0
    /\ screen' = [screen EXCEPT ![w].claim = pairing[screen[w].invitation].claim]
    /\ UNCHANGED <<pairing, device, holders, agreed>>

\* The user confirms the claim the window shows; the row is read again.
ConfirmPairing(w) ==
    LET i == screen[w].invitation IN
    /\ screen[w].claim # nobodyYet
    /\ ~pairing[i].cancelled /\ ~pairing[i].confirmed /\ ~pairing[i].expired
    /\ pairing' = [pairing EXCEPT ![i].confirmed = TRUE]
    /\ device' = [device EXCEPT ![i] = pairing[i].claim]
    /\ agreed' = [agreed EXCEPT ![i] = screen[w].claim]
    /\ UNCHANGED <<screen, holders>>

Retrievable(i) == pairing[i].confirmed /\ ~pairing[i].cancelled /\ ~pairing[i].consumed

\* Any phone that scanned the code may ask; the answer may be lost.
PairingResult(p, i) ==
    /\ Retrievable(i)
    /\ pairing' = [pairing EXCEPT ![i].consumed = TRUE]
    /\ holders' \in {holders, [holders EXCEPT ![i] = @ \cup {p}]}
    /\ UNCHANGED <<screen, device, agreed>>

CancelPairing(i) ==
    /\ ~pairing[i].confirmed /\ ~pairing[i].cancelled
    /\ pairing' = [pairing EXCEPT ![i].cancelled = TRUE]
    /\ UNCHANGED <<screen, device, holders, agreed>>

PairingExpires(i) ==
    /\ ~pairing[i].expired
    /\ pairing' = [pairing EXCEPT ![i].expired = TRUE]
    /\ UNCHANGED <<screen, device, holders, agreed>>

PairNext ==
    \/ \E w \in Window : CreatePairing(w) \/ GetPairing(w) \/ ConfirmPairing(w)
    \/ \E i \in Invitations :
          \/ CancelPairing(i) \/ PairingExpires(i)
          \/ \E p \in Phone : ClaimPairing(p, i) \/ PairingResult(p, i)

PairSpec == PairInit /\ [][PairNext]_pairVars

----------------------------------------------------------------------------
(* Correctness *)

\* The device that is created is the one the user saw when confirming, however
\* many phones scan the code between the reading and the confirmation; and its
\* credential is given once, and to nobody once the pairing was cancelled.
ConfirmedIsSeen ==
    \A i \in Invitation :
        /\ device[i] = agreed[i]
        /\ Cardinality(holders[i]) <= 1
        /\ holders[i] # {} => device[i] # nobodyYet /\ ~pairing[i].cancelled

=============================================================================
