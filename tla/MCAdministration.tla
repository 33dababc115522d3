-------------------------- MODULE MCAdministration --------------------------
(***************************************************************************)
(* What administrators and users ask of the server, and the algorithms     *)
(* behind the versions they see.  The parts share no row: each behaviour is *)
(* one of one of them, which Init chooses, and the others rest.            *)
(***************************************************************************)
EXTENDS Reconciliation, ManagedCredentials, Accounts, DevicePairing, VersionOrder, ReleaseCatalogue,
        TLC

VARIABLE part   \* the part that is at work

accessVars == <<credVars, acctVars, pairVars>>

allVars == <<vars, accessVars, compared, catVars, part>>

\* Nothing tells two operations or two processors apart.
Alike == Permutations(Operation) \cup Permutations(Processor)

OneSource == [s \in {"s"} |-> "a"]

\* A commit may have digits only.
LongHexadecimals == [numeric : BOOLEAN, value : {2}]

\* The page sizes of the catalogue, scaled down.
FewSizes == <<4, 2, 1>>

\* A part that rests does so in one of its initial states.
AdministrationInit ==
    /\ Init /\ CredInit /\ AcctInit /\ PairInit
    /\ part \in {"operations", "credentials", "accounts", "pairing", "order", "catalogue"}
    /\ part # "credentials" => product = "zabbix"
    /\ IF part = "order" THEN OrderInit
       ELSE compared = CHOOSE pair \in Raw \X Raw : Compare(pair[1], pair[2]) > 0
    /\ IF part = "catalogue" THEN CatInit
       ELSE /\ releases = <<>> /\ heavy = 0
            /\ between = [installed |-> 0, target |-> MaxRelease]
            /\ paging = FirstPage("releases")
            /\ read = <<>> /\ collected = {} /\ partial = FALSE /\ callFaults = 0

Operates == part = "operations" /\ Next /\ UNCHANGED <<accessVars, compared, catVars, part>>

Accesses ==
    /\ \/ part = "credentials" /\ CredNext /\ UNCHANGED <<acctVars, pairVars>>
       \/ part = "accounts" /\ AcctNext /\ UNCHANGED <<credVars, pairVars>>
       \/ part = "pairing" /\ PairNext /\ UNCHANGED <<credVars, acctVars>>
    /\ UNCHANGED <<vars, compared, catVars, part>>

Compares == part = "order" /\ OrderNext /\ UNCHANGED <<vars, accessVars, catVars, part>>

Collects == part = "catalogue" /\ CatNext /\ UNCHANGED <<vars, accessVars, compared, part>>

AdministrationNext == Operates \/ Accesses \/ Compares \/ Collects

AdministrationSpec == AdministrationInit /\ [][AdministrationNext]_allVars
=============================================================================
