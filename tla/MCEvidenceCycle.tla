-------------------------- MODULE MCEvidenceCycle --------------------------
(***************************************************************************)
(* Instances of EvidenceCycle for TLC: which origins exist and what they   *)
(* may report.  The bounds are in the .cfg files.                          *)
(***************************************************************************)
EXTENDS EvidenceCycle

Sig(j, t, n, s) ==
    [ident |-> j, target |-> t, nature |-> n, severity |-> s, evaluation |-> 0]

MCKeyOf == [n \in Nature |-> IF n = "cpu" THEN "cpu" ELSE "availability"]

\* A webhook without fingerprint has a nature that does not propagate.
MCEligible == [n \in Nature |-> n # "hook"]

\* Two Zabbix problems, of one nature on two targets.
ZabbixIdentity == {"z1", "z2"}
ZabbixMode == [o \in {"zabbix"} |-> "complete"]
ZabbixOwnerOf == [j \in ZabbixIdentity |-> "zabbix"]
ZabbixScopeOf == [j \in ZabbixIdentity |-> "binding"]
ZabbixInterval == [o \in {"zabbix"} |-> 0]
SpreadSignal == {Sig("z1", "a", "cpu", 1), Sig("z1", "a", "cpu", 3),
                 Sig("z2", "b", "cpu", 2)}

\* One identity of each other kind of origin on a shared nature key, and a
\* native check that an administrator may move to another target.
MixedIdentity == {"kuma1", "hook1", "check1"}
MixedOwner == {"kuma", "hook", "check"}
MixedMode == [kuma |-> "scoped", hook |-> "webhook", check |-> "native"]
MixedOwnerOf == [kuma1 |-> "kuma", hook1 |-> "hook", check1 |-> "check"]
MixedScopeOf == [j \in MixedIdentity |-> j]
MixedInterval == [o \in MixedOwner |-> 1]
MixedSignal == {Sig("kuma1", "a", "avail", 1), Sig("hook1", "a", "hook", 2),
                Sig("check1", "a", "avail", 3), Sig("check1", "b", "avail", 3)}
============================================================================
