---------------------------- MODULE VersionOrder ----------------------------
(***************************************************************************)
(* The order of software versions (internal/versions), on which rest which *)
(* target is an update and which notes lie between two versions.           *)
(*                                                                         *)
(* A version that the pattern accepts is its numbers and the identifiers   *)
(* of its prerelease, each a number or a text; text is compared by its     *)
(* rank, and either may have the form of a commit.  Identifiers have no    *)
(* leading zeros, as SemVer asks.                                          *)
(***************************************************************************)
EXTENDS Integers, Sequences, SequencesExt, FiniteSetsExt

CONSTANTS
    MaxComponent,   \* bound on the numbers of a version
    MaxNumbers,     \* how many of them it has at most, 4 in the pattern
    MaxRank,        \* bound on the value of an identifier
    MaxIdentifiers, \* bound on the length of a prerelease
    CommitLike      \* the identifiers that have the form of a commit

ASSUME OrderConstants ==
    MaxComponent \in Nat /\ MaxNumbers \in Nat /\ MaxRank \in Nat /\ MaxIdentifiers \in Nat

VARIABLE compared   \* the two versions that are compared

Identifier == [numeric : BOOLEAN, value : 1..MaxRank]

Raw ==
    [numbers : UNION {[1..n -> 0..MaxComponent] : n \in 1..MaxNumbers},
     prerelease : UNION {[1..n -> Identifier] : n \in 0..MaxIdentifiers}]

OrderInit == compared \in Raw \X Raw

\* The same two the other way round.
OrderNext == compared' = <<compared[2], compared[1]>>

OrderSpec == OrderInit /\ [][OrderNext]_compared

----------------------------------------------------------------------------

\* A commit alone is the build of a release, and precedes nothing.
Prerelease(v) ==
    IF Len(v.prerelease) = 1 /\ v.prerelease[1] \in CommitLike THEN <<>> ELSE v.prerelease

IsPrerelease(v) == Prerelease(v) # <<>>

Sign(a, b) == IF a < b THEN -1 ELSE IF a > b THEN 1 ELSE 0

\* A number that is not there counts as zero.
Component(numbers, i) == IF i <= Len(numbers) THEN numbers[i] ELSE 0

CompareNumbers(a, b) ==
    LET differs == {i \in 1..Max({Len(a), Len(b)}) : Component(a, i) # Component(b, i)}
    IN  IF differs = {} THEN 0
        ELSE Sign(Component(a, Min(differs)), Component(b, Min(differs)))

\* Mutant: a text that looks like no number precedes numbers.
CompareIdentifiersByText(a, b) ==
    IF a.numeric = b.numeric THEN Sign(a.value, b.value)
    ELSE IF a.value = b.value THEN -1 ELSE Sign(a.value, b.value)

CompareIdentifiers(a, b) ==
    CASE a.numeric = b.numeric -> Sign(a.value, b.value)
      [] a.numeric /\ ~b.numeric -> -1
      [] ~a.numeric /\ b.numeric -> 1

\* The first identifiers that differ, or the longer of the two.
ComparePrerelease(a, b) ==
    LET differs == {i \in 1..Min({Len(a), Len(b)}) : a[i] # b[i]}
    IN  CASE a = b -> 0
          [] a # b /\ a = <<>> -> 1
          [] a # b /\ b = <<>> -> -1
          [] OTHER -> IF differs = {} THEN Sign(Len(a), Len(b))
                      ELSE CompareIdentifiers(a[Min(differs)], b[Min(differs)])

Compare(a, b) ==
    LET order == CompareNumbers(a.numbers, b.numbers)
    IN  IF order # 0 THEN order ELSE ComparePrerelease(Prerelease(a), Prerelease(b))

Assess(installed, target) ==
    CASE Compare(installed, target) = 0 -> "current"
      [] Compare(installed, target) > 0 -> "target_older"
      [] Compare(installed, target) < 0 ->
             IF IsPrerelease(target) /\ ~IsPrerelease(installed) THEN "prerelease" ELSE "update"

----------------------------------------------------------------------------
(* Correctness *)

\* The order is total: which of two versions is newer does not depend on the
\* side from which Compare looks, nor on a third version between them; and a
\* target is proposed in one direction only.
OrderIsTotal ==
    LET a == compared[1]
        b == compared[2]
    IN  /\ Compare(a, b) = -Compare(b, a)
        /\ Compare(a, b) <= 0 =>
              \A c \in Raw : Compare(b, c) <= 0 => Compare(a, c) <= 0
        /\ Assess(a, b) \in {"update", "prerelease"} <=> Assess(b, a) = "target_older"

=============================================================================
