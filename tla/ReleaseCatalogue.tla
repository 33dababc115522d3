-------------------------- MODULE ReleaseCatalogue --------------------------
(***************************************************************************)
(* The collection of the notes between two versions from a repository      *)
(* (internal/softwareupdates, collector.go): its releases and its tags are *)
(* read page by page, in smaller pages when an answer is too large, until  *)
(* a page holds only what is older than the installed version.             *)
(*                                                                         *)
(* Versions are numbers, in the order that VersionOrder shows to be one.   *)
(* Releases come in any order, tags with the newest first, and every       *)
(* release is tagged.  The notes of the heavy release only fit into an     *)
(* answer of their own.                                                    *)
(***************************************************************************)
EXTENDS Integers, Sequences, SequencesExt, FiniteSetsExt

CONSTANTS
    MaxRelease,     \* the newest tag
    Sizes,          \* the sizes of a page, 100, 50, 25, 5 and 1 in the code
    MaxPages,       \* the pages asked for of each resource, 20 in the code
    MaxCallFaults   \* bound on the calls that fail

ASSUME CatalogueConstants ==
    MaxRelease \in Nat /\ MaxPages \in Nat \ {0} /\ MaxCallFaults \in Nat

\* Every size divides the one before, and keeps the offset a whole number of pages.
ASSUME SizesDivide ==
    /\ Sizes \in Seq(Nat \ {0}) /\ Sizes # <<>>
    /\ \A i \in 2..Len(Sizes) : \E k \in 1..Sizes[i - 1] : Sizes[i - 1] = k * Sizes[i]

VARIABLES
    releases,   \* the releases, in the order of their pages
    heavy,      \* the one whose notes are long, 0 for none
    between,    \* the installed version and the target
    paging,     \* the resource, the index of the page size, the offset, the attempt
    read,       \* what the pages of the resource gave
    collected,  \* the notes: version and whether it has a body
    partial,    \* whether the collection is known to be incomplete
    callFaults

catVars == <<releases, heavy, between, paging, read, collected, partial, callFaults>>

Tags == [i \in 1..MaxRelease |-> MaxRelease + 1 - i]

FirstPage(resource) == [resource |-> resource, size |-> 1, offset |-> 0, attempt |-> 1]

CatInit ==
    /\ releases \in {s \in UNION {[1..n -> 1..MaxRelease] : n \in 0..MaxRelease} : IsInjective(s)}
    /\ heavy \in 0..MaxRelease
    /\ between \in {[installed |-> v, target |-> MaxRelease] : v \in 0..(MaxRelease - 1)}
    /\ paging = FirstPage("releases")
    /\ read = <<>> /\ collected = {} /\ partial = FALSE /\ callFaults = 0

----------------------------------------------------------------------------

Listing == IF paging.resource = "releases" THEN releases ELSE Tags

PageSize == Sizes[paging.size]

\* Mutant: the pages are numbered by the attempts, those that came too large included.
PageOfAttempt ==
    SubSeq(Listing, (paging.attempt - 1) * PageSize + 1, Min({paging.attempt * PageSize, Len(Listing)}))

\* The page number is the offset by the size; a smaller size keeps the offset.
Page ==
    LET number == paging.offset \div PageSize
    IN  SubSeq(Listing, number * PageSize + 1, Min({(number + 1) * PageSize, Len(Listing)}))

TooLarge == paging.resource = "releases" /\ Len(Page) > 1 /\ heavy \in ToSet(Page)

LastAttempt == paging.attempt = MaxPages

\* An unexpected order says nothing of the pages that follow.
OlderPage ==
    /\ Page # <<>>
    /\ \A i \in DOMAIN Page : Page[i] < between.installed
    /\ \A i \in 2..Len(Page) : Page[i - 1] >= Page[i]

NextResource ==
    /\ paging' = FirstPage(IF paging.resource = "releases" THEN "tags" ELSE "done")
    /\ read' = <<>>

Reading == paging.resource \in {"releases", "tags"}

Shrinks ==
    /\ Reading /\ TooLarge /\ paging.size < Len(Sizes) /\ ~LastAttempt
    /\ paging' = [paging EXCEPT !.size = @ + 1, !.attempt = @ + 1]
    /\ UNCHANGED <<releases, heavy, between, read, collected, partial, callFaults>>

BreaksOff == TRUE

\* Nothing read yet: the collection fails and is tried again later.
CallBreaks ==
    /\ Reading
    /\ IF TooLarge /\ (LastAttempt \/ paging.size = Len(Sizes)) THEN UNCHANGED callFaults
       ELSE callFaults < MaxCallFaults /\ callFaults' = callFaults + 1
    /\ IF collected = {}
       THEN /\ paging' = FirstPage("failed") /\ read' = <<>>
            /\ UNCHANGED partial
       ELSE NextResource /\ partial' = BreaksOff
    /\ UNCHANGED <<releases, heavy, between, collected>>

CutOff == Len(Page) = PageSize /\ ~OlderPage /\ LastAttempt

ReadPage ==
    /\ Reading /\ ~TooLarge
    /\ collected' = collected \cup {[version |-> v, body |-> paging.resource = "releases"] : v \in ToSet(Page)}
    /\ partial' = (partial \/ CutOff)
    /\ IF Len(Page) < PageSize \/ OlderPage \/ LastAttempt THEN NextResource
       ELSE /\ paging' = [paging EXCEPT !.offset = @ + PageSize, !.attempt = @ + 1]
            /\ read' = read \o Page
    /\ UNCHANGED <<releases, heavy, between, callFaults>>

----------------------------------------------------------------------------

CatNext == Shrinks \/ CallBreaks \/ ReadPage

CatSpec == CatInit /\ [][CatNext]_catVars

InRange(v) == between.installed < v /\ v <= between.target

\* Collect keeps one note of each version in the range, with a body if any has
\* one, and adds the target when it was not seen.
Notes == {n.version : n \in {m \in collected : InRange(m.version)}} \cup {between.target}

Missing(v) == ~\E n \in collected : n.version = v /\ n.body

Incomplete == partial \/ ~\E n \in collected : n.version = between.target

----------------------------------------------------------------------------
(* Correctness *)

\* The pages of a resource follow each other without a gap and without a release
\* that comes twice, even where their size changed on the way.
PagesAreContiguous == Reading => read = SubSeq(Listing, 1, Min({paging.offset, Len(Listing)}))

\* A version between the two is never lost in silence: it is among the notes,
\* perhaps as a missing one, or the collection says that it is incomplete.
MissingIsSaid ==
    paging.resource = "done" => \A v \in ToSet(Tags) : InRange(v) => v \in Notes \/ Incomplete

\* Where releases come with the newest first, a collection that is not said to
\* be incomplete has the notes of every release between the two.
NotesAreComplete ==
    (/\ paging.resource = "done" /\ ~Incomplete
     /\ \A i \in 2..Len(releases) : releases[i - 1] > releases[i])
    => \A v \in ToSet(releases) : InRange(v) => ~Missing(v)

\* What a collection says of itself: its pages fit, and it is as complete as it claims.
CollectionIsHonest == PagesAreContiguous /\ MissingIsSaid /\ NotesAreComplete

=============================================================================
