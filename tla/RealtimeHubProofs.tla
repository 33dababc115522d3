--------------------------- MODULE RealtimeHubProofs ---------------------------
(***************************************************************************)
(* Proofs about the realtime hub, for any number of clients, versions and  *)
(* cuts, and any size of its batches and buffers: while its session        *)
(* listens no announcement is lost, and every step of it and of the        *)
(* connections is a step of the feed the API promises.                     *)
(***************************************************************************)
EXTENDS RealtimeHub, FiniteSetTheorems, TLAPS

----------------------------------------------------------------------------
(* Counting the log: what ListAfter, LatestVersion and OldestVersion return *)

Rank(S, u) == Cardinality({w \in S : w <= u})

LEMMA RankGrows ==
    ASSUME NEW S \in SUBSET Nat, IsFiniteSet(S)
    PROVE  /\ \A u \in S : Rank(S, u) \in 1..Cardinality(S)
           /\ \A u, w \in S : u < w => Rank(S, u) < Rank(S, w)
<1>1. ASSUME NEW u \in S PROVE Rank(S, u) \in 1..Cardinality(S)
  <2> DEFINE T == {w \in S : w <= u}
  <2>1. T \in SUBSET S /\ u \in T
    OBVIOUS
  <2> HIDE DEF T
  <2>2. IsFiniteSet(T) /\ Cardinality(T) <= Cardinality(S)
    BY <2>1, FS_Subset
  <2>3. Cardinality(T) \in Nat /\ Cardinality(S) \in Nat
    BY <2>2, FS_CardinalityType
  <2>4. Cardinality(T) # 0
    BY <2>1, <2>2, FS_EmptySet
  <2>5. Rank(S, u) = Cardinality(T)
    BY DEF Rank, T
  <2> QED BY <2>2, <2>3, <2>4, <2>5
<1>2. ASSUME NEW u \in S, NEW w \in S, u < w PROVE Rank(S, u) < Rank(S, w)
  <2> DEFINE T == {x \in S : x <= u}
             U == {x \in S : x <= w}
  <2>1. T \in SUBSET U /\ U \in SUBSET S /\ w \in U /\ w \notin T
    <3>1. \A x \in S : x \in Nat /\ (x <= u => x <= w)
      BY <1>2
    <3>2. T \subseteq U
      BY <3>1
    <3>3. w \in U /\ w \notin T
      BY <1>2, <3>1
    <3> QED BY <3>2, <3>3
  <2> HIDE DEF T, U
  <2>2. IsFiniteSet(U)
    BY <2>1, FS_Subset
  <2>3. IsFiniteSet(T) /\ Cardinality(T) <= Cardinality(U) /\ (Cardinality(U) = Cardinality(T) => U = T)
    BY <2>1, <2>2, FS_Subset, Zenon
  <2>4. Cardinality(T) \in Nat /\ Cardinality(U) \in Nat
    BY <2>2, <2>3, FS_CardinalityType
  <2>5. Cardinality(T) # Cardinality(U)
    BY <2>1, <2>3
  <2>6. Rank(S, u) = Cardinality(T) /\ Rank(S, w) = Cardinality(U)
    BY DEF Rank, T, U
  <2> QED BY <2>3, <2>4, <2>5, <2>6
<1> QED BY <1>1, <1>2

\* Each rank is that of one element.
LEMMA RankReaches ==
    ASSUME NEW S \in SUBSET Nat, IsFiniteSet(S), NEW k \in 1..Cardinality(S)
    PROVE  /\ \E u \in S : Rank(S, u) = k
           /\ \A u, w \in S : Rank(S, u) = Rank(S, w) => u = w
<1> DEFINE f == [u \in S |-> Rank(S, u)]
           N == Cardinality(S)
<1>1. \A u, w \in S : Rank(S, u) = Rank(S, w) => u = w
  <2> SUFFICES ASSUME NEW u \in S, NEW w \in S, Rank(S, u) = Rank(S, w), u # w PROVE FALSE
    OBVIOUS
  <2>1. u < w \/ w < u
    OBVIOUS
  <2>2. Rank(S, u) \in 1..Cardinality(S) /\ Rank(S, w) \in 1..Cardinality(S)
    BY RankGrows
  <2>3. Cardinality(S) \in Nat
    BY FS_CardinalityType
  <2> QED BY <2>1, <2>2, <2>3, RankGrows
<1>2. f \in Injection(S, 1..N)
  <2>1. f \in [S -> 1..N]
    BY RankGrows
  <2> QED BY <1>1, <2>1 DEF Injection, IsInjective
<1>3. N \in Nat
  BY FS_CardinalityType
<1>4. IsFiniteSet(1..N) /\ Cardinality(1..N) = N
  BY <1>3, FS_Interval
<1>5. f \in Surjection(S, 1..N)
  <2> HIDE DEF f
  <2> QED BY <1>2, <1>4, FS_Injection, Zenon DEF N
<1>6. \E u \in S : f[u] = k
  BY <1>5 DEF Surjection
<1> QED BY <1>1, <1>6

LEMMA Extremes ==
    ASSUME NEW S \in SUBSET Nat, IsFiniteSet(S), S # {}
    PROVE  /\ Largest(S) \in S /\ \A u \in S : u <= Largest(S)
           /\ Smallest(S) \in S /\ \A u \in S : Smallest(S) <= u
<1> DEFINE N == Cardinality(S)
<1>1. N \in Nat /\ N # 0
  BY FS_CardinalityType, FS_EmptySet
<1>2. PICK a \in S : Rank(S, a) = N
  BY <1>1, RankReaches
<1>3. PICK b \in S : Rank(S, b) = 1
  BY <1>1, RankReaches
<1> HIDE DEF N
<1>4. \A u \in S : u <= a /\ b <= u
  <2> SUFFICES ASSUME NEW u \in S PROVE ~(a < u) /\ ~(u < b)
    OBVIOUS
  <2>1. Rank(S, u) \in 1..N
    BY RankGrows DEF N
  <2>2. a < u => Rank(S, a) < Rank(S, u)
    BY RankGrows
  <2>3. u < b => Rank(S, u) < Rank(S, b)
    BY RankGrows
  <2> QED BY <1>1, <1>2, <1>3, <2>1, <2>2, <2>3
<1>5. (\E v \in S : \A u \in S : u <= v) /\ (\E v \in S : \A u \in S : v <= u)
  BY <1>4
<1> QED BY <1>5 DEF Largest, Smallest

Ascends(s) == \A i, j \in 1..Len(s) : i < j => s[i] < s[j]

Holds(s, u) == \E i \in 1..Len(s) : s[i] = u

Below(s, u) == \A i \in 1..Len(s) : s[i] < u

\* A reading is in order, from the log, after what it asked for; what it leaves
\* out comes after all it holds, and only when it is full.
LEMMA ListAfterIs ==
    ASSUME log \in SUBSET Nat, IsFiniteSet(log), NEW v \in Int, NEW n \in Nat \ {0}
    PROVE  /\ ListAfter(v, n) \in Seq(Nat) /\ Len(ListAfter(v, n)) <= n
           /\ Ascends(ListAfter(v, n))
           /\ \A i \in 1..Len(ListAfter(v, n)) :
                 ListAfter(v, n)[i] \in log /\ ListAfter(v, n)[i] > v
           /\ \A u \in log : u > v => \/ Holds(ListAfter(v, n), u)
                                      \/ Len(ListAfter(v, n)) = n /\ Below(ListAfter(v, n), u)
<1> DEFINE A == {u \in log : u > v}
           m == IF Cardinality(A) < n THEN Cardinality(A) ELSE n
           f == [i \in 1..m |-> CHOOSE u \in A : Rank(A, u) = i]
<1>1. ListAfter(v, n) = f
  BY DEF ListAfter, Rank
<1>2. A \in SUBSET log /\ A \in SUBSET Nat
  OBVIOUS
<1>3. \A u \in log : u > v => u \in A
  OBVIOUS
<1>4. \A u \in A : u > v
  OBVIOUS
<1> HIDE DEF A
<1>5. IsFiniteSet(A)
  BY <1>2, FS_Subset
<1>6. Cardinality(A) \in Nat
  BY <1>5, FS_CardinalityType
<1>7. m \in Nat /\ m <= n /\ m <= Cardinality(A) /\ (m # n => m = Cardinality(A))
  BY <1>6
<1> HIDE DEF m
<1>8. \A i \in 1..m : f[i] \in A /\ Rank(A, f[i]) = i
  <2> SUFFICES ASSUME NEW i \in 1..m PROVE f[i] \in A /\ Rank(A, f[i]) = i
    OBVIOUS
  <2>1. i \in 1..Cardinality(A)
    BY <1>6, <1>7
  <2>2. \E u \in A : Rank(A, u) = i
    BY <1>2, <1>5, <2>1, RankReaches
  <2> QED BY <2>2
<1>9. f = [i \in 1..m |-> f[i]]
  OBVIOUS
<1> HIDE DEF f
<1>10. f \in Seq(Nat) /\ Len(f) = m /\ \A i \in 1..m : f[i] \in log
  BY SMTT(40), <1>2, <1>7, <1>8, <1>9
<1>11. \A u \in A : Rank(A, u) \in 1..Cardinality(A)
  BY <1>2, <1>5, RankGrows
<1>12. \A u, w \in A : Rank(A, u) < Rank(A, w) => u < w
  <2> SUFFICES ASSUME NEW u \in A, NEW w \in A, Rank(A, u) < Rank(A, w), ~(u < w) PROVE FALSE
    OBVIOUS
  <2>1. u = w \/ w < u
    BY <1>2
  <2>2. w < u => Rank(A, w) < Rank(A, u)
    BY <1>2, <1>5, RankGrows
  <2>3. Rank(A, u) \in Nat /\ Rank(A, w) \in Nat
    BY <1>6, <1>11
  <2> QED BY <2>1, <2>2, <2>3
<1>13. Ascends(f)
  BY <1>7, <1>8, <1>10, <1>12 DEF Ascends
<1>14. ASSUME NEW u \in A PROVE Holds(f, u) \/ (Len(f) = n /\ Below(f, u))
  <2>1. Rank(A, u) \in 1..Cardinality(A)
    BY <1>11
  <2>2. CASE Rank(A, u) <= m
    <3>1. Rank(A, u) \in 1..m
      BY <1>6, <1>7, <2>1, <2>2
    <3>2. f[Rank(A, u)] \in A /\ Rank(A, f[Rank(A, u)]) = Rank(A, u)
      BY <1>8, <3>1
    <3>3. \A x, y \in A : Rank(A, x) = Rank(A, y) => x = y
      BY <1>2, <1>5, <2>1, RankReaches, Zenon
    <3>4. f[Rank(A, u)] = u
      BY <3>2, <3>3
    <3> QED BY <1>10, <3>1, <3>4 DEF Holds
  <2>3. CASE ~(Rank(A, u) <= m)
    <3>1. m = n
      BY <1>6, <1>7, <2>1, <2>3
    <3>2. \A i \in 1..m : f[i] < u
      BY <1>6, <1>7, <1>8, <1>12, <2>1, <2>3
    <3> QED BY <1>10, <3>1, <3>2 DEF Below
  <2> QED BY <2>2, <2>3
<1> QED BY <1>1, <1>3, <1>4, <1>7, <1>8, <1>10, <1>13, <1>14
----------------------------------------------------------------------------
(* The inductive invariant *)

HubRow == [version : Nat, wake : BOOLEAN, at : {"starting", "waiting", "reading", "broadcasting"},
           batch : Seq(Nat)]

StreamRow ==
    [at : {"off", "subscribed", "accepted", "replaying", "live"}, sub : {"none", "open", "lagging"},
     from : Nat, todo : Seq(Nat), more : BOOLEAN]

HubTypes ==
    /\ last \in Nat /\ last <= MaxVersion
    /\ open \in SUBSET Nat /\ published \in SUBSET Nat
    /\ \A v \in open \cup published : 1 <= v /\ v <= last
    /\ log \subseteq published /\ open \cap published = {}
    /\ session \in {"down", "up", "dead"} /\ hub \in HubRow
    /\ stream \in [Client -> StreamRow] /\ queue \in [Client -> Seq(Nat)]
    /\ cursor \in [Client -> Int] /\ known = [c \in Client |-> known[c]]
    /\ \A c \in Client : (stream[c].at = "off" <=> stream[c].sub = "none")
                         /\ Len(queue[c]) <= BufferSize

\* A process that starts serves nobody.
NobodyYet ==
    /\ hub.version \in published \cup {0}
    /\ hub.at = "starting" =>
          hub.version = 0 /\ session = "down" /\ notes = {} /\ \A c \in Client : stream[c].at = "off"

\* Retention takes the oldest version, never the newest.
LogIsRecent ==
    /\ \A u \in published : \E w \in log : u <= w
    /\ \A u \in published \ log : \A w \in log \cup open : u < w

\* The versions no client may miss.
Owed(u) == u \in published /\ u \notin excused

\* What retention took without an excuse had been read by whoever reads.
PurgedWereRead ==
    \A u \in published \ log : Owed(u) =>
        /\ hub.at # "starting" => u <= hub.version
        /\ \A c \in Client : stream[c].at \in {"accepted", "replaying"} => u <= cursor[c]

\* Versions in order, that were published, after v.
Published(s, v) == Ascends(s) /\ \A i \in 1..Len(s) : s[i] \in published /\ s[i] > v

BatchIsWhole ==
    hub.at = "broadcasting" =>
        /\ hub.batch # <<>> /\ Published(hub.batch, hub.version)
        /\ \A u \in Nat : (Owed(u) /\ u > hub.version) => Holds(hub.batch, u) \/ Below(hub.batch, u)

\* Where the queue of a subscription takes over.
Start(c) == IF stream[c].at = "live" THEN cursor[c] ELSE stream[c].from

\* What a subscription does not hold is yet to be broadcast, or comes after its end.
QueueIsWhole(c) ==
    stream[c].sub # "none" =>
        /\ stream[c].from \in published \cup {0} /\ stream[c].from <= hub.version
        /\ Published(queue[c], -1) /\ \A i \in 1..Len(queue[c]) : queue[c][i] <= hub.version
        /\ \A u \in Nat : (Owed(u) /\ u > Start(c) /\ ~(stream[c].at = "live" /\ u \in known[c])) =>
              \/ Holds(queue[c], u)
              \/ stream[c].sub = "open" /\ u > hub.version
              \/ stream[c].sub = "lagging" /\ Below(queue[c], u)

\* A replay skips nothing, and its last part leaves only what is in the queue.
ReplayIsWhole(c) ==
    stream[c].at = "replaying" =>
        /\ Published(stream[c].todo, cursor[c])
        /\ \A u \in Nat : (Owed(u) /\ u > cursor[c] /\ u \notin known[c]) =>
              /\ Holds(stream[c].todo, u) \/ Below(stream[c].todo, u)
              /\ ~stream[c].more => Holds(stream[c].todo, u) \/ u > stream[c].from

\* A reading that is not full leaves only what a notification announces.
LeftIsAnnounced ==
    (session = "up" /\ hub.at = "broadcasting") =>
        \A v \in log : v > hub.version =>
            Holds(hub.batch, v) \/ Len(hub.batch) = BatchSize \/ hub.wake \/ v \in notes

HubInv ==
    /\ HubTypes /\ NobodyYet /\ LogIsRecent /\ PurgedWereRead /\ BatchIsWhole
    /\ \A c \in Client : QueueIsWhole(c) /\ ReplayIsWhole(c)
    /\ LeftIsAnnounced /\ WakesForNews

LEMMA HubInitially == HubInit => HubInv
<1> SUFFICES ASSUME HubInit PROVE HubInv
  OBVIOUS
<1>1. NoStream \in StreamRow /\ HubStarting \in HubRow /\ <<>> \in Seq(Nat)
  BY DEF NoStream, StreamRow, HubStarting, HubRow
<1>2. HubTypes
  BY <1>1, HubConstants DEF HubInit, HubTypes, HubConstants, NoStream
<1>3. NobodyYet /\ LogIsRecent /\ PurgedWereRead
  BY DEF HubInit, NobodyYet, LogIsRecent, PurgedWereRead, HubStarting, NoStream
<1>4. BatchIsWhole /\ LeftIsAnnounced /\ WakesForNews
  BY DEF HubInit, BatchIsWhole, LeftIsAnnounced, WakesForNews, HubStarting
<1>5. \A c \in Client : QueueIsWhole(c) /\ ReplayIsWhole(c)
  BY DEF HubInit, QueueIsWhole, ReplayIsWhole, NoStream
<1> QED BY <1>2, <1>3, <1>4, <1>5 DEF HubInv

----------------------------------------------------------------------------
(* The events *)

LEMMA AppendEventKeeps == HubInv /\ AppendEvent => HubInv'
<1> SUFFICES ASSUME HubInv, AppendEvent PROVE HubInv'
  OBVIOUS
<1> USE DEF AppendEvent, HubInv
<1>1. HubTypes'
  BY HubConstants DEF HubTypes, HubConstants
<1>2. LogIsRecent'
  <2>1. \A u \in published : u < last + 1
    BY DEF HubTypes
  <2> QED BY <2>1 DEF LogIsRecent
<1>3. NobodyYet' /\ PurgedWereRead'
  BY DEF NobodyYet, PurgedWereRead, Owed
<1>4. BatchIsWhole' /\ LeftIsAnnounced' /\ WakesForNews'
  BY DEF BatchIsWhole, LeftIsAnnounced, WakesForNews, Published, Owed
<1>5. \A c \in Client : QueueIsWhole(c)' /\ ReplayIsWhole(c)'
  BY DEF QueueIsWhole, ReplayIsWhole, Published, Owed, Start
<1> QED BY <1>1, <1>2, <1>3, <1>4, <1>5

LEMMA CommitEventKeeps == ASSUME HubInv, NEW v \in Version, CommitEvent(v) PROVE HubInv'
<1> USE DEF CommitEvent
<1>1. HubTypes'
  BY DEF HubInv, HubTypes
<1>2. /\ v \notin published /\ v \in Nat \ {0} /\ published' = published \cup {v}
      /\ published \subseteq Nat /\ log \subseteq published /\ log' = log \cup {v}
      /\ UNCHANGED <<hub, stream, queue, cursor, known>>
  BY DEF HubInv, HubTypes
\* A later version is visible: the new one is excused.
<1>3. /\ \A u \in Nat : Owed(u)' => Owed(u) \/ (u = v /\ \A w \in published : w < v)
      /\ \A u \in published : u \in excused => u \in excused'
  BY <1>2 DEF Owed
<1>4. NobodyYet' /\ LogIsRecent'
  BY <1>2 DEF HubInv, NobodyYet, LogIsRecent
<1>5. PurgedWereRead'
  BY <1>2, <1>3 DEF HubInv, PurgedWereRead, Owed
<1>6. BatchIsWhole'
  BY <1>2, <1>3 DEF HubInv, BatchIsWhole, Published, Below
<1>7. LeftIsAnnounced' /\ WakesForNews'
  BY <1>2 DEF HubInv, LeftIsAnnounced, WakesForNews
<1>8. ASSUME NEW c \in Client PROVE QueueIsWhole(c)'
  <2>1. \A i \in 1..Len(queue[c]) : queue[c][i] \in published => queue[c][i] \in published'
    BY <1>2
  <2>2. hub.version \in published \cup {0} /\ v > 0
    BY <1>2 DEF HubInv, NobodyYet
  <2>3. stream[c].sub \in {"none", "open", "lagging"}
    BY DEF HubInv, HubTypes, StreamRow
  <2> SUFFICES ASSUME stream'[c].sub # "none" PROVE QueueIsWhole(c)'
    BY DEF QueueIsWhole
  <2>4. stream[c].sub # "none" /\ QueueIsWhole(c)
    BY <1>2 DEF HubInv
  <2>5. /\ stream'[c].from \in published' \cup {0} /\ stream'[c].from <= hub'.version
        /\ Published(queue[c], -1)' /\ \A i \in 1..Len(queue'[c]) : queue'[c][i] <= hub'.version
    BY <1>2, <2>1, <2>4 DEF QueueIsWhole, Published
  <2>6. ASSUME NEW u \in Nat, Owed(u)', u > Start(c)',
               ~(stream'[c].at = "live" /\ u \in known'[c])
        PROVE  \/ Holds(queue[c], u)'
               \/ stream'[c].sub = "open" /\ u > hub'.version
               \/ stream'[c].sub = "lagging" /\ Below(queue[c], u)'
    <3>1. CASE Owed(u)
      BY <1>2, <2>4, <2>6, <3>1 DEF QueueIsWhole, Start, Holds, Below
    <3>2. CASE u = v /\ \A w \in published : w < v
      <4>1. Below(queue[c], v)
        BY <2>4, <3>2 DEF QueueIsWhole, Published, Below
      <4> QED BY <1>2, <2>2, <2>3, <2>4, <3>2, <4>1 DEF Below
    <3> QED BY <1>3, <2>6, <3>1, <3>2
  <2> QED BY <2>5, <2>6 DEF QueueIsWhole
<1>9. ASSUME NEW c \in Client PROVE ReplayIsWhole(c)'
  <2> SUFFICES ASSUME stream'[c].at = "replaying" PROVE ReplayIsWhole(c)'
    BY DEF ReplayIsWhole
  <2>1. stream[c].at = "replaying" /\ ReplayIsWhole(c)
    BY <1>2 DEF HubInv
  <2>2. stream[c].from \in published \cup {0}
    BY <2>1 DEF HubInv, HubTypes, QueueIsWhole
  <2>3. Published(stream[c].todo, cursor[c])'
    BY <1>2, <2>1 DEF ReplayIsWhole, Published
  <2>4. ASSUME NEW u \in Nat, Owed(u)', u > cursor'[c], u \notin known'[c]
        PROVE  /\ Holds(stream[c].todo, u)' \/ Below(stream[c].todo, u)'
               /\ ~stream'[c].more => Holds(stream[c].todo, u)' \/ u > stream'[c].from
    <3>1. CASE Owed(u)
      BY <1>2, <2>1, <2>4, <3>1 DEF ReplayIsWhole, Holds, Below
    <3>2. CASE u = v /\ \A w \in published : w < v
      <4>1. Below(stream[c].todo, v)
        BY <2>1, <3>2 DEF ReplayIsWhole, Published, Below
      <4> QED BY <1>2, <2>2, <3>2, <4>1 DEF Below
    <3> QED BY <1>3, <2>4, <3>1, <3>2
  <2> QED BY <2>3, <2>4 DEF ReplayIsWhole
<1> QED BY <1>1, <1>4, <1>5, <1>6, <1>7, <1>8, <1>9 DEF HubInv

LEMMA LatestAndOldest ==
    ASSUME HubInv
    PROVE  /\ IsFiniteSet(log) /\ log \in SUBSET Nat
           /\ published # {} => LatestVersion \in log /\ \A u \in published : u <= LatestVersion
           /\ published = {} => LatestVersion = 0
           /\ log # {} => OldestVersion \in log /\ \A u \in log : OldestVersion <= u
<1>1. log \in SUBSET Nat /\ \A v \in log : v <= last
  BY DEF HubInv, HubTypes
<1>2. last \in Nat
  BY DEF HubInv, HubTypes
<1>3. IsFiniteSet(log)
  BY <1>1, <1>2, FS_BoundedSetOfNaturals
<1>4. log # {} => /\ Largest(log) \in log /\ \A u \in log : u <= Largest(log)
                  /\ Smallest(log) \in log /\ \A u \in log : Smallest(log) <= u
  BY <1>1, <1>3, Extremes
<1>5. published # {} => log # {}
  BY DEF HubInv, LogIsRecent
<1>6. log \subseteq published /\ published \subseteq Nat
  BY DEF HubInv, HubTypes
<1>7. published # {} => LatestVersion \in log /\ \A u \in published : u <= LatestVersion
  <2> SUFFICES ASSUME NEW u \in published PROVE LatestVersion \in log /\ u <= LatestVersion
    BY <1>4, <1>5 DEF LatestVersion
  <2>1. PICK w \in log : u <= w
    BY DEF HubInv, LogIsRecent
  <2>2. LatestVersion = Largest(log) /\ w <= LatestVersion /\ LatestVersion \in log
    BY <1>4, <2>1 DEF LatestVersion
  <2> QED BY <1>6, <2>1, <2>2
<1> QED BY <1>1, <1>3, <1>4, <1>6, <1>7 DEF LatestVersion, OldestVersion

LEMMA PurgeKeeps == ASSUME HubInv, NEW v \in Version, Purge(v) PROVE HubInv'
<1> USE DEF Purge
<1>1. HubTypes'
  BY DEF HubInv, HubTypes
<1>2. /\ v \in log /\ log' = log \ {v} /\ log \subseteq published /\ published \subseteq Nat
      /\ UNCHANGED <<published, open, hub, stream, queue, cursor, known, session, notes>>
  BY DEF HubInv, HubTypes
<1>3. \A u \in Nat : Owed(u)' => Owed(u) /\ (u = v => ~Outrun(v))
  BY <1>2 DEF Owed
<1>4. /\ LatestVersion \in log /\ v < LatestVersion /\ \A u \in published : u <= LatestVersion
      /\ \A u \in log : v <= u
  BY <1>2, LatestAndOldest
<1>5. LogIsRecent'
  <2>1. \A u \in published : \E w \in log' : u <= w
    BY <1>2, <1>4
  <2>2. \A u \in published \ log' : \A w \in log' \cup open : u < w
    BY <1>2, <1>4 DEF HubInv, LogIsRecent
  <2> QED BY <1>2, <2>1, <2>2 DEF LogIsRecent
<1>6. NobodyYet' /\ LeftIsAnnounced' /\ WakesForNews'
  BY <1>2 DEF HubInv, NobodyYet, LeftIsAnnounced, WakesForNews
<1>7. PurgedWereRead'
  <2>1. hub.version \in Nat /\ \A c \in Client : cursor[c] \in Int
    BY DEF HubInv, HubTypes, HubRow
  <2> QED BY <1>2, <1>3, <2>1 DEF HubInv, PurgedWereRead, Outrun, Owed
<1>8. BatchIsWhole'
  BY <1>2, <1>3 DEF HubInv, BatchIsWhole, Published
<1>9. \A c \in Client : QueueIsWhole(c)' /\ ReplayIsWhole(c)'
  BY <1>2, <1>3 DEF HubInv, QueueIsWhole, ReplayIsWhole, Published, Start
<1> QED BY <1>1, <1>5, <1>6, <1>7, <1>8, <1>9 DEF HubInv
----------------------------------------------------------------------------
(* The hub and its session *)

\* Steps of the hub that only move what it is doing.
LEMMA HubMoves ==
    ASSUME HubInv, HubTypes', HubOnly, stream' = stream, hub'.version = hub.version,
           hub.at # "starting", hub'.at # "starting", hub'.at = "broadcasting" => BatchIsWhole',
           LeftIsAnnounced', WakesForNews'
    PROVE  HubInv'
<1> USE DEF HubOnly
<1>1. NobodyYet' /\ LogIsRecent' /\ PurgedWereRead'
  BY DEF HubInv, NobodyYet, LogIsRecent, PurgedWereRead, Owed
<1>2. \A c \in Client : QueueIsWhole(c)' /\ ReplayIsWhole(c)'
  BY DEF HubInv, QueueIsWhole, ReplayIsWhole, Published, Start, Owed
<1>3. BatchIsWhole'
  BY DEF BatchIsWhole
<1> QED BY <1>1, <1>2, <1>3 DEF HubInv

LEMMA SessionKeeps ==
    ASSUME HubInv, Listen \/ LoseSession \/ Probe \/ (\E v \in Version : Notified(v))
    PROVE  HubInv'
<1>1. hub \in HubRow /\ session \in {"down", "up", "dead"}
  BY DEF HubInv, HubTypes
<1>2. hub.at # "starting"
  BY DEF HubInv, NobodyYet, Listen, LoseSession, Probe, Notified
<1>3. /\ hub'.version = hub.version /\ hub'.at = hub.at /\ hub'.batch = hub.batch
      /\ hub' \in HubRow
  BY <1>1 DEF Listen, LoseSession, Probe, Notified, HubRow, Established
<1>4. HubTypes' /\ HubOnly /\ stream' = stream
  BY <1>1, <1>3 DEF HubInv, HubTypes, HubOnly, Listen, LoseSession, Probe, Notified
<1>5. BatchIsWhole'
  BY <1>3, <1>4 DEF HubInv, BatchIsWhole, HubOnly, Published, Owed
<1>6. LeftIsAnnounced' /\ WakesForNews'
  <2>1. CASE Listen
    BY <1>1, <1>3, <2>1 DEF Listen, LeftIsAnnounced, WakesForNews, Established, HubRow
  <2>2. CASE LoseSession \/ Probe
    BY <2>2 DEF LoseSession, Probe, LeftIsAnnounced, WakesForNews
  <2>3. ASSUME NEW v \in Version, Notified(v) PROVE LeftIsAnnounced' /\ WakesForNews'
    <3>1. hub'.wake = (hub.wake \/ v > hub.version)
      BY <1>1, <2>3 DEF Notified, HubRow
    <3>2. session' = session /\ log' = log /\ notes' = notes \ {v}
      BY <2>3 DEF Notified, HubOnly
    <3> QED BY <1>3, <3>1, <3>2 DEF HubInv, LeftIsAnnounced, WakesForNews
  <2> QED BY <2>1, <2>2, <2>3
<1> QED BY <1>2, <1>3, <1>4, <1>5, <1>6, HubMoves

LEMMA InitializeKeeps == HubInv /\ Initialize => HubInv'
<1> SUFFICES ASSUME HubInv, Initialize PROVE HubInv'
  OBVIOUS
<1>1. hub \in HubRow /\ hub.at = "starting" /\ session = "down" /\ hub.version = 0
      /\ \A c \in Client : stream[c].at = "off" /\ stream[c].sub = "none"
  BY DEF HubInv, HubTypes, Initialize, NobodyYet
<1>2. /\ LatestVersion \in Nat /\ LatestVersion \in published \cup {0}
      /\ \A u \in published : u <= LatestVersion
  BY LatestAndOldest DEF HubInv, HubTypes
<1>3. hub' \in HubRow /\ hub'.version = LatestVersion /\ hub'.at = "waiting"
  BY <1>1, <1>2 DEF Initialize, HubRow
<1>4. UNCHANGED <<last, open, log, queue, cursor, published, excused, known, purges, session, notes, stream>>
  BY DEF Initialize, HubOnly
<1>5. HubTypes'
  BY <1>3, <1>4 DEF HubInv, HubTypes
<1>6. NobodyYet' /\ LogIsRecent' /\ PurgedWereRead'
  BY <1>1, <1>2, <1>3, <1>4 DEF HubInv, NobodyYet, LogIsRecent, PurgedWereRead
<1>7. BatchIsWhole' /\ LeftIsAnnounced' /\ WakesForNews'
  BY <1>1, <1>3, <1>4 DEF BatchIsWhole, LeftIsAnnounced, WakesForNews
<1>8. \A c \in Client : QueueIsWhole(c)' /\ ReplayIsWhole(c)'
  BY <1>1, <1>4 DEF QueueIsWhole, ReplayIsWhole
<1> QED BY <1>5, <1>6, <1>7, <1>8 DEF HubInv

LEMMA ReadingsKeep == ASSUME HubInv, Wake \/ CatchUpFails PROVE HubInv'
<1>1. hub \in HubRow
  BY DEF HubInv, HubTypes
<1>2. /\ hub'.version = hub.version /\ hub' \in HubRow /\ hub.at \in {"waiting", "reading"}
      /\ \/ hub'.at = "reading"
         \/ hub'.wake /\ hub'.at = "waiting"
  BY <1>1 DEF Wake, Awake, CatchUpFails, HubRow
<1>3. HubOnly /\ UNCHANGED <<session, notes, stream>>
  BY DEF Wake, CatchUpFails
<1>4. HubTypes'
  BY <1>2, <1>3 DEF HubInv, HubTypes, HubOnly
<1>5. LeftIsAnnounced' /\ WakesForNews'
  BY <1>2 DEF LeftIsAnnounced, WakesForNews
<1> QED BY <1>2, <1>3, <1>4, <1>5, HubMoves

LEMMA CatchUpKeeps == HubInv /\ CatchUp => HubInv'
<1> SUFFICES ASSUME HubInv, CatchUp PROVE HubInv'
  OBVIOUS
<1> DEFINE s == ListAfter(hub.version, BatchSize)
           t == ListAfter(hub.version, 1)
<1>1. /\ hub \in HubRow /\ hub.at = "reading" /\ hub.version \in Int
      /\ log \subseteq published /\ published \subseteq Nat
  BY DEF HubInv, HubTypes, CatchUp, HubRow
<1> DEFINE one == 1
<1>0. BatchSize \in Nat \ {0} /\ one \in Nat \ {0} /\ log \in SUBSET Nat /\ IsFiniteSet(log)
  BY HubConstants, LatestAndOldest DEF HubConstants
<1> HIDE DEF one
<1>2. /\ s \in Seq(Nat) /\ Len(s) <= BatchSize /\ Ascends(s)
      /\ \A i \in 1..Len(s) : s[i] \in log /\ s[i] > hub.version
      /\ \A u \in log : u > hub.version =>
            \/ Holds(s, u)
            \/ Len(s) = BatchSize /\ Below(s, u)
  BY <1>0, <1>1, ListAfterIs
<1>3. /\ t \in Seq(Nat)
      /\ \A i \in 1..Len(t) : t[i] \in log /\ t[i] > hub.version
      /\ \A u \in log : u > hub.version =>
            \/ Holds(t, u)
            \/ Len(t) = 1 /\ Below(t, u)
  <2>1. /\ ListAfter(hub.version, one) \in Seq(Nat)
        /\ \A i \in 1..Len(ListAfter(hub.version, one)) :
              ListAfter(hub.version, one)[i] \in log /\ ListAfter(hub.version, one)[i] > hub.version
        /\ \A u \in log : u > hub.version =>
              \/ Holds(ListAfter(hub.version, one), u)
              \/ Len(ListAfter(hub.version, one)) = one /\ Below(ListAfter(hub.version, one), u)
    BY <1>0, <1>1, ListAfterIs
  <2> QED BY <2>1 DEF one
<1> HIDE DEF s, t
<1>4. /\ hub'.version = hub.version /\ hub'.wake = hub.wake /\ hub'.batch = s
      /\ hub'.at = IF t = <<>> THEN "waiting" ELSE "broadcasting"
  BY <1>1 DEF CatchUp, HubRow, s, t
<1>5. hub' \in HubRow
  <2>1. hub' = [hub EXCEPT !.batch = s, !.at = IF t = <<>> THEN "waiting" ELSE "broadcasting"]
    BY DEF CatchUp, s, t
  <2> QED BY <1>1, <1>2, <2>1 DEF HubRow
<1>6. HubOnly /\ UNCHANGED <<session, notes, stream>>
  BY DEF CatchUp
<1>7. HubTypes'
  BY <1>5, <1>6 DEF HubInv, HubTypes, HubOnly
<1>8. t = <<>> => \A u \in log : ~(u > hub.version)
  BY <1>3 DEF Holds
<1>9. t # <<>> => s # <<>>
  <2> SUFFICES ASSUME t # <<>> PROVE s # <<>>
    OBVIOUS
  <2>1. t[1] \in log /\ t[1] > hub.version
    BY <1>3
  <2>2. BatchSize # 0
    BY HubConstants DEF HubConstants
  <2> QED BY <1>2, <2>1, <2>2 DEF Holds
<1>10. LeftIsAnnounced' /\ WakesForNews'
  BY <1>2, <1>4, <1>6, <1>8 DEF HubOnly, LeftIsAnnounced, WakesForNews
<1>11. ASSUME hub'.at = "broadcasting" PROVE BatchIsWhole'
  <2>1. \A u \in Nat : Owed(u) /\ u > hub.version => u \in log
    BY <1>1 DEF HubInv, PurgedWereRead, Owed, HubTypes
  <2>2. \A u \in Nat : Owed(u) /\ u > hub.version => Holds(s, u) \/ Below(s, u)
    BY <1>2, <2>1
  <2>3. Published(s, hub.version)
    BY <1>1, <1>2 DEF Published
  <2>4. s # <<>>
    BY <1>4, <1>9, <1>11
  <2> QED BY <1>4, <1>6, <2>2, <2>3, <2>4 DEF BatchIsWhole, HubOnly, Published, Owed
<1> QED BY <1>1, <1>4, <1>6, <1>7, <1>10, <1>11, HubMoves
\* What a subscription receives of a batch.
Received(c) ==
    IF Len(hub.batch) <= Room(c) THEN hub.batch ELSE SubSeq(hub.batch, 1, Room(c))

LEMMA BroadcastReaches ==
    ASSUME HubInv, Broadcast, NEW c \in Client
    PROVE  /\ stream[c].sub # "open" => queue'[c] = queue[c] /\ stream'[c] = stream[c]
           /\ stream[c].sub = "open" =>
                 /\ queue'[c] = queue[c] \o Received(c)
                 /\ Received(c) \in Seq(Nat)
                 /\ Len(Received(c)) <= Len(hub.batch) /\ Len(queue[c]) + Len(Received(c)) <= BufferSize
                 /\ \A i \in 1..Len(Received(c)) : Received(c)[i] = hub.batch[i]
                 /\ stream'[c] = IF Len(hub.batch) > Room(c) THEN [stream[c] EXCEPT !.sub = "lagging"]
                                 ELSE stream[c]
                 /\ Len(hub.batch) <= Room(c) => Len(Received(c)) = Len(hub.batch)
<1>1. hub.batch \in Seq(Nat) /\ queue[c] \in Seq(Nat) /\ Len(queue[c]) <= BufferSize /\ BufferSize \in Nat
  BY HubConstants DEF HubInv, HubTypes, HubRow, HubConstants
<1>2. stream = [d \in Client |-> stream[d]] /\ queue = [d \in Client |-> queue[d]]
  BY DEF HubInv, HubTypes
<1>3. Room(c) \in Nat /\ Len(queue[c]) + Room(c) = BufferSize
  BY <1>1 DEF Room
<1>4. /\ Received(c) \in Seq(Nat) /\ Len(Received(c)) <= Len(hub.batch) /\ Len(Received(c)) <= Room(c)
      /\ \A i \in 1..Len(Received(c)) : Received(c)[i] = hub.batch[i]
      /\ Len(hub.batch) <= Room(c) => Len(Received(c)) = Len(hub.batch)
  <2>1. CASE Len(hub.batch) <= Room(c)
    BY <1>1, <2>1 DEF Received
  <2>2. CASE ~(Len(hub.batch) <= Room(c))
    BY SMTT(40), <1>1, <1>3, <2>2 DEF Received
  <2> QED BY <2>1, <2>2
<1>5. /\ queue'[c] = IF stream[c].sub # "open" THEN queue[c] ELSE queue[c] \o Received(c)
      /\ stream'[c] = IF stream[c].sub = "open" /\ Len(hub.batch) > Room(c)
                      THEN [stream[c] EXCEPT !.sub = "lagging"] ELSE stream[c]
  BY DEF Broadcast, Received
<1> HIDE DEF Received, Room
<1>6. Len(queue[c]) + Len(Received(c)) <= BufferSize
  BY <1>1, <1>3, <1>4
<1> QED BY <1>4, <1>5, <1>6

LEMMA BroadcastKeeps == HubInv /\ Broadcast => HubInv'
<1> SUFFICES ASSUME HubInv, Broadcast PROVE HubInv'
  OBVIOUS
<1> DEFINE b == hub.batch
           n == Len(hub.batch)
<1>0. /\ hub \in HubRow /\ hub.version \in Nat /\ b \in Seq(Nat) /\ n \in Nat /\ n = Len(b)
      /\ n # 0 /\ Published(b, hub.version)
      /\ \A u \in Nat : (Owed(u) /\ u > hub.version) => Holds(b, u) \/ Below(b, u)
  <2>1. hub \in HubRow /\ hub.at = "broadcasting" /\ BatchIsWhole
    BY DEF HubInv, HubTypes, Broadcast
  <2>2. hub.version \in Nat /\ b \in Seq(Nat)
    BY <2>1 DEF HubRow
  <2>3. n \in Nat /\ (b # <<>> => n # 0)
    BY <2>2
  <2> QED BY <2>1, <2>2, <2>3 DEF BatchIsWhole
<1> HIDE DEF b, n
<1>1. /\ hub.version \in Nat /\ b \in Seq(Nat) /\ n \in Nat /\ n = Len(b) /\ n # 0
      /\ Ascends(b) /\ \A i \in 1..n : b[i] \in Nat /\ b[i] \in published /\ b[i] > hub.version
      /\ b[n] \in published /\ b[n] > hub.version /\ b[n] \in Nat
      /\ \A u \in Nat : (Owed(u) /\ u > hub.version) => Holds(b, u) \/ Below(b, u)
  BY <1>0 DEF Published
<1>2. /\ \A i \in 1..n : b[i] <= b[n]
      /\ \A u \in Nat : (Holds(b, u) => u <= b[n]) /\ (Below(b, u) => b[n] < u)
  BY SMTT(40), <1>1 DEF Ascends, Holds, Below
<1>3. hub' = [hub EXCEPT !.version = b[n], !.batch = <<>>, !.at = IF n < BatchSize THEN "waiting" ELSE "reading"]
  BY DEF Broadcast, b, n
<1>4. /\ hub' \in HubRow /\ hub'.version = b[n] /\ hub'.wake = hub.wake
      /\ hub'.at = IF n < BatchSize THEN "waiting" ELSE "reading"
  <2>1. <<>> \in Seq(Nat) /\ (IF n < BatchSize THEN "waiting" ELSE "reading") \in {"waiting", "reading"}
    OBVIOUS
  <2> QED BY <1>0, <1>1, <1>3, <2>1 DEF HubRow
<1>5. UNCHANGED <<last, open, log, session, notes, cursor, published, excused, known>>
  BY DEF Broadcast
<1>6. \A c \in Client :
         /\ stream'[c] \in StreamRow /\ queue'[c] \in Seq(Nat) /\ Len(queue'[c]) <= BufferSize
         /\ stream'[c].at = stream[c].at /\ stream'[c].from = stream[c].from
         /\ stream'[c].todo = stream[c].todo /\ stream'[c].more = stream[c].more
         /\ stream'[c].sub = IF stream[c].sub = "open" /\ n > Room(c) THEN "lagging" ELSE stream[c].sub
  <2> SUFFICES ASSUME NEW c \in Client
               PROVE  /\ stream'[c] \in StreamRow /\ queue'[c] \in Seq(Nat) /\ Len(queue'[c]) <= BufferSize
                      /\ stream'[c].at = stream[c].at /\ stream'[c].from = stream[c].from
                      /\ stream'[c].todo = stream[c].todo /\ stream'[c].more = stream[c].more
                      /\ stream'[c].sub = IF stream[c].sub = "open" /\ n > Room(c) THEN "lagging"
                                          ELSE stream[c].sub
    OBVIOUS
  <2>1. stream[c] \in StreamRow /\ queue[c] \in Seq(Nat) /\ Len(queue[c]) <= BufferSize
    BY DEF HubInv, HubTypes
  <2>2. queue'[c] \in Seq(Nat) /\ Len(queue'[c]) <= BufferSize
    <3>1. CASE stream[c].sub # "open"
      BY <2>1, <3>1, BroadcastReaches
    <3>2. CASE stream[c].sub = "open"
      <4> DEFINE r == Received(c)
      <4>1. queue'[c] = queue[c] \o r /\ r \in Seq(Nat) /\ Len(queue[c]) + Len(r) <= BufferSize
        BY <3>2, BroadcastReaches
      <4> HIDE DEF r
      <4> QED BY <2>1, <4>1
    <3> QED BY <3>1, <3>2
  <2>3. stream'[c] = IF stream[c].sub = "open" /\ n > Room(c)
                     THEN [stream[c] EXCEPT !.sub = "lagging"] ELSE stream[c]
    BY DEF Broadcast, n
  <2> QED BY <2>1, <2>2, <2>3 DEF StreamRow
<1>7. HubTypes'
  <2>1. /\ stream' = [c \in Client |-> stream'[c]] /\ queue' = [c \in Client |-> queue'[c]]
    BY DEF Broadcast
  <2>2. stream' \in [Client -> StreamRow] /\ queue' \in [Client -> Seq(Nat)]
    BY <1>6, <2>1
  <2>3. \A c \in Client : (stream'[c].at = "off" <=> stream'[c].sub = "none") /\ Len(queue'[c]) <= BufferSize
    BY ZenonT(60), <1>6 DEF HubInv, HubTypes
  <2> QED BY <1>4, <1>5, <2>2, <2>3 DEF HubInv, HubTypes
<1>8. NobodyYet' /\ LogIsRecent'
  BY <1>1, <1>4, <1>5 DEF HubInv, NobodyYet, LogIsRecent
<1>9. PurgedWereRead'
  BY <1>1, <1>4, <1>5, <1>6 DEF HubInv, HubTypes, PurgedWereRead, Owed, Broadcast
<1>10. BatchIsWhole' /\ LeftIsAnnounced'
  BY <1>4 DEF BatchIsWhole, LeftIsAnnounced
<1>11. WakesForNews'
  <2>1. \A v \in log : v \in Nat
    BY DEF HubInv, HubTypes
  <2>2. Len(b) = BatchSize => hub'.at = "reading"
    BY <1>1, <1>4, HubConstants DEF HubConstants
  <2> QED BY <1>1, <1>2, <1>4, <1>5, <2>1, <2>2 DEF HubInv, LeftIsAnnounced, WakesForNews, Broadcast, b
<1>12. ASSUME NEW c \in Client PROVE QueueIsWhole(c)' /\ ReplayIsWhole(c)'
  <2>1. ReplayIsWhole(c)'
    BY <1>5, <1>6 DEF HubInv, ReplayIsWhole, Published, Owed
  <2> SUFFICES ASSUME stream'[c].sub # "none" PROVE QueueIsWhole(c)'
    BY <2>1 DEF QueueIsWhole
  <2>2. /\ stream[c].sub # "none" /\ QueueIsWhole(c)
        /\ stream[c].from \in Nat /\ queue[c] \in Seq(Nat)
    BY <1>6 DEF HubInv, HubTypes, StreamRow
  <2>3. CASE stream[c].sub # "open"
    <3>1. queue'[c] = queue[c] /\ stream'[c] = stream[c] /\ stream[c].sub = "lagging"
      BY ZenonT(60), <2>2, <2>3, BroadcastReaches DEF HubInv, HubTypes, StreamRow
    <3>2. \A i \in 1..Len(queue[c]) : queue[c][i] <= hub.version => queue[c][i] <= hub'.version
      <4>1. \A i \in 1..Len(queue[c]) : queue[c][i] \in Nat
        BY <2>2
      <4> QED BY <1>1, <1>4, <4>1
    <3>3. stream[c].from <= hub'.version
      BY <1>1, <1>4, <2>2 DEF QueueIsWhole
    <3> QED BY <1>5, <2>2, <3>1, <3>2, <3>3 DEF QueueIsWhole, Published, Start, Owed
  <2>4. CASE stream[c].sub = "open"
    <3> DEFINE q == queue[c]
               r == Received(c)
    <3>1. /\ queue'[c] = q \o r /\ q \in Seq(Nat) /\ r \in Seq(Nat) /\ Len(r) <= n
          /\ \A i \in 1..Len(r) : r[i] = b[i]
      BY <2>2, <2>4, BroadcastReaches DEF b, n
    <3>2. stream'[c].sub = "open" => Len(r) = n
      <4>1. stream'[c].sub = "open" => n <= Room(c)
        <5>1. Room(c) \in Int
          BY HubConstants, <2>2 DEF Room, HubConstants
        <5> QED BY <1>1, <1>6, <2>4, <5>1
      <4> QED BY <2>4, <4>1, BroadcastReaches DEF n
    <3> HIDE DEF r, q
    <3>3. /\ Len(q \o r) = Len(q) + Len(r)
          /\ \A i \in 1..Len(q) : (q \o r)[i] = q[i]
          /\ \A i \in 1..Len(r) : (q \o r)[Len(q) + i] = r[i]
          /\ \A i \in 1..(Len(q) + Len(r)) : i \in 1..Len(q) \/ (i - Len(q) \in 1..Len(r) /\ i = Len(q) + (i - Len(q)))
      BY SMTT(40), <3>1
    <3>4. /\ \A i \in 1..Len(q) : q[i] \in published /\ q[i] <= hub.version /\ q[i] > -1
          /\ Ascends(q)
      BY <2>2 DEF QueueIsWhole, Published, q
    <3>11. Len(r) \in Nat /\ Len(r) <= n /\ \A i \in 1..Len(r) : i \in 1..n /\ r[i] = b[i]
      <4>1. Len(r) \in Nat /\ Len(r) <= n
        BY <3>1
      <4>2. n \in Nat
        BY <1>1
      <4>3. 1..Len(r) \subseteq 1..n
        <5> HIDE DEF n
        <5> QED BY <4>1, <4>2
      <4>4. \A i \in 1..Len(r) : r[i] = b[i]
        BY <3>1
      <4> QED BY Zenon, <4>1, <4>3, <4>4
    <3>5. /\ \A i \in 1..Len(r) : r[i] \in published /\ r[i] > hub.version /\ r[i] <= b[n]
          /\ Ascends(r)
      BY <1>1, <1>2, <3>11 DEF Ascends
    <3>6. Ascends(q \o r)
      <4> SUFFICES ASSUME NEW i \in 1..(Len(q) + Len(r)), NEW j \in 1..(Len(q) + Len(r)), i < j
                   PROVE  (q \o r)[i] < (q \o r)[j]
        BY <3>3 DEF Ascends
      <4>1. CASE i \in 1..Len(q) /\ j \in 1..Len(q)
        BY <3>1, <3>3, <3>4, <4>1 DEF Ascends
      <4>2. CASE i \in 1..Len(q) /\ j \notin 1..Len(q)
        <5>1. (q \o r)[i] \in Nat /\ (q \o r)[i] <= hub.version
          BY <3>1, <3>3, <3>4, <4>2
        <5>2. j - Len(q) \in 1..Len(r) /\ (q \o r)[j] = r[j - Len(q)]
          BY <3>1, <4>2
        <5>3. (q \o r)[j] \in Nat /\ (q \o r)[j] > hub.version
          BY <3>1, <3>5, <5>2
        <5> QED BY SMTT(40), <1>1, <5>1, <5>3
      <4>3. CASE i \notin 1..Len(q)
        <5>1. /\ i - Len(q) \in 1..Len(r) /\ j - Len(q) \in 1..Len(r) /\ i - Len(q) < j - Len(q)
          BY <3>1, <4>3
        <5>2. r[i - Len(q)] < r[j - Len(q)]
          BY <3>5, <5>1 DEF Ascends
        <5>3. (q \o r)[i] = r[i - Len(q)] /\ (q \o r)[j] = r[j - Len(q)]
          BY SMTT(40), <3>1, <5>1
        <5> QED BY <5>2, <5>3
      <4> QED BY <4>1, <4>2, <4>3
    <3>7. \A i \in 1..(Len(q) + Len(r)) :
             (q \o r)[i] \in published /\ (q \o r)[i] <= b[n] /\ (q \o r)[i] > -1
      <4> SUFFICES ASSUME NEW i \in 1..(Len(q) + Len(r))
                   PROVE  (q \o r)[i] \in published /\ (q \o r)[i] <= b[n] /\ (q \o r)[i] > -1
        OBVIOUS
      <4>1. CASE i \in 1..Len(q)
        BY SMTT(40), <1>1, <3>1, <3>3, <3>4, <4>1
      <4>2. CASE i - Len(q) \in 1..Len(r)
        <5>1. (q \o r)[i] = r[i - Len(q)]
          BY <3>1, <4>2
        <5> QED BY SMTT(40), <1>1, <3>1, <3>5, <4>2, <5>1
      <4> QED BY <3>3, <4>1, <4>2
    <3>8. ASSUME NEW u \in Nat, Owed(u), u > Start(c), ~(stream[c].at = "live" /\ u \in known[c])
          PROVE  \/ Holds(q \o r, u)
                 \/ stream'[c].sub = "open" /\ u > b[n]
                 \/ stream'[c].sub = "lagging" /\ Below(q \o r, u)
      <4>1. CASE Holds(q, u)
        BY <3>1, <3>3, <4>1 DEF Holds
      <4>2. CASE u > hub.version /\ Holds(r, u)
        <5>1. PICK i \in 1..Len(r) : r[i] = u
          BY <4>2 DEF Holds
        <5>2. Len(q) + i \in 1..(Len(q) + Len(r)) /\ (q \o r)[Len(q) + i] = u
          BY <3>1, <3>3, <5>1
        <5> QED BY <3>3, <5>2 DEF Holds
      <4>3. CASE u > hub.version /\ ~Holds(r, u)
        <5>1. Below(r, u)
          <6>1. CASE Below(b, u)
            BY <1>1, <3>11, <6>1 DEF Below
          <6>2. CASE Holds(b, u)
            <7>1. PICK k \in 1..n : b[k] = u
              BY <1>1, <6>2 DEF Holds
            <7>2. k > Len(r)
              <8>1. k \in 1..Len(r) => r[k] = u
                BY <3>1, <7>1
              <8>2. k \notin 1..Len(r)
                BY <4>3, <8>1 DEF Holds
              <8>3. Len(r) \in Nat
                BY <3>1
              <8> QED BY <1>1, <8>2, <8>3
            <7> QED BY SMTT(40), <1>1, <3>11, <7>1, <7>2 DEF Below, Ascends
          <6> QED BY <1>1, <3>8, <4>3, <6>1, <6>2
        <5>2. Below(q \o r, u)
          <6> SUFFICES ASSUME NEW i \in 1..(Len(q) + Len(r)) PROVE (q \o r)[i] < u
            BY <3>3 DEF Below
          <6>1. CASE i \in 1..Len(q)
            <7>1. (q \o r)[i] \in Nat /\ (q \o r)[i] <= hub.version
              BY <3>1, <3>3, <3>4, <6>1
            <7> QED BY SMTT(40), <1>1, <4>3, <7>1
          <6>2. CASE i - Len(q) \in 1..Len(r)
            BY <3>1, <5>1, <6>2 DEF Below
          <6> QED BY <3>3, <6>1, <6>2
        <5>3. stream'[c].sub = "open" => u > b[n]
          <6>1. stream'[c].sub = "open" => Below(b, u)
            BY <1>1, <3>1, <3>2, <5>1 DEF Below
          <6> QED BY <1>1, <1>2, <6>1
        <5>4. stream'[c].sub \in {"open", "lagging"}
          BY <1>6, <2>4
        <5> QED BY <5>2, <5>3, <5>4
      <4> QED BY <2>2, <2>4, <3>8, <4>1, <4>2, <4>3 DEF QueueIsWhole, q
    <3>9. stream'[c].from \in published \cup {0} /\ stream'[c].from <= b[n]
      BY <1>1, <1>6, <2>2 DEF QueueIsWhole
    <3>10. Start(c)' = Start(c)
      BY <1>5, <1>6 DEF Start
    <3> QED BY <1>4, <1>5, <1>6, <3>1, <3>3, <3>6, <3>7, <3>8, <3>9, <3>10
            DEF QueueIsWhole, Published, Owed
  <2> QED BY <2>3, <2>4
<1> QED BY <1>7, <1>8, <1>9, <1>10, <1>11, <1>12 DEF HubInv

LEMMA ShutdownKeeps == HubInv /\ Shutdown => HubInv'
<1> SUFFICES ASSUME HubInv, Shutdown PROVE HubInv'
  OBVIOUS
<1>1. NoStream \in StreamRow /\ HubStarting \in HubRow /\ <<>> \in Seq(Nat) /\ Len(<<>>) <= BufferSize
  BY HubConstants DEF NoStream, StreamRow, HubStarting, HubRow, HubConstants
<1>2. NoStream.at = "off" /\ NoStream.sub = "none" /\ HubStarting.version = 0 /\ HubStarting.at = "starting"
  BY DEF NoStream, HubStarting
<1>3. /\ hub' = HubStarting /\ session' = "down" /\ notes' = {}
      /\ stream' = [c \in Client |-> NoStream] /\ queue' = [c \in Client |-> <<>>]
      /\ UNCHANGED <<last, open, log, cursor, published, excused, known>>
  BY DEF Shutdown
<1>4. HubTypes'
  BY <1>1, <1>2, <1>3 DEF HubInv, HubTypes
<1>5. NobodyYet' /\ LogIsRecent' /\ PurgedWereRead'
  BY <1>2, <1>3 DEF HubInv, NobodyYet, LogIsRecent, PurgedWereRead
<1>6. BatchIsWhole' /\ LeftIsAnnounced' /\ WakesForNews'
  BY <1>2, <1>3 DEF BatchIsWhole, LeftIsAnnounced, WakesForNews
<1>7. \A c \in Client : QueueIsWhole(c)' /\ ReplayIsWhole(c)'
  BY <1>2, <1>3 DEF QueueIsWhole, ReplayIsWhole
<1> QED BY <1>4, <1>5, <1>6, <1>7 DEF HubInv
----------------------------------------------------------------------------
(* A connection *)

\* A handler touches nothing but its own connection.
LEMMA ConnectionMoves ==
    ASSUME HubInv, StreamOnly, NEW c \in Client, hub.at # "starting",
           stream' = [d \in Client |-> stream'[d]], queue' = [d \in Client |-> queue'[d]],
           cursor' = [d \in Client |-> cursor'[d]], known' = [d \in Client |-> known'[d]],
           \A d \in Client : d # c => /\ stream'[d] = stream[d] /\ queue'[d] = queue[d]
                                      /\ cursor'[d] = cursor[d] /\ known'[d] = known[d],
           stream'[c] \in StreamRow, stream'[c].at = "off" <=> stream'[c].sub = "none",
           queue'[c] \in Seq(Nat), Len(queue'[c]) <= BufferSize, cursor'[c] \in Int,
           stream'[c].at \in {"accepted", "replaying"} =>
               \A u \in published \ log : Owed(u) => u <= cursor'[c],
           QueueIsWhole(c)', ReplayIsWhole(c)'
    PROVE  HubInv'
<1> USE DEF StreamOnly
<1>1. HubTypes'
  <2>1. /\ stream' \in [Client -> StreamRow] /\ queue' \in [Client -> Seq(Nat)] /\ cursor' \in [Client -> Int]
        /\ \A d \in Client : (stream'[d].at = "off" <=> stream'[d].sub = "none")
                             /\ Len(queue'[d]) <= BufferSize
    <3>1. ASSUME NEW d \in Client
          PROVE  /\ stream'[d] \in StreamRow /\ queue'[d] \in Seq(Nat) /\ cursor'[d] \in Int
                 /\ (stream'[d].at = "off" <=> stream'[d].sub = "none") /\ Len(queue'[d]) <= BufferSize
      BY ZenonT(60) DEF HubInv, HubTypes
    <3>2. /\ stream' = [d \in Client |-> stream'[d]] /\ queue' = [d \in Client |-> queue'[d]]
          /\ cursor' = [d \in Client |-> cursor'[d]]
      OBVIOUS
    <3> QED BY <3>1, <3>2
  <2> QED BY <2>1 DEF HubInv, HubTypes
<1>2. NobodyYet' /\ LogIsRecent'
  BY DEF HubInv, NobodyYet, LogIsRecent
<1>3. PurgedWereRead'
  BY DEF HubInv, PurgedWereRead, Owed
<1>4. BatchIsWhole' /\ LeftIsAnnounced' /\ WakesForNews'
  BY DEF HubInv, BatchIsWhole, LeftIsAnnounced, WakesForNews, Published, Owed
<1>5. ASSUME NEW d \in Client PROVE QueueIsWhole(d)' /\ ReplayIsWhole(d)'
  <2>1. CASE d # c
    BY <2>1 DEF HubInv, QueueIsWhole, ReplayIsWhole, Published, Start, Owed
  <2> QED BY <2>1
<1> QED BY <1>1, <1>2, <1>3, <1>4, <1>5 DEF HubInv

\* What the proofs about a connection need of its state.
LEMMA ConnectionFacts ==
    ASSUME HubInv, NEW c \in Client
    PROVE  /\ stream[c] \in StreamRow /\ queue[c] \in Seq(Nat) /\ Len(queue[c]) <= BufferSize
           /\ cursor[c] \in Int /\ hub.version \in Nat /\ published \subseteq Nat /\ log \subseteq published
           /\ stream = [d \in Client |-> stream[d]] /\ queue = [d \in Client |-> queue[d]]
           /\ cursor = [d \in Client |-> cursor[d]] /\ known = [d \in Client |-> known[d]]
           /\ stream[c].at = "off" <=> stream[c].sub = "none"
           /\ stream[c].at # "off" => hub.at # "starting"
  BY DEF HubInv, HubTypes, HubRow, NobodyYet

LEMMA SubscribeKeeps == ASSUME HubInv, NEW c \in Client, Subscribe(c) PROVE HubInv'
<1> DEFINE x == [NoStream EXCEPT !.at = "subscribed", !.sub = "open", !.from = hub.version]
<1>1. x \in StreamRow /\ x.at = "subscribed" /\ x.sub = "open" /\ x.from = hub.version
  <2>1. NoStream \in StreamRow
    BY DEF NoStream, StreamRow
  <2>2. hub.version \in Nat
    BY ConnectionFacts
  <2> QED BY <2>1, <2>2 DEF StreamRow
<1>2. stream' = [stream EXCEPT ![c] = x] /\ queue' = [queue EXCEPT ![c] = <<>>]
      /\ UNCHANGED <<cursor, known>> /\ hub.at # "starting" /\ StreamOnly
  BY DEF Subscribe
<1> HIDE DEF x
<1>3. /\ stream' = [d \in Client |-> stream'[d]] /\ queue' = [d \in Client |-> queue'[d]]
      /\ cursor' = [d \in Client |-> cursor'[d]] /\ known' = [d \in Client |-> known'[d]]
      /\ \A d \in Client : d # c => /\ stream'[d] = stream[d] /\ queue'[d] = queue[d]
                                    /\ cursor'[d] = cursor[d] /\ known'[d] = known[d]
      /\ stream'[c] = x /\ queue'[c] = <<>> /\ cursor'[c] = cursor[c]
  BY <1>2, ConnectionFacts
<1>4. <<>> \in Seq(Nat) /\ Len(<<>>) <= BufferSize
  BY HubConstants DEF HubConstants
<1>5. ReplayIsWhole(c)'
  BY <1>1, <1>3 DEF ReplayIsWhole
<1>6. QueueIsWhole(c)'
  <2>1. hub' = hub /\ published' = published /\ hub.version \in published \cup {0} /\ hub.version \in Nat
    BY <1>2, ConnectionFacts DEF StreamOnly, HubInv, NobodyYet
  <2> QED BY <1>1, <1>3, <2>1 DEF QueueIsWhole, Published, Ascends, Start
<1>7. cursor[c] \in Int
  BY ConnectionFacts
<1> QED BY <1>1, <1>2, <1>3, <1>4, <1>5, <1>6, <1>7, ConnectionMoves

\* Retention takes the oldest: a cursor that can be resumed has read what it took.
LEMMA ResumableHasRead ==
    ASSUME HubInv, NEW v \in Int, Resumable(v)
    PROVE  \A u \in published \ log : u <= v
<1> SUFFICES ASSUME NEW u \in published \ log PROVE u <= v
  OBVIOUS
<1>1. log # {} /\ OldestVersion \in log /\ log \subseteq Nat
  BY LatestAndOldest DEF HubInv, LogIsRecent
<1>2. u \in Nat /\ u < OldestVersion /\ OldestVersion \in Nat
  BY <1>1 DEF HubInv, HubTypes, LogIsRecent
<1>3. OldestVersion \in Nat \ {0}
  BY <1>1 DEF HubInv, HubTypes
<1> QED BY <1>2, <1>3 DEF Resumable

LEMMA AcceptKeeps == ASSUME HubInv, NEW c \in Client, Accept(c) PROVE HubInv'
<1>1. stream[c] \in StreamRow /\ stream[c].at = "subscribed" /\ hub.at # "starting" /\ StreamOnly
      /\ queue' = queue /\ stream[c].sub # "none"
  BY ConnectionFacts DEF Accept
<1>2. /\ QueueIsWhole(c) /\ stream[c].from \in published \cup {0} /\ stream[c].from \in Int
      /\ UNCHANGED <<hub, published, excused>>
  BY <1>1 DEF HubInv, QueueIsWhole, StreamRow, StreamOnly
<1>3. CASE cursor[c] >= 0 /\ Resumable(cursor[c])
  <2>1. stream' = [stream EXCEPT ![c].at = "accepted"] /\ UNCHANGED <<cursor, known>>
    BY <1>3 DEF Accept
  <2>2. /\ stream' = [d \in Client |-> stream'[d]]
        /\ \A d \in Client : d # c => stream'[d] = stream[d]
        /\ stream'[c] = [stream[c] EXCEPT !.at = "accepted"]
    BY <2>1, ConnectionFacts
  <2>3. /\ stream'[c] \in StreamRow /\ stream'[c].at = "accepted" /\ stream'[c].sub = stream[c].sub
        /\ stream'[c].from = stream[c].from
    BY <1>1, <2>2 DEF StreamRow
  <2>4. QueueIsWhole(c)'
    BY <1>1, <1>2, <2>1, <2>3 DEF QueueIsWhole, Published, Start, Owed
  <2>5. ReplayIsWhole(c)'
    BY <2>3 DEF ReplayIsWhole
  <2>6. \A u \in published \ log : u <= cursor[c]
    BY <1>3, ResumableHasRead, ConnectionFacts
  <2> QED BY <1>1, <2>1, <2>2, <2>3, <2>4, <2>5, <2>6, ConnectionFacts, ConnectionMoves
<1>4. CASE ~(cursor[c] >= 0 /\ Resumable(cursor[c]))
  <2>1. /\ stream' = [stream EXCEPT ![c].at = "live"]
        /\ cursor' = [cursor EXCEPT ![c] = stream[c].from]
        /\ known' = [known EXCEPT ![c] = published]
    BY <1>4 DEF Accept
  <2>2. /\ stream' = [d \in Client |-> stream'[d]] /\ cursor' = [d \in Client |-> cursor'[d]]
        /\ known' = [d \in Client |-> known'[d]]
        /\ \A d \in Client : d # c => /\ stream'[d] = stream[d] /\ cursor'[d] = cursor[d] /\ known'[d] = known[d]
        /\ stream'[c] = [stream[c] EXCEPT !.at = "live"] /\ cursor'[c] = stream[c].from
        /\ known'[c] = published
    BY <2>1, ConnectionFacts
  <2>3. /\ stream'[c] \in StreamRow /\ stream'[c].at = "live" /\ stream'[c].sub = stream[c].sub
        /\ stream'[c].from = stream[c].from
    BY <1>1, <2>2 DEF StreamRow
  <2>4. QueueIsWhole(c)'
    BY <1>1, <1>2, <2>2, <2>3 DEF QueueIsWhole, Published, Start, Owed
  <2>5. ReplayIsWhole(c)'
    BY <2>3 DEF ReplayIsWhole
  <2> QED BY <1>1, <1>2, <2>1, <2>2, <2>3, <2>4, <2>5, ConnectionFacts, ConnectionMoves
<1> QED BY <1>3, <1>4

LEMMA ReadPendingKeeps == ASSUME HubInv, NEW c \in Client, ReadPending(c) PROVE HubInv'
<1> DEFINE s == ListAfter(cursor[c], BatchSize)
<1>1. /\ stream[c] \in StreamRow /\ stream[c].at = "accepted" /\ hub.at # "starting" /\ StreamOnly
      /\ UNCHANGED <<queue, cursor, known>> /\ stream[c].sub # "none" /\ cursor[c] \in Int
      /\ published \subseteq Nat /\ log \subseteq published
  BY ConnectionFacts DEF ReadPending
<1>2. BatchSize \in Nat \ {0} /\ log \in SUBSET Nat /\ IsFiniteSet(log)
  BY HubConstants, LatestAndOldest DEF HubConstants
<1>3. /\ s \in Seq(Nat) /\ Ascends(s) /\ Len(s) \in Nat
      /\ \A i \in 1..Len(s) : s[i] \in log /\ s[i] > cursor[c]
      /\ \A u \in log : u > cursor[c] =>
            \/ Holds(s, u)
            \/ Len(s) = BatchSize /\ Below(s, u)
  <2>1. cursor[c] \in Int /\ BatchSize \in Nat \ {0}
    BY <1>1, <1>2
  <2>2. /\ s \in Seq(Nat) /\ Ascends(s)
        /\ \A i \in 1..Len(s) : s[i] \in log /\ s[i] > cursor[c]
        /\ \A u \in log : u > cursor[c] =>
              \/ Holds(s, u)
              \/ Len(s) = BatchSize /\ Below(s, u)
    BY ZenonT(60), <1>2, <2>1, ListAfterIs
  <2>3. Len(s) \in Nat
    BY <2>2
  <2> QED BY <2>2, <2>3
<1>4. stream' = [stream EXCEPT ![c].at = "replaying", ![c].todo = s, ![c].more = (Len(s) = BatchSize)]
  BY DEF ReadPending
<1> HIDE DEF s
<1> DEFINE x == [stream[c] EXCEPT !.at = "replaying", !.todo = s, !.more = (Len(s) = BatchSize)]
<1>5. stream' = [stream EXCEPT ![c] = x]
  BY <1>4
<1>6. /\ x \in StreamRow /\ x.at = "replaying" /\ x.sub = stream[c].sub /\ x.from = stream[c].from
      /\ x.todo = s /\ x.more = (Len(s) = BatchSize)
  BY <1>1, <1>3 DEF StreamRow
<1> HIDE DEF x
<1>7. /\ stream' = [d \in Client |-> stream'[d]] /\ stream'[c] = x
      /\ \A d \in Client : d # c => stream'[d] = stream[d]
  BY <1>5, ConnectionFacts
<1>8. QueueIsWhole(c)'
  <2>1. QueueIsWhole(c)
    BY DEF HubInv
  <2> QED BY <1>1, <1>6, <1>7, <2>1 DEF QueueIsWhole, Published, Start, Owed, StreamOnly
<1>9. ReplayIsWhole(c)'
  <2>1. \A u \in Nat : Owed(u) /\ u > cursor[c] => u \in log
    BY <1>1 DEF HubInv, PurgedWereRead, Owed
  <2>2. \A u \in Nat : Owed(u) /\ u > cursor[c] =>
            \/ Holds(s, u)
            \/ Len(s) = BatchSize /\ Below(s, u)
    BY <1>3, <2>1
  <2>3. Published(s, cursor[c])
    BY <1>1, <1>3 DEF Published
  <2> QED BY <1>1, <1>6, <1>7, <2>2, <2>3 DEF ReplayIsWhole, Published, Owed, StreamOnly
<1>10. \A u \in published \ log : Owed(u) => u <= cursor'[c]
  BY <1>1 DEF HubInv, PurgedWereRead
<1> QED BY <1>1, <1>6, <1>7, <1>8, <1>9, <1>10, ConnectionFacts, ConnectionMoves

\* The head of versions in order, and the rest.
LEMMA HeadAndTail ==
    ASSUME NEW s \in Seq(Nat), s # <<>>, Ascends(s)
    PROVE  /\ Head(s) = s[1] /\ Len(s) \in Nat \ {0} /\ Head(s) \in Nat
           /\ Tail(s) \in Seq(Nat) /\ Len(Tail(s)) = Len(s) - 1 /\ Ascends(Tail(s))
           /\ \A i \in 1..Len(Tail(s)) : i + 1 \in 1..Len(s) /\ Tail(s)[i] = s[i + 1] /\ Tail(s)[i] > Head(s)
           /\ \A u \in Nat : Holds(s, u) => u = Head(s) \/ (u > Head(s) /\ Holds(Tail(s), u))
           /\ \A u \in Nat : Below(s, u) => u > Head(s) /\ Below(Tail(s), u)
<1>1. /\ Head(s) = s[1] /\ Len(s) \in Nat \ {0} /\ Head(s) \in Nat
      /\ Tail(s) \in Seq(Nat) /\ Len(Tail(s)) = Len(s) - 1
      /\ \A i \in 1..Len(Tail(s)) : i + 1 \in 1..Len(s) /\ Tail(s)[i] = s[i + 1]
  OBVIOUS
<1>2. \A i \in 1..Len(s) : i = 1 \/ (i - 1 \in 1..Len(Tail(s)) /\ s[i] = Tail(s)[i - 1])
  <2> SUFFICES ASSUME NEW i \in 1..Len(s), i # 1
               PROVE  i - 1 \in 1..Len(Tail(s)) /\ s[i] = Tail(s)[i - 1]
    OBVIOUS
  <2>1. i - 1 \in 1..Len(Tail(s)) /\ (i - 1) + 1 = i
    BY <1>1
  <2> QED BY <1>1, <2>1
<1> DEFINE t == Tail(s)
<1>3. /\ t \in Seq(Nat) /\ Len(t) = Len(s) - 1 /\ \A i \in 1..Len(t) : i + 1 \in 1..Len(s) /\ t[i] = s[i + 1]
      /\ \A i \in 1..Len(s) : i = 1 \/ (i - 1 \in 1..Len(t) /\ s[i] = t[i - 1])
  BY <1>1, <1>2
<1> HIDE DEF t
<1>4. Ascends(t) /\ \A i \in 1..Len(t) : t[i] > s[1]
  <2>1. \A i \in 1..Len(t) : t[i] = s[i + 1] /\ i + 1 \in 1..Len(s) /\ 1 < i + 1
    BY <1>3
  <2>2. 1 \in 1..Len(s) /\ \A i \in 1..Len(s) : s[i] \in Nat
    BY <1>1
  <2>3. \A i \in 1..Len(t) : s[1] < t[i]
    BY <2>1, <2>2 DEF Ascends
  <2>4. \A i, j \in 1..Len(t) : i < j => s[i + 1] < s[j + 1]
    BY <2>1 DEF Ascends
  <2>5. \A i \in 1..Len(t) : t[i] \in Nat
    BY <2>1, <2>2
  <2> QED BY <2>1, <2>2, <2>3, <2>4, <2>5 DEF Ascends
<1>5. ASSUME NEW u \in Nat, Holds(s, u) PROVE u = s[1] \/ (u > s[1] /\ Holds(t, u))
  <2>1. PICK i \in 1..Len(s) : s[i] = u
    BY <1>5 DEF Holds
  <2>2. CASE i # 1
    <3>1. i - 1 \in 1..Len(t) /\ t[i - 1] = u
      BY <1>3, <2>1, <2>2
    <3>2. u > s[1]
      BY <1>4, <3>1
    <3> QED BY <3>1, <3>2 DEF Holds
  <2> QED BY <2>1, <2>2
<1>6. ASSUME NEW u \in Nat, Below(s, u) PROVE u > s[1] /\ Below(t, u)
  BY SMTT(40), <1>1, <1>3, <1>6 DEF Below
<1> QED BY <1>1, <1>3, <1>4, <1>5, <1>6 DEF t

LEMMA SendPendingKeeps == ASSUME HubInv, NEW c \in Client, SendPending(c) PROVE HubInv'
<1> DEFINE s == stream[c].todo
<1>1. /\ stream[c] \in StreamRow /\ stream[c].at = "replaying" /\ hub.at # "starting" /\ StreamOnly
      /\ queue' = queue /\ stream[c].sub # "none" /\ cursor[c] \in Int /\ QueueIsWhole(c)
      /\ UNCHANGED <<hub, published, excused, log>> /\ stream[c].from \in Nat
  BY ConnectionFacts DEF SendPending, StreamOnly, HubInv, StreamRow
<1>2. /\ s \in Seq(Nat) /\ Ascends(s) /\ stream[c].more \in BOOLEAN
      /\ \A i \in 1..Len(s) : s[i] \in published /\ s[i] > cursor[c]
      /\ \A u \in Nat : (Owed(u) /\ u > cursor[c] /\ u \notin known[c]) =>
            /\ Holds(s, u) \/ Below(s, u)
            /\ ~stream[c].more => Holds(s, u) \/ u > stream[c].from
  BY <1>1 DEF HubInv, ReplayIsWhole, Published, StreamRow
<1>3. \A u \in published \ log : Owed(u) => u <= cursor[c]
  BY <1>1 DEF HubInv, PurgedWereRead
<1>4. CASE s # <<>>
  <2>1. /\ Head(s) = s[1] /\ Len(s) \in Nat \ {0} /\ Head(s) \in Nat
        /\ Tail(s) \in Seq(Nat) /\ Ascends(Tail(s))
        /\ \A i \in 1..Len(Tail(s)) : i + 1 \in 1..Len(s) /\ Tail(s)[i] = s[i + 1] /\ Tail(s)[i] > Head(s)
        /\ \A u \in Nat : Holds(s, u) => u = Head(s) \/ (u > Head(s) /\ Holds(Tail(s), u))
        /\ \A u \in Nat : Below(s, u) => u > Head(s) /\ Below(Tail(s), u)
    BY <1>2, <1>4, HeadAndTail
  <2>2. /\ cursor' = [cursor EXCEPT ![c] = Head(s)] /\ known' = [known EXCEPT ![c] = @ \cup {Head(s)}]
        /\ stream' = [stream EXCEPT ![c].todo = Tail(s)]
    BY <1>4 DEF SendPending, Sent
  <2>3. Head(s) > cursor[c]
    BY <1>2, <2>1
  <2>4. /\ stream' = [d \in Client |-> stream'[d]] /\ cursor' = [d \in Client |-> cursor'[d]]
        /\ known' = [d \in Client |-> known'[d]]
        /\ \A d \in Client : d # c => /\ stream'[d] = stream[d] /\ cursor'[d] = cursor[d] /\ known'[d] = known[d]
        /\ stream'[c] = [stream[c] EXCEPT !.todo = Tail(s)] /\ cursor'[c] = Head(s)
        /\ known'[c] = known[c] \cup {Head(s)}
    BY <2>2, ConnectionFacts
  <2>5. /\ stream'[c] \in StreamRow /\ stream'[c].at = "replaying" /\ stream'[c].sub = stream[c].sub
        /\ stream'[c].from = stream[c].from /\ stream'[c].more = stream[c].more
        /\ stream'[c].todo = Tail(s)
    BY <1>1, <2>1, <2>4 DEF StreamRow
  <2>6. QueueIsWhole(c)'
    BY <1>1, <2>5 DEF QueueIsWhole, Published, Start, Owed
  <2>7. ReplayIsWhole(c)'
    <3>1. Published(Tail(s), Head(s))
      BY <1>2, <2>1 DEF Published
    <3>2. ASSUME NEW u \in Nat, Owed(u), u > Head(s), u \notin known[c]
          PROVE  /\ Holds(Tail(s), u) \/ Below(Tail(s), u)
                 /\ ~stream[c].more => Holds(Tail(s), u) \/ u > stream[c].from
      <4>1. u > cursor[c]
        BY <1>1, <2>1, <2>3, <3>2
      <4> QED BY <1>2, <2>1, <3>2, <4>1
    <3> QED BY <1>1, <2>4, <2>5, <3>1, <3>2 DEF ReplayIsWhole, Published, Owed
  <2>8. \A u \in published \ log : Owed(u) => u <= cursor'[c]
    BY <1>1, <1>3, <2>1, <2>3, <2>4, ConnectionFacts
  <2>9. cursor'[c] \in Int
    BY <2>1, <2>4
  <2> QED BY <1>1, <2>4, <2>5, <2>6, <2>7, <2>8, <2>9, ConnectionFacts, ConnectionMoves
<1>5. CASE s = <<>>
  <2>1. /\ stream' = [stream EXCEPT ![c].at = IF stream[c].more THEN "accepted" ELSE "live"]
        /\ UNCHANGED <<cursor, known>>
    BY <1>5 DEF SendPending
  <2>2. /\ stream' = [d \in Client |-> stream'[d]]
        /\ \A d \in Client : d # c => stream'[d] = stream[d]
        /\ stream'[c] = [stream[c] EXCEPT !.at = IF stream[c].more THEN "accepted" ELSE "live"]
    BY <2>1, ConnectionFacts
  <2>3. /\ stream'[c] \in StreamRow /\ stream'[c].sub = stream[c].sub
        /\ stream'[c].at = IF stream[c].more THEN "accepted" ELSE "live"
        /\ stream'[c].from = stream[c].from
    BY <1>1, <2>2 DEF StreamRow
  <2>4. QueueIsWhole(c)'
    <3>1. \A u \in Nat : ~Holds(s, u)
      BY <1>5 DEF Holds
    <3>2. ~stream[c].more =>
            \A u \in Nat : (Owed(u) /\ u > cursor[c] /\ u \notin known[c]) => u > stream[c].from
      BY <1>2, <3>1
    <3>3. ASSUME NEW u \in Nat, Owed(u), u > Start(c)', ~(stream'[c].at = "live" /\ u \in known[c])
          PROVE  /\ u > stream[c].from
                 /\ \/ Holds(queue[c], u)
                    \/ stream[c].sub = "open" /\ u > hub.version
                    \/ stream[c].sub = "lagging" /\ Below(queue[c], u)
      <4>1. u > stream[c].from
        BY <2>1, <2>3, <3>2, <3>3 DEF Start
      <4> QED BY <1>1, <3>3, <4>1 DEF QueueIsWhole, Start
    <3>4. /\ stream'[c].from \in published' \cup {0} /\ stream'[c].from <= hub'.version
          /\ Published(queue[c], -1)' /\ \A i \in 1..Len(queue'[c]) : queue'[c][i] <= hub'.version
      BY <1>1, <2>3 DEF QueueIsWhole, Published
    <3>5. \A u \in Nat : (Owed(u)' /\ u > Start(c)' /\ ~(stream'[c].at = "live" /\ u \in known'[c])) =>
             \/ Holds(queue[c], u)'
             \/ stream'[c].sub = "open" /\ u > hub'.version
             \/ stream'[c].sub = "lagging" /\ Below(queue[c], u)'
      BY <1>1, <2>1, <2>3, <3>3 DEF Owed
    <3> QED BY <3>4, <3>5 DEF QueueIsWhole
  <2>5. ReplayIsWhole(c)'
    BY <2>3 DEF ReplayIsWhole
  <2>6. /\ stream'[c].at = "off" <=> stream'[c].sub = "none"
        /\ queue'[c] \in Seq(Nat) /\ Len(queue'[c]) <= BufferSize /\ cursor'[c] \in Int
        /\ \A u \in published \ log : Owed(u) => u <= cursor'[c]
        /\ queue' = [d \in Client |-> queue'[d]] /\ cursor' = [d \in Client |-> cursor'[d]]
        /\ known' = [d \in Client |-> known'[d]]
    BY <1>1, <1>3, <2>1, <2>3, ConnectionFacts
  <2>7. /\ stream' = [d \in Client |-> stream'[d]] /\ StreamOnly /\ hub.at # "starting"
        /\ \A d \in Client : d # c => /\ stream'[d] = stream[d] /\ queue'[d] = queue[d]
                                      /\ cursor'[d] = cursor[d] /\ known'[d] = known[d]
    BY <1>1, <2>1, <2>2
  <2> QED BY <2>3, <2>4, <2>5, <2>6, <2>7, ConnectionMoves
<1> QED BY <1>4, <1>5

LEMMA SendEventKeeps == ASSUME HubInv, NEW c \in Client, SendEvent(c) PROVE HubInv'
<1> DEFINE q == queue[c]
           h == Head(q)
<1>1. /\ stream[c] \in StreamRow /\ stream[c].at = "live" /\ hub.at # "starting" /\ StreamOnly
      /\ stream' = stream /\ stream[c].sub # "none" /\ cursor[c] \in Int /\ hub.version \in Nat
      /\ UNCHANGED <<hub, published, excused, log>> /\ q # <<>> /\ Len(q) <= BufferSize
      /\ q \in Seq(Nat) /\ BufferSize \in Nat
  BY ConnectionFacts, HubConstants DEF SendEvent, StreamOnly, HubConstants
<1>2. /\ stream[c].from \in published \cup {0} /\ stream[c].from <= hub.version
      /\ Ascends(q) /\ \A i \in 1..Len(q) : q[i] \in published /\ q[i] > -1 /\ q[i] <= hub.version
      /\ \A u \in Nat : (Owed(u) /\ u > cursor[c] /\ u \notin known[c]) =>
            \/ Holds(q, u)
            \/ stream[c].sub = "open" /\ u > hub.version
            \/ stream[c].sub = "lagging" /\ Below(q, u)
  BY <1>1 DEF HubInv, QueueIsWhole, Published, Start
<1>3. /\ h = q[1] /\ Len(q) \in Nat \ {0} /\ h \in Nat
      /\ Tail(q) \in Seq(Nat) /\ Len(Tail(q)) = Len(q) - 1 /\ Ascends(Tail(q))
      /\ \A i \in 1..Len(Tail(q)) : i + 1 \in 1..Len(q) /\ Tail(q)[i] = q[i + 1] /\ Tail(q)[i] > h
      /\ \A u \in Nat : Holds(q, u) => u = h \/ (u > h /\ Holds(Tail(q), u))
      /\ \A u \in Nat : Below(q, u) => u > h /\ Below(Tail(q), u)
  BY <1>1, <1>2, HeadAndTail
<1>4. /\ queue' = [queue EXCEPT ![c] = Tail(q)]
      /\ \/ h <= cursor[c] /\ UNCHANGED <<cursor, known>>
         \/ /\ ~(h <= cursor[c])
            /\ cursor' = [cursor EXCEPT ![c] = h] /\ known' = [known EXCEPT ![c] = @ \cup {h}]
  BY DEF SendEvent, AlreadySent, Sent
<1> HIDE DEF q, h
<1>5. /\ queue' = [d \in Client |-> queue'[d]] /\ cursor' = [d \in Client |-> cursor'[d]]
      /\ known' = [d \in Client |-> known'[d]]
      /\ \A d \in Client : d # c => /\ queue'[d] = queue[d] /\ cursor'[d] = cursor[d] /\ known'[d] = known[d]
      /\ queue'[c] = Tail(q)
      /\ \/ h <= cursor[c] /\ cursor'[c] = cursor[c] /\ known'[c] = known[c]
         \/ h > cursor[c] /\ cursor'[c] = h /\ known'[c] = known[c] \cup {h}
  <2>1. CASE h <= cursor[c] /\ UNCHANGED <<cursor, known>>
    BY <1>4, <2>1, ConnectionFacts
  <2>2. CASE /\ ~(h <= cursor[c])
             /\ cursor' = [cursor EXCEPT ![c] = h] /\ known' = [known EXCEPT ![c] = @ \cup {h}]
    <3>1. h > cursor[c]
      BY <1>1, <1>3, <2>2
    <3> QED BY <1>4, <2>2, <3>1, ConnectionFacts
  <2> QED BY <1>4, <2>1, <2>2
<1>6. ReplayIsWhole(c)'
  BY <1>1 DEF ReplayIsWhole
<1>7. QueueIsWhole(c)'
  <2>1. \A i \in 1..Len(Tail(q)) : Tail(q)[i] \in published /\ Tail(q)[i] > -1 /\ Tail(q)[i] <= hub.version
    BY <1>2, <1>3
  <2>2. ASSUME NEW u \in Nat, Owed(u), u > cursor'[c], u \notin known'[c]
        PROVE  \/ Holds(Tail(q), u)
               \/ stream[c].sub = "open" /\ u > hub.version
               \/ stream[c].sub = "lagging" /\ Below(Tail(q), u)
    <3>1. u > cursor[c] /\ u \notin known[c] /\ u # h
      BY <1>1, <1>3, <1>5, <2>2
    <3> QED BY <1>2, <1>3, <2>2, <3>1
  <2> QED BY <1>1, <1>2, <1>3, <1>5, <2>1, <2>2 DEF QueueIsWhole, Published, Start, Owed
<1>8. /\ cursor'[c] \in Int /\ Tail(q) \in Seq(Nat) /\ Len(Tail(q)) <= BufferSize
      /\ stream' = [d \in Client |-> stream'[d]] /\ stream'[c] = stream[c]
  BY <1>1, <1>3, <1>5, ConnectionFacts
<1> QED BY <1>1, <1>5, <1>6, <1>7, <1>8, ConnectionFacts, ConnectionMoves

LEMMA LeavingKeeps ==
    ASSUME HubInv, NEW c \in Client, CloseEnded(c) \/ Disconnect(c)
    PROVE  HubInv'
<1>1. /\ NoStream \in StreamRow /\ NoStream.at = "off" /\ NoStream.sub = "none"
      /\ <<>> \in Seq(Nat) /\ Len(<<>>) <= BufferSize
  BY HubConstants DEF NoStream, StreamRow, HubConstants
<1>2. /\ stream' = [stream EXCEPT ![c] = NoStream] /\ StreamOnly /\ UNCHANGED <<cursor, known>>
      /\ queue' = queue \/ queue' = [queue EXCEPT ![c] = <<>>]
      /\ hub.at # "starting"
  BY ConnectionFacts DEF CloseEnded, Disconnect
<1>3. /\ stream' = [d \in Client |-> stream'[d]] /\ queue' = [d \in Client |-> queue'[d]]
      /\ \A d \in Client : d # c => stream'[d] = stream[d] /\ queue'[d] = queue[d]
      /\ stream'[c] = NoStream /\ queue'[c] \in Seq(Nat) /\ Len(queue'[c]) <= BufferSize
  BY <1>1, <1>2, ConnectionFacts
<1>4. QueueIsWhole(c)' /\ ReplayIsWhole(c)'
  BY <1>1, <1>3 DEF QueueIsWhole, ReplayIsWhole
<1> QED BY <1>1, <1>2, <1>3, <1>4, ConnectionFacts, ConnectionMoves

----------------------------------------------------------------------------

LEMMA FollowKeeps == ASSUME HubInv, NEW c \in Client, Follow(c) \/ Disconnect(c) PROVE HubInv'
  BY SubscribeKeeps, AcceptKeeps, ReadPendingKeeps, SendPendingKeeps, SendEventKeeps, LeavingKeeps
     DEF Follow

LEMMA HubNextKeeps == HubInv /\ [HubNext]_hubVars => HubInv'
<1> SUFFICES ASSUME HubInv, [HubNext]_hubVars PROVE HubInv'
  OBVIOUS
<1>1. CASE UNCHANGED hubVars
  <2> USE <1>1 DEF hubVars, HubInv
  <2>1. HubTypes' /\ NobodyYet' /\ LogIsRecent' /\ PurgedWereRead'
    BY DEF HubTypes, NobodyYet, LogIsRecent, PurgedWereRead, Owed
  <2>2. BatchIsWhole' /\ LeftIsAnnounced' /\ WakesForNews'
    BY DEF BatchIsWhole, LeftIsAnnounced, WakesForNews, Published, Owed
  <2>3. \A c \in Client : QueueIsWhole(c)' /\ ReplayIsWhole(c)'
    BY DEF QueueIsWhole, ReplayIsWhole, Published, Start, Owed
  <2> QED BY <2>1, <2>2, <2>3
<1>2. ASSUME NEW v \in Version, CommitEvent(v) \/ Purge(v) \/ Notified(v) PROVE HubInv'
  BY <1>2, CommitEventKeeps, PurgeKeeps, SessionKeeps
<1>3. CASE HubRun \/ CatchUpFails
  BY <1>3, InitializeKeeps, ReadingsKeep, CatchUpKeeps, BroadcastKeeps DEF HubRun
<1>4. CASE Listen \/ LoseSession \/ Probe \/ Shutdown
  BY <1>4, SessionKeeps, ShutdownKeeps
<1> QED BY <1>1, <1>2, <1>3, <1>4, AppendEventKeeps, FollowKeeps DEF HubNext

\* The hub, its session and its streams keep to one another in every state.
THEOREM HubInvariant == HubSpec => []HubInv
  BY HubInitially, HubNextKeeps, PTL DEF HubSpec

\* While its session listens, no version the hub has not read goes without an
\* announcement or a reading ahead: Initialize, Listen, Run and CatchUp, however
\* notifications, commits, retention, failures and restarts interleave.
THEOREM NoLostWakeUp == HubSpec => []WakesForNews
<1>1. HubInv => WakesForNews
  BY DEF HubInv
<1> QED BY <1>1, HubInvariant, PTL
----------------------------------------------------------------------------
(* Every step is a step of the feed *)

LEMMA PublishesOrExcuses ==
    ASSUME HubInv, NEW v \in Version, CommitEvent(v) \/ Purge(v)
    PROVE  Feed!FeedNext \/ UNCHANGED Feed!feedVars
<1>1. CASE CommitEvent(v)
  <2>1. v \notin published
    BY <1>1 DEF CommitEvent, HubInv, HubTypes
  <2>2. Feed!Publish(v)
    BY <1>1, <2>1 DEF CommitEvent, Feed!Publish
  <2> QED BY <2>2 DEF Feed!FeedNext
<1>2. CASE Purge(v)
  <2>1. excused' = excused \cup {v} \/ excused' = excused
    BY <1>2 DEF Purge
  <2>2. UNCHANGED <<published, known, cursor>>
    BY <1>2 DEF Purge
  <2>3. CASE excused' = excused
    BY <2>2, <2>3 DEF Feed!feedVars
  <2>4. CASE excused' = excused \cup {v}
    <3>1. {v} \in SUBSET Version
      OBVIOUS
    <3>2. Feed!Excuse
      BY <2>2, <2>4, <3>1 DEF Feed!Excuse
    <3> QED BY <3>2 DEF Feed!FeedNext
  <2> QED BY <2>1, <2>3, <2>4
<1> QED BY <1>1, <1>2

\* A version that is sent is the next one the client was owed.
LEMMA SendsInOrder ==
    ASSUME HubInv, NEW c \in Client, NEW s \in Seq(Nat), s # <<>>, Ascends(s), Head(s) \in published,
           Head(s) > cursor[c], Sent(c, Head(s)), UNCHANGED <<published, excused>>,
           \A u \in Nat : (Owed(u) /\ u > cursor[c] /\ u \notin known[c]) =>
              Holds(s, u) \/ Below(s, u) \/ u >= Head(s)
    PROVE  Feed!FeedNext
<1>1. /\ Head(s) \in Nat
      /\ \A u \in Nat : Holds(s, u) => u >= Head(s)
      /\ \A u \in Nat : Below(s, u) => u >= Head(s)
  BY HeadAndTail
<1>2. /\ published \subseteq Nat /\ cursor[c] \in Int /\ MaxVersion \in Nat
      /\ Head(s) \in Version
  BY SMTT(40), HubConstants DEF HubInv, HubTypes, Version, HubConstants
<1>3. Feed!Between(c, Head(s)) \subseteq known[c] \cup excused
  <2> SUFFICES ASSUME NEW u \in published, cursor[c] < u, u < Head(s), u \notin known[c], u \notin excused
               PROVE  FALSE
    BY DEF Feed!Between
  <2>1. u \in Nat /\ Owed(u) /\ u > cursor[c]
    BY <1>2 DEF Owed
  <2>2. u >= Head(s)
    BY <1>1, <2>1
  <2> QED BY <1>1, <2>1, <2>2
<1>4. Feed!Send(c, Head(s))
  BY <1>3 DEF Feed!Send, Sent
<1> QED BY <1>2, <1>4 DEF Feed!FeedNext

LEMMA SendsPending ==
    ASSUME HubInv, NEW c \in Client, SendPending(c)
    PROVE  Feed!FeedNext \/ UNCHANGED Feed!feedVars
<1>1. CASE stream[c].todo = <<>>
  BY <1>1 DEF SendPending, StreamOnly, Feed!feedVars
<1>2. CASE stream[c].todo # <<>>
  <2> DEFINE s == stream[c].todo
  <2>1. /\ s \in Seq(Nat) /\ s # <<>> /\ Sent(c, Head(s)) /\ UNCHANGED <<published, excused>>
        /\ Published(s, cursor[c])
        /\ \A u \in Nat : (Owed(u) /\ u > cursor[c] /\ u \notin known[c]) => Holds(s, u) \/ Below(s, u)
    BY <1>2, ConnectionFacts DEF SendPending, StreamOnly, HubInv, ReplayIsWhole, StreamRow
  <2> HIDE DEF s
  <2>2. Ascends(s) /\ Head(s) \in published /\ Head(s) > cursor[c]
    BY <2>1 DEF Published
  <2> QED BY <2>1, <2>2, SendsInOrder
<1> QED BY <1>1, <1>2

LEMMA SendsEvents ==
    ASSUME HubInv, NEW c \in Client, SendEvent(c)
    PROVE  Feed!FeedNext \/ UNCHANGED Feed!feedVars
<1> DEFINE s == queue[c]
<1>1. CASE AlreadySent(c, Head(s))
  BY <1>1 DEF SendEvent, StreamOnly, Feed!feedVars
<1>2. CASE ~AlreadySent(c, Head(s))
  <2>1. /\ s \in Seq(Nat) /\ s # <<>> /\ Sent(c, Head(s)) /\ UNCHANGED <<published, excused>>
        /\ QueueIsWhole(c) /\ stream[c].sub # "none" /\ stream[c].at = "live" /\ cursor[c] \in Int
    BY <1>2, ConnectionFacts DEF SendEvent, StreamOnly, HubInv
  <2>2. /\ Published(s, -1) /\ \A i \in 1..Len(s) : s[i] <= hub.version
        /\ \A u \in Nat : (Owed(u) /\ u > cursor[c] /\ u \notin known[c]) =>
              Holds(s, u) \/ u > hub.version \/ Below(s, u)
    BY <2>1 DEF QueueIsWhole, Start
  <2>3. Ascends(s) /\ Head(s) = s[1] /\ 1 \in 1..Len(s) /\ Head(s) \in Nat
    BY <2>1, <2>2 DEF Published
  <2>4. Head(s) \in published /\ Head(s) <= hub.version /\ Head(s) > cursor[c]
    BY <1>2, <2>1, <2>2, <2>3 DEF Published, AlreadySent
  <2>5. \A u \in Nat : u > hub.version => u >= Head(s)
    BY <2>3, <2>4, ConnectionFacts
  <2> HIDE DEF s
  <2> QED BY <2>1, <2>2, <2>3, <2>4, <2>5, SendsInOrder
<1> QED BY <1>1, <1>2

LEMMA AcceptsOrReloads ==
    ASSUME HubInv, NEW c \in Client, Accept(c)
    PROVE  Feed!FeedNext \/ UNCHANGED Feed!feedVars
<1>1. CASE cursor[c] >= 0 /\ Resumable(cursor[c])
  BY <1>1 DEF Accept, StreamOnly, Feed!feedVars
<1>2. CASE ~(cursor[c] >= 0 /\ Resumable(cursor[c]))
  <2>1. Feed!Reload(c, stream[c].from)
    BY <1>2 DEF Accept, StreamOnly, Feed!Reload
  <2>2. stream[c].from \in published \cup {0}
    BY ConnectionFacts DEF HubInv, QueueIsWhole, Accept
  <2>3. stream[c].from \in Version \cup {0}
    BY <2>2, HubConstants DEF HubInv, HubTypes, Version, HubConstants
  <2> QED BY <2>1, <2>3 DEF Feed!FeedNext
<1> QED BY <1>1, <1>2

LEMMA StepsAreFeedSteps == HubInv /\ [HubNext]_hubVars => [Feed!FeedNext]_Feed!feedVars
<1> SUFFICES ASSUME HubInv, [HubNext]_hubVars PROVE Feed!FeedNext \/ UNCHANGED Feed!feedVars
  OBVIOUS
<1>1. CASE UNCHANGED hubVars
  BY <1>1 DEF hubVars, Feed!feedVars
<1>2. CASE AppendEvent \/ \E v \in Version : Notified(v)
  BY <1>2 DEF AppendEvent, Notified, HubOnly, Feed!feedVars
<1>3. CASE HubRun \/ Listen \/ LoseSession \/ Probe \/ CatchUpFails \/ Shutdown
  BY <1>3 DEF HubRun, Initialize, Wake, CatchUp, Broadcast, Listen, LoseSession, Probe, CatchUpFails,
              Shutdown, HubOnly, Feed!feedVars
<1>4. ASSUME NEW c \in Client, Follow(c) \/ Disconnect(c)
      PROVE  Feed!FeedNext \/ UNCHANGED Feed!feedVars
  <2>1. CASE Subscribe(c) \/ ReadPending(c) \/ CloseEnded(c) \/ Disconnect(c)
    BY <2>1 DEF Subscribe, ReadPending, CloseEnded, Disconnect, StreamOnly, Feed!feedVars
  <2> QED BY <1>4, <2>1, AcceptsOrReloads, SendsPending, SendsEvents DEF Follow
<1> QED BY <1>1, <1>2, <1>3, <1>4, PublishesOrExcuses DEF HubNext

\* The hub, the replays and the reconnections implement the feed the API
\* promises, but for the liveness TLC checks: no client is sent a version out of
\* order or twice, nor past one it was owed, whatever is cut, purged or restarted.
THEOREM HubImplementsFeed == HubSpec => Feed!FeedSafety
<1>1. HubInit => Feed!FeedInit
  BY DEF HubInit, Feed!FeedInit
<1> QED BY <1>1, HubInvariant, StepsAreFeedSteps, PTL DEF HubSpec, Feed!FeedSafety

=============================================================================
