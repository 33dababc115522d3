----------------------------- MODULE RealtimeHub -----------------------------
(***************************************************************************)
(* The events of an instance on their way to its clients: transactions     *)
(* append them, NOTIFY announces them, the hub reads them once and hands   *)
(* them to its subscriptions (internal/realtime), and the WebSocket        *)
(* handler replays what a client missed before it follows its subscription *)
(* (internal/httpapi/realtime.go).                                         *)
(*                                                                         *)
(* A version is given to an event when it is inserted, and is visible when *)
(* its transaction commits: several transactions commit in any order.      *)
(***************************************************************************)
EXTENDS Integers, Sequences, FiniteSets

CONSTANTS
    Client,
    MaxVersion,     \* bound on the events
    MaxOpen,        \* bound on the transactions open at the same time
    BatchSize,      \* events of one reading, of the hub and of a replay
    BufferSize,     \* events a subscription holds
    MaxPurges,      \* bound on what retention deletes
    MaxCuts         \* bound on cut connections, failed readings and restarts

ASSUME HubConstants ==
    /\ MaxVersion \in Nat /\ MaxOpen \in Nat /\ MaxPurges \in Nat /\ MaxCuts \in Nat
    /\ BatchSize \in Nat \ {0} /\ BufferSize \in Nat \ {0}

Version == 1..MaxVersion

VARIABLES
    last,       \* the last version given
    open,       \* the versions of transactions that have not committed
    log,        \* the versions in cairnops_events
    session,    \* the LISTEN session: down, up, or dead without knowing
    notes,      \* the notifications the session holds
    hub,        \* version, wake, and what Run is doing with which events
    stream,     \* Client -> its connection: what its handler does
    queue,      \* Client -> the channel of its subscription
    cursor,     \* Client -> the last version it was sent
    published, excused, known,      \* history, see EventFeed
    purges, cuts

hubVars == <<last, open, log, session, notes, hub, stream, queue, cursor,
             published, excused, known, purges, cuts>>

Largest(s) == CHOOSE v \in s : \A u \in s : u <= v

Smallest(s) == CHOOSE v \in s : \A u \in s : v <= u

LatestVersion == IF log = {} THEN 0 ELSE Largest(log)

OldestVersion == IF log = {} THEN 0 ELSE Smallest(log)

\* The first n versions of the log after v, in order.
ListAfter(v, n) ==
    LET after == {u \in log : u > v}
        Place(u) == Cardinality({w \in after : w <= u}) IN
    [i \in 1..(IF Cardinality(after) < n THEN Cardinality(after) ELSE n) |->
        CHOOSE u \in after : Place(u) = i]

NoStream == [at |-> "off", sub |-> "none", from |-> 0, todo |-> <<>>, more |-> FALSE]

HubStarting == [version |-> 0, wake |-> FALSE, at |-> "starting", batch |-> <<>>]

HubInit ==
    /\ last = 0 /\ open = {} /\ log = {}
    /\ session = "down" /\ notes = {}
    /\ hub = HubStarting
    /\ stream = [c \in Client |-> NoStream]
    /\ queue = [c \in Client |-> <<>>]
    /\ cursor = [c \in Client |-> -1]
    /\ published = {} /\ excused = {} /\ known = [c \in Client |-> {}]
    /\ purges = 0 /\ cuts = 0

Cut == cuts < MaxCuts /\ cuts' = cuts + 1

----------------------------------------------------------------------------
(* The events *)

AppendEvent ==
    /\ last < MaxVersion /\ Cardinality(open) < MaxOpen
    /\ last' = last + 1
    /\ open' = open \cup {last + 1}
    /\ UNCHANGED <<log, session, notes, hub, stream, queue, cursor, published, excused,
                   known, purges, cuts>>

\* Excused: a later version is visible already.
CommitEvent(v) ==
    /\ v \in open
    /\ open' = open \ {v}
    /\ log' = log \cup {v}
    /\ notes' = IF session = "up" THEN notes \cup {v} ELSE notes
    /\ published' = published \cup {v}
    /\ excused' = IF \E u \in published : u > v THEN excused \cup {v} ELSE excused
    /\ UNCHANGED <<last, session, hub, stream, queue, cursor, known, purges, cuts>>

\* Someone has read the log only in part: the hub, or a replay.
Outrun(v) ==
    \/ v > hub.version
    \/ \E c \in Client : stream[c].at \in {"accepted", "replaying"} /\ v > cursor[c]

\* Retention keeps the newest event, and takes none that is younger than a
\* transaction in progress.  It is slower by days than a reading: the events it
\* takes from under one are excused.
Purge(v) ==
    /\ purges < MaxPurges /\ purges' = purges + 1
    /\ v \in log /\ v < LatestVersion /\ v = OldestVersion
    /\ \A u \in open : u > v
    /\ log' = log \ {v}
    /\ excused' = IF Outrun(v) THEN excused \cup {v} ELSE excused
    /\ UNCHANGED <<last, open, session, notes, hub, stream, queue, cursor, published, known, cuts>>

----------------------------------------------------------------------------
(* The hub *)

HubOnly == UNCHANGED <<last, open, log, queue, cursor, published, excused, known, purges>>

Initialize ==
    /\ hub.at = "starting"
    /\ hub' = [hub EXCEPT !.version = LatestVersion, !.at = "waiting"]
    /\ HubOnly /\ UNCHANGED <<session, notes, stream, cuts>>

\* Mutant: a session that is established again wakes nobody.
EstablishedQuietly == hub.wake

Established == TRUE

Listen ==
    /\ session = "down" /\ hub.at # "starting"
    /\ session' = "up" /\ notes' = {}
    /\ hub' = [hub EXCEPT !.wake = Established]
    /\ HubOnly /\ UNCHANGED <<stream, cuts>>

\* A version that was read already wakes nobody.
Notified(v) ==
    /\ v \in notes
    /\ notes' = notes \ {v}
    /\ hub' = [hub EXCEPT !.wake = @ \/ v > hub.version]
    /\ HubOnly /\ UNCHANGED <<session, stream, cuts>>

\* What a lost session held is lost; one may be lost without a sign.
LoseSession ==
    /\ session = "up" /\ Cut
    /\ session' \in {"down", "dead"} /\ notes' = {}
    /\ HubOnly /\ UNCHANGED <<hub, stream>>

Probe ==
    /\ session = "dead"
    /\ session' = "down"
    /\ HubOnly /\ UNCHANGED <<notes, hub, stream, cuts>>

\* A wake, a tick of the fallback or the retry of a reading comes at any time.
Awake == hub.at = "waiting"

Wake ==
    /\ Awake
    /\ hub' = [hub EXCEPT !.wake = FALSE, !.at = "reading"]
    /\ HubOnly /\ UNCHANGED <<session, notes, stream, cuts>>

CatchUp ==
    /\ hub.at = "reading"
    /\ hub' = [hub EXCEPT !.batch = ListAfter(hub.version, BatchSize),
                          !.at = IF ListAfter(hub.version, 1) = <<>> THEN "waiting" ELSE "broadcasting"]
    /\ HubOnly /\ UNCHANGED <<session, notes, stream, cuts>>

\* Read again after a delay, which the retry of Wake stands for.
CatchUpFails ==
    /\ hub.at = "reading" /\ Cut
    /\ hub' = [hub EXCEPT !.at = "waiting", !.wake = TRUE]
    /\ HubOnly /\ UNCHANGED <<session, notes, stream>>

Room(c) == BufferSize - Len(queue[c])

\* What fits is queued, and a subscription it does not fit ends.
Broadcast ==
    /\ hub.at = "broadcasting"
    /\ queue' = [c \in Client |->
                    IF stream[c].sub # "open" THEN queue[c]
                    ELSE queue[c] \o (IF Len(hub.batch) <= Room(c) THEN hub.batch
                                      ELSE SubSeq(hub.batch, 1, Room(c)))]
    /\ stream' = [c \in Client |->
                    IF stream[c].sub = "open" /\ Len(hub.batch) > Room(c)
                    THEN [stream[c] EXCEPT !.sub = "lagging"] ELSE stream[c]]
    /\ hub' = [hub EXCEPT !.version = hub.batch[Len(hub.batch)], !.batch = <<>>,
                          !.at = IF Len(hub.batch) < BatchSize THEN "waiting" ELSE "reading"]
    /\ UNCHANGED <<last, open, log, session, notes, cursor, published, excused, known, purges, cuts>>

\* The process ends, and with it every subscription and connection.
Shutdown ==
    /\ hub.at # "starting" /\ Cut
    /\ hub' = HubStarting /\ session' = "down" /\ notes' = {}
    /\ stream' = [c \in Client |-> NoStream]
    /\ queue' = [c \in Client |-> <<>>]
    /\ UNCHANGED <<last, open, log, cursor, published, excused, known, purges>>

----------------------------------------------------------------------------
(* A connection *)

StreamOnly == UNCHANGED <<last, open, log, session, notes, hub, published, excused, purges>>

\* The subscription comes before the replay, under the lock of Broadcast.
Subscribe(c) ==
    /\ stream[c].at = "off" /\ hub.at # "starting"
    /\ stream' = [stream EXCEPT ![c] = [NoStream EXCEPT !.at = "subscribed", !.sub = "open",
                                                        !.from = hub.version]]
    /\ queue' = [queue EXCEPT ![c] = <<>>]
    /\ StreamOnly /\ UNCHANGED <<cursor, known, cuts>>

\* Mutant: any cursor is taken up.
ResumableAlways(after) == after <= LatestVersion

Resumable(after) ==
    after <= LatestVersion /\ (OldestVersion = 0 \/ after >= OldestVersion - 1)

\* Ready: from the cursor of the client, or from a complete projection.
Accept(c) ==
    /\ stream[c].at = "subscribed"
    /\ IF cursor[c] >= 0 /\ Resumable(cursor[c])
       THEN stream' = [stream EXCEPT ![c].at = "accepted"] /\ UNCHANGED <<cursor, known>>
       ELSE /\ stream' = [stream EXCEPT ![c].at = "live"]
            /\ cursor' = [cursor EXCEPT ![c] = stream[c].from]
            /\ known' = [known EXCEPT ![c] = published]
    /\ StreamOnly /\ UNCHANGED <<queue, cuts>>

ReadPending(c) ==
    /\ stream[c].at = "accepted"
    /\ stream' = [stream EXCEPT ![c].at = "replaying",
                                ![c].todo = ListAfter(cursor[c], BatchSize),
                                ![c].more = Len(ListAfter(cursor[c], BatchSize)) = BatchSize]
    /\ StreamOnly /\ UNCHANGED <<queue, cursor, known, cuts>>

Sent(c, v) ==
    /\ cursor' = [cursor EXCEPT ![c] = v]
    /\ known' = [known EXCEPT ![c] = @ \cup {v}]

SendPending(c) ==
    /\ stream[c].at = "replaying"
    /\ IF stream[c].todo # <<>>
       THEN /\ Sent(c, Head(stream[c].todo))
            /\ stream' = [stream EXCEPT ![c].todo = Tail(@)]
       ELSE /\ stream' = [stream EXCEPT ![c].at = IF stream[c].more THEN "accepted" ELSE "live"]
            /\ UNCHANGED <<cursor, known>>
    /\ StreamOnly /\ UNCHANGED <<queue, cuts>>

AlreadySent(c, v) == v <= cursor[c]

SendEvent(c) ==
    /\ stream[c].at = "live" /\ queue[c] # <<>>
    /\ queue' = [queue EXCEPT ![c] = Tail(@)]
    /\ IF AlreadySent(c, Head(queue[c])) THEN UNCHANGED <<cursor, known>>
       ELSE Sent(c, Head(queue[c]))
    /\ StreamOnly /\ UNCHANGED <<stream, cuts>>

\* A subscription that ended is followed to its last event.
CloseEnded(c) ==
    /\ stream[c].at = "live" /\ queue[c] = <<>> /\ stream[c].sub = "lagging"
    /\ stream' = [stream EXCEPT ![c] = NoStream]
    /\ StreamOnly /\ UNCHANGED <<queue, cursor, known, cuts>>

\* The client leaves, or answers no ping.
Disconnect(c) ==
    /\ stream[c].at # "off" /\ Cut
    /\ stream' = [stream EXCEPT ![c] = NoStream]
    /\ queue' = [queue EXCEPT ![c] = <<>>]
    /\ StreamOnly /\ UNCHANGED <<cursor, known>>

----------------------------------------------------------------------------

HubRun == Initialize \/ Wake \/ CatchUp \/ Broadcast

Follow(c) ==
    Subscribe(c) \/ Accept(c) \/ ReadPending(c) \/ SendPending(c) \/ SendEvent(c) \/ CloseEnded(c)

HubNext ==
    \/ AppendEvent \/ \E v \in Version : CommitEvent(v) \/ Purge(v) \/ Notified(v)
    \/ HubRun \/ Listen \/ LoseSession \/ Probe \/ CatchUpFails \/ Shutdown
    \/ \E c \in Client : Follow(c) \/ Disconnect(c)

HubSpec == HubInit /\ [][HubNext]_hubVars

\* The fallback ticks, and a client that is disconnected connects again.
HubFairness == WF_hubVars(HubRun) /\ \A c \in Client : WF_hubVars(Follow(c))

HubFairSpec == HubSpec /\ HubFairness

----------------------------------------------------------------------------
(* Correctness *)

\* The feed a client sees: what was committed, what it knows and where it is.
Feed == INSTANCE EventFeed WITH Client <- Client, Version <- Version,
            published <- published, excused <- excused, known <- known, cursor <- cursor

\* The path through the hub, the replays and the reconnections is a feed: every
\* client receives its events in order, each once, and misses none of those that
\* became visible in the order of their versions, or is told to reload; and once
\* nothing more is published it has them all, whatever was cut.
ImplementsFeed == Feed!FeedSpec

\* No lost wake-up: while the session listens, a version the hub has not read is
\* announced, or a reading is ahead.  The fallback is needed only after a loss.
WakesForNews ==
    \A v \in log : (session = "up" /\ v > hub.version)
        => hub.wake \/ v \in notes \/ hub.at \in {"reading", "broadcasting"}

\* "un abonné reçoit exactement les événements postérieurs à sa version de
\* départ": whoever was sent a later event knows the earlier ones.
NothingMissed ==
    \A c \in Client : \A v \in published : cursor[c] > v => v \in known[c]

=============================================================================
