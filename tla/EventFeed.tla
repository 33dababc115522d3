------------------------------ MODULE EventFeed ------------------------------
(***************************************************************************)
(* What the realtime API promises its clients (ADR 0022, internal/realtime *)
(* and internal/httpapi/realtime.go): a client receives the events         *)
(* published after its cursor, in order and without a gap, or is told to   *)
(* reload everything.                                                      *)
(*                                                                         *)
(* An event is its version.  The versions a client may miss are named:     *)
(* excused holds them, and module RealtimeHub says which they are.         *)
(***************************************************************************)
EXTENDS Integers

CONSTANTS Client, Version

VARIABLES
    published,  \* the versions that were committed
    excused,    \* the ones a client may miss
    known,      \* Client -> what it received or reloaded
    cursor      \* Client -> the last version it was sent, -1 before it ever was

feedVars == <<published, excused, known, cursor>>

FeedInit ==
    /\ published = {} /\ excused = {}
    /\ known = [c \in Client |-> {}]
    /\ cursor = [c \in Client |-> -1]

Publish(v) ==
    /\ v \notin published
    /\ published' = published \cup {v}
    /\ excused' \in {excused, excused \cup {v}}
    /\ UNCHANGED <<known, cursor>>

Excuse ==
    /\ \E e \in SUBSET Version : excused' = excused \cup e
    /\ UNCHANGED <<published, known, cursor>>

Between(c, v) == {u \in published : cursor[c] < u /\ u < v}

Send(c, v) ==
    /\ v \in published /\ v > cursor[c]
    /\ Between(c, v) \subseteq known[c] \cup excused
    /\ cursor' = [cursor EXCEPT ![c] = v]
    /\ known' = [known EXCEPT ![c] = @ \cup {v}]
    /\ UNCHANGED <<published, excused>>

\* The client starts or starts again from a complete projection.
Reload(c, v) ==
    /\ cursor' = [cursor EXCEPT ![c] = v]
    /\ known' = [known EXCEPT ![c] = published]
    /\ UNCHANGED <<published, excused>>

FeedNext ==
    \/ \E v \in Version : Publish(v)
    \/ Excuse
    \/ \E c \in Client, v \in Version : Send(c, v)
    \/ \E c \in Client, v \in Version \cup {0} : Reload(c, v)

\* Once nothing more is published, a client has received everything or reloaded it.
CaughtUp == \A c \in Client : \A v \in published : cursor[c] >= v \/ v \in known[c]

\* The part of the promise that every step keeps, and the whole of it.
FeedSafety == FeedInit /\ [][FeedNext]_feedVars

FeedSpec == FeedSafety /\ <>[]CaughtUp

=============================================================================
