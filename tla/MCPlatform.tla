----------------------------- MODULE MCPlatform -----------------------------
(***************************************************************************)
(* Three loops of the server that share no row: the native checks, the     *)
(* feed of events and the notes of software.  Each behaviour is one of one  *)
(* of them, which Init chooses, and the others rest; so one run answers for *)
(* the three under the specification and the fairness of each.             *)
(***************************************************************************)
EXTENDS NativeMonitoring, RealtimeHub, SoftwareNotes

VARIABLE part   \* the component that is at work

allVars == <<vars, hubVars, notesVars, part>>

\* A component that rests does so in one of its initial states.
PlatformInit ==
    /\ Init /\ HubInit /\ NotesInit
    /\ part \in {"monitoring", "hub", "notes"}

Monitors == part = "monitoring" /\ Next /\ UNCHANGED <<hubVars, notesVars, part>>

Streams == part = "hub" /\ HubNext /\ UNCHANGED <<vars, notesVars, part>>

Tracks == part = "notes" /\ NotesNext /\ UNCHANGED <<vars, hubVars, part>>

PlatformNext == Monitors \/ Streams \/ Tracks

\* The fairness of each module, for the component that is at work.
PlatformFairness ==
    /\ \A w \in Worker : WF_vars(part = "monitoring" /\ WorkerStep(w))
    /\ \A s \in Source : WF_vars(part = "monitoring" /\ LeaseExpires(s))
    /\ <>[][\A w \in Worker : ~Crash(w)]_vars
    /\ WF_hubVars(part = "hub" /\ HubRun)
    /\ \A c \in Client : WF_hubVars(part = "hub" /\ Follow(c))
    /\ \A w \in NotesWorker : WF_notesVars(part = "notes" /\ (ClaimService(w) \/ NotesStep(w)))
    /\ WF_notesVars(part = "notes" /\ SyncArgusStep)
    /\ WF_notesVars(part = "notes" /\ SyncArgusSources)
    /\ WF_notesVars(part = "notes" /\ NotesLeaseLapses)
    /\ WF_notesVars(part = "notes" /\ CheckComesDue)

PlatformSpec == PlatformInit /\ [][PlatformNext]_allVars /\ PlatformFairness
=============================================================================
