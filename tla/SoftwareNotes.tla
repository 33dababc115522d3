---------------------------- MODULE SoftwareNotes ----------------------------
(***************************************************************************)
(* The notes of software updates (internal/softwareupdates): the versions  *)
(* Argus reads, the workers that collect the notes between the two and     *)
(* have them analysed, and the security verdict from which the Argus       *)
(* synchroniser opens or resolves evidence.                                *)
(*                                                                         *)
(* One service, as services are independent.  A version is a number, a     *)
(* source publishes editions of its notes, and an analysis says whether    *)
(* they cite a security fix.  Transactions and calls are single actions;   *)
(* a check becomes due at any time, as next_check_at is a date.  The work  *)
(* of a claim ends after eight minutes and its lease after ten: a lease    *)
(* lapses under nobody but a worker that only has to finish.               *)
(***************************************************************************)
EXTENDS Integers

CONSTANTS
    NotesWorker,
    MaxEditions,    \* bound on the editions of the notes
    MaxNotesOps,    \* bound on what changes in Argus and what administrators do
    MaxNotesFaults  \* bound on failed calls and crashes

ASSUME NotesConstants ==
    MaxEditions \in Nat /\ MaxNotesOps \in Nat /\ MaxNotesFaults \in Nat

VARIABLES
    argus,      \* what Argus reads: installed, target, the address of the notes
    soft,       \* the row of the service
    edition,    \* the edition its source publishes, 0 for none
    ai,         \* whether a provider of analyses is enabled
    analyses,   \* the comparisons that were analysed -> revision, security
    worker,     \* NotesWorker -> what it is doing
    synced,     \* the Argus synchroniser: where it is, what it read, its verdict
    proof,      \* the security evidence of the service
    notesOps, notesFaults

notesVars == <<argus, soft, edition, ai, analyses, worker, synced, proof, notesOps, notesFaults>>

Release == 1..3

noSource == "none"

vacant == "vacant"

WorkerIdle == [at |-> "idle"]

\* The row a trigger inserts with the binding.
NewService ==
    [installed |-> 0, target |-> 0, known |-> FALSE, url |-> noSource, source |-> noSource, origin |-> "manual",
     revision |-> 1, state |-> "awaiting_source", due |-> TRUE, owner |-> vacant, held |-> FALSE,
     content |-> [installed |-> 0, target |-> 0, source |-> noSource, edition |-> 0]]

\* A provider of analyses is enabled, and no sync of Argus took place yet.
NotesInit ==
    /\ argus = [installed |-> 1, target |-> 2, url |-> "a", readable |-> TRUE]
    /\ soft = NewService /\ edition = 0 /\ ai = TRUE
    /\ analyses = [k \in {} |-> vacant]
    /\ worker = [w \in NotesWorker |-> WorkerIdle]
    /\ synced = WorkerIdle
    /\ proof = "closed" /\ notesOps = 0 /\ notesFaults = 0

Update(installed, target) == installed < target

Confirmed == soft.source # noSource

----------------------------------------------------------------------------
(* The trigger on the bindings of Argus *)

NextRevision(row, changed) ==
    IF changed THEN [row EXCEPT !.revision = @ + 1, !.due = TRUE] ELSE row

\* cairnops_capture_software_version: the source first, then the versions.
Captured(reading) ==
    LET moved == soft.origin = "argus" /\ reading.url # soft.url
        changed == soft.installed # reading.installed \/ soft.target # reading.target
        first == [NextRevision(soft, moved) EXCEPT !.url = reading.url,
                                                   !.state = IF moved THEN "pending" ELSE @]
    IN  IF ~reading.readable THEN [first EXCEPT !.known = FALSE]
        ELSE [NextRevision(first, changed) EXCEPT
                 !.installed = reading.installed, !.target = reading.target, !.known = TRUE,
                 !.state = IF ~changed THEN @ ELSE IF Confirmed THEN "pending" ELSE "awaiting_source"]

----------------------------------------------------------------------------
(* The Argus synchroniser *)

SyncArgus(to) ==
    /\ synced' = to
    /\ UNCHANGED <<argus, edition, ai, analyses, worker, notesOps, notesFaults>>

UpdateArgusBindings ==
    /\ synced.at = "idle"
    /\ soft' = Captured(argus)
    /\ SyncArgus([at |-> "captured", reading |-> argus])
    /\ UNCHANGED proof

\* An analysis counts for the revision and the content it was made of.
CurrentAnalyses == {k \in DOMAIN analyses : k = soft.content /\ analyses[k].revision = soft.revision}

SecurityStatus ==
    CASE soft.state = "ready" /\ (\E k \in CurrentAnalyses : analyses[k].security) -> "fixes"
      [] soft.state \in {"pending", "retry"} -> "pending"
      [] OTHER -> "not_established"

\* Mutant: the verdict of whatever versions the row has.
ReadingAgreesAnyway(reading) == TRUE

ReadingAgrees(reading) == soft.installed = reading.installed /\ soft.target = reading.target

\* The verdict is read after the versions were written.
ReleaseSecurity ==
    /\ synced.at = "captured"
    /\ SyncArgus([at |-> "assessed", reading |-> synced.reading, verdict |->
           CASE ~synced.reading.readable -> "pending"
             [] synced.reading.readable /\ ~Update(synced.reading.installed, synced.reading.target) -> "no_update"
             [] OTHER -> IF ReadingAgrees(synced.reading) THEN SecurityStatus ELSE "pending"])
    /\ UNCHANGED <<soft, proof>>

\* A pending verdict neither opens nor resolves.
ReconcileArgus ==
    /\ synced.at = "assessed"
    /\ proof' = CASE synced.verdict = "pending" -> proof
                  [] synced.verdict = "fixes" -> "open"
                  [] OTHER -> "closed"
    /\ SyncArgus(WorkerIdle)
    /\ UNCHANGED soft

----------------------------------------------------------------------------
(* The workers *)

Working(w, to) ==
    /\ worker' = [worker EXCEPT ![w] = to]
    /\ UNCHANGED <<argus, edition, ai, synced, proof, notesOps>>

NotesFault == notesFaults < MaxNotesFaults /\ notesFaults' = notesFaults + 1

\* Every tick first adopts the address Argus gives, unless an administrator
\* chose another.
SyncArgusSources ==
    /\ ~Confirmed \/ soft.origin = "argus"
    /\ soft.url # soft.source
    /\ soft' = [soft EXCEPT !.source = soft.url, !.revision = @ + 1, !.due = TRUE,
                            !.origin = IF soft.url = noSource THEN @ ELSE "argus",
                            !.state = IF soft.url = noSource THEN "awaiting_source" ELSE "pending"]
    /\ UNCHANGED <<argus, edition, ai, analyses, worker, synced, proof, notesOps, notesFaults>>

\* Mutant: a claim waits for the one before to be given back.
ServiceGivenBack == soft.owner = vacant

ServiceFree == ~soft.held

ClaimService(w) ==
    /\ worker[w].at = "idle" /\ Confirmed /\ soft.known /\ soft.due /\ ServiceFree
    /\ soft' = [soft EXCEPT !.owner = w, !.held = TRUE]
    /\ Working(w, [at |-> "claimed"])
    /\ UNCHANGED <<analyses, notesFaults>>

Ending(job, state) == [job EXCEPT !.at = "ending", !.state = state]

\* Only a newer version has notes to compare.
GetService(w) ==
    LET job == [at |-> "collect", revision |-> soft.revision, state |-> "",
                content |-> [installed |-> soft.installed, target |-> soft.target, source |-> soft.source,
                             edition |-> 0],
                security |-> FALSE] IN
    /\ worker[w].at = "claimed"
    /\ Working(w, CASE Update(soft.installed, soft.target) -> job
                    [] soft.installed = soft.target -> Ending(job, "up_to_date")
                    [] soft.installed > soft.target -> Ending(job, "not_applicable"))
    /\ UNCHANGED <<soft, analyses, notesFaults>>

CollectNotes(w) ==
    /\ worker[w].at = "collect"
    /\ \/ Working(w, [worker[w] EXCEPT !.at = "collected", !.content.edition = edition])
          /\ UNCHANGED notesFaults
       \/ Working(w, Ending(worker[w], "retry")) /\ NotesFault
    /\ UNCHANGED <<soft, analyses>>

Holds(w) == soft.owner = w /\ soft.revision = worker[w].revision

CommitCollection(w) ==
    /\ worker[w].at = "collected"
    /\ soft' = IF Holds(w) THEN [soft EXCEPT !.content = worker[w].content] ELSE soft
    /\ Working(w, IF Holds(w) THEN [worker[w] EXCEPT !.at = "committed"] ELSE Ending(worker[w], "pending"))
    /\ UNCHANGED <<analyses, notesFaults>>

\* A comparison that was analysed before is taken again as it is.
AfterLookUp(w) ==
    CASE worker[w].content \in DOMAIN analyses -> Ending(worker[w], "ready")
      [] worker[w].content \notin DOMAIN analyses /\ worker[w].content.edition = 0 ->
             Ending(worker[w], "notes_unavailable")
      [] OTHER -> IF ai THEN [worker[w] EXCEPT !.at = "analyse"] ELSE Ending(worker[w], "awaiting_ai")

LookUpAnalysis(w) ==
    LET k == worker[w].content IN
    /\ worker[w].at = "committed"
    /\ analyses' = IF k \in DOMAIN analyses THEN [analyses EXCEPT ![k].revision = worker[w].revision] ELSE analyses
    /\ Working(w, AfterLookUp(w))
    /\ UNCHANGED <<soft, notesFaults>>

\* The provider answers what it will, after one repair at most.
Generate(w) ==
    /\ worker[w].at = "analyse"
    /\ \/ /\ \E security \in BOOLEAN :
                Working(w, [worker[w] EXCEPT !.at = "analysed", !.security = security])
          /\ UNCHANGED notesFaults
       \/ Working(w, Ending(worker[w], "retry")) /\ NotesFault
    /\ UNCHANGED <<soft, analyses>>

InsertAnalysis(w) ==
    /\ worker[w].at = "analysed"
    /\ analyses' = IF Holds(w)
                   THEN [k \in DOMAIN analyses \cup {worker[w].content} |->
                            IF k = worker[w].content
                            THEN [revision |-> soft.revision, security |-> worker[w].security]
                            ELSE analyses[k]]
                   ELSE analyses
    /\ Working(w, Ending(worker[w], "ready"))
    /\ UNCHANGED <<soft, notesFaults>>

\* The state goes to the revision that was worked on, the lease to nobody.
EndPass(w) ==
    /\ worker[w].at = "ending"
    /\ soft' = IF soft.owner # w THEN soft
               ELSE [soft EXCEPT !.state = IF Holds(w) THEN worker[w].state ELSE @,
                                 !.due = IF Holds(w) THEN worker[w].state = "pending" ELSE @,
                                 !.owner = vacant, !.held = FALSE]
    /\ Working(w, WorkerIdle)
    /\ UNCHANGED <<analyses, notesFaults>>

\* A crash, the end of the eight minutes or a failed transaction.
WorkerStops(w) ==
    /\ worker[w].at # "idle" /\ NotesFault
    /\ Working(w, WorkerIdle)
    /\ UNCHANGED <<soft, analyses>>

NotesRest == UNCHANGED <<analyses, worker, synced, proof>>

NotesLeaseLapses ==
    /\ soft.held /\ worker[soft.owner].at \in {"idle", "ending"}
    /\ IF worker[soft.owner].at = "idle" THEN UNCHANGED notesFaults ELSE NotesFault
    /\ soft' = [soft EXCEPT !.held = FALSE]
    /\ NotesRest /\ UNCHANGED <<argus, edition, ai, notesOps>>

CheckComesDue ==
    /\ ~soft.due
    /\ soft' = [soft EXCEPT !.due = TRUE]
    /\ NotesRest /\ UNCHANGED <<argus, edition, ai, notesOps, notesFaults>>

----------------------------------------------------------------------------
(* Argus, the source and administrators *)

ArgusChanges ==
    /\ notesOps < MaxNotesOps /\ notesOps' = notesOps + 1
    /\ \/ \E v \in Release : argus' \in {[argus EXCEPT !.installed = v], [argus EXCEPT !.target = v]}
       \/ argus' = [argus EXCEPT !.url = IF @ = noSource THEN "a" ELSE noSource]
       \/ argus' = [argus EXCEPT !.readable = ~@]
    /\ argus' # argus
    /\ NotesRest /\ UNCHANGED <<soft, edition, ai, notesFaults>>

\* An import reads Argus too, between two synchronisations or during one.
ImportFromArgus ==
    /\ soft' = Captured(argus)
    /\ NotesRest /\ UNCHANGED <<argus, edition, ai, notesOps, notesFaults>>

Publishes ==
    /\ edition < MaxEditions /\ edition' = edition + 1
    /\ NotesRest /\ UNCHANGED <<argus, soft, ai, notesOps, notesFaults>>

ConfirmSource ==
    /\ notesOps < MaxNotesOps /\ notesOps' = notesOps + 1
    /\ soft' = [soft EXCEPT !.source = "m", !.origin = "manual", !.revision = @ + 1, !.due = TRUE,
                            !.state = "pending"]
    /\ NotesRest /\ UNCHANGED <<argus, edition, ai, notesFaults>>

SaveConfig ==
    /\ notesOps < MaxNotesOps /\ notesOps' = notesOps + 1
    /\ ai' = ~ai
    /\ soft' = [soft EXCEPT !.due = @ \/ soft.state \in {"awaiting_ai", "retry"}]
    /\ NotesRest /\ UNCHANGED <<argus, edition, notesFaults>>

----------------------------------------------------------------------------

NotesStep(w) ==
    \/ GetService(w) \/ CollectNotes(w) \/ CommitCollection(w) \/ LookUpAnalysis(w)
    \/ Generate(w) \/ InsertAnalysis(w) \/ EndPass(w)

SyncArgusStep == UpdateArgusBindings \/ ReleaseSecurity \/ ReconcileArgus

NotesNext ==
    \/ SyncArgusStep \/ SyncArgusSources \/ NotesLeaseLapses \/ CheckComesDue
    \/ ArgusChanges \/ ImportFromArgus \/ Publishes \/ ConfirmSource \/ SaveConfig
    \/ \E w \in NotesWorker : ClaimService(w) \/ NotesStep(w) \/ WorkerStops(w)

NotesSpec == NotesInit /\ [][NotesNext]_notesVars

\* Workers and the synchroniser go on for ever, and dates come.
NotesFairness ==
    /\ \A w \in NotesWorker : WF_notesVars(ClaimService(w) \/ NotesStep(w))
    /\ WF_notesVars(SyncArgusStep) /\ WF_notesVars(SyncArgusSources)
    /\ WF_notesVars(NotesLeaseLapses) /\ WF_notesVars(CheckComesDue)

NotesFairSpec == NotesSpec /\ NotesFairness

----------------------------------------------------------------------------
(* Correctness *)

About(k, row) == k.installed = row.installed /\ k.target = row.target /\ k.source = row.source

\* Security evidence is opened only on an analysis of the versions that this
\* synchronisation read.
ProofIsEarned ==
    [][(proof = "closed" /\ proof' = "open") =>
          \E k \in DOMAIN analyses : /\ analyses[k].security
                                     /\ k.installed = synced.reading.installed
                                     /\ k.target = synced.reading.target]_notesVars

Behind == Update(argus.installed, argus.target) /\ argus.readable /\ argus.url # noSource

Cited == \E k \in DOMAIN analyses : About(k, soft) /\ k.edition = edition /\ analyses[k].security

\* An update whose notes are published comes to its analysis, through failed
\* calls, crashes and changes during the work, and then keeps it; and a security
\* fix that an analysis cites comes to be open evidence.
NotesReach ==
    /\ <>[](Behind /\ edition # 0 /\ ai) => <>[](soft.state = "ready" /\ CurrentAnalyses # {})
    /\ <>[](Behind /\ Cited) => <>[](proof = "open")

\* A comparison whose notes wait for their analysis has no verdict yet: the
\* synchroniser must neither open nor resolve evidence (SecurityPending).
AwaitingIsPending ==
    (soft.state = "ready" /\ CurrentAnalyses = {}) => SecurityStatus = "pending"

=============================================================================
