------------------------------ MODULE Autosave ------------------------------
(***************************************************************************)
(* The timers that save an open build by themselves                        *)
(* (frontend/src/features/builder/store/autosave.ts), composed with the    *)
(* store they watch: every step of BuilderStore is also a step here, with  *)
(* what it does to the timers and to the save state the header shows.      *)
(***************************************************************************)
EXTENDS BuilderStore

CONSTANT MaxRetries  \* AUTOSAVE_RETRY_MS.length

ASSUME AutosaveAssumption == MaxRetries \in Nat

VARIABLES saveState, \* what the header shows
          mounted,   \* the builder is on screen and startAutosave is running
          checkDue,  \* checkTimer is set
          timers,    \* which of saveTimer ("save") and retryTimer ("retry") are set
          opening,   \* an open waits in topologyMutationQueue, behind the saves
          queued,    \* a save waits in topologyMutationQueue: of the timer, or of leaving
          auto,      \* the running save is the timer's, and its outcome comes back to it
          retries,
          fresh      \* history: the revision whose graph `synced` is, 0 if that of none

autosaveVars == <<saveState, mounted, checkDue, timers, opening, queued, auto, retries, fresh>>
allVars == <<vars, autosaveVars>>

AutosaveTypeOK ==
  /\ TypeOK
  /\ saveState \in [Clients -> {"saved", "unsaved", "saving", "error"}]
  /\ mounted \in [Clients -> BOOLEAN]
  /\ checkDue \in [Clients -> BOOLEAN]
  /\ timers \in [Clients -> SUBSET {"save", "retry"}]
  /\ opening \in [Clients -> BOOLEAN]
  /\ queued \in [Clients -> {"none", "auto", "leave"}]
  /\ auto \in [Clients -> BOOLEAN]
  /\ retries \in [Clients -> 0 .. MaxRetries]
  /\ fresh \in [Clients -> Nat]

AutosaveInit ==
  /\ Init
  /\ saveState = [t \in Clients |-> "saved"]
  /\ mounted = [t \in Clients |-> TRUE]
  /\ checkDue = [t \in Clients |-> FALSE]
  /\ timers = [t \in Clients |-> {}]
  /\ opening = [t \in Clients |-> TRUE]
  /\ queued = [t \in Clients |-> "none"]
  /\ auto = [t \in Clients |-> FALSE]
  /\ retries = [t \in Clients |-> 0]
  /\ fresh = [t \in Clients |-> 0]

Shows(t, state) == saveState' = [saveState EXCEPT ![t] = state]

\* The subscription: a step that touches what it compares sets the check timer.
NotifyNobody(t) == UNCHANGED checkDue  \* mutation

Notify(t) == checkDue' = [checkDue EXCEPT ![t] = @ \/ mounted[t]]

-----------------------------------------------------------------------------
(* The timers.                                                              *)

\* check, with refreshSaveState.
Check(t) ==
  /\ checkDue[t]
  /\ checkDue' = [checkDue EXCEPT ![t] = FALSE]
  /\ timers' = [timers EXCEPT ![t] = IF Dirty(t) THEN {"save"} ELSE {}]
  /\ retries' = [retries EXCEPT ![t] = IF tab[t].status = "ready" /\ ~Dirty(t) THEN 0 ELSE @]
  /\ Shows(t, IF saveState[t] = "saving" \/ tab[t].status # "ready" THEN saveState[t]
              ELSE IF ~Dirty(t) THEN "saved"
              ELSE IF saveState[t] = "error" THEN "error" ELSE "unsaved")
  /\ UNCHANGED <<vars, mounted, opening, queued, auto, fresh>>

\* A timer runs out: save, which leaves a clean canvas alone.
Fire(t, timer) ==
  /\ timer \in timers[t]
  /\ timers' = [timers EXCEPT ![t] = @ \ {timer}]
  /\ queued' = [queued EXCEPT ![t] = IF Dirty(t) THEN "auto" ELSE @]
  /\ UNCHANGED <<vars, saveState, mounted, checkDue, opening, auto, retries, fresh>>

\* The timers are gone with the page; a save of theirs reports to nobody.
Unmount(t) ==
  /\ mounted' = [mounted EXCEPT ![t] = FALSE]
  /\ checkDue' = [checkDue EXCEPT ![t] = FALSE]
  /\ timers' = [timers EXCEPT ![t] = {}]
  /\ auto' = [auto EXCEPT ![t] = FALSE]
  /\ retries' = [retries EXCEPT ![t] = 0]

\* Leaving the builder: what is pending is saved without waiting for the outcome.
Leave(t) ==
  /\ mounted[t] /\ Unmount(t)
  /\ queued' = [queued EXCEPT ![t] = IF Dirty(t) \/ @ # "none" THEN "leave" ELSE @]
  /\ UNCHANGED <<vars, saveState, opening, fresh>>

\* Coming back: autosave starts, and the build is opened again whatever the store
\* still holds.
Mount(t) ==
  /\ ~mounted[t]
  /\ mounted' = [mounted EXCEPT ![t] = TRUE]
  /\ opening' = [opening EXCEPT ![t] = TRUE]
  /\ UNCHANGED <<vars, saveState, checkDue, timers, queued, auto, retries, fresh>>

\* Mutation: a save that failed is not tried again.
TriedOnce(t, refused) == UNCHANGED timers /\ retries' = [retries EXCEPT ![t] = 0]

\* A save of the timer failed and may pass later; refused says it will not.
TriedInVain(t, refused) ==
  IF ~auto[t] THEN UNCHANGED <<timers, retries>>
  ELSE IF refused \/ retries[t] >= MaxRetries
       THEN UNCHANGED timers /\ retries' = [retries EXCEPT ![t] = 0]
       ELSE /\ timers' = [timers EXCEPT ![t] = @ \cup {"retry"}]
            /\ retries' = [retries EXCEPT ![t] = @ + 1]

-----------------------------------------------------------------------------
(* The steps of the store.                                                  *)

\* A save waiting in the queue starts; without an open build it fails at once.
StartQueued(t) ==
  /\ queued[t] # "none" /\ Free(t)
  /\ queued' = [queued EXCEPT ![t] = "none"]
  /\ IF tab[t].status = "ready"
     THEN /\ StartSave(t)
          /\ auto' = [auto EXCEPT ![t] = queued[t] = "auto"]
          /\ Shows(t, "saving") /\ UNCHANGED <<timers, retries>>
     ELSE /\ IF queued[t] = "auto" /\ retries[t] < MaxRetries
             THEN /\ timers' = [timers EXCEPT ![t] = @ \cup {"retry"}]
                  /\ retries' = [retries EXCEPT ![t] = @ + 1]
             ELSE retries' = [retries EXCEPT ![t] = 0] /\ UNCHANGED timers
          /\ UNCHANGED <<vars, auto, saveState>>
  /\ UNCHANGED <<mounted, checkDue, opening, fresh>>

\* "Save now", a retry from the header, the save before a proposal is applied.
SaveNow(t) ==
  /\ StartSave(t)
  /\ auto' = [auto EXCEPT ![t] = FALSE]
  /\ Shows(t, "saving")
  /\ UNCHANGED <<mounted, checkDue, timers, opening, queued, retries, fresh>>

EditCanvas(t) ==
  /\ mounted[t] /\ ((\E e \in Edits : Edit(t, e)) \/ Undo(t) \/ Redo(t))
  /\ Notify(t)
  /\ UNCHANGED <<saveState, mounted, timers, opening, queued, auto, retries, fresh>>

\* loadBuild, or the canvas emptied: nothing unsaved is left behind.
Renewed(t) == Notify(t) /\ Shows(t, "saved")
RenewedIf(t, loads) == IF loads THEN Renewed(t) ELSE UNCHANGED <<checkDue, saveState>>

\* The build in an answer was taken over.
TakenIf(t, loads) ==
  /\ RenewedIf(t, loads)
  /\ fresh' = [fresh EXCEPT ![t] = IF loads THEN req[t].rev ELSE @]

Replace(t) ==
  /\ \/ AdoptLatest(t) /\ TakenIf(t, TRUE)
     \/ FinishSync(t) /\ TakenIf(t, SyncLoads(t))
     \/ FinishApply(t) /\ TakenIf(t, ApplyLoads(t))
     \/ FinishOpen(t) /\ TakenIf(t, OpenLoads(t))
  /\ retries' = [retries EXCEPT ![t] = IF auto[t] /\ HasLatest(t) THEN 0 ELSE @]
  /\ UNCHANGED <<mounted, timers, opening, queued, auto>>

\* The open that waits behind the saves, or one for a build that has no graph here.
Reopen(t) ==
  /\ \/ opening[t] /\ queued[t] = "none"
     \/ tab[t].status \in {"idle", "error"}
  /\ StartOpen(t) /\ RenewedIf(t, tab[t].status # "ready")
  /\ opening' = [opening EXCEPT ![t] = FALSE]
  /\ UNCHANGED <<mounted, timers, queued, auto, retries, fresh>>

CloseBuild(t) ==
  /\ Close(t) /\ Renewed(t)
  /\ UNCHANGED <<mounted, timers, opening, queued, auto, retries, fresh>>

\* The builder page clears the build and goes home; other pages keep the error.
OpenFails(t) ==
  /\ OpenFailed(t, mounted[t]) /\ Unmount(t)
  /\ IF mounted[t] THEN Shows(t, "saved") ELSE UNCHANGED saveState
  /\ UNCHANGED <<opening, queued, fresh>>

Accepted(t) ==
  /\ SaveAccepted(t)
  /\ IF tab[t].status = "ready"
     THEN /\ Notify(t) /\ Shows(t, IF EditedMeanwhile(t) THEN "unsaved" ELSE "saved")
          /\ fresh' = [fresh EXCEPT ![t] = IF EditedMeanwhile(t) THEN 0 ELSE req[t].own]
     ELSE UNCHANGED <<checkDue, saveState, fresh>>
  /\ retries' = [retries EXCEPT ![t] = IF auto[t] THEN 0 ELSE @]
  /\ UNCHANGED <<mounted, timers, opening, queued, auto>>

Unsaved(t, refused) ==
  /\ IF tab[t].status = "ready" THEN Shows(t, "error") ELSE UNCHANGED saveState
  /\ TriedInVain(t, refused)
  /\ UNCHANGED <<mounted, checkDue, opening, queued, auto, fresh>>

Failed(t) == SaveFailed(t) /\ Unsaved(t, req[t].status = "refused")
Lost(t) == SaveLost(t) /\ Unsaved(t, FALSE)

\* Sending a save again or fetching the newer build keeps it "saving".
Continue(t) ==
  /\ \/ RetryAsOurs(t) /\ fresh' = [fresh EXCEPT ![t] = 0]
     \/ FetchLatest(t) /\ UNCHANGED fresh
  /\ UNCHANGED <<saveState, mounted, checkDue, timers, opening, queued, auto, retries>>

StartOther(t) ==
  /\ StartSync(t) \/ \E p \in Proposals : StartApply(t, p)
  /\ UNCHANGED autosaveVars

ReadLost(t) == OtherLost(t) /\ UNCHANGED autosaveVars

-----------------------------------------------------------------------------
Background == ServerStep /\ UNCHANGED autosaveVars

TimerStep(t) ==
  \/ Check(t) \/ (\E timer \in timers[t] : Fire(t, timer))
  \/ StartQueued(t) \/ (opening[t] /\ Reopen(t))
AnswerTaken(t) == Accepted(t) \/ Failed(t) \/ Replace(t) \/ Continue(t)
                  \/ OpenFails(t)
UserOrNetwork(t) ==
  \/ SaveNow(t) \/ EditCanvas(t) \/ CloseBuild(t) \/ StartOther(t)
  \/ (~opening[t] /\ Reopen(t))
  \/ Lost(t) \/ ReadLost(t) \/ Leave(t) \/ Mount(t)

AutosaveNext ==
  \/ Background
  \/ \E t \in Clients : TimerStep(t) \/ AnswerTaken(t) \/ UserOrNetwork(t)

\* Timers run out, the event loop takes the next mutation and the next answer,
\* and the server serves what reached it.  Nobody has to edit, open or leave.
Fairness ==
  \A t \in Clients :
    /\ WF_allVars(TimerStep(t))
    /\ WF_allVars(AnswerTaken(t))
    /\ WF_allVars(Serve(t) /\ UNCHANGED <<tab, made, seen, raced, autosaveVars>>)

AutosaveSpec == AutosaveInit /\ [][AutosaveNext]_allVars /\ Fairness

-----------------------------------------------------------------------------
(* Properties.                                                              *)

\* While the builder is open, an unsaved canvas is never forgotten: a timer is
\* set, a save waits or runs, or the header says it failed (startAutosave).
UnsavedIsScheduled ==
  \A t \in Clients :
    mounted[t] /\ Dirty(t) =>
      \/ checkDue[t] \/ timers[t] # {} \/ queued[t] # "none" \/ opening[t]
      \/ tab[t].mutation \in {"save", "latest", "open"} \/ saveState[t] = "error"

\* "says honestly whether it is saved": once the check has run and nothing waits or
\* is about to replace the canvas, "saved" is only shown over devices and cables that
\* the server holds, or held until somebody saved a newer revision, which the next
\* poll reports (refreshSaveState, the answer to a save).  Left out is a tab that went
\* on to a revision whose graph is not its `synced`: its save was accepted while the
\* canvas had been edited, or with another's save between the commit and the read, or
\* it took over its own lost save.  Undo can then bring `synced` back, and "saved" with
\* it, though the server holds something else.
SavedMeansStored ==
  \A t \in Clients :
    /\ mounted[t] /\ tab[t].status = "ready" /\ saveState[t] = "saved"
    /\ ~checkDue[t] /\ queued[t] = "none" /\ ~opening[t] /\ tab[t].mutation # "open"
    /\ fresh[t] = tab[t].revision
    => tab[t].revision < Revision \/ Shape(tab[t].canvas) = Shape(Graph)

\* What the user does to an open canvas.
Touches(t) == EditCanvas(t) \/ CloseBuild(t) \/ \E p \in Proposals : StartApply(t, p)

\* "A failed save is retried": as long as no more saves fail than are retried, an
\* unsaved canvas the server would take does not stay unsaved once its user leaves it
\* alone (startAutosave).  Builds that are closed under a save of the timer are left
\* out: that save fails too, and counts against the retries of the next build.
UnsavedGetsSaved ==
  \A t \in Clients :
    (/\ MaxFailures <= MaxRetries
     /\ [](tab[t].status # "ready" => queued[t] # "auto" /\ ~auto[t])
     /\ <>[][~Touches(t)]_allVars)
    =>
    [](mounted[t] /\ Dirty(t) =>
         <>(~Dirty(t) \/ ~mounted[t] \/ tab[t].canvas \cap Invalid # {}
            \/ Revision >= MaxRevision))
=============================================================================
