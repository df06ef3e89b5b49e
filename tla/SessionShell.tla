---------------------------- MODULE SessionShell ----------------------------
(***************************************************************************)
(* One window of the application (src/src/App.tsx): the replay on screen,  *)
(* the operations that open, save and remove saved sessions, the session   *)
(* library they await (src/src/storage/session-library.ts) and the         *)
(* operator workspace stored beside it (session-storage.ts).               *)
(*                                                                         *)
(* A slot holds an operation from its first await to its end; an action is *)
(* what happens between two awaits.  An operation is current on an         *)
(* operation gate until another begins there or the user cancels.  The     *)
(* dialogs are modal.  The identity shown as saved is the session on       *)
(* screen when it is listed.                                               *)
(***************************************************************************)
EXTENDS Naturals

CONSTANTS
  Sessions,  \* identities of replays
  Bundled,   \* the bundled one
  None,
  Slots,     \* operations in flight at once
  Unwritable,\* whether the storage of operator workspaces can fail
  MaxRequests, \* operations the user starts: a bound of the model
  MaxOthers  \* changes another window makes to the library

ASSUME ShellAssumption ==
  /\ Bundled \in Sessions /\ None \notin Sessions /\ Unwritable \in BOOLEAN
  /\ Sessions \cap {"loading", "error", "receiver"} = {}

VARIABLES
  store,      \* the records of the session library
  others,     \* changes made by another window so far
  notes,      \* whether an operator workspace is stored for the session
  screen,     \* state: a session, or "loading", "error", "receiver"
  autosave,   \* workspaceAutosaveEnabledRef of the workspace on screen
  entries,    \* libraryEntries
  status,     \* libraryStatus; "unavailable" is an "error"
  action,     \* libraryAction
  residual,   \* libraryError is the warning that operator context may remain
  confirming, \* pendingDeleteIdentity
  cleared,    \* workspacePersistenceCommand: the session the latest one clears, if it is a clear
  dialog,     \* replayProcessingState and its source
  evidence,   \* evidenceOpenState
  requests,   \* operations the user started so far
  ops,        \* the operations in flight; lib, ses: still current on that gate
  asked,      \* history: what the user asked to see last, None once it was shown, failed or cancelled
  drift       \* history: another window or a superseded operation has changed the library, or a save was
              \* confirmed, with its warning, beside a list that was never read

library == <<entries, status, action, residual, confirming>>
workspace == <<notes, autosave, cleared>>
view == <<screen, dialog, evidence, asked>>
disk == <<store, others, drift>>
vars == <<library, workspace, view, disk, ops, requests>>

Op(kind, s, phase, ok) ==
  [kind |-> kind, session |-> s, phase |-> phase, ok |-> ok, seen |-> {},
   lib |-> kind \in {"refresh", "persist", "open", "remove", "evict"},
   ses |-> kind \in {"open", "file", "evidence", "default", "capture"}]
Idle == Op("none", None, "none", FALSE)
NoAction == [kind |-> "idle", session |-> None]
NoDialog == [status |-> "idle", kind |-> "none", session |-> None]

\* The window mounts, whatever is stored: loadDefault and refreshLibrary are under way.
Init ==
  /\ store \in [Sessions -> {"none", "sound", "corrupt"}] /\ others = 0 /\ drift = FALSE
  /\ notes = [s \in Sessions |-> FALSE] /\ autosave = TRUE /\ cleared = None
  /\ screen = "loading" /\ asked = Bundled
  /\ entries = {} /\ status = "loading" /\ action = NoAction
  /\ residual = FALSE /\ confirming = None
  /\ dialog = NoDialog /\ evidence = "idle"
  /\ \E i, j \in Slots :
       /\ i # j
       /\ requests = 0
       /\ ops = [k \in Slots |-> CASE k = i -> Op("refresh", None, "list", FALSE)
                                   [] k = j -> Op("default", Bundled, "process", FALSE)
                                   [] OTHER -> Idle]

-----------------------------------------------------------------------------
(* Operations, gates and what the user can reach *)

Free(i) == ops[i] = Idle
Become(i, op) == ops' = [ops EXCEPT ![i] = op]
End(i) == Become(i, Idle)

\* Mutant: an operation begins beside the current one.
Begin_Beside(i, op) == Become(i, op)

\* The gates' begin: whatever ran there before is superseded.
Begin(i, op) ==
  ops' = [k \in Slots |-> IF k = i THEN op
                          ELSE [ops[k] EXCEPT !.lib = @ /\ ~op.lib, !.ses = @ /\ ~op.ses]]
To(i, phase) == ops' = [ops EXCEPT ![i].phase = phase]

Current(i) == ops[i].lib
Latest(i) == ops[i].ses

Active(s) == screen = s /\ s \in entries
Quiet == dialog = NoDialog /\ evidence = "idle" /\ \A i \in Slots : ops[i].kind # "capture"
Rail == screen \in Sessions /\ Quiet
Stored == {s \in Sessions : store[s] # "none"}

\* A write of the stored workspace can fail.
Written(s) == {[notes EXCEPT ![s] = TRUE]} \cup (IF Unwritable THEN {notes} ELSE {})

\* The workspace of another session mounts: it autosaves, then obeys the latest command if that is its own.
Mount(s) ==
  /\ notes' \in Written(s)
  /\ autosave' = (cleared # s)

\* setState ready; a session that is on screen already is only rendered again.
Show(s) ==
  /\ screen' = s
  /\ IF screen = s THEN autosave' = autosave /\ notes' \in (IF autosave THEN Written(s) ELSE {notes})
                   ELSE Mount(s)
  /\ UNCHANGED cleared

Leave(to) == screen' = to /\ autosave' = TRUE /\ UNCHANGED <<notes, cleared>>

\* issueWorkspacePersistenceCommand, obeyed at once by the workspace of that session.
Issue(kind, s) ==
  /\ cleared' = IF kind = "clear" THEN s ELSE None
  /\ autosave' = IF screen = s THEN kind = "save" ELSE autosave
  /\ IF kind = "save" THEN notes' \in (IF screen = s THEN Written(s) ELSE {notes}) ELSE TRUE

\* The user starts another operation.
Asks == requests < MaxRequests /\ requests' = requests + 1

Set(kind, s) == action' = [kind |-> kind, session |-> s]

-----------------------------------------------------------------------------
(* refreshLibrary, and the list every operation on the library awaits *)

Retry(i) ==
  /\ Asks
  /\ Free(i) /\ Rail /\ status = "error" /\ action = NoAction
  /\ Begin(i, Op("refresh", None, "list", FALSE))
  /\ status' = "loading" /\ residual' = FALSE
  /\ UNCHANGED <<entries, action, confirming, workspace, view, disk>>

\* list(): one readonly transaction; it fails altogether when one record is malformed.
List(i) ==
  /\ ops[i].phase \in {"list", "relist"}
  /\ \E ok \in BOOLEAN :
       Become(i, [ops[i] EXCEPT !.phase = IF @ = "list" THEN "listed" ELSE "relisted",
                                !.ok = ok, !.seen = IF ok THEN Stored ELSE {}])
  /\ UNCHANGED <<library, workspace, view, disk, requests>>

Refreshed(i) ==
  /\ ops[i].kind = "refresh" /\ ops[i].phase = "listed"
  /\ End(i)
  /\ IF Current(i)
     THEN /\ entries' = IF ops[i].ok THEN ops[i].seen ELSE entries
          /\ status' = IF ops[i].ok THEN "ready" ELSE "error"
          /\ residual' = IF ops[i].ok THEN residual ELSE FALSE
     ELSE UNCHANGED <<entries, status, residual>>
  /\ UNCHANGED <<action, confirming, workspace, view, disk, requests>>

-----------------------------------------------------------------------------
(* persistSession and save *)

Persist(i, s) ==
  /\ Begin(i, Op("persist", s, "save", FALSE))
  /\ Set("saving", None) /\ residual' = FALSE
  /\ UNCHANGED <<entries, status, confirming>>

SaveCurrent(i) ==
  /\ Asks
  /\ Free(i) /\ Rail /\ status = "ready" /\ action = NoAction /\ ~Active(screen)
  /\ Persist(i, screen)
  /\ UNCHANGED <<workspace, view, disk>>

Stores(s, value) == store' = [store EXCEPT ![s] = value] /\ UNCHANGED <<others, drift>>

\* The list need no longer be what is stored: the window ignores what a superseded operation did,
Ignored == drift' = TRUE /\ UNCHANGED <<store, others>>

\* or confirms a save beside a list it could not read, under a warning.
Unlisted == Ignored

\* Mutant: a record under the same identity is taken to be sound and overwritten.
SaveStored_Put(i, s) == Stores(s, "sound") /\ To(i, "list")

\* A record under the same identity is revalidated outside the transaction and kept.
SaveStored(i, s) ==
  /\ To(i, IF store[s] = "sound" THEN "validate" ELSE "failed")
  /\ UNCHANGED disk

SaveTransaction(i) ==
  /\ ops[i].phase = "save"
  /\ \/ store[ops[i].session] = "none" /\ Stores(ops[i].session, "sound") /\ To(i, "list")
     \/ store[ops[i].session] # "none" /\ SaveStored(i, ops[i].session)
     \/ To(i, "failed") /\ UNCHANGED disk
  /\ UNCHANGED <<library, workspace, view, requests>>

Revalidated(i) ==
  /\ ops[i].phase = "validate"
  /\ \E to \in {"list", "failed"} : To(i, to)
  /\ UNCHANGED <<library, workspace, view, disk, requests>>

\* Mutant: a failed list after a committed save leaves the entries as they were.
SavedEntries_Keep(op) == IF op.ok THEN op.seen ELSE entries

\* resolveCommittedSave: a failed list must not hide the committed save.
SavedEntries(op) == IF op.ok THEN op.seen ELSE entries \cup {op.session}

Saved(i) ==
  /\ ops[i].kind = "persist" /\ ops[i].phase = "listed"
  /\ End(i)
  /\ IF Current(i)
     THEN /\ entries' = SavedEntries(ops[i]) /\ status' = "ready"
          /\ residual' = FALSE /\ action' = NoAction
          /\ Issue("save", ops[i].session)
          /\ IF ops[i].ok \/ status = "ready" THEN UNCHANGED disk ELSE Unlisted
     ELSE Ignored /\ UNCHANGED <<entries, status, residual, action, workspace>>
  /\ UNCHANGED <<confirming, view, requests>>

SaveFailed(i) ==
  /\ ops[i].phase = "failed" /\ ops[i].kind = "persist"
  /\ IF Current(i)
     THEN /\ residual' = FALSE
          /\ \/ To(i, "relist") /\ UNCHANGED <<status, action>>
             \/ End(i) /\ status' = "error" /\ action' = NoAction
     ELSE End(i) /\ UNCHANGED <<residual, status, action>>
  /\ UNCHANGED <<entries, confirming, workspace, view, disk, requests>>

Relisted(i) ==
  /\ ops[i].phase = "relisted"
  /\ End(i)
  /\ IF Current(i)
     THEN /\ entries' = IF ops[i].ok THEN ops[i].seen ELSE entries
          /\ status' = IF ops[i].ok THEN "ready" ELSE "error"
          /\ action' = NoAction
     ELSE UNCHANGED <<entries, status, action>>
  /\ UNCHANGED <<residual, confirming, workspace, view, disk, requests>>

-----------------------------------------------------------------------------
(* openSavedSession and load *)

OpenSaved(i, s) ==
  /\ Asks
  /\ Free(i) /\ screen \in Sessions
  /\ \/ Quiet /\ action = NoAction /\ s \in entries
     \/ dialog = [status |-> "error", kind |-> "open", session |-> s]
  /\ Begin(i, Op("open", s, "read", FALSE))
  /\ asked' = s
  /\ confirming' = None /\ Set("opening", s) /\ residual' = FALSE
  /\ dialog' = [status |-> "processing", kind |-> "open", session |-> s]
  /\ UNCHANGED <<entries, status, workspace, screen, evidence, disk>>

Load(i) ==
  /\ ops[i].phase = "read"
  /\ Become(i, [ops[i] EXCEPT !.phase = IF store[ops[i].session] = "none" THEN "missing" ELSE "process",
                              !.ok = store[ops[i].session] = "sound"])
  /\ UNCHANGED <<library, workspace, view, disk, requests>>

OpenSucceeds(i) ==
  /\ ops[i].kind = "open" /\ ops[i].phase = "process" /\ ops[i].ok
  /\ Current(i) /\ Latest(i)
  /\ End(i)
  /\ Show(ops[i].session)
  /\ dialog' = NoDialog /\ action' = NoAction /\ asked' = None
  /\ UNCHANGED <<entries, status, residual, confirming, evidence, disk, requests>>

OpenFails(i) ==
  /\ ops[i].kind = "open"
  /\ Current(i) /\ Latest(i)
  /\ End(i)
  /\ dialog' = [dialog EXCEPT !.status = "error"] /\ asked' = None
  /\ action' = NoAction /\ residual' = FALSE
  /\ entries' = IF ops[i].phase = "missing" THEN entries \ {ops[i].session} ELSE entries
  /\ status' \in IF ops[i].phase = "missing" THEN {status} ELSE {status, "error"}
  /\ UNCHANGED <<confirming, workspace, screen, evidence, disk, requests>>

OpenSuperseded(i) ==
  /\ ops[i].kind = "open" /\ ~(Current(i) /\ Latest(i))
  /\ End(i)
  /\ action' = IF Current(i) THEN NoAction ELSE action
  /\ UNCHANGED <<entries, status, residual, confirming, workspace, view, disk, requests>>

-----------------------------------------------------------------------------
(* removeSavedSession and remove *)

RequestDelete(s) ==
  /\ Rail /\ action = NoAction /\ s \in entries /\ confirming' = s
  /\ UNCHANGED <<entries, status, action, residual, workspace, view, disk, ops, requests>>

CancelDelete ==
  /\ Rail /\ confirming \in entries /\ action # [kind |-> "removing", session |-> confirming]
  /\ confirming' = None
  /\ UNCHANGED <<entries, status, action, residual, workspace, view, disk, ops, requests>>

\* The session whose workspace is to be cleared is the one on screen, or is loaded first (ok: it is known).
ConfirmDelete(i, s) ==
  /\ Asks
  /\ Free(i) /\ Rail /\ confirming = s /\ s \in entries
  /\ action # [kind |-> "removing", session |-> s]
  /\ Begin(i, IF Active(s) THEN Op("remove", s, "delete", TRUE) ELSE Op("evict", s, "lookup", FALSE))
  /\ Set("removing", s) /\ residual' = FALSE
  /\ UNCHANGED <<entries, status, confirming, workspace, view, disk>>

Lookup(i) ==
  /\ ops[i].phase = "lookup"
  /\ IF Current(i)
     THEN \E ok \in {FALSE, store[ops[i].session] = "sound"} :
            Become(i, [ops[i] EXCEPT !.phase = "delete", !.ok = ok])
     ELSE End(i)
  /\ UNCHANGED <<library, workspace, view, disk, requests>>

Delete(i) ==
  /\ ops[i].phase = "delete"
  /\ \/ store[ops[i].session] # "none" /\ Stores(ops[i].session, "none") /\ To(i, "deleted")
     \/ store[ops[i].session] = "none" /\ To(i, "missing") /\ UNCHANGED disk
     \/ To(i, "failed") /\ UNCHANGED disk
  /\ UNCHANGED <<library, workspace, view, requests>>

Forget(s) ==
  /\ entries' = entries \ {s} /\ confirming' = None /\ action' = NoAction /\ UNCHANGED status

\* clearSessionWorkspace may fail.  Only the session that was on screen is detached from it.
Removed(i) ==
  /\ ops[i].phase = "deleted" /\ Current(i)
  /\ End(i)
  /\ Forget(ops[i].session)
  /\ \E clear \in {ops[i].ok, ops[i].ok /\ ~Unwritable} :
       /\ notes' = [notes EXCEPT ![ops[i].session] = @ /\ ~clear]
       /\ residual' = ~clear
  /\ IF ops[i].kind = "remove" THEN Issue("clear", ops[i].session) ELSE UNCHANGED <<cleared, autosave>>
  /\ UNCHANGED <<view, disk, requests>>

RemoveFails(i) ==
  /\ ops[i].kind \in {"remove", "evict"} /\ ops[i].phase \in {"missing", "failed"} /\ Current(i)
  /\ End(i)
  /\ residual' = FALSE
  /\ IF ops[i].phase = "missing" THEN Forget(ops[i].session)
     ELSE /\ action' = NoAction /\ status' \in {status, "error"}
          /\ UNCHANGED <<entries, confirming>>
  /\ UNCHANGED <<workspace, view, disk, requests>>

RemoveSuperseded(i) ==
  /\ ops[i].kind \in {"remove", "evict"} /\ ops[i].phase \in {"deleted", "missing", "failed"}
  /\ ~Current(i)
  /\ End(i) /\ Ignored
  /\ UNCHANGED <<library, workspace, view, requests>>

-----------------------------------------------------------------------------
(* processReplayFile and cancelReplayProcessing *)

Process(i, kind, s) == Free(i) /\ Begin(i, Op(kind, s, "process", FALSE))

OpenFile(i, s) ==
  /\ Asks
  /\ \/ screen # "loading" /\ Quiet
     \/ dialog = [status |-> "error", kind |-> "file", session |-> s]
  /\ Process(i, "file", s) /\ asked' = s
  /\ dialog' = [status |-> "processing", kind |-> "file", session |-> s]
  /\ UNCHANGED <<library, workspace, screen, evidence, disk>>

FileEnds(i) ==
  /\ ops[i].kind = "file"
  /\ \/ Latest(i) /\ Show(ops[i].session) /\ Persist(i, ops[i].session) /\ dialog' = NoDialog
     \/ /\ Latest(i) /\ End(i) /\ dialog' = [dialog EXCEPT !.status = "error"]
        /\ UNCHANGED <<library, workspace, screen>>
     \/ ~Latest(i) /\ End(i) /\ UNCHANGED <<library, workspace, screen, dialog>>
  /\ asked' = IF Latest(i) THEN None ELSE asked
  /\ UNCHANGED <<evidence, disk, requests>>

\* Mutant: the operation that is cancelled keeps the session gate.
Drop_Library == ops' = [i \in Slots |-> [ops[i] EXCEPT !.lib = FALSE]]

Drop == ops' = [i \in Slots |-> [ops[i] EXCEPT !.lib = FALSE, !.ses = FALSE]]

\* Mutant: the cancelled reopening is still shown as under way in the rail.
CancelledAction_Keep == action

CancelledAction == NoAction

CancelProcessing ==
  /\ dialog.status = "processing"
  /\ Drop
  /\ action' = CancelledAction /\ dialog' = NoDialog /\ asked' = None
  /\ UNCHANGED <<entries, status, residual, confirming, workspace, screen, evidence, disk, requests>>

CloseDialog ==
  /\ \/ dialog.status = "error" /\ dialog' = NoDialog /\ UNCHANGED evidence
     \/ evidence = "error" /\ evidence' = "idle" /\ UNCHANGED dialog
  /\ UNCHANGED <<library, workspace, screen, asked, disk, ops, requests>>

-----------------------------------------------------------------------------
(* handleEvidenceFile, loadDefault, completeCapture *)

OpenEvidence(i) ==
  /\ Asks
  /\ screen # "loading" /\ Quiet
  /\ Process(i, "evidence", None) /\ asked' = "receiver" /\ evidence' = "verifying"
  /\ UNCHANGED <<library, workspace, screen, dialog, disk>>

EvidenceEnds(i) ==
  /\ ops[i].kind = "evidence" /\ End(i)
  /\ \/ Latest(i) /\ Leave("receiver") /\ evidence' = "idle"
     \/ Latest(i) /\ evidence' = "error" /\ UNCHANGED <<screen, workspace>>
     \/ ~Latest(i) /\ UNCHANGED <<screen, workspace, evidence>>
  /\ asked' = IF Latest(i) THEN None ELSE asked
  /\ UNCHANGED <<library, dialog, disk, requests>>

LoadDefault(i) ==
  /\ Asks
  /\ screen \in {"error", "receiver"} /\ Quiet
  /\ Process(i, "default", Bundled) /\ asked' = Bundled /\ Leave("loading")
  /\ UNCHANGED <<library, dialog, evidence, disk>>

DefaultEnds(i) ==
  /\ ops[i].kind = "default" /\ End(i)
  /\ \/ Latest(i) /\ Show(Bundled)
     \/ Latest(i) /\ Leave("error")
     \/ ~Latest(i) /\ UNCHANGED <<screen, workspace>>
  /\ asked' = IF Latest(i) THEN None ELSE asked
  /\ UNCHANGED <<library, dialog, evidence, disk, requests>>

\* A capture has been downloaded.  The capture dialog is open until completeCapture has ended; before,
\* it only keeps the user from everything else.
CompleteCapture(i, s) ==
  /\ Asks
  /\ Rail /\ s # Bundled
  /\ Process(i, "capture", s) /\ asked' = s
  /\ UNCHANGED <<library, workspace, screen, dialog, evidence, disk>>

\* completeCapture never asks its gate whether it is still current.
CaptureEnds(i) ==
  /\ ops[i].kind = "capture" /\ asked' = None
  /\ \/ Show(ops[i].session) /\ Persist(i, ops[i].session)
     \/ Leave("error") /\ End(i) /\ UNCHANGED library
  /\ UNCHANGED <<dialog, evidence, disk, requests>>

-----------------------------------------------------------------------------
(* The operator edits the workspace; another window changes the library *)

Edit ==
  /\ Rail /\ autosave /\ ~notes[screen] /\ notes' = [notes EXCEPT ![screen] = TRUE]
  /\ UNCHANGED <<library, autosave, cleared, view, disk, ops, requests>>

OtherWindow ==
  /\ others < MaxOthers /\ others' = others + 1
  /\ \E s \in Sessions, value \in {"none", "sound", "corrupt"} :
       /\ store[s] # value /\ (value = "corrupt" => store[s] = "sound")
       /\ store' = [store EXCEPT ![s] = value]
       /\ drift' = TRUE
  /\ UNCHANGED <<library, workspace, view, ops, requests>>

-----------------------------------------------------------------------------

UserActs(i) ==
  \/ Retry(i) \/ SaveCurrent(i) \/ OpenEvidence(i) \/ LoadDefault(i)
  \/ \E s \in Sessions : OpenSaved(i, s) \/ ConfirmDelete(i, s) \/ OpenFile(i, s) \/ CompleteCapture(i, s)

Resumes(i) ==
  \/ List(i) \/ Refreshed(i) \/ SaveTransaction(i) \/ Revalidated(i) \/ Saved(i) \/ SaveFailed(i)
  \/ Relisted(i) \/ Load(i) \/ OpenSucceeds(i) \/ OpenFails(i) \/ OpenSuperseded(i) \/ Lookup(i)
  \/ Delete(i) \/ Removed(i) \/ RemoveFails(i) \/ RemoveSuperseded(i) \/ FileEnds(i)
  \/ EvidenceEnds(i) \/ DefaultEnds(i) \/ CaptureEnds(i)

Clicks == (\E s \in Sessions : RequestDelete(s)) \/ CancelDelete \/ CancelProcessing \/ CloseDialog
          \/ Edit

Next == (\E i \in Slots : UserActs(i) \/ Resumes(i)) \/ Clicks \/ OtherWindow

Spec == Init /\ [][Next]_vars

-----------------------------------------------------------------------------
(* Properties *)

\* Whatever the window shows as under way is under way, at an operation whose end it will heed: a
\* control or a modal dialog is never left waiting for an operation that was superseded.
BusyHasOwner ==
  /\ action # NoAction => \E i \in Slots : Current(i) /\ ops[i].kind # "refresh"
  /\ dialog.status = "processing" => \E i \in Slots : Latest(i) /\ ops[i].kind = dialog.kind
  /\ evidence = "verifying" => \E i \in Slots : Latest(i) /\ ops[i].kind = "evidence"
  /\ screen = "loading" => \E i \in Slots : Latest(i) /\ ops[i].kind = "default"

\* The replay on screen is replaced only by what the user asked for last and has not cancelled.
OnlyWhatWasAsked == [][screen' \notin {screen, "loading", "error"} => screen' = asked]_vars

\* When no operation is in flight, the list shows exactly the stored sessions, unless another window,
\* or an operation whose outcome the window ignored, has changed the library, or the operator was
\* warned that a save is shown beside a list that could not be read.
ListIsTrue == status = "ready" /\ ~drift /\ (\A i \in Slots : Free(i)) => entries = Stored

\* Saving content that is stored already never replaces the record, were it damaged.
StoredIsKept ==
  [][\A s \in Sessions : store[s] # "none" /\ store'[s] # store[s] /\ others' = others
       => store'[s] = "none"]_vars

\* A removal that took place has cleared the session's operator workspace by the time it ends, or
\* leaves a visible warning, unless the session is on screen again.
RemovalIsCleanOrWarned ==
  [][\A i \in Slots : LET s == ops[i].session IN
       ops[i].phase = "deleted" /\ Free(i)' /\ screen' # s => ~notes'[s] \/ residual']_vars
=============================================================================
