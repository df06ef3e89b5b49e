----------------------------- MODULE CaseLibrary -----------------------------
(***************************************************************************)
(* Local case storage (src/storage/case-library.ts) as several windows of  *)
(* the case workspace (src/cases/CaseWorkspace.tsx) use it on one case.    *)
(*                                                                         *)
(* A window is one thread; an action is what it does between two awaits of *)
(* a transaction or of the verification worker.  A revision stands for a   *)
(* whole archive: its hash, its bytes and its metadata; derives records    *)
(* which revisions it was edited from.  The stored record may be damaged   *)
(* from outside: its bytes no longer match its hash ("bytes"), or it is no *)
(* longer a record of this version ("shape").  IndexedDB runs one          *)
(* readwrite transaction at a time and makes readers wait for it.  A case  *)
(* of another identity in the workspace is the same as none (None).        *)
(***************************************************************************)
EXTENDS Naturals

CONSTANTS
  Tabs,       \* windows
  Revisions,  \* numbers of the archives that can ever be built: bounds the edits
  None,       \* no revision
  MaxDamage   \* 0, or 1 when the stored record may be damaged

ASSUME CaseAssumption ==
  /\ Revisions \subseteq Nat /\ None \notin Revisions /\ None \notin Tabs
  /\ MaxDamage \in Nat

VARIABLES
  store,      \* the record of the case in the database
  tx,         \* the readwrite transaction that has made its request and not yet ended
  active,     \* active: the revision open in each window
  savedHash,  \* savedHash: the revision each window takes to be the stored one
  op,         \* the operation each window runs, and what it awaits
  built,      \* the revisions built so far
  derives,    \* derives[r]: the revisions r was edited from
  past,       \* the revisions ever stored
  damage      \* damage done so far

vars == <<store, tx, active, savedHash, op, built, derives, past, damage>>

Values == Revisions \cup {None}
Record(r) == [rev |-> r, state |-> "sound"]
Absent == Record(None)
NoTx == [tab |-> None, kind |-> "none", rev |-> None, expected |-> None]
Idle == [kind |-> "none", phase |-> "none", rev |-> None, expected |-> None, prev |-> Absent]

Init == /\ store = Absent
        /\ tx = NoTx
        /\ active = [t \in Tabs |-> None]
        /\ savedHash = [t \in Tabs |-> None]
        /\ op = [t \in Tabs |-> Idle]
        /\ built = {}
        /\ derives = [r \in Revisions |-> {}]
        /\ past = {}
        /\ damage = 0

-----------------------------------------------------------------------------
(* Operations of the workspace *)

library == <<store, tx, past, damage>>
workspace == <<active, savedHash, built, derives>>
history == <<built, derives>>

Readable == store.state # "shape"

Begin(t, kind, phase, rev, expected) ==
  /\ op[t].kind = "none"
  /\ op' = [op EXCEPT ![t] = [kind |-> kind, phase |-> phase, rev |-> rev,
                               expected |-> expected, prev |-> Absent]]
  /\ UNCHANGED <<library, workspace>>

End(t) == op' = [op EXCEPT ![t] = Idle]
Step(t, phase) == op' = [op EXCEPT ![t].phase = phase]

Accept(t, value, persisted) ==
  /\ active' = [active EXCEPT ![t] = value]
  /\ savedHash' = [savedHash EXCEPT ![t] = persisted]

\* The window is locked while the worker builds or verifies an archive, and nothing but the window
\* changes: create, update, addBundles and importCase are one step.  Cancelled or failed, they
\* change nothing.  Revisions are numbered in the order in which they are built.
Fresh == {r \in Revisions \ built : \A s \in Revisions \ built : r <= s}

\* The case is created once: its identity is a fresh UUID.
Create(t) ==
  /\ op[t].kind = "none" /\ built = {}
  /\ \E r \in Fresh : built' = built \cup {r} /\ Accept(t, r, None)
  /\ UNCHANGED <<library, derives, op>>

Edit(t) ==
  /\ op[t].kind = "none" /\ active[t] # None
  /\ \E r \in Fresh :
       /\ built' = built \cup {r}
       /\ derives' = [derives EXCEPT ![r] = derives[active[t]] \cup {active[t]}]
       /\ active' = [active EXCEPT ![t] = r]
  /\ UNCHANGED <<library, savedHash, op>>

\* importCase: the archive of a revision somebody exported.
Import(t) ==
  /\ op[t].kind = "none"
  /\ \E r \in built : Accept(t, r, None)
  /\ UNCHANGED <<library, history, op>>

\* Another case, created or opened, takes the place of the open one.
OpenOther(t) ==
  /\ op[t].kind = "none" /\ active[t] # None
  /\ Accept(t, None, None)
  /\ UNCHANGED <<library, history, op>>

Open(t) == Begin(t, "open", "reading", None, None)

\* save, once the worker has verified the revision to be saved.
Save(t) == active[t] # None /\ Begin(t, "save", "reading", active[t], savedHash[t])

\* remove of the revision the window listed, once the user has confirmed it.  list() is read here:
\* whatever the window does between listing and removing, only a revision that is stored again by
\* then can be removed.
Remove(t) ==
  /\ tx = NoTx /\ store # Absent /\ Readable
  /\ Begin(t, "remove", "writing", None, store.rev)

-----------------------------------------------------------------------------
(* The library: load, save, remove *)

ReadForOpen(t) ==
  /\ op[t].phase = "reading" /\ op[t].kind = "open" /\ tx = NoTx
  /\ IF Readable /\ store # Absent
     THEN op' = [op EXCEPT ![t].phase = "verifying", ![t].prev = store]
     ELSE End(t)
  /\ UNCHANGED <<library, workspace>>

OpenVerified(t) ==
  /\ op[t].phase = "verifying"
  /\ IF op[t].prev.state = "sound" THEN Accept(t, op[t].prev.rev, op[t].prev.rev)
                                   ELSE UNCHANGED <<active, savedHash>>
  /\ End(t)
  /\ UNCHANGED <<library, history>>

\* save reads the stored revision and has it verified as well.
ReadPrevious(t) ==
  /\ op[t].phase = "reading" /\ op[t].kind = "save" /\ tx = NoTx
  /\ IF Readable
     THEN op' = [op EXCEPT ![t].phase = IF store = Absent THEN "writing" ELSE "prior",
                            ![t].prev = store]
     ELSE End(t)
  /\ UNCHANGED <<library, workspace>>

PriorVerified(t) ==
  /\ op[t].phase = "prior"
  /\ IF op[t].prev.state = "sound" THEN Step(t, "writing") ELSE End(t)
  /\ UNCHANGED <<library, workspace>>

\* Mutant: a revision read and verified just before counts as the expected one.
SaveRequest_AnyBase(o) ==
  IF ~Readable \/ store # o.prev THEN "refuse"
  ELSE IF store.rev = o.rev THEN "keep"
  ELSE "put"

\* Mutant: inside the transaction only the hashes are compared, not the bytes.
SaveRequest_HashOnly(o) ==
  IF ~Readable \/ store.rev # o.prev.rev THEN "refuse"
  ELSE IF store.rev = o.rev THEN "keep"
  ELSE IF store.rev # o.expected THEN "refuse"
  ELSE "put"

\* What the readwrite transaction of save and of remove asks for when its get has succeeded.
SaveRequest(o) ==
  IF ~Readable \/ store # o.prev THEN "refuse"
  ELSE IF store.rev = o.rev THEN (IF store.state = "sound" THEN "keep" ELSE "refuse")
  ELSE IF store.rev # o.expected THEN "refuse"
  ELSE "put"

\* Mutant: the case is removed whatever revision is stored.
RemoveRequest_Any(o) == IF Readable /\ store # Absent THEN "delete" ELSE "refuse"

RemoveRequest(o) ==
  IF Readable /\ store # Absent /\ store.rev = o.expected THEN "delete" ELSE "refuse"

Write(t) ==
  /\ op[t].phase = "writing" /\ tx = NoTx
  /\ LET request == IF op[t].kind = "save" THEN SaveRequest(op[t]) ELSE RemoveRequest(op[t])
     IN IF request = "refuse"
        THEN End(t) /\ UNCHANGED tx
        ELSE /\ tx' = [tab |-> t, kind |-> request, rev |-> op[t].rev, expected |-> op[t].expected]
             /\ Step(t, "committing")
  /\ UNCHANGED <<store, past, damage, workspace>>

\* The transaction commits.  A window that still waits for it is told; a page that gave up is not.
Commit ==
  /\ tx # NoTx
  /\ store' = CASE tx.kind = "put" -> Record(tx.rev) [] tx.kind = "delete" -> Absent
                [] OTHER -> store
  /\ past' = past \cup ({store'.rev} \ {None})
  /\ tx' = NoTx
  /\ IF op[tx.tab].phase = "committing"
     THEN /\ End(tx.tab)
          /\ savedHash' = [savedHash EXCEPT ![tx.tab] =
               IF tx.kind # "delete" \/ active[tx.tab] # None THEN tx.rev ELSE @]
     ELSE UNCHANGED <<op, savedHash>>
  /\ UNCHANGED <<active, history, damage>>

\* The quota is exhausted, or the browser aborts the transaction.
Abort ==
  /\ tx # NoTx
  /\ tx' = NoTx
  /\ IF op[tx.tab].phase = "committing" THEN End(tx.tab) ELSE UNCHANGED op
  /\ UNCHANGED <<store, past, damage, workspace>>

-----------------------------------------------------------------------------
(* Failures *)

\* A worker or a read fails: the operation is reported as failed.
Fails(t) ==
  /\ op[t].phase \in {"reading", "verifying", "prior", "writing"}
  /\ End(t)
  /\ UNCHANGED <<library, workspace>>

\* Mutant: a page that leaves aborts whatever transaction is running.
Leaves_Any(t) == tx' \in {tx, NoTx}

\* A page gives up the transaction it waits for: aborted, or too late because it is committing already.
Leaves(t) == tx' = tx \/ (op[t].phase = "committing" /\ tx' = NoTx)

\* The Cancel button.
Cancel(t) ==
  /\ op[t].kind \in {"open", "save"}
  /\ End(t)
  /\ Leaves(t)
  /\ UNCHANGED <<store, past, damage, workspace>>

\* The window is reloaded.
Reload(t) ==
  /\ active[t] # None \/ op[t] # Idle
  /\ Accept(t, None, None)
  /\ End(t)
  /\ Leaves(t)
  /\ UNCHANGED <<store, past, damage, history>>

Damage ==
  /\ damage < MaxDamage
  /\ tx = NoTx /\ store # Absent
  /\ \E s \in {"bytes", "shape"} : store' = [store EXCEPT !.state = s]
  /\ damage' = damage + 1
  /\ UNCHANGED <<tx, past, workspace, op>>

-----------------------------------------------------------------------------

Begins(t) == \/ Create(t) \/ Edit(t) \/ Import(t) \/ OpenOther(t)
             \/ Open(t) \/ Save(t) \/ Remove(t)

Proceeds(t) == \/ ReadForOpen(t) \/ OpenVerified(t)
               \/ ReadPrevious(t) \/ PriorVerified(t) \/ Write(t)

Next == \/ \E t \in Tabs : Begins(t) \/ Proceeds(t) \/ Fails(t) \/ Cancel(t) \/ Reload(t)
        \/ Commit \/ Abort \/ Damage

Spec == Init /\ [][Next]_vars

-----------------------------------------------------------------------------
(* Properties *)

Kinds == {"none", "open", "save", "remove"}
Phases == {"none", "reading", "verifying", "prior", "writing", "committing"}
Records == [rev : Values, state : {"sound", "bytes", "shape"}]

\* The state the code keeps, and the exclusive transaction: a window awaits the end of a transaction
\* only when it is its own.
TypeOK ==
  /\ store \in Records
  /\ tx \in [tab : Tabs \cup {None}, kind : {"none", "put", "keep", "delete"}, rev : Values,
            expected : Values]
  /\ active \in [Tabs -> Values] /\ savedHash \in [Tabs -> Values]
  /\ op \in [Tabs -> [kind : Kinds, phase : Phases, rev : Values, expected : Values, prev : Records]]
  /\ built \subseteq Revisions /\ derives \in [Revisions -> SUBSET Revisions]
  /\ past \subseteq Revisions /\ damage \in 0..MaxDamage
  /\ \A t \in Tabs : op[t].phase = "committing" => tx.tab = t

\* A saved revision is replaced only by one that was edited from it: no window's save loses what
\* another window saved, however the two interleave with opens, imports, removals and cancels.
NoLostUpdate ==
  [][store.rev # None /\ store'.rev \notin {None, store.rev}
       => store.rev \in derives'[store'.rev]]_vars

\* A damaged record is never repaired or replaced; it leaves only by an explicit removal.
DamageIsKept ==
  [][store.state # "sound" /\ store' # store => store'.rev = None \/ damage' # damage]_vars

\* The library is a compare-and-set register: a save reported as saved took effect against the
\* revision it expected, and one that failed had no effect unless it was cancelled while committing.
Call(t) == IF op[t].kind \in {"save", "remove"}
           THEN [pending |-> TRUE, expected |-> op[t].expected, new |-> op[t].rev]
           ELSE [pending |-> FALSE, expected |-> None, new |-> None]
GivenUp == IF tx = NoTx \/ op[tx.tab].phase = "committing" THEN {}
           ELSE {[pending |-> TRUE, expected |-> tx.expected, new |-> tx.rev]}
Register == INSTANCE CaseRegister WITH Clients <- Tabs, reg <- store.rev,
              call <- [t \in Tabs |-> Call(t)], held <- savedHash, adrift <- GivenUp
ImplementsRegister == Register!Spec
=============================================================================
