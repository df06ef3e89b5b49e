-------------------------- MODULE SessionShellProofs --------------------------
(***************************************************************************)
(* Proofs about the application window, for every set of replays, every    *)
(* number of operations in flight and any changes by other windows: what   *)
(* is shown as under way has an owner whose end is heeded, the replay on   *)
(* screen is the one the user asked for, saving never replaces a stored    *)
(* record, and the list is what is stored.                                 *)
(***************************************************************************)
EXTENDS SessionShell, TLAPS

Kinds == {"none", "refresh", "persist", "open", "remove", "evict",
          "file", "evidence", "default", "capture"}
Phases == {"none", "list", "listed", "relist", "relisted", "save", "validate", "failed", "read",
           "missing", "process", "lookup", "delete", "deleted"}
Ops == [kind : Kinds, session : Sessions \cup {None}, phase : Phases, ok : BOOLEAN,
        seen : SUBSET Sessions, lib : BOOLEAN, ses : BOOLEAN]

\* What is current on a gate is of a kind that begins there; phases belong to kinds.
GoodOp(op) ==
  /\ op \in Ops
  /\ op.lib => op.kind \in {"refresh", "persist", "open", "remove", "evict"}
  /\ op.ses => op.kind \in {"open", "file", "evidence", "default", "capture"}
  /\ op.kind \in {"open", "file", "capture"} => op.session \in Sessions
  /\ op.phase \in {"relist", "relisted"} => op.kind = "persist"
  /\ op.phase \in {"lookup", "delete", "deleted"} => op.kind \in {"remove", "evict"}

\* One operation at most is the latest.
GateInv ==
  /\ ops \in [Slots -> Ops]
  /\ \A i \in Slots : GoodOp(ops[i])
  /\ \A i, j \in Slots : Latest(i) /\ Latest(j) => i = j

NoCapture == \A i \in Slots : ops[i].kind # "capture"

\* The modal dialogs, the first screen and the capture dialog exclude each other.
ModalInv ==
  /\ dialog \in [status : {"idle", "processing", "error"}, kind : {"none", "open", "file"},
                 session : Sessions \cup {None}]
  /\ dialog # NoDialog => evidence = "idle" /\ screen # "loading" /\ NoCapture
  /\ evidence # "idle" => screen # "loading" /\ NoCapture
  /\ screen = "loading" => NoCapture

\* What the user sees when the operation succeeds.
Wanted(op) ==
  CASE op.kind = "evidence" -> "receiver" [] op.kind = "default" -> Bundled [] OTHER -> op.session

\* The latest operation is the one the window shows and the user asked for; a reopening that is the
\* latest is current, too, and a capture that is completed is the latest.
LatestInv == \A i \in Slots :
  /\ ops[i].kind = "capture" => Latest(i)
  /\ Latest(i) =>
    /\ asked = Wanted(ops[i])
    /\ ops[i].kind \in {"open", "file"} => dialog.status = "processing" /\ dialog.kind = ops[i].kind
    /\ ops[i].kind = "evidence" => evidence = "verifying"
    /\ ops[i].kind = "default" => screen = "loading"
    /\ ops[i].kind = "open" => Current(i)

StoreInv == store \in [Sessions -> {"none", "sound", "corrupt"}] /\ others \in Nat

Inv == GateInv /\ ModalInv /\ LatestInv /\ BusyHasOwner

-----------------------------------------------------------------------------
(* Operations: what the constructors and the gates do to them *)

OnLibrary(kind) == kind \in {"refresh", "persist", "open", "remove", "evict"}
OnSession(kind) == kind \in {"open", "file", "evidence", "default", "capture"}

LEMMA OpFacts ==
  ASSUME NEW kind \in Kinds, NEW s \in Sessions \cup {None}, NEW phase \in Phases, NEW ok \in BOOLEAN
  PROVE  Op(kind, s, phase, ok) \in Ops
<1>1. Op(kind, s, phase, ok)
        = [kind |-> kind, session |-> s, phase |-> phase, ok |-> ok, seen |-> {},
           lib |-> OnLibrary(kind), ses |-> OnSession(kind)]
  BY DEF Op, OnLibrary, OnSession
<1>2. OnLibrary(kind) \in BOOLEAN /\ OnSession(kind) \in BOOLEAN
  BY DEF OnLibrary, OnSession
<1> QED
  BY <1>1, <1>2 DEF Ops

LEMMA NameFacts ==
  /\ "none" \in Kinds /\ "refresh" \in Kinds /\ "persist" \in Kinds /\ "open" \in Kinds
  /\ "remove" \in Kinds /\ "evict" \in Kinds /\ "file" \in Kinds /\ "evidence" \in Kinds
  /\ "default" \in Kinds /\ "capture" \in Kinds
  /\ "none" \in Phases /\ "list" \in Phases /\ "save" \in Phases /\ "read" \in Phases
  /\ "process" \in Phases /\ "lookup" \in Phases /\ "delete" \in Phases
  /\ None \in Sessions \cup {None}
  BY DEF Kinds, Phases

LEMMA IdleFacts == GoodOp(Idle) /\ Idle.kind = "none" /\ ~Idle.lib /\ ~Idle.ses
<1>1. Idle \in Ops
  BY OpFacts, NameFacts DEF Idle
<1>2. /\ Idle.kind = "none" /\ Idle.session = None /\ Idle.phase = "none"
      /\ ~Idle.lib /\ ~Idle.ses
  BY DEF Idle, Op
<1> QED
  BY <1>1, <1>2 DEF GoodOp

\* What the operations that begin are.
LEMMA BegunFacts ==
  /\ LET op == Op("refresh", None, "list", FALSE)
     IN  GoodOp(op) /\ op.kind = "refresh" /\ op.lib /\ ~op.ses
  /\ LET op == Op("evidence", None, "process", FALSE)
     IN  GoodOp(op) /\ op.kind = "evidence" /\ ~op.lib /\ op.ses /\ Wanted(op) = "receiver"
  /\ \A s \in Sessions :
       /\ LET op == Op("persist", s, "save", FALSE)
          IN  GoodOp(op) /\ op.kind = "persist" /\ op.lib /\ ~op.ses
       /\ LET op == Op("open", s, "read", FALSE)
          IN  GoodOp(op) /\ op.kind = "open" /\ op.lib /\ op.ses /\ Wanted(op) = s
       /\ LET op == Op("remove", s, "delete", TRUE)
          IN  GoodOp(op) /\ op.kind = "remove" /\ op.lib /\ ~op.ses
       /\ LET op == Op("evict", s, "lookup", FALSE)
          IN  GoodOp(op) /\ op.kind = "evict" /\ op.lib /\ ~op.ses
       /\ \A kind \in {"file", "default", "capture"} :
            LET op == Op(kind, s, "process", FALSE)
            IN  GoodOp(op) /\ op.kind = kind /\ ~op.lib /\ op.ses
                /\ Wanted(op) = IF kind = "default" THEN Bundled ELSE s
<1>1. LET op == Op("refresh", None, "list", FALSE)
      IN  GoodOp(op) /\ op.kind = "refresh" /\ op.lib /\ ~op.ses
  <2> DEFINE op == Op("refresh", None, "list", FALSE)
  <2>1. op \in Ops
    BY OpFacts, NameFacts
  <2>2. /\ op.kind = "refresh" /\ op.session = None /\ op.phase = "list"
        /\ op.lib /\ ~op.ses
    BY DEF Op
  <2> HIDE DEF op
  <2>3. GoodOp(op)
    BY <2>1, <2>2 DEF GoodOp
  <2> QED
    BY <2>2, <2>3 DEF op, Wanted
<1>2. LET op == Op("evidence", None, "process", FALSE)
      IN  GoodOp(op) /\ op.kind = "evidence" /\ ~op.lib /\ op.ses /\ Wanted(op) = "receiver"
  <2> DEFINE op == Op("evidence", None, "process", FALSE)
  <2>1. op \in Ops
    BY OpFacts, NameFacts
  <2>2. /\ op.kind = "evidence" /\ op.session = None /\ op.phase = "process"
        /\ ~op.lib /\ op.ses
    BY DEF Op
  <2> HIDE DEF op
  <2>3. GoodOp(op)
    BY <2>1, <2>2 DEF GoodOp
  <2> QED
    BY <2>2, <2>3 DEF op, Wanted
<1>3. ASSUME NEW s \in Sessions
      PROVE  LET op == Op("persist", s, "save", FALSE)
             IN  GoodOp(op) /\ op.kind = "persist" /\ op.lib /\ ~op.ses
  <2> DEFINE op == Op("persist", s, "save", FALSE)
  <2>1. op \in Ops
    BY OpFacts, NameFacts
  <2>2. /\ op.kind = "persist" /\ op.session = s /\ op.phase = "save"
        /\ op.lib /\ ~op.ses
    BY DEF Op
  <2> HIDE DEF op
  <2>3. GoodOp(op)
    BY <2>1, <2>2 DEF GoodOp
  <2> QED
    BY <2>2, <2>3 DEF op, Wanted
<1>4. ASSUME NEW s \in Sessions
      PROVE  LET op == Op("open", s, "read", FALSE)
             IN  GoodOp(op) /\ op.kind = "open" /\ op.lib /\ op.ses /\ Wanted(op) = s
  <2> DEFINE op == Op("open", s, "read", FALSE)
  <2>1. op \in Ops
    BY OpFacts, NameFacts
  <2>2. /\ op.kind = "open" /\ op.session = s /\ op.phase = "read"
        /\ op.lib /\ op.ses
    BY DEF Op
  <2> HIDE DEF op
  <2>3. GoodOp(op)
    BY <2>1, <2>2 DEF GoodOp
  <2> QED
    BY <2>2, <2>3 DEF op, Wanted
<1>5. ASSUME NEW s \in Sessions
      PROVE  LET op == Op("remove", s, "delete", TRUE)
             IN  GoodOp(op) /\ op.kind = "remove" /\ op.lib /\ ~op.ses
  <2> DEFINE op == Op("remove", s, "delete", TRUE)
  <2>1. op \in Ops
    BY OpFacts, NameFacts
  <2>2. /\ op.kind = "remove" /\ op.session = s /\ op.phase = "delete"
        /\ op.lib /\ ~op.ses
    BY DEF Op
  <2> HIDE DEF op
  <2>3. GoodOp(op)
    BY <2>1, <2>2 DEF GoodOp
  <2> QED
    BY <2>2, <2>3 DEF op, Wanted
<1>6. ASSUME NEW s \in Sessions
      PROVE  LET op == Op("evict", s, "lookup", FALSE)
             IN  GoodOp(op) /\ op.kind = "evict" /\ op.lib /\ ~op.ses
  <2> DEFINE op == Op("evict", s, "lookup", FALSE)
  <2>1. op \in Ops
    BY OpFacts, NameFacts
  <2>2. /\ op.kind = "evict" /\ op.session = s /\ op.phase = "lookup"
        /\ op.lib /\ ~op.ses
    BY DEF Op
  <2> HIDE DEF op
  <2>3. GoodOp(op)
    BY <2>1, <2>2 DEF GoodOp
  <2> QED
    BY <2>2, <2>3 DEF op, Wanted
<1>7. ASSUME NEW s \in Sessions, NEW kind \in {"file", "default", "capture"}
      PROVE  LET op == Op(kind, s, "process", FALSE)
             IN  GoodOp(op) /\ op.kind = kind /\ ~op.lib /\ op.ses
                /\ Wanted(op) = IF kind = "default" THEN Bundled ELSE s
  <2> DEFINE op == Op(kind, s, "process", FALSE)
  <2>1. op \in Ops
    BY OpFacts, NameFacts
  <2>2. /\ op.kind = kind /\ op.session = s /\ op.phase = "process"
        /\ ~op.lib /\ op.ses
    BY DEF Op
  <2> HIDE DEF op
  <2>3. GoodOp(op)
    BY <2>1, <2>2 DEF GoodOp
  <2> QED
    BY <2>2, <2>3 DEF op, Wanted
<1> QED
  BY <1>1, <1>2, <1>3, <1>4, <1>5, <1>6, <1>7, Zenon

\* An operation that moves on stays what it is, and on its gates.
LEMMA KeepGate ==
  ASSUME GateInv, NEW i \in Slots, NEW op, GoodOp(op), Become(i, op),
         op.kind = ops[i].kind, op.session = ops[i].session, op.lib = ops[i].lib, op.ses = ops[i].ses
  PROVE  /\ GateInv'
         /\ \A k \in Slots : /\ ops'[k].kind = ops[k].kind /\ ops'[k].session = ops[k].session
                             /\ ops'[k].lib = ops[k].lib /\ ops'[k].ses = ops[k].ses
<1>1. /\ ops' \in [Slots -> Ops] /\ ops'[i] = op
      /\ \A k \in Slots : k # i => ops'[k] = ops[k]
  BY DEF GateInv, Become, GoodOp
<1>2. \A k \in Slots : GoodOp(ops'[k])
  BY <1>1 DEF GateInv
<1>3. \A k \in Slots : /\ ops'[k].kind = ops[k].kind /\ ops'[k].session = ops[k].session
                       /\ ops'[k].lib = ops[k].lib /\ ops'[k].ses = ops[k].ses
  BY <1>1
<1>4. \A k, j \in Slots : ops'[k].ses /\ ops'[j].ses => k = j
  BY <1>3 DEF GateInv, Latest
<1> QED
  BY <1>1, <1>2, <1>3, <1>4 DEF GateInv, Latest

LEMMA EndGate ==
  ASSUME GateInv, NEW i \in Slots, End(i)
  PROVE  /\ GateInv'
         /\ ops'[i].kind = "none" /\ ~ops'[i].lib /\ ~ops'[i].ses
         /\ \A k \in Slots : k # i => ops'[k] = ops[k]
<1>1. /\ ops'[i] = Idle
      /\ \A k \in Slots : k # i => ops'[k] = ops[k]
  BY DEF GateInv, End, Become
<1>2. ops' \in [Slots -> Ops]
  BY IdleFacts DEF GateInv, End, Become, GoodOp
<1>3. \A k \in Slots : GoodOp(ops'[k])
  BY <1>1, IdleFacts DEF GateInv
<1>4. \A k, j \in Slots : ops'[k].ses /\ ops'[j].ses => k = j
  BY <1>1, IdleFacts DEF GateInv, Latest
<1> QED
  BY <1>1, <1>2, <1>3, <1>4, IdleFacts DEF GateInv, Latest

LEMMA BeginGate ==
  ASSUME GateInv, NEW i \in Slots, NEW op, GoodOp(op), Begin(i, op)
  PROVE  /\ GateInv'
         /\ ops'[i] = op
         /\ \A k \in Slots : k # i => /\ ops'[k].kind = ops[k].kind
                                      /\ ops'[k].lib <=> ops[k].lib /\ ~op.lib
                                      /\ ops'[k].ses <=> ops[k].ses /\ ~op.ses
<1>0. /\ op \in Ops /\ op.lib \in BOOLEAN /\ op.ses \in BOOLEAN
      /\ \A k \in Slots : ops[k] \in Ops /\ ops[k].lib \in BOOLEAN /\ ops[k].ses \in BOOLEAN
  BY DEF GateInv, GoodOp, Ops
<1>1. ops'[i] = op
  BY DEF Begin
<1>2. ASSUME NEW k \in Slots, k # i
      PROVE  /\ ops'[k] \in Ops
             /\ ops'[k].kind = ops[k].kind /\ ops'[k].session = ops[k].session
             /\ ops'[k].phase = ops[k].phase
             /\ ops'[k].lib <=> ops[k].lib /\ ~op.lib
             /\ ops'[k].ses <=> ops[k].ses /\ ~op.ses
  <2>1. ops'[k] = [ops[k] EXCEPT !.lib = @ /\ ~op.lib, !.ses = @ /\ ~op.ses]
    BY <1>2 DEF Begin
  <2> QED
    BY <2>1, <1>0 DEF Ops
<1>3. ops' \in [Slots -> Ops]
  BY <1>0, <1>1, <1>2 DEF Begin
<1>4. ASSUME NEW k \in Slots PROVE GoodOp(ops'[k])
  BY <1>1, <1>2 DEF GateInv, GoodOp
<1>5. ASSUME NEW k \in Slots, NEW j \in Slots, ops'[k].ses, ops'[j].ses PROVE k = j
  BY <1>1, <1>2, <1>5 DEF GateInv, Latest
<1> QED
  BY <1>1, <1>2, <1>3, <1>4, <1>5 DEF GateInv, Latest

LEMMA DropGate ==
  ASSUME GateInv, Drop
  PROVE  /\ GateInv'
         /\ \A k \in Slots : ops'[k].kind = ops[k].kind /\ ~ops'[k].lib /\ ~ops'[k].ses
<1>1. ASSUME NEW k \in Slots
      PROVE  /\ ops'[k] \in Ops
             /\ ops'[k].kind = ops[k].kind /\ ops'[k].session = ops[k].session
             /\ ops'[k].phase = ops[k].phase /\ ~ops'[k].lib /\ ~ops'[k].ses
  <2>1. ops[k] \in Ops /\ ops'[k] = [ops[k] EXCEPT !.lib = FALSE, !.ses = FALSE]
    BY DEF GateInv, Drop
  <2> QED
    BY <2>1 DEF Ops
<1>2. ops' \in [Slots -> Ops]
  BY <1>1 DEF Drop
<1>3. \A k \in Slots : GoodOp(ops'[k])
  BY <1>1 DEF GateInv, GoodOp
<1> QED
  BY <1>1, <1>2, <1>3 DEF GateInv, Latest

-----------------------------------------------------------------------------
(* The ways a step may change the operations, and what then remains true *)

\* Between two awaits an operation changes nothing that is shown.
LEMMA KeepInv ==
  ASSUME Inv, NEW i \in Slots, NEW op, GoodOp(op), Become(i, op),
         op.kind = ops[i].kind, op.session = ops[i].session, op.lib = ops[i].lib, op.ses = ops[i].ses,
         UNCHANGED <<action, dialog, evidence, screen, asked>>
  PROVE  Inv'
<1>1. /\ GateInv'
      /\ \A k \in Slots : /\ ops'[k].kind = ops[k].kind /\ ops'[k].session = ops[k].session
                          /\ ops'[k].lib = ops[k].lib /\ ops'[k].ses = ops[k].ses
  BY KeepGate DEF Inv
<1>2. ModalInv'
  BY <1>1 DEF Inv, ModalInv, NoCapture
<1>3. LatestInv'
  BY <1>1 DEF Inv, LatestInv, Latest, Current, Wanted
<1>4. BusyHasOwner'
  BY <1>1 DEF Inv, BusyHasOwner, Latest, Current
<1> QED
  BY <1>1, <1>2, <1>3, <1>4 DEF Inv

\* An operation that is not the latest ends: what is under way on the library ends with its owner only.
LEMMA EndInv ==
  ASSUME Inv, NEW i \in Slots, End(i), ~Latest(i),
         \/ action' = NoAction
         \/ action' = action /\ (~Current(i) \/ ops[i].kind = "refresh"),
         UNCHANGED <<dialog, evidence, screen, asked>>
  PROVE  Inv'
<1>1. /\ GateInv'
      /\ ops'[i].kind = "none" /\ ~ops'[i].lib /\ ~ops'[i].ses
      /\ \A k \in Slots : k # i => ops'[k] = ops[k]
  BY EndGate DEF Inv
<1>2. ModalInv'
  BY <1>1 DEF Inv, ModalInv, NoCapture
<1>3. LatestInv'
  BY <1>1 DEF Inv, LatestInv, Latest, Current, Wanted
<1>4. BusyHasOwner'
  BY <1>1 DEF Inv, BusyHasOwner, Latest, Current
<1> QED
  BY <1>1, <1>2, <1>3, <1>4 DEF Inv

\* The latest operation ends: nothing modal is left processing.
LEMMA EndLatestInv ==
  ASSUME Inv, NEW i \in Slots, End(i), Latest(i),
         action' = NoAction \/ (action' = action /\ ~Current(i)),
         dialog' \in [status : {"idle", "processing", "error"}, kind : {"none", "open", "file"},
                      session : Sessions \cup {None}],
         dialog'.status # "processing", evidence' # "verifying", screen' # "loading",
         dialog' # NoDialog => evidence' = "idle" /\ NoCapture,
         evidence' # "idle" => NoCapture
  PROVE  Inv'
<1>1. /\ GateInv'
      /\ ops'[i].kind = "none" /\ ~ops'[i].lib /\ ~ops'[i].ses
      /\ \A k \in Slots : k # i => ops'[k] = ops[k]
  BY EndGate DEF Inv
<1>2. \A k \in Slots : ~Latest(k)'
  BY <1>1 DEF Inv, GateInv, Latest
<1>3. ModalInv'
  BY <1>1 DEF ModalInv, NoCapture
<1>4. LatestInv'
  BY <1>1, <1>2 DEF Inv, GateInv, LatestInv, Latest
<1>5. BusyHasOwner'
  BY <1>1 DEF Inv, BusyHasOwner, Current
<1> QED
  BY <1>1, <1>3, <1>4, <1>5 DEF Inv

\* An operation begins while none is the latest: what is shown as under way is its own.
LEMMA BeginInv ==
  ASSUME Inv, NEW i \in Slots, NEW op, GoodOp(op), Begin(i, op),
         \A k \in Slots : ~Latest(k),
         \/ action' = NoAction
         \/ op.lib /\ op.kind # "refresh"
         \/ ~op.lib /\ action' = action /\ ~Current(i),
         op.kind = "capture" => op.ses,
         op.ses => /\ asked' = Wanted(op)
                   /\ op.kind \in {"open", "file"} =>
                        dialog'.status = "processing" /\ dialog'.kind = op.kind
                   /\ op.kind = "evidence" => evidence' = "verifying"
                   /\ op.kind = "default" => screen' = "loading"
                   /\ op.kind = "open" => op.lib,
         dialog'.status = "processing" => op.ses /\ op.kind = dialog'.kind,
         evidence' = "verifying" => op.ses /\ op.kind = "evidence",
         screen' = "loading" => op.ses /\ op.kind = "default",
         dialog' \in [status : {"idle", "processing", "error"}, kind : {"none", "open", "file"},
                      session : Sessions \cup {None}],
         dialog' # NoDialog => /\ evidence' = "idle" /\ screen' # "loading"
                               /\ NoCapture /\ op.kind # "capture",
         evidence' # "idle" => screen' # "loading" /\ NoCapture /\ op.kind # "capture",
         screen' = "loading" => NoCapture /\ op.kind # "capture"
  PROVE  Inv'
<1>1. /\ GateInv'
      /\ ops'[i] = op
      /\ \A k \in Slots : k # i => /\ ops'[k].kind = ops[k].kind
                                   /\ ops'[k].lib <=> ops[k].lib /\ ~op.lib
                                   /\ ops'[k].ses <=> ops[k].ses /\ ~op.ses
  BY BeginGate DEF Inv
<1>2. \A k \in Slots : ops'[k].ses => k = i
  BY <1>1 DEF Latest
<1>3. ModalInv'
  BY <1>1 DEF ModalInv, NoCapture
<1>4. LatestInv'
  BY <1>1, <1>2 DEF Inv, LatestInv, Latest, Current
<1>5. BusyHasOwner'
  <2>1. action' # NoAction => \E k \in Slots : ops'[k].lib /\ ops'[k].kind # "refresh"
    BY <1>1 DEF Inv, BusyHasOwner, Current
  <2> QED
    BY <1>1, <2>1 DEF BusyHasOwner, Latest, Current
<1> QED
  BY <1>1, <1>3, <1>4, <1>5 DEF Inv

\* Where the user can begin anything, nothing that a dialog or the first screen waits for is under way.
LEMMA FreeScreen ==
  ASSUME Inv, screen # "loading", Quiet \/ dialog.status = "error"
  PROVE  evidence = "idle" /\ NoCapture /\ \A k \in Slots : ~Latest(k)
<1>1. evidence = "idle" /\ NoCapture /\ dialog.status # "processing"
  BY DEF Inv, ModalInv, Quiet, NoCapture, NoDialog
<1> QED
  BY <1>1 DEF Inv, GateInv, GoodOp, LatestInv, Latest, NoCapture

\* A file or a capture is shown and saved: no dialog is open then.
LEMMA PersistInv ==
  ASSUME Inv, NEW i \in Slots, NEW s \in Sessions, Persist(i, s),
         screen' = s, dialog' = NoDialog, evidence = "idle", evidence' = evidence,
         \A k \in Slots : k # i => ~Latest(k)
  PROVE  Inv'
<1> DEFINE op == Op("persist", s, "save", FALSE)
<1>1. GoodOp(op) /\ op.kind = "persist" /\ op.lib /\ ~op.ses
  BY BegunFacts
<1>2. Begin(i, op)
  BY DEF Persist
<1> HIDE DEF op
<1>3. /\ GateInv'
      /\ ops'[i] = op
      /\ \A k \in Slots : k # i => /\ ops'[k].kind = ops[k].kind
                                   /\ ops'[k].lib <=> ops[k].lib /\ ~op.lib
                                   /\ ops'[k].ses <=> ops[k].ses /\ ~op.ses
  BY <1>1, <1>2, BeginGate DEF Inv
<1>4. \A k \in Slots : ~ops'[k].ses /\ ops'[k].kind # "capture"
  BY <1>1, <1>3 DEF Inv, LatestInv, Latest
<1>5. /\ screen' # "loading" /\ NoDialog.status = "idle"
      /\ NoDialog \in [status : {"idle", "processing", "error"}, kind : {"none", "open", "file"},
                       session : Sessions \cup {None}]
  BY ShellAssumption DEF NoDialog
<1>6. ModalInv'
  BY <1>5 DEF ModalInv
<1>7. LatestInv'
  BY <1>4 DEF LatestInv, Latest
<1>8. BusyHasOwner'
  BY <1>1, <1>3, <1>5 DEF BusyHasOwner, Current
<1> QED
  BY <1>3, <1>6, <1>7, <1>8 DEF Inv

-----------------------------------------------------------------------------
(* One lemma per group of actions *)

LEMMA KeepSteps ==
  ASSUME Inv, NEW i \in Slots,
         List(i) \/ SaveTransaction(i) \/ Revalidated(i) \/ Load(i) \/ Delete(i)
  PROVE  Inv'
<1>1. GoodOp(ops[i])
  BY DEF Inv, GateInv
<1>2. CASE List(i)
  <2>1. PICK ok \in BOOLEAN :
          Become(i, [ops[i] EXCEPT !.phase = IF @ = "list" THEN "listed" ELSE "relisted",
                                   !.ok = ok, !.seen = IF ok THEN Stored ELSE {}])
    BY <1>2 DEF List
  <2> DEFINE op == [ops[i] EXCEPT !.phase = IF @ = "list" THEN "listed" ELSE "relisted",
                                  !.ok = ok, !.seen = IF ok THEN Stored ELSE {}]
  <2>2. Stored \in SUBSET Sessions /\ ops[i].phase \in {"list", "relist"}
    BY <1>2 DEF Stored, List
  <2>3. GoodOp(op) /\ op.kind = ops[i].kind /\ op.session = ops[i].session
        /\ op.lib = ops[i].lib /\ op.ses = ops[i].ses
    BY <1>1, <2>2 DEF GoodOp, Ops, Phases
  <2> HIDE DEF op
  <2>4. Become(i, op)
    BY <2>1 DEF op
  <2> QED
    BY <1>2, <2>3, <2>4, KeepInv DEF List, library, view
<1>3. ASSUME NEW phase \in {"list", "validate", "failed", "deleted", "missing"}, To(i, phase),
             phase = "deleted" => ops[i].phase = "delete",
             UNCHANGED <<action, dialog, evidence, screen, asked>>
      PROVE  Inv'
  <2> DEFINE op == [ops[i] EXCEPT !.phase = phase]
  <2>1. GoodOp(op) /\ op.kind = ops[i].kind /\ op.session = ops[i].session
        /\ op.lib = ops[i].lib /\ op.ses = ops[i].ses
    BY <1>1, <1>3 DEF GoodOp, Ops, Phases
  <2>2. Become(i, op)
    BY <1>3 DEF To, Become, Inv, GateInv
  <2> HIDE DEF op
  <2> QED
    BY <1>3, <2>1, <2>2, KeepInv
<1>4. CASE SaveTransaction(i)
  BY <1>3, <1>4 DEF SaveTransaction, SaveStored, library, view
<1>5. CASE Revalidated(i)
  BY <1>3, <1>5 DEF Revalidated, library, view
<1>6. CASE Delete(i)
  BY <1>3, <1>6 DEF Delete, library, view
<1>7. CASE Load(i)
  <2> DEFINE op == [ops[i] EXCEPT
                     !.phase = IF store[ops[i].session] = "none" THEN "missing" ELSE "process",
                     !.ok = store[ops[i].session] = "sound"]
  <2>1. (store[ops[i].session] = "sound") \in BOOLEAN
    OBVIOUS
  <2>2. GoodOp(op) /\ op.kind = ops[i].kind /\ op.session = ops[i].session
        /\ op.lib = ops[i].lib /\ op.ses = ops[i].ses
    BY <1>1, <2>1 DEF GoodOp, Ops, Phases
  <2>3. Become(i, op)
    BY <1>7 DEF Load
  <2> HIDE DEF op
  <2> QED
    BY <1>7, <2>2, <2>3, KeepInv DEF Load, library, view
<1> QED
  BY <1>2, <1>4, <1>5, <1>6, <1>7

LEMMA LibraryEnds ==
  ASSUME Inv, NEW i \in Slots,
         \/ Refreshed(i) \/ Saved(i) \/ SaveFailed(i) \/ Relisted(i) \/ Lookup(i)
         \/ Removed(i) \/ RemoveFails(i) \/ RemoveSuperseded(i) \/ OpenSuperseded(i)
  PROVE  Inv'
<1>1. /\ GoodOp(ops[i])
      /\ ops[i].kind \in {"refresh", "persist", "remove", "evict"} => ~Latest(i)
  BY DEF Inv, GateInv, GoodOp, Latest
<1>2. CASE Refreshed(i)
  BY <1>1, <1>2, EndInv DEF Refreshed, view
<1>3. CASE Saved(i)
  BY <1>1, <1>3, EndInv DEF Saved, view
<1>4. CASE SaveFailed(i)
  <2>1. CASE End(i) /\ (action' = NoAction \/ (action' = action /\ ~Current(i)))
    BY <1>1, <1>4, <2>1, EndInv DEF SaveFailed, view
  <2>2. CASE To(i, "relist") /\ action' = action
    <3> DEFINE op == [ops[i] EXCEPT !.phase = "relist"]
    <3>1. GoodOp(op) /\ op.kind = ops[i].kind /\ op.session = ops[i].session
        /\ op.lib = ops[i].lib /\ op.ses = ops[i].ses
      BY <1>1, <1>4 DEF GoodOp, Ops, Phases, SaveFailed
    <3>2. Become(i, op)
      BY <2>2 DEF To, Become
    <3> HIDE DEF op
    <3> QED
      BY <1>4, <2>2, <3>1, <3>2, KeepInv DEF SaveFailed, view
  <2>3. \/ End(i) /\ (action' = NoAction \/ (action' = action /\ ~Current(i)))
        \/ To(i, "relist") /\ action' = action
    BY <1>4, Zenon DEF SaveFailed
  <2> QED
    BY <2>1, <2>2, <2>3
<1>5. CASE Relisted(i)
  <2>1. ops[i].kind = "persist"
    BY <1>1, <1>5 DEF Relisted, GoodOp
  <2> QED
    BY <1>1, <1>5, <2>1, EndInv DEF Relisted, view
<1>6. CASE Lookup(i)
  <2>1. ops[i].kind \in {"remove", "evict"} /\ UNCHANGED <<action, dialog, evidence, screen, asked>>
    BY <1>1, <1>6 DEF Lookup, GoodOp, library, view
  <2>2. CASE ~Current(i)
    BY <1>1, <1>6, <2>1, <2>2, EndInv DEF Lookup
  <2>3. CASE Current(i)
    <3>1. PICK ok \in {FALSE, store[ops[i].session] = "sound"} :
            Become(i, [ops[i] EXCEPT !.phase = "delete", !.ok = ok])
      BY <1>6, <2>3 DEF Lookup
    <3> DEFINE op == [ops[i] EXCEPT !.phase = "delete", !.ok = ok]
    <3>2. ok \in BOOLEAN
      BY <3>1
    <3>3. GoodOp(op) /\ op.kind = ops[i].kind /\ op.session = ops[i].session
        /\ op.lib = ops[i].lib /\ op.ses = ops[i].ses
      BY <1>1, <2>1, <3>2 DEF GoodOp, Ops, Phases
    <3>4. Become(i, op)
      BY <3>1
    <3> HIDE DEF op
    <3> QED
      BY <2>1, <3>3, <3>4, KeepInv
  <2> QED
    BY <2>2, <2>3
<1>7. CASE Removed(i)
  <2>1. ops[i].kind \in {"remove", "evict"}
    BY <1>1, <1>7 DEF Removed, GoodOp
  <2> QED
    BY <1>1, <1>7, <2>1, EndInv DEF Removed, Forget, view
<1>8. CASE RemoveFails(i)
  BY <1>1, <1>8, EndInv DEF RemoveFails, Forget, view
<1>9. CASE RemoveSuperseded(i)
  BY <1>1, <1>9, EndInv DEF RemoveSuperseded, library, view
<1>10. CASE OpenSuperseded(i)
  <2>1. ~Latest(i)
    BY <1>10 DEF OpenSuperseded, Inv, LatestInv
  <2> QED
    BY <1>10, <2>1, EndInv DEF OpenSuperseded, view
<1> QED
  BY <1>2, <1>3, <1>4, <1>5, <1>6, <1>7, <1>8, <1>9, <1>10

LEMMA SessionEnds ==
  ASSUME Inv, NEW i \in Slots,
         \/ OpenSucceeds(i) \/ OpenFails(i) \/ EvidenceEnds(i)
         \/ DefaultEnds(i) \/ FileEnds(i) \/ CaptureEnds(i)
  PROVE  Inv'
<1> DEFINE Dialogs == [status : {"idle", "processing", "error"}, kind : {"none", "open", "file"},
                       session : Sessions \cup {None}]
<1>1. /\ GoodOp(ops[i]) /\ dialog \in Dialogs
      /\ ops[i].kind \in {"evidence", "default", "file", "capture"} => ~Current(i)
      /\ ops[i].kind \in {"open", "file", "capture"} => ops[i].session \in Sessions
  BY DEF Inv, GateInv, GoodOp, Current, ModalInv
<1>2. \A s \in Sessions : s # "loading"
  BY ShellAssumption
<1>3. NoDialog \in Dialogs /\ NoDialog.status = "idle" /\ Bundled \in Sessions
  BY ShellAssumption DEF NoDialog
<1>4. [dialog EXCEPT !.status = "error"] \in Dialogs
  BY <1>1
<1>5. [dialog EXCEPT !.status = "error"].status = "error"
  BY <1>1
<1>6. ASSUME Latest(i), ops[i].kind \in {"open", "file"}
      PROVE  evidence = "idle" /\ screen # "loading" /\ NoCapture
  BY <1>6, <1>3 DEF Inv, LatestInv, ModalInv
<1>7. ASSUME Latest(i), ops[i].kind = "evidence"
      PROVE  dialog = NoDialog /\ screen # "loading" /\ NoCapture
  BY <1>7 DEF Inv, LatestInv, ModalInv
<1>8. ASSUME Latest(i), ops[i].kind = "default"
      PROVE  dialog = NoDialog /\ evidence = "idle"
  BY <1>8 DEF Inv, LatestInv, ModalInv
<1> HIDE DEF Dialogs
<1>10. CASE OpenSucceeds(i)
  <2>1. /\ End(i) /\ Latest(i) /\ ops[i].kind = "open"
        /\ dialog' = NoDialog /\ action' = NoAction /\ evidence' = evidence
        /\ screen' = ops[i].session
    BY <1>10 DEF OpenSucceeds, Show
  <2> QED
    BY <2>1, <1>1, <1>2, <1>3, <1>6, EndLatestInv DEF Dialogs
<1>11. CASE OpenFails(i)
  <2>1. /\ End(i) /\ Latest(i) /\ ops[i].kind = "open"
        /\ dialog' = [dialog EXCEPT !.status = "error"] /\ action' = NoAction
        /\ evidence' = evidence /\ screen' = screen
    BY <1>11 DEF OpenFails
  <2> QED
    BY <2>1, <1>4, <1>5, <1>6, EndLatestInv DEF Dialogs
<1>12. CASE EvidenceEnds(i)
  <2>1. /\ End(i) /\ ops[i].kind = "evidence" /\ dialog' = dialog /\ action' = action
        /\ \/ Latest(i) /\ screen' = "receiver" /\ evidence' = "idle"
           \/ Latest(i) /\ screen' = screen /\ evidence' = "error"
           \/ ~Latest(i) /\ screen' = screen /\ evidence' = evidence
        /\ ~Latest(i) => asked' = asked
    BY <1>12, Zenon DEF EvidenceEnds, Leave, library
  <2>2. CASE Latest(i)
    BY <2>1, <2>2, <1>1, <1>3, <1>7, EndLatestInv DEF Dialogs
  <2>3. CASE ~Latest(i)
    BY <2>1, <2>3, <1>1, EndInv
  <2> QED
    BY <2>2, <2>3
<1>13. CASE DefaultEnds(i)
  <2>1. /\ End(i) /\ ops[i].kind = "default" /\ dialog' = dialog /\ action' = action
        /\ evidence' = evidence
        /\ \/ Latest(i) /\ screen' = Bundled
           \/ Latest(i) /\ screen' = "error"
           \/ ~Latest(i) /\ screen' = screen
        /\ ~Latest(i) => asked' = asked
    BY <1>13, Zenon DEF DefaultEnds, Leave, Show, library
  <2>2. CASE Latest(i)
    BY <2>1, <2>2, <1>1, <1>2, <1>3, <1>8, EndLatestInv DEF Dialogs
  <2>3. CASE ~Latest(i)
    BY <2>1, <2>3, <1>1, EndInv
  <2> QED
    BY <2>2, <2>3
<1>14. CASE FileEnds(i)
  <2>1. CASE /\ Latest(i) /\ Show(ops[i].session) /\ Persist(i, ops[i].session) /\ dialog' = NoDialog
    <3>1. \A k \in Slots : k # i => ~Latest(k)
      BY <2>1 DEF Inv, GateInv
    <3>2. screen' = ops[i].session /\ evidence' = evidence /\ ops[i].kind = "file"
      BY <1>14, <2>1 DEF FileEnds, Show
    <3> QED
      BY <2>1, <3>1, <3>2, <1>1, <1>6, PersistInv
  <2>2. CASE /\ Latest(i) /\ End(i) /\ dialog' = [dialog EXCEPT !.status = "error"]
             /\ UNCHANGED <<library, workspace, screen>>
    <3>1. evidence' = evidence /\ ops[i].kind = "file"
      BY <1>14 DEF FileEnds
    <3> QED
      BY <2>2, <3>1, <1>1, <1>4, <1>5, <1>6, EndLatestInv DEF Dialogs, library
  <2>3. CASE ~Latest(i) /\ End(i) /\ UNCHANGED <<library, workspace, screen, dialog>>
    <3>1. evidence' = evidence /\ ops[i].kind = "file" /\ asked' = asked
      BY <1>14, <2>3 DEF FileEnds
    <3> QED
      BY <2>3, <3>1, <1>1, EndInv DEF library
  <2> QED
    BY <1>14, <2>1, <2>2, <2>3, Zenon DEF FileEnds
<1>15. CASE CaptureEnds(i)
  <2>1. ops[i].kind = "capture" /\ dialog' = dialog /\ evidence' = evidence
    BY <1>15 DEF CaptureEnds
  <2>2. dialog = NoDialog /\ evidence = "idle" /\ screen # "loading"
    BY <2>1 DEF Inv, ModalInv, NoCapture
  <2>3. Latest(i) /\ \A k \in Slots : k # i => ~Latest(k)
    BY <2>1 DEF Inv, GateInv, LatestInv
  <2>4. CASE Show(ops[i].session) /\ Persist(i, ops[i].session)
    <3>1. screen' = ops[i].session
      BY <2>4 DEF Show
    <3> QED
      BY <2>1, <2>2, <2>3, <2>4, <3>1, <1>1, PersistInv
  <2>5. CASE Leave("error") /\ End(i) /\ UNCHANGED library
    <3>1. screen' = "error" /\ action' = action
      BY <2>5 DEF Leave, library
    <3> QED
      BY <2>1, <2>2, <2>3, <2>5, <3>1, <1>1, <1>3, EndLatestInv DEF Dialogs
  <2> QED
    BY <1>15, <2>4, <2>5, Zenon DEF CaptureEnds
<1> QED
  BY <1>10, <1>11, <1>12, <1>13, <1>14, <1>15

LEMMA LibraryBegins ==
  ASSUME Inv, NEW i \in Slots,
         Retry(i) \/ SaveCurrent(i) \/ \E s \in Sessions : ConfirmDelete(i, s)
  PROVE  Inv'
<1> DEFINE BeginsIn(op) == /\ GoodOp(op) /\ op.lib /\ ~op.ses /\ Begin(i, op) /\ op.kind # "capture"
                           /\ action' = NoAction \/ op.kind # "refresh"
           Begins == /\ Rail
                     /\ UNCHANGED <<dialog, evidence, screen>>
                     /\ \E op : BeginsIn(op)
<1>1. Begins
  <2>1. CASE Retry(i)
    <3>1. action' = NoAction /\ Rail /\ UNCHANGED <<dialog, evidence, screen>>
          /\ Begin(i, Op("refresh", None, "list", FALSE))
      BY <2>1 DEF Retry, view
    <3> QED
      BY <3>1, BegunFacts
  <2>2. CASE SaveCurrent(i)
    <3>1. Rail /\ UNCHANGED <<dialog, evidence, screen>> /\ screen \in Sessions
          /\ Begin(i, Op("persist", screen, "save", FALSE))
      BY <2>2 DEF SaveCurrent, Persist, view, Rail
    <3> QED
      BY <3>1, BegunFacts
  <2>3. ASSUME NEW s \in Sessions, ConfirmDelete(i, s) PROVE Begins
    <3>1. Rail /\ UNCHANGED <<dialog, evidence, screen>>
      BY <2>3 DEF ConfirmDelete, view
    <3>2. \/ Begin(i, Op("remove", s, "delete", TRUE))
          \/ Begin(i, Op("evict", s, "lookup", FALSE))
      BY <2>3 DEF ConfirmDelete
    <3> QED
      BY <3>1, <3>2, BegunFacts
  <2> QED
    BY <2>1, <2>2, <2>3
<1>2. PICK op : BeginsIn(op)
  BY <1>1
<1>3. /\ screen # "loading" /\ Quiet /\ dialog = NoDialog /\ dialog.status = "idle"
  BY <1>1, ShellAssumption DEF Rail, Quiet, NoDialog
<1>4. evidence = "idle" /\ NoCapture /\ \A k \in Slots : ~Latest(k)
  BY <1>3, FreeScreen
<1>5. dialog \in [status : {"idle", "processing", "error"}, kind : {"none", "open", "file"},
                  session : Sessions \cup {None}]
  BY DEF Inv, ModalInv
<1> QED
  BY <1>1, <1>2, <1>3, <1>4, <1>5, BeginInv

LEMMA SessionBegins ==
  ASSUME Inv, NEW i \in Slots,
         \/ OpenEvidence(i) \/ LoadDefault(i)
         \/ \E s \in Sessions : OpenSaved(i, s) \/ OpenFile(i, s) \/ CompleteCapture(i, s)
  PROVE  Inv'
<1> DEFINE Dialogs == [status : {"idle", "processing", "error"}, kind : {"none", "open", "file"},
                       session : Sessions \cup {None}]
<1>1. dialog \in Dialogs
  BY DEF Inv, ModalInv
<1>2. Free(i) => ~Current(i)
  BY IdleFacts DEF Free, Current
<1>3. ASSUME NEW s \in Sessions, OpenSaved(i, s) PROVE Inv'
  <2> DEFINE op == Op("open", s, "read", FALSE)
  <2>1. GoodOp(op) /\ op.kind = "open" /\ op.lib /\ op.ses /\ Wanted(op) = s
    BY BegunFacts
  <2> DEFINE failed == [status |-> "error", kind |-> "open", session |-> s]
  <2>a. /\ screen \in Sessions /\ (Quiet \/ dialog = failed) /\ Begin(i, op)
        /\ screen' = screen /\ evidence' = evidence /\ asked' = s
        /\ dialog' = [status |-> "processing", kind |-> "open", session |-> s]
    BY <1>3 DEF OpenSaved
  <2>b. failed.status = "error"
    OBVIOUS
  <2> HIDE DEF failed
  <2>2. screen # "loading" /\ (Quiet \/ dialog.status = "error")
    BY <2>a, <2>b, ShellAssumption
  <2>3. evidence = "idle" /\ NoCapture /\ \A k \in Slots : ~Latest(k)
    BY <2>2, FreeScreen
  <2> HIDE DEF op
  <2>4. dialog' \in Dialogs /\ dialog'.status = "processing" /\ dialog'.kind = "open"
    BY <2>a
  <2> QED
    BY <2>1, <2>a, <2>2, <2>3, <2>4, BeginInv
<1>4. ASSUME NEW s \in Sessions, OpenFile(i, s) PROVE Inv'
  <2> DEFINE op == Op("file", s, "process", FALSE)
  <2>1. GoodOp(op) /\ op.kind = "file" /\ ~op.lib /\ op.ses /\ Wanted(op) = s
    BY BegunFacts
  <2> DEFINE failed == [status |-> "error", kind |-> "file", session |-> s]
  <2>a. /\ (Quiet /\ screen # "loading") \/ dialog = failed
        /\ Free(i) /\ Begin(i, op)
        /\ screen' = screen /\ evidence' = evidence /\ action' = action /\ asked' = s
        /\ dialog' = [status |-> "processing", kind |-> "file", session |-> s]
    BY <1>4 DEF OpenFile, Process, library
  <2>b. failed.status = "error"
    OBVIOUS
  <2> HIDE DEF failed
  <2>2. Quiet \/ dialog.status = "error"
    BY <2>a, <2>b
  <2>3. screen # "loading"
    BY <2>a, <2>b DEF Inv, ModalInv, NoDialog
  <2>4. evidence = "idle" /\ NoCapture /\ \A k \in Slots : ~Latest(k)
    BY <2>2, <2>3, FreeScreen
  <2> HIDE DEF op
  <2>5. dialog' \in Dialogs /\ dialog'.status = "processing" /\ dialog'.kind = "file"
    BY <2>a
  <2> QED
    BY <1>2, <2>1, <2>a, <2>2, <2>3, <2>4, <2>5, BeginInv
<1>5. ASSUME NEW s \in Sessions, CompleteCapture(i, s) PROVE Inv'
  <2> DEFINE op == Op("capture", s, "process", FALSE)
  <2>1. GoodOp(op) /\ op.kind = "capture" /\ ~op.lib /\ op.ses /\ Wanted(op) = s
    BY BegunFacts
  <2>2. /\ screen # "loading" /\ Quiet /\ dialog = NoDialog /\ dialog.status = "idle"
        /\ Free(i) /\ Begin(i, op)
        /\ screen' = screen /\ evidence' = evidence /\ action' = action /\ dialog' = dialog /\ asked' = s
    BY <1>5, ShellAssumption DEF CompleteCapture, Process, Rail, Quiet, library, NoDialog
  <2>3. evidence = "idle" /\ NoCapture /\ \A k \in Slots : ~Latest(k)
    BY <2>2, FreeScreen
  <2> HIDE DEF op
  <2> QED
    BY <1>1, <1>2, <2>1, <2>2, <2>3, BeginInv
<1>6. CASE OpenEvidence(i)
  <2> DEFINE op == Op("evidence", None, "process", FALSE)
  <2>1. GoodOp(op) /\ op.kind = "evidence" /\ ~op.lib /\ op.ses /\ Wanted(op) = "receiver"
    BY BegunFacts
  <2>2. /\ screen # "loading" /\ Quiet /\ dialog = NoDialog /\ dialog.status = "idle"
        /\ Free(i) /\ Begin(i, op)
        /\ screen' = screen /\ evidence' = "verifying" /\ action' = action /\ dialog' = dialog
        /\ asked' = "receiver"
    BY <1>6 DEF OpenEvidence, Process, Quiet, library, NoDialog
  <2>3. NoCapture /\ \A k \in Slots : ~Latest(k)
    BY <2>2, FreeScreen
  <2> HIDE DEF op
  <2> QED
    BY <1>1, <1>2, <2>1, <2>2, <2>3, BeginInv
<1>7. CASE LoadDefault(i)
  <2> DEFINE op == Op("default", Bundled, "process", FALSE)
  <2>1. GoodOp(op) /\ op.kind = "default" /\ ~op.lib /\ op.ses /\ Wanted(op) = Bundled
    BY BegunFacts, ShellAssumption
  <2>2. /\ screen # "loading" /\ Quiet /\ dialog = NoDialog /\ dialog.status = "idle"
        /\ Free(i) /\ Begin(i, op)
        /\ screen' = "loading" /\ evidence' = evidence /\ action' = action /\ dialog' = dialog
        /\ asked' = Bundled
    BY <1>7 DEF LoadDefault, Process, Quiet, library, NoDialog, Leave
  <2>3. evidence = "idle" /\ NoCapture /\ \A k \in Slots : ~Latest(k)
    BY <2>2, FreeScreen
  <2> HIDE DEF op
  <2> QED
    BY <1>1, <1>2, <2>1, <2>2, <2>3, BeginInv
<1> QED
  BY <1>3, <1>4, <1>5, <1>6, <1>7

LEMMA ClickSteps == ASSUME Inv, Clicks \/ OtherWindow \/ UNCHANGED vars PROVE Inv'
<1>1. CASE UNCHANGED <<ops, action, dialog, evidence, screen, asked>>
  <2>1. GateInv' /\ ModalInv' /\ LatestInv'
    BY <1>1 DEF Inv, GateInv, ModalInv, LatestInv, NoCapture, Latest, Current, Wanted
  <2>2. BusyHasOwner'
    BY <1>1 DEF Inv, BusyHasOwner, Latest, Current
  <2> QED
    BY <2>1, <2>2 DEF Inv
<1>2. CASE CancelProcessing
  <2>1. /\ dialog # NoDialog /\ action' = NoAction /\ dialog' = NoDialog
        /\ UNCHANGED <<screen, evidence>> /\ Drop
    BY <1>2 DEF CancelProcessing, CancelledAction, NoDialog
  <2>2. GateInv' /\ \A k \in Slots : ops'[k].kind = ops[k].kind /\ ~ops'[k].lib /\ ~ops'[k].ses
    BY <2>1, DropGate DEF Inv
  <2>3. NoDialog.status = "idle"
        /\ NoDialog \in [status : {"idle", "processing", "error"}, kind : {"none", "open", "file"},
                         session : Sessions \cup {None}]
    BY DEF NoDialog
  <2>4. evidence = "idle" /\ screen # "loading" /\ NoCapture
    BY <2>1 DEF Inv, ModalInv
  <2>5. ModalInv'
    BY <2>1, <2>3, <2>4 DEF ModalInv
  <2>6. LatestInv' /\ BusyHasOwner'
    BY <2>1, <2>2, <2>3, <2>4 DEF LatestInv, BusyHasOwner, Latest, NoCapture
  <2> QED
    BY <2>2, <2>5, <2>6 DEF Inv
<1>3. CASE CloseDialog
  <2>1. /\ UNCHANGED <<ops, action, screen, asked>>
        /\ \/ dialog.status = "error" /\ dialog' = NoDialog /\ evidence' = evidence
           \/ evidence = "error" /\ evidence' = "idle" /\ dialog' = dialog
    BY <1>3 DEF CloseDialog, library
  <2>2. NoDialog.status = "idle"
        /\ NoDialog \in [status : {"idle", "processing", "error"}, kind : {"none", "open", "file"},
                         session : Sessions \cup {None}]
    BY DEF NoDialog
  <2>3. GateInv'
    BY <2>1 DEF Inv, GateInv, Latest
  <2>4. ModalInv'
    BY <2>1, <2>2 DEF Inv, ModalInv, NoCapture
  <2>5. LatestInv'
    BY <2>1 DEF Inv, LatestInv, Latest, Current, Wanted
  <2>6. BusyHasOwner'
    BY <2>1, <2>2 DEF Inv, BusyHasOwner, Latest, Current
  <2> QED
    BY <2>3, <2>4, <2>5, <2>6 DEF Inv
<1> QED
  BY <1>1, <1>2, <1>3 DEF Clicks, RequestDelete, CancelDelete, Edit, OtherWindow, view, vars, library

LEMMA InitInv == Init => Inv
<1> SUFFICES ASSUME Init PROVE Inv
  OBVIOUS
<1>1. PICK i \in Slots, j \in Slots :
        /\ i # j
        /\ ops = [k \in Slots |-> CASE k = i -> Op("refresh", None, "list", FALSE)
                                    [] k = j -> Op("default", Bundled, "process", FALSE)
                                    [] OTHER -> Idle]
  BY DEF Init
<1> DEFINE refresh == Op("refresh", None, "list", FALSE)
           load == Op("default", Bundled, "process", FALSE)
<1>2. /\ GoodOp(refresh) /\ refresh.kind = "refresh" /\ ~refresh.ses
      /\ GoodOp(load) /\ load.kind = "default" /\ load.ses /\ Wanted(load) = Bundled
      /\ GoodOp(Idle) /\ Idle.kind = "none" /\ ~Idle.ses
  BY BegunFacts, IdleFacts, ShellAssumption
<1>3. /\ ops[i] = refresh /\ ops[j] = load
      /\ \A k \in Slots \ {i, j} : ops[k] = Idle
      /\ \A k \in Slots : ops[k] \in {refresh, load, Idle}
      /\ ops = [k \in Slots |-> ops[k]]
  BY <1>1
<1>4. /\ screen = "loading" /\ asked = Bundled /\ action = NoAction
      /\ dialog = NoDialog /\ evidence = "idle"
      /\ NoDialog.status = "idle"
      /\ NoDialog \in [status : {"idle", "processing", "error"}, kind : {"none", "open", "file"},
                       session : Sessions \cup {None}]
  BY DEF Init, NoDialog
<1> HIDE DEF refresh, load
<1>5. GateInv
  BY <1>2, <1>3 DEF GateInv, GoodOp, Latest
<1>6. ModalInv
  BY <1>2, <1>3, <1>4 DEF ModalInv, NoCapture
<1>7. LatestInv
  BY <1>2, <1>3, <1>4 DEF LatestInv, Latest
<1>8. BusyHasOwner
  BY <1>2, <1>3, <1>4 DEF BusyHasOwner, Latest
<1> QED
  BY <1>5, <1>6, <1>7, <1>8 DEF Inv

LEMMA NextInv == Inv /\ [Next]_vars => Inv'
<1> SUFFICES ASSUME Inv, [Next]_vars PROVE Inv'
  OBVIOUS
<1>1. ASSUME NEW i \in Slots, UserActs(i) PROVE Inv'
  BY <1>1, LibraryBegins, SessionBegins DEF UserActs
<1>2. ASSUME NEW i \in Slots, Resumes(i) PROVE Inv'
  BY <1>2, KeepSteps, LibraryEnds, SessionEnds DEF Resumes
<1> QED
  BY <1>1, <1>2, ClickSteps DEF Next

-----------------------------------------------------------------------------

\* Whatever the window shows as under way is under way at an operation whose end it heeds, whatever
\* operations overlap: App.tsx never leaves a control or a modal dialog waiting for a superseded one.
THEOREM BusyIsOwned == Spec => []BusyHasOwner
<1>1. Inv => BusyHasOwner
  BY DEF Inv
<1> QED
  BY <1>1, InitInv, NextInv, PTL DEF Spec

LEMMA StoreStep == StoreInv /\ [Next]_vars => StoreInv'
<1> SUFFICES ASSUME StoreInv, [Next]_vars PROVE StoreInv'
  OBVIOUS
<1>1. CASE UNCHANGED <<store, others>>
  BY <1>1 DEF StoreInv
<1>2. ASSUME NEW i \in Slots, SaveTransaction(i) \/ Delete(i) PROVE StoreInv'
  BY <1>2 DEF SaveTransaction, SaveStored, Delete, Stores, StoreInv, disk
<1>3. CASE OtherWindow
  BY <1>3 DEF OtherWindow, StoreInv
<1> QED
  BY <1>1, <1>2, <1>3
  DEF Next, UserActs, Resumes, Clicks, vars, disk, Ignored, Unlisted,
      Retry, SaveCurrent, OpenEvidence, LoadDefault, OpenSaved, ConfirmDelete, OpenFile, CompleteCapture,
      List, Refreshed, Revalidated, Saved, SaveFailed, Relisted, Load, OpenSucceeds, OpenFails,
      OpenSuperseded, Lookup, Removed, RemoveFails, RemoveSuperseded, FileEnds, EvidenceEnds,
      DefaultEnds, CaptureEnds, RequestDelete, CancelDelete, CancelProcessing, CloseDialog, Edit

\* Saving never replaces a stored record, whatever overlaps: only a removal, or another window, changes
\* what session-library.ts keeps under an identity.
THEOREM StoredStays == Spec => StoredIsKept
<1>1. Init => StoreInv
  BY DEF Init, StoreInv
<1>2. ASSUME StoreInv, [Next]_vars
      PROVE  [\A s \in Sessions : store[s] # "none" /\ store'[s] # store[s] /\ others' = others
                => store'[s] = "none"]_vars
  <2> DEFINE Kept == \A s \in Sessions : store[s] # "none" /\ store'[s] # store[s] /\ others' = others
                       => store'[s] = "none"
  <2>1. CASE UNCHANGED store
    BY <2>1
  <2>2. ASSUME NEW i \in Slots, SaveTransaction(i) \/ Delete(i)
        PROVE  Kept
    BY <1>2, <2>2 DEF SaveTransaction, SaveStored, Delete, Stores, StoreInv, disk
  <2>3. CASE OtherWindow
    BY <1>2, <2>3 DEF OtherWindow, StoreInv
  <2> QED
    BY <1>2, <2>1, <2>2, <2>3
    DEF Next, UserActs, Resumes, Clicks, vars, disk, Ignored, Unlisted,
        Retry, SaveCurrent, OpenEvidence, LoadDefault, OpenSaved, ConfirmDelete, OpenFile,
        CompleteCapture, List, Refreshed, Revalidated, Saved, SaveFailed, Relisted, Load,
        OpenSucceeds, OpenFails, OpenSuperseded, Lookup, Removed, RemoveFails, RemoveSuperseded,
        FileEnds, EvidenceEnds, DefaultEnds, CaptureEnds, RequestDelete, CancelDelete,
        CancelProcessing, CloseDialog, Edit
<1> QED
  BY <1>1, <1>2, StoreStep, PTL DEF Spec, StoredIsKept

\* The replay on screen is replaced only by what the user asked for last and has not cancelled, in
\* whatever order the operations of App.tsx end.
THEOREM ShownIsAsked == Spec => OnlyWhatWasAsked
<1>1. ASSUME Inv, [Next]_vars
      PROVE  screen' \in {screen, "loading", "error"} \/ screen' = asked
  <2>1. ASSUME NEW i \in Slots, Latest(i) PROVE asked = Wanted(ops[i])
    BY <1>1, <2>1 DEF Inv, LatestInv
  <2>2. ASSUME NEW i \in Slots, ops[i].kind = "capture" PROVE Latest(i)
    BY <1>1, <2>2 DEF Inv, LatestInv
  <2>3. CASE screen' = screen
    BY <2>3
  <2>4. ASSUME NEW i \in Slots, OpenSucceeds(i) PROVE screen' = asked
    BY <2>1, <2>4 DEF OpenSucceeds, Show, Wanted
  <2>5. ASSUME NEW i \in Slots, FileEnds(i) PROVE screen' \in {screen, asked}
    BY <2>1, <2>5 DEF FileEnds, Show, Wanted
  <2>6. ASSUME NEW i \in Slots, EvidenceEnds(i) PROVE screen' \in {screen, asked}
    BY <2>1, <2>6 DEF EvidenceEnds, Leave, Wanted
  <2>7. ASSUME NEW i \in Slots, DefaultEnds(i) PROVE screen' \in {screen, "error", asked}
    BY <2>1, <2>7 DEF DefaultEnds, Leave, Show, Wanted
  <2>8. ASSUME NEW i \in Slots, CaptureEnds(i) PROVE screen' \in {"error", asked}
    BY <2>1, <2>2, <2>8 DEF CaptureEnds, Leave, Show, Wanted
  <2>9. ASSUME NEW i \in Slots, LoadDefault(i) PROVE screen' = "loading"
    BY <2>9 DEF LoadDefault, Leave
  <2> QED
    BY <1>1, <2>3, <2>4, <2>5, <2>6, <2>7, <2>8, <2>9
    DEF Next, UserActs, Resumes, Clicks, vars, view,
        Retry, SaveCurrent, OpenEvidence, OpenSaved, ConfirmDelete, OpenFile, CompleteCapture,
        List, Refreshed, SaveTransaction, Revalidated, Saved, SaveFailed, Relisted, Load, OpenFails,
        OpenSuperseded, Lookup, Delete, Removed, RemoveFails, RemoveSuperseded, RequestDelete,
        CancelDelete, CancelProcessing, CloseDialog, Edit, OtherWindow
<1>2. Inv /\ [Next]_vars => [screen' \notin {screen, "loading", "error"} => screen' = asked]_vars
  BY <1>1
<1> QED
  BY <1>2, InitInv, NextInv, PTL DEF Spec, OnlyWhatWasAsked
-----------------------------------------------------------------------------
(* The list and what is stored *)

\* An operation that has changed the library, or taken it to be changed, and has not ended.
Touched(op) == op.phase = "deleted" \/ (op.kind = "persist" /\ op.phase \in {"list", "listed"})

\* The window will not hear of a change, or has not.
Lost == drift \/ \E i \in Slots : ~Current(i) /\ Touched(ops[i])

\* Phases belong to kinds, and what has a session has one of the replays.
FitOp(op) ==
  /\ op.kind \in {"persist", "remove", "evict", "open"} => op.session \in Sessions
  /\ op.phase \in {"save", "validate"} => op.kind = "persist"
  /\ op.phase \in {"list", "listed"} => op.kind \in {"refresh", "persist"}
  /\ op.phase = "read" => op.kind = "open"
  /\ op.phase = "missing" => op.kind \in {"open", "remove", "evict"}
  /\ op.phase = "failed" => op.kind \in {"persist", "remove", "evict"}

\* What an operation has found in the library is still so.
Knows(op) ==
  /\ op.phase \in {"deleted", "missing"} => store[op.session] = "none"
  /\ op.kind = "persist" /\ op.phase \in {"validate", "list", "listed"} => store[op.session] # "none"
  /\ op.phase \in {"listed", "relisted"} /\ op.ok => op.seen = Stored

\* The change of the session s is under way at an operation whose end the window will heed.
Underway(s) == \E i \in Slots : Current(i) /\ Touched(ops[i]) /\ ops[i].session = s

Single == \A i, j \in Slots : Current(i) /\ Current(j) => i = j

\* As long as no change is lost, the current operation knows what is stored, and a list that is shown
\* as ready differs from it by that operation's own change only.
ListTrue ==
  /\ \A i \in Slots : Current(i) => Knows(ops[i])
  /\ status = "ready" => \A s \in Sessions : Underway(s) \/ (s \in entries <=> s \in Stored)

ListInv ==
  /\ entries \in SUBSET Sessions
  /\ \A i \in Slots : FitOp(ops[i])
  /\ Single
  /\ ~Lost => ListTrue

\* A free slot has changed nothing.
LEMMA IdleUntouched == FitOp(Idle) /\ ~Touched(Idle) /\ ~Idle.lib
  BY DEF Idle, Op, FitOp, Touched

\* An operation that moves on may change what is stored of its own session, and is touched then.
LEMMA ListKeep ==
  ASSUME Inv, ListInv, NEW i \in Slots, NEW op, FitOp(op), Become(i, op),
         op.kind = ops[i].kind, op.session = ops[i].session, op.lib = ops[i].lib,
         UNCHANGED <<entries, status, drift>>,
         Touched(ops[i]) => Touched(op),
         \/ UNCHANGED store
         \/ /\ Touched(op) /\ op.session \in Sessions
            /\ \A s \in Sessions : s # op.session => store'[s] = store[s],
         ~Lost /\ Current(i) => Knows(op)'
  PROVE  ListInv'
<1>1. /\ ops'[i] = op
      /\ \A k \in Slots : k # i => ops'[k] = ops[k]
  BY DEF Inv, GateInv, Become
<1>2. /\ entries' \in SUBSET Sessions
      /\ \A k \in Slots : FitOp(ops'[k])
      /\ \A k \in Slots : ops'[k].lib = ops[k].lib
  BY <1>1 DEF ListInv
<1>3. Single'
  BY <1>2 DEF ListInv, Single, Current
<1>4. ASSUME ~Lost'
      PROVE  ListTrue'
  <2>1. ~Lost
    BY <1>1, <1>2, <1>4 DEF Lost, Current
  <2>2. Current(i) \/ UNCHANGED store
    BY <1>1, <1>2, <1>4 DEF Lost, Current
  <2>3. ASSUME NEW k \in Slots, Current(k)' PROVE Knows(ops[k])'
    <3>1. CASE k = i
      BY <3>1, <2>1, <2>3, <1>1, <1>2 DEF Current
    <3>2. CASE k # i
      <4>1. UNCHANGED store /\ ops'[k] = ops[k] /\ Current(k)
        BY <3>2, <2>2, <2>3, <1>1, <1>2 DEF ListInv, Single, Current
      <4>2. Knows(ops[k])
        BY <4>1, <2>1 DEF ListInv, ListTrue
      <4> QED
        BY <4>1, <4>2 DEF Knows, Stored
    <3> QED
      BY <3>1, <3>2
  <2>4. ASSUME status' = "ready", NEW s \in Sessions
        PROVE  Underway(s)' \/ (s \in entries' <=> s \in Stored')
    <3>1. Underway(s) \/ (s \in entries <=> s \in Stored)
      BY <2>1, <2>4 DEF ListInv, ListTrue
    <3>2. Underway(s) => Underway(s)'
      BY <1>1, <1>2 DEF Underway, Current
    <3>3. CASE store'[s] = store[s]
      BY <3>1, <3>2, <3>3 DEF Stored
    <3>4. CASE store'[s] # store[s]
      <4>1. s = op.session /\ Touched(op) /\ Current(i)
        BY <3>4, <2>2
      <4> QED
        BY <4>1, <1>1, <1>2 DEF Underway, Current
    <3> QED
      BY <3>3, <3>4
  <2> QED
    BY <2>3, <2>4 DEF ListTrue
<1> QED
  BY <1>2, <1>3, <1>4 DEF ListInv

\* An operation ends: its change is lost, or it left none, or the list it leaves is what is stored.
LEMMA ListEnd ==
  ASSUME Inv, ListInv, NEW i \in Slots, End(i), UNCHANGED store,
         \/ ~Touched(ops[i]) /\ UNCHANGED <<entries, status, drift>>
         \/ drift' = TRUE /\ entries' \in SUBSET Sessions
         \/ /\ Current(i) /\ UNCHANGED drift /\ entries' \in SUBSET Sessions
            /\ ~Lost /\ status' = "ready" => entries' = Stored
  PROVE  ListInv'
<1>1. /\ ops'[i] = Idle
      /\ \A k \in Slots : k # i => ops'[k] = ops[k]
  BY DEF Inv, GateInv, End, Become
<1>2. /\ entries' \in SUBSET Sessions
      /\ \A k \in Slots : FitOp(ops'[k])
      /\ \A k \in Slots : ops'[k].lib => ops[k].lib /\ ops'[k] = ops[k] /\ k # i
  BY <1>1, IdleUntouched DEF ListInv
<1>3. Single'
  BY <1>2 DEF ListInv, Single, Current
<1>4. ASSUME ~Lost'
      PROVE  ListTrue'
  <2>1. drift' = drift /\ ~Lost
    BY <1>1, <1>4, IdleUntouched DEF Lost, Current
  <2>2. ASSUME NEW k \in Slots, Current(k)' PROVE Knows(ops[k])'
    <3>1. UNCHANGED store /\ ops'[k] = ops[k] /\ Current(k)
      BY <2>2, <1>2 DEF Current
    <3>2. Knows(ops[k])
      BY <3>1, <2>1 DEF ListInv, ListTrue
    <3> QED
      BY <3>1, <3>2 DEF Knows, Stored
  <2>3. ASSUME status' = "ready", NEW s \in Sessions
        PROVE  Underway(s)' \/ (s \in entries' <=> s \in Stored')
    <3>1. Stored' = Stored
      BY DEF Stored
    <3>2. CASE ~Touched(ops[i]) /\ UNCHANGED <<entries, status, drift>>
      <4>1. Underway(s) \/ (s \in entries <=> s \in Stored)
        BY <2>1, <2>3, <3>2 DEF ListInv, ListTrue
      <4>2. Underway(s) => Underway(s)'
        BY <1>1, <3>2 DEF Underway, Current
      <4> QED
        BY <4>1, <4>2, <3>1, <3>2
    <3>3. CASE entries' = Stored
      BY <3>1, <3>3
    <3> QED
      BY <2>1, <2>3, <3>2, <3>3 DEF Lost
  <2> QED
    BY <2>2, <2>3 DEF ListTrue
<1> QED
  BY <1>2, <1>3, <1>4 DEF ListInv

\* An operation begins: on the library, what the current one had changed is lost.
LEMMA ListBegin ==
  ASSUME Inv, ListInv, NEW i \in Slots, NEW op, FitOp(op), op.lib \in BOOLEAN, op.ses \in BOOLEAN,
         Begin(i, op), ~Touched(op), ~Touched(ops[i]),
         op.phase \notin {"deleted", "missing", "validate", "listed", "relisted"},
         UNCHANGED <<store, entries, drift>>, status' = status \/ status' # "ready"
  PROVE  ListInv'
<1>1. ops'[i] = op
  BY DEF Begin
<1>2. ASSUME NEW k \in Slots, k # i
      PROVE  /\ ops'[k].kind = ops[k].kind /\ ops'[k].session = ops[k].session
             /\ ops'[k].phase = ops[k].phase /\ ops'[k].ok = ops[k].ok /\ ops'[k].seen = ops[k].seen
             /\ ops'[k].lib <=> ops[k].lib /\ ~op.lib
  <2>1. ops'[k] = [ops[k] EXCEPT !.lib = @ /\ ~op.lib, !.ses = @ /\ ~op.ses]
    BY <1>2 DEF Begin
  <2>2. ops[k] \in Ops
    BY DEF Inv, GateInv
  <2> QED
    BY <2>1, <2>2 DEF Ops
<1>3. \A k \in Slots : FitOp(ops'[k])
  BY <1>1, <1>2 DEF ListInv, FitOp
<1>4. \A k \in Slots : k # i => (Touched(ops'[k]) <=> Touched(ops[k]))
  BY <1>2 DEF Touched
<1>5. Single'
  BY <1>1, <1>2 DEF ListInv, Single, Current
<1>6. ASSUME ~Lost'
      PROVE  ListTrue'
  <2>1. ~Lost
    BY <1>1, <1>2, <1>4, <1>6 DEF Lost, Current
  <2>2. ASSUME NEW k \in Slots, Current(k)' PROVE Knows(ops[k])'
    <3>1. CASE k = i
      BY <3>1, <1>1 DEF Knows, Touched
    <3>2. CASE k # i
      <4>1. Knows(ops[k])
        BY <3>2, <2>1, <2>2, <1>2 DEF ListInv, ListTrue, Current
      <4>2. Stored' = Stored
        BY DEF Stored
      <4> QED
        BY <4>1, <4>2, <3>2, <1>2 DEF Knows
    <3> QED
      BY <3>1, <3>2
  <2>3. ASSUME status' = "ready", NEW s \in Sessions
        PROVE  Underway(s)' \/ (s \in entries' <=> s \in Stored')
    <3>1. Underway(s) \/ (s \in entries <=> s \in Stored)
      BY <2>1, <2>3 DEF ListInv, ListTrue
    <3>2. Underway(s) => Underway(s)'
      <4>1. SUFFICES ASSUME NEW k \in Slots, Current(k), Touched(ops[k]), ops[k].session = s
                     PROVE  Underway(s)'
        BY DEF Underway
      <4>2. k # i /\ Touched(ops'[k]) /\ ops'[k].session = s
        BY <4>1, <1>2, <1>4
      <4>3. ops'[k].lib
        BY <4>2, <1>6 DEF Lost, Current
      <4> QED
        BY <4>2, <4>3 DEF Underway, Current
    <3> QED
      BY <3>1, <3>2 DEF Stored
  <2> QED
    BY <2>2, <2>3 DEF ListTrue
<1> QED
  BY <1>3, <1>5, <1>6 DEF ListInv

\* The user cancels: what any operation had changed is lost.
LEMMA ListDrop ==
  ASSUME Inv, ListInv, Drop, UNCHANGED <<store, entries, status, drift>>
  PROVE  ListInv'
<1>1. ASSUME NEW k \in Slots
      PROVE  /\ ops'[k].kind = ops[k].kind /\ ops'[k].session = ops[k].session
             /\ ops'[k].phase = ops[k].phase /\ ~ops'[k].lib
  <2>1. ops[k] \in Ops /\ ops'[k] = [ops[k] EXCEPT !.lib = FALSE, !.ses = FALSE]
    BY DEF Inv, GateInv, Drop
  <2> QED
    BY <2>1 DEF Ops
<1>2. \A k \in Slots : FitOp(ops'[k]) /\ (Touched(ops'[k]) <=> Touched(ops[k]))
  BY <1>1 DEF ListInv, FitOp, Touched
<1>3. Single'
  BY <1>1 DEF Single, Current
<1>4. ASSUME ~Lost' PROVE ListTrue'
  <2>1. ~Lost /\ \A k \in Slots : ~Touched(ops[k])
    BY <1>1, <1>2, <1>4 DEF Lost, Current
  <2>2. status = "ready" => \A s \in Sessions : s \in entries <=> s \in Stored
    BY <2>1 DEF ListInv, ListTrue, Underway
  <2>3. Stored' = Stored
    BY DEF Stored
  <2> QED
    BY <1>1, <2>2, <2>3 DEF ListTrue, Current
<1> QED
  BY <1>2, <1>3, <1>4 DEF ListInv

\* An operation that begins has found nothing yet.
LEMMA BegunFit ==
  ASSUME NEW kind \in Kinds, NEW s, NEW ok, NEW phase,
         \/ phase = "list" /\ kind = "refresh"
         \/ phase = "process" /\ kind \in {"file", "evidence", "default", "capture"}
         \/ s \in Sessions /\ \/ phase = "save" /\ kind = "persist"
                              \/ phase = "read" /\ kind = "open"
                              \/ phase \in {"delete", "lookup"} /\ kind \in {"remove", "evict"}
  PROVE  /\ FitOp(Op(kind, s, phase, ok)) /\ ~Touched(Op(kind, s, phase, ok))
         /\ Op(kind, s, phase, ok).lib \in BOOLEAN /\ Op(kind, s, phase, ok).ses \in BOOLEAN
         /\ Op(kind, s, phase, ok).phase \notin {"deleted", "missing", "validate", "listed", "relisted"}
<1>1. Op(kind, s, phase, ok)
        = [kind |-> kind, session |-> s, phase |-> phase, ok |-> ok, seen |-> {},
           lib |-> OnLibrary(kind), ses |-> OnSession(kind)]
  BY DEF Op, OnLibrary, OnSession
<1>2. OnLibrary(kind) \in BOOLEAN /\ OnSession(kind) \in BOOLEAN
  BY DEF OnLibrary, OnSession
<1> DEFINE op == Op(kind, s, phase, ok)
<1>3. op.kind = kind /\ op.session = s /\ op.phase = phase /\ op.lib \in BOOLEAN /\ op.ses \in BOOLEAN
  BY <1>1, <1>2
<1> HIDE DEF op
<1>4. /\ FitOp(op) /\ ~Touched(op) /\ op.lib \in BOOLEAN /\ op.ses \in BOOLEAN
      /\ op.phase \notin {"deleted", "missing", "validate", "listed", "relisted"}
  BY <1>3 DEF FitOp, Touched
<1> QED
  BY <1>4 DEF op

\* Every operation that begins, by the user or after a file or a capture was shown.
LEMMA ListBegins ==
  ASSUME Inv, ListInv, NEW i \in Slots, ~Touched(ops[i]), UNCHANGED <<store, entries, drift>>,
         status' = status \/ status' # "ready",
         NEW kind \in Kinds, NEW s, NEW ok, NEW phase,
         \/ phase = "list" /\ kind = "refresh"
         \/ phase = "process" /\ kind \in {"file", "evidence", "default", "capture"}
         \/ s \in Sessions /\ \/ phase = "save" /\ kind = "persist"
                              \/ phase = "read" /\ kind = "open"
                              \/ phase \in {"delete", "lookup"} /\ kind \in {"remove", "evict"},
         Begin(i, Op(kind, s, phase, ok))
  PROVE  ListInv'
<1>1. PICK op : op = Op(kind, s, phase, ok)
  OBVIOUS
<1>2. /\ FitOp(op) /\ ~Touched(op) /\ op.lib \in BOOLEAN /\ op.ses \in BOOLEAN
      /\ op.phase \notin {"deleted", "missing", "validate", "listed", "relisted"}
  BY <1>1, BegunFit
<1>3. Begin(i, op)
  BY <1>1
<1> QED
  BY <1>2, <1>3, ListBegin

\* What the user starts.
LEMMA ListUserActs == ASSUME Inv, ListInv, NEW i \in Slots, UserActs(i) PROVE ListInv'
<1>1. /\ Free(i) => ~Touched(ops[i])
      /\ "refresh" \in Kinds /\ "evidence" \in Kinds /\ "default" \in Kinds /\ "open" \in Kinds
      /\ "persist" \in Kinds /\ "file" \in Kinds /\ "capture" \in Kinds
      /\ "remove" \in Kinds /\ "evict" \in Kinds /\ "loading" # "ready" /\ Bundled \in Sessions
  BY IdleUntouched, NameFacts, ShellAssumption DEF Free
<1>2. CASE Retry(i)
  <2>1. PICK kind, s, phase, ok : kind = "refresh" /\ s = None /\ phase = "list" /\ ok = FALSE
    OBVIOUS
  <2>2. /\ kind \in Kinds /\ Begin(i, Op(kind, s, phase, ok)) /\ ~Touched(ops[i])
        /\ UNCHANGED <<store, entries, drift>> /\ (status' = status \/ status' # "ready")
    BY <1>1, <1>2, <2>1, Zenon DEF Retry, disk
  <2> QED
    BY <2>1, <2>2, ListBegins
<1>3. CASE SaveCurrent(i)
  <2>1. PICK kind, s, phase, ok : kind = "persist" /\ s = screen /\ phase = "save" /\ ok = FALSE
    OBVIOUS
  <2>2. /\ kind \in Kinds /\ Begin(i, Op(kind, s, phase, ok)) /\ ~Touched(ops[i])
        /\ UNCHANGED <<store, entries, drift>> /\ (status' = status \/ status' # "ready")
    BY <1>1, <1>3, <2>1, Zenon DEF SaveCurrent, Persist, disk
  <2> QED
    BY <1>3, <2>1, <2>2, ListBegins DEF SaveCurrent, Rail
<1>4. CASE OpenEvidence(i)
  <2>1. PICK kind, s, phase, ok : kind = "evidence" /\ s = None /\ phase = "process" /\ ok = FALSE
    OBVIOUS
  <2>2. /\ kind \in Kinds /\ Begin(i, Op(kind, s, phase, ok)) /\ ~Touched(ops[i])
        /\ UNCHANGED <<store, entries, drift>> /\ (status' = status \/ status' # "ready")
    BY <1>1, <1>4, <2>1, Zenon DEF OpenEvidence, Process, disk, library
  <2> QED
    BY <2>1, <2>2, ListBegins
<1>5. CASE LoadDefault(i)
  <2>1. PICK kind, s, phase, ok : kind = "default" /\ s = Bundled /\ phase = "process" /\ ok = FALSE
    OBVIOUS
  <2>2. /\ kind \in Kinds /\ Begin(i, Op(kind, s, phase, ok)) /\ ~Touched(ops[i])
        /\ UNCHANGED <<store, entries, drift>> /\ (status' = status \/ status' # "ready")
    BY <1>1, <1>5, <2>1, Zenon DEF LoadDefault, Process, disk, library
  <2> QED
    BY <2>1, <2>2, ListBegins
<1>6. ASSUME NEW s \in Sessions, OpenSaved(i, s) PROVE ListInv'
  <2>1. PICK kind, t, phase, ok : kind = "open" /\ t = s /\ phase = "read" /\ ok = FALSE
    OBVIOUS
  <2>2. /\ kind \in Kinds /\ Begin(i, Op(kind, t, phase, ok)) /\ ~Touched(ops[i])
        /\ UNCHANGED <<store, entries, drift>> /\ (status' = status \/ status' # "ready")
    BY <1>1, <1>6, <2>1, Zenon DEF OpenSaved, disk
  <2> QED
    BY <2>1, <2>2, ListBegins
<1>7. ASSUME NEW s \in Sessions, ConfirmDelete(i, s), Active(s) PROVE ListInv'
  <2>1. PICK kind, t, phase, ok : kind = "remove" /\ t = s /\ phase = "delete" /\ ok = TRUE
    OBVIOUS
  <2>2. /\ kind \in Kinds /\ Begin(i, Op(kind, t, phase, ok)) /\ ~Touched(ops[i])
        /\ UNCHANGED <<store, entries, drift>> /\ (status' = status \/ status' # "ready")
    BY <1>1, <1>7, <2>1, Zenon DEF ConfirmDelete, disk
  <2> QED
    BY <2>1, <2>2, ListBegins
<1>8. ASSUME NEW s \in Sessions, ConfirmDelete(i, s), ~Active(s) PROVE ListInv'
  <2>1. PICK kind, t, phase, ok : kind = "evict" /\ t = s /\ phase = "lookup" /\ ok = FALSE
    OBVIOUS
  <2>2. /\ kind \in Kinds /\ Begin(i, Op(kind, t, phase, ok)) /\ ~Touched(ops[i])
        /\ UNCHANGED <<store, entries, drift>> /\ (status' = status \/ status' # "ready")
    BY <1>1, <1>8, <2>1, Zenon DEF ConfirmDelete, disk
  <2> QED
    BY <2>1, <2>2, ListBegins
<1>9. ASSUME NEW s \in Sessions, OpenFile(i, s) PROVE ListInv'
  <2>1. PICK kind, t, phase, ok : kind = "file" /\ t = s /\ phase = "process" /\ ok = FALSE
    OBVIOUS
  <2>2. /\ kind \in Kinds /\ Begin(i, Op(kind, t, phase, ok)) /\ ~Touched(ops[i])
        /\ UNCHANGED <<store, entries, drift>> /\ (status' = status \/ status' # "ready")
    BY <1>1, <1>9, <2>1, Zenon DEF OpenFile, Process, disk, library
  <2> QED
    BY <2>1, <2>2, ListBegins
<1>10. ASSUME NEW s \in Sessions, CompleteCapture(i, s) PROVE ListInv'
  <2>1. PICK kind, t, phase, ok : kind = "capture" /\ t = s /\ phase = "process" /\ ok = FALSE
    OBVIOUS
  <2>2. /\ kind \in Kinds /\ Begin(i, Op(kind, t, phase, ok)) /\ ~Touched(ops[i])
        /\ UNCHANGED <<store, entries, drift>> /\ (status' = status \/ status' # "ready")
    BY <1>1, <1>10, <2>1, Zenon DEF CompleteCapture, Process, disk, library
  <2> QED
    BY <2>1, <2>2, ListBegins
<1> QED
  BY <1>2, <1>3, <1>4, <1>5, <1>6, <1>7, <1>8, <1>9, <1>10 DEF UserActs

\* Between two awaits: lists, transactions and reads.
LEMMA ListMoves ==
  ASSUME Inv, ListInv, StoreInv, NEW i \in Slots,
         List(i) \/ SaveTransaction(i) \/ Revalidated(i) \/ Load(i) \/ Delete(i) \/ Lookup(i)
  PROVE  ListInv'
<1>1. GoodOp(ops[i]) /\ ops[i] \in Ops /\ FitOp(ops[i])
  BY DEF Inv, GateInv, GoodOp, ListInv
<1>2. ~Lost /\ Current(i) => Knows(ops[i])
  BY DEF ListInv, ListTrue
<1>3. CASE List(i)
  <2>1. PICK ok \in BOOLEAN :
          Become(i, [ops[i] EXCEPT !.phase = IF @ = "list" THEN "listed" ELSE "relisted",
                                   !.ok = ok, !.seen = IF ok THEN Stored ELSE {}])
    BY <1>3 DEF List
  <2>a. PICK op : op = [ops[i] EXCEPT !.phase = IF @ = "list" THEN "listed" ELSE "relisted",
                                      !.ok = ok, !.seen = IF ok THEN Stored ELSE {}]
    OBVIOUS
  <2>2. /\ op.kind = ops[i].kind /\ op.session = ops[i].session /\ op.lib = ops[i].lib
        /\ op.ok = ok /\ op.seen = IF ok THEN Stored ELSE {}
        /\ \/ ops[i].phase = "list" /\ op.phase = "listed"
           \/ ops[i].phase = "relist" /\ op.phase = "relisted"
    BY <1>1, <1>3, <2>a DEF Ops, List
  <2>3. Become(i, op) /\ UNCHANGED <<store, entries, status, drift>>
    BY <1>3, <2>1, <2>a DEF List, disk, library
  <2>4. FitOp(op) /\ (Touched(ops[i]) => Touched(op))
    BY <1>1, <2>2 DEF FitOp, Touched
  <2>5. Stored' = Stored
    BY <2>3 DEF Stored
  <2>6. Knows(ops[i]) => Knows(op)'
    BY <2>2, <2>3, <2>5 DEF Knows
  <2> QED
    BY <1>2, <2>2, <2>3, <2>4, <2>6, ListKeep
<1>4. ASSUME NEW phase \in {"list", "validate", "failed", "deleted", "missing", "process"},
             NEW op, Become(i, op), op.phase = phase,
             op.kind = ops[i].kind, op.session = ops[i].session, op.lib = ops[i].lib,
             UNCHANGED <<entries, status, drift>>, ~Touched(ops[i]),
             \/ UNCHANGED store
             \/ /\ phase \in {"list", "deleted"}
                /\ \A s \in Sessions : s # ops[i].session => store'[s] = store[s],
             phase \in {"list", "validate"} => ops[i].kind = "persist",
             phase = "deleted" => ops[i].kind \in {"remove", "evict"},
             phase = "failed" => ops[i].kind \in {"persist", "remove", "evict"},
             phase = "missing" => ops[i].kind \in {"open", "remove", "evict"},
             phase \in {"deleted", "missing"} => store'[ops[i].session] = "none",
             phase \in {"list", "validate"} /\ Current(i) /\ ~Lost => store'[ops[i].session] # "none"
      PROVE  ListInv'
  <2>1. FitOp(op) /\ (phase \in {"list", "deleted"} => Touched(op) /\ op.session \in Sessions)
    BY <1>1, <1>4 DEF FitOp, Touched
  <2>2. ~Lost /\ Current(i) => Knows(op)'
    BY <1>4 DEF Knows
  <2> QED
    BY <1>4, <2>1, <2>2, ListKeep
<1>5. ASSUME NEW phase, To(i, phase)
      PROVE  \E op : /\ Become(i, op) /\ op.phase = phase /\ op.kind = ops[i].kind
                     /\ op.session = ops[i].session /\ op.lib = ops[i].lib
  <2> DEFINE op == [ops[i] EXCEPT !.phase = phase]
  <2>1. op.phase = phase /\ op.kind = ops[i].kind /\ op.session = ops[i].session /\ op.lib = ops[i].lib
    BY <1>1 DEF Ops
  <2>2. Become(i, op)
    BY <1>5 DEF To, Become, Inv, GateInv
  <2> QED
    BY <2>1, <2>2
<1>6. CASE SaveTransaction(i)
  <2>1. ops[i].kind = "persist" /\ ops[i].session \in Sessions /\ ~Touched(ops[i]) /\ UNCHANGED <<entries, status>>
    BY <1>1, <1>6 DEF SaveTransaction, FitOp, Touched, library
  <2>2. CASE store[ops[i].session] = "none" /\ Stores(ops[i].session, "sound") /\ To(i, "list")
    <3>1. UNCHANGED drift /\ store'[ops[i].session] # "none"
          /\ \A s \in Sessions : s # ops[i].session => store'[s] = store[s]
      BY <2>1, <2>2 DEF Stores, StoreInv
    <3>2. PICK op : /\ Become(i, op) /\ op.phase = "list" /\ op.kind = ops[i].kind
                    /\ op.session = ops[i].session /\ op.lib = ops[i].lib
      BY <2>2, <1>5
    <3> QED
      BY <2>1, <3>1, <3>2, <1>4
  <2>3. CASE store[ops[i].session] # "none" /\ SaveStored(i, ops[i].session)
    <3> DEFINE phase == IF store[ops[i].session] = "sound" THEN "validate" ELSE "failed"
    <3>1. UNCHANGED <<store, drift>> /\ To(i, phase) /\ phase \in {"validate", "failed"}
      BY <2>3 DEF SaveStored, disk
    <3> HIDE DEF phase
    <3>2. PICK op : /\ Become(i, op) /\ op.phase = phase /\ op.kind = ops[i].kind
                    /\ op.session = ops[i].session /\ op.lib = ops[i].lib
      BY <3>1, <1>5
    <3>3. CASE phase = "validate"
      BY <2>1, <2>3, <3>1, <3>2, <3>3, <1>4
    <3>4. CASE phase = "failed"
      BY <2>1, <2>3, <3>1, <3>2, <3>4, <1>4
    <3> QED
      BY <3>1, <3>3, <3>4
  <2>4. CASE To(i, "failed") /\ UNCHANGED disk
    <3>1. PICK op : /\ Become(i, op) /\ op.phase = "failed" /\ op.kind = ops[i].kind
                    /\ op.session = ops[i].session /\ op.lib = ops[i].lib
      BY <2>4, <1>5
    <3> QED
      BY <2>1, <2>4, <3>1, <1>4 DEF disk
  <2> QED
    BY <1>6, <2>2, <2>3, <2>4, Zenon DEF SaveTransaction
<1>7. CASE Revalidated(i)
  <2>1. PICK to \in {"list", "failed"} : To(i, to)
    BY <1>7 DEF Revalidated
  <2>2. ops[i].kind = "persist" /\ ops[i].phase = "validate" /\ ~Touched(ops[i])
        /\ UNCHANGED <<store, entries, status, drift>>
    BY <1>1, <1>7 DEF Revalidated, FitOp, Touched, disk, library
  <2>3. ~Lost /\ Current(i) => store[ops[i].session] # "none"
    BY <1>2, <2>2 DEF Knows
  <2>4. PICK op : /\ Become(i, op) /\ op.phase = to /\ op.kind = ops[i].kind
                  /\ op.session = ops[i].session /\ op.lib = ops[i].lib
    BY <2>1, <1>5
  <2>5. CASE to = "list"
    BY <2>2, <2>3, <2>4, <2>5, <1>4
  <2>6. CASE to = "failed"
    BY <2>2, <2>3, <2>4, <2>6, <1>4
  <2> QED
    BY <2>1, <2>5, <2>6
<1>8. CASE Load(i)
  <2>a. PICK phase : phase = IF store[ops[i].session] = "none" THEN "missing" ELSE "process"
    OBVIOUS
  <2>b. PICK op : op = [ops[i] EXCEPT !.phase = phase, !.ok = store[ops[i].session] = "sound"]
    OBVIOUS
  <2>1. op.phase = phase /\ op.kind = ops[i].kind /\ op.session = ops[i].session /\ op.lib = ops[i].lib
    BY <1>1, <2>b DEF Ops
  <2>2. Become(i, op) /\ UNCHANGED <<store, entries, status, drift>> /\ ops[i].phase = "read"
    BY <1>8, <2>a, <2>b DEF Load, disk, library
  <2>3. phase \in {"missing", "process"} /\ (phase = "missing" => store[ops[i].session] = "none")
    BY <2>a
  <2>4. ops[i].kind = "open" /\ ~Touched(ops[i])
    BY <2>2, <1>1 DEF FitOp, Touched
  <2>5. CASE phase = "missing"
    BY <2>1, <2>2, <2>3, <2>4, <2>5, <1>4
  <2>6. CASE phase = "process"
    BY <2>1, <2>2, <2>3, <2>4, <2>6, <1>4
  <2> QED
    BY <2>3, <2>5, <2>6
<1>9. CASE Delete(i)
  <2>1. ops[i].kind \in {"remove", "evict"} /\ ops[i].session \in Sessions /\ ~Touched(ops[i])
        /\ UNCHANGED <<entries, status>>
    BY <1>1, <1>9 DEF Delete, GoodOp, FitOp, Touched, library
  <2>2. CASE store[ops[i].session] # "none" /\ Stores(ops[i].session, "none") /\ To(i, "deleted")
    <3>1. UNCHANGED drift /\ store'[ops[i].session] = "none"
          /\ \A s \in Sessions : s # ops[i].session => store'[s] = store[s]
      BY <2>1, <2>2 DEF Stores, StoreInv
    <3>2. PICK op : /\ Become(i, op) /\ op.phase = "deleted" /\ op.kind = ops[i].kind
                    /\ op.session = ops[i].session /\ op.lib = ops[i].lib
      BY <2>2, <1>5
    <3> QED
      BY <2>1, <3>1, <3>2, <1>4
  <2>3. CASE store[ops[i].session] = "none" /\ To(i, "missing") /\ UNCHANGED disk
    <3>1. PICK op : /\ Become(i, op) /\ op.phase = "missing" /\ op.kind = ops[i].kind
                    /\ op.session = ops[i].session /\ op.lib = ops[i].lib
      BY <2>3, <1>5
    <3> QED
      BY <2>1, <2>3, <3>1, <1>4 DEF disk
  <2>4. CASE To(i, "failed") /\ UNCHANGED disk
    <3>1. PICK op : /\ Become(i, op) /\ op.phase = "failed" /\ op.kind = ops[i].kind
                    /\ op.session = ops[i].session /\ op.lib = ops[i].lib
      BY <2>4, <1>5
    <3> QED
      BY <2>1, <2>4, <3>1, <1>4 DEF disk
  <2> QED
    BY <1>9, <2>2, <2>3, <2>4, Zenon DEF Delete
<1>10. CASE Lookup(i)
  <2>1. ops[i].kind \in {"remove", "evict"} /\ ~Touched(ops[i]) /\ ops[i].session \in Sessions
        /\ UNCHANGED <<store, entries, status, drift>>
    BY <1>1, <1>10 DEF Lookup, GoodOp, FitOp, Touched, disk, library
  <2>2. CASE ~Current(i)
    <3>1. End(i)
      BY <1>10, <2>2 DEF Lookup
    <3> QED
      BY <2>1, <3>1, ListEnd
  <2>3. CASE Current(i)
    <3>1. PICK ok \in {FALSE, store[ops[i].session] = "sound"} :
            Become(i, [ops[i] EXCEPT !.phase = "delete", !.ok = ok])
      BY <1>10, <2>3 DEF Lookup
    <3>a. PICK op : op = [ops[i] EXCEPT !.phase = "delete", !.ok = ok]
      OBVIOUS
    <3>2. op.phase = "delete" /\ op.kind = ops[i].kind /\ op.session = ops[i].session /\ op.lib = ops[i].lib
      BY <1>1, <3>a DEF Ops
    <3>3. Become(i, op)
      BY <3>1, <3>a
    <3>4. FitOp(op) /\ Knows(op)'
      BY <1>1, <2>1, <3>2 DEF FitOp, Knows
    <3> QED
      BY <2>1, <3>2, <3>3, <3>4, ListKeep
  <2> QED
    BY <2>2, <2>3
<1> QED
  BY <1>3, <1>6, <1>7, <1>8, <1>9, <1>10

\* Beside the current operation's own change, a list shown as ready is what is stored.
LEMMA ListAlone ==
  ASSUME ListInv, ~Lost, status = "ready", NEW i \in Slots, Current(i),
         NEW s \in Sessions, s # ops[i].session \/ ~Touched(ops[i])
  PROVE  s \in entries <=> s \in Stored
<1>1. ~Underway(s)
  BY DEF ListInv, Single, Underway
<1> QED
  BY <1>1 DEF ListInv, ListTrue

\* An operation ends that was on the library.
LEMMA ListEnds ==
  ASSUME Inv, ListInv, StoreInv, NEW i \in Slots,
         \/ Refreshed(i) \/ Saved(i) \/ SaveFailed(i) \/ Relisted(i)
         \/ Removed(i) \/ RemoveFails(i) \/ RemoveSuperseded(i) \/ OpenFails(i)
  PROVE  ListInv'
<1> DEFINE s == ops[i].session
<1>1. /\ GoodOp(ops[i]) /\ ops[i] \in Ops /\ FitOp(ops[i]) /\ ops[i].ok \in BOOLEAN
      /\ ops[i].seen \in SUBSET Sessions /\ entries \in SUBSET Sessions /\ Stored \in SUBSET Sessions
  BY DEF Inv, GateInv, GoodOp, ListInv, Ops, Stored
<1>2. ~Lost /\ Current(i) => Knows(ops[i])
  BY DEF ListInv, ListTrue
<1>3. ASSUME End(i), UNCHANGED <<store, drift>>, ~Touched(ops[i]),
             ops[i].phase \in {"listed", "relisted"},
             IF Current(i)
             THEN /\ entries' = IF ops[i].ok THEN ops[i].seen ELSE entries
                  /\ status' = IF ops[i].ok THEN "ready" ELSE "error"
             ELSE UNCHANGED <<entries, status>>
      PROVE  ListInv'
  <2>1. CASE Current(i)
    <3>1. entries' \in SUBSET Sessions
      BY <1>1, <1>3, <2>1
    <3>2. ~Lost /\ status' = "ready" => entries' = Stored
      BY <1>1, <1>2, <1>3, <2>1 DEF Knows
    <3> QED
      BY <1>3, <2>1, <3>1, <3>2, ListEnd
  <2>2. CASE ~Current(i)
    BY <1>3, <2>2, ListEnd
  <2> QED
    BY <2>1, <2>2
<1>4. CASE Refreshed(i)
  <2>1. ~Touched(ops[i])
    BY <1>4 DEF Refreshed, Touched
  <2> QED
    BY <1>3, <1>4, <2>1 DEF Refreshed, disk
<1>5. CASE Relisted(i)
  <2>1. ~Touched(ops[i])
    BY <1>5 DEF Relisted, Touched
  <2> QED
    BY <1>3, <1>5, <2>1 DEF Relisted, disk
<1>6. CASE Saved(i)
  <2>1. /\ End(i) /\ ops[i].kind = "persist" /\ ops[i].phase = "listed" /\ s \in Sessions
        /\ UNCHANGED store
    BY <1>1, <1>6 DEF Saved, FitOp, Ignored, Unlisted, disk
  <2>2. CASE ~Current(i)
    <3>1. drift' = TRUE /\ entries' = entries
      BY <1>6, <2>2 DEF Saved, Ignored
    <3> QED
      BY <1>1, <2>1, <3>1, ListEnd
  <2>3. CASE Current(i)
    <3>1. /\ entries' = IF ops[i].ok THEN ops[i].seen ELSE entries \cup {s}
          /\ IF ops[i].ok \/ status = "ready" THEN UNCHANGED drift ELSE drift' = TRUE
      BY <1>6, <2>3 DEF Saved, SavedEntries, Unlisted, Ignored, disk
    <3>2. entries' \in SUBSET Sessions
      BY <1>1, <2>1, <3>1
    <3>3. CASE ops[i].ok
      <4>1. ~Lost => entries' = Stored
        BY <1>2, <2>1, <2>3, <3>1, <3>3 DEF Knows
      <4> QED
        BY <2>1, <2>3, <3>1, <3>2, <3>3, <4>1, ListEnd
    <3>4. CASE ~ops[i].ok /\ status = "ready"
      <4>1. ASSUME ~Lost PROVE entries' = Stored
        <5>1. \A t \in Sessions : t # s => (t \in entries <=> t \in Stored)
          BY <2>3, <3>4, <4>1, ListAlone
        <5>2. s \in Stored
          BY <1>2, <2>1, <2>3, <4>1 DEF Knows, Stored
        <5> QED
          BY <1>1, <2>1, <3>1, <3>4, <5>1, <5>2
      <4> QED
        BY <2>1, <2>3, <3>1, <3>2, <3>4, <4>1, ListEnd
    <3>5. CASE ~ops[i].ok /\ status # "ready"
      BY <2>1, <3>1, <3>2, <3>5, ListEnd
    <3> QED
      BY <3>3, <3>4, <3>5
  <2> QED
    BY <2>2, <2>3
<1>7. CASE SaveFailed(i)
  <2>1. /\ ops[i].kind = "persist" /\ ops[i].phase = "failed" /\ ~Touched(ops[i])
        /\ UNCHANGED <<store, entries, drift>>
    BY <1>7 DEF SaveFailed, Touched, disk
  <2>2. \/ Current(i) /\ To(i, "relist") /\ UNCHANGED status
        \/ Current(i) /\ End(i) /\ status' = "error"
        \/ ~Current(i) /\ End(i) /\ UNCHANGED status
    BY <1>7, Zenon DEF SaveFailed
  <2>3. CASE Current(i) /\ To(i, "relist") /\ UNCHANGED status
    <3>1. PICK op : op = [ops[i] EXCEPT !.phase = "relist"]
      OBVIOUS
    <3>2. op.phase = "relist" /\ op.kind = ops[i].kind /\ op.session = ops[i].session /\ op.lib = ops[i].lib
      BY <1>1, <3>1 DEF Ops
    <3>3. Become(i, op)
      BY <2>3, <3>1 DEF To, Become, Inv, GateInv
    <3>4. FitOp(op) /\ Knows(op)'
      BY <1>1, <2>1, <3>2 DEF FitOp, Knows
    <3> QED
      BY <2>1, <2>3, <3>2, <3>3, <3>4, ListKeep
  <2>4. CASE Current(i) /\ End(i) /\ status' = "error"
    BY <1>1, <2>1, <2>4, ListEnd
  <2>5. CASE ~Current(i) /\ End(i) /\ UNCHANGED status
    BY <2>1, <2>5, ListEnd
  <2> QED
    BY <2>2, <2>3, <2>4, <2>5
<1>8. ASSUME End(i), Current(i), UNCHANGED <<store, drift>>, s \in Sessions, status' = status,
             ops[i].phase \in {"deleted", "missing"}, entries' = entries \ {s},
             ops[i].phase = "missing" => ~Touched(ops[i])
      PROVE  ListInv'
  <2>1. ASSUME ~Lost, status' = "ready" PROVE entries' = Stored
    <3>1. \A t \in Sessions : t # s => (t \in entries <=> t \in Stored)
      BY <1>8, <2>1, ListAlone
    <3>2. s \notin Stored
      BY <1>2, <1>8, <2>1 DEF Knows, Stored
    <3> QED
      BY <1>1, <1>8, <3>1, <3>2
  <2>2. entries' \in SUBSET Sessions
    BY <1>1, <1>8
  <2> QED
    BY <1>8, <2>1, <2>2, ListEnd
<1>9. CASE Removed(i)
  <2>1. /\ End(i) /\ Current(i) /\ UNCHANGED <<store, drift>> /\ status' = status
        /\ ops[i].phase = "deleted" /\ entries' = entries \ {s}
    BY <1>9 DEF Removed, Forget, disk
  <2>2. s \in Sessions
    BY <1>1, <2>1 DEF GoodOp, FitOp
  <2> QED
    BY <1>8, <2>1, <2>2
<1>10. ASSUME End(i), Current(i), UNCHANGED <<store, drift, entries>>, ~Touched(ops[i]),
              status' \in {status, "error"}
       PROVE  ListInv'
  <2>1. ASSUME ~Lost, status' = "ready" PROVE entries' = Stored
    BY <1>1, <1>10, <2>1, ListAlone
  <2> QED
    BY <1>1, <1>10, <2>1, ListEnd
<1>11. CASE RemoveFails(i)
  <2>1. /\ End(i) /\ Current(i) /\ UNCHANGED <<store, drift>> /\ s \in Sessions
        /\ ops[i].kind \in {"remove", "evict"}
    BY <1>1, <1>11 DEF RemoveFails, disk, FitOp
  <2>2. CASE ops[i].phase = "missing"
    <3>1. status' = status /\ entries' = entries \ {s} /\ ~Touched(ops[i])
      BY <1>11, <2>1, <2>2 DEF RemoveFails, Forget, Touched
    <3> QED
      BY <1>8, <2>1, <2>2, <3>1
  <2>3. CASE ops[i].phase = "failed"
    <3>1. status' \in {status, "error"} /\ entries' = entries /\ ~Touched(ops[i])
      BY <1>11, <2>1, <2>3 DEF RemoveFails, Touched
    <3> QED
      BY <1>10, <2>1, <2>3, <3>1
  <2> QED
    BY <1>11, <2>2, <2>3 DEF RemoveFails
<1>12. CASE RemoveSuperseded(i)
  <2>1. End(i) /\ drift' = TRUE /\ UNCHANGED <<store, entries>>
    BY <1>12 DEF RemoveSuperseded, Ignored, library
  <2> QED
    BY <1>1, <2>1, ListEnd
<1>13. CASE OpenFails(i)
  <2>1. /\ End(i) /\ Current(i) /\ UNCHANGED <<store, drift>> /\ s \in Sessions
        /\ ops[i].kind = "open" /\ ~Touched(ops[i])
    BY <1>1, <1>13 DEF OpenFails, disk, FitOp, GoodOp, Touched
  <2>2. CASE ops[i].phase = "missing"
    <3>1. status' = status /\ entries' = entries \ {s}
      BY <1>13, <2>2 DEF OpenFails
    <3> QED
      BY <1>8, <2>1, <2>2, <3>1
  <2>3. CASE ops[i].phase # "missing"
    <3>1. status' \in {status, "error"} /\ entries' = entries
      BY <1>13, <2>3 DEF OpenFails
    <3> QED
      BY <1>10, <2>1, <3>1
  <2> QED
    BY <2>2, <2>3
<1> QED
  BY <1>4, <1>5, <1>6, <1>7, <1>9, <1>11, <1>12, <1>13

\* An operation ends that changed nothing that is stored; a file and a capture are saved next.
LEMMA ListShows ==
  ASSUME Inv, ListInv, NEW i \in Slots,
         \/ OpenSucceeds(i) \/ OpenSuperseded(i) \/ FileEnds(i)
         \/ EvidenceEnds(i) \/ DefaultEnds(i) \/ CaptureEnds(i)
  PROVE  ListInv'
<1>1. /\ GoodOp(ops[i]) /\ FitOp(ops[i])
      /\ ops[i].kind \in {"open", "file", "evidence", "default", "capture"}
      /\ UNCHANGED <<store, drift>>
  BY DEF Inv, GateInv, ListInv, OpenSucceeds, OpenSuperseded, FileEnds, EvidenceEnds, DefaultEnds,
         CaptureEnds, disk
<1>2. ~Touched(ops[i]) /\ (ops[i].kind \in {"file", "capture"} => ops[i].session \in Sessions)
  BY <1>1 DEF GoodOp, Touched
<1>3. ASSUME End(i), UNCHANGED <<entries, status>> PROVE ListInv'
  BY <1>1, <1>2, <1>3, ListEnd
<1>4. ASSUME Persist(i, ops[i].session), ops[i].session \in Sessions PROVE ListInv'
  <2>1. PICK kind, s, phase, ok : kind = "persist" /\ s = ops[i].session /\ phase = "save" /\ ok = FALSE
    OBVIOUS
  <2>2. kind \in Kinds /\ Begin(i, Op(kind, s, phase, ok)) /\ UNCHANGED <<entries, status>>
    BY <1>4, <2>1, NameFacts, Zenon DEF Persist
  <2> QED
    BY <1>1, <1>2, <1>4, <2>1, <2>2, ListBegins
<1>5. \/ End(i) /\ UNCHANGED <<entries, status>>
      \/ Persist(i, ops[i].session) /\ ops[i].kind \in {"file", "capture"}
  BY Zenon DEF OpenSucceeds, OpenSuperseded, FileEnds, EvidenceEnds, DefaultEnds, CaptureEnds, library
<1> QED
  BY <1>2, <1>3, <1>4, <1>5

\* Cancelling loses what was under way, and so does another window.
LEMMA ListClicks == ASSUME Inv, ListInv, Clicks \/ OtherWindow \/ UNCHANGED vars PROVE ListInv'
<1>1. CASE UNCHANGED <<ops, store, entries, status, drift>>
  <2>1. /\ Lost' <=> Lost
        /\ Single' <=> Single
        /\ \A i \in Slots : (Current(i)' <=> Current(i)) /\ (Knows(ops[i])' <=> Knows(ops[i]))
        /\ \A s \in Sessions : Underway(s)' <=> Underway(s)
        /\ Stored' = Stored
    BY <1>1 DEF Lost, Single, Current, Knows, Underway, Stored
  <2>2. ListTrue => ListTrue'
    BY <1>1, <2>1 DEF ListTrue
  <2> QED
    BY <1>1, <2>1, <2>2 DEF ListInv
<1>2. CASE CancelProcessing
  BY <1>2, ListDrop DEF CancelProcessing, disk
<1>3. CASE OtherWindow
  <2>1. drift' = TRUE /\ UNCHANGED <<ops, entries>>
    BY <1>3 DEF OtherWindow, library
  <2> QED
    BY <2>1 DEF ListInv, Lost, Single, Current
<1> QED
  BY <1>1, <1>2, <1>3
  DEF Clicks, RequestDelete, CancelDelete, CloseDialog, Edit, view, vars, library, disk

\* At first nothing is shown as ready, and the initial refresh is the only operation on the library.
LEMMA InitList == Init => ListInv
<1> SUFFICES ASSUME Init PROVE ListInv
  OBVIOUS
<1>1. PICK i \in Slots, j \in Slots :
        /\ i # j
        /\ ops = [k \in Slots |-> CASE k = i -> Op("refresh", None, "list", FALSE)
                                    [] k = j -> Op("default", Bundled, "process", FALSE)
                                    [] OTHER -> Idle]
  BY DEF Init
<1>2. \A k \in Slots : /\ k = i => ops[k] = Op("refresh", None, "list", FALSE)
                       /\ k = j => ops[k] = Op("default", Bundled, "process", FALSE)
                       /\ k \notin {i, j} => ops[k] = Idle
  BY <1>1
<1>3. ASSUME NEW k \in Slots
      PROVE  FitOp(ops[k]) /\ (Current(k) => k = i /\ Knows(ops[k]))
  <2>1. CASE k = i
    <3>1. ops[k].kind = "refresh" /\ ops[k].phase = "list"
      BY <1>2, <2>1 DEF Op
    <3> QED
      BY <2>1, <3>1 DEF FitOp, Knows
  <2>2. CASE k = j
    <3>1. ops[k].kind = "default" /\ ops[k].phase = "process"
      BY <1>2, <2>2 DEF Op
    <3>2. ~ops[k].lib
      BY <1>2, <2>2, BegunFacts, ShellAssumption
    <3> QED
      BY <3>1, <3>2 DEF FitOp, Current
  <2>3. CASE k \notin {i, j}
    BY <1>2, <2>3, IdleUntouched DEF Current
  <2> QED
    BY <2>1, <2>2, <2>3
<1> QED
  BY <1>3 DEF Init, ListInv, ListTrue, Single

\* Every step keeps the list true.
LEMMA NextList == Inv /\ StoreInv /\ ListInv /\ [Next]_vars => ListInv'
<1> SUFFICES ASSUME Inv, StoreInv, ListInv, [Next]_vars PROVE ListInv'
  OBVIOUS
<1>1. ASSUME NEW i \in Slots, UserActs(i) PROVE ListInv'
  BY <1>1, ListUserActs
<1>2. ASSUME NEW i \in Slots, Resumes(i) PROVE ListInv'
  BY <1>2, ListMoves, ListEnds, ListShows DEF Resumes
<1> QED
  BY <1>1, <1>2, ListClicks DEF Next

\* When nothing is in flight, a list that App.tsx shows as ready is what session-library.ts has stored,
\* unless another window, or an operation the window no longer listened to, has changed it, or a save
\* was shown, under its warning, beside a list that could not be read.
THEOREM ListIsStored == Spec => []ListIsTrue
<1>1. ListInv => ListIsTrue
  <2> SUFFICES ASSUME ListInv, status = "ready", ~drift, \A i \in Slots : Free(i) PROVE entries = Stored
    BY DEF ListIsTrue
  <2>1. \A i \in Slots : ~Touched(ops[i]) /\ ~Current(i)
    BY IdleUntouched DEF Free, Current
  <2>2. \A s \in Sessions : s \in entries <=> s \in Stored
    BY <2>1 DEF ListInv, ListTrue, Lost, Underway
  <2> QED
    BY <2>2 DEF ListInv, Stored
<1>2. Init => StoreInv
  BY DEF Init, StoreInv
<1> QED
  BY <1>1, <1>2, InitInv, NextInv, StoreStep, InitList, NextList, PTL DEF Spec

=============================================================================
