------------------------- MODULE CaseLibraryProofs -------------------------
(***************************************************************************)
(* Proofs about local case storage, for every set of windows and of        *)
(* revisions: no update is lost, damage stays where it is, and the library *)
(* is a compare-and-set register.                                          *)
(***************************************************************************)
EXTENDS CaseLibrary, TLAPS

Ops == [kind : Kinds, phase : Phases, rev : Values, expected : Values, prev : Records]

\* What is stored was built, and only a sound record can be absent.
StoreInv ==
  /\ store.rev \in past \cup {None}
  /\ past \subseteq built
  /\ store.rev = None => store.state = "sound"

\* The transaction under way still meets what its request was granted for.
TxInv ==
  tx # NoTx =>
    /\ tx.tab \in Tabs
    /\ tx.kind # "none"
    /\ tx.kind = "put" =>
         /\ tx.rev \in built /\ store.rev = tx.expected /\ store.state = "sound"
         /\ tx.expected # None => tx.expected \in derives[tx.rev]
    /\ tx.kind = "keep" => tx.rev # None /\ store.rev = tx.rev
    /\ tx.kind = "delete" => tx.rev = None /\ tx.expected # None /\ store.rev = tx.expected

\* The revision a window takes to be stored is the open one, or one that was edited into it.
WindowInv(t) ==
  /\ active[t] \in built \cup {None}
  /\ savedHash[t] # None =>
       active[t] # None /\ savedHash[t] \in derives[active[t]] \cup {active[t]}

\* What an operation was begun with still holds when its transaction commits.
OpInv(t) ==
  /\ op[t].kind = "none" => op[t].phase = "none"
  /\ op[t].kind = "open" => op[t].phase \in {"reading", "verifying"}
  /\ op[t].kind = "save" =>
       /\ op[t].phase \in {"reading", "prior", "writing", "committing"}
       /\ op[t].rev = active[t] /\ op[t].rev # None /\ op[t].expected = savedHash[t]
       /\ op[t].phase = "writing" => op[t].prev.state = "sound"
  /\ op[t].kind = "remove" =>
       /\ op[t].phase \in {"writing", "committing"}
       /\ op[t].rev = None /\ op[t].expected # None
  /\ op[t].prev.rev \in past \cup {None}
  /\ op[t].phase = "committing" =>
       /\ tx.tab = t /\ tx.rev = op[t].rev /\ tx.expected = op[t].expected
       /\ tx.kind = "delete" <=> op[t].kind = "remove"

Inv == /\ TypeOK /\ StoreInv /\ TxInv
       /\ \A t \in Tabs : WindowInv(t)
       /\ \A t \in Tabs : OpInv(t)

-----------------------------------------------------------------------------
\* A window's operation is replaced; the others keep theirs.
LEMMA OpReplaced ==
  ASSUME TypeOK, NEW t \in Tabs, NEW o \in Ops, op' = [op EXCEPT ![t] = o]
  PROVE  /\ op' \in [Tabs -> Ops]
         /\ op'[t] = o
         /\ \A u \in Tabs : u # t => op'[u] = op[u]
BY DEF TypeOK, Ops

\* An operation that ends leaves the window idle.
LEMMA OpEnds ==
  ASSUME TypeOK, NEW t \in Tabs, End(t)
  PROVE  /\ op' \in [Tabs -> Ops]
         /\ op'[t] = Idle
         /\ \A u \in Tabs : u # t => op'[u] = op[u]
<1>1. Idle \in Ops  BY DEF Idle, Ops, Kinds, Phases, Values, Records, Absent, Record
<1> QED  BY <1>1, OpReplaced DEF End

\* An operation that goes on changes its phase only.
LEMMA OpSteps ==
  ASSUME TypeOK, NEW t \in Tabs, NEW p \in Phases, Step(t, p)
  PROVE  /\ op' \in [Tabs -> Ops]
         /\ op'[t].phase = p /\ op'[t].kind = op[t].kind /\ op'[t].rev = op[t].rev
         /\ op'[t].expected = op[t].expected /\ op'[t].prev = op[t].prev
         /\ \A u \in Tabs : u # t => op'[u] = op[u]
<1>1. op[t] \in Ops  BY DEF TypeOK, Ops
<1>2. [op[t] EXCEPT !.phase = p] \in Ops  BY <1>1 DEF Ops
<1>3. op' = [op EXCEPT ![t] = [op[t] EXCEPT !.phase = p]]  BY DEF Step, TypeOK
<1>4. op' \in [Tabs -> Ops] /\ op'[t] = [op[t] EXCEPT !.phase = p]
      /\ \A u \in Tabs : u # t => op'[u] = op[u]
  BY <1>2, <1>3, OpReplaced
<1> QED  BY <1>1, <1>4 DEF Ops

\* What a read of the stored record does to the operation that made it.
Reads(t, p) == op' = [op EXCEPT ![t].phase = p, ![t].prev = store]

\* An operation that has read the stored record keeps it and goes on.
LEMMA OpReads ==
  ASSUME TypeOK, NEW t \in Tabs, NEW p \in Phases, Reads(t, p)
  PROVE  /\ op' \in [Tabs -> Ops]
         /\ op'[t].phase = p /\ op'[t].kind = op[t].kind /\ op'[t].rev = op[t].rev
         /\ op'[t].expected = op[t].expected /\ op'[t].prev = store
         /\ \A u \in Tabs : u # t => op'[u] = op[u]
<1> DEFINE o == [[op[t] EXCEPT !.phase = p] EXCEPT !.prev = store]
<1>1. op[t] \in Ops /\ store \in Records  BY DEF TypeOK, Ops
<1>2. [op[t] EXCEPT !.phase = p] \in Ops  BY <1>1 DEF Ops
<1>3. o \in Ops  BY <1>1, <1>2 DEF Ops
<1>4. op' = [op EXCEPT ![t] = o]  BY DEF TypeOK, Reads
<1>5. o.phase = p /\ o.kind = op[t].kind /\ o.rev = op[t].rev /\ o.expected = op[t].expected
      /\ o.prev = store
  BY <1>1 DEF Ops
<1> HIDE DEF o
<1> QED  BY <1>3, <1>4, <1>5, OpReplaced


-----------------------------------------------------------------------------
\* Before anything happened the invariant holds.
LEMMA InitInv == Init => Inv
<1> SUFFICES ASSUME Init PROVE Inv  OBVIOUS
<1>1. Absent \in Records /\ Idle \in Ops
  BY DEF Absent, Record, Records, Values, Idle, Ops, Kinds, Phases
<1>2. TypeOK
  BY <1>1, CaseAssumption DEF Init, TypeOK, Ops, NoTx, Values, Idle
<1>3. StoreInv /\ TxInv  BY DEF Init, StoreInv, TxInv, Absent, Record
<1>4. \A t \in Tabs : WindowInv(t)  BY DEF Init, WindowInv
<1>5. \A t \in Tabs : OpInv(t)
  BY DEF Init, OpInv, Idle, Absent, Record
<1> QED  BY <1>2, <1>3, <1>4, <1>5 DEF Inv

\* A step of one window that changes nothing but its operation.
LEMMA OnlyOp ==
  ASSUME Inv, NEW t \in Tabs, UNCHANGED <<library, workspace>>, op' \in [Tabs -> Ops],
         \A u \in Tabs : u # t => op'[u] = op[u], OpInv(t)'
  PROVE  Inv'
<1>1. TypeOK'
  <2>1. \A u \in Tabs : op'[u].phase = "committing" => tx'.tab = u
    BY DEF Inv, OpInv, library
  <2> QED  BY <2>1 DEF Inv, TypeOK, library, workspace, Ops
<1>2. StoreInv' /\ TxInv' /\ \A u \in Tabs : WindowInv(u)'
  BY DEF Inv, StoreInv, TxInv, WindowInv, library, workspace
<1>3. \A u \in Tabs : OpInv(u)'
  BY DEF Inv, OpInv, library, workspace
<1> QED  BY <1>1, <1>2, <1>3 DEF Inv

\* An operation that ends without an effect.
LEMMA EndsQuietly ==
  ASSUME Inv, NEW t \in Tabs, End(t), UNCHANGED <<library, workspace>>
  PROVE  Inv'
<1>1. /\ op' \in [Tabs -> Ops] /\ op'[t] = Idle
      /\ \A u \in Tabs : u # t => op'[u] = op[u]
  BY OpEnds DEF Inv
<1>2. OpInv(t)'  BY <1>1 DEF OpInv, Idle, Absent, Record
<1> QED  BY <1>1, <1>2, OnlyOp

\* open, save and remove are begun.
LEMMA BeginsInv ==
  ASSUME Inv, NEW t \in Tabs, Open(t) \/ Save(t) \/ Remove(t)
  PROVE  Inv'
<1>1. ASSUME NEW kind \in Kinds \ {"none"}, NEW phase \in Phases \ {"committing"},
             NEW rev \in Values, NEW expected \in Values, Begin(t, kind, phase, rev, expected),
             kind = "open" => phase = "reading",
             kind = "save" => phase = "reading" /\ rev = active[t] /\ rev # None /\ expected = savedHash[t],
             kind = "remove" => phase = "writing" /\ rev = None /\ expected # None
      PROVE  Inv'
  <2> DEFINE o == [kind |-> kind, phase |-> phase, rev |-> rev, expected |-> expected, prev |-> Absent]
  <2>1. o \in Ops  BY DEF Ops, Records, Absent, Record, Values
  <2>2. op' = [op EXCEPT ![t] = o] /\ UNCHANGED <<library, workspace>>  BY <1>1 DEF Begin
  <2>3. o.kind = kind /\ o.phase = phase /\ o.rev = rev /\ o.expected = expected /\ o.prev.rev = None
    BY DEF Absent, Record
  <2> HIDE DEF o
  <2>4. /\ op' \in [Tabs -> Ops] /\ op'[t] = o
        /\ \A u \in Tabs : u # t => op'[u] = op[u]
    BY <2>1, <2>2, OpReplaced DEF Inv
  <2>5. OpInv(t)'  BY <1>1, <2>2, <2>3, <2>4 DEF OpInv, workspace, Kinds, Phases
  <2> QED  BY <2>2, <2>4, <2>5, OnlyOp
<1>2. active[t] \in Values /\ savedHash[t] \in Values /\ None \in Values /\ store.rev \in Values
  BY DEF Inv, TypeOK, Values, Records
<1>3. CASE Open(t)
  <2>1. Begin(t, "open", "reading", None, None)  BY <1>3 DEF Open
  <2> QED  BY <1>1, <1>2, <2>1 DEF Kinds, Phases
<1>4. CASE Save(t)
  <2>1. Begin(t, "save", "reading", active[t], savedHash[t]) /\ active[t] # None  BY <1>4 DEF Save
  <2> QED  BY <1>1, <1>2, <2>1 DEF Kinds, Phases
<1>5. CASE Remove(t)
  <2>1. Begin(t, "remove", "writing", None, store.rev)  BY <1>5 DEF Remove
  <2>2. store.rev # None
    BY <1>5 DEF Remove, Inv, TypeOK, StoreInv, Records, Absent, Record
  <2> QED  BY <1>1, <1>2, <2>1, <2>2 DEF Kinds, Phases
<1> QED  BY <1>3, <1>4, <1>5

\* A new case, an edit, an import or another case changes what one window has open.
LEMMA EditsInv ==
  ASSUME Inv, NEW t \in Tabs, Create(t) \/ Edit(t) \/ Import(t) \/ OpenOther(t)
  PROVE  Inv'
<1>0. UNCHANGED <<library, op>> /\ op[t].kind = "none"
  BY DEF Create, Edit, Import, OpenOther
<1>1. /\ active' \in [Tabs -> Values] /\ savedHash' \in [Tabs -> Values]
      /\ built' \subseteq Revisions /\ built \subseteq built'
      /\ derives' \in [Revisions -> SUBSET Revisions]
      /\ \A r \in built : derives'[r] = derives[r]
      /\ \A u \in Tabs : u # t => active'[u] = active[u] /\ savedHash'[u] = savedHash[u]
      /\ WindowInv(t)'
  <2>1. CASE Create(t)
    BY <2>1 DEF Create, Accept, Fresh, Inv, TypeOK, WindowInv, Values
  <2>2. CASE Edit(t)
    <3>1. PICK r \in Fresh :
            /\ built' = built \cup {r}
            /\ derives' = [derives EXCEPT ![r] = derives[active[t]] \cup {active[t]}]
            /\ active' = [active EXCEPT ![t] = r]
      BY <2>2 DEF Edit
    <3>2. savedHash' = savedHash /\ active[t] # None  BY <2>2 DEF Edit
    <3>3. r \in Revisions /\ r \notin built /\ r # None  BY CaseAssumption DEF Fresh
    <3>4. active[t] \in built /\ active[t] \in Revisions /\ active[t] # r
      BY <3>2, <3>3 DEF Inv, TypeOK, WindowInv
    <3>5. derives'[r] = derives[active[t]] \cup {active[t]}
          /\ \A q \in Revisions : q # r => derives'[q] = derives[q]
      BY <3>1, <3>3 DEF Inv, TypeOK
    <3>6. derives' \in [Revisions -> SUBSET Revisions]
      BY <3>1, <3>3, <3>4 DEF Inv, TypeOK
    <3>7. active'[t] = r /\ \A u \in Tabs : u # t => active'[u] = active[u]
      BY <3>1 DEF Inv, TypeOK
    <3>8. WindowInv(t)'
      BY <3>1, <3>2, <3>3, <3>5, <3>7 DEF Inv, WindowInv
    <3>9. active' \in [Tabs -> Values] /\ savedHash' \in [Tabs -> Values]
          /\ built' \subseteq Revisions /\ built \subseteq built'
      BY <3>1, <3>2, <3>3 DEF Inv, TypeOK, Values
    <3>10. \A q \in built : derives'[q] = derives[q]
      BY <3>3, <3>5 DEF Inv, TypeOK
    <3> QED  BY <3>2, <3>6, <3>7, <3>8, <3>9, <3>10
  <2>3. CASE Import(t)
    BY <2>3 DEF Import, Accept, Inv, TypeOK, WindowInv, Values, history
  <2>4. CASE OpenOther(t)
    BY <2>4 DEF OpenOther, Accept, Inv, TypeOK, WindowInv, Values, history
  <2> QED  BY <2>1, <2>2, <2>3, <2>4
<1>2. TypeOK'  BY <1>0, <1>1 DEF Inv, TypeOK, library
<1>3. StoreInv'  BY <1>0, <1>1 DEF Inv, StoreInv, library
<1>4. TxInv'  BY <1>0, <1>1 DEF Inv, TxInv, library
<1>5. \A u \in Tabs : WindowInv(u)'
  <2> SUFFICES ASSUME NEW u \in Tabs, u # t PROVE WindowInv(u)'  BY <1>1
  <2> QED  BY <1>1, CaseAssumption DEF Inv, WindowInv
<1>6. \A u \in Tabs : OpInv(u)'
  BY <1>0, <1>1 DEF Inv, OpInv, library
<1> QED  BY <1>2, <1>3, <1>4, <1>5, <1>6 DEF Inv

\* A reader gets the stored record, or an error.
LEMMA ReadsInv ==
  ASSUME Inv, NEW t \in Tabs, ReadForOpen(t) \/ ReadPrevious(t)
  PROVE  Inv'
<1>0. UNCHANGED <<library, workspace>>  BY DEF ReadForOpen, ReadPrevious
<1>1. CASE End(t)  BY <1>0, <1>1, EndsQuietly
<1>2. ASSUME NEW p \in Phases \ {"committing"}, Reads(t, p),
             op[t].kind = "open" => p = "verifying",
             op[t].kind = "save" => p = "prior" \/ (p = "writing" /\ store.state = "sound"),
             op[t].kind \in {"open", "save"}
      PROVE  Inv'
  <2>1. /\ op' \in [Tabs -> Ops]
        /\ op'[t].phase = p /\ op'[t].kind = op[t].kind /\ op'[t].rev = op[t].rev
        /\ op'[t].expected = op[t].expected /\ op'[t].prev = store
        /\ \A u \in Tabs : u # t => op'[u] = op[u]
    BY <1>2, OpReads DEF Inv
  <2>2. OpInv(t)'  BY <1>0, <1>2, <2>1 DEF Inv, OpInv, StoreInv, library, workspace
  <2> QED  BY <1>0, <2>1, <2>2, OnlyOp
<1>3. CASE ReadForOpen(t) /\ ~End(t)
  <2>1. Reads(t, "verifying") /\ op[t].kind = "open"
    BY <1>3 DEF ReadForOpen, Reads
  <2> QED  BY <1>2, <2>1 DEF Phases
<1>4. CASE ReadPrevious(t) /\ ~End(t)
  <2>1. Reads(t, IF store = Absent THEN "writing" ELSE "prior") /\ op[t].kind = "save"
    BY <1>4 DEF ReadPrevious, Reads
  <2>2. CASE store = Absent
    <3>1. Reads(t, "writing")  BY <2>1, <2>2
    <3>2. store.state = "sound"  BY <2>2 DEF Absent, Record
    <3> QED  BY <1>2, <2>1, <3>1, <3>2 DEF Phases
  <2>3. CASE store # Absent
    <3>1. Reads(t, "prior")  BY <2>1, <2>3
    <3> QED  BY <1>2, <2>1, <3>1 DEF Phases
  <2> QED  BY <2>2, <2>3
<1> QED  BY <1>1, <1>3, <1>4

\* The stored revision has been verified for a save.
LEMMA PriorVerifiedInv ==
  ASSUME Inv, NEW t \in Tabs, PriorVerified(t)
  PROVE  Inv'
<1>0. UNCHANGED <<library, workspace>> /\ op[t].phase = "prior"  BY DEF PriorVerified
<1>1. CASE End(t)  BY <1>0, <1>1, EndsQuietly
<1>2. CASE ~End(t)
  <2>1. Step(t, "writing") /\ op[t].prev.state = "sound" /\ "writing" \in Phases
    BY <1>2 DEF PriorVerified, Phases
  <2>2. /\ op' \in [Tabs -> Ops]
        /\ op'[t].phase = "writing" /\ op'[t].kind = op[t].kind /\ op'[t].rev = op[t].rev
        /\ op'[t].expected = op[t].expected /\ op'[t].prev = op[t].prev
        /\ \A u \in Tabs : u # t => op'[u] = op[u]
    BY <2>1, OpSteps DEF Inv
  <2>3. OpInv(t)'  BY <1>0, <2>1, <2>2 DEF Inv, OpInv, library, workspace
  <2> QED  BY <1>0, <2>2, <2>3, OnlyOp
<1> QED  BY <1>1, <1>2

\* The revision to be opened has been verified, or was damaged.
LEMMA OpenVerifiedInv ==
  ASSUME Inv, NEW t \in Tabs, OpenVerified(t)
  PROVE  Inv'
<1>0. UNCHANGED <<library, history>> /\ End(t) /\ op[t].phase = "verifying"
  BY DEF OpenVerified
<1>1. /\ op' \in [Tabs -> Ops] /\ op'[t] = Idle
      /\ \A u \in Tabs : u # t => op'[u] = op[u]
  BY <1>0, OpEnds DEF Inv
<1>2. op[t].prev.rev \in past \cup {None} /\ op[t].prev.rev \in Values /\ past \subseteq built
  BY DEF Inv, TypeOK, OpInv, StoreInv, Records
<1>3. /\ active' \in [Tabs -> Values] /\ savedHash' \in [Tabs -> Values] /\ WindowInv(t)'
      /\ \A u \in Tabs : u # t => active'[u] = active[u] /\ savedHash'[u] = savedHash[u]
  BY <1>0, <1>2 DEF OpenVerified, Accept, Inv, TypeOK, WindowInv, history
<1>4. \A u \in Tabs : WindowInv(u)'
  BY <1>0, <1>3 DEF Inv, WindowInv, history
<1>5. \A u \in Tabs : OpInv(u)'
  <2>1. OpInv(t)'  BY <1>1 DEF OpInv, Idle, Absent, Record
  <2> QED  BY <1>0, <1>1, <1>3, <2>1 DEF Inv, OpInv, library
<1>6. TypeOK'
  <2>1. \A u \in Tabs : op'[u].phase = "committing" => tx'.tab = u
    BY <1>5 DEF OpInv
  <2> QED  BY <1>0, <1>1, <1>3, <2>1 DEF Inv, TypeOK, library, history, Ops
<1>7. StoreInv' /\ TxInv'  BY <1>0 DEF Inv, StoreInv, TxInv, library, history
<1> QED  BY <1>4, <1>5, <1>6, <1>7 DEF Inv

\* The readwrite transaction asks for a change, or refuses.
LEMMA WriteInv ==
  ASSUME Inv, NEW t \in Tabs, Write(t)
  PROVE  Inv'
<1> DEFINE request == IF op[t].kind = "save" THEN SaveRequest(op[t]) ELSE RemoveRequest(op[t])
<1>0. /\ UNCHANGED <<store, past, damage, workspace>> /\ op[t].phase = "writing" /\ tx = NoTx
      /\ IF request = "refuse" THEN End(t) /\ UNCHANGED tx
         ELSE /\ tx' = [tab |-> t, kind |-> request, rev |-> op[t].rev, expected |-> op[t].expected]
              /\ Step(t, "committing")
  BY DEF Write
<1>1. CASE request = "refuse"
  BY <1>0, <1>1, EndsQuietly DEF library
<1>2. CASE request # "refuse"
  <2>1. Step(t, "committing") /\ "committing" \in Phases
        /\ tx' = [tab |-> t, kind |-> request, rev |-> op[t].rev, expected |-> op[t].expected]
    BY <1>0, <1>2 DEF Phases
  <2>2. /\ op' \in [Tabs -> Ops]
        /\ op'[t].phase = "committing" /\ op'[t].kind = op[t].kind /\ op'[t].rev = op[t].rev
        /\ op'[t].expected = op[t].expected /\ op'[t].prev = op[t].prev
        /\ \A u \in Tabs : u # t => op'[u] = op[u]
    BY <2>1, OpSteps DEF Inv
  <2>3. op[t].kind \in {"save", "remove"}
    BY <1>0 DEF Inv, TypeOK, OpInv, Kinds
  <2>4. op[t].kind = "save" => request \in {"put", "keep"}
    BY <1>2 DEF SaveRequest
  <2>5. op[t].kind = "remove" => request = "delete"
    BY <1>2 DEF RemoveRequest
  <2>6. request = "put" => store = op[t].prev /\ store.rev # op[t].rev /\ store.rev = op[t].expected
    BY <1>2, <2>3, <2>5 DEF SaveRequest
  <2>7. request = "keep" => store.rev = op[t].rev
    BY <1>2, <2>3, <2>5 DEF SaveRequest
  <2>8. request = "delete" => store.rev = op[t].expected
    BY <1>2, <2>3, <2>4 DEF RemoveRequest
  <2> HIDE DEF request
  <2>9. tx'.tab = t /\ tx'.kind = request /\ tx'.rev = op[t].rev /\ tx'.expected = op[t].expected
    BY <2>1
  <2>10. TxInv'
    BY <1>0, <2>3, <2>4, <2>5, <2>6, <2>7, <2>8, <2>9 DEF Inv, TxInv, OpInv, WindowInv, workspace
  <2>11. OpInv(t)'
    BY <1>0, <2>2, <2>3, <2>4, <2>5, <2>9 DEF Inv, OpInv, workspace
  <2>12. \A u \in Tabs : u # t => op[u].phase # "committing"
    BY <1>0, CaseAssumption DEF Inv, TypeOK, NoTx
  <2>13. \A u \in Tabs : OpInv(u)'
    BY <1>0, <2>2, <2>11, <2>12 DEF Inv, OpInv, workspace
  <2>14. TypeOK'
    <3>1. op[t].rev \in Values /\ op[t].expected \in Values  BY DEF Inv, TypeOK
    <3>2. tx' \in [tab : Tabs \cup {None}, kind : {"none", "put", "keep", "delete"}, rev : Values,
                   expected : Values]
      BY <2>1, <2>3, <2>4, <2>5, <3>1
    <3>3. \A u \in Tabs : op'[u].phase = "committing" => tx'.tab = u
      BY <2>13 DEF OpInv
    <3> QED  BY <1>0, <2>2, <3>2, <3>3 DEF Inv, TypeOK, workspace, Ops
  <2>15. StoreInv' /\ \A u \in Tabs : WindowInv(u)'
    BY <1>0 DEF Inv, StoreInv, WindowInv, workspace
  <2> QED  BY <2>10, <2>13, <2>14, <2>15 DEF Inv
<1> QED  BY <1>1, <1>2

\* A transaction that has asked for something has a window.
LEMMA TxHasWindow ==
  ASSUME Inv, tx # NoTx
  PROVE  /\ tx.tab \in Tabs /\ tx.kind \in {"put", "keep", "delete"}
         /\ tx.rev \in Values /\ tx.expected \in Values
BY DEF Inv, TypeOK, TxInv

\* Only the transaction's window waits for its end.
LEMMA OneWaits ==
  ASSUME Inv, NEW u \in Tabs, op[u].phase = "committing"
  PROVE  tx # NoTx /\ u = tx.tab
BY CaseAssumption DEF Inv, OpInv, NoTx

\* The transaction commits.
LEMMA CommitInv == ASSUME Inv, Commit PROVE Inv'
<1>0. /\ tx # NoTx /\ tx' = NoTx /\ UNCHANGED <<active, built, derives, damage>>
      /\ store' = CASE tx.kind = "put" -> Record(tx.rev) [] tx.kind = "delete" -> Absent
                    [] OTHER -> store
      /\ past' = past \cup ({store'.rev} \ {None})
  BY DEF Commit, history
<1>1. tx.tab \in Tabs /\ tx.kind \in {"put", "keep", "delete"} /\ tx.rev \in Values
  BY <1>0, TxHasWindow
<1>2. /\ store' \in Records /\ store'.rev = tx.rev
      /\ tx.kind # "keep" => store'.state = "sound"
      /\ tx.kind = "keep" => store' = store
  <2>1. CASE tx.kind = "put"
    BY <1>0, <1>1, <2>1 DEF Record, Records
  <2>2. CASE tx.kind = "delete"
    BY <1>0, <1>1, <2>2 DEF Record, Absent, Records, Inv, TxInv, Values
  <2>3. CASE tx.kind = "keep"
    BY <1>0, <1>1, <2>3 DEF Inv, TxInv, TypeOK
  <2> QED  BY <1>1, <2>1, <2>2, <2>3
<1>3. tx.rev \in built \cup {None}
  BY <1>0, <1>1 DEF Inv, TxInv, StoreInv
<1>4. past' \subseteq built /\ past \subseteq past' /\ store'.rev \in past' \cup {None}
  BY <1>0, <1>2, <1>3 DEF Inv, StoreInv
<1>5. StoreInv'
  BY <1>0, <1>1, <1>2, <1>4 DEF StoreInv, Inv
<1>6. TxInv'  BY <1>0 DEF TxInv
<1>7. /\ op' \in [Tabs -> Ops] /\ savedHash' \in [Tabs -> Values]
      /\ \A u \in Tabs : WindowInv(u)'
      /\ \A u \in Tabs : OpInv(u)'
  <2>1. CASE op[tx.tab].phase = "committing"
    <3>0. PICK t \in Tabs : t = tx.tab  BY <1>1
    <3>1. End(t) /\ savedHash' = [savedHash EXCEPT ![t] =
             IF tx.kind # "delete" \/ active[t] # None THEN tx.rev ELSE @]
      BY <2>1, <3>0 DEF Commit
    <3>2. /\ op' \in [Tabs -> Ops] /\ op'[t] = Idle
          /\ \A u \in Tabs : u # t => op'[u] = op[u]
      BY <3>0, <3>1, OpEnds DEF Inv
    <3>3. op[t].phase = "committing"  BY <2>1, <3>0
    <3>4. op[t].kind \in {"save", "remove"} /\ tx.rev = op[t].rev
          /\ (tx.kind = "delete" <=> op[t].kind = "remove")
      BY <3>0, <3>3 DEF Inv, OpInv, TypeOK, Kinds
    <3>5. /\ savedHash' \in [Tabs -> Values]
          /\ \A u \in Tabs : u # t => savedHash'[u] = savedHash[u]
          /\ savedHash'[t] = IF tx.kind # "delete" \/ active[t] # None THEN tx.rev ELSE savedHash[t]
      BY <1>1, <3>0, <3>1 DEF Inv, TypeOK
    <3>6. WindowInv(t)'
      <4>1. CASE tx.kind = "delete"
        <5>1. tx.rev = None  BY <1>0, <4>1 DEF Inv, TxInv
        <5> QED  BY <1>0, <3>0, <3>5, <4>1, <5>1 DEF Inv, WindowInv
      <4>2. CASE tx.kind # "delete"
        <5>1. tx.rev = active[t] /\ active[t] # None
          BY <3>0, <3>4, <4>2 DEF Inv, OpInv
        <5> QED  BY <1>0, <3>0, <3>5, <4>2, <5>1 DEF Inv, WindowInv
      <4> QED  BY <4>1, <4>2
    <3>7. \A u \in Tabs : WindowInv(u)'
      BY <1>0, <3>5, <3>6 DEF Inv, WindowInv
    <3>8. \A u \in Tabs : OpInv(u)'
      <4> SUFFICES ASSUME NEW u \in Tabs PROVE OpInv(u)'  OBVIOUS
      <4>1. CASE u = t
        BY <3>2, <4>1 DEF OpInv, Idle, Absent, Record
      <4>2. CASE u # t
        <5>1. op[u].phase # "committing"  BY <1>0, <3>0, <4>2, OneWaits
        <5> QED  BY <1>0, <1>4, <3>2, <3>5, <4>2, <5>1 DEF Inv, OpInv
      <4> QED  BY <4>1, <4>2
    <3> QED  BY <3>2, <3>5, <3>7, <3>8
  <2>2. CASE op[tx.tab].phase # "committing"
    <3>1. UNCHANGED <<op, savedHash>>  BY <2>2 DEF Commit
    <3>2. \A u \in Tabs : op[u].phase # "committing"  BY <2>2, OneWaits
    <3>3. op' \in [Tabs -> Ops] /\ savedHash' \in [Tabs -> Values]
      BY <3>1 DEF Inv, TypeOK, Ops
    <3>4. \A u \in Tabs : WindowInv(u)'  BY <1>0, <3>1 DEF Inv, WindowInv
    <3>5. \A u \in Tabs : OpInv(u)'  BY <1>0, <1>4, <3>1, <3>2 DEF Inv, OpInv
    <3> QED  BY <3>3, <3>4, <3>5
  <2> QED  BY <2>1, <2>2
<1>8. TypeOK'
  <2>1. \A u \in Tabs : op'[u].phase = "committing" => tx'.tab = u
    BY <1>7 DEF OpInv
  <2>2. tx' \in [tab : Tabs \cup {None}, kind : {"none", "put", "keep", "delete"}, rev : Values,
                 expected : Values]
    BY <1>0 DEF NoTx, Values
  <2>3. past' \subseteq Revisions  BY <1>0, <1>4 DEF Inv, TypeOK
  <2> QED  BY <1>0, <1>2, <1>7, <2>1, <2>2, <2>3 DEF Inv, TypeOK, Ops
<1> QED  BY <1>5, <1>6, <1>7, <1>8 DEF Inv

\* An operation ends while the transaction it may have asked for goes on, or is aborted.
LEMMA EndsBeside ==
  ASSUME Inv, NEW t \in Tabs, End(t), tx' \in {tx, NoTx},
         tx' = NoTx => tx = NoTx \/ tx.tab = t,
         UNCHANGED <<store, past, damage, history>>,
         \/ UNCHANGED <<active, savedHash>>
         \/ Accept(t, None, None)
  PROVE  Inv'
<1>1. /\ op' \in [Tabs -> Ops] /\ op'[t] = Idle
      /\ \A u \in Tabs : u # t => op'[u] = op[u]
  BY OpEnds DEF Inv
<1>2. /\ active' \in [Tabs -> Values] /\ savedHash' \in [Tabs -> Values]
      /\ \A u \in Tabs : u # t => active'[u] = active[u] /\ savedHash'[u] = savedHash[u]
      /\ WindowInv(t)'
  BY DEF Accept, Inv, TypeOK, WindowInv, Values, history
<1>3. \A u \in Tabs : WindowInv(u)'  BY <1>2 DEF Inv, WindowInv, history
<1>4. \A u \in Tabs : OpInv(u)'
  <2> SUFFICES ASSUME NEW u \in Tabs PROVE OpInv(u)'  OBVIOUS
  <2>1. CASE u = t
    BY <1>1, <2>1 DEF OpInv, Idle, Absent, Record
  <2>2. CASE u # t
    <3>1. op[u].phase = "committing" => tx' = tx
      BY <2>2, OneWaits
    <3> QED  BY <1>1, <1>2, <2>2, <3>1 DEF Inv, OpInv
  <2> QED  BY <2>1, <2>2
<1>5. TxInv'  BY DEF Inv, TxInv, history
<1>6. StoreInv'  BY DEF Inv, StoreInv, history
<1>7. TypeOK'
  <2>1. \A u \in Tabs : op'[u].phase = "committing" => tx'.tab = u
    BY <1>4 DEF OpInv
  <2>2. tx' \in [tab : Tabs \cup {None}, kind : {"none", "put", "keep", "delete"}, rev : Values,
                 expected : Values]
    BY DEF NoTx, Values, Inv, TypeOK
  <2> QED  BY <1>1, <1>2, <2>1, <2>2 DEF Inv, TypeOK, Ops, history
<1> QED  BY <1>3, <1>4, <1>5, <1>6, <1>7 DEF Inv

\* The browser aborts the transaction.
LEMMA AbortInv == ASSUME Inv, Abort PROVE Inv'
<1>0. tx # NoTx /\ tx' = NoTx /\ UNCHANGED <<store, past, damage, workspace>>  BY DEF Abort
<1>1. tx.tab \in Tabs  BY <1>0, TxHasWindow
<1>2. CASE op[tx.tab].phase = "committing"
  <2>1. End(tx.tab)  BY <1>2 DEF Abort
  <2> QED  BY <1>0, <1>1, <2>1, EndsBeside DEF workspace, history
<1>3. CASE op[tx.tab].phase # "committing"
  <2>1. op' = op  BY <1>3 DEF Abort
  <2>2. \A u \in Tabs : op[u].phase # "committing"  BY <1>3, OneWaits
  <2>3. StoreInv' /\ TxInv' /\ \A u \in Tabs : WindowInv(u)' /\ OpInv(u)'
    BY <1>0, <2>1, <2>2 DEF Inv, StoreInv, TxInv, WindowInv, OpInv, workspace
  <2>4. tx' \in [tab : Tabs \cup {None}, kind : {"none", "put", "keep", "delete"}, rev : Values,
                 expected : Values]
    BY <1>0 DEF NoTx, Values
  <2>5. TypeOK'  BY <1>0, <2>1, <2>2, <2>4 DEF Inv, TypeOK, workspace
  <2> QED  BY <2>3, <2>5 DEF Inv
<1> QED  BY <1>2, <1>3

\* The record is damaged from outside: its revision stays.
LEMMA DamageInv == ASSUME Inv, Damage PROVE Inv'
<1>1. PICK s \in {"bytes", "shape"} : store' = [store EXCEPT !.state = s]  BY DEF Damage
<1>2. /\ tx = NoTx /\ store # Absent /\ damage' = damage + 1 /\ damage < MaxDamage
      /\ UNCHANGED <<tx, past, workspace, op>>
  BY DEF Damage
<1>3. store' \in Records /\ store'.rev = store.rev  BY <1>1 DEF Inv, TypeOK, Records
<1>4. store.rev # None
  BY <1>2 DEF Inv, TypeOK, StoreInv, Records, Absent, Record
<1>5. damage' \in 0..MaxDamage  BY <1>2, CaseAssumption DEF Inv, TypeOK
<1>6. TypeOK'  BY <1>2, <1>3, <1>5 DEF Inv, TypeOK, workspace
<1>7. StoreInv' /\ TxInv'  BY <1>2, <1>3, <1>4 DEF Inv, StoreInv, TxInv, workspace
<1>8. \A u \in Tabs : WindowInv(u)' /\ OpInv(u)'
  BY <1>2 DEF Inv, WindowInv, OpInv, workspace
<1> QED  BY <1>6, <1>7, <1>8 DEF Inv

\* Failed, cancelled or reloaded.
LEMMA GivesUpInv ==
  ASSUME Inv, NEW t \in Tabs, Fails(t) \/ Cancel(t) \/ Reload(t)
  PROVE  Inv'
<1>1. CASE Fails(t)
  BY <1>1, EndsQuietly DEF Fails
<1>2. op[t].phase = "committing" => tx.tab = t  BY OneWaits
<1>3. CASE Cancel(t)
  BY <1>2, <1>3, EndsBeside DEF Cancel, Leaves, workspace, history
<1>4. CASE Reload(t)
  BY <1>2, <1>4, EndsBeside DEF Reload, Leaves
<1> QED  BY <1>1, <1>3, <1>4

\* Every step keeps the invariant.
LEMMA NextInv == Inv /\ [Next]_vars => Inv'
<1> SUFFICES ASSUME Inv, [Next]_vars PROVE Inv'  OBVIOUS
<1>1. CASE UNCHANGED vars
  <2>1. TypeOK' /\ StoreInv' /\ TxInv'
    BY <1>1 DEF Inv, vars, TypeOK, StoreInv, TxInv
  <2>2. \A u \in Tabs : WindowInv(u)' /\ OpInv(u)'
    BY <1>1 DEF Inv, vars, WindowInv, OpInv
  <2> QED  BY <2>1, <2>2 DEF Inv
<1>2. CASE Commit  BY <1>2, CommitInv
<1>3. CASE Abort  BY <1>3, AbortInv
<1>4. CASE Damage  BY <1>4, DamageInv
<1>5. ASSUME NEW t \in Tabs, Begins(t) PROVE Inv'
  BY <1>5, EditsInv, BeginsInv DEF Begins
<1>6. ASSUME NEW t \in Tabs, Proceeds(t) PROVE Inv'
  BY <1>6, ReadsInv, OpenVerifiedInv, PriorVerifiedInv, WriteInv DEF Proceeds
<1>7. ASSUME NEW t \in Tabs, Fails(t) \/ Cancel(t) \/ Reload(t) PROVE Inv'
  BY <1>7, GivesUpInv
<1> QED  BY <1>1, <1>2, <1>3, <1>4, <1>5, <1>6, <1>7 DEF Next

\* The invariant holds throughout.
LEMMA Invariant == Spec => []Inv
BY InitInv, NextInv, PTL DEF Spec

-----------------------------------------------------------------------------
\* The types of the case library's state, and that a window awaits only a transaction of its own.
THEOREM Typed == Spec => []TypeOK
<1>1. Inv => TypeOK  BY DEF Inv
<1> QED  BY <1>1, Invariant, PTL

\* A step that changes the stored revision is the commit of what the transaction asked for.
LEMMA StoreStep ==
  ASSUME Inv, [Next]_vars, store' # store
  PROVE  \/ Damage
         \/ Commit /\ tx # NoTx /\ tx.kind \in {"put", "delete"}
<1>1. ASSUME NEW t \in Tabs, Begins(t) PROVE store' = store
  BY <1>1 DEF Begins, Create, Edit, Import, OpenOther, Open, Save, Remove, Begin, library
<1>2. ASSUME NEW t \in Tabs, Proceeds(t) PROVE store' = store
  BY <1>2 DEF Proceeds, ReadForOpen, OpenVerified, ReadPrevious, PriorVerified, Write, library
<1>3. ASSUME NEW t \in Tabs, Fails(t) \/ Cancel(t) \/ Reload(t) PROVE store' = store
  BY <1>3 DEF Fails, Cancel, Reload, library
<1>4. Abort => store' = store  BY DEF Abort
<1>5. UNCHANGED vars => store' = store  BY DEF vars
<1>6. Commit => tx # NoTx /\ tx.kind \in {"put", "delete"}
  <2> SUFFICES ASSUME Commit PROVE tx # NoTx /\ tx.kind \in {"put", "delete"}  OBVIOUS
  <2>1. tx # NoTx  BY DEF Commit
  <2>2. tx.kind \in {"put", "keep", "delete"}  BY <2>1, TxHasWindow
  <2>3. tx.kind # "keep"
    <3> SUFFICES ASSUME tx.kind = "keep" PROVE store' = store  OBVIOUS
    <3> QED  BY DEF Commit
  <2> QED  BY <2>1, <2>2, <2>3
<1> QED  BY <1>1, <1>2, <1>3, <1>4, <1>5, <1>6 DEF Next

\* A saved revision is replaced only by one edited from it: no update is lost, for any number of
\* windows, whatever they interleave.
THEOREM UpdatesKept == Spec => NoLostUpdate
<1>1. ASSUME Inv, [Next]_vars
      PROVE  store.rev # None /\ store'.rev \notin {None, store.rev}
               => store.rev \in derives'[store'.rev]
  <2> SUFFICES ASSUME store.rev # None, store'.rev \notin {None, store.rev}
               PROVE  store.rev \in derives'[store'.rev]
    OBVIOUS
  <2>1. CASE Damage
    <3>1. store'.rev = store.rev  BY <1>1, <2>1 DEF Damage, Inv, TypeOK, Records
    <3> QED  BY <3>1
  <2>2. CASE Commit /\ tx # NoTx /\ tx.kind = "put"
    <3>1. store'.rev = tx.rev /\ derives' = derives  BY <2>2 DEF Commit, Record, history
    <3>2. store.rev = tx.expected /\ (tx.expected # None => tx.expected \in derives[tx.rev])
      BY <1>1, <2>2 DEF Inv, TxInv
    <3> QED  BY <3>1, <3>2
  <2>3. CASE Commit /\ tx # NoTx /\ tx.kind = "delete"
    <3>1. store'.rev = None  BY <2>3 DEF Commit, Absent, Record
    <3> QED  BY <3>1
  <2> QED  BY <1>1, <2>1, <2>2, <2>3, StoreStep
<1> QED  BY <1>1, Invariant, PTL DEF Spec, NoLostUpdate

\* A damaged record is never replaced; it leaves only by an explicit removal.
THEOREM DamageStays == Spec => DamageIsKept
<1>1. ASSUME Inv, [Next]_vars
      PROVE  store.state # "sound" /\ store' # store => store'.rev = None \/ damage' # damage
  <2> SUFFICES ASSUME store.state # "sound", store' # store
               PROVE  store'.rev = None \/ damage' # damage
    OBVIOUS
  <2>1. CASE Damage
    <3>1. damage' = damage + 1 /\ damage \in Nat
      BY <1>1, <2>1, CaseAssumption DEF Damage, Inv, TypeOK
    <3> QED  BY <3>1
  <2>2. CASE Commit /\ tx # NoTx /\ tx.kind = "put"
    BY <1>1, <2>2 DEF Inv, TxInv
  <2>3. CASE Commit /\ tx # NoTx /\ tx.kind = "delete"
    BY <2>3 DEF Commit, Absent, Record
  <2> QED  BY <1>1, <2>1, <2>2, <2>3, StoreStep
<1> QED  BY <1>1, Invariant, PTL DEF Spec, DamageIsKept

-----------------------------------------------------------------------------
(* The library implements the register. *)

\* What the windows have asked for.
Calls == [u \in Tabs |-> Call(u)]

\* The transaction under way as a call of the register.
Under == [pending |-> TRUE, expected |-> tx.expected, new |-> tx.rev]

\* A window that asks for the same thing as before has the same call.
LEMMA CallKept ==
  ASSUME NEW u \in Tabs, op'[u].kind = op[u].kind, op'[u].rev = op[u].rev,
         op'[u].expected = op[u].expected
  PROVE  Call(u)' = Call(u)
BY DEF Call

\* When every window asks for the same as before, the calls stay.
LEMMA CallsKept ==
  ASSUME \A u \in Tabs : op'[u].kind = op[u].kind /\ op'[u].rev = op[u].rev
                         /\ op'[u].expected = op[u].expected
  PROVE  Calls' = Calls
BY CallKept DEF Calls

\* Only one window's call changes.
LEMMA CallReplaced ==
  ASSUME NEW t \in Tabs, \A u \in Tabs : u # t => op'[u] = op[u]
  PROVE  Calls' = [Calls EXCEPT ![t] = Call(t)']
<1>1. \A u \in Tabs : u # t => Call(u)' = Call(u)  BY CallKept
<1> QED  BY <1>1 DEF Calls

\* An operation that ends leaves no call; one that was only an open had none.
LEMMA CallEnds ==
  ASSUME TypeOK, NEW t \in Tabs, End(t)
  PROVE  /\ Calls' = [Calls EXCEPT ![t] = Register!Idle]
         /\ op[t].kind \notin {"save", "remove"} => Calls' = Calls
         /\ op'[t].phase = "none" /\ \A u \in Tabs : u # t => op'[u] = op[u]
<1>1. op'[t] = Idle /\ \A u \in Tabs : u # t => op'[u] = op[u]  BY OpEnds
<1>2. Call(t)' = Register!Idle  BY <1>1 DEF Call, Idle, Register!Idle
<1>3. Calls' = [Calls EXCEPT ![t] = Register!Idle]  BY <1>1, <1>2, CallReplaced
<1>4. op[t].kind \notin {"save", "remove"} => Calls[t] = Register!Idle
  BY DEF Calls, Call, Register!Idle
<1>5. op[t].kind \notin {"save", "remove"} => Calls' = Calls
  BY <1>3, <1>4 DEF Calls
<1> QED  BY <1>1, <1>3, <1>5, OpEnds DEF Idle

\* Nothing has been given up while no transaction is under way, or one that is still awaited.
LEMMA NothingAdrift ==
  /\ tx = NoTx \/ op[tx.tab].phase = "committing" => GivenUp = {}
  /\ tx # NoTx /\ op[tx.tab].phase # "committing" => GivenUp = {Under}
BY DEF GivenUp, Under

\* A step of a window that neither begins nor ends to await the transaction gives nothing up.
LEMMA AdriftKept ==
  ASSUME Inv, NEW t \in Tabs, tx' = tx, \A u \in Tabs : u # t => op'[u] = op[u],
         op[t].phase = "committing" <=> op'[t].phase = "committing"
  PROVE  GivenUp' = GivenUp
<1>1. CASE tx = NoTx  BY <1>1 DEF GivenUp
<1>2. CASE tx # NoTx
  <2>1. tx.tab \in Tabs  BY <1>2, TxHasWindow
  <2>2. op[tx.tab].phase = "committing" <=> op'[tx.tab].phase = "committing"  BY <2>1
  <2> QED  BY <1>2, <2>2 DEF GivenUp
<1> QED  BY <1>1, <1>2

\* The call of a save or a removal.
LEMMA CallPending ==
  ASSUME NEW t \in Tabs, op[t].kind \in {"save", "remove"}
  PROVE  /\ Calls[t] = [pending |-> TRUE, expected |-> op[t].expected, new |-> op[t].rev]
         /\ Calls[t].pending
BY DEF Calls, Call

\* What the refinement may do while the library stands still.
Still == UNCHANGED <<store.rev, past, Calls, savedHash, GivenUp>>

\* The state of the register, for the steps below.
LEMMA StillStutters == Still => UNCHANGED Register!vars
BY DEF Still, Calls, Register!vars

\* Windows that open something else let go of the revision they hold, or take the stored one.
LEMMA HoldStep ==
  ASSUME Inv, NEW t \in Tabs, UNCHANGED <<store.rev, past, Calls, GivenUp>>,
         NEW v \in past \cup {None}, savedHash' = [savedHash EXCEPT ![t] = v]
  PROVE  Register!Next
<1>1. Register!Hold(t)  BY DEF Register!Hold, Calls
<1> QED  BY <1>1 DEF Register!Next

\* A call that fails while nothing, or only it, is under way.
LEMMA FailStep ==
  ASSUME Inv, NEW t \in Tabs, End(t), UNCHANGED <<store.rev, past, savedHash>>,
         GivenUp' \in {GivenUp, GivenUp \cup {Calls[t]}},
         op[t].kind \in {"save", "remove"} \/ GivenUp' = GivenUp
  PROVE  Register!Next \/ UNCHANGED Register!vars
<1>1. CASE op[t].kind \in {"save", "remove"}
  <2>1. Calls[t].pending /\ Calls' = [Calls EXCEPT ![t] = Register!Idle]
    BY <1>1, CallPending, CallEnds DEF Inv
  <2>2. Register!Fail(t)  BY <2>1 DEF Register!Fail, Calls
  <2> QED  BY <2>2 DEF Register!Next
<1>2. CASE op[t].kind \notin {"save", "remove"}
  <2>1. Calls' = Calls  BY <1>2, CallEnds DEF Inv
  <2> QED  BY <1>2, <2>1, StillStutters DEF Still
<1> QED  BY <1>1, <1>2

\* A step that does not await the transaction ends without giving anything up.
LEMMA EndStep ==
  ASSUME Inv, NEW t \in Tabs, End(t), UNCHANGED <<library, workspace>>,
         op[t].phase # "committing"
  PROVE  Register!Next \/ UNCHANGED Register!vars
<1>1. GivenUp' = GivenUp
  BY CallEnds, AdriftKept DEF Inv, library
<1> QED  BY <1>1, FailStep DEF library, workspace

\* create, update, import and opening another case.
LEMMA EditRegister ==
  ASSUME Inv, NEW t \in Tabs, Create(t) \/ Edit(t) \/ Import(t) \/ OpenOther(t)
  PROVE  Register!Next \/ UNCHANGED Register!vars
<1>0. UNCHANGED <<library, op>>  BY DEF Create, Edit, Import, OpenOther
<1>1. Calls' = Calls  BY <1>0, CallsKept
<1>2. GivenUp' = GivenUp  BY <1>0 DEF GivenUp, library
<1>3. CASE savedHash' = savedHash
  BY <1>0, <1>1, <1>2, <1>3, StillStutters DEF Still, library
<1>4. CASE savedHash' = [savedHash EXCEPT ![t] = None]
  BY <1>0, <1>1, <1>2, <1>4, HoldStep DEF library
<1> QED  BY <1>3, <1>4 DEF Create, Edit, Import, OpenOther, Accept

\* A save and a removal are asked for; an open is not a call.
LEMMA BeginRegister ==
  ASSUME Inv, NEW t \in Tabs, Open(t) \/ Save(t) \/ Remove(t)
  PROVE  Register!Next \/ UNCHANGED Register!vars
<1>1. ASSUME NEW kind \in {"open", "save", "remove"}, NEW phase \in Phases \ {"committing"},
             NEW rev \in Values, NEW expected \in Values, Begin(t, kind, phase, rev, expected)
      PROVE  Register!Next \/ UNCHANGED Register!vars
  <2> DEFINE o == [kind |-> kind, phase |-> phase, rev |-> rev, expected |-> expected, prev |-> Absent]
  <2>1. op[t].kind = "none" /\ op' = [op EXCEPT ![t] = o] /\ UNCHANGED <<library, workspace>>
    BY <1>1 DEF Begin
  <2>2. o \in Ops  BY DEF Ops, Kinds, Records, Absent, Record, Values
  <2>3. o.kind = kind /\ o.phase = phase /\ o.rev = rev /\ o.expected = expected  OBVIOUS
  <2> HIDE DEF o
  <2>4. op'[t] = o /\ \A u \in Tabs : u # t => op'[u] = op[u]
    BY <2>1, <2>2, OpReplaced DEF Inv
  <2>5. op[t].phase = "none"  BY <2>1 DEF Inv, OpInv
  <2>6. GivenUp' = GivenUp
    BY <1>1, <2>1, <2>3, <2>4, <2>5, AdriftKept DEF library
  <2>7. ~Calls[t].pending /\ Calls[t] = [pending |-> FALSE, expected |-> None, new |-> None]
    BY <2>1 DEF Calls, Call
  <2>8. Calls' = [Calls EXCEPT ![t] = Call(t)']  BY <2>4, CallReplaced
  <2>9. CASE kind = "open"
    <3>1. Call(t)' = Calls[t]  BY <2>3, <2>4, <2>7, <2>9 DEF Call
    <3>2. Calls' = Calls  BY <2>8, <3>1 DEF Calls
    <3> QED  BY <2>1, <2>6, <3>2, StillStutters DEF Still, library, workspace
  <2>10. CASE kind # "open"
    <3>1. Call(t)' = Register!Request(expected, rev)
      BY <2>3, <2>4, <2>10 DEF Call, Register!Request
    <3>2. Register!Ask(t)
      BY <2>1, <2>6, <2>7, <2>8, <3>1
      DEF Register!Ask, Register!Values, Values, Calls, library, workspace
    <3> QED  BY <3>2 DEF Register!Next
  <2> QED  BY <2>9, <2>10
<1>2. active[t] \in Values /\ savedHash[t] \in Values /\ None \in Values /\ store.rev \in Values
  BY DEF Inv, TypeOK, Values, Records
<1> QED  BY <1>1, <1>2 DEF Open, Save, Remove, Phases

\* What a window reads, verifies and asks of the transaction is internal, a refusal is a failure, and
\* an open that succeeds takes hold of a stored revision.
LEMMA ProceedRegister ==
  ASSUME Inv, NEW t \in Tabs, Proceeds(t)
  PROVE  Register!Next \/ UNCHANGED Register!vars
<1>1. ASSUME NEW p \in Phases \ {"committing"}, Reads(t, p) \/ Step(t, p),
             UNCHANGED <<library, workspace>>, op[t].phase # "committing"
      PROVE  UNCHANGED Register!vars
  <2>1. /\ op'[t].phase = p /\ op'[t].kind = op[t].kind /\ op'[t].rev = op[t].rev
        /\ op'[t].expected = op[t].expected
        /\ \A u \in Tabs : u # t => op'[u] = op[u]
    BY <1>1, OpReads, OpSteps DEF Inv
  <2>2. Calls' = Calls  BY <2>1, CallsKept
  <2>3. GivenUp' = GivenUp  BY <1>1, <2>1, AdriftKept DEF library
  <2> QED  BY <1>1, <2>2, <2>3, StillStutters DEF Still, library, workspace
<1>2. CASE ReadForOpen(t)
  <2>1. Reads(t, "verifying") \/ End(t)  BY <1>2 DEF ReadForOpen, Reads
  <2> QED  BY <1>1, <1>2, <2>1, EndStep DEF ReadForOpen, Phases
<1>3. CASE ReadPrevious(t)
  <2>1. Reads(t, "writing") \/ Reads(t, "prior") \/ End(t)  BY <1>3 DEF ReadPrevious, Reads
  <2> QED  BY <1>1, <1>3, <2>1, EndStep DEF ReadPrevious, Phases
<1>4. CASE PriorVerified(t)
  <2>1. Step(t, "writing") \/ End(t)  BY <1>4 DEF PriorVerified
  <2> QED  BY <1>1, <1>4, <2>1, EndStep DEF PriorVerified, Phases
<1>5. CASE OpenVerified(t)
  <2>1. End(t) /\ op[t].phase = "verifying" /\ UNCHANGED <<library, history>>
    BY <1>5 DEF OpenVerified
  <2>2. op[t].kind = "open"  BY <2>1 DEF Inv, TypeOK, OpInv, Kinds
  <2>3. Calls' = Calls  BY <2>1, <2>2, CallEnds DEF Inv
  <2>4. GivenUp' = GivenUp  BY <2>1, CallEnds, AdriftKept DEF Inv, library
  <2>5. op[t].prev.rev \in past \cup {None}  BY DEF Inv, OpInv
  <2>6. CASE savedHash' = savedHash
    BY <2>1, <2>3, <2>4, <2>6, StillStutters DEF Still, library
  <2>7. CASE savedHash' = [savedHash EXCEPT ![t] = op[t].prev.rev]
    BY <2>1, <2>3, <2>4, <2>5, <2>7, HoldStep DEF library
  <2> QED  BY <1>5, <2>6, <2>7 DEF OpenVerified, Accept
<1>6. CASE Write(t)
  <2>1. op[t].phase = "writing" /\ tx = NoTx /\ UNCHANGED <<store, past, damage, workspace>>
    BY <1>6 DEF Write
  <2>2. CASE End(t) /\ tx' = tx
    BY <2>1, <2>2, EndStep DEF library
  <2>3. CASE Step(t, "committing") /\ tx'.tab = t /\ tx' # NoTx
    <3>1. /\ op'[t].phase = "committing" /\ op'[t].kind = op[t].kind /\ op'[t].rev = op[t].rev
          /\ op'[t].expected = op[t].expected
          /\ \A u \in Tabs : u # t => op'[u] = op[u]
      BY <2>3, OpSteps DEF Inv, Phases
    <3>2. Calls' = Calls  BY <3>1, CallsKept
    <3>3. GivenUp = {} /\ GivenUp' = {}  BY <2>1, <2>3, <3>1 DEF GivenUp
    <3> QED  BY <2>1, <3>2, <3>3, StillStutters DEF Still, workspace
  <2>4. \/ End(t) /\ tx' = tx
        \/ Step(t, "committing") /\ tx'.tab = t
    BY <1>6 DEF Write
  <2>5. t # None  BY CaseAssumption
  <2>6. tx'.tab = t => tx' # NoTx  BY <2>5 DEF NoTx
  <2> QED  BY <2>2, <2>3, <2>4, <2>6
<1> QED  BY <1>2, <1>3, <1>4, <1>5, <1>6 DEF Proceeds

\* The transaction under way is the call that awaits it, or the one that was given up.
LEMMA CommitRegister == ASSUME Inv, Commit PROVE Register!Next
<1>0. /\ tx # NoTx /\ tx' = NoTx
      /\ past' = past \cup ({store'.rev} \ {None})
  BY DEF Commit
<1>1. tx.tab \in Tabs /\ tx.kind \in {"put", "keep", "delete"} /\ tx.rev \in Values
  BY <1>0, TxHasWindow
<1>2. store'.rev = tx.rev
  <2>1. CASE tx.kind = "put"  BY <2>1 DEF Commit, Record
  <2>2. CASE tx.kind = "delete"
    BY <1>0, <2>2 DEF Commit, Record, Absent, Inv, TxInv
  <2>3. CASE tx.kind = "keep"
    BY <1>0, <2>3 DEF Commit, Inv, TxInv
  <2> QED  BY <1>1, <2>1, <2>2, <2>3
<1>3. store.rev \in {tx.expected, tx.rev}
  BY <1>0, <1>1 DEF Inv, TxInv
<1>4. GivenUp' = {}  BY <1>0 DEF GivenUp
<1>5. CASE op[tx.tab].phase = "committing"
  <2>0. PICK t \in Tabs : t = tx.tab  BY <1>1
  <2>1. End(t) /\ op[t].phase = "committing"  BY <1>5, <2>0 DEF Commit
  <2>2. \E v \in {tx.rev, savedHash[t]} : savedHash' = [savedHash EXCEPT ![t] = v]
    BY <1>5, <2>0 DEF Commit
  <2>3. /\ op[t].kind \in {"save", "remove"} /\ tx.rev = op[t].rev /\ tx.expected = op[t].expected
    BY <2>1 DEF Inv, OpInv, TypeOK, Kinds
  <2>4. Calls[t] = Under /\ Under.pending /\ Under.expected = tx.expected /\ Under.new = tx.rev
    BY <2>3, CallPending DEF Under
  <2>5. Calls' = [Calls EXCEPT ![t] = Register!Idle]  BY <2>1, CallEnds DEF Inv
  <2>6. GivenUp = {}  BY <1>5 DEF GivenUp
  <2>7. Register!Succeed(t)
    BY <1>0, <1>2, <1>3, <1>4, <2>2, <2>4, <2>5, <2>6
    DEF Register!Succeed, Register!Meets, Register!Take, Calls
  <2> QED  BY <2>7 DEF Register!Next
<1>6. CASE op[tx.tab].phase # "committing"
  <2>1. UNCHANGED <<op, savedHash>>  BY <1>6 DEF Commit
  <2>2. Calls' = Calls  BY <2>1, CallsKept
  <2>3. GivenUp = {Under}  BY <1>0, <1>6, NothingAdrift
  <2>4. Under.expected = tx.expected /\ Under.new = tx.rev  BY DEF Under
  <2>5. Register!Settle(Under)
    BY <1>0, <1>2, <1>3, <1>4, <2>1, <2>2, <2>3, <2>4
    DEF Register!Settle, Register!Meets, Register!Take, Calls
  <2> QED  BY <2>3, <2>5 DEF Register!Next
<1> QED  BY <1>5, <1>6

\* A transaction that is aborted fails the call that awaits it, or settles the one given up.
LEMMA AbortRegister == ASSUME Inv, Abort PROVE Register!Next \/ UNCHANGED Register!vars
<1>0. tx # NoTx /\ tx' = NoTx /\ UNCHANGED <<store, past, damage, workspace>>  BY DEF Abort
<1>1. GivenUp' = {}  BY <1>0 DEF GivenUp
<1>2. tx.tab \in Tabs  BY <1>0, TxHasWindow
<1>3. CASE op[tx.tab].phase = "committing"
  <2>1. End(tx.tab) /\ GivenUp = {}  BY <1>3 DEF Abort, GivenUp
  <2> QED  BY <1>0, <1>1, <1>2, <2>1, FailStep DEF workspace
<1>4. CASE op[tx.tab].phase # "committing"
  <2>1. op' = op  BY <1>4 DEF Abort
  <2>2. Calls' = Calls  BY <2>1, CallsKept
  <2>3. GivenUp = {Under}  BY <1>0, <1>4, NothingAdrift
  <2>4. Register!Settle(Under)
    BY <1>0, <1>1, <2>2, <2>3 DEF Register!Settle, Calls, workspace
  <2> QED  BY <2>3, <2>4 DEF Register!Next
<1> QED  BY <1>3, <1>4

\* What an operation that leaves may leave behind.
LEMMA LeavesBehind ==
  ASSUME Inv, NEW t \in Tabs, End(t), Leaves(t)
  PROVE  /\ GivenUp' \in {GivenUp, GivenUp \cup {Calls[t]}}
         /\ op[t].phase # "committing" => GivenUp' = GivenUp
<1>1. op'[t].phase = "none" /\ \A u \in Tabs : u # t => op'[u] = op[u]
  BY CallEnds DEF Inv
<1>2. CASE op[t].phase # "committing"
  BY <1>1, <1>2, AdriftKept DEF Leaves
<1>3. CASE op[t].phase = "committing"
  <2>1. tx # NoTx /\ tx.tab = t  BY <1>3, OneWaits
  <2>2. GivenUp = {}  BY <1>3, <2>1 DEF GivenUp
  <2>3. op[t].kind \in {"save", "remove"} /\ tx.rev = op[t].rev /\ tx.expected = op[t].expected
    BY <1>3 DEF Inv, OpInv, TypeOK, Kinds
  <2>4. Calls[t] = Under  BY <2>3, CallPending DEF Under
  <2>5. CASE tx' = NoTx
    BY <2>2, <2>5 DEF GivenUp
  <2>6. CASE tx' = tx
    <3>1. GivenUp' = {Under}  BY <1>1, <2>1, <2>6 DEF GivenUp, Under
    <3> QED  BY <1>3, <2>2, <2>4, <3>1
  <2> QED  BY <1>3, <2>5, <2>6 DEF Leaves
<1> QED  BY <1>2, <1>3

\* A cancelled operation fails; a window that is reloaded leaves.
LEMMA GivesUpRegister ==
  ASSUME Inv, NEW t \in Tabs, Fails(t) \/ Cancel(t) \/ Reload(t)
  PROVE  Register!Next \/ UNCHANGED Register!vars
<1>1. CASE Fails(t)
  BY <1>1, EndStep DEF Fails
<1>2. CASE Cancel(t)
  <2>1. End(t) /\ Leaves(t) /\ UNCHANGED <<store, past, damage, workspace>>  BY <1>2 DEF Cancel
  <2>2. op[t].kind \in {"save", "remove"} \/ op[t].phase # "committing"
    BY <1>2 DEF Cancel, Inv, OpInv
  <2> QED  BY <2>1, <2>2, LeavesBehind, FailStep DEF workspace
<1>3. CASE Reload(t)
  <2>1. End(t) /\ Leaves(t) /\ UNCHANGED <<store, past, damage, history>>
        /\ savedHash' = [savedHash EXCEPT ![t] = None]
    BY <1>3 DEF Reload, Accept
  <2>2. Calls' = [Calls EXCEPT ![t] = Register!Idle]  BY <2>1, CallEnds DEF Inv
  <2>3. GivenUp' \in {GivenUp, GivenUp \cup {Calls[t]}}  BY <2>1, LeavesBehind
  <2>4. Register!Leave(t)  BY <2>1, <2>2, <2>3 DEF Register!Leave, Calls
  <2> QED  BY <2>4 DEF Register!Next
<1> QED  BY <1>1, <1>2, <1>3

\* Damage leaves the revision, and so the register, as they are.
LEMMA DamageRegister == ASSUME Inv, Damage PROVE UNCHANGED Register!vars
<1>1. UNCHANGED <<tx, past, workspace, op>> /\ store'.rev = store.rev
  BY DEF Damage, Inv, TypeOK, Records
<1>2. Calls' = Calls  BY <1>1, CallsKept
<1>3. GivenUp' = GivenUp  BY <1>1 DEF GivenUp
<1> QED  BY <1>1, <1>2, <1>3, StillStutters DEF Still, workspace

\* The case library is a compare-and-set register for any number of windows: a save or removal that
\* is reported as done took effect once against the revision it expected, and one that failed had no
\* effect, except that one given up while its transaction was under way may still take effect.
THEOREM LibraryIsRegister == Spec => ImplementsRegister
<1>1. Init => Register!Init
  <2> SUFFICES ASSUME Init PROVE Register!Init  OBVIOUS
  <2>1. store.rev = None /\ past = {} /\ savedHash = [t \in Tabs |-> None] /\ GivenUp = {}
    BY DEF Init, Absent, Record, GivenUp
  <2>2. \A t \in Tabs : Call(t) = Register!Idle
    BY DEF Init, Idle, Call, Register!Idle
  <2> QED  BY <2>1, <2>2 DEF Register!Init
<1>2. Inv /\ [Next]_vars => [Register!Next]_(Register!vars)
  <2> SUFFICES ASSUME Inv, [Next]_vars PROVE Register!Next \/ UNCHANGED Register!vars  OBVIOUS
  <2>1. CASE UNCHANGED vars
    <3>1. Calls' = Calls  BY <2>1, CallsKept DEF vars
    <3> QED  BY <2>1, <3>1, StillStutters DEF Still, vars, GivenUp
  <2>2. ASSUME NEW t \in Tabs, Begins(t) PROVE Register!Next \/ UNCHANGED Register!vars
    BY <2>2, EditRegister, BeginRegister DEF Begins
  <2>3. ASSUME NEW t \in Tabs, Proceeds(t) PROVE Register!Next \/ UNCHANGED Register!vars
    BY <2>3, ProceedRegister
  <2>4. ASSUME NEW t \in Tabs, Fails(t) \/ Cancel(t) \/ Reload(t)
        PROVE  Register!Next \/ UNCHANGED Register!vars
    BY <2>4, GivesUpRegister
  <2> QED
    BY <2>1, <2>2, <2>3, <2>4, CommitRegister, AbortRegister, DamageRegister DEF Next
<1> QED  BY <1>1, <1>2, Invariant, PTL DEF Spec, ImplementsRegister, Register!Spec

=============================================================================
