---------------------------- MODULE CaseRegister ----------------------------
(***************************************************************************)
(* What the case library promises its callers                              *)
(* (docs/architecture/case-workspace.md, "Persistence and conflicts"): one *)
(* register per case, changed only by compare-and-set.  A call names the   *)
(* revision it expects to find and the one to leave (None to remove).  A   *)
(* call that succeeds took effect once, between request and answer; a call *)
(* that fails had no effect, except that one given up while its            *)
(* transaction was under way may still take effect, if its expectation     *)
(* still holds.                                                            *)
(***************************************************************************)
CONSTANTS Clients, Revisions, None

VARIABLES
  reg,     \* the revision in the register, or None
  past,    \* every revision the register has held
  call,    \* what each client asks for, or Idle
  held,    \* the revision each client believes to be stored, or None
  adrift   \* the calls that were given up under way

vars == <<reg, past, call, held, adrift>>

Values == Revisions \cup {None}
Idle == [pending |-> FALSE, expected |-> None, new |-> None]
Request(e, n) == [pending |-> TRUE, expected |-> e, new |-> n]

Init == /\ reg = None
        /\ past = {}
        /\ call = [c \in Clients |-> Idle]
        /\ held = [c \in Clients |-> None]
        /\ adrift = {}

Ask(c) == /\ ~call[c].pending
          /\ \E e, n \in Values : call' = [call EXCEPT ![c] = Request(e, n)]
          /\ UNCHANGED <<reg, past, held, adrift>>

\* The register holds what the request expects, or what it would leave.
Meets(r) == reg \in {r.expected, r.new}

Take(v) == reg' = v /\ past' = past \cup ({v} \ {None})

\* The call takes effect and is answered: the client may now hold the new revision, or nothing.
Succeed(c) == /\ call[c].pending
              /\ Meets(call[c])
              /\ Take(call[c].new)
              /\ call' = [call EXCEPT ![c] = Idle]
              /\ \E v \in {call[c].new, held[c]} : held' = [held EXCEPT ![c] = v]
              /\ UNCHANGED adrift

Fail(c) == /\ call[c].pending
           /\ call' = [call EXCEPT ![c] = Idle]
           /\ adrift' \in {adrift, adrift \cup {call[c]}}
           /\ UNCHANGED <<reg, past, held>>

\* A call given up under way takes effect, or never will.
Settle(r) == /\ r \in adrift
             /\ \/ Meets(r) /\ Take(r.new)
                \/ UNCHANGED <<reg, past>>
             /\ adrift' = adrift \ {r}
             /\ UNCHANGED <<call, held>>

\* A client reads a revision that is or was stored, or lets go of the one it holds.
Hold(c) == /\ \E v \in past \cup {None} : held' = [held EXCEPT ![c] = v]
           /\ UNCHANGED <<reg, past, call, adrift>>

\* The client goes away: its page is reloaded or closed.
Leave(c) == /\ held' = [held EXCEPT ![c] = None]
            /\ call' = [call EXCEPT ![c] = Idle]
            /\ adrift' \in {adrift, adrift \cup {call[c]}}
            /\ UNCHANGED <<reg, past>>

Next == \/ \E c \in Clients : Ask(c) \/ Succeed(c) \/ Fail(c) \/ Hold(c) \/ Leave(c)
        \/ \E r \in adrift : Settle(r)

Spec == Init /\ [][Next]_vars
=============================================================================
