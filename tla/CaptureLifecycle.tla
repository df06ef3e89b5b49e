-------------------------- MODULE CaptureLifecycle --------------------------
(***************************************************************************)
(* What the capture bridge promises of its captures, whatever the control  *)
(* clients, the senders and the operating system do: captures follow one   *)
(* another, each is opened once, counts its datagrams upwards, and ends    *)
(* with a verdict and a final count that no later event changes, except    *)
(* that a clean verdict may be withdrawn.                                  *)
(***************************************************************************)
EXTENDS Naturals

VARIABLES
  current,  \* the number of the latest capture, 0 before the first
  verdict,  \* none, open, clean or incomplete
  count     \* datagrams of the latest capture

vars == <<current, verdict, count>>

Init == current = 0 /\ verdict = "none" /\ count = 0

\* A new capture, never while another is open.
Open ==
  /\ verdict # "open"
  /\ current' \in Nat /\ current' > current
  /\ verdict' = "open" /\ count' = 0

Receive == verdict = "open" /\ count' = count + 1 /\ UNCHANGED <<current, verdict>>

\* The end of a capture fixes its count; a verdict is only ever lowered.
End ==
  /\ verdict \in {"open", "clean"}
  /\ verdict' \in IF verdict = "open" THEN {"clean", "incomplete"} ELSE {"incomplete"}
  /\ UNCHANGED <<current, count>>

Next == Open \/ Receive \/ End

Spec == Init /\ [][Next]_vars
=============================================================================
