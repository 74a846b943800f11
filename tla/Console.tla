------------------------------ MODULE Console ------------------------------
(***************************************************************************)
(* What the serial console promises its users: the guest's programs get    *)
(* the keys in the order they were typed, the terminal shows the bytes in  *)
(* the order the programs wrote them, each exactly once.                   *)
(* Interrupts, registers and threads do not appear here, nor does the time *)
(* a key or a byte may take.                                               *)
(***************************************************************************)
EXTENDS Naturals, Sequences

VARIABLES
  typed,      \* number of keys typed so far: key n is the n-th
  received,   \* the keys the guest has got
  written,    \* number of bytes the guest's programs have written
  shown       \* those the terminal shows

vars == <<typed, received, written, shown>>

Init == typed = 0 /\ received = <<>> /\ written = 0 /\ shown = <<>>

Type == typed' = typed + 1 /\ UNCHANGED <<received, written, shown>>

Write == written' = written + 1 /\ UNCHANGED <<typed, received, shown>>

\* The next key, or the next byte, goes through.
Deliver ==
  /\ Len(received) < typed
  /\ received' = Append(received, Len(received) + 1)
  /\ UNCHANGED <<typed, written, shown>>

Show ==
  /\ Len(shown) < written
  /\ shown' = Append(shown, Len(shown) + 1)
  /\ UNCHANGED <<typed, received, written>>

Next == Type \/ Write \/ Deliver \/ Show

Spec == Init /\ [][Next]_vars

=============================================================================
