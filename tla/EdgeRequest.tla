---------------------------- MODULE EdgeRequest ----------------------------
(***************************************************************************)
(* What flapIRQLine promises its callers, whatever the threads do: a call  *)
(* that reports success has had a request latched in the interrupt         *)
(* controller at some moment since it began.  One latch may serve several  *)
(* overlapping calls.                                                      *)
(***************************************************************************)
EXTENDS Naturals

CONSTANT Threads

VARIABLES
  call,      \* each thread: outside, in the call, or with its result
  waiting,   \* the callers for which nothing has been latched yet
  irr        \* the controller's latched request

vars == <<call, waiting, irr>>

Init ==
  /\ call = [t \in Threads |-> "outside"]
  /\ waiting = {}
  /\ irr = 0

Begin(t) ==
  /\ call[t] = "outside"
  /\ call' = [call EXCEPT ![t] = "inside"]
  /\ waiting' = waiting \cup {t}
  /\ UNCHANGED irr

\* A request is latched on behalf of every call in progress.
Latch == waiting' = {} /\ irr' = 1

\* Success is reported to a thread that has been served, or is being served.
Succeed(t) ==
  /\ call[t] = "inside"
  /\ call' = [call EXCEPT ![t] = "ok"]
  /\ \/ Latch
     \/ t \notin waiting /\ UNCHANGED <<waiting, irr>>

\* A failure may be reported to any caller.
Fail(t) ==
  /\ call[t] = "inside"
  /\ call' = [call EXCEPT ![t] = "failed"]
  /\ UNCHANGED <<waiting, irr>>

Return(t) ==
  /\ call[t] \in {"ok", "failed"}
  /\ call' = [call EXCEPT ![t] = "outside"]
  /\ waiting' = waiting \ {t}
  /\ UNCHANGED irr

Acknowledge ==
  /\ irr = 1
  /\ irr' = 0
  /\ UNCHANGED <<call, waiting>>

Next ==
  \/ Acknowledge
  \/ \E t \in Threads : Begin(t) \/ Succeed(t) \/ Fail(t) \/ Return(t)

Spec == Init /\ [][Next]_vars

=============================================================================
