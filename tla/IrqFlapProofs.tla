--------------------------- MODULE IrqFlapProofs ---------------------------
(***************************************************************************)
(* For any set of threads, with or without failing ioctls: the unlocked    *)
(* low/high pair of flapIRQLine behaves as an atomic interrupt request.    *)
(***************************************************************************)
EXTENDS IrqFlap, TLAPS

\* Holds initially and is kept by every step; HighMeansServed is what makes
\* FlapServed inductive.
IInv == TypeOK /\ HighMeansServed /\ FlapServed

LEMMA InitInv == Init => IInv
  BY DEF Init, IrqInit, IInv, TypeOK, IrqTypeOK, FlapStates,
         HighMeansServed, FlapServed

LEMMA NextInv == IInv /\ [Next]_vars => IInv'
<1> SUFFICES ASSUME IInv, [Next]_vars PROVE IInv'
  OBVIOUS
<1> USE DEF IInv, TypeOK, IrqTypeOK, FlapStates, HighMeansServed, FlapServed
<1>1. CASE GuestAck
  BY <1>1 DEF GuestAck, Acknowledge
<1>2. ASSUME NEW t \in Threads, Call(t) PROVE IInv'
  BY <1>2 DEF Call, CallFlap
<1>3. ASSUME NEW t \in Threads, Lower(t) PROVE IInv'
  BY <1>3 DEF Lower, LowerLine, SetLevel
<1>4. ASSUME NEW t \in Threads, Raise(t) PROVE IInv'
  <2>1. CASE line = 0
    \* The line rises: every thread is served.
    BY <1>4, <2>1 DEF Raise, RaiseLine, SetLevel, RisingEdge
  <2>2. CASE line = 1
    \* No edge: HighMeansServed says t has been served already.
    BY <1>4, <2>2 DEF Raise, RaiseLine, SetLevel, RisingEdge
  <2>3. QED BY <2>1, <2>2
<1>5. ASSUME NEW t \in Threads, Fails(t) PROVE IInv'
  BY <1>5 DEF Fails, IrqLineFails
<1>6. ASSUME NEW t \in Threads, Return(t) PROVE IInv'
  BY <1>6 DEF Return, ReturnFlap
<1>7. CASE UNCHANGED vars
  BY <1>7 DEF vars
<1>8. QED
  BY <1>1, <1>2, <1>3, <1>4, <1>5, <1>6, <1>7 DEF Next

\* The line, the latch and the program counters keep their types.
THEOREM TypeCorrect == Spec => []TypeOK
<1>1. IInv => TypeOK
  BY DEF IInv
<1>2. QED BY InitInv, NextInv, <1>1, PTL DEF Spec

\* Every successful flapIRQLine contains a rising edge, for any number of
\* threads and any interleaving of their ioctls.
THEOREM FlapAlwaysServed == Spec => []FlapServed
<1>1. IInv => FlapServed
  BY DEF IInv
<1>2. QED BY InitInv, NextInv, <1>1, PTL DEF Spec

\* flapIRQLine implements the atomic request of EdgeRequest.
THEOREM Refinement == Spec => ImplementsEdgeRequest
<1>1. Init => Request!Init
  BY DEF Init, IrqInit, Request!Init, CallOf
<1>2. IInv /\ [Next]_vars => [Request!Next]_Request!vars
  <2> SUFFICES ASSUME IInv, [Next]_vars PROVE [Request!Next]_Request!vars
    OBVIOUS
  <2> USE DEF IInv, TypeOK, IrqTypeOK, FlapStates, CallOf
  <2>1. CASE GuestAck
    <3>1. Request!Acknowledge
      BY <2>1 DEF GuestAck, Acknowledge, Request!Acknowledge
    <3>2. QED BY <3>1 DEF Request!Next
  <2>2. ASSUME NEW t \in Threads, Call(t) PROVE Request!Begin(t)
    BY <2>2 DEF Call, CallFlap, Request!Begin
  <2>3. ASSUME NEW t \in Threads, Lower(t) PROVE UNCHANGED Request!vars
    BY <2>3 DEF Lower, LowerLine, SetLevel, Request!vars
  <2>4. ASSUME NEW t \in Threads, Raise(t) PROVE Request!Succeed(t)
    <3>1. CASE line = 0
      \* The edge serves everybody, t included.
      BY <2>4, <3>1 DEF Raise, RaiseLine, SetLevel, RisingEdge, Request!Succeed,
                        Request!Latch
    <3>2. CASE line = 1
      \* t has been served by the edge that overtook it.
      <4>1. t \in served
        BY <2>4, <3>2 DEF Raise, RaiseLine, HighMeansServed
      <4>2. /\ flap[t] = "raise"
            /\ flap' = [flap EXCEPT ![t] = "ok"]
            /\ UNCHANGED <<served, irr>>
        BY <2>4, <3>2 DEF Raise, RaiseLine, SetLevel, RisingEdge
      <4>3. [x \in Threads |-> CallOf(x)]'
              = [[x \in Threads |-> CallOf(x)] EXCEPT ![t] = "ok"]
        BY <4>2
      <4>4. {x \in Threads : flap[x] # "idle"}' = {x \in Threads : flap[x] # "idle"}
        BY <4>2
      <4>5. UNCHANGED ({x \in Threads : flap[x] # "idle"} \ served)
        BY <4>2, <4>4
      <4>6. [x \in Threads |-> CallOf(x)][t] = "inside"
        BY <4>2
      <4>7. QED
        BY <4>1, <4>2, <4>3, <4>5, <4>6 DEF Request!Succeed
    <3>3. QED BY <3>1, <3>2
  <2>5. ASSUME NEW t \in Threads, Fails(t) PROVE Request!Fail(t)
    BY <2>5 DEF Fails, IrqLineFails, Request!Fail
  <2>6. ASSUME NEW t \in Threads, Return(t) PROVE Request!Return(t)
    BY <2>6 DEF Return, ReturnFlap, Request!Return
  <2>7. CASE UNCHANGED vars
    BY <2>7 DEF vars, Request!vars
  <2>8. QED
    BY <2>1, <2>2, <2>3, <2>4, <2>5, <2>6, <2>7 DEF Next, Request!Next
<1>3. QED
  BY <1>1, <1>2, InitInv, NextInv, PTL DEF Spec, ImplementsEdgeRequest, Request!Spec

=============================================================================
