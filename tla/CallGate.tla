------------------------------ MODULE CallGate ------------------------------
(***************************************************************************)
(* What placeCall() promises about one call, whoever else uses the         *)
(* database: nobody's telephone rings before the verdict on the call is    *)
(* written down, a verdict is final, and the row of the call agrees with   *)
(* both.  CallPipeline is shown to implement this.                         *)
(***************************************************************************)
CONSTANTS
    Call,       \* executions of placeCall()
    Provider    \* who can put a call through

VARIABLES
    verdict,    \* "open", then "cleared" or "refused"
    line,       \* the providers that have put the call through
    status      \* the status of the row of calls, "none" before there is one

vars == <<verdict, line, status>>

Init ==
    /\ verdict = [k \in Call |-> "open"]
    /\ line = [k \in Call |-> {}]
    /\ status = [k \in Call |-> "none"]

Decide(k) ==
    /\ verdict[k] = "open"
    /\ \E v \in {"cleared", "refused"} : verdict' = [verdict EXCEPT ![k] = v]
    /\ UNCHANGED <<line, status>>

Ring(k) ==
    /\ verdict[k] = "cleared"
    /\ status[k] = "none"
    /\ \E p \in Provider \ line[k] : line' = [line EXCEPT ![k] = @ \cup {p}]
    /\ UNCHANGED <<verdict, status>>

\* A call that rang can still be recorded as failed: the answer of a
\* provider may be lost.  A call that did not ring is never queued.
Record(k) ==
    /\ status[k] = "none"
    /\ \/ verdict[k] = "refused" /\ status' = [status EXCEPT ![k] = "cancelled"]
       \/ verdict[k] = "cleared" /\ status' = [status EXCEPT ![k] = "failed"]
       \/ verdict[k] = "cleared" /\ line[k] # {} /\ status' = [status EXCEPT ![k] = "queued"]
    /\ UNCHANGED <<verdict, line>>

Next == \E k \in Call : Decide(k) \/ Ring(k) \/ Record(k)

Spec == Init /\ [][Next]_vars
=============================================================================
