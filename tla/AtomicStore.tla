---------------------------- MODULE AtomicStore -----------------------------
(***************************************************************************)
(* What the callers of the pending-transaction store rely on, with no word *)
(* on queues, reads and writes: a mutation takes effect at one instant, on *)
(* the table as it is at that instant, and only then is it successful; a   *)
(* mutation that fails has changed nothing.                                *)
(***************************************************************************)
EXTENDS PendingRecords

CONSTANT Writer      \* calls of the four mutations

VARIABLES table,     \* the records
          asked,     \* asked[w]: the mutation w was called for, or None
          result     \* "none", "ok" or "failed"

vars == <<table, asked, result>>

Init == /\ table \in Table
        /\ asked = [w \in Writer |-> None]
        /\ result = [w \in Writer |-> "none"]

Call(w) == /\ asked[w] = None
           /\ \E m \in Mutation : asked' = [asked EXCEPT ![w] = m]
           /\ UNCHANGED <<table, result>>

Succeed(w) == /\ asked[w] # None
              /\ result[w] = "none"
              /\ Succeeds(asked[w], table)
              /\ table' = Applied(asked[w], table)
              /\ result' = [result EXCEPT ![w] = "ok"]
              /\ UNCHANGED asked

\* Rejected, nothing to change, storage not available, or the process died;
\* the death of a process fails several calls at once.
Fail(W) == /\ \A w \in W : result[w] = "none" /\ asked[w] # None
           /\ result' = [w \in Writer |-> IF w \in W THEN "failed" ELSE result[w]]
           /\ UNCHANGED <<table, asked>>

Next == \/ \E w \in Writer : Call(w) \/ Succeed(w)
        \/ \E W \in SUBSET Writer : Fail(W)

Spec == Init /\ [][Next]_vars
=============================================================================
