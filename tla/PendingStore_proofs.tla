------------------------ MODULE PendingStore_proofs -------------------------
(***************************************************************************)
(* Proofs about the pending-transaction store, for any hashes and orders,  *)
(* any number of mutations, list calls, faults and crashes.                *)
(*                                                                         *)
(* A call that runs is the first of the queue, so at most one mutation     *)
(* runs (Queued).  On an item that was never damaged nobody else writes,   *)
(* so what the running mutation has read is still what is stored when it   *)
(* writes (Fresh).  On a damaged one list calls write too, but all that is *)
(* ever written back is the item the app was started on (Copied), whose    *)
(* records the running mutation has also read (Growing).                   *)
(***************************************************************************)
EXTENDS PendingStore, TLAPS

Waiting == {"queued"} \cup Running

Queued(w) ==
  /\ pc[w] \in Waiting => /\ asked[w] \in Mutation
                          /\ \E i \in 1 .. Len(queue) : queue[i] = w
  /\ pc[w] \in Running => Head(queue) = w

Holding(c) == /\ pc[c] \in Running => snap[c] \in Item
              /\ pc[c] = "write" => c \in Writer

IInv == /\ TypeOK
        /\ \A w \in Writer : Queued(w)
        /\ \A c \in Caller : Holding(c)
-----------------------------------------------------------------------------
(* Mutations map tables to tables.                                         *)

LEMMA OutcomeType ==
  ASSUME NEW m \in Mutation, NEW table \in Table, Succeeds(m, table)
  PROVE  Outcome(m, table) \in Record
<1> DEFINE r == Existing(m, table)
<1>1. r \in Record \cup {None} BY DEF Existing, Table, Mutation
<1>2. m.kind \in {"store", "seen", "update", "attach"} BY DEF Mutation
<1>3. CASE m.kind = "store"
  <2>1. m.order \in Order \cup {None} BY <1>3 DEF Mutation
  <2>2. CASE r # None BY <1>1, <1>3, <2>2 DEF Outcome
  <2>3. CASE r = None BY <1>3, <2>1, <2>3 DEF Outcome, Record, Fields
  <2> QED BY <2>2, <2>3
<1>4. CASE m.kind = "seen"
  <2>1. r \in Record BY <1>1, <1>4 DEF Succeeds, Misses
  <2> QED BY <1>4, <2>1 DEF Outcome, Record, Fields
<1>5. CASE m.kind = "update"
  <2>1. r \in Record BY <1>1, <1>5 DEF Succeeds, Misses
  <2>2. r.status \in {"pending", m.status} /\ m.status \in Settled
    BY <1>5, <2>1, ItemAssumption DEF Succeeds, Rejects, Mutation
  <2> QED BY <1>5, <2>1, <2>2 DEF Outcome, Record, Fields
<1>6. CASE m.kind = "attach"
  <2>1. r \in Record BY <1>1, <1>6 DEF Succeeds, Misses
  <2>2. r.status = "confirmed" /\ r.order # None
    BY <1>6, <2>1, ItemAssumption DEF Succeeds, Rejects
  <2> QED BY <1>6, <2>1, <2>2 DEF Outcome, Record, Fields
<1> QED BY <1>2, <1>3, <1>4, <1>5, <1>6

LEMMA AppliedType ==
  ASSUME NEW m \in Mutation, NEW table \in Table, ~Rejects(m, table)
  PROVE  Applied(m, table) \in Table
<1>1. CASE Misses(m, table) BY <1>1 DEF Applied
<1>2. CASE ~Misses(m, table)
  <2>1. Outcome(m, table) \in Record BY <1>2, OutcomeType DEF Succeeds
  <2> QED BY <1>2, <2>1 DEF Applied, Table
<1> QED BY <1>1, <1>2
-----------------------------------------------------------------------------
(* What a step does to the queue.                                          *)

Labels == {"idle", "queued", "ok", "failed"} \cup Running

\* Who is not at the head keeps its place when the head leaves.
LEMMA TailKeeps ==
  ASSUME NEW s \in Seq(Writer), NEW i \in 1 .. Len(s), s[i] # Head(s)
  PROVE  \E j \in 1 .. Len(Tail(s)) : Tail(s)[j] = s[i]
<1>1. i # 1 OBVIOUS
<1>2. i - 1 \in 1 .. Len(Tail(s)) /\ Tail(s)[i - 1] = s[i] BY <1>1
<1> QED BY <1>2

\* The call that may run, or runs, goes on.
LEMMA GotoKeeps ==
  ASSUME TypeOK, \A w \in Writer : Queued(w), NEW c \in Caller, NEW label \in Running,
         MayRun(c) \/ pc[c] \in Running, Goto(c, label), UNCHANGED asked
  PROVE  /\ pc' \in [Caller -> Labels] /\ queue' \in Seq(Writer)
         /\ pc'[c] = label /\ \A d \in Caller \ {c} : pc'[d] = pc[d]
         /\ \A w \in Writer : Queued(w)'
<1>1. pc' \in [Caller -> Labels] /\ pc'[c] = label /\ \A d \in Caller \ {c} : pc'[d] = pc[d]
  BY DEF TypeOK, Goto, Labels
<1>2. queue' = queue /\ asked' = asked BY DEF Goto
<1>3. \A w \in Writer : Queued(w)'
  <2> TAKE w \in Writer
  <2>1. w \in Caller /\ Queued(w) BY DEF Caller
  <2>2. CASE w # c BY <1>1, <1>2, <2>1, <2>2 DEF Queued
  <2>3. CASE w = c
    <3>1. pc[w] \in Waiting /\ Head(queue) = w
      BY <2>1, <2>3, CallerAssumption DEF MayRun, Waiting, Queued
    <3> QED BY <1>2, <2>1, <3>1 DEF Queued
  <2> QED BY <2>2, <2>3
<1> QED BY <1>1, <1>2, <1>3 DEF TypeOK

\* The call that may run, or runs, is over.
LEMMA SettleKeeps ==
  ASSUME TypeOK, \A w \in Writer : Queued(w), NEW c \in Caller, NEW label \in {"ok", "failed"},
         MayRun(c) \/ pc[c] \in Running, Settle(c, label), UNCHANGED asked
  PROVE  /\ pc' \in [Caller -> Labels] /\ queue' \in Seq(Writer)
         /\ pc'[c] = label /\ \A d \in Caller \ {c} : pc'[d] = pc[d]
         /\ \A w \in Writer : Queued(w)'
<1>1. pc' \in [Caller -> Labels] /\ pc'[c] = label /\ \A d \in Caller \ {c} : pc'[d] = pc[d]
  BY DEF TypeOK, Settle, Labels
<1>2. CASE c \notin Writer
  <2>1. queue' = queue BY <1>2 DEF Settle
  <2>2. \A w \in Writer : w # c /\ w \in Caller BY <1>2 DEF Caller
  <2>3. \A w \in Writer : Queued(w)' BY <1>1, <2>1, <2>2 DEF Queued
  <2> QED BY <1>1, <2>1, <2>3 DEF TypeOK
<1>3. CASE c \in Writer
  <2>1. pc[c] \in Waiting /\ Head(queue) = c
    BY <1>3, CallerAssumption DEF MayRun, Waiting, Queued
  <2>2. queue # <<>> /\ queue \in Seq(Writer) BY <1>3, <2>1 DEF Queued, TypeOK
  <2>3. queue' = Tail(queue) /\ queue' \in Seq(Writer) BY <1>3, <2>2 DEF Settle
  <2>4. ASSUME NEW w \in Writer PROVE Queued(w)'
    <3>1. w \in Caller /\ Queued(w) BY DEF Caller
    <3>2. CASE w = c BY <1>1, <3>2 DEF Queued, Waiting, Running
    <3>3. CASE w # c
      <4>1. pc'[w] = pc[w] BY <1>1, <3>1, <3>3
      <4>2. pc[w] \notin Running BY <2>1, <3>1, <3>3 DEF Queued
      <4>3. pc[w] \in Waiting => \E j \in 1 .. Len(queue') : queue'[j] = w
        <5> HAVE pc[w] \in Waiting
        <5>1. PICK i \in 1 .. Len(queue) : queue[i] = w BY <3>1 DEF Queued
        <5> QED BY <2>1, <2>2, <2>3, <3>3, <5>1, TailKeeps
      <4> QED BY <3>1, <4>1, <4>2, <4>3 DEF Queued
    <3> QED BY <3>2, <3>3
  <2> QED BY <1>1, <2>3, <2>4
<1> QED BY <1>2, <1>3

\* What a call holds when its own step is over.
LEMMA HoldingKeeps ==
  ASSUME TypeOK, \A d \in Caller : Holding(d), NEW c \in Caller, Holding(c)',
         \A d \in Caller \ {c} : pc'[d] = pc[d] /\ snap'[d] = snap[d]
  PROVE  \A d \in Caller : Holding(d)'
<1> TAKE d \in Caller
<1>1. CASE d = c BY <1>1
<1>2. CASE d # c BY <1>2 DEF Holding
<1> QED BY <1>1, <1>2

LEMMA FaultType == ASSUME TypeOK, Fault PROVE faults' \in 0 .. MaxFaults /\ crashes' = crashes
BY BoundAssumption DEF TypeOK, Fault
-----------------------------------------------------------------------------
(* The steps.                                                              *)

LEMMA CallKeeps ==
  ASSUME IInv, NEW w \in Writer, Call(w)
  PROVE  IInv'
<1>0. TypeOK /\ w \in Caller BY DEF IInv, Caller
<1>1. PICK m \in Mutation : asked' = [asked EXCEPT ![w] = m] BY DEF Call
<1>2. queue \in Seq(Writer) /\ queue' = Append(queue, w) BY <1>0 DEF TypeOK, Call
<1>3. /\ queue' \in Seq(Writer) /\ queue'[Len(queue) + 1] = w
      /\ Len(queue) + 1 \in 1 .. Len(queue')
      /\ \A i \in 1 .. Len(queue) : i \in 1 .. Len(queue') /\ queue'[i] = queue[i]
  BY <1>2
<1>4. pc' \in [Caller -> Labels] /\ pc'[w] = "queued" /\ \A d \in Caller \ {w} : pc'[d] = pc[d]
  BY <1>0 DEF Call, TypeOK, Labels
<1>5. asked' \in [Writer -> Mutation \cup {None}] /\ asked'[w] = m
      /\ \A v \in Writer \ {w} : asked'[v] = asked[v]
  BY <1>0, <1>1 DEF TypeOK
<1>6. TypeOK' BY <1>0, <1>3, <1>4, <1>5 DEF TypeOK, Call, stores, limits, Labels
<1>7. ASSUME NEW v \in Writer PROVE Queued(v)'
  <2>1. CASE v = w BY <1>3, <1>4, <1>5, <2>1 DEF Queued, Waiting, Running
  <2>2. CASE v # w
    <3>1. Queued(v) /\ pc'[v] = pc[v] /\ asked'[v] = asked[v]
      BY <1>4, <1>5, <2>2 DEF IInv, Caller
    <3>2. pc[v] \in Waiting => \E i \in 1 .. Len(queue') : queue'[i] = v
      BY <1>3, <3>1 DEF Queued
    <3>3. pc[v] \in Running => Head(queue') = v
      <4> HAVE pc[v] \in Running
      <4>1. Len(queue) >= 1 BY <1>2, <3>1 DEF Queued, Waiting
      <4> QED BY <1>2, <1>3, <3>1, <4>1 DEF Queued
    <3> QED BY <3>1, <3>2, <3>3 DEF Queued
  <2> QED BY <2>1, <2>2
<1>8. \A d \in Caller : Holding(d)'
  <2>1. Holding(w)' BY <1>4 DEF Holding, Running
  <2>2. snap' = snap BY DEF Call
  <2> QED BY <1>0, <1>4, <2>1, <2>2, HoldingKeeps DEF IInv
<1> QED BY <1>6, <1>7, <1>8 DEF IInv

LEMMA ReadKeeps ==
  ASSUME IInv, NEW c \in Caller, Read(c)
  PROVE  IInv'
<1>0. TypeOK /\ MayRun(c) /\ UNCHANGED <<stores, asked, first>> BY DEF IInv, Read
<1>1. CASE /\ main.damage # "none" \/ c \in Writer
           /\ snap' = [snap EXCEPT ![c] = main]
           /\ Goto(c, IF main.damage = "none" THEN "write" ELSE "backUp")
           /\ UNCHANGED limits
  <2> DEFINE label == IF main.damage = "none" THEN "write" ELSE "backUp"
  <2>1. label \in Running BY DEF Running
  <2>2. /\ pc' \in [Caller -> Labels] /\ queue' \in Seq(Writer)
        /\ pc'[c] = label /\ \A d \in Caller \ {c} : pc'[d] = pc[d]
        /\ \A w \in Writer : Queued(w)'
    BY <1>0, <1>1, <2>1, GotoKeeps DEF IInv
  <2>3. main \in Item /\ snap' \in [Caller -> Item \cup {None}] /\ snap'[c] = main
        /\ \A d \in Caller \ {c} : snap'[d] = snap[d]
    BY <1>0, <1>1 DEF TypeOK
  <2>4. Holding(c)' BY <1>1, <2>2, <2>3 DEF Holding
  <2>5. \A d \in Caller : Holding(d)' BY <1>0, <2>2, <2>3, <2>4, HoldingKeeps DEF IInv
  <2>6. TypeOK' BY <1>0, <1>1, <2>2, <2>3 DEF TypeOK, stores, limits, Labels
  <2> QED BY <2>2, <2>5, <2>6 DEF IInv
<1>2. ASSUME NEW label \in {"ok", "failed"}, Settle(c, label), UNCHANGED snap,
             Fault \/ UNCHANGED limits
      PROVE  IInv'
  <2>1. /\ pc' \in [Caller -> Labels] /\ queue' \in Seq(Writer)
        /\ pc'[c] = label /\ \A d \in Caller \ {c} : pc'[d] = pc[d]
        /\ \A w \in Writer : Queued(w)'
    BY <1>0, <1>2, SettleKeeps DEF IInv
  <2>2. Holding(c)' BY <2>1 DEF Holding, Running
  <2>3. \A d \in Caller : Holding(d)' BY <1>0, <1>2, <2>1, <2>2, HoldingKeeps DEF IInv
  <2>4. TypeOK' BY <1>0, <1>2, <2>1, FaultType DEF TypeOK, stores, limits, Labels
  <2> QED BY <2>1, <2>3, <2>4 DEF IInv
<1> QED BY <1>1, <1>2 DEF Read

LEMMA BackUpKeeps ==
  ASSUME IInv, NEW c \in Caller, BackUp(c)
  PROVE  IInv'
<1>0. TypeOK /\ pc[c] \in Running /\ snap[c] \in Item /\ Goto(c, "repair")
      /\ UNCHANGED <<main, asked, snap, first>>
  BY DEF IInv, BackUp, Running, Holding
<1>1. /\ pc' \in [Caller -> Labels] /\ queue' \in Seq(Writer)
      /\ pc'[c] = "repair" /\ \A d \in Caller \ {c} : pc'[d] = pc[d]
      /\ \A w \in Writer : Queued(w)'
  BY <1>0, GotoKeeps DEF IInv, Running
<1>2. Holding(c)' BY <1>0, <1>1 DEF Holding
<1>3. \A d \in Caller : Holding(d)' BY <1>0, <1>1, <1>2, HoldingKeeps DEF IInv
<1>4. recovery' \in Item \cup {None} BY <1>0 DEF BackUp, TypeOK
<1>5. faults' \in 0 .. MaxFaults /\ crashes' = crashes
  BY <1>0, FaultType DEF BackUp, TypeOK, limits
<1>6. TypeOK' BY <1>0, <1>1, <1>4, <1>5 DEF TypeOK, Labels
<1> QED BY <1>1, <1>3, <1>6 DEF IInv

LEMMA ValidType ==
  ASSUME NEW table \in Table PROVE [table |-> table, damage |-> "none"] \in Item
BY DEF Item

LEMMA RepairKeeps ==
  ASSUME IInv, NEW c \in Caller, Repair(c)
  PROVE  IInv'
<1>0. TypeOK /\ pc[c] \in Running /\ snap[c] \in Item /\ UNCHANGED <<recovery, asked, first>>
  BY DEF IInv, Repair, Running, Holding
<1>1. main' \in Item
  <2>1. snap[c].table \in Table BY <1>0 DEF Item
  <2> QED BY <1>0, <2>1, ValidType DEF Repair, TypeOK
<1>2. faults' \in 0 .. MaxFaults /\ crashes' = crashes
  BY <1>0, FaultType DEF Repair, TypeOK, limits
<1>3. CASE c \in Writer /\ Goto(c, "write") /\ UNCHANGED snap
  <2>1. /\ pc' \in [Caller -> Labels] /\ queue' \in Seq(Writer)
        /\ pc'[c] = "write" /\ \A d \in Caller \ {c} : pc'[d] = pc[d]
        /\ \A w \in Writer : Queued(w)'
    BY <1>0, <1>3, GotoKeeps DEF IInv, Running
  <2>2. Holding(c)' BY <1>0, <1>3, <2>1 DEF Holding
  <2>3. \A d \in Caller : Holding(d)' BY <1>0, <1>3, <2>1, <2>2, HoldingKeeps DEF IInv
  <2>4. TypeOK' BY <1>0, <1>1, <1>2, <1>3, <2>1 DEF TypeOK, Labels
  <2> QED BY <2>1, <2>3, <2>4 DEF IInv
<1>4. ASSUME NEW label \in {"ok", "failed"}, Settle(c, label), Drop(c) PROVE IInv'
  <2>1. /\ pc' \in [Caller -> Labels] /\ queue' \in Seq(Writer)
        /\ pc'[c] = label /\ \A d \in Caller \ {c} : pc'[d] = pc[d]
        /\ \A w \in Writer : Queued(w)'
    BY <1>0, <1>4, SettleKeeps DEF IInv
  <2>2. Holding(c)' BY <2>1 DEF Holding, Running
  <2>3. snap' \in [Caller -> Item \cup {None}] /\ \A d \in Caller \ {c} : snap'[d] = snap[d]
    BY <1>0, <1>4 DEF Drop, TypeOK
  <2>4. \A d \in Caller : Holding(d)' BY <1>0, <2>1, <2>2, <2>3, HoldingKeeps DEF IInv
  <2>5. TypeOK' BY <1>0, <1>1, <1>2, <2>1, <2>3 DEF TypeOK, Labels
  <2> QED BY <2>1, <2>4, <2>5 DEF IInv
<1> QED BY <1>3, <1>4 DEF Repair

LEMMA WriteKeeps ==
  ASSUME IInv, NEW w \in Writer, Write(w)
  PROVE  IInv'
<1>0. TypeOK /\ w \in Caller /\ pc[w] \in Running /\ snap[w] \in Item /\ asked[w] \in Mutation
      /\ Drop(w) /\ UNCHANGED <<recovery, asked, first>>
  BY DEF IInv, Write, Running, Holding, Queued, Waiting, Caller
<1>1. main' \in Item
  <2>1. snap[w].table \in Table BY <1>0 DEF Item
  <2>2. ~Rejects(asked[w], snap[w].table) => Applied(asked[w], snap[w].table) \in Table
    BY <1>0, <2>1, AppliedType
  <2> QED BY <1>0, <2>2, ValidType DEF Write, TypeOK
<1>2. faults' \in 0 .. MaxFaults /\ crashes' = crashes
  BY <1>0, FaultType DEF Write, TypeOK, limits
<1>3. PICK label \in {"ok", "failed"} : Settle(w, label) BY DEF Write
<1>4. /\ pc' \in [Caller -> Labels] /\ queue' \in Seq(Writer)
      /\ pc'[w] = label /\ \A d \in Caller \ {w} : pc'[d] = pc[d]
      /\ \A v \in Writer : Queued(v)'
  BY <1>0, <1>3, SettleKeeps DEF IInv
<1>5. Holding(w)' BY <1>4 DEF Holding, Running
<1>6. snap' \in [Caller -> Item \cup {None}] /\ \A d \in Caller \ {w} : snap'[d] = snap[d]
  BY <1>0 DEF Drop, TypeOK
<1>7. \A d \in Caller : Holding(d)' BY <1>0, <1>4, <1>5, <1>6, HoldingKeeps DEF IInv
<1>8. TypeOK' BY <1>0, <1>1, <1>2, <1>4, <1>6 DEF TypeOK, Labels
<1> QED BY <1>4, <1>7, <1>8 DEF IInv

LEMMA CrashKeeps ==
  ASSUME IInv, Crash
  PROVE  IInv'
<1>0. TypeOK BY DEF IInv
<1>1. \A c \in Caller : pc'[c] \in {"idle", "ok", "failed"}
  <2> TAKE c \in Caller
  <2>1. pc[c] \in Labels BY <1>0 DEF TypeOK, Labels
  <2> QED BY <2>1 DEF Crash, Labels
<1>2. pc' \in [Caller -> Labels] BY <1>1 DEF Crash, Labels
<1>3. queue' \in Seq(Writer) /\ snap' \in [Caller -> Item \cup {None}] BY DEF Crash
<1>4. TypeOK'
  BY <1>0, <1>2, <1>3, BoundAssumption DEF Crash, TypeOK, stores, Labels
<1>5. \A w \in Writer : Queued(w)' BY <1>1 DEF Queued, Waiting, Running, Caller
<1>6. \A c \in Caller : Holding(c)' BY <1>1 DEF Holding, Running
<1> QED BY <1>4, <1>5, <1>6 DEF IInv

LEMMA InitEstablishes == Init => IInv
<1> SUFFICES ASSUME Init PROVE IInv OBVIOUS
<1>1. TypeOK BY BoundAssumption DEF Init, TypeOK
<1>2. \A w \in Writer : Queued(w) BY DEF Init, Queued, Waiting, Running, Caller
<1>3. \A c \in Caller : Holding(c) BY DEF Init, Holding, Running
<1> QED BY <1>1, <1>2, <1>3 DEF IInv

LEMMA Inductive == IInv /\ [Next]_vars => IInv'
<1> SUFFICES ASSUME IInv, [Next]_vars PROVE IInv' OBVIOUS
<1>1. ASSUME NEW w \in Writer, Call(w) \/ Write(w) PROVE IInv' BY <1>1, CallKeeps, WriteKeeps
<1>2. ASSUME NEW c \in Caller, Step(c) PROVE IInv'
  BY <1>2, ReadKeeps, BackUpKeeps, RepairKeeps DEF Step
<1>3. CASE Crash BY <1>3, CrashKeeps
<1>4. CASE UNCHANGED vars
  BY <1>4 DEF vars, stores, limits, IInv, TypeOK, Queued, Holding
<1> QED BY <1>1, <1>2, <1>3, <1>4 DEF Next

\* What is stored, queued and held keeps to its type: in particular no
\* mutation and no quarantine ever writes a record marked as attached that is
\* not the confirmed payment of an order, which assertTransaction would throw
\* out when the item is read again.
THEOREM TypeCorrect == Spec => []TypeOK
<1>1. IInv => TypeOK BY DEF IInv
<1> QED BY <1>1, InitEstablishes, Inductive, PTL DEF Spec
-----------------------------------------------------------------------------
(* On an intact item a mutation is one step of AtomicStore.                *)

Fresh == /\ main.damage = "none"
         /\ \A c \in Caller : pc[c] \notin {"backUp", "repair"}
         /\ \A w \in Writer : /\ pc[w] = "write" => snap[w] = main
                              /\ pc[w] = "idle" <=> asked[w] = None

LEMMA InitFresh == Init /\ first = None => Fresh
BY ItemAssumption DEF Init, Fresh, Caller

\* The only mutation that can be about to write is the first of the queue.
LEMMA FreshKept == IInv /\ Fresh /\ [Next]_vars => Fresh'
<1> SUFFICES ASSUME IInv, Fresh, [Next]_vars PROVE Fresh' OBVIOUS
<1>0. TypeOK /\ Writer \subseteq Caller BY DEF IInv, Caller
<1>1. ASSUME NEW w \in Writer, Call(w) PROVE Fresh'
  <2>1. PICK m \in Mutation : asked' = [asked EXCEPT ![w] = m] BY <1>1 DEF Call
  <2>2. m # None BY ItemAssumption
  <2>3. UNCHANGED <<main, snap>> /\ pc' = [pc EXCEPT ![w] = "queued"] /\ w \in Caller
    BY <1>0, <1>1 DEF Call, stores
  <2> QED BY <1>0, <2>1, <2>2, <2>3 DEF Fresh, TypeOK
<1>2. ASSUME NEW w \in Writer, Write(w) PROVE Fresh'
  <2>1. pc' \in [Caller -> Labels] /\ pc'[w] \in {"ok", "failed"}
        /\ \A d \in Caller \ {w} : pc'[d] = pc[d]
    <3>1. PICK label \in {"ok", "failed"} : pc' = [pc EXCEPT ![w] = label]
      BY <1>2 DEF Write, Settle
    <3> QED BY <1>0, <3>1 DEF TypeOK, Labels
  <2>2. \A v \in Writer \ {w} : pc[v] # "write"
    BY <1>2 DEF Write, IInv, Queued, Running
  <2>3. main'.damage = "none" /\ asked' = asked BY <1>2 DEF Write, Fresh
  <2>4. pc[w] = "write" BY <1>2 DEF Write
  <2> QED BY <1>0, <2>1, <2>2, <2>3, <2>4 DEF Fresh
<1>3. ASSUME NEW c \in Caller, Step(c) PROVE Fresh'
  <2>1. Read(c) BY <1>3 DEF Step, BackUp, Repair, Fresh
  <2>2. UNCHANGED <<main, asked>> /\ MayRun(c) BY <2>1 DEF Read, stores
  <2>3. CASE snap' = [snap EXCEPT ![c] = main] /\ Goto(c, "write") /\ c \in Writer
    <3>1. pc'[c] = "write" /\ snap'[c] = main /\ \A d \in Caller \ {c} :
            pc'[d] = pc[d] /\ snap'[d] = snap[d]
      BY <1>0, <2>3 DEF TypeOK, Goto
    <3>2. pc[c] = "queued" BY <2>2, <2>3, CallerAssumption DEF MayRun
    <3> QED BY <1>0, <2>2, <3>1, <3>2 DEF Fresh
  <2>4. ASSUME NEW label \in {"ok", "failed"}, Settle(c, label), UNCHANGED snap PROVE Fresh'
    <3>1. pc'[c] = label /\ \A d \in Caller \ {c} : pc'[d] = pc[d]
      BY <1>0, <2>4 DEF TypeOK, Settle
    <3>2. c \in Writer => pc[c] = "queued" BY <2>2, CallerAssumption DEF MayRun
    <3> QED BY <1>0, <2>2, <2>4, <3>1, <3>2 DEF Fresh
  <2> QED BY <2>1, <2>3, <2>4 DEF Read, Fresh
<1>4. CASE Crash
  <2>1. \A c \in Caller : pc'[c] \in {"idle", "ok", "failed"} /\ (pc'[c] = "idle" <=> pc[c] = "idle")
    <3> TAKE c \in Caller
    <3>1. pc[c] \in Labels BY <1>0 DEF TypeOK, Labels
    <3> QED BY <1>4, <3>1 DEF Crash, Labels, Running
  <2>2. UNCHANGED <<main, asked>> BY <1>4 DEF Crash, stores
  <2> QED BY <1>0, <2>1, <2>2 DEF Fresh
<1>5. CASE UNCHANGED vars BY <1>5 DEF vars, stores, Fresh
<1> QED BY <1>1, <1>2, <1>3, <1>4, <1>5 DEF Next

outcomeOf == [w \in Writer |-> IF pc[w] \in {"ok", "failed"} THEN pc[w] ELSE "none"]

\* What AtomicStore is shown of a store that was not damaged.
LEMMA Shown ==
  ASSUME first = None
  PROVE  shownTable = main.table /\ shownAsked = asked /\ shownResult = outcomeOf
BY DEF shownTable, shownAsked, shownResult, outcomeOf

LEMMA ShownNext ==
  ASSUME first' = None
  PROVE  shownTable' = main'.table /\ shownAsked' = asked' /\ shownResult' = outcomeOf'
BY DEF shownTable, shownAsked, shownResult, outcomeOf

LEMMA InitRefines ==
  ASSUME IInv, Fresh, Init, first = None
  PROVE  Atomic!Init
<1>1. main.table \in Table BY DEF IInv, TypeOK, Item
<1>2. outcomeOf = [w \in Writer |-> "none"] BY DEF outcomeOf, Init, Caller
<1> QED BY <1>1, <1>2, Shown DEF Init, Atomic!Init, Atomic!Table, Table, Atomic!Record, Record,
                          Atomic!Fields, Fields

LEMMA SameMutations == Atomic!Mutation = Mutation
BY DEF Atomic!Mutation, Mutation

LEMMA SameSucceeds ==
  ASSUME NEW m, NEW table
  PROVE  /\ Atomic!Succeeds(m, table) <=> Succeeds(m, table)
         /\ Atomic!Applied(m, table) = Applied(m, table)
BY DEF Atomic!Succeeds, Succeeds, Atomic!Applied, Applied, Atomic!Misses, Misses,
       Atomic!Rejects, Rejects, Atomic!Outcome, Outcome, Atomic!Existing, Existing

LEMMA CallRefines ==
  ASSUME IInv, Fresh, first = None, first' = None, NEW w \in Writer, Call(w)
  PROVE  Atomic!Call(w)
<1>1. asked[w] = None BY DEF Call, Fresh
<1>2. \E m \in Atomic!Mutation : asked' = [asked EXCEPT ![w] = m]
  BY SameMutations DEF Call
<1>3. outcomeOf' = outcomeOf
  <2>1. pc \in [Caller -> Labels] /\ w \in Caller BY DEF IInv, TypeOK, Labels, Caller
  <2> QED BY <2>1 DEF Call, outcomeOf, Caller
<1>4. main' = main BY DEF Call, stores
<1> QED BY <1>1, <1>2, <1>3, <1>4, Shown, ShownNext DEF Atomic!Call

LEMMA WriteRefines ==
  ASSUME IInv, Fresh, first = None, first' = None, NEW w \in Writer, Write(w)
  PROVE  Atomic!Succeed(w) \/ Atomic!Fail({w})
<1> DEFINE m == asked[w]
<1>0. snap[w] = main /\ asked' = asked /\ pc[w] = "write" BY DEF Write, Fresh
<1>1. m # None BY <1>0 DEF Fresh
<1>2. outcomeOf[w] = "none" BY <1>0 DEF outcomeOf
<1>3. ASSUME NEW label \in {"ok", "failed"}, Settle(w, label)
      PROVE  outcomeOf' = [outcomeOf EXCEPT ![w] = label]
  <2>1. pc \in [Caller -> Labels] /\ w \in Caller /\ pc' = [pc EXCEPT ![w] = label]
    BY <1>3 DEF IInv, TypeOK, Labels, Caller, Settle
  <2> QED BY <2>1 DEF outcomeOf, Caller
<1>4. CASE Succeeds(m, main.table) /\ main'.table = Applied(m, main.table) /\ Settle(w, "ok")
  <2>1. outcomeOf' = [outcomeOf EXCEPT ![w] = "ok"] BY <1>3, <1>4
  <2> QED BY <1>0, <1>1, <1>2, <1>4, <2>1, SameSucceeds, Shown, ShownNext DEF Atomic!Succeed
<1>5. CASE main'.table = main.table /\ Settle(w, "failed")
  <2>1. outcomeOf' = [outcomeOf EXCEPT ![w] = "failed"] BY <1>3, <1>5
  <2>2. outcomeOf' = [v \in Writer |-> IF v \in {w} THEN "failed" ELSE outcomeOf[v]]
    BY <2>1 DEF outcomeOf
  <2> QED BY <1>0, <1>1, <1>2, <1>5, <2>2, Shown, ShownNext DEF Atomic!Fail
<1>6. Misses(m, main.table) => Applied(m, main.table) = main.table BY DEF Applied
<1> QED BY <1>0, <1>4, <1>5, <1>6 DEF Write, Succeeds

LEMMA StepRefines ==
  ASSUME IInv, Fresh, first = None, first' = None, NEW c \in Caller, Step(c)
  PROVE  (Atomic!Fail({c}) /\ c \in Writer) \/ UNCHANGED Atomic!vars
<1>1. Read(c) BY DEF Step, BackUp, Repair, Fresh
<1>2. main' = main /\ asked' = asked /\ MayRun(c) BY <1>1 DEF Read, stores
<1>3. pc \in [Caller -> Labels] /\ Writer \subseteq Caller BY DEF IInv, TypeOK, Labels, Caller
<1>4. CASE c \in Writer /\ Settle(c, "failed")
  <2>1. pc[c] = "queued" BY <1>2, <1>4, CallerAssumption DEF MayRun
  <2>2. outcomeOf[c] = "none" /\ asked[c] # None BY <1>4, <2>1 DEF outcomeOf, Fresh
  <2>3. outcomeOf' = [v \in Writer |-> IF v \in {c} THEN "failed" ELSE outcomeOf[v]]
    BY <1>3, <1>4 DEF outcomeOf, Settle
  <2> QED BY <1>2, <1>4, <2>2, <2>3, Shown, ShownNext DEF Atomic!Fail
<1>5. CASE c \in Writer /\ Goto(c, "write")
  <2>1. pc[c] = "queued" BY <1>2, <1>5, CallerAssumption DEF MayRun
  <2>2. outcomeOf' = outcomeOf BY <1>3, <1>5, <2>1 DEF outcomeOf, Goto
  <2> QED BY <1>2, <2>2, Shown, ShownNext DEF Atomic!vars
<1>6. CASE c \notin Writer
  <2>1. PICK label : pc' = [pc EXCEPT ![c] = label] BY <1>1 DEF Read, Goto, Settle
  <2>2. outcomeOf' = outcomeOf BY <1>3, <1>6, <2>1 DEF outcomeOf
  <2> QED BY <1>2, <2>2, Shown, ShownNext DEF Atomic!vars
<1>7. c \in Writer => Settle(c, "failed") \/ Goto(c, "write")
  BY <1>1, CallerAssumption DEF Read, Fresh
<1> QED BY <1>4, <1>5, <1>6, <1>7

LEMMA CrashRefines ==
  ASSUME IInv, Fresh, first = None, first' = None, Crash,
         NEW W, W = {w \in Writer : pc[w] \in Waiting}
  PROVE  Atomic!Fail(W)
<1>1. \A w \in W : outcomeOf[w] = "none" /\ asked[w] # None
  BY DEF outcomeOf, Fresh, Waiting, Running
<1>2. outcomeOf' = [w \in Writer |-> IF w \in W THEN "failed" ELSE outcomeOf[w]]
  BY DEF outcomeOf, Crash, Waiting, Caller
<1>3. UNCHANGED <<main, asked>> BY DEF Crash, stores
<1> QED BY <1>1, <1>2, <1>3, Shown, ShownNext DEF Atomic!Fail

LEMMA SomeFailIsNext ==
  ASSUME NEW W \in SUBSET Writer, Atomic!Fail(W)
  PROVE  Atomic!Next
BY DEF Atomic!Next

LEMMA FirstKept == [Next]_vars => first' = first
BY DEF Next, vars, Call, Write, Step, Read, BackUp, Repair, Crash

LEMMA NextRefines ==
  ASSUME IInv, first = None => Fresh, [Next]_vars
  PROVE  [Atomic!Next]_Atomic!vars
<1>0. first' = first BY FirstKept
<1>1. CASE first # None
  BY <1>0, <1>1 DEF Atomic!vars, shownTable, shownAsked, shownResult
<1>2. CASE first = None
  <2>0. Fresh /\ first' = None BY <1>0, <1>2
  <2>1. ASSUME NEW w \in Writer, Call(w) PROVE Atomic!Next
    BY <1>2, <2>0, <2>1, CallRefines DEF Atomic!Next
  <2>2. ASSUME NEW w \in Writer, Write(w) PROVE Atomic!Next
    <3>1. {w} \in SUBSET Writer OBVIOUS
    <3> QED BY <1>2, <2>0, <2>2, <3>1, WriteRefines DEF Atomic!Next
  <2>3. ASSUME NEW c \in Caller, Step(c) PROVE Atomic!Next \/ UNCHANGED Atomic!vars
    <3>1. c \in Writer => {c} \in SUBSET Writer OBVIOUS
    <3> QED BY <1>2, <2>0, <2>3, <3>1, StepRefines DEF Atomic!Next
  <2>4. CASE Crash
    <3>1. PICK W \in SUBSET Writer : W = {w \in Writer : pc[w] \in Waiting} OBVIOUS
    <3>2. Atomic!Fail(W) BY <1>2, <2>0, <2>4, <3>1, CrashRefines
    <3> QED BY <3>2, SomeFailIsNext
  <2>5. CASE UNCHANGED vars
    BY <2>5 DEF vars, stores, Atomic!vars, shownTable, shownAsked, shownResult
  <2> QED BY <2>1, <2>2, <2>3, <2>4, <2>5 DEF Next
<1> QED BY <1>1, <1>2

\* As long as the item was not damaged when the app was started on it,
\* mutationQueue makes every mutation atomic: it takes effect at one instant on
\* the table of that instant, or it fails and changes nothing, whatever fails,
\* dies or is listed meanwhile.
THEOREM IntactStoreIsAtomic == Spec => ImplementsAtomicStore
<1>1. Init => IInv /\ (first = None => Fresh) BY InitEstablishes, InitFresh
<1>2. Init => Atomic!Init
  <2> SUFFICES ASSUME Init PROVE Atomic!Init OBVIOUS
  <2>1. CASE first = None BY <1>1, <2>1, InitRefines
  <2>2. CASE first # None
    <3>1. NoRecords \in Table BY DEF NoRecords, Table
    <3> QED BY <2>2, <3>1 DEF Atomic!Init, Atomic!Table, Table, Atomic!Record, Record,
              Atomic!Fields, Fields, shownTable, shownAsked, shownResult
  <2> QED BY <2>1, <2>2
<1>3. IInv /\ (first = None => Fresh) /\ [Next]_vars => IInv' /\ (first = None => Fresh)'
  BY Inductive, FreshKept, FirstKept
<1>4. IInv /\ (first = None => Fresh) /\ [Next]_vars => [Atomic!Next]_Atomic!vars
  BY NextRefines
<1> QED BY <1>1, <1>2, <1>3, <1>4, PTL DEF Spec, ImplementsAtomicStore, Atomic!Spec
-----------------------------------------------------------------------------
(* A damaged item: what every quarantine holds is the item the app was     *)
(* started on, because nothing that is written later is damaged.           *)

Kept(c) == /\ pc[c] \in {"backUp", "repair"} => snap[c] = first
           /\ pc[c] = "write" => main.damage = "none"
           /\ pc[c] = "repair" /\ faults = 0 => recovery = first

Copied == /\ main.damage # "none" => main = first
          /\ first # None => first.damage # "none"
          /\ DamageIsKept
          /\ \A c \in Caller : Kept(c)

LEMMA InitCopied == Init => Copied
<1> SUFFICES ASSUME Init PROVE Copied OBVIOUS
<1>1. \A c \in Caller : Kept(c) BY DEF Init, Kept
<1> QED BY <1>1 DEF Init, Copied, DamageIsKept

\* A call that moves on keeps Copied if the stores are left alone.
LEMMA CopiedMoves ==
  ASSUME Copied, NEW c \in Caller, Kept(c)', UNCHANGED <<main, recovery, first>>,
         faults' = 0 => faults = 0,
         \A d \in Caller \ {c} : pc'[d] = pc[d] /\ (pc[d] \in Running => snap'[d] = snap[d])
  PROVE  Copied'
<1>1. \A d \in Caller : Kept(d)'
  <2> TAKE d \in Caller
  <2>1. CASE d = c BY <2>1
  <2>2. CASE d # c BY <2>2 DEF Copied, Kept, Running
  <2> QED BY <2>1, <2>2
<1> QED BY <1>1 DEF Copied, DamageIsKept

\* Storage calls that threw are never forgotten.
LEMMA FaultsGrow ==
  ASSUME TypeOK, Fault \/ UNCHANGED limits
  PROVE  (faults' = 0 => faults = 0) /\ ~(Fault /\ faults' = 0)
BY DEF TypeOK, Fault, limits

LEMMA ReadCopied ==
  ASSUME IInv, Copied, NEW c \in Caller, Read(c)
  PROVE  Copied'
<1>0. TypeOK /\ UNCHANGED <<main, recovery, first, asked>> BY DEF IInv, Read, stores
<1>1. (faults' = 0 => faults = 0) BY <1>0, FaultsGrow DEF Read
<1>2. CASE /\ snap' = [snap EXCEPT ![c] = main]
           /\ Goto(c, IF main.damage = "none" THEN "write" ELSE "backUp")
  <2>1. pc'[c] = (IF main.damage = "none" THEN "write" ELSE "backUp") /\ snap'[c] = main
        /\ \A d \in Caller \ {c} : pc'[d] = pc[d] /\ snap'[d] = snap[d]
    BY <1>0, <1>2 DEF TypeOK, Goto
  <2>2. Kept(c)' BY <1>0, <2>1 DEF Copied, Kept
  <2> QED BY <1>0, <1>1, <2>1, <2>2, CopiedMoves
<1>3. ASSUME NEW label \in {"ok", "failed"}, Settle(c, label), UNCHANGED snap PROVE Copied'
  <2>1. pc'[c] = label /\ \A d \in Caller \ {c} : pc'[d] = pc[d]
    BY <1>0, <1>3 DEF TypeOK, Settle
  <2>2. Kept(c)' BY <2>1 DEF Kept
  <2> QED BY <1>0, <1>1, <1>3, <2>1, <2>2, CopiedMoves
<1> QED BY <1>2, <1>3 DEF Read

LEMMA BackUpCopied ==
  ASSUME IInv, Copied, NEW c \in Caller, BackUp(c)
  PROVE  Copied'
<1>0. /\ TypeOK /\ pc[c] = "backUp" /\ snap[c] = first
      /\ UNCHANGED <<main, asked, snap, first>>
  BY DEF IInv, BackUp, Copied, Kept
<1>1. pc'[c] = "repair" /\ \A d \in Caller \ {c} : pc'[d] = pc[d]
  BY <1>0 DEF BackUp, Goto, TypeOK
<1>2. (faults' = 0 => faults = 0) /\ (faults' = 0 => recovery' = first)
  BY <1>0, FaultsGrow DEF BackUp
<1>3. \A d \in Caller : Kept(d)'
  <2> TAKE d \in Caller
  <2>1. CASE d = c BY <1>0, <1>1, <1>2, <2>1 DEF Kept
  <2>2. CASE d # c BY <1>0, <1>1, <1>2, <2>2 DEF Copied, Kept
  <2> QED BY <2>1, <2>2
<1>4. DamageIsKept' BY <1>0, <1>2 DEF DamageIsKept
<1> QED BY <1>0, <1>3, <1>4 DEF Copied

\* Whoever writes the item leaves it undamaged, and has copied the damage.
LEMMA OverwriteCopied ==
  ASSUME Copied, main'.damage = "none", UNCHANGED <<recovery, first>>, NEW c \in Caller,
         pc[c] \in {"repair", "write"}, main \in Item,
         pc'[c] \in {"write", "ok", "failed"},
         \A d \in Caller \ {c} : pc'[d] = pc[d] /\ snap'[d] = snap[d],
         faults' = 0 => faults = 0
  PROVE  Copied'
<1>1. \A d \in Caller : Kept(d)'
  <2> TAKE d \in Caller
  <2>1. CASE d = c BY <2>1 DEF Kept
  <2>2. CASE d # c BY <2>2 DEF Copied, Kept
  <2> QED BY <2>1, <2>2
<1>2. first # None /\ faults = 0 => recovery = first
  <2> HAVE first # None /\ faults = 0
  <2>1. CASE pc[c] = "repair" BY <2>1 DEF Copied, Kept
  <2>2. CASE pc[c] = "write"
    <3>1. main # first BY <2>2 DEF Copied, Kept
    <3> QED BY <3>1 DEF Copied, DamageIsKept
  <2> QED BY <2>1, <2>2
<1>3. DamageIsKept' BY <1>2 DEF DamageIsKept
<1> QED BY <1>1, <1>3 DEF Copied

LEMMA RepairCopied ==
  ASSUME IInv, Copied, NEW c \in Caller, Repair(c)
  PROVE  Copied'
<1>0. TypeOK /\ pc[c] = "repair" /\ UNCHANGED <<recovery, asked, first>> BY DEF IInv, Repair
<1>1. PICK label \in {"write", "ok", "failed"} : pc' = [pc EXCEPT ![c] = label]
  BY DEF Repair, Goto, Settle
<1>2. pc'[c] = label /\ \A d \in Caller \ {c} : pc'[d] = pc[d] BY <1>0, <1>1 DEF TypeOK
<1>3. \A d \in Caller \ {c} : snap'[d] = snap[d] BY <1>0 DEF Repair, Drop, TypeOK
<1>4. faults' = 0 => faults = 0 BY <1>0, FaultsGrow DEF Repair
<1>5. CASE main' = main /\ pc'[c] # "write"
  <2>1. Kept(c)' BY <1>2, <1>5 DEF Kept
  <2> QED BY <1>0, <1>2, <1>3, <1>4, <1>5, <2>1, CopiedMoves
<1>6. CASE main' = [table |-> snap[c].table, damage |-> "none"]
  <2>1. main'.damage = "none" /\ main \in Item BY <1>0, <1>6 DEF TypeOK
  <2> QED BY <1>0, <1>2, <1>3, <1>4, <2>1, OverwriteCopied
<1>7. main' = main => Settle(c, "failed") \/ main' = [table |-> snap[c].table, damage |-> "none"]
  BY DEF Repair
<1>8. Settle(c, "failed") => pc'[c] # "write" BY <1>0 DEF Settle, TypeOK
<1> QED BY <1>5, <1>6, <1>7, <1>8 DEF Repair

LEMMA WriteCopied ==
  ASSUME IInv, Copied, NEW w \in Writer, Write(w)
  PROVE  Copied'
<1>0. /\ TypeOK /\ w \in Caller /\ pc[w] = "write" /\ UNCHANGED <<recovery, asked, first>>
      /\ main.damage = "none"
  BY DEF IInv, Write, Caller, Copied, Kept
<1>1. PICK label \in {"ok", "failed"} : pc' = [pc EXCEPT ![w] = label] BY DEF Write, Settle
<1>2. pc'[w] = label /\ \A d \in Caller \ {w} : pc'[d] = pc[d] BY <1>0, <1>1 DEF TypeOK
<1>3. \A d \in Caller \ {w} : snap'[d] = snap[d] BY <1>0 DEF Write, Drop, TypeOK
<1>4. faults' = 0 => faults = 0 BY <1>0, FaultsGrow DEF Write
<1>5. main'.damage = "none" BY <1>0 DEF Write
<1>6. main \in Item BY <1>0 DEF TypeOK
<1> QED BY <1>0, <1>2, <1>3, <1>4, <1>5, <1>6, OverwriteCopied

LEMMA CopiedKept == IInv /\ Copied /\ [Next]_vars => Copied'
<1> SUFFICES ASSUME IInv, Copied, [Next]_vars PROVE Copied' OBVIOUS
<1>0. TypeOK BY DEF IInv
<1>1. ASSUME NEW w \in Writer, Call(w) PROVE Copied'
  <2>1. w \in Caller /\ pc'[w] = "queued" /\ \A d \in Caller \ {w} : pc'[d] = pc[d]
    BY <1>0, <1>1 DEF Call, TypeOK, Caller
  <2>2. Kept(w)' BY <2>1 DEF Kept
  <2> QED BY <1>1, <2>1, <2>2, CopiedMoves DEF Call, stores, limits
<1>2. ASSUME NEW w \in Writer, Write(w) PROVE Copied' BY <1>2, WriteCopied
<1>3. ASSUME NEW c \in Caller, Step(c) PROVE Copied'
  BY <1>3, ReadCopied, BackUpCopied, RepairCopied DEF Step
<1>4. CASE Crash
  <2>1. \A c \in Caller : pc'[c] \in {"idle", "ok", "failed"}
    <3> TAKE c \in Caller
    <3>1. pc[c] \in Labels BY <1>0 DEF TypeOK, Labels
    <3> QED BY <1>4, <3>1 DEF Crash, Labels
  <2>2. \A c \in Caller : Kept(c)' BY <2>1 DEF Kept
  <2>3. UNCHANGED <<stores, first, faults>> BY <1>4 DEF Crash
  <2> QED BY <2>2, <2>3 DEF Copied, DamageIsKept, stores
<1>5. CASE UNCHANGED vars BY <1>5 DEF vars, stores, limits, Copied, DamageIsKept, Kept
<1> QED BY <1>1, <1>2, <1>3, <1>4, <1>5 DEF Next

\* The raw text of a damaged item is never lost: it is only written over once
\* a copy of it is under RECOVERY_KEY, however many list calls and mutations
\* quarantine it at once and whenever the process dies, unless a storage call
\* throws.
THEOREM DamageKept == Spec => []DamageIsKept
<1>1. Init => IInv /\ Copied BY InitEstablishes, InitCopied
<1>2. IInv /\ Copied /\ [Next]_vars => (IInv /\ Copied)' BY Inductive, CopiedKept
<1>3. Copied => DamageIsKept BY DEF Copied
<1> QED BY <1>1, <1>2, <1>3, PTL DEF Spec
-----------------------------------------------------------------------------
(* Records stay: what is stored never has a record that the running        *)
(* mutation has not read, and always those of a damaged item.              *)

Ahead(w) == pc[w] \in Running => Carries(main.table, snap[w].table)

Growing == /\ first # None => Carries(first.table, main.table)
           /\ \A w \in Writer : Ahead(w)

LEMMA CarriesItself == ASSUME NEW s PROVE Carries(s, s)
BY DEF Carries, Advances

LEMMA OutcomeAdvances ==
  ASSUME NEW m \in Mutation, NEW table \in Table, Succeeds(m, table), table[m.hash] # None
  PROVE  Advances(table[m.hash], Outcome(m, table))
<1> DEFINE r == Existing(m, table)
<1>1. r \in Record /\ r = table[m.hash] BY DEF Existing, Table, Mutation
<1>2. m.kind \in {"store", "seen", "update", "attach"} BY DEF Mutation
<1>3. CASE m.kind = "store" BY <1>1, <1>3 DEF Outcome, Advances
<1>4. CASE m.kind = "seen" BY <1>1, <1>4 DEF Outcome, Advances, Record, Fields
<1>5. CASE m.kind = "update"
  <2>1. r.status \in {"pending", m.status} BY <1>1, <1>5 DEF Succeeds, Rejects
  <2> QED BY <1>1, <1>5, <2>1 DEF Outcome, Advances, Record, Fields
<1>6. CASE m.kind = "attach" BY <1>1, <1>6 DEF Outcome, Advances, Record, Fields
<1> QED BY <1>1, <1>2, <1>3, <1>4, <1>5, <1>6

\* A mutation deletes nothing and takes nothing back.
LEMMA AppliedCarries ==
  ASSUME NEW m \in Mutation, NEW table \in Table, ~Rejects(m, table)
  PROVE  Carries(table, Applied(m, table))
<1>1. CASE Misses(m, table) BY <1>1, CarriesItself DEF Applied
<1>2. CASE ~Misses(m, table)
  <2>1. Outcome(m, table) \in Record BY <1>2, OutcomeType DEF Succeeds
  <2>2. Outcome(m, table) # None BY <2>1, ItemAssumption
  <2>3. table[m.hash] # None => Advances(table[m.hash], Outcome(m, table))
    BY <1>2, OutcomeAdvances DEF Succeeds
  <2> QED BY <1>2, <2>2, <2>3 DEF Applied, Carries, Advances, Table
<1> QED BY <1>1, <1>2

LEMMA AdvancesTransitive ==
  ASSUME NEW a, NEW b, NEW c, Advances(a, b), Advances(b, c) PROVE Advances(a, c)
BY Zenon DEF Advances

LEMMA CarriesTransitive ==
  ASSUME NEW s, NEW t, NEW u, Carries(s, t), Carries(t, u) PROVE Carries(s, u)
BY AdvancesTransitive DEF Carries

LEMMA InitGrowing == Init => Growing
<1> SUFFICES ASSUME Init PROVE Growing OBVIOUS
<1>1. first # None => Carries(first.table, main.table) BY CarriesItself DEF Init
<1>2. \A w \in Writer : Ahead(w) BY DEF Init, Ahead, Running, Caller
<1> QED BY <1>1, <1>2 DEF Growing

\* Growing speaks of what is stored and of the running calls only.
LEMMA GrowingMoves ==
  ASSUME Growing, UNCHANGED <<main, first>>,
         \A w \in Writer : pc'[w] \in Running => pc[w] \in Running /\ snap'[w] = snap[w]
  PROVE  Growing'
<1>1. \A w \in Writer : Ahead(w)' BY DEF Growing, Ahead, Carries
<1> QED BY <1>1 DEF Growing, Carries

LEMMA ReadGrowing ==
  ASSUME IInv, Growing, NEW c \in Caller, Read(c)
  PROVE  Growing'
<1>0. TypeOK /\ UNCHANGED <<main, first>> /\ Writer \subseteq Caller
  BY DEF IInv, Read, stores, Caller
<1>1. CASE snap' = [snap EXCEPT ![c] = main] /\ \E label : Goto(c, label)
  <2>1. snap'[c] = main /\ \A d \in Caller \ {c} : pc'[d] = pc[d] /\ snap'[d] = snap[d]
    BY <1>0, <1>1 DEF TypeOK, Goto
  <2>2. \A w \in Writer : Ahead(w)'
    <3> TAKE w \in Writer
    <3>1. CASE w = c BY <1>0, <2>1, <3>1, CarriesItself DEF Ahead
    <3>2. CASE w # c BY <1>0, <2>1, <3>2 DEF Growing, Ahead, Carries
    <3> QED BY <3>1, <3>2
  <2> QED BY <1>0, <2>2 DEF Growing, Carries
<1>2. ASSUME NEW label \in {"ok", "failed"}, Settle(c, label), UNCHANGED snap PROVE Growing'
  <2>1. pc'[c] \notin Running /\ \A d \in Caller \ {c} : pc'[d] = pc[d]
    BY <1>0, <1>2 DEF TypeOK, Settle, Running
  <2> QED BY <1>0, <1>2, <2>1, GrowingMoves
<1> QED BY <1>1, <1>2 DEF Read

LEMMA BackUpGrowing ==
  ASSUME IInv, Growing, NEW c \in Caller, BackUp(c)
  PROVE  Growing'
<1>1. pc[c] \in Running /\ UNCHANGED <<main, snap, first>> BY DEF BackUp, Running
<1>2. \A d \in Caller \ {c} : pc'[d] = pc[d] BY DEF IInv, TypeOK, BackUp, Goto
<1> QED BY <1>1, <1>2, GrowingMoves DEF Caller

\* A quarantine writes the records of the damaged item: a mutation's own
\* loses none that is stored, a list call's none that was there at first.
LEMMA RepairGrowing ==
  ASSUME IInv, Copied, Growing, NEW c \in Caller, Repair(c)
  PROVE  Growing' /\ (c \in Writer => Carries(main.table, main'.table))
<1>0. /\ TypeOK /\ pc[c] \in Running /\ first' = first /\ Writer \subseteq Caller
      /\ snap[c] = first /\ first # None
  <2>1. pc[c] \in Running /\ snap[c] = first /\ snap[c] \in Item
    BY DEF Repair, Running, Copied, Kept, IInv, Holding
  <2> QED BY <2>1, ItemAssumption DEF IInv, Repair, Caller
<1>1. PICK label \in {"write", "ok", "failed"} : pc' = [pc EXCEPT ![c] = label]
  BY DEF Repair, Goto, Settle
<1>2. pc'[c] = label /\ \A d \in Caller \ {c} : pc'[d] = pc[d] /\ snap'[d] = snap[d]
  BY <1>0, <1>1 DEF TypeOK, Repair, Drop
<1>3. CASE main' = main /\ Settle(c, "failed")
  <2>1. pc'[c] \notin Running BY <1>0, <1>3 DEF TypeOK, Settle, Running
  <2>2. Growing' BY <1>0, <1>2, <1>3, <2>1, GrowingMoves
  <2> QED BY <1>3, <2>2, CarriesItself
<1>4. CASE /\ main' = [table |-> first.table, damage |-> "none"]
           /\ \/ c \in Writer /\ UNCHANGED snap
              \/ c \in Reader
  <2>1. main'.table = first.table BY <1>4
  <2>2. \A w \in Writer : Ahead(w)'
    <3> TAKE w \in Writer
    <3>1. CASE w = c
      <4>1. snap'[w] = first BY <1>0, <1>4, <3>1, CallerAssumption
      <4> QED BY <2>1, <4>1, CarriesItself DEF Ahead
    <3>2. CASE w # c
      <4> SUFFICES ASSUME pc[w] \in Running PROVE Carries(first.table, snap[w].table)
        BY <1>0, <1>2, <2>1, <3>2 DEF Ahead, Carries
      <4>1. Carries(main.table, snap[w].table) /\ Carries(first.table, main.table)
        BY <1>0 DEF Growing, Ahead
      <4> QED BY <4>1, CarriesTransitive
    <3> QED BY <3>1, <3>2
  <2>3. c \in Writer => Carries(main.table, main'.table)
    BY <1>0, <2>1 DEF Growing, Ahead
  <2> QED BY <1>0, <2>1, <2>2, <2>3, CarriesItself DEF Growing
<1> QED BY <1>0, <1>3, <1>4 DEF Repair

LEMMA WriteGrowing ==
  ASSUME IInv, Growing, NEW w \in Writer, Write(w)
  PROVE  Growing' /\ Carries(main.table, main'.table)
<1> DEFINE m == asked[w]
           table == snap[w].table
<1>0. /\ TypeOK /\ w \in Caller /\ pc[w] \in Running /\ snap[w] \in Item /\ m \in Mutation
      /\ first' = first
  BY DEF IInv, Write, Running, Holding, Queued, Waiting, Caller
<1>1. PICK label \in {"ok", "failed"} : pc' = [pc EXCEPT ![w] = label] BY DEF Write, Settle
<1>2. pc'[w] \notin Running /\ \A d \in Caller \ {w} : pc'[d] = pc[d] /\ snap'[d] = snap[d]
  BY <1>0, <1>1 DEF TypeOK, Running, Write, Drop
<1>3. \A v \in Writer : pc'[v] \notin Running
  <2> TAKE v \in Writer
  <2>1. CASE v = w BY <1>2, <2>1
  <2>2. CASE v # w
    <3>1. pc[v] \notin Running BY <1>0, <2>2 DEF IInv, Queued
    <3> QED BY <1>2, <2>2, <3>1 DEF Caller
  <2> QED BY <2>1, <2>2
<1>4. Carries(main.table, main'.table)
  <2>1. CASE main' = main BY <2>1, CarriesItself
  <2>2. CASE ~Rejects(m, table) /\ main' = [table |-> Applied(m, table), damage |-> "none"]
    <3>1. table \in Table BY <1>0 DEF Item
    <3>2. Carries(table, main'.table) BY <1>0, <2>2, <3>1, AppliedCarries
    <3>3. Carries(main.table, table) BY <1>0 DEF Growing, Ahead
    <3> QED BY <3>2, <3>3, CarriesTransitive
  <2> QED BY <2>1, <2>2 DEF Write
<1>5. first' # None => Carries(first'.table, main'.table)
  BY <1>0, <1>4, CarriesTransitive DEF Growing
<1>6. \A v \in Writer : Ahead(v)' BY <1>3 DEF Ahead
<1> QED BY <1>4, <1>5, <1>6 DEF Growing

\* One step: records stay, unless it is a list call's repair.
KeepsRecords == Carries(main.table, main'.table) \/ \E r \in Reader : Repair(r)

LEMMA GrowingKept == IInv /\ Copied /\ Growing /\ [Next]_vars => Growing' /\ KeepsRecords
<1> SUFFICES ASSUME IInv, Copied, Growing, [Next]_vars PROVE Growing' /\ KeepsRecords OBVIOUS
<1>0. TypeOK /\ Writer \subseteq Caller BY DEF IInv, Caller
<1>1. ASSUME NEW w \in Writer, Call(w) PROVE Growing' /\ KeepsRecords
  <2>1. pc'[w] \notin Running /\ \A d \in Caller \ {w} : pc'[d] = pc[d]
    BY <1>0, <1>1 DEF Call, TypeOK, Running
  <2>2. UNCHANGED <<main, first, snap>> BY <1>1 DEF Call, stores
  <2> QED BY <1>0, <2>1, <2>2, GrowingMoves, CarriesItself DEF KeepsRecords
<1>2. ASSUME NEW w \in Writer, Write(w) PROVE Growing' /\ KeepsRecords
  BY <1>2, WriteGrowing DEF KeepsRecords
<1>3. ASSUME NEW c \in Caller, Read(c) PROVE Growing' /\ KeepsRecords
  BY <1>3, ReadGrowing, CarriesItself DEF KeepsRecords, Read, stores
<1>4. ASSUME NEW c \in Caller, BackUp(c) PROVE Growing' /\ KeepsRecords
  BY <1>4, BackUpGrowing, CarriesItself DEF KeepsRecords, BackUp
<1>5. ASSUME NEW c \in Caller, Repair(c) PROVE Growing' /\ KeepsRecords
  <2>1. Growing' /\ (c \in Writer => Carries(main.table, main'.table)) BY <1>5, RepairGrowing
  <2> QED BY <1>5, <2>1 DEF KeepsRecords, Caller
<1>6. CASE Crash
  <2>1. \A c \in Caller : pc'[c] \notin Running
    <3> TAKE c \in Caller
    <3>1. pc[c] \in Labels BY <1>0 DEF TypeOK, Labels
    <3> QED BY <1>6, <3>1 DEF Crash, Labels, Running
  <2>2. UNCHANGED <<main, first>> BY <1>6 DEF Crash, stores
  <2> QED BY <1>0, <2>1, <2>2, GrowingMoves, CarriesItself DEF KeepsRecords
<1>7. CASE UNCHANGED vars
  BY <1>7, GrowingMoves, CarriesItself DEF vars, stores, KeepsRecords
<1> QED BY <1>1, <1>2, <1>3, <1>4, <1>5, <1>6, <1>7 DEF Next, Step

\* A mutation neither loses a record nor takes one back, by writing what it
\* computed from an older item or by quarantining one, whoever else runs, fails
\* or dies.  The only step that can is the repair of a list call.
THEOREM RecordsKept == Spec => MutationsKeepRecords
<1>1. Init => IInv /\ Copied /\ Growing BY InitEstablishes, InitCopied, InitGrowing
<1>2. IInv /\ Copied /\ Growing /\ [Next]_vars => (IInv /\ Copied /\ Growing)' /\ KeepsRecords
  BY Inductive, CopiedKept, GrowingKept
<1>3. KeepsRecords => [Carries(main.table, main'.table) \/ \E r \in Reader : Repair(r)]_vars
  BY DEF KeepsRecords
<1> QED BY <1>1, <1>2, <1>3, PTL DEF Spec, MutationsKeepRecords
=============================================================================
