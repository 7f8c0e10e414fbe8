---------------------------- MODULE PendingStore ----------------------------
(***************************************************************************)
(* How pending-transactions.ts keeps its table in one AsyncStorage item.   *)
(*                                                                         *)
(* A mutation (Writer) waits in mutationQueue, reads the item, computes the*)
(* new table and writes it.  listStoredBscTransactions (Reader) reads the  *)
(* item without queueing.  Whoever reads a damaged item - not an array, or *)
(* an array with entries that do not pass assertTransaction - copies it to *)
(* RECOVERY_KEY and writes the valid entries back: quarantineInvalidStore, *)
(* which a Reader does outside the queue.  Storage calls are one action    *)
(* each and may throw; the process may die between any two.                *)
(***************************************************************************)
EXTENDS PendingRecords, Naturals, Sequences

CONSTANTS Writer,       \* calls of the four mutations
          Reader,       \* calls of listStoredBscTransactions
          Damage,       \* the damages the item may have at first
          MaxFaults,    \* bound: storage calls that throw
          MaxCrashes    \* bound: deaths of the process

ASSUME CallerAssumption == Writer \cap Reader = {}
ASSUME DamageAssumption == Damage \subseteq {"none", "entries", "text"}
ASSUME BoundAssumption == MaxFaults \in Nat /\ MaxCrashes \in Nat

Caller == Writer \cup Reader

\* The content of STORAGE_KEY: what of it is valid, and what else is in it.
Item == {i \in [table : Table, damage : {"none", "entries", "text"}] :
           i.damage = "text" => i.table = NoRecords}

ASSUME ItemAssumption == None \notin Record \cup Mutation \cup Item

VARIABLES
  main,      \* STORAGE_KEY
  recovery,  \* RECOVERY_KEY, or None
  queue,     \* mutationQueue: calls that are not over, the running one first
  pc,        \* where each call stands
  asked,     \* the mutation a writer was called for
  snap,      \* the item each call has read
  first,     \* history: the damaged item the app was started on, or None
  faults, crashes

stores == <<main, recovery>>
limits == <<faults, crashes>>
vars == <<stores, queue, pc, asked, snap, first, limits>>

Running == {"backUp", "repair", "write"}

Init == /\ \E i \in Item : i.damage \in Damage /\ main = i
        /\ recovery = None
        /\ queue = <<>>
        /\ pc = [c \in Caller |-> "idle"]
        /\ asked = [w \in Writer |-> None]
        /\ snap = [c \in Caller |-> None]
        /\ first = IF main.damage = "none" THEN None ELSE main
        /\ faults = 0
        /\ crashes = 0

\* A storage call throws.
Fault == /\ faults < MaxFaults
         /\ faults' = faults + 1
         /\ UNCHANGED crashes

\* The call goes on, or it is over, and makes way for the next in the queue.
Goto(c, label) == /\ pc' = [pc EXCEPT ![c] = label]
                  /\ UNCHANGED queue

\* Mutant: a call that fails does not make way.
SettleRejected(c, label) ==
  /\ pc' = [pc EXCEPT ![c] = label]
  /\ queue' = IF c \in Writer /\ label = "ok" THEN Tail(queue) ELSE queue

Settle(c, label) == /\ pc' = [pc EXCEPT ![c] = label]
                    /\ queue' = IF c \in Writer THEN Tail(queue) ELSE queue

\* mutate: the call is chained to mutationQueue.
Call(w) == /\ pc[w] = "idle"
           /\ \E m \in Mutation : asked' = [asked EXCEPT ![w] = m]
           /\ queue' = Append(queue, w)
           /\ pc' = [pc EXCEPT ![w] = "queued"]
           /\ UNCHANGED <<stores, snap, first, limits>>

\* Mutant: mutations do not wait for each other.
MayRunAtOnce(c) == pc[c] = IF c \in Writer THEN "queued" ELSE "idle"

\* A mutation may run when it is the first of the queue, a list call at once.
MayRun(c) == \/ c \in Reader /\ pc[c] = "idle"
             \/ c \in Writer /\ pc[c] = "queued" /\ Head(queue) = c

\* readAll: getItem, and the damage is noticed.
Read(c) ==
  /\ MayRun(c)
  /\ \/ /\ main.damage # "none" \/ c \in Writer
        /\ snap' = [snap EXCEPT ![c] = main]
        /\ Goto(c, IF main.damage = "none" THEN "write" ELSE "backUp")
        /\ UNCHANGED limits
     \/ main.damage = "none" /\ c \in Reader /\ Settle(c, "ok") /\ UNCHANGED <<snap, limits>>
     \/ Fault /\ Settle(c, "failed") /\ UNCHANGED snap
  /\ UNCHANGED <<stores, asked, first>>

\* Mutant: the item is read again to be copied.
BackUpAgain(c) ==
  /\ pc[c] = "backUp"
  /\ \/ recovery' = main /\ UNCHANGED limits
     \/ Fault /\ UNCHANGED recovery
  /\ Goto(c, "repair")
  /\ UNCHANGED <<main, asked, snap, first>>

\* quarantineInvalidStore: the raw item is copied, errors swallowed ...
BackUp(c) ==
  /\ pc[c] = "backUp"
  /\ \/ recovery' = snap[c] /\ UNCHANGED limits
     \/ Fault /\ UNCHANGED recovery
  /\ Goto(c, "repair")
  /\ UNCHANGED <<main, asked, snap, first>>

Drop(c) == snap' = [snap EXCEPT ![c] = None]

\* ... and what was valid when it was read is written over it.
Repair(c) ==
  /\ pc[c] = "repair"
  /\ \/ /\ main' = [table |-> snap[c].table, damage |-> "none"]
        /\ \/ c \in Writer /\ Goto(c, "write") /\ UNCHANGED snap
           \/ c \in Reader /\ Settle(c, "ok") /\ Drop(c)
        /\ UNCHANGED limits
     \/ Fault /\ Settle(c, "failed") /\ Drop(c) /\ UNCHANGED main
  /\ UNCHANGED <<recovery, asked, first>>

\* The mutation is computed from what was read, and the result is written.
Write(w) ==
  LET m == asked[w]
      table == snap[w].table IN
  /\ pc[w] = "write"
  /\ \/ /\ Rejects(m, table)
        /\ Settle(w, "failed")
        /\ UNCHANGED <<main, limits>>
     \/ /\ ~Rejects(m, table)
        /\ main' = [table |-> Applied(m, table), damage |-> "none"]
        /\ Settle(w, IF Misses(m, table) THEN "failed" ELSE "ok")
        /\ UNCHANGED limits
     \/ ~Rejects(m, table) /\ Fault /\ Settle(w, "failed") /\ UNCHANGED main
  /\ Drop(w)
  /\ UNCHANGED <<recovery, asked, first>>

\* The process dies; the app is started again on what is stored.
Crash == /\ crashes < MaxCrashes
         /\ crashes' = crashes + 1
         /\ pc' = [c \in Caller |-> IF pc[c] \in {"queued"} \cup Running THEN "failed" ELSE pc[c]]
         /\ queue' = <<>>
         /\ snap' = [c \in Caller |-> None]
         /\ UNCHANGED <<stores, asked, first, faults>>

Step(c) == Read(c) \/ BackUp(c) \/ Repair(c)

Next == \/ \E w \in Writer : Call(w) \/ Write(w)
        \/ \E c \in Caller : Step(c)
        \/ Crash

Spec == Init /\ [][Next]_vars

\* Storage calls settle and promise jobs run.
FairSpec == /\ Spec
            /\ \A c \in Caller : WF_vars(pc[c] # "idle" /\ Step(c))
            /\ \A w \in Writer : WF_vars(Write(w))
-----------------------------------------------------------------------------
\* The items hold records that pass assertTransaction, and the queue calls.
TypeOK == /\ main \in Item
          /\ recovery \in Item \cup {None}
          /\ queue \in Seq(Writer)
          /\ pc \in [Caller -> {"idle", "queued", "ok", "failed"} \cup Running]
          /\ asked \in [Writer -> Mutation \cup {None}]
          /\ snap \in [Caller -> Item \cup {None}]
          /\ first \in Item \cup {None}
          /\ faults \in 0 .. MaxFaults /\ crashes \in 0 .. MaxCrashes

\* A damaged item is only written over once its raw text is safe under
\* RECOVERY_KEY, also when several calls quarantine it at once and when the
\* process dies between the two writes; only a failed copy may cost it.
DamageIsKept == first # None /\ main # first /\ faults = 0 => recovery = first

\* Mutations never undo each other: no step loses a record or takes back what
\* was settled, seen or attached, through quarantines, failures and restarts -
\* but the one write a list call makes outside the queue, the repair of the
\* item it has read, which puts the table of that moment over a later one.
MutationsKeepRecords ==
  [][ Carries(main.table, main'.table) \/ \E r \in Reader : Repair(r) ]_vars

\* A call that fails, also inside a quarantine, does not hold up the queue.
EveryCallEnds == \A w \in Writer : pc[w] = "queued" ~> pc[w] \in {"ok", "failed"}

\* On an item that was never damaged, the queue makes mutations atomic: each
\* takes effect at one instant, or fails and changes nothing.  (What is shown
\* of a store that started damaged is constant.)
shownTable == IF first = None THEN main.table ELSE NoRecords
shownAsked == IF first = None THEN asked ELSE [w \in Writer |-> None]
shownResult == [w \in Writer |-> IF first = None /\ pc[w] \in {"ok", "failed"} THEN pc[w] ELSE "none"]
Atomic == INSTANCE AtomicStore WITH
  table <- shownTable, asked <- shownAsked, result <- shownResult
ImplementsAtomicStore == Atomic!Spec
=============================================================================
