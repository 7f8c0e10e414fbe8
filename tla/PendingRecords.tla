--------------------------- MODULE PendingRecords ---------------------------
(***************************************************************************)
(* The table of pending transactions (pending-transactions.ts) as a value: *)
(* its records, and what the four mutations do to it.  A mutation is given *)
(* the whole table and returns the whole table, throws, or - when it finds *)
(* nothing to change - returns the table as it was and throws only after   *)
(* that has been written.                                                  *)
(***************************************************************************)
CONSTANTS Hash,    \* transaction hashes
          Order,   \* energy orders
          Settled, \* BscTransactionStatus but pending; only confirmed is special here
          None     \* undefined

ASSUME NoneAssumption == None \notin Order
ASSUME SettledAssumption == Settled \subseteq {"confirmed", "failed", "dropped", "replaced"}

Fields == [status : {"pending"} \cup Settled,
           seen : BOOLEAN,                \* submissionState is network_seen
           order : Order \cup {None},     \* energyOrderId
           attached : BOOLEAN]            \* energyPaymentAttachedAt is set

\* assertTransaction: only the confirmed payment of an order is attached.
Record == {r \in Fields : r.attached => r.status = "confirmed" /\ r.order # None}

Table == [Hash -> Record \cup {None}]

NoRecords == [h \in Hash |-> None]

\* The calls: storePendingBscTransaction, markStoredBscTransactionNetworkSeen,
\* updateStoredBscTransaction and markStoredBscEnergyPaymentAttached.
Mutation == [kind : {"store"}, hash : Hash, order : Order \cup {None}]
              \cup [kind : {"seen", "attach"}, hash : Hash]
              \cup [kind : {"update"}, hash : Hash, status : Settled]

\* The record, if any, that the mutation is about.
Existing(m, table) == table[m.hash]

\* The mutation throws and nothing is written.
Rejects(m, table) ==
  LET r == Existing(m, table) IN
  /\ r # None
  /\ CASE m.kind = "store" -> r.seen \/ r.order # m.order
       [] m.kind = "seen" -> FALSE
       [] m.kind = "update" -> r.status \notin {"pending", m.status}
       [] m.kind = "attach" -> r.status # "confirmed" \/ r.order = None

\* No record to change: the table is written back and the call throws.
Misses(m, table) ==
  LET r == Existing(m, table) IN
  CASE m.kind = "store" -> FALSE
    [] m.kind = "seen" -> r = None \/ r.status # "pending"
    [] OTHER -> r = None

\* The record a mutation leaves when it neither rejects nor misses.
Outcome(m, table) ==
  LET r == Existing(m, table) IN
  CASE m.kind = "store" ->
         IF r # None THEN r
         ELSE [status |-> "pending", seen |-> FALSE, order |-> m.order, attached |-> FALSE]
    [] m.kind = "seen" -> [r EXCEPT !.seen = TRUE]
    [] m.kind = "update" -> [r EXCEPT !.status = m.status]
    [] m.kind = "attach" -> [r EXCEPT !.attached = TRUE]

Succeeds(m, table) == ~Rejects(m, table) /\ ~Misses(m, table)

\* What is written.
Applied(m, table) == IF Misses(m, table) THEN table
                     ELSE [table EXCEPT ![m.hash] = Outcome(m, table)]

\* A later state of a record: what is settled, seen or attached stays so.
Advances(old, new) == /\ new.order = old.order
                      /\ old.status \in {"pending", new.status}
                      /\ old.seen => new.seen
                      /\ old.attached => new.attached

\* A later state of a table: no record is missing from it or taken back.
Carries(old, new) ==
  \A h \in Hash : old[h] # None => new[h] # None /\ Advances(old[h], new[h])
=============================================================================
