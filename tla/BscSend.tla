------------------------------ MODULE BscSend ------------------------------
(***************************************************************************)
(* The BSC send service (integrations/mobile-bsc/send-service.ts) with its *)
(* two stores, for one account on one chain: confirmed quotes are signed,  *)
(* saved, broadcast and followed to their first confirmation; pending      *)
(* transactions are sped up or cancelled; uncertain ones are resumed.      *)
(*                                                                         *)
(* An operation (Op) is one call of executeConfirmedQuote or of            *)
(* replacePendingTransaction; check[t] is the call of checkPendingOnce for *)
(* t.  An action runs from one await to the next.  Storage calls may throw *)
(* (MaxFaults of them), RPC answers may be missing or stale, and the       *)
(* process may die between any two actions (MaxCrashes times), keeping     *)
(* only the store and the outbox.                                          *)
(*                                                                         *)
(* The nonce coordinator is taken at its word: ahead, RunExclusive and     *)
(* Enter are what NonceCoordinator is proved to implement.                 *)
(*                                                                         *)
(* Signing is deterministic, so a transaction is known by what is signed:  *)
(* two calls that sign the same fields produce the same hash.              *)
(***************************************************************************)
EXTENDS Naturals, FiniteSets, Sequences

CONSTANTS Op,                  \* calls of the two send operations
          Quote,               \* quotes a user may be shown
          Payload,             \* what is paid: asset, recipient and amount
          Order,               \* energy orders
          PayloadOf,           \* PayloadOf[q]: the payment quote q is for
          OrderOf,             \* OrderOf[q]: the energyOrderId q is executed with
          Cancel,              \* the empty self-transfer of a cancellation
          None,                \* undefined
          MaxNonce,            \* bound: largest nonce quoted
          MaximumGasPrice,     \* feeGuard.maximumGasPriceWei
          MaxQueueDepth,       \* NonceCoordinator's limit
          MaxRememberedQuotes, \* MAX_REMEMBERED_QUOTES
          BroadcastAttempts,   \* BROADCAST_ATTEMPTS
          MaxFaults,           \* bound: storage calls that throw
          MaxCrashes           \* bound: deaths of the process

ASSUME QuoteAssumption == /\ PayloadOf \in [Quote -> Payload]
                          /\ OrderOf \in [Quote -> Order \cup {None}]
ASSUME BoundAssumption == /\ {MaxNonce, MaxFaults, MaxCrashes} \subseteq Nat
                          /\ {MaximumGasPrice, MaxQueueDepth, MaxRememberedQuotes,
                              BroadcastAttempts} \subseteq Nat \ {0}

Nonce == 0 .. MaxNonce
GasPrice == 1 .. MaximumGasPrice
Tx == [payload : Payload \cup {Cancel}, nonce : Nonce, gas : GasPrice]

\* A payment moves a positive amount or has token data: prepareBnbTransfer and
\* encodeTokenTransfer refuse the rest.
ASSUME CancelAssumption == Cancel \notin Payload

\* What the stores and the calls hold.
Record == [status : {"pending", "confirmed", "failed", "replaced"},
           submission : {"submitting", "network_seen"},
           order : Order \cup {None},
           replacement : Tx \cup {None}]
Job == [kind : {"execute"}, quote : Quote]
         \cup [kind : {"speed-up", "cancel"}, original : Tx]
Terms == [nonce : Nonce, gas : GasPrice]

ASSUME NoneAssumption == None \notin Order \cup Tx \cup Record \cup Job \cup Terms

VARIABLES
  quote,      \* None, or the fields prepareQuote read
  lost,       \* quotes that died with the process that made them
  pc,         \* where each operation stands
  job,        \* what a running operation was asked to do
  tx,         \* the transaction it prepared
  tries,      \* broadcasts it attempted
  ahead,      \* the operations queued before it when it joined
  completed,  \* quotes whose result is remembered, oldest first
  consumed,   \* quotes that were signed, oldest first
  check,      \* where checkPendingOnce stands for each transaction
  stored,     \* bsc.pendingTransactions.v1
  outbox,     \* signed transactions kept by the outbox
  mempool,    \* pending on some node
  outcome,    \* "none", or how a transaction was mined
  head,       \* next nonce of the account on the chain
  sent,       \* history: transactions some node has accepted
  signatures, \* history: verified signatures made for each quote
  faults,     \* storage calls that threw so far
  crashes     \* deaths so far

quotes == <<quote, lost>>
local == <<job, tx, tries>>
caches == <<completed, consumed>>
disk == <<stored, outbox>>
network == <<mempool, outcome, head, sent>>
limits == <<faults, crashes>>
vars == <<quotes, pc, local, ahead, caches, check, disk, network, signatures, limits>>

InSection == {"prepare", "sign", "storePending", "discard", "look", "mark", "clear",
              "markReplaced", "await"}
Active == {"snapshot", "queued"} \cup InSection

Outstanding == {o \in Op : pc[o] \in {"queued"} \cup InSection}
IsExecute(o) == job[o].kind = "execute"

\* inFlight and replacements: the keys whose operation is not over.
InFlight == {job[o].quote : o \in {p \in Op : pc[p] \in Active /\ IsExecute(p)}}
Replacements == {job[o].original : o \in {p \in Op : pc[p] \in Active /\ ~IsExecute(p)}}

Init == /\ quote = [q \in Quote |-> None]
        /\ lost = {}
        /\ pc = [o \in Op |-> "idle"]
        /\ job = [o \in Op |-> None]
        /\ tx = [o \in Op |-> None]
        /\ tries = [o \in Op |-> 0]
        /\ ahead = [o \in Op |-> {}]
        /\ completed = <<>>
        /\ consumed = <<>>
        /\ check = [t \in Tx |-> "idle"]
        /\ stored = [t \in Tx |-> None]
        /\ outbox = {}
        /\ mempool = {}
        /\ outcome = [t \in Tx |-> "none"]
        /\ head = 0
        /\ sent = {}
        /\ signatures = [q \in Quote |-> 0]
        /\ faults = 0
        /\ crashes = 0
-----------------------------------------------------------------------------
(* What the network answers.                                               *)

OnNetwork(t) == t \in mempool \/ outcome[t] # "none"

\* The end of the run of pending nonces, for a node that holds all of mempool.
FullPendingNonce ==
  CHOOSE n \in head .. MaxNonce + 1 :
    /\ \A t \in mempool : t.nonce # n
    /\ \A m \in head .. n - 1 : \E t \in mempool : t.nonce = m

\* getPendingNonce: the node asked may hold only a part of it.
PendingNonces == head .. FullPendingNonce

\* A node takes any transaction whose nonce is not used up; it may also
\* refuse, or its answer may be lost, and the caller sees no difference.
Transmit(t) == \/ /\ t.nonce >= head
                  /\ mempool' = mempool \cup {t}
                  /\ sent' = sent \cup {t}
                  /\ UNCHANGED <<outcome, head>>
               \/ UNCHANGED network

\* A transaction of the account is mined, successfully or reverted; its
\* rivals with the same nonce can never be.
Mine(t) == /\ t \in mempool
           /\ t.nonce = head
           /\ head' = head + 1
           /\ mempool' = {u \in mempool : u.nonce > head}
           /\ \E r \in {"ok", "reverted"} : outcome' = [outcome EXCEPT ![t] = r]
           /\ UNCHANGED <<quotes, pc, local, ahead, caches, check, disk, sent, signatures,
                           limits>>

\* The nodes drop a pending transaction.
Evict(t) == /\ t \in mempool
            /\ mempool' = mempool \ {t}
            /\ UNCHANGED <<quotes, pc, local, ahead, caches, check, disk, outcome, head,
                           sent, signatures, limits>>
-----------------------------------------------------------------------------
(* Storage.                                                                *)

\* A storage call throws.
Fault == /\ faults < MaxFaults
         /\ faults' = faults + 1
         /\ UNCHANGED crashes

\* rememberBounded on an insertion-ordered Map or Set.
Remember(seq, q) ==
  IF \E i \in 1 .. Len(seq) : seq[i] = q THEN seq
  ELSE LET added == Append(seq, q) IN
       IF Len(added) > MaxRememberedQuotes THEN Tail(added) ELSE added

Remembered(seq) == {seq[i] : i \in 1 .. Len(seq)}

NewRecord(order) == [status |-> "pending", submission |-> "submitting",
                     order |-> order, replacement |-> None]

IsPending(t) == stored[t] # None /\ stored[t].status = "pending"

\* storePendingBscTransaction finds a record it cannot share.  All other
\* fields it compares are fixed by the hash.
Conflicts(t, order) == /\ stored[t] # None
                       /\ \/ stored[t].order # order
                          \/ stored[t].submission # "submitting"

\* markStoredBscTransactionNetworkSeen; throws unless IsPending.
MarkSeen(t) == stored' = [stored EXCEPT ![t].submission = "network_seen"]

\* Mutant: final records may change.
MayAlwaysBecome(t, status) == stored[t] # None

\* updateStoredBscTransaction; throws unless MayBecome.
MayBecome(t, status) == stored[t] # None /\ stored[t].status \in {"pending", status}
Update(t, status) == stored' = [stored EXCEPT ![t].status = status]
(* What is decided before an operation is queued.  Time is not modelled:    *)
(* wherever validateQuote is called the quote may be found expired.        *)

\* prepareQuote: nonce and gas price as the network answers them now.
PrepareQuote(q) ==
  /\ quote[q] = None
  /\ \E n \in PendingNonces \cap Nonce, g \in GasPrice :
       quote' = [quote EXCEPT ![q] = [nonce |-> n, gas |-> g]]
  /\ UNCHANGED <<lost, pc, local, ahead, caches, check, disk, network, signatures, limits>>

\* The operation goes on at its next await.
Goto(o, label) == pc' = [pc EXCEPT ![o] = label] /\ UNCHANGED local

\* The operation returns or throws, and its locals are gone.
Leave(o) == /\ pc' = [pc EXCEPT ![o] = "done"]
            /\ job' = [job EXCEPT ![o] = None]
            /\ tx' = [tx EXCEPT ![o] = None]
            /\ tries' = [tries EXCEPT ![o] = 0]

\* A call that never enters the queue: it shares another call's result or
\* throws ("shared"), or the queue is full ("refused").
TurnAway(o, how) == /\ pc' = [pc EXCEPT ![o] = how]
                    /\ job' = [job EXCEPT ![o] = None]
                    /\ UNCHANGED <<tx, tries, ahead>>

\* runExclusive, as ExclusiveSection has it: the call is queued behind those
\* outstanding, or NONCE_QUEUE_FULL is thrown.
RunExclusive(o, task) ==
  IF Cardinality(Outstanding) < MaxQueueDepth
    THEN /\ pc' = [pc EXCEPT ![o] = "queued"]
         /\ job' = [job EXCEPT ![o] = task]
         /\ ahead' = [ahead EXCEPT ![o] = Outstanding]
         /\ UNCHANGED <<tx, tries>>
    ELSE TurnAway(o, "refused")

\* Mutant: the consumed set is not asked.
BeginExecuteAgain(o, q) ==
  /\ pc[o] = "idle"
  /\ quote[q] # None /\ q \notin lost
  /\ IF q \in Remembered(completed) \cup InFlight
       THEN TurnAway(o, "shared")
       ELSE RunExclusive(o, [kind |-> "execute", quote |-> q])
  /\ UNCHANGED <<quotes, caches, check, disk, network, signatures, limits>>

\* executeConfirmedQuote: a finished or running send of the same quote is
\* shared, a quote that was signed before is refused.
BeginExecute(o, q) ==
  /\ pc[o] = "idle"
  /\ quote[q] # None /\ q \notin lost
  /\ IF q \in Remembered(completed) \cup InFlight \cup Remembered(consumed)
       THEN TurnAway(o, "shared")
       ELSE RunExclusive(o, [kind |-> "execute", quote |-> q])
  /\ UNCHANGED <<quotes, caches, check, disk, network, signatures, limits>>

\* replacePendingTransaction up to its first await: one replacement of a
\* hash at a time, whatever its mode.
BeginReplace(o, t, mode) ==
  /\ pc[o] = "idle"
  /\ stored[t] # None
  /\ IF t \in Replacements
       THEN TurnAway(o, "shared")
       ELSE /\ pc' = [pc EXCEPT ![o] = "snapshot"]
            /\ job' = [job EXCEPT ![o] = [kind |-> mode, original |-> t]]
            /\ UNCHANGED <<tx, tries, ahead>>
  /\ UNCHANGED <<quotes, caches, check, disk, network, signatures, limits>>

\* Another record of the same nonce is pending too.
HasRival(t) == \E u \in Tx \ {t} : u.nonce = t.nonce /\ IsPending(u)

\* The list is read and judged, once, before the operation is queued.
ReadOriginal(o) ==
  /\ pc[o] = "snapshot"
  /\ IsPending(job[o].original)
  /\ ~HasRival(job[o].original)
  /\ RunExclusive(o, job[o])
  /\ UNCHANGED <<quotes, caches, check, disk, network, signatures, limits>>

\* It is not pending, has a rival, or the list cannot be read: a throw.
RefuseOriginal(o) ==
  /\ pc[o] = "snapshot"
  /\ TurnAway(o, "shared")
  /\ UNCHANGED <<quotes, caches, check, disk, network, signatures, limits>>
-----------------------------------------------------------------------------
(* Inside the section, up to the records.                                  *)

\* The coordinator calls the operation when those it was queued behind are over.
Enter(o) ==
  /\ pc[o] = "queued"
  /\ \A p \in ahead[o] : p \notin Outstanding
  /\ Goto(o, "prepare")
  /\ UNCHANGED <<quotes, ahead, caches, check, disk, network, signatures, limits>>

\* Any throw before the quote is consumed: it has expired, an RPC request
\* fails, nonce, fee or balance do not fit, the signer refuses, or what it
\* signed does not verify.  Bytes signed by then are dropped, and the quote may
\* be confirmed again.
Throw(o) ==
  /\ pc[o] \in {"prepare", "sign"}
  /\ Leave(o)
  /\ UNCHANGED <<quotes, ahead, caches, check, disk, network, signatures, limits>>

Prepare(o, t) ==
  /\ tx' = [tx EXCEPT ![o] = t]
  /\ pc' = [pc EXCEPT ![o] = "sign"]
  /\ UNCHANGED <<quotes, job, tries, ahead, caches, check, disk, network, signatures, limits>>

\* The pending nonce must be the quoted one, the fee no higher than quoted.
PrepareSend(o) ==
  /\ pc[o] = "prepare" /\ IsExecute(o)
  /\ LET q == job[o].quote IN
       /\ quote[q].nonce \in PendingNonces
       /\ \E g \in 1 .. quote[q].gas :
            Prepare(o, [payload |-> PayloadOf[q], nonce |-> quote[q].nonce, gas |-> g])

CeilDivide(value, divisor) == (value + divisor - 1) \div divisor
Bumped(gas) == CeilDivide(gas * 12000, 10000)

\* The original's price is raised by a fifth, or to the network's price if
\* that is more; the original is not looked at again.
PrepareReplacement(o) ==
  /\ pc[o] = "prepare" /\ ~IsExecute(o)
  /\ LET t == job[o].original IN
     \E networkGas \in GasPrice :
       LET gas == IF networkGas > Bumped(t.gas) THEN networkGas ELSE Bumped(t.gas) IN
         /\ gas <= MaximumGasPrice
         /\ Prepare(o, [payload |-> IF job[o].kind = "cancel" THEN Cancel ELSE t.payload,
                        nonce |-> t.nonce, gas |-> gas])

\* The signature verifies, an executed quote is consumed from now on, and
\* storeSignedBscTransaction keeps the bytes or throws.
Sign(o) ==
  /\ pc[o] = "sign"
  /\ IF IsExecute(o)
       THEN /\ consumed' = Remember(consumed, job[o].quote)
            /\ signatures' = [signatures EXCEPT ![job[o].quote] = @ + 1]
       ELSE UNCHANGED <<consumed, signatures>>
  /\ \/ outbox' = outbox \cup {tx[o]} /\ Goto(o, "storePending") /\ UNCHANGED limits
     \/ Fault /\ Leave(o) /\ UNCHANGED outbox
  /\ UNCHANGED <<quotes, ahead, completed, check, stored, network>>

\* Mutant: a replacement belongs to no energy order.
OrderForQuoteOnly(o) == IF IsExecute(o) THEN OrderOf[job[o].quote] ELSE None

\* A speed-up keeps the energy order of the original, a cancellation has none.
OrderFor(o) == CASE IsExecute(o) -> OrderOf[job[o].quote]
                 [] job[o].kind = "speed-up" -> stored[job[o].original].order
                 [] job[o].kind = "cancel" -> None

\* Mutant: a failed write does not stop the send.
StorePendingOrNot(o) ==
  LET t == tx[o] IN
  /\ pc[o] = "storePending"
  /\ \/ /\ stored[t] = None
        /\ stored' = [stored EXCEPT ![t] = NewRecord(OrderFor(o))]
        /\ UNCHANGED limits
     \/ Fault /\ UNCHANGED stored
  /\ Goto(o, "look")
  /\ UNCHANGED <<quotes, ahead, caches, check, outbox, network, signatures>>

\* Mutant: a record with the same hash is written over.
StorePendingOver(o) ==
  /\ pc[o] = "storePending"
  /\ stored' = [stored EXCEPT ![tx[o]] = NewRecord(OrderFor(o))]
  /\ Goto(o, "look")
  /\ UNCHANGED <<quotes, ahead, caches, check, outbox, network, signatures, limits>>

\* storePendingBscTransaction: a new record, the equal one that is there
\* already, or a throw (hash conflict, storage).
StorePending(o) ==
  LET t == tx[o] IN
  /\ pc[o] = "storePending"
  /\ \/ /\ stored[t] = None
        /\ stored' = [stored EXCEPT ![t] = NewRecord(OrderFor(o))]
        /\ Goto(o, "look") /\ UNCHANGED limits
     \/ /\ stored[t] # None /\ ~Conflicts(t, OrderFor(o))
        /\ Goto(o, "look") /\ UNCHANGED <<stored, limits>>
     \/ /\ Conflicts(t, OrderFor(o))
        /\ Goto(o, "discard") /\ UNCHANGED <<stored, limits>>
     \/ Fault /\ Goto(o, "discard") /\ UNCHANGED stored
  /\ UNCHANGED <<quotes, ahead, caches, check, outbox, network, signatures>>

\* deleteSignedBscTransaction, its errors swallowed.
DeleteSigned(t) == \/ outbox' = outbox \ {t} /\ UNCHANGED limits
                   \/ Fault /\ UNCHANGED outbox

\* The catch of storePending: the bytes under this hash are deleted from the
\* outbox and the call throws.
Discard(o) ==
  /\ pc[o] = "discard"
  /\ DeleteSigned(tx[o])
  /\ Leave(o)
  /\ UNCHANGED <<quotes, ahead, caches, check, stored, network, signatures>>
-----------------------------------------------------------------------------
(* Inside the section, from the broadcast to the result.                   *)

\* The operation returns; what an executed quote returned is remembered.
Return(o) == /\ completed' = IF IsExecute(o) THEN Remember(completed, job[o].quote)
                             ELSE completed
             /\ Leave(o)

\* broadcastUntilVisible: some node shows the transaction ...
LookFound(o) ==
  /\ pc[o] = "look"
  /\ OnNetwork(tx[o])
  /\ Goto(o, "mark")
  /\ UNCHANGED <<quotes, ahead, caches, check, disk, network, signatures, limits>>

\* Mutant: attempts are not counted.
SubmitForever(o) ==
  /\ pc[o] = "look"
  /\ tries[o] < BroadcastAttempts
  /\ Transmit(tx[o])
  /\ UNCHANGED <<quotes, pc, local, ahead, caches, check, disk, signatures, limits>>

\* ... or none does, which proves nothing: it is broadcast once more ...
Submit(o) ==
  /\ pc[o] = "look"
  /\ tries[o] < BroadcastAttempts
  /\ Transmit(tx[o])
  /\ tries' = [tries EXCEPT ![o] = @ + 1]
  /\ UNCHANGED <<quotes, pc, job, tx, ahead, caches, check, disk, signatures, limits>>

\* Mutant: giving up also clears the outbox.
GiveUpAndForget(o) ==
  /\ pc[o] = "look"
  /\ tries[o] = BroadcastAttempts
  /\ outbox' = outbox \ {tx[o]}
  /\ Return(o)
  /\ UNCHANGED <<quotes, ahead, consumed, check, stored, network, signatures, limits>>

\* ... or the outcome stays unknown.  A send remembers its record as the
\* result of the quote, a replacement throws; record and outbox stay.
GiveUp(o) ==
  /\ pc[o] = "look"
  /\ tries[o] = BroadcastAttempts
  /\ Return(o)
  /\ UNCHANGED <<quotes, ahead, consumed, check, disk, network, signatures, limits>>

\* markStoredBscTransactionNetworkSeen: throws when the record is not pending
\* any more (bsc_transaction_not_found) or the store cannot be written.
Mark(o) ==
  /\ pc[o] = "mark"
  /\ \/ IsPending(tx[o]) /\ MarkSeen(tx[o]) /\ Goto(o, "clear") /\ UNCHANGED limits
     \/ ~IsPending(tx[o]) /\ Leave(o) /\ UNCHANGED <<stored, limits>>
     \/ Fault /\ Leave(o) /\ UNCHANGED stored
  /\ UNCHANGED <<quotes, ahead, caches, check, outbox, network, signatures>>

Clear(o) ==
  /\ pc[o] = "clear"
  /\ DeleteSigned(tx[o])
  /\ Goto(o, IF IsExecute(o) THEN "await" ELSE "markReplaced")
  /\ UNCHANGED <<quotes, ahead, caches, check, stored, network, signatures>>

\* The original becomes "replaced" unless it is final by now; errors swallowed.
MarkReplaced(o) ==
  LET t == job[o].original IN
  /\ pc[o] = "markReplaced"
  /\ \/ /\ MayBecome(t, "replaced")
        /\ stored' = [stored EXCEPT ![t].status = "replaced", ![t].replacement = tx[o]]
        /\ UNCHANGED limits
     \/ ~MayBecome(t, "replaced") /\ UNCHANGED <<stored, limits>>
     \/ Fault /\ UNCHANGED stored
  /\ Goto(o, "await")
  /\ UNCHANGED <<quotes, ahead, caches, check, outbox, network, signatures>>

\* updateStoredBscTransaction, with its two ways to throw.
TryUpdate(t, status) ==
  \/ MayBecome(t, status) /\ Update(t, status) /\ UNCHANGED limits
  \/ ~MayBecome(t, status) /\ UNCHANGED <<stored, limits>>
  \/ Fault /\ UNCHANGED stored

\* waitForFirstConfirmation: a receipt with status 1; a record that cannot
\* be updated is returned as it was.
AwaitConfirmed(o) ==
  /\ pc[o] = "await"
  /\ outcome[tx[o]] = "ok"
  /\ TryUpdate(tx[o], "confirmed")
  /\ Return(o)
  /\ UNCHANGED <<quotes, ahead, consumed, check, outbox, network, signatures>>

\* TRANSACTION_REVERTED: the record fails and the call throws.
AwaitReverted(o) ==
  /\ pc[o] = "await"
  /\ outcome[tx[o]] = "reverted"
  /\ TryUpdate(tx[o], "failed")
  /\ Leave(o)
  /\ UNCHANGED <<quotes, ahead, caches, check, outbox, network, signatures>>

\* No receipt in time.
AwaitTimeout(o) ==
  /\ pc[o] = "await"
  /\ Return(o)
  /\ UNCHANGED <<quotes, ahead, consumed, check, disk, network, signatures, limits>>
-----------------------------------------------------------------------------
(* resumePending: checkPendingOnce, at most one at a time for a hash.      *)

CheckGoto(t, label) == /\ check' = [check EXCEPT ![t] = label]
                       /\ UNCHANGED <<quotes, pc, local, ahead, caches, signatures>>

\* Mutant: records the network has seen are not followed.
StartCheckUncertain(t) ==
  /\ check[t] = "idle"
  /\ IsPending(t) /\ stored[t].submission = "submitting"
  /\ CheckGoto(t, "look")
  /\ UNCHANGED <<disk, network, limits>>

\* The listed record decides whether the network is asked for the
\* transaction or only for its receipt.
StartCheck(t) ==
  /\ check[t] = "idle"
  /\ IsPending(t)
  /\ CheckGoto(t, IF stored[t].submission = "submitting" THEN "look" ELSE "receipt")
  /\ UNCHANGED <<disk, network, limits>>

CheckFound(t) ==
  /\ check[t] \in {"look", "relook"}
  /\ OnNetwork(t)
  /\ CheckGoto(t, "mark")
  /\ UNCHANGED <<disk, network, limits>>

\* Mutant: the outbox is not consulted.
CheckLoadNothing(t) ==
  /\ check[t] = "look"
  /\ CheckGoto(t, "idle")
  /\ UNCHANGED <<disk, network, limits>>

\* Not shown by any node: loadSignedBscTransaction.  Without the signed bytes
\* nothing can be done.
CheckLoad(t) ==
  /\ check[t] = "look"
  /\ \/ CheckGoto(t, IF t \in outbox THEN "submit" ELSE "idle") /\ UNCHANGED limits
     \/ Fault /\ CheckGoto(t, "idle")
  /\ UNCHANGED <<disk, network>>

CheckSubmit(t) ==
  /\ check[t] = "submit"
  /\ Transmit(t)
  /\ CheckGoto(t, "relook")
  /\ UNCHANGED <<disk, limits>>

CheckMissing(t) ==
  /\ check[t] = "relook"
  /\ CheckGoto(t, "idle")
  /\ UNCHANGED <<disk, network, limits>>

CheckMark(t) ==
  /\ check[t] = "mark"
  /\ \/ IsPending(t) /\ MarkSeen(t) /\ CheckGoto(t, "clear") /\ UNCHANGED limits
     \/ ~IsPending(t) /\ CheckGoto(t, "idle") /\ UNCHANGED <<stored, limits>>
     \/ Fault /\ CheckGoto(t, "idle") /\ UNCHANGED stored
  /\ UNCHANGED <<outbox, network>>

CheckClear(t) ==
  /\ check[t] = "clear"
  /\ DeleteSigned(t)
  /\ CheckGoto(t, "receipt")
  /\ UNCHANGED <<stored, network>>

\* Mutant: a missing receipt counts as a reverted transaction.
CheckReceiptHasty(t) ==
  /\ check[t] = "receipt"
  /\ \/ outcome[t] = "ok" /\ TryUpdate(t, "confirmed")
     \/ outcome[t] # "ok" /\ TryUpdate(t, "failed")
  /\ CheckGoto(t, "idle")
  /\ UNCHANGED <<outbox, network>>

\* updateFromFirstReceipt: every error leaves the record for a later pass.
CheckReceipt(t) ==
  /\ check[t] = "receipt"
  /\ \/ outcome[t] = "ok" /\ TryUpdate(t, "confirmed")
     \/ outcome[t] = "reverted" /\ TryUpdate(t, "failed")
     \/ UNCHANGED <<stored, limits>>
  /\ CheckGoto(t, "idle")
  /\ UNCHANGED <<outbox, network>>
-----------------------------------------------------------------------------
\* The process dies and the app is started again: only what is stored is left.
Crash ==
  /\ crashes < MaxCrashes
  /\ crashes' = crashes + 1
  /\ pc' = [o \in Op |-> CASE pc[o] = "snapshot" -> "shared"
                           [] o \in Outstanding -> "done"
                           [] OTHER -> pc[o]]
  /\ job' = [o \in Op |-> None]
  /\ tx' = [o \in Op |-> None]
  /\ tries' = [o \in Op |-> 0]
  /\ lost' = {q \in Quote : quote[q] # None}
  /\ completed' = <<>>
  /\ consumed' = <<>>
  /\ check' = [t \in Tx |-> "idle"]
  /\ UNCHANGED <<quote, ahead, disk, network, signatures, faults>>

SendStep(o) ==
  \/ Enter(o) \/ PrepareSend(o) \/ PrepareReplacement(o) \/ Throw(o) \/ Sign(o)
  \/ StorePending(o) \/ Discard(o) \/ LookFound(o) \/ Submit(o) \/ GiveUp(o)
  \/ Mark(o) \/ Clear(o) \/ MarkReplaced(o)
  \/ AwaitConfirmed(o) \/ AwaitReverted(o) \/ AwaitTimeout(o)

CheckStep(t) ==
  \/ StartCheck(t) \/ CheckFound(t) \/ CheckLoad(t) \/ CheckSubmit(t) \/ CheckMissing(t)
  \/ CheckMark(t) \/ CheckClear(t) \/ CheckReceipt(t)

Next ==
  \/ \E q \in Quote : PrepareQuote(q)
  \/ \E o \in Op : \/ \E q \in Quote : BeginExecute(o, q)
                   \/ \E t \in Tx, mode \in {"speed-up", "cancel"} : BeginReplace(o, t, mode)
                   \/ ReadOriginal(o) \/ RefuseOriginal(o)
                   \/ SendStep(o)
  \/ \E t \in Tx : Mine(t) \/ Evict(t) \/ CheckStep(t)
  \/ Crash

Spec == Init /\ [][Next]_vars

\* Calls go on as long as they can: every await of the code is bounded by a
\* time limit or a number of attempts, and the signer answers.
FairSends ==
  /\ Spec
  /\ \A o \in Op : WF_vars(ReadOriginal(o) \/ RefuseOriginal(o) \/ SendStep(o))

\* The app is resumed again and again, and the network is not lost for good:
\* when it is asked or given something time after time, then it answers, or
\* takes something, in the end.
FairResume ==
  /\ FairSends
  /\ \A t \in Tx : WF_vars(CheckStep(t))
  /\ SF_vars(\E t \in Tx : CheckFound(t) \/ (CheckReceipt(t) /\ ~IsPending(t)'))
  /\ SF_vars(\E t \in Tx : CheckSubmit(t) /\ t \in mempool')
-----------------------------------------------------------------------------
QuoteTypes == /\ quote \in [Quote -> Terms \cup {None}]
              /\ lost \subseteq Quote
              /\ completed \in Seq(Quote) /\ consumed \in Seq(Quote)
              /\ signatures \in [Quote -> Nat]
CallTypes == /\ pc \in [Op -> Active \cup {"idle", "shared", "refused", "done"}]
             /\ job \in [Op -> Job \cup {None}]
             /\ tx \in [Op -> Tx \cup {None}]
             /\ tries \in [Op -> 0 .. BroadcastAttempts]
             /\ ahead \in [Op -> SUBSET Op]
CheckTypes == check \in [Tx -> {"idle", "look", "submit", "relook", "mark", "clear", "receipt"}]
DiskTypes == /\ stored \in [Tx -> Record \cup {None}]
             /\ outbox \subseteq Tx
NetworkTypes == /\ mempool \subseteq Tx /\ sent \subseteq Tx
                /\ outcome \in [Tx -> {"none", "ok", "reverted"}]
                /\ head \in 0 .. MaxNonce + 1
LimitTypes == faults \in 0 .. MaxFaults /\ crashes \in 0 .. MaxCrashes

\* The calls, stores and network hold what the code and the nodes can put there.
TypeOK == /\ QuoteTypes
          /\ CallTypes
          /\ CheckTypes
          /\ DiskTypes
          /\ NetworkTypes
          /\ LimitTypes

\* Nothing the network ever took is unknown to the wallet: records are
\* written before the first broadcast, survive every failure and restart, and
\* a call that broadcasts late never outruns its record.
RecordedBeforeBroadcast == \A t \in sent : stored[t] # None

Submitting(t) == IsPending(t) /\ stored[t].submission = "submitting"

\* An uncertain submission can be resumed: as long as no node was seen to hold
\* it, its signed bytes are in the outbox, whatever failed or died in between.
SubmittingIsRecoverable == \A t \in Tx : Submitting(t) => t \in outbox

\* However often and however concurrently a quote is confirmed, it is signed
\* once: completed, inFlight and consumed leave no gap, at the cost of
\* refusing a quote whose signature was never used.  (A signature that did not
\* verify is dropped and does not count.)
QuoteSignedOnce == \A q \in Quote : signatures[q] <= 1

\* What a final record says of the chain is true of the chain.
SettledTruthfully ==
  \A t \in Tx : stored[t] # None =>
    /\ stored[t].status = "confirmed" => outcome[t] = "ok"
    /\ stored[t].status = "failed" => outcome[t] = "reverted"

\* The energy order a transaction pays is fixed when it is first recorded,
\* whoever signs the same bytes again.
OrderLinkIsStable ==
  [][\A t \in Tx : stored[t] # None => stored'[t].order = stored[t].order]_vars

\* Every call returns or throws, whatever the network answers, and with it the
\* section is left: there is always a later state in which no call runs.
CallsSettle == []<> \A o \in Op : pc[o] \notin Active

\* A submission whose fate was unknown does not stay so: resuming brings it to
\* the network or finds it there, unless another transaction took its nonce.
UncertaintyEnds == []<> \A t \in Tx : ~Submitting(t) \/ head > t.nonce

\* A mined transaction is eventually reported for what it is, also when the
\* call that sent it died or lost interest - but not one whose record is marked
\* "replaced" (send-service.ts:335), before it was mined or before anyone saw
\* that it was: such a record is never looked at again, and all it ever shows is
\* the replacement, which the network was sent too.
FinalAsMined(t) == stored[t].status = IF outcome[t] = "ok" THEN "confirmed" ELSE "failed"
MinedIsReported ==
  []<> \A t \in Tx : outcome[t] # "none" =>
         \/ FinalAsMined(t)
         \/ stored[t].status = "replaced" /\ stored[t].replacement \in sent

\* Whoever follows a payment from its "replaced" record finds a later one of
\* the same nonce that outbids it, that the network has taken and that is marked
\* so: the cancellation, or the same payment for the same energy order.  No
\* failure, restart or rival call leaves a record replaced by nothing, or an
\* order whose payment has lost its link.
NetworkSeen(t) == stored[t] # None /\ stored[t].submission = "network_seen"
Succeeds(r, t) == /\ r.nonce = t.nonce /\ r.gas >= Bumped(t.gas)
                  /\ NetworkSeen(r)
                  /\ \/ r.payload = Cancel
                     \/ r.payload = t.payload /\ stored[r].order = stored[t].order
ReplacedHasSuccessor ==
  \A t \in Tx : stored[t] # None /\ stored[t].status = "replaced" =>
    \E r \in Tx : stored[t].replacement = r /\ Succeeds(r, t)

\* The service keeps the promise made to its user.
Lifecycle == INSTANCE SendLifecycle WITH
  NonceOf <- [t \in Tx |-> t.nonce],
  life <- [t \in Tx |-> CASE stored[t] = None -> "none"
                          [] IsPending(t) -> stored[t].submission
                          [] OTHER -> stored[t].status]
ImplementsLifecycle == Lifecycle!Spec
=============================================================================
