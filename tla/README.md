# Formal models of the TRONOXA security core

This directory holds TLA+ models of the parts of the repository in which money or
secrets can be lost by an unlucky order of events: sending and resuming BSC
transactions, remembering them, attaching energy payments to their orders, talking to
several RPC nodes, bootstrapping the encrypted wallet vault, signing TRON payments alone
and together, and the app lock. TLC checks the models on
small instances; TLAPS proves the facts that matter most for instances of any size.
Line numbers are those of the commit this directory belongs to; `PROJECT.json` maps every
definition to its lines.

## 1. Inventory

| Component | State | Operations | Interacts with |
|---|---|---|---|
| Nonce coordinator (`bsc-core/.../nonce-coordinator.js`) | `#tails`, `#depth` by account | `runExclusive` | every send and replacement runs in it |
| Send service (`mobile-bsc/send-service.ts`) | `inFlight`, `completed`, `consumed`, `replacements`, `checks` | `prepareQuote`, `executeConfirmedQuote`, `replacePendingTransaction`, `resumePending` | coordinator, signer, RPC client, both stores |
| Signed-transaction outbox (`signed-transaction-outbox.ts`) | one SecureStore item per transaction | store, load, delete | send service |
| Pending-transaction store (`pending-transactions.ts`) | one AsyncStorage item, a recovery item, `mutationQueue` | list and four mutations | send service, energy recovery, the wallet's screens |
| Energy payment recovery (`energy-payment-recovery.ts`) | `reconciliationInFlight` | `reconcileStoredBscEnergyPayments` | store, backend |
| RPC client (`bsc-core/.../client.js`) | none between calls | `request`, `broadcastSignedTransaction`, `waitForTransactionReceipt` | nodes that are not trusted |
| Wallet vault (`src/wallet/storage.ts`, `vault-codec.ts`) | two AsyncStorage items, a reinstall flag, one Keychain key, legacy Keychain entries, `currentVault`, `initializationPromise`, `mutationQueue` | initialization in six modes, mutations, readers | every use of a secret |
| App lock (`src/security/app-security.ts`) | PIN record, attempt counter with its lock | set, verify, change, clear | the screens |
| TRON signing (`src/signing/`) | none between calls; the app keeps what `onSigned` is given | `sendTrxPayment`, `sendTrc20Transfer` | TRON nodes, other signers' devices |
| Transaction validation, permissions (`src/security/transaction-validation.ts`, `src/permissions/`) | none | checks of imported envelopes and drafted permissions, the operations codec | TRON signing |
| Home asset cache, address provisioner, signer session, history, relay transport (`mobile-bsc/`) | memory and disk caches; none | see `PROJECT.json` | vault, nodes |

What makes them hard, and what each must get right:

* **Nonce coordinator.** Calls interleave at every await. At most one operation per
  account, in order; the two Maps may neither leak nor miscount; a call that throws
  releases the next.
* **Send service.** Between signature, outbox write, record write, broadcast, mark and
  receipt there is an await at which another call runs, the process dies, a storage call
  throws or the network keeps silent. Nothing unrecorded is broadcast; what is uncertain
  keeps its bytes; a quote is signed once; a final record tells the truth; uncertainty
  ends; calls end.
* **Pending-transaction store.** A mutation is a read and a write with awaits between
  them; list calls repair a damaged item without queueing.
* **Energy recovery.** A request may be lost, arrive late, lose its answer, or be answered with an
  order that names no payment; otherwise a payment is marked only if the backend holds it, and every
  payment that can be is attached.
* **RPC client.** Four nested loops, each with its own limit and exit, over nodes that
  fail, lag, evict, and serve another chain.
* **Wallet vault.** Two stores that cannot be written together, one of which survives
  uninstallation. Ciphertext and key must always fit, and old wallets are kept until
  they are in the vault.
* **App lock.** An attempt is judged first and counted by a later write; an upgrade of the
  record goes on unawaited. No wrong answer goes uncounted, locks come when announced and end, and
  the stored PIN is one the user knows of.
* **TRON signing.** A call may die or lose its answer after the node took the payment; a
  payment must not be made twice, and must be saved before it leaves. Envelopes come over a
  clipboard from anywhere: what a signer is shown is what his signature is about, and no update may
  lock an account out.

`PROJECT.json` lists the hazards one by one at the line where they bite, with the
properties that cover them or the reason why none does yet.

## 2. Modules

    ExclusiveSection   <-- NonceCoordinator  <-- NonceCoordinator_proofs
          ^------------------+
    SendLifecycle      <-- BscSend           <-- BscSend_proofs
    AtomicStore        <-- PendingStore      <-- PendingStore_proofs
    PendingRecords  (extended by AtomicStore and PendingStore)
                           EnergyRecovery    <-- EnergyRecovery_proofs
                           RpcClient         <-- RpcClient_proofs
                           WalletVault       <-- WalletVault_proofs
    TronAccounts       <-- TronSigning       <-- TronSigning_proofs
                           AppLock           <-- AppLock_proofs
    MC_*               instances for TLC

Three modules say what a component promises and nothing of how: `ExclusiveSection` (a
bounded first-come-first-served section per lane), `SendLifecycle` (what a wallet's user
may believe of every transaction), `AtomicStore` (mutations take effect at one instant).
The detailed modules are shown to implement them by the refinement mappings at their ends:
`NonceCoordinator` implements `ExclusiveSection`, `BscSend` implements
`SendLifecycle`, `PendingStore` implements `AtomicStore`.

An action runs from one await to the next, because that is what JavaScript does
atomically. `pc` names the await at which a call stands. A definition marked `Mutant:` is
a plausible bug; it is used by no specification and serves to show that a property
notices it.

### NonceCoordinator
`tails` and `depth` are the two Maps; `previous[c]` is the tail promise that call `c` awaits,
`released` the calls whose own promise has been resolved, `settled` the tail promises that
have followed. `Join` is `runExclusive` up to
its await, `Refuse` its `NONCE_QUEUE_FULL`, `Enter` the step after `previous`, `Finish` the
operation's end with the `finally` block, `SettleTail` the microtask in which a tail
promise follows. The Maps' key is the lower-cased address; several spellings are in the
instance.

### BscSend
One account on one chain. A transaction is `[payload, nonce, gas]`: signing is
deterministic (RFC 6979), so equal fields give equal hashes, which is what makes repeated
executions meet in the same record. `stored` and `outbox` are the two stores,
`completed`, `consumed`, `InFlight`, `Replacements`, `check` the service's Maps;
`inFlight` and `replacements` need no variables because they are determined by the calls
that are not over. The coordinator is taken at its word: `ahead[o]` is who must finish before `o`
is entered, which is what `ExclusiveSection` promises and `NonceCoordinator` is proved to keep; nothing about
exclusion is shown here once more. The records are those of `pending-transactions.ts`, whose
mutations are one action here; `PendingStore` justifies that.

The network holds pending transactions in `mempool`; it mines, reverts and evicts them,
takes a transaction with or without the caller learning of it (`Transmit`), and answers
lookups and nonces from nodes that hold only a part of it. Signing, the note in `consumed` and the outbox write
are one action (nothing is visible between them; a call that throws between the signature and the
note is one that throws before it, `Throw`, with a signature nobody keeps), as are a negative answer and the step
after it. Time is not modelled: a quote may expire, and a wait may end, at any moment.

Abstracted: amounts and balances (any check may throw, `Throw`), the price rule of nodes
for replacements, several accounts, foreign transactions of the same account, nodes that
lag behind the chain's nonce, records of old versions without gas fields, and answers with
a wrong hash.

### PendingRecords, PendingStore
`PendingRecords` is the table as a value with the four mutations as operators. `Settled` are the
statuses a record may end with; only `confirmed` is treated in a way of its own, and `dropped` is accepted from
storage but written by nothing in the repository.
`PendingStore` is how it is kept: the mutation queue, the item with its possible damage,
the copy under the recovery key, and list calls that repair outside the queue. A damaged
item is what is valid in it and the fact that there is something else.

### EnergyRecovery
Payments, their records' `attached` marks, sweeps with the list they read, and the
in-flight Map by which callers for the same wallet share a sweep. Payments are numbered by
creation time, and a sweep goes through them newest first, as the list is sorted. The backend is
external, and modelled by what the code relies on: GET answers with the order as it is,
POST binds it to the first transaction it hears of, and a bound order becomes final at
some time. A POST may arrive after its caller has given up. The answer to a POST may also be an order
without a payment (`AnswerUnnamed`, counted as a fault): its `paymentTxHash` is typed `string | null`, and the code marks
the record all the same, whether the POST binds the order later or never. `unnamed` remembers these.

### RpcClient
One signed transaction; calls that broadcast it and calls that wait for its receipt. A
request with the chain assertion before it is one action, since a node does not change
its chain. `task`, `at` and `tries` are the loop variables of `request`,
`broadcastSignedTransaction`, `#findKnownTransaction` and `waitForTransactionReceipt`;
`held` and `failed` are history variables for the properties. Nodes exchange, evict and
mine the transaction, lag behind each other, refuse it, and take it without answering. The
application configures one transport (mainnet) or as many attempts as transports
(testnet); the model allows any number of both. All waits ask for one confirmation in the
application; the instance asks for two, so that the two requests of a poll matter.
Reorganisations are not modelled.

### WalletVault
`disk` is what is stored: vault, pending vault and reinstall flag in AsyncStorage (gone
with the app), key and legacy entries in the Keychain (kept). An item is its content and
the key it is encrypted with. `at` is the storage call at which the running launch stands;
its steps follow `initializeWalletStorageOnce`, `bootstrapVault`, `assertMigrationComplete`
and `deleteLegacyWalletStorage` call by call, with the errors they swallow. Mutations queue,
wait for the launch, and are clone-change-encrypt-write-publish. The content keeps index,
secrets and the active wallet; the metadata of a wallet is whether it is in the index.
Left out: watch-only legacy wallets, `writeIndex`, which nothing calls, and the
cryptography, whose promise (a key opens what it encrypted and nothing else) is assumed.
The read of the key before a mutation's write is one action with the write.

### AppLock
`record` and `attempts` are the two Keychain items; a derived PIN is the PIN and whether it
was derived with the present number of iterations. `lockedUntil` is kept as the ticks that are
left, and `Tick` lets one pass. `call` is the call that runs, from one await to the next:
`verifyAppPin`, `changeAppPin` (a verification with a next PIN) or `setAppPin`. The screens
make one call at a time, which is taken as given; the upgrade of an outdated record
(`upgrade`) runs beside all of them. Reading the record and deriving the key have no effect others could see and are
part of the neighbouring steps. `changeAppPin` verifies first and finds an invalid next PIN only then (`Open`).
`known`, `wrong`, `forgotten` and `overlap` are history variables: what the user may take
for his PIN, the wrong answers he was given, how many of those an upgrade wiped out with the
`resetAppPinAttempts` it ends with, and whether an upgrade was under way when a PIN was
set. Left out: the biometrics flag, which nothing here reads, and
items in the Keychain that do not parse.

### TronAccounts, TronSigning
`TronAccounts` is the program's view of permissions as operators: the operations codec (a
byte is the set of its bits), the validation of drafts and that of imported updates, and what
a node makes of a permission, for which a key counts once. The two validations are kept as different as
they are: type, parent and safe integers are asked of an import only, distinct keys of a draft only.
Integers are exact, where the code adds doubles. For safe integers the comparison is the same: a sum below 2^53 is exact,
and one above it stays above every safe threshold. For a draft with unsafe integers the rounding of the sum is left out.
Witness permissions are checked like the owner's and left out, as are names and warnings.

`TronSigning` has one call per payment (`pc`, `envelope`), from one await to the next, and
`Stop` for every throw and for the end of the process. An envelope is `[raw, shown, signature]`:
`raw` is what `raw_data_hex` encodes and what txID and signatures are about, `shown` what
`raw_data` says; `stamp` tells apart transactions built for one payment. Only TRX
payments under the owner permission are given to `onSigned` (`Recovered`), as in the code. When
weight is missing, `MultisigSignaturesRequiredError` hands the envelope out, and other signers
import, review and sign it. Permission updates come from two sides: `Drafts` are entered on a device that runs
this program and pass `validateAccountPermissions` (`Propose`); `Foreign` ones, made by whatever program, cross
the clipboard as they are (`Arrive`), since `transaction-validation.ts:9-13` takes an import for a message over an
untrusted boundary. An envelope may also change on its way (`Damage`). `MaxStrange` bounds both.
The recovery of saved envelopes, the import screen, the
clipboard and the chain are external, modelled by what the functions here give
them and ask of them. Every key is on a device that runs this program. The expiration of transactions is not modelled: it
only prevents what may be left undone here anyway, and nothing is claimed to happen in the end. Nor are amounts: a
balance may be found too low at any time.

## 3. Runs

| Run | Instance | Shows |
|---|---|---|
| `nonce_queue` | 5 calls, 2 accounts (one in two spellings), limit 3, fair | `DepthExact` (the counter behind `NONCE_QUEUE_FULL`), `TailRegisteredWhileBusy` (no leak), refinement of `ExclusiveSection`, `JoinedCallsFinish` |
| `send` | 2 calls, 2 quotes of one payment for two orders, nonces 0-1, 1 fault, 1 crash | `RecordedBeforeBroadcast`, `QuoteSignedOnce`, `OrderLinkIsStable` |
| `replace` | a send, a speed-up or cancellation, resumes; prices 1-2; 1 fault, 1 crash | `SubmittingIsRecoverable`, `SettledTruthfully`, `ReplacedHasSuccessor`, refinement of `SendLifecycle` |
| `resume` | a send, a speed-up or cancellation, resumes; prices 1-2; 1 crash, fair | `CallsSettle`, `UncertaintyEnds`, `MinedIsReported` |
| `conflict` | as `send`, no faults | violates `SubmittingIsRecoverable` (finding 1) |
| `store` | 2 mutations of any kind, 1 list call, intact and damaged items, 1 fault, 1 crash, fair | refinement of `AtomicStore` on items not damaged, `DamageIsKept`, `MutationsKeepRecords`, `EveryCallEnds` |
| `energy_recovery` | 3 payments, 2 of them for one order, 2 wallets, 3 callers, 1 fault, 1 crash, fair | `AttachedIsBoundOrUnnamed`, `AnswersAreHeeded`, `PaymentsAreAttached` |
| `rpc_client` | 1 broadcast, 1 wait, 2 transports, 2 faults, 2 blocks, 2 polls, fair | `KnownIsFound`, `FailOverIsComplete`, `ReceiptIsDeep`, `CallsEnd` |
| `vault_launch` | 2 wallets, 2 keys, 2 mutations, 1 fault, 1 crash, 1 uninstallation | `KeyFitsVault`, `CurrentIsStored`, `LegacyIsPurged`, `ContentIsDurable`, `OldWalletsRecoverable`, `FailsForCause` |
| `vault_recover` | as `vault_launch`, 2 faults | violates `OldWalletsRecoverable` (finding 2) |
| `tron_signing` | 2 keys, a TRX payment, a token transfer, 2 drafts, 2 updates from elsewhere, 1 repeated call, 1 envelope brought in or damaged | `PaidOnce`, `SentIsSaved`, `ReviewedIsExecuted`, `OnlyForeignDuplicatesLockOut` |
| `app_lock` | 1 old PIN, 2 new ones, counts from 0, 3 and 18, 3 wrong attempts, 1 fault, 1 crash or reinstallation, fair | `PinIsKnown`, `AnsweredIsCounted`, `AnnouncedLockComes`, `RightPinOpens` |

`TypeOK`, and the exclusion `MutualExclusion` of the coordinator, are proved for every instance
(section 4) and not repeated in the runs. The comment above each property in its
module says what it means for the code. Every property of a passing run has a mutant in
`PROJECT.json`: a small change of one definition that TLC then finds to violate it.

**Bounds.** Two calls are the fewest that race, and three the fewest that can be queued,
running and refused at once, hence five for the coordinator with two accounts. One fault and
one crash are enough for each "fails here, dies there" pair of awaits, since either may
happen at any step; `vault_recover` shows what a second fault adds. `BroadcastAttempts` is 1
where the code says 3: attempts differ only in how often `Transmit` may happen, and a
second call broadcasts the same bytes again anyway. `MaxRememberedQuotes` is 2 where the
code says 256, and is never exceeded with two quotes: forgetting, which takes 256 quotes within
the two minutes of one, is not exercised. The liveness
run `resume` has one quote, no storage fault and queue depth 1; the same properties have also been
checked with queue depth 2, and with two quotes of one payment. Two transports suffice for the client because its
loops only compare an index with a limit; the proofs in section 4 cover any number.
Two statuses a record may end with stand for four: `confirmed`, which is treated specially, and
one of the others.
Two keys are the fewest that sign together or at the same time; account `k1` has an owner
and an active permission that need both, `k2` pays alone. One of the two drafts lists a
key twice and is refused; of the two updates from elsewhere one does so and is taken, the other has a threshold out of
reach. With `MaxStrange` 1 an update comes from elsewhere or an envelope changes; the proofs cover any number.
`MaxSafeInteger` is 4, more than any sum that occurs. The codec has 4 bytes where the code has 32, as many as transfers need: an
active permission that allows updates of permissions is not in the instance. The
counts 0, 3 and 18 let the locks after the fifth and the twentieth attempt come within three
attempts; `AnnouncedLockComes` is proved for every count.
`CHECK_DEADLOCK` is off where calls are finitely many, so that a state in which all are over has no
successor.

**Symmetry** is used for interchangeable calls in runs of safety properties only.

**Fairness**, where liveness is checked:
* `NonceCoordinator`: weak fairness of each call's steps: microtasks run, and operations
  settle because everything they await does.
* `BscSend!FairSends`: weak fairness of each call's steps: requests are aborted after
  `timeoutMs`, loops have fixed limits, waits a deadline, storage and signer calls settle.
* `BscSend!FairResume`: in addition, `resumePending` is called again and again (weak fairness of
  `CheckStep`: the app resumes whenever it comes to the foreground), and a network that is asked again and again
  eventually answers and takes the transaction (strong fairness of those outcomes, and of nothing else the
  network may do). Without the second part nothing can be promised: the user may stay off line.
  `CallsSettle` does not need it; it is stated under the same specification because a
  restart and the checks run beside the calls it is about.
* `PendingStore`: storage calls settle. No fairness for `Call`: nobody has to call.
* `EnergyRecovery`: sweeps are asked for again and again, requests settle, a request under
  way arrives, and bound orders become final.
* `RpcClient`: each request settles within `timeoutMs`. The network is not fair at all.
* `AppLock`: a call that runs ends, time passes, and the user keeps trying a PIN that he may
  take for his (strong fairness, since no attempt can begin while another call runs).

## 4. Proofs

All proofs are checked by TLAPS for arbitrary values of the constants that satisfy the
`ASSUME`s of the modules; TLC evaluates those assumptions in the runs.

* `NonceCoordinator_proofs`: `TypeCorrect`, `Exclusive`, `DepthIsExact`, `TailsAreReclaimed`
  and `CoordinatorImplementsSection`. The invariant relates the two Maps to the calls: the outstanding calls of an
  account form one chain, each awaiting the tail of the one before; the registered tail is
  that of the last; depth is the chain's length. Exclusion alone is not inductive: it holds because
  an operation only runs when the call before it in the chain has been released.
* `BscSend_proofs`, each part with an invariant of its own on top of the first:
  * `TypeCorrect`, `NothingUnrecordedIsSent`, `OrdersAreStable` and, of the
    price of replacements, `BumpIsAFifth` and `ReplacementsPayMore`. Besides the
    types, the invariant says of each call at which awaits its transaction is known to be
    recorded (`CallOK`), the same of `checkPendingOnce` (`Checking`), and that what was sent is
    recorded. Records are never removed, which carries it through crashes.
  * `NoQuoteIsSignedTwice`: a quote that was signed is remembered in `consumed` or lost with its
    process, and one that is about to be signed is held by one call (`Memory`, `Once`).
    The hypothesis `EnoughMemory` says that not more quotes have been signed than are
    remembered. It cannot be dropped: `rememberBounded` forgets the oldest quote, and
    TLC finds it signed again. What the code really relies on is that 256 quotes are not
    signed within the two minutes for which one is valid, and time is not modelled.
  * `RecordsAreTruthful` and `SendsImplementLifecycle`: one nonce is mined once (`Chain`), what was mined
    or is marked `network_seen` was on the network (`OnceSent`), and what a call or a check has
    found there is known to it until it has acted on it (`Held`). Each step of the program then is one of few
    changes of the records and the network (`WorldStep`), and these are what `SendLifecycle` allows. Of
    two calls in the queue one was ahead of the other when it joined, and a running one waits for nobody
    (`AheadJoined`, `Queueing`).
  * `ReplacementsAreLinked`: a replacement under way outbids its original by a fifth and, once its record is
    written, has its order (`Outbids`); what makes it a successor (seen by the network, order, price) never changes.
  * `SubmittingIsRecoverable` is false in general (finding 1), so two theorems say when it is true.
    `OnlyDiscardsLoseBytes`: in every behaviour, with any faults and restarts, in which
    the catch of `storePending` never discards the bytes of a recorded submission
    (`DiscardsAreSpare`); this is the only step that can lose them. `OneOrderIsRecoverable`:
    without storage faults it suffices that a payment is quoted for one energy order at most, because
    the order of a record is then a function of what it pays (`Linked`), and a call that signs the
    same bytes again finds a record equal to its own or one that is marked. A storage fault in that second
    call is enough to lose the bytes again, hence `faults = 0` there.
* `PendingStore_proofs`: `TypeCorrect`, `DamageKept`, `RecordsKept` and `IntactStoreIsAtomic`. The
  types include that no mutation and no repair writes a
  record that `assertTransaction` would reject later. The
  invariant: a running mutation is at the head of the queue (`Queued`), and what a running
  call has read is well formed (`Holding`); on an item not damaged at the start, nobody but the
  head of the queue writes, so what it read is still what is stored (`Fresh`). For damaged items: a
  call that has copied the item knows the copy to be the first contents (`Copied`), and what a mutation is about to write
  contains what is stored, unless a list call repairs the item meanwhile (`Growing`).
* `EnergyRecovery_proofs`: `TypeCorrect`, `MarkedPaymentsAreBoundOrUnnamed`, `NoAnsweredPostIsRepeated`.
  Bindings of orders never change; a sweep that is about to mark has seen its payment bound, or got an answer that names none
  (`Knows`); an arrived POST has bound its order; a wallet has one sweep at a time (`Alone`), which is why
  what a GET said is not outdated by another sweep's POST.
* `RpcClient_proofs`: `TypeCorrect`, `KnownTransactionsAreFound`, `FailOverReachesAll`,
  `ReceiptsAreDeep`. A lookup has passed only transports that failed or did not hold the transaction
  (`Passed`), a request of a wait only those that failed (`Exhausted`), and what a receipt said stays
  true while the block number is asked for (`Deep`).
* `WalletVault_proofs`: `TypeCorrect`, `KeyOpensVault`, `ReadersSeeTheVault`, `PurgeIsComplete`,
  `OneErrorLosesNothing`, `LaunchKeepsContent`, `MutationsFailAlone`. The invariant says at each
  storage call of a launch what is on disk and what the launch holds (`Stage`), that every
  ciphertext beside a key fits it (`Fits`), that only the head of the queue is between two awaits
  (`Line`), and that what is published is what is stored (`Published`). The fit alone is not inductive: a
  key is only committed when no other ciphertext is left, which the mode of the launch says. The other
  four need to know more of a launch: by which case of the classification it got where it is, and which errors that takes (`Course`);
  what of the old storage is left at each step (`Cleared`); and where each old wallet can be read
  at each step, after no error and after one (`Kept`). `OneErrorLosesNothing` covers one error, with
  any number of deaths and uninstallations; with two errors the statement is
  false (finding 2). `LegacyIsPurged` and `ContentIsDurable` are about launches under which no
  storage call throws, as their definitions say.
* `TronSigning_proofs`: `TypeCorrect`, `NoDoublePayment`, `SavedBeforeSent`, `WhatIsShownIsExecuted`,
  `LockedOutByDuplicatesOnly`, `CodecInverse`, `ValidationsDiffer`. No double payment needs to know what a call holds at each await
  (`Held`), and that all envelopes of such a payment that have left its call are of one transaction
  (`Single`): the saved one, which every later call finds and does not replace, or, when weight was
  missing and nothing is saved, the one handed to the other signers, after which it is not asked
  for again. `Shown`: a key in a signature has reviewed that effect, wherever the envelope is.
  For `LockedOutByDuplicatesOnly` every update that was submitted or executed has passed the import's validation, and one
  that was drafted lists no key twice (`Sound`). Without a key listed twice the node counts every entry and sums up the same weights
  (`Total`) as the validation did: the two sums are equal because their arguments are, and no induction over
  lists is needed. It assumes that the permissions of updates hold lists (`ListsAssumption`). `ValidationsDiffer` says for
  all permissions how far the two validations agree, and in which four points they do not.
* `AppLock_proofs`: `TypeCorrect`, `StoredPinIsKnown`, `AnswersAreCounted`, `LocksComeAsAnnounced`. The
  invariant says what a call has read at each step, that, unless a PIN was set during an upgrade, an
  upgrade under way is of the PIN that is stored, and that what is about to be counted includes all that
  was answered and not wiped out by an upgrade; the announcement is arithmetic modulo 5.

Only model-checked: the liveness properties (`JoinedCallsFinish`, `CallsSettle`, `UncertaintyEnds`,
`MinedIsReported`, `EveryCallEnds`, `PaymentsAreAttached`, `CallsEnd`,
`RightPinOpens`): ENABLED and fairness are out of this prover's reach. Every safety property of a run is stated by a
theorem, three of them under a hypothesis that the code needs as well: `QuoteSignedOnce`
(`EnoughMemory`), `OldWalletsRecoverable` (at most one error) and `SubmittingIsRecoverable`
(no harmful discard, or one order for a payment and no error). No module declares a RECURSIVE operator.

## 5. Findings

1. **A conflicting second execution deletes the first one's signed bytes**
   (`send-service.ts:205`, run `conflict`). Two quotes of the same payment with the same nonce and
   price, executed for two energy orders, sign to the same hash. The second call's
   `storePendingBscTransaction` throws `bsc_transaction_hash_conflict`, and its catch deletes the
   outbox entry, which is the first transaction's. If that one is still `submitting`,
   nobody can submit it again. `provenance/BSC_PROVENANCE.md:33` promises "durable
   signed-transaction outbox recovery for uncertain submissions;".
2. **A failed undo costs the old wallets** (`storage.ts:134`, run `vault_recover`). If a step after
   the key's commit throws and the deletion of the key throws too, its error is swallowed; the
   next launch finds a key without a vault, takes it for a reinstallation and deletes the
   legacy wallets. The comment at `storage.ts:110-111` says "If any step above fails, every
   old wallet remains recoverable."

Noted, without a run:

* **A list call can undo a mutation** (`pending-transactions.ts:182`). The
  quarantine of a damaged item by `listStoredBscTransactions` is not queued: a record stored
  between its read and its write is written away, and is then missing for the
  "restart-safe recovery" of `pending-transactions.ts:37`; or a record is put back to what it was.
  `MutationsKeepRecords` excepts exactly this write, the `Repair` of a list call, and no other step: no claim is
  made that nothing is ever lost. Without the exception the `store` run is violated.
* **A failed copy costs the raw text** (`pending-transactions.ts:181`). The error of the copy is swallowed and
  the damaged item written over all the same. `DamageIsKept` has the premise that no storage call throws.
* **An old PIN can come back** (`app-security.ts:130`). The upgrade that nobody awaits may write its record
  after `changeAppPin` has written the new one. `PinIsKnown` and the proof of it need the premise `~ overlap`.
* **An upgrade forgets wrong attempts** (`app-security.ts:74`, called from 130). It ends with `resetAppPinAttempts`, which
  also wipes out the attempts that were answered as wrong while it went on. `AnsweredIsCounted` subtracts just those.
* **One failure can brick the vault** (`storage.ts:132`). When `removeItem` of the pending copy throws, the
  vault has been written; the catch deletes its key, and every later launch finds a vault without
  key and throws. The old wallets are still in the Keychain, but no launch reads them any more.
* **Not every TRON payment is saved.** The repository's `README.md:65` says "The signed transaction is
  recovered and checked before broadcast."; but `sendTrc20Transfer` has no `onSigned`, and `sendTrxPayment` passes by it when `permissionId > 0` or the caller gives none.
  `PaidOnce` and `SentIsSaved` are stated for what is, by callers that give one.
* **Import and draft differ.** `canonicalPermission` does not refuse a key that is listed twice, which
  `validatePermission` does; it refuses a type that is not that of the place, a parent and unsafe integers
  (`transaction-validation.ts:153-169`), which `validatePermission` lets pass (`permission-validator.ts:49,63`). `ValidationsDiffer`
  says that there is nothing else. `OnlyForeignDuplicatesLockOut` therefore excepts imported updates that list a key
  twice; whether a node would refuse these is not decided in this repository, and the model takes the worse case.
  An update whose numbers are not safe can be drafted, and is refused by every co-signer.
* **The draft's validation can throw** (`permission-validator.ts:38`): `operationAllowed` throws on
  operations it cannot read, after `validatePermission` has caught that same error at line 75 to report it.
* **A replaced original is not followed** (`send-service.ts:335`). It is marked when its replacement is visible; if it is mined
  nevertheless, no one looks at it again, and the user sees a replacement that never confirms. `MinedIsReported` excepts it;
  what is shown of the replacement is the subject of `ReplacedHasSuccessor`.
* **`energyPaymentAttachedAt` says less than its comment.** `pending-transactions.ts:39` describes it as set
  once the backend has finalized the payment, while `energy-payment-recovery.ts:80` marks after any
  answered POST: the order need not be final, and if the answer has no hash (lines 76-77) the payment need not be bound to it.
  `AttachedIsBoundOrUnnamed` states what the code keeps, and after an answer without a hash nobody looks at the payment again.

## 6. Not modelled

* Pure functions: amounts and fees apart from the replacement's price, history merging, address
  conversions, and of the validation of TRON transactions the checks of amounts, addresses and fee limits.
* Home asset cache, address provisioner, signer session: stateful, small, and next in the plan.
* Overlapping verifications of a PIN: both would write the same count. Whether the screens
  can make two at once is not decided in this repository.
* The backend, the chains and the nodes, apart from what the code relies on. That payments which were saved or
  are signed together are executed in the end: it depends on screens outside the repository and on the expiration of
  TRON transactions.
* Cryptography, key derivation, HTTP, configuration, scripts and workflows: library calls and
  input and output.

## 7. Plan

Done, in this order: `ExclusiveSection` and `NonceCoordinator` with proofs; `BscSend` with
`SendLifecycle`; `PendingStore` with `AtomicStore`; `WalletVault`; `EnergyRecovery`; `RpcClient`;
`AppLock`; `TronAccounts` and `TronSigning`; proofs of the last three and of `WalletVault`; proofs
of all safety properties that are checked.

Next modules: `HomeAssetCache` (memory and disk written in different orders), and the address provisioner as
another caller of `WalletVault`.

Next proofs: the modules to come, and the vault as the abstract specification below.

Next abstract specification: a vault as its user sees it (a durable content that only
mutations change), of which `ContentIsDurable` and `CurrentIsStored` are the parts stated so far.
