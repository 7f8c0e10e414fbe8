---------------------------- MODULE TronSigning ----------------------------
(***************************************************************************)
(* TRON payments from build to broadcast (signing/tron-transactions.ts,    *)
(* signing/signed-transaction.ts), and what becomes of those that need     *)
(* more signatures: they leave the call as an envelope that the other      *)
(* signers import (security/transaction-validation.ts), review and sign.   *)
(*                                                                         *)
(* A payment has one call at a time, made by the key of its own account.   *)
(* The app that saves an envelope in onSigned to send it again later, and  *)
(* the one that imports envelopes, are outside the repository and modelled *)
(* by what the functions they call promise.  Amounts and addresses of      *)
(* payments are those the calls have built and pass every later check.     *)
(* Permission updates are drafted by a device that runs this program, or   *)
(* come from anywhere.  Every key is on such a device: what others sign    *)
(* among themselves is not modelled.                                       *)
(***************************************************************************)
EXTENDS TronAccounts, FiniteSets

CONSTANTS Asks,        \* payments
          Drafts,      \* permission updates entered on one of the devices
          Foreign,     \* permission updates of other origin
          TokenOf,     \* TokenOf[a]: "trx" or "trc20"
          AccountOf,   \* AccountOf[x]: the owner_address of a payment or an update
          IdOf,        \* IdOf[x]: the permissionId it is made under
          StructureOf, \* StructureOf[u]: the permissions an update gives its account
          Structures,  \* Structures[k]: the permissions an account starts with
          None,        \* no envelope, no update
          MaxRetries,  \* bound: calls for payments that were asked for before
          MaxStrange   \* bound: envelopes brought in or changed between two devices

Updates == Drafts \cup Foreign
Effects == Asks \cup Updates

\* What raw_data_hex encodes; stamp tells apart transactions of one payment.
Transactions == [effect : Effects, stamp : 0 .. MaxRetries]

\* shown is what raw_data says; txID and signatures are about raw.
Envelopes == [raw : Transactions, shown : Effects, signature : SUBSET Keys]

ASSUME EffectsAssumption == /\ TokenOf \in [Asks -> {"trx", "trc20"}]
                            /\ AccountOf \in [Effects -> Keys]
                            /\ IdOf \in [Effects -> Nat]
                            /\ Asks \cap Updates = {} /\ Drafts \cap Foreign = {}
\* The keys of a permission are a list.
ASSUME ListsAssumption ==
  \A u \in Updates : \A permission \in PermissionsOf(StructureOf[u]) :
    DOMAIN permission.keys = 1 .. Len(permission.keys)
ASSUME BoundAssumption == MaxRetries \in Nat /\ MaxStrange \in Nat
ASSUME NoneAssumption == None \notin Envelopes \cup Updates
\* The signers at hand are enough for every account.
ASSUME StructuresAssumption == \A k \in Keys : Controllable(Structures[k].owner)

VARIABLES
  pc, envelope,  \* where the call of each payment stands, and what it signs
  outcome,       \* what the last call of a payment reported
  asked,         \* payments for which a transaction was built
  retries,       \* how many more were built
  saved,         \* onSigned: the envelope kept for a payment
  shared,        \* envelopes on their way between signers
  reviewed,      \* history: what the owner of a key was shown, or entered
  wire,          \* envelopes sent to a node
  taken,         \* envelopes on the chain
  updated,       \* the update an account's permissions are from
  strange        \* how many envelopes were brought in or changed

calls == <<pc, envelope, outcome, asked, retries>>
vars == <<calls, saved, shared, reviewed, wire, taken, updated, strange>>

Init == /\ pc = [a \in Asks |-> "idle"]
        /\ envelope = [a \in Asks |-> None]
        /\ outcome = [a \in Asks |-> "open"]
        /\ asked = {} /\ retries = 0
        /\ saved = [a \in Asks |-> None]
        /\ shared = {} /\ reviewed = {} /\ wire = {} /\ taken = {}
        /\ updated = [k \in Keys |-> None]
        /\ strange = 0

(***************************************************************************)
(* What a node says of an envelope.                                        *)
(***************************************************************************)
ContractType(effect) ==
  CASE effect \in Updates -> AccountPermissionUpdateContract
    [] effect \in Asks -> IF TokenOf[effect] = "trx" THEN TransferContract
                                                  ELSE TriggerSmartContract

Permissions(k) == IF updated[k] = None THEN Structures[k] ELSE StructureOf[updated[k]]

\* The permission that has to agree to an effect, if the account has it.
Governing(effect) == PermissionOf(Permissions(AccountOf[effect]), IdOf[effect])
Governed(effect) ==
  /\ HasPermission(Permissions(AccountOf[effect]), IdOf[effect])
  /\ IdOf[effect] > 0 => operationAllowed(Governing(effect).operations, ContractType(effect))

MaySign(k, effect) == Governed(effect) /\ k \in AddressesOf(Governing(effect))

\* getSignWeight names a permission, with its threshold.
Weighed(e) == Governed(e.raw.effect) /\ e.signature \subseteq AddressesOf(Governing(e.raw.effect))
WeightReached(e) ==
  Weight(Governing(e.raw.effect), e.signature) >= Governing(e.raw.effect).threshold

OnChain(tx) == \E e \in taken : e.raw = tx

(***************************************************************************)
(* sendTrxPayment and sendTrc20Transfer, from one await to the next.       *)
(***************************************************************************)
Goto(a, where) == /\ pc' = [pc EXCEPT ![a] = where]
                  /\ UNCHANGED envelope

End(a) == /\ pc' = [pc EXCEPT ![a] = "idle"]
          /\ envelope' = [envelope EXCEPT ![a] = None]

\* The call throws, or its process dies.
Stop(a) == /\ pc[a] # "idle"
           /\ End(a)
           /\ UNCHANGED <<outcome, asked, retries, saved, shared, reviewed, wire, taken,
                          updated, strange>>

\* The user asks until he is told that it is paid or waits for signatures;
\* what was saved is recovered and not asked for again.
Build(a) ==
  /\ pc[a] = "idle" /\ outcome[a] = "open" /\ saved[a] = None
  /\ asked' = asked \cup {a}
  /\ retries' = IF a \in asked THEN retries + 1 ELSE retries
  /\ retries' <= MaxRetries
  /\ envelope' = [envelope EXCEPT ![a] =
                    [raw |-> [effect |-> a, stamp |-> retries'], shown |-> a, signature |-> {}]]
  /\ reviewed' = reviewed \cup {<<AccountOf[a], a>>}
  /\ pc' = [pc EXCEPT ![a] = "sign"]
  /\ UNCHANGED <<outcome, saved, shared, wire, taken, updated, strange>>

\* signWithPermission: multiSign asks the node whether the key may sign.
Sign(a) ==
  /\ pc[a] = "sign"
  /\ IdOf[a] > 0 => MaySign(AccountOf[a], a)
  /\ envelope' = [envelope EXCEPT ![a].signature = {AccountOf[a]}]
  /\ pc' = [pc EXCEPT ![a] = "weigh"]
  /\ UNCHANGED <<outcome, asked, retries, saved, shared, reviewed, wire, taken, updated,
                 strange>>

NeedsSignatures(e) == Weighed(e) /\ ~ WeightReached(e)

\* MultisigSignaturesRequiredError carries the envelope out of the call.
HandOver(a) ==
  /\ pc[a] = "weigh"
  /\ NeedsSignatures(envelope[a])
  /\ End(a)
  /\ outcome' = [outcome EXCEPT ![a] = "cosigned"]
  /\ shared' = shared \cup {envelope[a]}
  /\ UNCHANGED <<asked, retries, saved, reviewed, wire, taken, updated, strange>>

Recovered(a) == TokenOf[a] = "trx" /\ IdOf[a] = 0

\* Mutant: the payment is sent first and saved by the recovery only.
AfterWeighingSends(a) == IF IdOf[a] > 0 THEN "balance" ELSE "send"

AfterWeighing(a) ==
  CASE Recovered(a) -> "save"
    [] IdOf[a] > 0 -> "balance"
    [] OTHER -> "send"

Weigh(a) ==
  /\ pc[a] = "weigh"
  /\ ~ NeedsSignatures(envelope[a])
  /\ Goto(a, AfterWeighing(a))
  /\ UNCHANGED <<outcome, asked, retries, saved, shared, reviewed, wire, taken, updated,
                 strange>>

\* recoverableSignedTransaction
Recoverable(e) == e.shown = e.raw.effect /\ e.signature = {AccountOf[e.raw.effect]}

\* Mutant: what is saved is not signed.
SaveUnsigned(a) ==
  /\ pc[a] = "save"
  /\ Recoverable(envelope[a])
  /\ saved' = [saved EXCEPT ![a] = [envelope[a] EXCEPT !.signature = {}]]
  /\ Goto(a, "send") \/ End(a)
  /\ UNCHANGED <<outcome, asked, retries, shared, reviewed, wire, taken, updated, strange>>

\* onSigned: it may have saved the envelope when it throws.
Save(a) ==
  /\ pc[a] = "save"
  /\ Recoverable(envelope[a])
  /\ saved' = [saved EXCEPT ![a] = envelope[a]]
  /\ Goto(a, "send") \/ End(a)
  /\ UNCHANGED <<outcome, asked, retries, shared, reviewed, wire, taken, updated, strange>>

\* assertSufficientMultisigTrxBalance finds enough; else, or after 15 seconds, it throws.
Balance(a) ==
  /\ pc[a] = "balance"
  /\ Goto(a, "send")
  /\ UNCHANGED <<outcome, asked, retries, saved, shared, reviewed, wire, taken, updated,
                 strange>>

\* sendRawTransaction: the request may be lost.
Send(a) ==
  /\ pc[a] = "send"
  /\ Goto(a, "answer")
  /\ wire' \in {wire, wire \cup {envelope[a]}}
  /\ UNCHANGED <<outcome, asked, retries, saved, shared, reviewed, taken, updated, strange>>

\* The node answers that it has taken it; any other answer, and none at all, throws.
Answer(a) ==
  /\ pc[a] = "answer"
  /\ envelope[a] \in wire \cup taken
  /\ End(a)
  /\ outcome' = [outcome EXCEPT ![a] = "sent"]
  /\ UNCHANGED <<asked, retries, saved, shared, reviewed, wire, taken, updated, strange>>

\* The envelope that was saved is sent again.  Once it has expired (raw_data.expiration) the chain
\* refuses it; nothing here has to be executed, so that expirations change no behaviour.
Recover(a) ==
  /\ saved[a] # None
  /\ ~ OnChain(saved[a].raw) /\ saved[a] \notin wire
  /\ wire' = wire \cup {saved[a]}
  /\ UNCHANGED <<calls, saved, shared, reviewed, taken, updated, strange>>

(***************************************************************************)
(* Signing together.                                                       *)
(***************************************************************************)
Begin(u) ==
  /\ \A e \in shared : e.raw.effect # u
  /\ shared' = shared \cup {[raw |-> [effect |-> u, stamp |-> 0], shown |-> u, signature |-> {}]}
  /\ UNCHANGED <<calls, saved, reviewed, wire, taken, updated>>

\* A permission update is drafted on one of the devices, unless it has errors.
Propose(d) == /\ validateAccountPermissions(StructureOf[d])
              /\ Begin(d)
              /\ UNCHANGED strange

OneMoreStrange == strange < MaxStrange /\ strange' = strange + 1

\* An envelope crosses the clipboard or a share sheet, whatever is in it.
Arrive(f) == OneMoreStrange /\ Begin(f)

\* Mutant: raw_data and raw_data_hex are not compared.
SupportedImport(e) ==
  e.shown \in Updates => validatePermissionUpdatePayload(StructureOf[e.shown])

\* assertSafeImportedMultisigTransaction: integrity, then the payload by type.
SafeImport(e) ==
  /\ e.shown = e.raw.effect
  /\ e.shown \in Updates => validatePermissionUpdatePayload(StructureOf[e.shown])

\* A signer is shown what the envelope says, signs it and passes it on.
Import(k, e) ==
  /\ k \notin e.signature
  /\ SafeImport(e)
  /\ reviewed' = reviewed \cup {<<k, e.shown>>}
  /\ MaySign(k, e.raw.effect)
  /\ shared' = shared \cup {[e EXCEPT !.signature = @ \cup {k}]}
  /\ UNCHANGED <<calls, saved, wire, taken, updated, strange>>

\* The device that finds enough signatures sends it.
Submit(e) ==
  /\ ~ OnChain(e.raw)
  /\ SafeImport(e)
  /\ Weighed(e) /\ WeightReached(e)
  /\ wire' = wire \cup {e}
  /\ UNCHANGED <<calls, saved, shared, reviewed, taken, updated, strange>>

\* The clipboard: raw_data says something else of the same type.
Damage(e) ==
  /\ OneMoreStrange
  /\ \E effect \in Effects : /\ ContractType(effect) = ContractType(e.shown)
                            /\ shared' = shared \cup {[e EXCEPT !.shown = effect]}
  /\ UNCHANGED <<calls, saved, reviewed, wire, taken, updated>>

\* The chain executes what enough keys have signed, once.
Execute(e) ==
  /\ ~ OnChain(e.raw)
  /\ Weighed(e) /\ WeightReached(e)
  /\ taken' = taken \cup {e}
  /\ wire' = wire \ {e}
  /\ updated' = IF e.raw.effect \in Updates
                  THEN [updated EXCEPT ![AccountOf[e.raw.effect]] = e.raw.effect]
                  ELSE updated
  /\ UNCHANGED <<calls, saved, shared, reviewed, strange>>

Next == \/ \E a \in Asks : \/ Stop(a) \/ Build(a) \/ Sign(a) \/ HandOver(a) \/ Weigh(a)
                           \/ Save(a) \/ Balance(a) \/ Send(a) \/ Answer(a) \/ Recover(a)
        \/ \E d \in Drafts : Propose(d)
        \/ \E f \in Foreign : Arrive(f)
        \/ \E e \in shared : (\E k \in Keys : Import(k, e)) \/ Submit(e) \/ Damage(e)
        \/ \E e \in wire : Execute(e)

Spec == Init /\ [][Next]_vars

(***************************************************************************)
(* Properties                                                              *)
(***************************************************************************)
\* Every variable has its type.
TypeOK ==
  /\ pc \in [Asks -> {"idle", "sign", "weigh", "save", "balance", "send", "answer"}]
  /\ envelope \in [Asks -> Envelopes \cup {None}]
  /\ outcome \in [Asks -> {"open", "cosigned", "sent"}]
  /\ asked \subseteq Asks /\ retries \in 0 .. MaxRetries
  /\ saved \in [Asks -> Envelopes \cup {None}]
  /\ shared \subseteq Envelopes
  /\ reviewed \subseteq Keys \X Effects
  /\ wire \subseteq Envelopes
  /\ taken \subseteq Envelopes
  /\ updated \in [Keys -> Updates \cup {None}]
  /\ strange \in 0 .. MaxStrange

\* A TRX payment under the owner permission is made by one transaction at most, however often its
\* call dies, its answer is lost and the user asks again (tron-transactions.ts:159-161).  TRC-20
\* transfers and payments under an active permission are not saved and not covered.
PaidOnce ==
  \A e, f \in taken :
    /\ e.raw.effect = f.raw.effect
    /\ e.raw.effect \in Asks /\ Recovered(e.raw.effect)
    => e.raw = f.raw

\* Whatever the chain executes, every key that signed it was shown just that, although envelopes
\* change on their way (transaction-validation.ts:9-13).
ReviewedIsExecuted ==
  \A e \in taken : \A k \in e.signature : <<k, e.raw.effect>> \in reviewed

\* Of a payment made like that, nodes and signers get nothing but what was saved before, with its
\* signature, so that it can be sent again as it is (tron-transactions.ts:159-162); or else its key
\* was not enough, and it was handed over instead.
SentIsSaved ==
  \A e \in wire \cup taken :
    e.raw.effect \in Asks /\ Recovered(e.raw.effect) =>
      saved[e.raw.effect] = e \/ outcome[e.raw.effect] = "cosigned"

\* The keys of an account can reach its owner threshold together, whatever updates are drafted,
\* brought in from elsewhere, signed and executed, but for an update of foreign origin whose
\* owner permission lists a key twice: its weights are added up on import
\* (transaction-validation.ts:160-166), the chain counts one of them.
OnlyForeignDuplicatesLockOut ==
  \A k \in Keys :
    \/ Controllable(Permissions(k).owner)
    \/ updated[k] \in Foreign /\ ~ Distinct(StructureOf[updated[k]].owner)
=============================================================================
