----------------------------- MODULE WalletVault -----------------------------
(***************************************************************************)
(* The encrypted wallet vault (src/wallet/storage.ts).                     *)
(*                                                                         *)
(* AsyncStorage holds the ciphertext of the vault and, while one is being  *)
(* set up, a pending copy of it; the Keychain holds its key and the wallets*)
(* of versions before the vault.  initializeWalletStorage looks at which of*)
(* the three exist and opens, resumes, migrates or starts over; the calls  *)
(* that change the vault wait for it and for each other in mutationQueue.  *)
(*                                                                         *)
(* Every storage call is a step of its own and may throw; the process may  *)
(* die and the app be uninstalled (which keeps the Keychain) between any   *)
(* two.  A ciphertext is its content and the key that opens it.            *)
(***************************************************************************)
EXTENDS Naturals, Sequences

CONSTANTS Wallet,         \* wallet ids
          Key,            \* random vault keys
          Call,           \* calls of mutateVault
          None,           \* null
          MaxFaults,      \* bound: storage calls that throw
          MaxCrashes,     \* bound: deaths of the process
          MaxUninstalls   \* bound: times the app is uninstalled

Content == [index : SUBSET Wallet,          \* the ids with metadata
            secrets : SUBSET Wallet,        \* the ids with a secret
            active : Wallet \cup {None}]    \* activeWalletId

ASSUME WalletAssumption == None \notin Wallet
ASSUME KeyAssumption == None \notin Key
ASSUME ItemAssumption == None \notin [content : Content, key : Key]
ASSUME BoundAssumption == MaxFaults \in Nat /\ MaxCrashes \in Nat /\ MaxUninstalls \in Nat

VARIABLES
  disk,      \* what the app keeps in AsyncStorage and the Keychain
  boot,      \* initializeWalletStorage: what it does next, and its variables
  current,   \* currentVault, or None
  queue,     \* mutationQueue: calls that are not over, the running one first
  pc, asked, \* where each call stands, and the mutation it was made for
  old,       \* history: wallets before the vault that the user has not given up
  faults, crashes, uninstalls

calls == <<queue, pc, asked>>
limits == <<faults, crashes, uninstalls>>
vars == <<disk, boot, current, calls, old, limits>>

Item == [content : Content, key : Key]
Empty == [index |-> {}, secrets |-> {}, active |-> None]

Disk == [vault : Item \cup {None},          \* VAULT_STORAGE_KEY
         pending : Item \cup {None},        \* PENDING_VAULT_STORAGE_KEY
         flagged : BOOLEAN,                 \* REINSTALL_CLEANUP_PENDING_KEY
         key : Key \cup {None},             \* Keychain: VAULT_KEY_KEYCHAIN_KEY
         legacy : [index : SUBSET Wallet,   \* Keychain: the wallets before the vault
                   active : Wallet \cup {None},
                   metadata : SUBSET Wallet,
                   secrets : SUBSET Wallet]]

NoLegacy == [index |-> {}, active |-> None, metadata |-> {}, secrets |-> {}]

\* The Keychain entries of a list of wallets, and those about all of them.
Entries(ids) == ({"secret", "metadata"} \X ids) \cup ({"index", "active"} \X {None})

Boot == [step : {"idle", "promote", "removePending", "flag", "listLegacy", "dropKey", "discard",
                 "readLegacy", "encrypt", "commitKey", "commitVault", "dropPending", "undoKey",
                 "undoPending", "verify", "purge", "ready"},
         reinstall : BOOLEAN,
         new : Item \cup {None},            \* the vault being set up
         purge : SUBSET Entries(Wallet)]    \* what is still to be deleted

\* No launch is under way.
Idle == [step |-> "idle", reinstall |-> FALSE, new |-> None, purge |-> {}]

\* readLegacyWalletVault, and when it does not throw.
LegacyContent ==
  [index |-> disk.legacy.index, secrets |-> disk.legacy.index, active |-> disk.legacy.active]
LegacyComplete == disk.legacy.index \subseteq disk.legacy.metadata \cap disk.legacy.secrets

Mutation == [kind : {"metadata", "secret", "active", "remove"}, id : Wallet]
              \cup [kind : {"active"}, id : {None}]

Changed(m, content) ==
  CASE m.kind = "metadata" -> [content EXCEPT !.index = @ \cup {m.id}]
    [] m.kind = "secret" -> [content EXCEPT !.secrets = @ \cup {m.id}]
    [] m.kind = "active" -> [content EXCEPT !.active = m.id]
    [] m.kind = "remove" -> [index |-> content.index \ {m.id},
                             secrets |-> content.secrets \ {m.id},
                             active |-> IF content.active = m.id THEN None ELSE content.active]

Init ==
  /\ \E ids \in SUBSET Wallet : \E a \in ids \cup {None} :
       /\ disk = [vault |-> None, pending |-> None, flagged |-> FALSE, key |-> None,
                  legacy |-> [index |-> ids, active |-> a, metadata |-> ids, secrets |-> ids]]
       /\ old = ids
  /\ boot = Idle
  /\ current = None
  /\ queue = <<>>
  /\ pc = [c \in Call |-> "idle"]
  /\ asked = [c \in Call |-> None]
  /\ faults = 0 /\ crashes = 0 /\ uninstalls = 0

\* A storage call throws.
Fault == /\ faults < MaxFaults
         /\ faults' = faults + 1
         /\ UNCHANGED <<crashes, uninstalls>>

\* Mutant: a failed launch fails every mutation.
WaitersAll == {c \in Call : pc[c] \in {"queued", "waiting"}}

\* Only the first of the queue can be waiting.
Waiters == {c \in Call : pc[c] = "waiting"}

\* The launch throws; the call that waits for it fails, the next one launches
\* again.
Reject == /\ boot' = Idle
          /\ pc' = [c \in Call |-> IF c \in Waiters THEN "failed" ELSE pc[c]]
          /\ queue' = IF Waiters = {} THEN queue ELSE Tail(queue)
          /\ UNCHANGED <<current, asked>>

At(step) == [boot EXCEPT !.step = step]
Purging(ids) == [boot EXCEPT !.step = "purge", !.purge = Entries(ids)]

Proceed(stored, next) == /\ disk' = stored
                         /\ boot' = next
                         /\ UNCHANGED <<current, calls, limits>>

\* A step of the launch that is one storage call, after which disk is stored.
Does(step, stored, next) == /\ boot.step = step
                            /\ Proceed(stored, next) \/ (Fault /\ Reject /\ UNCHANGED disk)
                            /\ UNCHANGED old

\* The same in the try block of bootstrapVault, and in the deletions whose
\* errors are swallowed.
Tries(step, stored, next) ==
  /\ boot.step = step
  /\ \/ Proceed(stored, next)
     \/ Fault /\ boot' = At("undoKey") /\ UNCHANGED <<disk, current, calls>>
  /\ UNCHANGED old

Attempts(step, stored, next) ==
  /\ boot.step = step
  /\ \/ Proceed(stored, next)
     \/ Fault /\ boot' = next /\ UNCHANGED <<disk, current, calls>>
  /\ UNCHANGED old
-----------------------------------------------------------------------------
(* initializeWalletStorage                                                 *)

Classified ==
  CASE disk.vault # None -> IF disk.key # None THEN "open" ELSE "invalid"
    [] disk.vault = None /\ disk.pending # None ->
         IF disk.key # None THEN "resume" ELSE "discard-pending"
    [] OTHER -> IF disk.key # None THEN "reinstall" ELSE "migrate"

Begins(step) == /\ boot' = [Idle EXCEPT !.step = step, !.reinstall = Classified = "reinstall"]
                /\ UNCHANGED <<disk, calls, limits>>

\* decryptWalletVault throws when the key is not the item's.
Decrypts(item, step) ==
  \/ item.key = disk.key /\ current' = item.content /\ Begins(step)
  \/ item.key # disk.key /\ Reject /\ UNCHANGED <<disk, limits>>

Launch ==
  /\ boot.step = "idle"
  /\ \/ Classified = "open" /\ Decrypts(disk.vault, "removePending")
     \/ Classified = "resume" /\ Decrypts(disk.pending, "promote")
     \/ Classified = "reinstall" /\ Begins("flag") /\ UNCHANGED current
     \/ Classified = "discard-pending" /\ Begins("discard") /\ UNCHANGED current
     \/ Classified = "migrate" /\ Begins("readLegacy") /\ UNCHANGED current
     \/ Classified = "invalid" /\ Reject /\ UNCHANGED <<disk, limits>>
     \/ Fault /\ Reject /\ UNCHANGED disk
  /\ UNCHANGED old

Promote == Does("promote", [disk EXCEPT !.vault = disk.pending], At("removePending"))

\* Mutant: an opened vault is taken for a finished migration.
RemovePendingOnly == Does("removePending", [disk EXCEPT !.pending = None], At("ready"))

RemovePending == Does("removePending", [disk EXCEPT !.pending = None], Purging(current.index))

Flag == Does("flag", [disk EXCEPT !.flagged = TRUE], At("listLegacy"))

ListLegacy == Does("listLegacy", disk, Purging(disk.legacy.index))

\* Mutant: the old key is left to be overwritten.
KeepKey == Does("dropKey", disk, At("encrypt"))

DropKey == Does("dropKey", [disk EXCEPT !.key = None], At("encrypt"))

DiscardPending == Does("discard", [disk EXCEPT !.pending = None], At("readLegacy"))

ReadLegacy == \/ LegacyComplete /\ Does("readLegacy", disk, At("encrypt"))
              \/ /\ boot.step = "readLegacy" /\ ~LegacyComplete
                 /\ Reject
                 /\ UNCHANGED <<disk, old, limits>>

\* bootstrapVault: a new random key, and a pending copy.
Encrypt ==
  \E k \in Key :
    LET item == [content |-> IF boot.reinstall THEN Empty ELSE LegacyContent, key |-> k] IN
    /\ k # disk.key /\ \A i \in {disk.vault, disk.pending} \ {None} : i.key # k
    /\ Does("encrypt", [disk EXCEPT !.pending = item],
            [boot EXCEPT !.step = "commitKey", !.new = item])

CommitKey == Tries("commitKey", [disk EXCEPT !.key = boot.new.key], At("commitVault"))

CommitVault == Tries("commitVault", [disk EXCEPT !.vault = boot.new], At("dropPending"))

\* The last step of the try block; what was encrypted is the current vault.
DropPending ==
  /\ boot.step = "dropPending"
  /\ \/ /\ disk' = [disk EXCEPT !.pending = None]
        /\ boot' = At(IF boot.reinstall THEN "ready" ELSE "verify")
        /\ current' = boot.new.content
        /\ UNCHANGED <<calls, limits>>
     \/ Fault /\ boot' = At("undoKey") /\ UNCHANGED <<disk, current, calls>>
  /\ UNCHANGED old

\* Mutant: only the pending copy is removed.
UndoNoKey == Attempts("undoKey", disk, At("undoPending"))

\* The catch block.
UndoKey == Attempts("undoKey", [disk EXCEPT !.key = None], At("undoPending"))

UndoPending == /\ boot.step = "undoPending"
               /\ Reject
               /\ \/ disk' = [disk EXCEPT !.pending = None] /\ UNCHANGED limits
                  \/ Fault /\ UNCHANGED disk
               /\ UNCHANGED old

Verified == /\ disk.vault # None /\ disk.key # None
            /\ disk.vault = [content |-> boot.new.content, key |-> disk.key]

\* What was committed is read back and compared with what was migrated.
Verify ==
  /\ boot.step = "verify"
  /\ \/ Verified /\ Does("verify", disk, Purging(boot.new.content.index))
     \/ ~Verified /\ Reject /\ UNCHANGED <<disk, old, limits>>

\* deleteLegacyWalletStorage: the secret of a wallet before its metadata, the
\* index and the active wallet last.
MayPurge(e) == CASE e[1] = "secret" -> TRUE
                 [] e[1] = "metadata" -> <<"secret", e[2]>> \notin boot.purge
                 [] OTHER -> boot.purge \subseteq Entries({})

Without(e, legacy) == CASE e[1] = "secret" -> [legacy EXCEPT !.secrets = @ \ {e[2]}]
                        [] e[1] = "metadata" -> [legacy EXCEPT !.metadata = @ \ {e[2]}]
                        [] e[1] = "index" -> [legacy EXCEPT !.index = {}]
                        [] e[1] = "active" -> [legacy EXCEPT !.active = None]

Purge ==
  \E e \in boot.purge :
    LET after == IF boot.purge # {e} THEN "purge"
                 ELSE IF boot.reinstall THEN "dropKey" ELSE "ready" IN
    /\ MayPurge(e)
    /\ Attempts("purge", [disk EXCEPT !.legacy = Without(e, disk.legacy)],
                [boot EXCEPT !.purge = @ \ {e}, !.step = after])
-----------------------------------------------------------------------------
(* mutateVault                                                             *)

Over(c, label) == /\ pc' = [pc EXCEPT ![c] = label]
                  /\ queue' = Tail(queue)
                  /\ UNCHANGED asked

Ask(c) == /\ pc[c] = "idle"
          /\ pc' = [pc EXCEPT ![c] = "queued"]
          /\ queue' = Append(queue, c)
          /\ \E m \in Mutation : asked' = [asked EXCEPT ![c] = m]
          /\ UNCHANGED <<disk, boot, current, old, limits>>

\* Mutant: mutations do not wait for each other.
AwaitAtOnce(c) == /\ pc[c] = "queued"
                  /\ pc' = [pc EXCEPT ![c] = "waiting"]
                  /\ UNCHANGED <<disk, boot, current, queue, asked, old, limits>>

\* getVault: the call waits for the launch, and starts one if there is none
\* (as any reader does, so that is left to Launch).
Await(c) == /\ pc[c] = "queued"
            /\ Head(queue) = c
            /\ pc' = [pc EXCEPT ![c] = "waiting"]
            /\ UNCHANGED <<disk, boot, current, queue, asked, old, limits>>

\* The change is made on a copy of currentVault, which is encrypted with the
\* key just read, and written.
Write(c) ==
  /\ boot.step = "ready"
  /\ pc[c] = "waiting"
  /\ \/ disk.key = None /\ Over(c, "failed") /\ UNCHANGED <<disk, old, limits>>
     \/ Fault /\ Over(c, "failed") /\ UNCHANGED <<disk, old>>
     \/ /\ disk.key # None
        /\ disk' = [disk EXCEPT !.vault = [content |-> Changed(asked[c], current),
                                           key |-> disk.key]]
        /\ old' = IF asked[c].kind = "remove" THEN old \ {asked[c].id} ELSE old
        /\ pc' = [pc EXCEPT ![c] = "publish"]
        /\ UNCHANGED <<queue, asked, limits>>
  /\ UNCHANGED <<boot, current>>

\* Mutant: currentVault is left as it was.
PublishNothing(c) == /\ pc[c] = "publish"
                     /\ Over(c, "ok")
                     /\ UNCHANGED <<disk, boot, current, old, limits>>

\* Back from the write, the ciphertext is decrypted into currentVault.
Publish(c) == /\ pc[c] = "publish"
              /\ current' = Changed(asked[c], current)
              /\ Over(c, "ok")
              /\ UNCHANGED <<disk, boot, old, limits>>
-----------------------------------------------------------------------------
\* Everything in memory is gone.
Die == /\ boot' = Idle /\ current' = None /\ queue' = <<>>
       /\ pc' = [c \in Call |-> IF pc[c] \in {"queued", "waiting", "publish"} THEN "failed"
                                ELSE pc[c]]
       /\ UNCHANGED <<asked, faults>>

Crash == /\ crashes < MaxCrashes
         /\ crashes' = crashes + 1
         /\ Die
         /\ UNCHANGED <<disk, old, uninstalls>>

\* The app's AsyncStorage is deleted, the Keychain stays.
Uninstall == /\ uninstalls < MaxUninstalls
             /\ uninstalls' = uninstalls + 1
             /\ disk' = [disk EXCEPT !.vault = None, !.pending = None, !.flagged = FALSE]
             /\ old' = IF disk.key = None THEN old ELSE {}
             /\ Die
             /\ UNCHANGED crashes

Next == \/ Launch \/ Promote \/ RemovePending \/ Flag \/ ListLegacy \/ DropKey
        \/ DiscardPending \/ ReadLegacy \/ Encrypt \/ CommitKey \/ CommitVault
        \/ DropPending \/ UndoKey \/ UndoPending \/ Verify \/ Purge
        \/ \E c \in Call : Ask(c) \/ Await(c) \/ Write(c) \/ Publish(c)
        \/ Crash \/ Uninstall

Spec == Init /\ [][Next]_vars
-----------------------------------------------------------------------------
\* The vault, the launch and the mutation queue hold what storage.ts can put there.
TypeOK ==
  /\ disk \in Disk
  /\ boot \in Boot
  /\ current \in Content \cup {None}
  /\ queue \in Seq(Call)
  /\ pc \in [Call -> {"idle", "queued", "waiting", "publish", "ok", "failed"}]
  /\ asked \in [Call -> Mutation \cup {None}]
  /\ old \subseteq Wallet
  /\ faults \in 0 .. MaxFaults /\ crashes \in 0 .. MaxCrashes
  /\ uninstalls \in 0 .. MaxUninstalls

\* A ciphertext is never stored beside a key that does not open it, and once
\* the launch is through both are there: the vault of a running app is readable.
KeyFitsVault ==
  /\ disk.key # None => \A item \in {disk.vault, disk.pending} \ {None} : item.key = disk.key
  /\ boot.step = "ready" => disk.vault # None /\ disk.key # None

\* What readers are given is what is stored, except while a write returns.
CurrentIsStored ==
  boot.step = "ready" /\ (\A c \in Call : pc[c] # "publish") => current = disk.vault.content

\* What the next launch would open if nothing disturbed it.
Durable == CASE Classified = "open" -> disk.vault.content
             [] Classified = "resume" -> disk.pending.content
             [] Classified = "invalid" -> None
             [] Classified = "reinstall" -> Empty
             [] OTHER -> LegacyContent

\* As long as no storage call throws, no step of a launch and no death changes
\* what the next launch comes up with: only a mutation does, by its write, and
\* by nothing but its own change.
ContentIsDurable ==
  [][ faults' = 0 /\ uninstalls' = uninstalls
        => \/ Durable' = Durable
           \/ \E c \in Call : Write(c) /\ Durable' = Changed(asked[c], Durable) ]_vars

\* Once the launch is through, no secret of a wallet is left in the Keychain,
\* also when earlier launches died in the middle of removing them - if no storage
\* call ever threw: deletions that do are swallowed (storage.ts:253-262).
LegacyIsPurged == boot.step = "ready" /\ faults = 0 => disk.legacy = NoLegacy

\* The secret of the wallet is still kept where it can be read: in the Keychain
\* or decrypted.  That a launch reads it is more, and not always so: beside a
\* vault whose key was undone the Keychain is not looked at (storage.ts:132-134).
Readable(w) ==
  \/ w \in disk.legacy.index \cap disk.legacy.metadata \cap disk.legacy.secrets
  \/ \E item \in {disk.vault, disk.pending} \ {None} :
       item.key = disk.key /\ w \in item.content.index \cap item.content.secrets

\* A wallet of before the vault that the user has not removed or uninstalled
\* is kept readably until it is committed and after, whatever step fails
\* (storage.ts:110: "If any step above fails, every old wallet remains
\* recoverable.").
OldWalletsRecoverable == \A w \in old : Readable(w)

\* A mutation fails because a storage call throws under it, because the process
\* dies or because the vault cannot be opened, never because another one or an
\* earlier launch has failed.
FailsForCause ==
  [][ \A c \in Call : pc[c] # "failed" /\ pc'[c] = "failed"
        => \/ crashes' # crashes \/ uninstalls' # uninstalls
           \/ /\ c = Head(queue)
              /\ \/ faults' # faults
                 \/ boot.step = "undoPending"
                 \/ Classified = "invalid"
                 \/ ~LegacyComplete ]_vars
=============================================================================
