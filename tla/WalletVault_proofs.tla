------------------------- MODULE WalletVault_proofs -------------------------
(***************************************************************************)
(* Proofs about the wallet vault, for any wallets, keys and calls, and any *)
(* number of storage calls that throw, deaths and uninstalls.              *)
(*                                                                         *)
(* A launch never looks at the disk twice: each of its steps relies on     *)
(* what the ones before have left there.  Stage says what that is; that    *)
(* the calls of mutateVault change nothing meanwhile is because the one    *)
(* that runs is the first of the queue (Line) and waits for the launch.    *)
(*                                                                         *)
(* What becomes of the wallets of before the vault depends on how a launch *)
(* got where it is (Course).  As long as nothing has thrown, each list it may *)
(* delete by names all that is left (Cleared); up to one error, all of them *)
(* can be read somewhere (Kept).                                           *)
(***************************************************************************)
EXTENDS WalletVault, TLAPS

Steps == {"idle", "promote", "removePending", "flag", "listLegacy", "dropKey", "discard",
          "readLegacy", "encrypt", "commitKey", "commitVault", "dropPending", "undoKey",
          "undoPending", "verify", "purge", "ready"}

Fits == disk.key # None => \A item \in {disk.vault, disk.pending} \ {None} : item.key = disk.key

\* The launch has the vault that is stored, with a key, in currentVault.
Opened == \/ boot.step \in {"removePending", "verify"}
          \/ boot.step = "purge" /\ ~ boot.reinstall

Starting == \/ boot.step \in {"flag", "listLegacy", "dropKey"}
            \/ boot.step = "purge" /\ boot.reinstall

Stage ==
  /\ Opened \/ boot.step = "promote" => ~ boot.reinstall
  /\ Starting => boot.reinstall /\ disk.vault = None /\ disk.pending = None
  /\ boot.step = "promote" => /\ disk.pending # None /\ disk.key # None
                              /\ current = disk.pending.content
  /\ Opened => disk.vault # None /\ disk.key # None /\ current = disk.vault.content
  /\ boot.step = "discard" => disk.vault = None /\ disk.key = None
  /\ boot.step \in {"readLegacy", "encrypt"} =>
       disk.vault = None /\ disk.pending = None /\ disk.key = None
  /\ boot.step = "commitKey" => /\ boot.new \in Item /\ disk.pending = boot.new
                                /\ disk.vault = None /\ disk.key = None
  /\ boot.step = "commitVault" => /\ boot.new \in Item /\ disk.pending = boot.new
                                  /\ disk.vault = None /\ disk.key = boot.new.key
  /\ boot.step = "dropPending" => /\ boot.new \in Item /\ disk.pending = boot.new
                                  /\ disk.vault = boot.new /\ disk.key = boot.new.key
  /\ boot.step = "ready" => disk.vault # None /\ disk.key # None /\ current \in Content

\* The call that runs is the first of the queue, and no call is forgotten.
Line ==
  /\ \A c \in Call : pc[c] \in {"queued", "waiting", "publish"} =>
                       \E i \in 1 .. Len(queue) : queue[i] = c
  /\ \A c \in Call : pc[c] \in {"waiting", "publish"} => queue # <<>> /\ c = Head(queue)
  /\ \A c \in Call : pc[c] # "idle" => asked[c] \in Mutation

\* What a call has written it has made of currentVault.
Published ==
  /\ \A c \in Call : pc[c] = "publish" =>
       boot.step = "ready" /\ disk.vault.content = Changed(asked[c], current)
  /\ CurrentIsStored

IInv == TypeOK /\ Fits /\ Stage /\ Line /\ Published
-----------------------------------------------------------------------------
\* No item and no key is None.
LEMMA NoneIsNothing == (\A item \in Item : item # None) /\ (\A k \in Key : k # None)
BY ItemAssumption, KeyAssumption DEF Item

LEMMA ItemType ==
  ASSUME NEW item \in Item
  PROVE  item.content \in Content /\ item.key \in Key /\ item.content.index \in SUBSET Wallet
BY DEF Item, Content

LEMMA DiskType ==
  ASSUME TypeOK
  PROVE  /\ disk.vault \in Item \cup {None} /\ disk.pending \in Item \cup {None}
         /\ disk.key \in Key \cup {None} /\ disk.flagged \in BOOLEAN
         /\ disk.legacy.index \in SUBSET Wallet
BY DEF TypeOK, Disk

LEMMA EmptyType == Empty \in Content
BY DEF Empty, Content

LEMMA LegacyType ==
  ASSUME TypeOK
  PROVE  LegacyContent \in Content
BY DEF TypeOK, Disk, LegacyContent, Content

\* The change of a mutation.
LEMMA ChangedType ==
  ASSUME NEW m \in Mutation, NEW content \in Content
  PROVE  Changed(m, content) \in Content
<1>1. /\ content.index \in SUBSET Wallet /\ content.secrets \in SUBSET Wallet
      /\ content.active \in Wallet \cup {None}
      /\ content = [index |-> content.index, secrets |-> content.secrets,
                    active |-> content.active]
  BY DEF Content
<1>2. CASE m.kind = "metadata"
  <2>1. m.id \in Wallet BY <1>2 DEF Mutation
  <2>2. Changed(m, content) = [content EXCEPT !.index = @ \cup {m.id}] BY <1>2 DEF Changed
  <2> QED BY <2>1, <2>2 DEF Content
<1>3. CASE m.kind = "secret"
  <2>1. m.id \in Wallet BY <1>3 DEF Mutation
  <2>2. Changed(m, content) = [content EXCEPT !.secrets = @ \cup {m.id}] BY <1>3 DEF Changed
  <2> QED BY <2>1, <2>2 DEF Content
<1>4. CASE m.kind = "active"
  <2>1. m.id \in Wallet \cup {None} BY DEF Mutation
  <2>2. Changed(m, content) = [content EXCEPT !.active = m.id] BY <1>4 DEF Changed
  <2> QED BY <2>1, <2>2 DEF Content
<1>5. CASE m.kind = "remove"
  <2>1. Changed(m, content) =
          [index |-> content.index \ {m.id}, secrets |-> content.secrets \ {m.id},
           active |-> IF content.active = m.id THEN None ELSE content.active]
    BY <1>5 DEF Changed
  <2> QED BY <1>1, <2>1 DEF Content
<1>6. m.kind \in {"metadata", "secret", "active", "remove"} BY DEF Mutation
<1> QED BY <1>2, <1>3, <1>4, <1>5, <1>6
-----------------------------------------------------------------------------
(* What the steps of a launch have in common.                              *)

LEMMA FaultType ==
  ASSUME TypeOK, UNCHANGED limits \/ Fault
  PROVE  /\ faults' \in 0 .. MaxFaults /\ crashes' \in 0 .. MaxCrashes
         /\ uninstalls' \in 0 .. MaxUninstalls
BY BoundAssumption DEF TypeOK, limits, Fault

\* A failed launch takes the call that waits for it out of the queue.
LEMMA RejectLine ==
  ASSUME IInv, boot.step # "ready", Reject
  PROVE  /\ Line'
         /\ queue' \in Seq(Call) /\ asked' = asked
         /\ pc' \in [Call -> {"idle", "queued", "waiting", "publish", "ok", "failed"}]
         /\ \A c \in Call : pc'[c] # "publish"
<1>1. TypeOK /\ Line /\ \A c \in Call : pc[c] # "publish" BY DEF IInv, Published
<1>2. /\ pc' = [c \in Call |-> IF c \in Waiters THEN "failed" ELSE pc[c]]
      /\ queue' = IF Waiters = {} THEN queue ELSE Tail(queue)
      /\ asked' = asked
  BY DEF Reject
<1>3. pc' \in [Call -> {"idle", "queued", "waiting", "publish", "ok", "failed"}]
  BY <1>1, <1>2 DEF TypeOK
<1>4. \A c \in Call : pc'[c] \notin {"waiting", "publish"}
  BY <1>1, <1>2 DEF Waiters
<1>5. CASE Waiters = {}
  <2>1. pc' = pc /\ queue' = queue BY <1>1, <1>2, <1>5 DEF TypeOK
  <2> QED BY <1>1, <1>2, <1>3, <1>4, <2>1 DEF Line, TypeOK
<1>6. CASE Waiters # {}
  <2>1. PICK w \in Call : pc[w] = "waiting" BY <1>6 DEF Waiters
  <2>2. queue # <<>> /\ w = Head(queue) BY <1>1, <2>1 DEF Line
  <2>3. queue' = Tail(queue) /\ queue' \in Seq(Call) BY <1>1, <1>2, <1>6, <2>2 DEF TypeOK
  <2>4. ASSUME NEW c \in Call, pc'[c] = "queued"
        PROVE  \E i \in 1 .. Len(queue') : queue'[i] = c
    <3>1. pc[c] = "queued" /\ c # w BY <1>1, <1>2, <2>1, <2>4 DEF TypeOK
    <3>2. PICK i \in 1 .. Len(queue) : queue[i] = c BY <1>1, <3>1 DEF Line
    <3>3. i # 1 BY <1>1, <2>2, <3>1, <3>2 DEF TypeOK
    <3>4. i - 1 \in 1 .. Len(queue') /\ queue'[i - 1] = c
      BY <1>1, <2>2, <2>3, <3>2, <3>3 DEF TypeOK
    <3> QED BY <3>4
  <2>5. \A c \in Call : pc'[c] # "idle" => pc[c] # "idle" BY <1>1, <1>2, <2>1 DEF Waiters, TypeOK
  <2> QED BY <1>1, <1>2, <1>3, <1>4, <2>3, <2>4, <2>5 DEF Line
<1> QED BY <1>5, <1>6

LEMMA LaunchStep ==
  ASSUME IInv, boot.step # "ready", UNCHANGED calls \/ Reject, UNCHANGED limits \/ Fault,
         old' = old, disk' \in Disk, boot' \in Boot, current' \in Content \cup {None},
         Fits', Stage', boot'.step = "ready" => current' = disk'.vault.content
  PROVE  IInv'
<1>1. TypeOK /\ Line /\ \A c \in Call : pc[c] # "publish" BY DEF IInv, Published
<1>2. /\ Line' /\ queue' \in Seq(Call) /\ asked' = asked
      /\ pc' \in [Call -> {"idle", "queued", "waiting", "publish", "ok", "failed"}]
      /\ \A c \in Call : pc'[c] # "publish"
  <2>1. CASE UNCHANGED calls BY <1>1, <2>1 DEF calls, Line, TypeOK
  <2>2. CASE Reject BY <2>2, RejectLine
  <2> QED BY <2>1, <2>2
<1>3. TypeOK' BY <1>1, <1>2, FaultType DEF TypeOK
<1>4. Published' BY <1>2 DEF Published, CurrentIsStored
<1> QED BY <1>2, <1>3, <1>4 DEF IInv

LEMMA IdleType == Idle \in Boot /\ Idle.step = "idle"
BY DEF Idle, Boot

LEMMA RejectStep ==
  ASSUME IInv, boot.step # "ready", Reject, UNCHANGED limits \/ Fault, old' = old,
         disk' \in Disk, Fits'
  PROVE  IInv'
<1>1. boot' \in Boot /\ boot'.step = "idle" /\ current' = current BY IdleType DEF Reject
<1>2. Stage' BY <1>1 DEF Stage, Opened, Starting
<1> QED BY <1>1, <1>2, LaunchStep DEF IInv, TypeOK

\* A step of the launch keeps the invariant when what it leaves behind fits.
LEMMA DoesStep ==
  ASSUME IInv, NEW step \in Steps \ {"ready"}, NEW stored, NEW next, Does(step, stored, next),
         boot.step = step => stored \in Disk /\ next \in Boot,
         Proceed(stored, next) => Fits' /\ Stage',
         Proceed(stored, next) /\ next.step = "ready" => current = stored.vault.content
  PROVE  IInv'
<1>1. boot.step = step /\ old' = old BY DEF Does
<1>2. CASE Proceed(stored, next)
  BY <1>1, <1>2, LaunchStep DEF Proceed, IInv, TypeOK
<1>3. CASE Fault /\ Reject /\ UNCHANGED disk
  BY <1>1, <1>3, RejectStep DEF IInv, TypeOK, Fits
<1> QED BY <1>2, <1>3 DEF Does

LEMMA AtType ==
  ASSUME TypeOK, NEW step \in Steps
  PROVE  /\ At(step) \in Boot /\ At(step).step = step
         /\ At(step).reinstall = boot.reinstall /\ At(step).new = boot.new
         /\ At(step).purge = boot.purge
BY DEF TypeOK, Boot, At, Steps

LEMMA PurgingType ==
  ASSUME TypeOK, NEW ids \in SUBSET Wallet
  PROVE  /\ Purging(ids) \in Boot /\ Purging(ids).step = "purge"
         /\ Purging(ids).reinstall = boot.reinstall /\ Purging(ids).new = boot.new
<1>1. Entries(ids) \in SUBSET Entries(Wallet) BY DEF Entries
<1> QED BY <1>1 DEF TypeOK, Boot, Purging

\* Writing to one of the places of the disk.
LEMMA VaultWrite ==
  ASSUME TypeOK, NEW item \in Item \cup {None}
  PROVE  LET stored == [disk EXCEPT !.vault = item]
         IN  /\ stored \in Disk /\ stored.vault = item
             /\ stored.pending = disk.pending /\ stored.key = disk.key
BY DEF TypeOK, Disk

LEMMA PendingWrite ==
  ASSUME TypeOK, NEW item \in Item \cup {None}
  PROVE  LET stored == [disk EXCEPT !.pending = item]
         IN  /\ stored \in Disk /\ stored.pending = item
             /\ stored.vault = disk.vault /\ stored.key = disk.key
BY DEF TypeOK, Disk

LEMMA KeyWrite ==
  ASSUME TypeOK, NEW k \in Key \cup {None}
  PROVE  LET stored == [disk EXCEPT !.key = k]
         IN  /\ stored \in Disk /\ stored.key = k
             /\ stored.vault = disk.vault /\ stored.pending = disk.pending
BY DEF TypeOK, Disk

\* The catch block is entered with whatever is stored.
LEMMA CaughtStep ==
  ASSUME IInv, boot.step # "ready", Fault, boot' = At("undoKey"),
         UNCHANGED <<disk, current, calls, old>>
  PROVE  IInv'
<1>1. TypeOK BY DEF IInv
<1>2. boot' \in Boot /\ boot'.step = "undoKey" BY <1>1, AtType DEF Steps
<1>3. Stage' BY <1>2 DEF Stage, Opened, Starting
<1>4. Fits' BY DEF IInv, Fits
<1> QED BY <1>1, <1>2, <1>3, <1>4, LaunchStep DEF TypeOK

\* A step in the try block, whose errors lead to the catch block.
LEMMA TriesStep ==
  ASSUME IInv, NEW step \in Steps \ {"ready"}, NEW stored, NEW next, Tries(step, stored, next),
         boot.step = step => stored \in Disk /\ next \in Boot /\ next.step # "ready",
         Proceed(stored, next) => Fits' /\ Stage'
  PROVE  IInv'
<1>1. boot.step = step /\ old' = old /\ TypeOK BY DEF Tries, IInv
<1>2. CASE Proceed(stored, next)
  BY <1>1, <1>2, LaunchStep DEF Proceed, TypeOK
<1>3. CASE Fault /\ boot' = At("undoKey") /\ UNCHANGED <<disk, current, calls>>
  BY <1>1, <1>3, CaughtStep
<1> QED BY <1>2, <1>3 DEF Tries

\* A step whose errors are swallowed.
LEMMA AttemptsStep ==
  ASSUME IInv, NEW step \in Steps \ {"ready"}, NEW stored, NEW next,
         Attempts(step, stored, next),
         boot.step = step => stored \in Disk /\ next \in Boot,
         disk' \in {stored, disk} /\ boot' = next /\ current' = current => Fits' /\ Stage',
         boot.step = step /\ next.step = "ready" =>
           current = stored.vault.content /\ current = disk.vault.content
  PROVE  IInv'
<1>1. boot.step = step /\ old' = old /\ TypeOK BY DEF Attempts, IInv
<1>2. CASE Proceed(stored, next)
  BY <1>1, <1>2, LaunchStep DEF Proceed, TypeOK
<1>3. CASE Fault /\ boot' = next /\ UNCHANGED <<disk, current, calls>>
  BY <1>1, <1>3, LaunchStep DEF TypeOK
<1> QED BY <1>2, <1>3 DEF Attempts
-----------------------------------------------------------------------------
(* The launch.                                                             *)

LEMMA BeginsType ==
  ASSUME TypeOK, NEW step \in Steps, Begins(step)
  PROVE  /\ boot' \in Boot /\ boot'.step = step /\ disk' = disk
         /\ boot'.reinstall = (Classified = "reinstall")
BY DEF Begins, Idle, Boot, Steps, TypeOK, Classified

LEMMA ClassifiedSays ==
  ASSUME TypeOK
  PROVE  /\ Classified = "open" => disk.vault \in Item /\ disk.key # None
         /\ Classified = "resume" => /\ disk.vault = None /\ disk.pending \in Item
                                     /\ disk.key # None
         /\ Classified = "reinstall" => disk.vault = None /\ disk.pending = None
         /\ Classified = "discard-pending" => disk.vault = None /\ disk.key = None
         /\ Classified = "migrate" => /\ disk.vault = None /\ disk.pending = None
                                      /\ disk.key = None
BY DiskType DEF Classified

LEMMA LaunchKeeps == ASSUME IInv, Launch PROVE IInv'
<1>1. TypeOK /\ boot.step = "idle" /\ old' = old BY DEF IInv, Launch
<1>2. disk' = disk BY DEF Launch, Decrypts, Begins
<1>3. Fits' /\ disk' \in Disk BY <1>1, <1>2 DEF IInv, Fits, TypeOK
<1>4. CASE (UNCHANGED limits \/ Fault) /\ Reject
  BY <1>1, <1>3, <1>4, RejectStep
<1>5. CASE Classified = "open" /\ current' = disk.vault.content /\ Begins("removePending")
  <2>1. disk.vault \in Item /\ disk.key # None BY <1>1, <1>5, ClassifiedSays
  <2>2. boot' \in Boot /\ boot'.step = "removePending" /\ ~ boot'.reinstall
    BY <1>1, <1>5, BeginsType DEF Steps
  <2>3. Stage' BY <1>2, <1>5, <2>1, <2>2, NoneIsNothing DEF Stage, Opened, Starting
  <2>4. current' \in Content BY <1>5, <2>1, ItemType
  <2> QED BY <1>1, <1>3, <1>5, <2>2, <2>3, <2>4, LaunchStep DEF Begins
<1>6. CASE Classified = "resume" /\ current' = disk.pending.content /\ Begins("promote")
  <2>1. disk.pending \in Item /\ disk.key # None BY <1>1, <1>6, ClassifiedSays
  <2>2. boot' \in Boot /\ boot'.step = "promote" /\ ~ boot'.reinstall
    BY <1>1, <1>6, BeginsType DEF Steps
  <2>3. Stage' BY <1>2, <1>6, <2>1, <2>2, NoneIsNothing DEF Stage, Opened, Starting
  <2>4. current' \in Content BY <1>6, <2>1, ItemType
  <2> QED BY <1>1, <1>3, <1>6, <2>2, <2>3, <2>4, LaunchStep DEF Begins
<1>7. ASSUME NEW step \in {"flag", "discard", "readLegacy"}, Begins(step), current' = current,
             step = "flag" => Classified = "reinstall",
             step = "discard" => Classified = "discard-pending",
             step = "readLegacy" => Classified = "migrate"
      PROVE  IInv'
  <2>1. /\ boot' \in Boot /\ boot'.step = step
        /\ boot'.reinstall = (Classified = "reinstall")
    BY <1>1, <1>7, BeginsType DEF Steps
  <2>2. Stage' BY <1>1, <1>2, <1>7, <2>1, ClassifiedSays DEF Stage, Opened, Starting
  <2> QED BY <1>1, <1>3, <1>7, <2>1, <2>2, LaunchStep DEF Begins, TypeOK
<1> QED BY <1>4, <1>5, <1>6, <1>7 DEF Launch, Decrypts

LEMMA PromoteKeeps == ASSUME IInv, Promote PROVE IInv'
<1> DEFINE stored == [disk EXCEPT !.vault = disk.pending]
<1>1. TypeOK /\ Fits /\ boot.step = "promote" BY DEF IInv, Promote, Does
<1>2. /\ disk.pending \in Item /\ disk.key # None /\ current = disk.pending.content
      /\ ~ boot.reinstall
  BY <1>1, DiskType DEF IInv, Stage
<1>3. /\ stored \in Disk /\ stored.vault = disk.pending
      /\ stored.pending = disk.pending /\ stored.key = disk.key
  BY <1>1, <1>2, VaultWrite
<1>4. /\ At("removePending") \in Boot /\ At("removePending").step = "removePending"
      /\ ~ At("removePending").reinstall
  BY <1>1, <1>2, AtType DEF Steps
<1>5. ASSUME Proceed(stored, At("removePending")) PROVE Fits' /\ Stage'
  <2>1. disk' = stored /\ boot' = At("removePending") /\ current' = current BY <1>5 DEF Proceed
  <2>2. Fits' BY <1>1, <1>3, <2>1 DEF Fits
  <2>3. Stage' BY <1>2, <1>3, <1>4, <2>1, NoneIsNothing DEF Stage, Opened, Starting
  <2> QED BY <2>2, <2>3
<1>6. Does("promote", stored, At("removePending")) BY DEF Promote
<1> QED BY <1>3, <1>4, <1>5, <1>6, DoesStep DEF Steps

LEMMA RemovePendingKeeps == ASSUME IInv, RemovePending PROVE IInv'
<1> DEFINE stored == [disk EXCEPT !.pending = None]
<1>1. TypeOK /\ Fits /\ boot.step = "removePending" BY DEF IInv, RemovePending, Does
<1>2. /\ disk.vault \in Item /\ disk.vault # None /\ disk.key # None
      /\ current = disk.vault.content /\ ~ boot.reinstall
  BY <1>1, DiskType DEF IInv, Stage, Opened
<1>3. /\ stored \in Disk /\ stored.pending = None
      /\ stored.vault = disk.vault /\ stored.key = disk.key
  BY <1>1, PendingWrite
<1>4. current.index \in SUBSET Wallet BY <1>2, ItemType
<1>5. /\ Purging(current.index) \in Boot /\ Purging(current.index).step = "purge"
      /\ ~ Purging(current.index).reinstall
  BY <1>1, <1>2, <1>4, PurgingType
<1>6. ASSUME Proceed(stored, Purging(current.index)) PROVE Fits' /\ Stage'
  <2>1. disk' = stored /\ boot' = Purging(current.index) /\ current' = current
    BY <1>6 DEF Proceed
  <2>2. Fits' BY <1>1, <1>3, <2>1 DEF Fits
  <2>3. Stage' BY <1>2, <1>3, <1>5, <2>1 DEF Stage, Opened, Starting
  <2> QED BY <2>2, <2>3
<1>7. Does("removePending", stored, Purging(current.index)) BY DEF RemovePending
<1> QED BY <1>3, <1>5, <1>6, <1>7, DoesStep DEF Steps

LEMMA FlagKeeps == ASSUME IInv, Flag PROVE IInv'
<1> DEFINE stored == [disk EXCEPT !.flagged = TRUE]
<1>1. TypeOK /\ Fits /\ Stage /\ boot.step = "flag" BY DEF IInv, Flag, Does
<1>2. /\ stored \in Disk /\ stored.vault = disk.vault
      /\ stored.pending = disk.pending /\ stored.key = disk.key
  BY <1>1 DEF TypeOK, Disk
<1>3. /\ At("listLegacy") \in Boot /\ At("listLegacy").step = "listLegacy"
      /\ At("listLegacy").reinstall = boot.reinstall
  BY <1>1, AtType DEF Steps
<1>4. ASSUME Proceed(stored, At("listLegacy")) PROVE Fits' /\ Stage'
  <2>1. disk' = stored /\ boot' = At("listLegacy") BY <1>4 DEF Proceed
  <2> QED BY <1>1, <1>2, <1>3, <2>1 DEF Fits, Stage, Opened, Starting
<1>5. Does("flag", stored, At("listLegacy")) BY DEF Flag
<1> QED BY <1>2, <1>3, <1>4, <1>5, DoesStep DEF Steps

LEMMA ListLegacyKeeps == ASSUME IInv, ListLegacy PROVE IInv'
<1> DEFINE next == Purging(disk.legacy.index)
<1>1. TypeOK /\ Fits /\ Stage /\ boot.step = "listLegacy" BY DEF IInv, ListLegacy, Does
<1>2. next \in Boot /\ next.step = "purge" /\ next.reinstall = boot.reinstall
  BY <1>1, DiskType, PurgingType
<1>3. ASSUME Proceed(disk, next) PROVE Fits' /\ Stage'
  <2>1. disk' = disk /\ boot' = next BY <1>3 DEF Proceed
  <2> QED BY <1>1, <1>2, <2>1 DEF Fits, Stage, Opened, Starting
<1>4. Does("listLegacy", disk, next) /\ disk \in Disk BY <1>1 DEF ListLegacy, TypeOK
<1> QED BY <1>2, <1>3, <1>4, DoesStep DEF Steps

LEMMA DropKeyKeeps == ASSUME IInv, DropKey PROVE IInv'
<1> DEFINE stored == [disk EXCEPT !.key = None]
<1>1. TypeOK /\ Fits /\ Stage /\ boot.step = "dropKey" BY DEF IInv, DropKey, Does
<1>2. /\ stored \in Disk /\ stored.vault = disk.vault
      /\ stored.pending = disk.pending /\ stored.key = None
  BY <1>1, KeyWrite
<1>3. At("encrypt") \in Boot /\ At("encrypt").step = "encrypt" BY <1>1, AtType DEF Steps
<1>4. ASSUME Proceed(stored, At("encrypt")) PROVE Fits' /\ Stage'
  <2>1. disk' = stored /\ boot' = At("encrypt") BY <1>4 DEF Proceed
  <2> QED BY <1>1, <1>2, <1>3, <2>1 DEF Fits, Stage, Opened, Starting
<1>5. Does("dropKey", stored, At("encrypt")) BY DEF DropKey
<1> QED BY <1>2, <1>3, <1>4, <1>5, DoesStep DEF Steps

LEMMA DiscardPendingKeeps == ASSUME IInv, DiscardPending PROVE IInv'
<1> DEFINE stored == [disk EXCEPT !.pending = None]
<1>1. TypeOK /\ Fits /\ Stage /\ boot.step = "discard" BY DEF IInv, DiscardPending, Does
<1>2. /\ stored \in Disk /\ stored.vault = disk.vault
      /\ stored.pending = None /\ stored.key = disk.key
  BY <1>1, PendingWrite
<1>3. At("readLegacy") \in Boot /\ At("readLegacy").step = "readLegacy"
  BY <1>1, AtType DEF Steps
<1>4. ASSUME Proceed(stored, At("readLegacy")) PROVE Fits' /\ Stage'
  <2>1. disk' = stored /\ boot' = At("readLegacy") BY <1>4 DEF Proceed
  <2> QED BY <1>1, <1>2, <1>3, <2>1 DEF Fits, Stage, Opened, Starting
<1>5. Does("discard", stored, At("readLegacy")) BY DEF DiscardPending
<1> QED BY <1>2, <1>3, <1>4, <1>5, DoesStep DEF Steps

LEMMA ReadLegacyKeeps == ASSUME IInv, ReadLegacy PROVE IInv'
<1>1. TypeOK /\ Fits /\ Stage /\ disk \in Disk /\ boot.step = "readLegacy"
  BY DEF IInv, TypeOK, ReadLegacy, Does
<1>2. CASE Does("readLegacy", disk, At("encrypt"))
  <2>1. At("encrypt") \in Boot /\ At("encrypt").step = "encrypt" BY <1>1, AtType DEF Steps
  <2>2. ASSUME Proceed(disk, At("encrypt")) PROVE Fits' /\ Stage'
    <3>1. disk' = disk /\ boot' = At("encrypt") BY <2>2 DEF Proceed
    <3> QED BY <1>1, <2>1, <3>1 DEF Fits, Stage, Opened, Starting
  <2> QED BY <1>1, <1>2, <2>1, <2>2, DoesStep DEF Steps
<1>3. CASE Reject /\ UNCHANGED <<disk, old, limits>>
  BY <1>1, <1>3, RejectStep DEF Fits
<1> QED BY <1>2, <1>3 DEF ReadLegacy

LEMMA EncryptKeeps == ASSUME IInv, Encrypt PROVE IInv'
<1>1. TypeOK /\ Fits /\ Stage /\ boot.step = "encrypt" BY DEF IInv, Encrypt, Does
<1> DEFINE item(k) ==
             [content |-> IF boot.reinstall THEN Empty ELSE LegacyContent, key |-> k]
           stored(k) == [disk EXCEPT !.pending = item(k)]
           next(k) == [boot EXCEPT !.step = "commitKey", !.new = item(k)]
<1>2. PICK k \in Key : Does("encrypt", stored(k), next(k)) BY Zenon DEF Encrypt
<1>3. item(k) \in Item BY <1>1, EmptyType, LegacyType DEF Item
<1>4. /\ stored(k) \in Disk /\ stored(k).pending = item(k)
      /\ stored(k).vault = disk.vault /\ stored(k).key = disk.key
  BY <1>1, <1>3, PendingWrite
<1>5. next(k) \in Boot /\ next(k).step = "commitKey" /\ next(k).new = item(k)
  BY <1>1, <1>3 DEF TypeOK, Boot
<1> HIDE DEF item, stored, next
<1>6. ASSUME Proceed(stored(k), next(k)) PROVE Fits' /\ Stage'
  <2>1. disk' = stored(k) /\ boot' = next(k) BY <1>6 DEF Proceed
  <2>2. disk'.vault = None /\ disk'.key = None BY <1>1, <1>4, <2>1 DEF Stage
  <2> QED BY <1>3, <1>4, <1>5, <2>1, <2>2 DEF Fits, Stage, Opened, Starting
<1> QED BY <1>2, <1>4, <1>5, <1>6, DoesStep DEF Steps

LEMMA CommitKeyKeeps == ASSUME IInv, CommitKey PROVE IInv'
<1> DEFINE stored == [disk EXCEPT !.key = boot.new.key]
<1>1. TypeOK /\ Fits /\ Stage /\ boot.step = "commitKey" BY DEF IInv, CommitKey, Tries
<1>2. /\ boot.new \in Item /\ disk.pending = boot.new /\ boot.new.key \in Key
      /\ disk.vault = None
  BY <1>1, ItemType DEF Stage
<1>3. /\ stored \in Disk /\ stored.vault = disk.vault
      /\ stored.pending = disk.pending /\ stored.key = boot.new.key
  BY <1>1, <1>2, KeyWrite
<1>4. /\ At("commitVault") \in Boot /\ At("commitVault").step = "commitVault"
      /\ At("commitVault").new = boot.new
  BY <1>1, AtType DEF Steps
<1>5. ASSUME Proceed(stored, At("commitVault")) PROVE Fits' /\ Stage'
  <2>1. disk' = stored /\ boot' = At("commitVault") BY <1>5 DEF Proceed
  <2> QED BY <1>2, <1>3, <1>4, <2>1 DEF Fits, Stage, Opened, Starting
<1>6. Tries("commitKey", stored, At("commitVault")) BY DEF CommitKey
<1> QED BY <1>3, <1>4, <1>5, <1>6, TriesStep DEF Steps

LEMMA CommitVaultKeeps == ASSUME IInv, CommitVault PROVE IInv'
<1> DEFINE stored == [disk EXCEPT !.vault = boot.new]
<1>1. TypeOK /\ Fits /\ Stage /\ boot.step = "commitVault" BY DEF IInv, CommitVault, Tries
<1>2. boot.new \in Item /\ disk.pending = boot.new /\ disk.key = boot.new.key
  BY <1>1 DEF Stage
<1>3. /\ stored \in Disk /\ stored.vault = boot.new
      /\ stored.pending = disk.pending /\ stored.key = disk.key
  BY <1>1, <1>2, VaultWrite
<1>4. /\ At("dropPending") \in Boot /\ At("dropPending").step = "dropPending"
      /\ At("dropPending").new = boot.new
  BY <1>1, AtType DEF Steps
<1>5. ASSUME Proceed(stored, At("dropPending")) PROVE Fits' /\ Stage'
  <2>1. disk' = stored /\ boot' = At("dropPending") BY <1>5 DEF Proceed
  <2> QED BY <1>2, <1>3, <1>4, <2>1 DEF Fits, Stage, Opened, Starting
<1>6. Tries("commitVault", stored, At("dropPending")) BY DEF CommitVault
<1> QED BY <1>3, <1>4, <1>5, <1>6, TriesStep DEF Steps

LEMMA DropPendingKeeps == ASSUME IInv, DropPending PROVE IInv'
<1>1. TypeOK /\ Fits /\ Stage /\ boot.step = "dropPending" /\ old' = old
  BY DEF IInv, DropPending
<1>2. CASE Fault /\ boot' = At("undoKey") /\ UNCHANGED <<disk, current, calls>>
  BY <1>1, <1>2, CaughtStep
<1>3. CASE /\ disk' = [disk EXCEPT !.pending = None]
           /\ boot' = At(IF boot.reinstall THEN "ready" ELSE "verify")
           /\ current' = boot.new.content /\ UNCHANGED <<calls, limits>>
  <2>1. /\ boot.new \in Item /\ boot.new.content \in Content /\ boot.new.key \in Key
        /\ disk.vault = boot.new /\ disk.key = boot.new.key
    BY <1>1, ItemType DEF Stage
  <2>2. /\ disk' \in Disk /\ disk'.pending = None
        /\ disk'.vault = boot.new /\ disk'.key = boot.new.key
    BY <1>1, <1>3, <2>1, PendingWrite
  <2>3. /\ boot' \in Boot /\ boot'.step = (IF boot.reinstall THEN "ready" ELSE "verify")
        /\ boot'.reinstall = boot.reinstall
    BY <1>1, <1>3, AtType DEF Steps
  <2>4. Fits' BY <2>1, <2>2 DEF Fits
  <2>5. Stage' BY <1>3, <2>1, <2>2, <2>3, NoneIsNothing DEF Stage, Opened, Starting
  <2> QED BY <1>1, <1>3, <2>1, <2>2, <2>3, <2>4, <2>5, LaunchStep
<1> QED BY <1>1, <1>2, <1>3 DEF DropPending

LEMMA UndoKeyKeeps == ASSUME IInv, UndoKey PROVE IInv'
<1> DEFINE stored == [disk EXCEPT !.key = None]
<1>1. TypeOK /\ Fits /\ boot.step = "undoKey" BY DEF IInv, UndoKey, Attempts
<1>2. stored \in Disk /\ stored.key = None BY <1>1, KeyWrite
<1>3. At("undoPending") \in Boot /\ At("undoPending").step = "undoPending"
  BY <1>1, AtType DEF Steps
<1>4. ASSUME disk' \in {stored, disk}, boot' = At("undoPending") PROVE Fits' /\ Stage'
  BY <1>1, <1>2, <1>3, <1>4 DEF Fits, Stage, Opened, Starting
<1>5. Attempts("undoKey", stored, At("undoPending")) BY DEF UndoKey
<1> QED BY <1>2, <1>3, <1>4, <1>5, AttemptsStep DEF Steps

LEMMA UndoPendingKeeps == ASSUME IInv, UndoPending PROVE IInv'
<1>1. /\ TypeOK /\ Fits /\ boot.step = "undoPending" /\ Reject /\ old' = old
      /\ disk' = [disk EXCEPT !.pending = None] \/ disk' = disk
      /\ UNCHANGED limits \/ Fault
  BY DEF IInv, UndoPending
<1>2. disk' \in Disk /\ Fits'
  <2>1. CASE disk' = [disk EXCEPT !.pending = None]
    <3>1. /\ disk' \in Disk /\ disk'.pending = None
          /\ disk'.vault = disk.vault /\ disk'.key = disk.key
      BY <1>1, <2>1, PendingWrite
    <3> QED BY <1>1, <3>1 DEF Fits
  <2>2. CASE disk' = disk BY <1>1, <2>2 DEF Fits, TypeOK
  <2> QED BY <1>1, <2>1, <2>2
<1> QED BY <1>1, <1>2, RejectStep

LEMMA VerifyKeeps == ASSUME IInv, Verify PROVE IInv'
<1> DEFINE next == Purging(boot.new.content.index)
<1>1. TypeOK /\ Fits /\ Stage /\ disk \in Disk /\ boot.step = "verify"
  BY DEF IInv, TypeOK, Verify
<1>2. CASE Verified /\ Does("verify", disk, next)
  <2>1. disk.vault # None /\ disk.vault = [content |-> boot.new.content, key |-> disk.key]
    BY <1>2 DEF Verified
  <2>2. boot.new.content.index \in SUBSET Wallet
    <3>1. disk.vault \in Item BY <1>1, <2>1, DiskType
    <3>2. boot.new.content = disk.vault.content BY <2>1
    <3> QED BY <3>1, <3>2, ItemType
  <2>3. next \in Boot /\ next.step = "purge" /\ next.reinstall = boot.reinstall
    BY <1>1, <2>2, PurgingType
  <2>4. ASSUME Proceed(disk, next) PROVE Fits' /\ Stage'
    <3>1. disk' = disk /\ boot' = next /\ current' = current BY <2>4 DEF Proceed
    <3> QED BY <1>1, <2>3, <3>1 DEF Fits, Stage, Opened, Starting
  <2> QED BY <1>1, <1>2, <2>3, <2>4, DoesStep DEF Steps
<1>3. CASE Reject /\ UNCHANGED <<disk, old, limits>>
  BY <1>1, <1>3, RejectStep DEF Fits
<1> QED BY <1>2, <1>3 DEF Verify

LEMMA PurgeKeeps == ASSUME IInv, Purge PROVE IInv'
<1>1. TypeOK /\ Fits /\ Stage BY DEF IInv
<1> DEFINE stored(e) == [disk EXCEPT !.legacy = Without(e, disk.legacy)]
           after(e) == IF boot.purge # {e} THEN "purge"
                       ELSE IF boot.reinstall THEN "dropKey" ELSE "ready"
           next(e) == [boot EXCEPT !.purge = @ \ {e}, !.step = after(e)]
<1>2. PICK e \in boot.purge : Attempts("purge", stored(e), next(e)) BY Zenon DEF Purge
<1>3. boot.step = "purge" BY <1>2 DEF Attempts
<1>4. /\ stored(e) \in Disk /\ stored(e).vault = disk.vault
      /\ stored(e).pending = disk.pending /\ stored(e).key = disk.key
  <2>1. Without(e, disk.legacy) \in [index : SUBSET Wallet, active : Wallet \cup {None},
                                     metadata : SUBSET Wallet, secrets : SUBSET Wallet]
    <3>1. e \in Entries(Wallet) BY <1>1 DEF TypeOK, Boot
    <3>2. e[1] \in {"secret", "metadata", "index", "active"} BY <3>1 DEF Entries
    <3>3. disk.legacy \in [index : SUBSET Wallet, active : Wallet \cup {None},
                           metadata : SUBSET Wallet, secrets : SUBSET Wallet]
      BY <1>1 DEF TypeOK, Disk
    <3>4. CASE e[1] = "secret" BY <3>3, <3>4 DEF Without
    <3>5. CASE e[1] = "metadata" BY <3>3, <3>5 DEF Without
    <3>6. CASE e[1] = "index" BY <3>3, <3>6 DEF Without
    <3>7. CASE e[1] = "active" BY <3>3, <3>7 DEF Without
    <3> QED BY <3>2, <3>4, <3>5, <3>6, <3>7
  <2> QED BY <1>1, <2>1 DEF TypeOK, Disk
<1>5. /\ next(e) \in Boot /\ next(e).step = after(e) /\ next(e).reinstall = boot.reinstall
      /\ after(e) \in {"purge", "dropKey", "ready"}
      /\ after(e) = "dropKey" => boot.reinstall
      /\ after(e) = "ready" => ~ boot.reinstall
  <2>1. /\ after(e) \in {"purge", "dropKey", "ready"}
        /\ after(e) = "dropKey" => boot.reinstall
        /\ after(e) = "ready" => ~ boot.reinstall
    OBVIOUS
  <2> HIDE DEF after
  <2>2. boot.purge \ {e} \in SUBSET Entries(Wallet) BY <1>1 DEF TypeOK, Boot
  <2>3. next(e).step = after(e) /\ next(e).reinstall = boot.reinstall
    BY <1>1 DEF TypeOK, Boot
  <2>4. next(e) \in Boot BY <1>1, <2>1, <2>2 DEF TypeOK, Boot
  <2> QED BY <2>1, <2>3, <2>4
<1> HIDE DEF stored, next, after
<1>6. ASSUME disk' \in {stored(e), disk}, boot' = next(e), current' = current
      PROVE  Fits' /\ Stage'
  <2>1. /\ disk'.vault = disk.vault /\ disk'.pending = disk.pending
        /\ disk'.key = disk.key
    BY <1>4, <1>6
  <2>2. Fits' BY <1>1, <2>1 DEF Fits
  <2>3. Opened => current \in Content BY <1>1, DiskType, ItemType DEF Stage
  <2>4. Stage' BY <1>1, <1>3, <1>5, <1>6, <2>1, <2>3 DEF Stage, Opened, Starting
  <2> QED BY <2>2, <2>4
<1>7. next(e).step = "ready" =>
        current = stored(e).vault.content /\ current = disk.vault.content
  BY <1>1, <1>3, <1>4, <1>5 DEF Stage, Opened
<1> QED BY <1>2, <1>4, <1>5, <1>6, <1>7, AttemptsStep DEF Steps
-----------------------------------------------------------------------------
(* The calls of mutateVault, and what happens to the process.              *)

LEMMA InitEstablishes == Init => IInv
<1> SUFFICES ASSUME Init PROVE IInv OBVIOUS
<1>1. PICK ids \in SUBSET Wallet : \E a \in ids \cup {None} :
        /\ disk = [vault |-> None, pending |-> None, flagged |-> FALSE, key |-> None,
                   legacy |-> [index |-> ids, active |-> a, metadata |-> ids, secrets |-> ids]]
        /\ old = ids
  BY DEF Init
<1>2. disk \in Disk BY <1>1 DEF Disk
<1>3. TypeOK
  BY <1>1, <1>2, IdleType, BoundAssumption DEF Init, TypeOK
<1>4. Fits BY <1>1 DEF Fits
<1>5. boot.step = "idle" BY IdleType DEF Init
<1>6. Stage BY <1>5 DEF Stage, Opened, Starting
<1>7. Line /\ Published BY <1>5 DEF Init, Line, Published, CurrentIsStored
<1> QED BY <1>3, <1>4, <1>6, <1>7 DEF IInv

\* A call leaves the files and the launch alone.
LEMMA CallsOnly ==
  ASSUME IInv, UNCHANGED <<disk, boot, current>>
  PROVE  /\ disk' \in Disk /\ boot' \in Boot /\ current' \in Content \cup {None}
         /\ Fits' /\ Stage'
BY DEF IInv, TypeOK, Fits, Stage, Opened, Starting

LEMMA AskKeeps == ASSUME IInv, NEW c \in Call, Ask(c) PROVE IInv'
<1>1. /\ TypeOK /\ Line /\ pc[c] = "idle" /\ queue \in Seq(Call)
      /\ UNCHANGED <<disk, boot, current, old, limits>>
  BY DEF IInv, TypeOK, Ask
<1>2. PICK m \in Mutation : asked' = [asked EXCEPT ![c] = m] BY DEF Ask
<1>3. /\ queue' \in Seq(Call) /\ queue' # <<>> /\ Len(queue') = Len(queue) + 1
      /\ queue'[Len(queue) + 1] = c /\ \A i \in 1 .. Len(queue) : queue'[i] = queue[i]
      /\ queue # <<>> => Head(queue') = Head(queue)
  BY <1>1 DEF Ask
<1>4. /\ pc' \in [Call -> {"idle", "queued", "waiting", "publish", "ok", "failed"}]
      /\ pc'[c] = "queued" /\ \A d \in Call \ {c} : pc'[d] = pc[d]
  BY <1>1 DEF Ask, TypeOK
<1>5. /\ asked' \in [Call -> Mutation \cup {None}] /\ asked'[c] = m
      /\ \A d \in Call \ {c} : asked'[d] = asked[d]
  BY <1>1, <1>2 DEF TypeOK
<1>6. TypeOK' BY <1>1, <1>3, <1>4, <1>5, CallsOnly, FaultType DEF TypeOK
<1>7. Line'
  <2>1. ASSUME NEW d \in Call, pc'[d] \in {"queued", "waiting", "publish"}
        PROVE  \E i \in 1 .. Len(queue') : queue'[i] = d
    <3>1. CASE d = c
      <4>1. Len(queue) + 1 \in 1 .. Len(queue') BY <1>1, <1>3
      <4> QED BY <1>3, <3>1, <4>1
    <3>2. CASE d # c
      <4>1. PICK i \in 1 .. Len(queue) : queue[i] = d BY <1>1, <1>4, <2>1, <3>2 DEF Line
      <4>2. i \in 1 .. Len(queue') BY <1>1, <1>3
      <4> QED BY <1>3, <4>1, <4>2
    <3> QED BY <3>1, <3>2
  <2>2. \A d \in Call : pc'[d] \in {"waiting", "publish"} => queue' # <<>> /\ d = Head(queue')
    BY <1>1, <1>3, <1>4 DEF Line
  <2>3. \A d \in Call : pc'[d] # "idle" => asked'[d] \in Mutation
    BY <1>1, <1>4, <1>5 DEF Line
  <2> QED BY <2>1, <2>2, <2>3 DEF Line
<1>8. Published' BY <1>1, <1>4, <1>5 DEF IInv, Published, CurrentIsStored
<1> QED BY <1>1, <1>6, <1>7, <1>8, CallsOnly DEF IInv

LEMMA AwaitKeeps == ASSUME IInv, NEW c \in Call, Await(c) PROVE IInv'
<1>1. /\ TypeOK /\ Line /\ pc[c] = "queued" /\ c = Head(queue) /\ queue \in Seq(Call)
      /\ UNCHANGED <<disk, boot, current, queue, asked, old, limits>>
  BY DEF IInv, TypeOK, Await
<1>2. /\ pc' \in [Call -> {"idle", "queued", "waiting", "publish", "ok", "failed"}]
      /\ pc'[c] = "waiting" /\ \A d \in Call \ {c} : pc'[d] = pc[d]
  BY <1>1 DEF Await, TypeOK
<1>3. queue # <<>> BY <1>1 DEF Line
<1>4. TypeOK' BY <1>1, <1>2, CallsOnly, FaultType DEF TypeOK
<1>5. Line' BY <1>1, <1>2, <1>3 DEF Line
<1>6. Published' BY <1>1, <1>2 DEF IInv, Published, CurrentIsStored
<1> QED BY <1>1, <1>4, <1>5, <1>6, CallsOnly DEF IInv

\* A call that is over leaves the queue, and no other one is running.
LEMMA OverLine ==
  ASSUME IInv, NEW c \in Call, pc[c] \in {"waiting", "publish"},
         NEW label \in {"ok", "failed"}, Over(c, label)
  PROVE  /\ Line' /\ queue' \in Seq(Call) /\ asked' = asked
         /\ pc' \in [Call -> {"idle", "queued", "waiting", "publish", "ok", "failed"}]
         /\ \A d \in Call : pc'[d] \notin {"waiting", "publish"}
<1>1. TypeOK /\ Line /\ queue \in Seq(Call) BY DEF IInv, TypeOK
<1>2. queue # <<>> /\ c = Head(queue) BY <1>1 DEF Line
<1>3. /\ pc' \in [Call -> {"idle", "queued", "waiting", "publish", "ok", "failed"}]
      /\ pc'[c] = label /\ \A d \in Call \ {c} : pc'[d] = pc[d]
      /\ asked' = asked
  BY <1>1 DEF Over, TypeOK
<1>4. queue' = Tail(queue) /\ queue' \in Seq(Call) BY <1>1, <1>2 DEF Over
<1>5. \A d \in Call : pc'[d] \notin {"waiting", "publish"} BY <1>1, <1>2, <1>3 DEF Line
<1>6. ASSUME NEW d \in Call, pc'[d] = "queued"
      PROVE  \E i \in 1 .. Len(queue') : queue'[i] = d
  <2>1. d # c /\ pc[d] = "queued" BY <1>3, <1>6
  <2>2. PICK i \in 1 .. Len(queue) : queue[i] = d BY <1>1, <2>1 DEF Line
  <2>3. i # 1 BY <1>1, <1>2, <2>1, <2>2
  <2>4. i - 1 \in 1 .. Len(queue') /\ queue'[i - 1] = d BY <1>1, <1>2, <1>4, <2>2, <2>3
  <2> QED BY <2>4
<1>7. \A d \in Call : pc'[d] # "idle" => asked'[d] \in Mutation BY <1>1, <1>3 DEF Line
<1> QED BY <1>3, <1>4, <1>5, <1>6, <1>7 DEF Line

LEMMA WriteKeeps == ASSUME IInv, NEW c \in Call, Write(c) PROVE IInv'
<1>1. /\ TypeOK /\ Fits /\ Stage /\ Line /\ Published
      /\ boot.step = "ready" /\ pc[c] = "waiting" /\ boot' = boot /\ current' = current
  BY DEF IInv, Write
<1>2. /\ disk.vault # None /\ disk.key # None /\ current \in Content
      /\ queue # <<>> /\ c = Head(queue) /\ asked[c] \in Mutation
  BY <1>1 DEF Stage, Line
<1>3. \A d \in Call : pc[d] # "publish" BY <1>1, <1>2 DEF Line
<1>4. CASE Over(c, "failed") /\ disk' = disk /\ old' = old /\ (UNCHANGED limits \/ Fault)
  <2>1. /\ Line' /\ queue' \in Seq(Call) /\ asked' = asked
        /\ pc' \in [Call -> {"idle", "queued", "waiting", "publish", "ok", "failed"}]
        /\ \A d \in Call : pc'[d] # "publish"
    BY <1>1, <1>4, OverLine
  <2>2. TypeOK' BY <1>1, <1>4, <2>1, CallsOnly, FaultType DEF TypeOK
  <2>3. Published' BY <1>1, <1>3, <1>4, <2>1 DEF Published, CurrentIsStored
  <2> QED BY <1>1, <1>4, <2>1, <2>2, <2>3, CallsOnly DEF IInv
<1>5. CASE /\ disk' = [disk EXCEPT !.vault = [content |-> Changed(asked[c], current),
                                              key |-> disk.key]]
           /\ old' = IF asked[c].kind = "remove" THEN old \ {asked[c].id} ELSE old
           /\ pc' = [pc EXCEPT ![c] = "publish"] /\ UNCHANGED <<queue, asked, limits>>
  <2> DEFINE item == [content |-> Changed(asked[c], current), key |-> disk.key]
  <2>1. disk.key \in Key BY <1>1, <1>2, DiskType
  <2>2. item \in Item /\ item.content = Changed(asked[c], current) /\ item.key = disk.key
    BY <1>2, <2>1, ChangedType DEF Item
  <2> HIDE DEF item
  <2>3. disk' = [disk EXCEPT !.vault = item] BY <1>5 DEF item
  <2>4. /\ disk' \in Disk /\ disk'.vault = item
        /\ disk'.pending = disk.pending /\ disk'.key = disk.key
    BY <1>1, <2>2, <2>3, VaultWrite
  <2>5. /\ pc' \in [Call -> {"idle", "queued", "waiting", "publish", "ok", "failed"}]
        /\ pc'[c] = "publish" /\ \A d \in Call \ {c} : pc'[d] = pc[d]
    BY <1>1, <1>5 DEF TypeOK
  <2>6. old' \subseteq Wallet BY <1>1, <1>5 DEF TypeOK
  <2>7. TypeOK' BY <1>1, <1>5, <2>4, <2>5, <2>6, FaultType DEF TypeOK
  <2>8. Fits' BY <1>1, <2>2, <2>4 DEF Fits
  <2>9. Stage' BY <1>1, <1>2, <2>2, <2>4, NoneIsNothing DEF Stage, Opened, Starting
  <2>10. Line' BY <1>1, <1>2, <1>5, <2>5 DEF Line
  <2>11. Published' BY <1>1, <1>3, <1>5, <2>2, <2>4, <2>5 DEF Published, CurrentIsStored
  <2> QED BY <2>7, <2>8, <2>9, <2>10, <2>11 DEF IInv
<1> QED BY <1>4, <1>5 DEF Write

LEMMA PublishKeeps == ASSUME IInv, NEW c \in Call, Publish(c) PROVE IInv'
<1>1. /\ TypeOK /\ Fits /\ Stage /\ Line /\ Published
      /\ pc[c] = "publish" /\ UNCHANGED <<disk, boot, old, limits>>
      /\ current' = Changed(asked[c], current) /\ Over(c, "ok")
  BY DEF IInv, Publish
<1>2. boot.step = "ready" /\ disk.vault.content = current' BY <1>1 DEF Published
<1>3. current' \in Content BY <1>1, <1>2, ChangedType DEF Stage, Line
<1>4. /\ Line' /\ queue' \in Seq(Call) /\ asked' = asked
      /\ pc' \in [Call -> {"idle", "queued", "waiting", "publish", "ok", "failed"}]
      /\ \A d \in Call : pc'[d] # "publish"
  BY <1>1, OverLine
<1>5. TypeOK' BY <1>1, <1>3, <1>4, FaultType DEF TypeOK
<1>6. Fits' BY <1>1 DEF Fits
<1>7. Stage' BY <1>1, <1>2, <1>3 DEF Stage, Opened, Starting
<1>8. Published' BY <1>1, <1>2, <1>4 DEF Published, CurrentIsStored
<1> QED BY <1>4, <1>5, <1>6, <1>7, <1>8 DEF IInv

\* Nothing runs after a death.
LEMMA DieKeeps ==
  ASSUME IInv, Die, disk' \in Disk, Fits', old' \subseteq Wallet,
         crashes' \in 0 .. MaxCrashes, uninstalls' \in 0 .. MaxUninstalls
  PROVE  IInv'
<1>1. TypeOK /\ Line BY DEF IInv
<1>2. boot' \in Boot /\ boot'.step = "idle" /\ current' = None /\ queue' = <<>>
  BY IdleType DEF Die
<1>3. /\ pc' \in [Call -> {"idle", "queued", "waiting", "publish", "ok", "failed"}]
      /\ \A c \in Call : /\ pc'[c] \notin {"queued", "waiting", "publish"}
                         /\ pc'[c] # "idle" => pc[c] # "idle"
      /\ asked' = asked
  BY <1>1 DEF Die, TypeOK
<1>4. TypeOK' BY <1>1, <1>2, <1>3 DEF TypeOK, Die
<1>5. Stage' BY <1>2 DEF Stage, Opened, Starting
<1>6. Line' BY <1>1, <1>3 DEF Line
<1>7. Published' BY <1>2, <1>3 DEF Published, CurrentIsStored
<1> QED BY <1>4, <1>5, <1>6, <1>7 DEF IInv

LEMMA CrashKeeps == ASSUME IInv, Crash PROVE IInv'
<1>1. crashes' \in 0 .. MaxCrashes BY BoundAssumption DEF IInv, TypeOK, Crash
<1>2. disk' \in Disk /\ Fits' /\ Die BY DEF IInv, TypeOK, Fits, Crash
<1> QED BY <1>1, <1>2, DieKeeps DEF IInv, TypeOK, Crash

LEMMA UninstallKeeps == ASSUME IInv, Uninstall PROVE IInv'
<1>1. uninstalls' \in 0 .. MaxUninstalls BY BoundAssumption DEF IInv, TypeOK, Uninstall
<1>2. disk' \in Disk /\ disk'.vault = None /\ disk'.pending = None
  BY DEF IInv, TypeOK, Disk, Uninstall
<1>3. Fits' BY <1>2 DEF Fits
<1>4. old' \subseteq Wallet BY DEF IInv, TypeOK, Uninstall
<1>5. Die /\ crashes' = crashes BY DEF Uninstall
<1> QED BY <1>1, <1>2, <1>3, <1>4, <1>5, DieKeeps DEF IInv, TypeOK

LEMMA Inductive == IInv /\ [Next]_vars => IInv'
<1> SUFFICES ASSUME IInv, [Next]_vars PROVE IInv' OBVIOUS
<1>1. CASE \/ Launch \/ Promote \/ RemovePending \/ Flag \/ ListLegacy \/ DropKey
           \/ DiscardPending \/ ReadLegacy
  BY <1>1, LaunchKeeps, PromoteKeeps, RemovePendingKeeps, FlagKeeps, ListLegacyKeeps,
     DropKeyKeeps, DiscardPendingKeeps, ReadLegacyKeeps
<1>2. CASE \/ Encrypt \/ CommitKey \/ CommitVault \/ DropPending \/ UndoKey \/ UndoPending
           \/ Verify \/ Purge
  BY <1>2, EncryptKeeps, CommitKeyKeeps, CommitVaultKeeps, DropPendingKeeps, UndoKeyKeeps,
     UndoPendingKeeps, VerifyKeeps, PurgeKeeps
<1>3. ASSUME NEW c \in Call, Ask(c) \/ Await(c) \/ Write(c) \/ Publish(c) PROVE IInv'
  BY <1>3, AskKeeps, AwaitKeeps, WriteKeeps, PublishKeeps
<1>4. CASE Crash \/ Uninstall BY <1>4, CrashKeeps, UninstallKeeps
<1>5. CASE UNCHANGED vars
  BY <1>5 DEF vars, calls, limits, IInv, TypeOK, Fits, Stage, Opened, Starting, Line,
              Published, CurrentIsStored
<1> QED BY <1>1, <1>2, <1>3, <1>4, <1>5 DEF Next

\* The disk, the launch and the queue of mutateVault keep their types.
THEOREM TypeCorrect == Spec => []TypeOK
<1>1. IInv => TypeOK BY DEF IInv
<1> QED BY <1>1, InitEstablishes, Inductive, PTL DEF Spec

\* Whatever fails and whenever the process dies, storage.ts never leaves a ciphertext beside a key
\* that does not open it, and a launch that is through has left both.
THEOREM KeyOpensVault == Spec => []KeyFitsVault
<1>1. IInv => KeyFitsVault BY DEF IInv, Fits, Stage, KeyFitsVault
<1> QED BY <1>1, InitEstablishes, Inductive, PTL DEF Spec

\* mutateVault gives readers what it has stored: the calls that run one after the other never lose
\* each other's changes in currentVault.
THEOREM ReadersSeeTheVault == Spec => []CurrentIsStored
<1>1. IInv => CurrentIsStored BY DEF IInv, Published
<1> QED BY <1>1, InitEstablishes, Inductive, PTL DEF Spec
-----------------------------------------------------------------------------
(* What each step does to the disk and the launch, its storage call        *)
(* throwing or not.                                                        *)

DiskIs(v, p, k, legacy) ==
  disk'.vault = v /\ disk'.pending = p /\ disk'.key = k /\ disk'.legacy = legacy

BootIs(step, reinstall, new) ==
  boot'.step = step /\ boot'.reinstall = reinstall /\ boot'.new = new

\* The launch ends with what is stored as it was.
GivesUp == Reject /\ UNCHANGED <<disk, old, uninstalls>> /\ faults' \in {faults, faults + 1}

\* It goes on, and no storage call has thrown.
GoesOn == UNCHANGED <<faults, old, uninstalls, pc>>

\* The storage call throws, and the launch goes on or cleans up.
Caught == UNCHANGED <<disk, old, uninstalls, pc>> /\ faults' = faults + 1

LEMMA DoesWhat ==
  ASSUME NEW step, NEW stored, NEW next, Does(step, stored, next)
  PROVE  /\ boot.step = step
         /\ GivesUp \/ (GoesOn /\ disk' = stored /\ boot' = next /\ current' = current)
BY DEF Does, Proceed, Fault, GivesUp, GoesOn, calls, limits

LEMMA PutVault ==
  ASSUME TypeOK, NEW item, disk' = [disk EXCEPT !.vault = item]
  PROVE  DiskIs(item, disk.pending, disk.key, disk.legacy)
BY DEF TypeOK, Disk, DiskIs

LEMMA PutPending ==
  ASSUME TypeOK, NEW item, disk' = [disk EXCEPT !.pending = item]
  PROVE  DiskIs(disk.vault, item, disk.key, disk.legacy)
BY DEF TypeOK, Disk, DiskIs

LEMMA PutKey ==
  ASSUME TypeOK, NEW k, disk' = [disk EXCEPT !.key = k]
  PROVE  DiskIs(disk.vault, disk.pending, k, disk.legacy)
BY DEF TypeOK, Disk, DiskIs

LEMMA PutNothing ==
  ASSUME disk' = disk
  PROVE  DiskIs(disk.vault, disk.pending, disk.key, disk.legacy)
BY DEF DiskIs

LEMMA GoTo ==
  ASSUME TypeOK, NEW step, boot' = At(step)
  PROVE  BootIs(step, boot.reinstall, boot.new)
BY DEF TypeOK, Boot, At, BootIs

LEMMA GoPurging ==
  ASSUME TypeOK, NEW ids, boot' = Purging(ids)
  PROVE  BootIs("purge", boot.reinstall, boot.new) /\ boot'.purge = Entries(ids)
BY DEF TypeOK, Boot, Purging, BootIs

LEMMA LaunchWhat ==
  ASSUME IInv, Launch
  PROVE  /\ boot.step = "idle"
         /\ \/ GivesUp
            \/ /\ GoesOn /\ DiskIs(disk.vault, disk.pending, disk.key, disk.legacy)
               /\ \/ /\ Classified = "open" /\ BootIs("removePending", FALSE, None)
                     /\ current' = disk.vault.content
                  \/ /\ Classified = "resume" /\ BootIs("promote", FALSE, None)
                     /\ current' = disk.pending.content
                  \/ Classified = "reinstall" /\ BootIs("flag", TRUE, None)
                  \/ Classified = "discard-pending" /\ BootIs("discard", FALSE, None)
                  \/ Classified = "migrate" /\ BootIs("readLegacy", FALSE, None)
<1>1. \A step : Begins(step) => /\ BootIs(step, Classified = "reinstall", None)
                                /\ UNCHANGED <<disk, pc, faults, uninstalls>>
  BY DEF Begins, Idle, BootIs, calls, limits
<1>2. boot.step = "idle" /\ old' = old BY DEF Launch
<1>3. CASE Reject /\ disk' = disk /\ (UNCHANGED limits \/ Fault)
  BY <1>2, <1>3 DEF GivesUp, Fault, limits
<1>4. CASE Classified = "open" /\ current' = disk.vault.content /\ Begins("removePending")
  BY <1>1, <1>2, <1>4, PutNothing DEF GoesOn
<1>5. CASE Classified = "resume" /\ current' = disk.pending.content /\ Begins("promote")
  BY <1>1, <1>2, <1>5, PutNothing DEF GoesOn
<1>6. CASE Classified = "reinstall" /\ Begins("flag")
  BY <1>1, <1>2, <1>6, PutNothing DEF GoesOn
<1>7. CASE Classified = "discard-pending" /\ Begins("discard")
  BY <1>1, <1>2, <1>7, PutNothing DEF GoesOn
<1>8. CASE Classified = "migrate" /\ Begins("readLegacy")
  BY <1>1, <1>2, <1>8, PutNothing DEF GoesOn
<1> QED BY <1>3, <1>4, <1>5, <1>6, <1>7, <1>8 DEF Launch, Decrypts

LEMMA PromoteWhat ==
  ASSUME IInv, Promote
  PROVE  /\ boot.step = "promote"
         /\ \/ GivesUp
            \/ /\ GoesOn /\ DiskIs(disk.pending, disk.pending, disk.key, disk.legacy)
               /\ BootIs("removePending", boot.reinstall, boot.new)
BY DoesWhat, PutVault, GoTo DEF Promote, IInv

LEMMA RemovePendingWhat ==
  ASSUME IInv, RemovePending
  PROVE  /\ boot.step = "removePending"
         /\ \/ GivesUp
            \/ /\ GoesOn /\ DiskIs(disk.vault, None, disk.key, disk.legacy)
               /\ BootIs("purge", boot.reinstall, boot.new)
               /\ boot'.purge = Entries(current.index)
BY DoesWhat, PutPending, GoPurging DEF RemovePending, IInv

LEMMA FlagWhat ==
  ASSUME IInv, Flag
  PROVE  /\ boot.step = "flag"
         /\ \/ GivesUp
            \/ /\ GoesOn /\ DiskIs(disk.vault, disk.pending, disk.key, disk.legacy)
               /\ BootIs("listLegacy", boot.reinstall, boot.new)
<1>1. disk' = [disk EXCEPT !.flagged = TRUE] =>
        DiskIs(disk.vault, disk.pending, disk.key, disk.legacy)
  BY DEF IInv, TypeOK, Disk, DiskIs
<1> QED BY <1>1, DoesWhat, GoTo DEF Flag, IInv

LEMMA ListLegacyWhat ==
  ASSUME IInv, ListLegacy
  PROVE  /\ boot.step = "listLegacy"
         /\ \/ GivesUp
            \/ /\ GoesOn /\ DiskIs(disk.vault, disk.pending, disk.key, disk.legacy)
               /\ BootIs("purge", boot.reinstall, boot.new)
               /\ boot'.purge = Entries(disk.legacy.index)
BY DoesWhat, PutNothing, GoPurging DEF ListLegacy, IInv

LEMMA DropKeyWhat ==
  ASSUME IInv, DropKey
  PROVE  /\ boot.step = "dropKey"
         /\ \/ GivesUp
            \/ /\ GoesOn /\ DiskIs(disk.vault, disk.pending, None, disk.legacy)
               /\ BootIs("encrypt", boot.reinstall, boot.new)
BY DoesWhat, PutKey, GoTo DEF DropKey, IInv

LEMMA DiscardPendingWhat ==
  ASSUME IInv, DiscardPending
  PROVE  /\ boot.step = "discard"
         /\ \/ GivesUp
            \/ /\ GoesOn /\ DiskIs(disk.vault, None, disk.key, disk.legacy)
               /\ BootIs("readLegacy", boot.reinstall, boot.new)
BY DoesWhat, PutPending, GoTo DEF DiscardPending, IInv

LEMMA ReadLegacyWhat ==
  ASSUME IInv, ReadLegacy
  PROVE  /\ boot.step = "readLegacy"
         /\ \/ GivesUp
            \/ /\ GoesOn /\ DiskIs(disk.vault, disk.pending, disk.key, disk.legacy)
               /\ BootIs("encrypt", boot.reinstall, boot.new)
<1>1. CASE Does("readLegacy", disk, At("encrypt"))
  BY <1>1, DoesWhat, PutNothing, GoTo DEF IInv
<1>2. CASE boot.step = "readLegacy" /\ Reject /\ UNCHANGED <<disk, old, limits>>
  BY <1>2 DEF GivesUp, limits
<1> QED BY <1>1, <1>2 DEF ReadLegacy

LEMMA EncryptWhat ==
  ASSUME IInv, Encrypt
  PROVE  /\ boot.step = "encrypt"
         /\ \/ GivesUp
            \/ \E item \in Item :
                 /\ item.content = IF boot.reinstall THEN Empty ELSE LegacyContent
                 /\ GoesOn /\ DiskIs(disk.vault, item, disk.key, disk.legacy)
                 /\ BootIs("commitKey", boot.reinstall, item)
<1>1. TypeOK BY DEF IInv
<1> DEFINE item(k) ==
             [content |-> IF boot.reinstall THEN Empty ELSE LegacyContent, key |-> k]
           stored(k) == [disk EXCEPT !.pending = item(k)]
           next(k) == [boot EXCEPT !.step = "commitKey", !.new = item(k)]
<1>2. PICK k \in Key : Does("encrypt", stored(k), next(k)) BY Zenon DEF Encrypt
<1>3. item(k) \in Item BY <1>1, EmptyType, LegacyType DEF Item
<1>4. item(k).content = IF boot.reinstall THEN Empty ELSE LegacyContent OBVIOUS
<1> HIDE DEF item
<1>5. boot' = next(k) => BootIs("commitKey", boot.reinstall, item(k))
  BY <1>1 DEF TypeOK, Boot, BootIs
<1>6. disk' = stored(k) => DiskIs(disk.vault, item(k), disk.key, disk.legacy)
  BY <1>1, PutPending
<1> HIDE DEF stored, next
<1>7. boot.step = "encrypt" /\ (GivesUp \/ (GoesOn /\ disk' = stored(k) /\ boot' = next(k)))
  BY <1>2, DoesWhat
<1> QED BY <1>3, <1>4, <1>5, <1>6, <1>7

LEMMA TriesWhat ==
  ASSUME TypeOK, NEW step, NEW stored, NEW next, Tries(step, stored, next)
  PROVE  /\ boot.step = step
         /\ \/ Caught /\ BootIs("undoKey", boot.reinstall, boot.new)
            \/ GoesOn /\ disk' = stored /\ boot' = next
BY GoTo DEF Tries, Proceed, Fault, Caught, GoesOn, calls, limits

LEMMA CommitKeyWhat ==
  ASSUME IInv, CommitKey
  PROVE  /\ boot.step = "commitKey"
         /\ \/ Caught /\ BootIs("undoKey", boot.reinstall, boot.new)
            \/ /\ GoesOn /\ DiskIs(disk.vault, disk.pending, boot.new.key, disk.legacy)
               /\ BootIs("commitVault", boot.reinstall, boot.new)
BY TriesWhat, PutKey, GoTo DEF CommitKey, IInv

LEMMA CommitVaultWhat ==
  ASSUME IInv, CommitVault
  PROVE  /\ boot.step = "commitVault"
         /\ \/ Caught /\ BootIs("undoKey", boot.reinstall, boot.new)
            \/ /\ GoesOn /\ DiskIs(boot.new, disk.pending, disk.key, disk.legacy)
               /\ BootIs("dropPending", boot.reinstall, boot.new)
BY TriesWhat, PutVault, GoTo DEF CommitVault, IInv

LEMMA DropPendingWhat ==
  ASSUME IInv, DropPending
  PROVE  /\ boot.step = "dropPending"
         /\ \/ Caught /\ BootIs("undoKey", boot.reinstall, boot.new)
            \/ /\ GoesOn /\ DiskIs(disk.vault, None, disk.key, disk.legacy)
               /\ BootIs(IF boot.reinstall THEN "ready" ELSE "verify", boot.reinstall, boot.new)
BY PutPending, GoTo DEF DropPending, IInv, Fault, Caught, GoesOn, calls, limits

LEMMA UndoKeyWhat ==
  ASSUME IInv, UndoKey
  PROVE  /\ boot.step = "undoKey" /\ BootIs("undoPending", boot.reinstall, boot.new)
         /\ \/ Caught
            \/ GoesOn /\ DiskIs(disk.vault, disk.pending, None, disk.legacy)
BY PutKey, GoTo DEF UndoKey, Attempts, Proceed, IInv, Fault, Caught, GoesOn, calls, limits

LEMMA UndoPendingWhat ==
  ASSUME IInv, UndoPending
  PROVE  /\ boot.step = "undoPending"
         /\ \/ GivesUp
            \/ /\ Reject /\ UNCHANGED <<faults, old, uninstalls>>
               /\ DiskIs(disk.vault, None, disk.key, disk.legacy)
BY PutPending DEF UndoPending, IInv, Fault, GivesUp, limits

LEMMA VerifyWhat ==
  ASSUME IInv, Verify
  PROVE  /\ boot.step = "verify"
         /\ \/ GivesUp
            \/ /\ GoesOn /\ DiskIs(disk.vault, disk.pending, disk.key, disk.legacy)
               /\ BootIs("purge", boot.reinstall, boot.new)
               /\ boot'.purge = Entries(boot.new.content.index)
               /\ disk.vault.content = boot.new.content
<1>1. CASE Verified /\ Does("verify", disk, Purging(boot.new.content.index))
  <2>1. disk.vault.content = boot.new.content BY <1>1 DEF Verified
  <2> QED BY <1>1, <2>1, DoesWhat, PutNothing, GoPurging DEF IInv
<1>2. CASE Reject /\ UNCHANGED <<disk, old, limits>>
  BY <1>2 DEF Verify, GivesUp, limits
<1> QED BY <1>1, <1>2 DEF Verify
LEMMA PurgeWhat ==
  ASSUME IInv, Purge
  PROVE  /\ boot.step = "purge" /\ UNCHANGED <<old, uninstalls, pc>>
         /\ \E e \in boot.purge :
              /\ MayPurge(e)
              /\ boot'.purge = boot.purge \ {e}
              /\ BootIs(IF boot.purge # {e} THEN "purge"
                        ELSE IF boot.reinstall THEN "dropKey" ELSE "ready",
                        boot.reinstall, boot.new)
              /\ \/ /\ faults' = faults
                    /\ DiskIs(disk.vault, disk.pending, disk.key, Without(e, disk.legacy))
                 \/ faults' = faults + 1 /\ disk' = disk
<1>1. TypeOK BY DEF IInv
<1> DEFINE stored(e) == [disk EXCEPT !.legacy = Without(e, disk.legacy)]
           after(e) == IF boot.purge # {e} THEN "purge"
                       ELSE IF boot.reinstall THEN "dropKey" ELSE "ready"
           next(e) == [boot EXCEPT !.purge = @ \ {e}, !.step = after(e)]
<1>2. PICK e \in boot.purge : MayPurge(e) /\ Attempts("purge", stored(e), next(e))
  BY Zenon DEF Purge
<1>3. /\ boot.step = "purge" /\ boot' = next(e) /\ UNCHANGED <<old, uninstalls, pc>>
      /\ (faults' = faults /\ disk' = stored(e)) \/ (faults' = faults + 1 /\ disk' = disk)
  BY <1>2 DEF Attempts, Proceed, Fault, calls, limits
<1>4. disk' = stored(e) =>
        DiskIs(disk.vault, disk.pending, disk.key, Without(e, disk.legacy))
  BY <1>1 DEF TypeOK, Disk, DiskIs
<1>5. BootIs(after(e), boot.reinstall, boot.new) /\ boot'.purge = boot.purge \ {e}
  BY <1>1, <1>3 DEF TypeOK, Boot, BootIs
<1> QED BY <1>2, <1>3, <1>4, <1>5

\* A call that waits is the first of the queue, so nothing is half-published
\* when it writes.
LEMMA WriteWhat ==
  ASSUME IInv, NEW c \in Call, Write(c)
  PROVE  /\ boot.step = "ready" /\ boot' = boot /\ uninstalls' = uninstalls
         /\ disk.vault # None /\ disk.key # None /\ current = disk.vault.content
         /\ asked[c] \in Mutation /\ pc[c] = "waiting" /\ c = Head(queue)
         /\ \A d \in Call \ {c} : pc'[d] = pc[d]
         /\ \/ Fault /\ UNCHANGED <<disk, old>>
            \/ /\ UNCHANGED faults /\ pc'[c] = "publish"
               /\ DiskIs([content |-> Changed(asked[c], current), key |-> disk.key],
                         disk.pending, disk.key, disk.legacy)
               /\ old' = IF asked[c].kind = "remove" THEN old \ {asked[c].id} ELSE old
<1>1. /\ TypeOK /\ Stage /\ Line /\ Published /\ boot.step = "ready" /\ pc[c] = "waiting"
      /\ boot' = boot
  BY DEF IInv, Write
<1>2. /\ disk.vault # None /\ disk.key # None /\ asked[c] \in Mutation
      /\ \A d \in Call : pc[d] # "publish" /\ c = Head(queue)
  BY <1>1 DEF Stage, Line
<1>3. current = disk.vault.content BY <1>1, <1>2 DEF Published, CurrentIsStored
<1>4. CASE Fault /\ Over(c, "failed") /\ UNCHANGED <<disk, old>>
  BY <1>1, <1>2, <1>3, <1>4 DEF Fault, Over, TypeOK
<1>5. CASE /\ disk' = [disk EXCEPT !.vault = [content |-> Changed(asked[c], current),
                                              key |-> disk.key]]
           /\ old' = IF asked[c].kind = "remove" THEN old \ {asked[c].id} ELSE old
           /\ pc' = [pc EXCEPT ![c] = "publish"] /\ UNCHANGED <<queue, asked, limits>>
  <2>1. DiskIs([content |-> Changed(asked[c], current), key |-> disk.key],
               disk.pending, disk.key, disk.legacy)
    BY <1>1, <1>5, PutVault
  <2> QED BY <1>1, <1>2, <1>3, <1>5, <2>1 DEF limits, TypeOK
<1> QED BY <1>2, <1>4, <1>5 DEF Write

\* The other steps of a call, and the deaths.
LEMMA RestWhat ==
  /\ \A c \in Call : Ask(c) \/ Await(c) \/ Publish(c) =>
       UNCHANGED <<disk, boot, old, faults, uninstalls>>
  /\ Crash => boot' = Idle /\ UNCHANGED <<disk, old, faults, uninstalls>>
  /\ Uninstall => boot' = Idle /\ faults' = faults /\ uninstalls' = uninstalls + 1
BY DEF Ask, Await, Publish, Crash, Uninstall, Die, limits

LEMMA UninstallWhat ==
  ASSUME IInv, Uninstall
  PROVE  /\ DiskIs(None, None, disk.key, disk.legacy)
         /\ old' = IF disk.key = None THEN old ELSE {}
BY DEF IInv, TypeOK, Disk, Uninstall, DiskIs

LEMMA IdleIs == Idle.step = "idle" /\ Idle.reinstall = FALSE /\ Idle.new = None
BY DEF Idle
-----------------------------------------------------------------------------
(* What a launch relies on besides.                                        *)

\* It promotes a pending copy where there is no vault, starts over where there
\* is a key and migrates where it does not start over; it verifies what it has
\* committed; and it cleans up only after an error.
Course ==
  /\ boot.step \in {"discard", "readLegacy"} => ~ boot.reinstall
  /\ boot.step = "promote" => disk.vault = None
  /\ Starting => disk.key # None
  /\ boot.step = "verify" => boot.new \in Item /\ disk.vault = boot.new
                               /\ disk.key = boot.new.key
  /\ boot.step \in {"undoKey", "undoPending"} => faults # 0

\* A launch that does not write keeps it.
LEMMA IdleCourse == ASSUME boot' = Idle PROVE Course'
BY IdleIs DEF Course, Starting

LEMMA CourseStep == ASSUME IInv, Course, [Next]_vars PROVE Course'
<1>1. TypeOK /\ faults \in Nat BY BoundAssumption DEF IInv, TypeOK
<1>2. GivesUp => Course' BY IdleCourse DEF GivesUp, Reject
<1>3. CASE Launch
  <2>1. CASE GivesUp BY <1>2, <2>1
  <2>2. CASE ~ GivesUp
    <3>1. Classified = "reinstall" => disk.key # None BY DEF Classified
    <3> QED BY <1>1, <1>3, <2>2, <3>1, LaunchWhat, ClassifiedSays
            DEF Course, Starting, BootIs, DiskIs
  <2> QED BY <2>1, <2>2
<1>4. CASE Promote BY <1>2, <1>4, PromoteWhat DEF Course, Starting, BootIs, DiskIs
<1>5. CASE RemovePending
  <2>1. ~ boot.reinstall BY <1>5, RemovePendingWhat DEF IInv, Stage, Opened
  <2> QED BY <1>2, <1>5, <2>1, RemovePendingWhat DEF Course, Starting, BootIs, DiskIs
<1>6. CASE Flag \/ ListLegacy
  BY <1>2, <1>6, FlagWhat, ListLegacyWhat DEF Course, Starting, BootIs, DiskIs
<1>7. CASE DropKey \/ DiscardPending \/ ReadLegacy \/ Encrypt
  BY <1>2, <1>7, DropKeyWhat, DiscardPendingWhat, ReadLegacyWhat, EncryptWhat
  DEF Course, Starting, BootIs
<1>8. CASE CommitKey \/ CommitVault
  BY <1>1, <1>8, CommitKeyWhat, CommitVaultWhat DEF Course, Starting, BootIs, Caught
<1>9. CASE DropPending
  <2>1. /\ boot.new \in Item /\ disk.vault = boot.new /\ disk.key = boot.new.key
    BY <1>9, DropPendingWhat DEF IInv, Stage
  <2> QED BY <1>1, <1>9, <2>1, DropPendingWhat DEF Course, Starting, BootIs, DiskIs, Caught
<1>10. CASE UndoKey
  BY <1>1, <1>10, UndoKeyWhat DEF Course, Starting, BootIs, Caught, GoesOn
<1>11. CASE UndoPending
  BY <1>11, UndoPendingWhat, IdleCourse DEF GivesUp, Reject
<1>12. CASE Verify
  <2>1. ~ boot.reinstall BY <1>12, VerifyWhat DEF IInv, Stage, Opened
  <2> QED BY <1>2, <1>12, <2>1, VerifyWhat DEF Course, Starting, BootIs, DiskIs
<1>13. CASE Purge
  BY <1>13, PurgeWhat DEF Course, Starting, BootIs, DiskIs
<1>14. ASSUME NEW c \in Call, Ask(c) \/ Await(c) \/ Publish(c) PROVE Course'
  BY <1>14, RestWhat DEF Course, Starting
<1>15. ASSUME NEW c \in Call, Write(c) PROVE Course'
  BY <1>15, WriteWhat DEF Course, Starting
<1>16. CASE Crash \/ Uninstall BY <1>16, RestWhat, IdleCourse
<1>17. CASE UNCHANGED vars BY <1>17 DEF vars, limits, Course, Starting
<1> QED BY <1>3, <1>4, <1>5, <1>6, <1>7, <1>8, <1>9, <1>10, <1>11, <1>12, <1>13, <1>14, <1>15,
           <1>16, <1>17 DEF Next
-----------------------------------------------------------------------------
(* The wallets of before the vault are deleted, all of them.               *)

\* The wallets whose entries are still in the Keychain.
Left == disk.legacy.metadata \cup disk.legacy.secrets

\* What is left is still to be deleted.
Due == /\ \A w \in disk.legacy.secrets : <<"secret", w>> \in boot.purge
       /\ \A w \in disk.legacy.metadata : <<"metadata", w>> \in boot.purge
       /\ disk.legacy.index # {} => <<"index", None>> \in boot.purge
       /\ disk.legacy.active # None => <<"active", None>> \in boot.purge

\* Whatever list of wallets a launch may come to delete by, the index, the
\* vault or the pending copy, it names every wallet that is left: as long as no
\* storage call has thrown.
Cleared == faults = 0 =>
  /\ Left \subseteq disk.legacy.index
  /\ disk.vault # None => Left \subseteq disk.vault.content.index
  /\ disk.pending # None => Left \subseteq disk.pending.content.index
  /\ boot.step = "purge" => Due
  /\ boot.step = "ready" => disk.legacy = NoLegacy
  /\ boot.reinstall
       /\ boot.step \in {"dropKey", "encrypt", "commitKey", "commitVault", "dropPending"}
       => disk.legacy = NoLegacy
  /\ boot.step = "commitKey" => boot.new.content = LegacyContent

LEMMA LegacyIs ==
  ASSUME TypeOK
  PROVE  /\ disk.legacy \in [index : SUBSET Wallet, active : Wallet \cup {None},
                             metadata : SUBSET Wallet, secrets : SUBSET Wallet]
         /\ disk.legacy = [index |-> disk.legacy.index, active |-> disk.legacy.active,
                           metadata |-> disk.legacy.metadata, secrets |-> disk.legacy.secrets]
         /\ Left \subseteq Wallet
BY DEF TypeOK, Disk, Left

LEMMA NothingLeft ==
  ASSUME TypeOK
  PROVE  /\ disk.legacy = NoLegacy => Left = {} /\ LegacyContent = Empty
         /\ Left = {} /\ disk.legacy.index = {} /\ disk.legacy.active = None
              => disk.legacy = NoLegacy
<1>1. disk.legacy = NoLegacy => Left = {} /\ LegacyContent = Empty
  BY DEF NoLegacy, Left, LegacyContent, Empty
<1>2. Left = {} => disk.legacy.metadata = {} /\ disk.legacy.secrets = {} BY DEF Left
<1> QED BY <1>1, <1>2, LegacyIs DEF NoLegacy

LEMMA WithoutWhat ==
  ASSUME TypeOK, NEW e \in Entries(Wallet)
  PROVE  LET after == Without(e, disk.legacy)
         IN  /\ \E k \in {"secret", "metadata", "index", "active"} :
                  \E w \in Wallet \cup {None} : e = <<k, w>>
             /\ after.secrets = IF e[1] = "secret" THEN disk.legacy.secrets \ {e[2]}
                                ELSE disk.legacy.secrets
             /\ after.metadata = IF e[1] = "metadata" THEN disk.legacy.metadata \ {e[2]}
                                 ELSE disk.legacy.metadata
             /\ after.index = IF e[1] = "index" THEN {} ELSE disk.legacy.index
             /\ after.active = IF e[1] = "active" THEN None ELSE disk.legacy.active
<1>1. /\ e[1] \in {"secret", "metadata", "index", "active"}
      /\ \E w \in Wallet \cup {None} : e = <<e[1], w>>
  BY DEF Entries
<1>2. CASE e[1] = "secret" BY <1>1, <1>2, LegacyIs DEF Without
<1>3. CASE e[1] = "metadata" BY <1>1, <1>3, LegacyIs DEF Without
<1>4. CASE e[1] = "index" BY <1>1, <1>4, LegacyIs DEF Without
<1>5. CASE e[1] = "active" BY <1>1, <1>5, LegacyIs DEF Without
<1> QED BY <1>1, <1>2, <1>3, <1>4, <1>5

\* An entry is deleted: the index and the active wallet only when no other is
\* left.
LEMMA PurgeOne ==
  ASSUME TypeOK, boot.purge \in SUBSET Entries(Wallet), Due, Left \subseteq disk.legacy.index,
         NEW e \in boot.purge, MayPurge(e), boot'.purge = boot.purge \ {e},
         disk'.legacy = Without(e, disk.legacy)
  PROVE  Due' /\ Left' \subseteq Left /\ Left' \subseteq disk'.legacy.index
<1>1. e \in Entries(Wallet) OBVIOUS
<1>2. PICK k \in {"secret", "metadata", "index", "active"}, w \in Wallet \cup {None} :
        e = <<k, w>>
  BY <1>1, WithoutWhat
<1>3. /\ disk'.legacy.secrets =
           IF k = "secret" THEN disk.legacy.secrets \ {w} ELSE disk.legacy.secrets
      /\ disk'.legacy.metadata =
           IF k = "metadata" THEN disk.legacy.metadata \ {w} ELSE disk.legacy.metadata
      /\ disk'.legacy.index = IF k = "index" THEN {} ELSE disk.legacy.index
      /\ disk'.legacy.active = IF k = "active" THEN None ELSE disk.legacy.active
  <2>1. e[1] = k /\ e[2] = w BY <1>2
  <2> QED BY <1>1, <2>1, WithoutWhat
<1>4. Due' BY <1>2, <1>3 DEF Due
<1>5. Left' \subseteq Left BY <1>3 DEF Left
<1>6. ASSUME k = "index" PROVE Left = {}
  <2>1. boot.purge \subseteq Entries({}) BY <1>2, <1>6 DEF MayPurge
  <2>2. \A v : <<"secret", v>> \notin boot.purge /\ <<"metadata", v>> \notin boot.purge
    BY <2>1 DEF Entries
  <2> QED BY <2>2 DEF Due, Left
<1> QED BY <1>3, <1>4, <1>5, <1>6

\* A new list covers what is left when it names every wallet.
LEMMA DueAtFirst ==
  ASSUME TypeOK, NEW ids, Left \subseteq ids, disk' = disk \/ disk'.legacy = disk.legacy,
         boot'.purge = Entries(ids)
  PROVE  Due'
<1>1. disk'.legacy = disk.legacy OBVIOUS
<1>2. /\ \A w \in ids : <<"secret", w>> \in Entries(ids) /\ <<"metadata", w>> \in Entries(ids)
      /\ <<"index", None>> \in Entries(ids) /\ <<"active", None>> \in Entries(ids)
  BY DEF Entries
<1> QED BY <1>1, <1>2 DEF Due, Left

\* A launch that ends, and any step after which nothing is under way.
LEMMA IdleCleared ==
  ASSUME Cleared, boot' = Idle, faults' = 0 => faults = 0,
         disk' = disk \/ DiskIs(disk.vault, None, disk.key, disk.legacy)
                      \/ DiskIs(None, None, disk.key, disk.legacy)
  PROVE  Cleared'
BY IdleIs DEF Cleared, Left, DiskIs, LegacyContent

LEMMA ClearedStep == ASSUME IInv, Course, Cleared, [Next]_vars PROVE Cleared'
<1>1. TypeOK /\ Stage /\ faults \in Nat BY BoundAssumption DEF IInv, TypeOK
<1>2. CASE faults' # 0 BY <1>2 DEF Cleared
<1> SUFFICES ASSUME faults' = 0 PROVE Cleared' BY <1>2
<1>3. GivesUp => Cleared' BY <1>1, IdleCleared DEF GivesUp, Reject
<1>4. ~ Caught BY <1>1 DEF Caught
<1>5. CASE Launch
  BY <1>1, <1>3, <1>5, LaunchWhat DEF Cleared, Left, LegacyContent, BootIs, DiskIs, GoesOn
<1>6. CASE Promote
  BY <1>3, <1>6, PromoteWhat DEF Cleared, Left, BootIs, DiskIs, GoesOn
<1>7. CASE RemovePending \/ Verify
  <2>1. /\ disk.vault # None /\ current = disk.vault.content /\ ~ boot.reinstall
    BY <1>1, <1>7, RemovePendingWhat, VerifyWhat DEF Stage, Opened
  <2>2. CASE GivesUp BY <1>3, <2>2
  <2>3. CASE ~ GivesUp
    <3>1. boot'.purge = Entries(disk.vault.content.index) /\ disk'.legacy = disk.legacy
          /\ faults = 0
      BY <1>7, <2>1, <2>3, RemovePendingWhat, VerifyWhat DEF DiskIs, GoesOn
    <3>2. Left \subseteq disk.vault.content.index BY <2>1, <3>1 DEF Cleared
    <3>3. Due' BY <1>1, <3>1, <3>2, DueAtFirst
    <3> QED BY <1>7, <2>1, <2>3, <3>1, <3>3, RemovePendingWhat, VerifyWhat
            DEF Cleared, Left, BootIs, DiskIs
  <2> QED BY <2>2, <2>3
<1>8. CASE Flag
  BY <1>3, <1>8, FlagWhat DEF Cleared, Left, BootIs, DiskIs, GoesOn
<1>9. CASE ListLegacy
  <2>1. CASE GivesUp BY <1>3, <2>1
  <2>2. CASE ~ GivesUp
    <3>1. boot'.purge = Entries(disk.legacy.index) /\ disk'.legacy = disk.legacy /\ faults = 0
      BY <1>9, <2>2, ListLegacyWhat DEF DiskIs, GoesOn
    <3>2. Left \subseteq disk.legacy.index BY <3>1 DEF Cleared
    <3>3. Due' BY <1>1, <3>1, <3>2, DueAtFirst
    <3> QED BY <1>9, <2>2, <3>1, <3>3, ListLegacyWhat DEF Cleared, Left, BootIs, DiskIs
  <2> QED BY <2>1, <2>2
<1>10. CASE DropKey \/ DiscardPending
  BY <1>3, <1>10, DropKeyWhat, DiscardPendingWhat DEF Cleared, Left, BootIs, DiskIs, GoesOn
<1>11. CASE ReadLegacy
  <2>1. ~ boot.reinstall BY <1>11, ReadLegacyWhat DEF Course
  <2> QED BY <1>3, <1>11, <2>1, ReadLegacyWhat DEF Cleared, Left, BootIs, DiskIs, GoesOn
<1>12. CASE Encrypt
  <2>1. CASE GivesUp BY <1>3, <2>1
  <2>2. CASE ~ GivesUp
    <3>1. PICK item \in Item :
            /\ item.content = IF boot.reinstall THEN Empty ELSE LegacyContent
            /\ GoesOn /\ DiskIs(disk.vault, item, disk.key, disk.legacy)
            /\ BootIs("commitKey", boot.reinstall, item)
      BY <1>12, <2>2, EncryptWhat
    <3>2. boot.step = "encrypt" /\ faults = 0 BY <1>12, <3>1, EncryptWhat DEF GoesOn
    <3>3. item.content = LegacyContent
      BY <1>1, <3>1, <3>2, NothingLeft DEF Cleared
    <3>4. Left \subseteq item.content.index BY <3>2, <3>3 DEF Cleared, LegacyContent
    <3>5. LegacyContent' = LegacyContent /\ Left' = Left
      BY <3>1 DEF LegacyContent, DiskIs, Left
    <3> QED BY <3>1, <3>2, <3>3, <3>4, <3>5 DEF Cleared, BootIs, DiskIs
  <2> QED BY <2>1, <2>2
<1>13. CASE CommitKey
  BY <1>4, <1>13, CommitKeyWhat DEF Cleared, Left, BootIs, DiskIs, GoesOn
<1>14. CASE CommitVault
  BY <1>1, <1>4, <1>14, CommitVaultWhat, NoneIsNothing
  DEF Cleared, Left, BootIs, DiskIs, GoesOn, Stage
<1>15. CASE DropPending
  BY <1>4, <1>15, DropPendingWhat DEF Cleared, Left, BootIs, DiskIs, GoesOn
<1>16. CASE UndoKey \/ UndoPending
  BY <1>1, <1>16, UndoKeyWhat, UndoPendingWhat
  DEF Course, Caught, GoesOn, GivesUp
<1>17. CASE Purge
  <2>1. /\ boot.step = "purge" /\ faults = 0
    BY <1>1, <1>17, PurgeWhat
  <2>2. PICK e \in boot.purge :
          /\ MayPurge(e)
          /\ boot'.purge = boot.purge \ {e}
          /\ BootIs(IF boot.purge # {e} THEN "purge"
                    ELSE IF boot.reinstall THEN "dropKey" ELSE "ready",
                    boot.reinstall, boot.new)
          /\ DiskIs(disk.vault, disk.pending, disk.key, Without(e, disk.legacy))
    BY <1>1, <1>17, PurgeWhat
  <2>3. boot.purge \in SUBSET Entries(Wallet) BY <1>1 DEF TypeOK, Boot
  <2>4. Due' /\ Left' \subseteq Left /\ Left' \subseteq disk'.legacy.index
    BY <1>1, <2>1, <2>2, <2>3, PurgeOne DEF Cleared, DiskIs
  <2>5. boot'.step # "purge" => disk'.legacy = NoLegacy
    <3>1. SUFFICES ASSUME boot'.step # "purge" PROVE disk'.legacy = NoLegacy OBVIOUS
    <3>2. boot'.purge = {} BY <2>2, <3>1 DEF BootIs
    <3>3. Left' = {} /\ disk'.legacy.index = {} /\ disk'.legacy.active = None
      BY <2>4, <3>2 DEF Due, Left
    <3>4. TypeOK' BY Inductive DEF IInv
    <3>5. (TypeOK => (Left = {} /\ disk.legacy.index = {} /\ disk.legacy.active = None
                        => disk.legacy = NoLegacy))'
      BY NothingLeft, PTL
    <3> QED BY <3>3, <3>4, <3>5
  <2>6. boot'.step \in {"purge", "dropKey", "ready"} BY <2>2 DEF BootIs
  <2> QED BY <2>1, <2>2, <2>4, <2>5, <2>6 DEF Cleared, DiskIs
<1>18. ASSUME NEW c \in Call, Ask(c) \/ Await(c) \/ Publish(c) PROVE Cleared'
  BY <1>18, RestWhat DEF Cleared, Left, Due, LegacyContent
<1>19. ASSUME NEW c \in Call, Write(c) PROVE Cleared'
  <2>1. ~ Fault BY <1>1 DEF Fault
  <2>2. /\ boot.step = "ready" /\ boot' = boot /\ faults = 0 /\ disk'.legacy = disk.legacy
    BY <1>19, <2>1, WriteWhat DEF DiskIs
  <2>3. disk'.legacy = NoLegacy /\ Left' = {}
    BY <2>2 DEF Cleared, Left, NoLegacy
  <2> QED BY <2>2, <2>3 DEF Cleared
<1>20. CASE Crash BY <1>20, RestWhat, IdleCleared
<1>21. CASE Uninstall BY <1>21, RestWhat, UninstallWhat, IdleCleared
<1>22. CASE UNCHANGED vars BY <1>22 DEF vars, limits, Cleared, Left, Due, LegacyContent
<1> QED BY <1>5, <1>6, <1>7, <1>8, <1>9, <1>10, <1>11, <1>12, <1>13, <1>14, <1>15, <1>16, <1>17,
           <1>18, <1>19, <1>20, <1>21, <1>22 DEF Next
-----------------------------------------------------------------------------
(* No wallet of before the vault is lost to a single error.                *)

\* The wallets that can be read from the Keychain, and from what a ciphertext
\* holds.
Intact == disk.legacy.index \cap disk.legacy.metadata \cap disk.legacy.secrets
Held(content) == content.index \cap content.secrets

\* Where the wallets are depends on what is stored: without a key they are in
\* the Keychain, with one they are in the vault, or in the pending copy where
\* there is none.  A key alone says that the user has none of before the vault,
\* which is why the second error is fatal: UndoKey fails, and leaves it alone.
Kept == faults <= 1 =>
  /\ disk.key = None => old \subseteq Intact
  /\ disk.key # None /\ disk.vault # None => old \subseteq Held(disk.vault.content)
  /\ disk.key # None /\ disk.vault = None /\ disk.pending # None =>
       old \subseteq Held(disk.pending.content)
  /\ disk.key # None /\ disk.vault = None /\ disk.pending = None => old = {}
  /\ boot.reinstall => old = {}
  /\ boot.step = "commitKey" => old \subseteq Held(boot.new.content)
  /\ boot.step \in {"commitKey", "commitVault", "dropPending", "undoKey"} =>
       old \subseteq Intact
  /\ boot.step = "undoPending" => disk.key = None

\* A mutation takes no wallet out of the vault but the one it removes.
LEMMA ChangedHolds ==
  ASSUME NEW m \in Mutation, NEW content \in Content,
         NEW ids, ids \subseteq Held(content)
  PROVE  (IF m.kind = "remove" THEN ids \ {m.id} ELSE ids) \subseteq Held(Changed(m, content))
<1>1. content = [index |-> content.index, secrets |-> content.secrets,
                 active |-> content.active]
  BY DEF Content
<1>2. CASE m.kind = "metadata" BY <1>1, <1>2 DEF Changed, Held
<1>3. CASE m.kind = "secret" BY <1>1, <1>3 DEF Changed, Held
<1>4. CASE m.kind = "active" BY <1>1, <1>4 DEF Changed, Held
<1>5. CASE m.kind = "remove" BY <1>5 DEF Changed, Held
<1>6. m.kind \in {"metadata", "secret", "active", "remove"} BY DEF Mutation
<1> QED BY <1>2, <1>3, <1>4, <1>5, <1>6

\* After a launch that ends, a death or a reader nothing has changed.
LEMMA IdleKept ==
  ASSUME Kept, boot' = Idle, disk' = disk, old' = old, faults' <= 1 => faults <= 1
  PROVE  Kept'
BY IdleIs DEF Kept, Intact, Held

LEMMA KeptStep == ASSUME IInv, Course, Kept, [Next]_vars PROVE Kept'
<1>1. TypeOK /\ Fits /\ Stage /\ faults \in Nat BY BoundAssumption DEF IInv, TypeOK
<1> SUFFICES ASSUME faults' <= 1 PROVE Kept' BY DEF Kept
<1>2. GivesUp => Kept' BY <1>1, IdleKept DEF GivesUp, Reject
<1>3. CASE Launch
  <2>1. CASE GivesUp BY <1>2, <2>1
  <2>2. CASE ~ GivesUp
    <3>1. Classified = "reinstall" => disk.key # None /\ disk.vault = None /\ disk.pending = None
      BY <1>1, ClassifiedSays DEF Classified
    <3> QED BY <1>3, <2>2, <3>1, LaunchWhat
            DEF Kept, Intact, Held, BootIs, DiskIs, GoesOn
  <2> QED BY <2>1, <2>2
<1>4. CASE Promote
  BY <1>1, <1>2, <1>4, PromoteWhat
  DEF Kept, Intact, Held, BootIs, DiskIs, GoesOn, Course, Stage
<1>5. CASE RemovePending
  BY <1>1, <1>2, <1>5, RemovePendingWhat
  DEF Kept, Intact, Held, BootIs, DiskIs, GoesOn, Stage, Opened
<1>6. CASE Flag \/ ListLegacy \/ ReadLegacy \/ Verify
  BY <1>2, <1>6, FlagWhat, ListLegacyWhat, ReadLegacyWhat, VerifyWhat
  DEF Kept, Intact, Held, BootIs, DiskIs, GoesOn
<1>7. CASE DropKey
  <2>1. boot.reinstall BY <1>1, <1>7, DropKeyWhat DEF Stage, Starting
  <2> QED BY <1>2, <1>7, <2>1, DropKeyWhat DEF Kept, Intact, Held, BootIs, DiskIs, GoesOn
<1>8. CASE DiscardPending
  BY <1>1, <1>2, <1>8, DiscardPendingWhat
  DEF Kept, Intact, Held, BootIs, DiskIs, GoesOn, Stage
<1>9. CASE Encrypt
  <2>1. CASE GivesUp BY <1>2, <2>1
  <2>2. CASE ~ GivesUp
    <3>1. PICK item \in Item :
            /\ item.content = IF boot.reinstall THEN Empty ELSE LegacyContent
            /\ GoesOn /\ DiskIs(disk.vault, item, disk.key, disk.legacy)
            /\ BootIs("commitKey", boot.reinstall, item)
      BY <1>9, <2>2, EncryptWhat
    <3>2. disk.key = None /\ faults <= 1 BY <1>1, <1>9, <3>1, EncryptWhat DEF Stage, GoesOn
    <3>3. old \subseteq Held(item.content)
      BY <3>1, <3>2 DEF Kept, Intact, Held, LegacyContent
    <3> QED BY <3>1, <3>2, <3>3 DEF Kept, Intact, BootIs, DiskIs, GoesOn
  <2> QED BY <2>1, <2>2
<1>10. CASE CommitKey
  <2>1. disk.pending = boot.new /\ disk.vault = None /\ disk.key = None /\ boot.new # None
    BY <1>1, <1>10, CommitKeyWhat, NoneIsNothing DEF Stage
  <2>2. faults <= 1 BY <1>1, <1>10, CommitKeyWhat DEF Caught, GoesOn
  <2> QED BY <1>10, <2>1, <2>2, CommitKeyWhat
          DEF Kept, Intact, BootIs, DiskIs, GoesOn, Caught
<1>11. CASE CommitVault
  <2>1. /\ disk.pending = boot.new /\ disk.vault = None /\ boot.new # None
        /\ disk.key # None
    BY <1>1, <1>11, CommitVaultWhat, NoneIsNothing, ItemType DEF Stage
  <2>2. faults <= 1 BY <1>1, <1>11, CommitVaultWhat DEF Caught, GoesOn
  <2> QED BY <1>11, <2>1, <2>2, CommitVaultWhat
          DEF Kept, Intact, BootIs, DiskIs, GoesOn, Caught
<1>12. CASE DropPending
  <2>1. disk.vault # None /\ disk.key # None
    BY <1>1, <1>12, DropPendingWhat, NoneIsNothing, ItemType DEF Stage
  <2>2. faults <= 1 BY <1>1, <1>12, DropPendingWhat DEF Caught, GoesOn
  <2> QED BY <1>12, <2>1, <2>2, DropPendingWhat
          DEF Kept, Intact, BootIs, DiskIs, GoesOn, Caught
<1>13. CASE UndoKey
  <2>1. ~ Caught BY <1>1, <1>13, UndoKeyWhat DEF Course, Caught
  <2> QED BY <1>13, <2>1, UndoKeyWhat DEF Kept, Intact, BootIs, DiskIs, GoesOn
<1>14. CASE UndoPending
  <2>1. CASE GivesUp BY <1>2, <2>1
  <2>2. CASE ~ GivesUp
    <3>1. boot'.step = "idle" /\ boot'.reinstall = FALSE
      BY <1>14, <2>2, UndoPendingWhat, IdleIs DEF Reject
    <3> QED BY <1>14, <2>2, <3>1, UndoPendingWhat DEF Kept, Intact, DiskIs
  <2> QED BY <2>1, <2>2
<1>15. CASE Purge
  <2>1. boot.step = "purge" /\ old' = old /\ faults <= 1
    BY <1>1, <1>15, PurgeWhat
  <2>2. /\ disk'.vault = disk.vault /\ disk'.pending = disk.pending /\ disk'.key = disk.key
        /\ boot'.step \in {"purge", "dropKey", "ready"} /\ boot'.reinstall = boot.reinstall
    BY <1>15, PurgeWhat DEF DiskIs, BootIs
  <2>3. disk.key # None BY <1>1, <2>1 DEF Course, Stage, Opened, Starting
  <2> QED BY <2>1, <2>2, <2>3 DEF Kept
<1>16. ASSUME NEW c \in Call, Ask(c) \/ Await(c) \/ Publish(c) PROVE Kept'
  BY <1>16, RestWhat DEF Kept, Intact
<1>17. ASSUME NEW c \in Call, Write(c) PROVE Kept'
  <2>1. CASE Fault /\ UNCHANGED <<disk, old>>
    <3>1. faults <= 1 BY <1>1, <2>1 DEF Fault
    <3> QED BY <1>17, <2>1, <3>1, WriteWhat DEF Kept, Intact
  <2>2. CASE ~ (Fault /\ UNCHANGED <<disk, old>>)
    <3> DEFINE item == [content |-> Changed(asked[c], current), key |-> disk.key]
    <3>1. /\ boot' = boot /\ boot.step = "ready" /\ disk.vault # None /\ disk.key # None
          /\ current = disk.vault.content /\ asked[c] \in Mutation /\ faults <= 1
          /\ DiskIs(item, disk.pending, disk.key, disk.legacy)
          /\ old' = IF asked[c].kind = "remove" THEN old \ {asked[c].id} ELSE old
      BY <1>17, <2>2, WriteWhat
    <3>2. disk.vault \in Item /\ current \in Content /\ disk.key \in Key
      BY <1>1, <3>1, DiskType, ItemType
    <3>3. old' \subseteq Held(item.content)
      BY <3>1, <3>2, ChangedHolds DEF Kept
    <3>4. item \in Item /\ item # None
      BY <3>1, <3>2, ChangedType, NoneIsNothing DEF Item
    <3>5. old' \subseteq old BY <3>1
    <3> HIDE DEF item
    <3> QED BY <3>1, <3>3, <3>4, <3>5 DEF Kept, DiskIs
  <2> QED BY <2>1, <2>2
<1>18. CASE Crash BY <1>18, RestWhat, IdleKept
<1>19. CASE Uninstall
  <2>1. boot'.step = "idle" /\ boot'.reinstall = FALSE /\ faults' = faults
    BY <1>19, RestWhat, IdleIs
  <2> QED BY <1>19, <2>1, UninstallWhat DEF Kept, Intact, DiskIs
<1>20. CASE UNCHANGED vars BY <1>20 DEF vars, limits, Kept, Intact
<1> QED BY <1>3, <1>4, <1>5, <1>6, <1>7, <1>8, <1>9, <1>10, <1>11, <1>12, <1>13, <1>14, <1>15,
           <1>16, <1>17, <1>18, <1>19, <1>20 DEF Next
-----------------------------------------------------------------------------
(* What the next launch comes up with, and why a mutation fails.           *)

\* By what is stored.
LEMMA DurableIs ==
  /\ disk.vault # None /\ disk.key # None => Durable = disk.vault.content
  /\ disk.vault # None /\ disk.key = None => Durable = None
  /\ disk.vault = None /\ disk.pending # None /\ disk.key # None =>
       Durable = disk.pending.content
  /\ disk.vault = None /\ disk.pending = None /\ disk.key # None => Durable = Empty
  /\ disk.vault = None /\ disk.key = None => Durable = LegacyContent
BY DEF Durable, Classified

LEMMA DurableStep ==
  ASSUME IInv, Course, Cleared, [Next]_vars, faults' = 0, uninstalls' = uninstalls
  PROVE  \/ Durable' = Durable
         \/ \E c \in Call : Write(c) /\ Durable' = Changed(asked[c], Durable)
<1>1. TypeOK /\ Stage /\ faults \in Nat /\ uninstalls \in Nat BY BoundAssumption DEF IInv, TypeOK
<1>2. (/\ disk.vault # None /\ disk.key # None => Durable = disk.vault.content
       /\ disk.vault # None /\ disk.key = None => Durable = None
       /\ disk.vault = None /\ disk.pending # None /\ disk.key # None =>
            Durable = disk.pending.content
       /\ disk.vault = None /\ disk.pending = None /\ disk.key # None => Durable = Empty
       /\ disk.vault = None /\ disk.key = None => Durable = LegacyContent)'
  BY DurableIs, PTL
<1>3. disk'.legacy = disk.legacy => LegacyContent' = LegacyContent BY DEF LegacyContent
<1>4. ASSUME DiskIs(disk.vault, disk.pending, disk.key, disk.legacy) \/ disk' = disk
      PROVE  Durable' = Durable
  BY <1>2, <1>3, <1>4, DurableIs DEF DiskIs
<1>5. GivesUp => Durable' = Durable BY <1>4 DEF GivesUp
<1>6. ~ Caught BY <1>1 DEF Caught
<1>7. CASE Launch \/ Flag \/ ListLegacy \/ ReadLegacy \/ Verify
  BY <1>4, <1>5, <1>7, LaunchWhat, FlagWhat, ListLegacyWhat, ReadLegacyWhat, VerifyWhat
<1>8. CASE Promote
  BY <1>1, <1>2, <1>5, <1>8, PromoteWhat, DurableIs DEF Course, Stage, DiskIs
<1>9. CASE RemovePending
  BY <1>1, <1>2, <1>5, <1>9, RemovePendingWhat, DurableIs DEF Stage, Opened, DiskIs
<1>10. CASE DropKey
  <2>1. CASE GivesUp BY <1>5, <2>1
  <2>2. CASE ~ GivesUp
    <3>1. /\ boot.step = "dropKey" /\ faults = 0
          /\ DiskIs(disk.vault, disk.pending, None, disk.legacy)
      BY <1>10, <2>2, DropKeyWhat DEF GoesOn
    <3>2. boot.reinstall /\ disk.vault = None /\ disk.pending = None /\ disk.key # None
      BY <1>1, <3>1 DEF Stage, Starting, Course
    <3>3. LegacyContent' = Empty
      BY <1>1, <1>3, <3>1, <3>2, NothingLeft DEF Cleared, DiskIs
    <3> QED BY <1>2, <3>1, <3>2, <3>3, DurableIs DEF DiskIs
  <2> QED BY <2>1, <2>2
<1>11. CASE DiscardPending
  BY <1>1, <1>2, <1>3, <1>5, <1>11, DiscardPendingWhat, DurableIs DEF Stage, DiskIs
<1>12. CASE Encrypt
  <2>1. CASE GivesUp BY <1>5, <2>1
  <2>2. CASE ~ GivesUp
    <3>1. PICK item \in Item : DiskIs(disk.vault, item, disk.key, disk.legacy)
      BY <1>12, <2>2, EncryptWhat
    <3>2. disk.vault = None /\ disk.key = None BY <1>1, <1>12, EncryptWhat DEF Stage
    <3> QED BY <1>2, <1>3, <3>1, <3>2, DurableIs DEF DiskIs
  <2> QED BY <2>1, <2>2
<1>13. CASE CommitKey
  <2>1. /\ boot.step = "commitKey" /\ faults = 0
        /\ DiskIs(disk.vault, disk.pending, boot.new.key, disk.legacy)
    BY <1>6, <1>13, CommitKeyWhat DEF GoesOn
  <2>2. /\ disk.pending = boot.new /\ disk.vault = None /\ disk.key = None
        /\ boot.new # None /\ boot.new.key # None
    BY <1>1, <2>1, NoneIsNothing, ItemType DEF Stage
  <2>3. boot.new.content = LegacyContent BY <2>1 DEF Cleared
  <2> QED BY <1>2, <2>1, <2>2, <2>3, DurableIs DEF DiskIs
<1>14. CASE CommitVault
  <2>1. /\ boot.step = "commitVault"
        /\ DiskIs(boot.new, disk.pending, disk.key, disk.legacy)
    BY <1>6, <1>14, CommitVaultWhat
  <2>2. /\ disk.pending = boot.new /\ disk.vault = None /\ disk.key # None
        /\ boot.new # None
    BY <1>1, <2>1, NoneIsNothing, ItemType DEF Stage
  <2> QED BY <1>2, <2>1, <2>2, DurableIs DEF DiskIs
<1>15. CASE DropPending
  <2>1. disk.vault # None /\ disk.key # None
    BY <1>1, <1>15, DropPendingWhat, NoneIsNothing, ItemType DEF Stage
  <2> QED BY <1>2, <1>6, <1>15, <2>1, DropPendingWhat, DurableIs DEF DiskIs
<1>16. CASE UndoKey \/ UndoPending
  BY <1>1, <1>16, UndoKeyWhat, UndoPendingWhat DEF Course, Caught, GoesOn, GivesUp
<1>17. CASE Purge
  <2>1. boot.step = "purge" BY <1>17, PurgeWhat
  <2>2. /\ disk.key # None
        /\ disk.vault # None \/ (disk.vault = None /\ disk.pending = None)
    BY <1>1, <2>1 DEF Stage, Opened, Starting, Course
  <2>3. disk'.vault = disk.vault /\ disk'.pending = disk.pending /\ disk'.key = disk.key
    BY <1>17, PurgeWhat DEF DiskIs
  <2> QED BY <1>2, <2>2, <2>3, DurableIs
<1>18. ASSUME NEW c \in Call, Ask(c) \/ Await(c) \/ Publish(c) PROVE Durable' = Durable
  BY <1>4, <1>18, RestWhat
<1>19. ASSUME NEW c \in Call, Write(c)
       PROVE  Durable' = Durable \/ Durable' = Changed(asked[c], Durable)
  <2>1. CASE Fault /\ UNCHANGED <<disk, old>> BY <1>4, <2>1
  <2>2. CASE ~ (Fault /\ UNCHANGED <<disk, old>>)
    <3> DEFINE item == [content |-> Changed(asked[c], current), key |-> disk.key]
    <3>1. /\ disk.vault # None /\ disk.key # None /\ current = disk.vault.content
          /\ asked[c] \in Mutation /\ DiskIs(item, disk.pending, disk.key, disk.legacy)
      BY <1>19, <2>2, WriteWhat
    <3>2. disk.vault \in Item /\ current \in Content /\ disk.key \in Key
      BY <1>1, <3>1, DiskType, ItemType
    <3>3. item # None BY <3>1, <3>2, ChangedType, NoneIsNothing DEF Item
    <3>4. item.content = Changed(asked[c], current) OBVIOUS
    <3> HIDE DEF item
    <3> QED BY <1>2, <3>1, <3>3, <3>4, DurableIs DEF DiskIs
  <2> QED BY <2>1, <2>2
<1>20. CASE Crash \/ UNCHANGED vars BY <1>4, <1>20, RestWhat DEF vars
<1>21. ~ Uninstall BY <1>1, RestWhat
<1> QED BY <1>7, <1>8, <1>9, <1>10, <1>11, <1>12, <1>13, <1>14, <1>15, <1>16, <1>17, <1>18,
           <1>19, <1>20, <1>21 DEF Next

\* A launch that throws fails the one call that waits for it.
LEMMA RejectFails ==
  ASSUME IInv, Reject, NEW c \in Call, pc[c] # "failed", pc'[c] = "failed"
  PROVE  c = Head(queue)
<1>1. pc[c] = "waiting" BY DEF IInv, TypeOK, Reject, Waiters
<1> QED BY <1>1 DEF IInv, Line

LEMMA CauseStep ==
  ASSUME IInv, Course, [Next]_vars, NEW c \in Call, pc[c] # "failed", pc'[c] = "failed"
  PROVE  \/ crashes' # crashes \/ uninstalls' # uninstalls
         \/ /\ c = Head(queue)
            /\ \/ faults' # faults
               \/ boot.step = "undoPending"
               \/ Classified = "invalid"
               \/ ~LegacyComplete
<1>1. /\ TypeOK /\ Fits /\ Stage /\ Line /\ faults \in Nat /\ crashes \in Nat
      /\ uninstalls \in Nat
  BY BoundAssumption DEF IInv, TypeOK
<1>2. Fault => faults' # faults BY <1>1 DEF Fault
<1>3. UNCHANGED pc => FALSE OBVIOUS
<1>4. ASSUME NEW step, NEW stored, NEW next, Does(step, stored, next)
      PROVE  Fault /\ Reject
  BY <1>3, <1>4 DEF Does, Proceed, calls
<1>5. CASE Launch
  <2>1. /\ Classified = "open" => disk.vault # None /\ disk.key # None
        /\ Classified = "resume" => disk.pending # None /\ disk.key # None
    BY DEF Classified
  <2>2. /\ Classified = "open" => disk.vault.key = disk.key
        /\ Classified = "resume" => disk.pending.key = disk.key
    BY <1>1, <2>1 DEF Fits
  <2>3. \A step : ~ Begins(step) BY <1>3 DEF Begins, calls
  <2>4. Reject /\ (Fault \/ Classified = "invalid")
    BY <1>5, <2>2, <2>3 DEF Launch, Decrypts
  <2> QED BY <1>2, <2>4, RejectFails
<1>6. CASE Promote \/ RemovePending \/ Flag \/ ListLegacy \/ DropKey \/ DiscardPending
  BY <1>2, <1>4, <1>6, RejectFails
  DEF Promote, RemovePending, Flag, ListLegacy, DropKey, DiscardPending
<1>7. CASE ReadLegacy BY <1>2, <1>4, <1>7, RejectFails DEF ReadLegacy
<1>8. CASE Encrypt
  <2>1. \E stored, next : Does("encrypt", stored, next) BY <1>8, Zenon DEF Encrypt
  <2> QED BY <1>2, <1>4, <2>1, RejectFails
<1>9. ~ (CommitKey \/ CommitVault \/ DropPending \/ UndoKey)
  BY <1>3 DEF CommitKey, CommitVault, DropPending, UndoKey, Tries, Attempts, Proceed, calls
<1>10. CASE UndoPending BY <1>10, RejectFails DEF UndoPending
<1>11. CASE Verify
  <2>1. Verified
    <3>1. /\ boot.new \in Item /\ disk.vault = boot.new /\ disk.key = boot.new.key
          /\ disk.vault # None /\ disk.key # None
      BY <1>1, <1>11 DEF Verify, Course, Stage, Opened
    <3>2. boot.new = [content |-> boot.new.content, key |-> boot.new.key] BY <3>1 DEF Item
    <3> QED BY <3>1, <3>2 DEF Verified
  <2> QED BY <1>2, <1>4, <1>11, <2>1, RejectFails DEF Verify
<1>12. ~ Purge BY <1>3, PurgeWhat
<1>13. ASSUME NEW d \in Call, Ask(d) \/ Await(d) \/ Publish(d) PROVE FALSE
  BY <1>1, <1>13 DEF Ask, Await, Publish, Over, TypeOK
<1>14. ASSUME NEW d \in Call, Write(d) PROVE c = Head(queue) /\ faults' # faults
  <2>1. c = d /\ c = Head(queue)
    BY <1>14, WriteWhat
  <2>2. Fault BY <1>14, <2>1, WriteWhat
  <2> QED BY <1>2, <2>1, <2>2
<1>15. CASE Crash BY <1>1, <1>15 DEF Crash
<1>16. CASE Uninstall BY <1>1, <1>16 DEF Uninstall
<1>17. ~ UNCHANGED vars BY <1>3 DEF vars, calls
<1> QED BY <1>5, <1>6, <1>7, <1>8, <1>9, <1>10, <1>11, <1>12, <1>13, <1>14, <1>15, <1>16,
           <1>17 DEF Next
-----------------------------------------------------------------------------
LEMMA InitRest == Init => Course /\ Cleared /\ Kept
<1> SUFFICES ASSUME Init PROVE Course /\ Cleared /\ Kept OBVIOUS
<1>1. PICK ids \in SUBSET Wallet : \E a \in ids \cup {None} :
        /\ disk = [vault |-> None, pending |-> None, flagged |-> FALSE, key |-> None,
                   legacy |-> [index |-> ids, active |-> a, metadata |-> ids, secrets |-> ids]]
        /\ old = ids
  BY DEF Init
<1>2. boot.step = "idle" /\ ~ boot.reinstall BY IdleIs DEF Init
<1>3. Course BY <1>2 DEF Course, Starting
<1>4. Cleared BY <1>1, <1>2 DEF Cleared, Left
<1>5. Kept BY <1>1, <1>2 DEF Kept, Intact
<1> QED BY <1>3, <1>4, <1>5

Whole == IInv /\ Course /\ Cleared /\ Kept

LEMMA WholeAlways == Spec => []Whole
<1>1. Init => Whole BY InitEstablishes, InitRest DEF Whole
<1>2. Whole /\ [Next]_vars => Whole'
  BY Inductive, CourseStep, ClearedStep, KeptStep DEF Whole
<1> QED BY <1>1, <1>2, PTL DEF Spec

\* deleteLegacyWalletStorage, which deletes by a list that an earlier launch may have cut short,
\* leaves nothing of the wallets of before the vault: where no storage call has thrown, none of
\* their secrets is in the Keychain once initializeWalletStorage is through.
THEOREM PurgeIsComplete == Spec => []LegacyIsPurged
<1>1. Whole => LegacyIsPurged BY DEF Whole, Cleared, LegacyIsPurged
<1> QED BY <1>1, WholeAlways, PTL

\* The promise of storage.ts:110 holds for one error: whichever storage call throws, and however
\* often the process dies, every wallet of before the vault that the user has not removed is kept
\* in the Keychain, the vault or its pending copy, and what is encrypted is kept with its key.
\* Whether a launch reads it from there is not said.
THEOREM OneErrorLosesNothing == Spec => [](faults <= 1 => OldWalletsRecoverable)
<1>1. Whole => (faults <= 1 => OldWalletsRecoverable)
  <2> SUFFICES ASSUME Whole, faults <= 1, NEW w \in old PROVE Readable(w)
    BY DEF OldWalletsRecoverable
  <2>1. Fits /\ Kept BY DEF Whole, IInv
  <2>2. CASE disk.key = None BY <2>1, <2>2 DEF Kept, Intact, Readable
  <2>3. CASE disk.key # None /\ disk.vault # None
    BY <2>1, <2>3 DEF Kept, Fits, Held, Readable
  <2>4. CASE disk.key # None /\ disk.vault = None
    BY <2>1, <2>4 DEF Kept, Fits, Held, Readable
  <2> QED BY <2>2, <2>3, <2>4
<1> QED BY <1>1, WholeAlways, PTL

\* Whatever a launch does to finish what an earlier one began, and wherever the process dies, the
\* next launch comes up with the same content: only the write of mutateVault changes it.
THEOREM LaunchKeepsContent == Spec => ContentIsDurable
<1>1. Whole /\ [Next]_vars =>
        [ faults' = 0 /\ uninstalls' = uninstalls
            => \/ Durable' = Durable
               \/ \E c \in Call : Write(c) /\ Durable' = Changed(asked[c], Durable) ]_vars
  BY DurableStep DEF Whole
<1> QED BY <1>1, WholeAlways, PTL DEF Spec, ContentIsDurable

\* A mutation fails for a storage call that throws under it, a vault that cannot be opened, or a
\* death: the catch on mutationQueue keeps the failure of one call from the next.
THEOREM MutationsFailAlone == Spec => FailsForCause
<1>1. Whole /\ [Next]_vars =>
        [ \A c \in Call : pc[c] # "failed" /\ pc'[c] = "failed"
            => \/ crashes' # crashes \/ uninstalls' # uninstalls
               \/ /\ c = Head(queue)
                  /\ \/ faults' # faults
                     \/ boot.step = "undoPending"
                     \/ Classified = "invalid"
                     \/ ~LegacyComplete ]_vars
  BY CauseStep DEF Whole
<1> QED BY <1>1, WholeAlways, PTL DEF Spec, FailsForCause
=============================================================================
