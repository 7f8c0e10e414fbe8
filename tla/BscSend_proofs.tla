--------------------------- MODULE BscSend_proofs ---------------------------
(***************************************************************************)
(* Proofs about the send service, for any set of quotes, payments, orders  *)
(* and calls, any number of crashes and storage faults, and any limits.    *)
(*                                                                         *)
(* That the network never holds an unrecorded transaction is not inductive:*)
(* whoever is about to broadcast must already have a record.  CallOK says  *)
(* so of a running call, with what its local variables refer to; Checking  *)
(* says so of the checks.                                                  *)
(*                                                                         *)
(* Further on, each question has its invariant:                            *)
(*   a quote is signed once              Memory, Once                      *)
(*   one call runs at a time             AheadJoined, Queueing             *)
(*   records tell the truth              Reported, Held                    *)
(*   signed bytes outlast uncertainty    Bytes, and Linked, Spare          *)
(* The service is seen from its records and the network in the last two:   *)
(* of all its steps only those of WorldStep change them.                   *)
(***************************************************************************)
EXTENDS BscSend, FiniteSetTheorems, TLAPS

Recorded(t) == stored[t] # None

\* Where a call has its transaction signed or to be signed.
Prepared == InSection \ {"prepare"}
\* Where a call may have broadcast or is about to.
Late == {"look", "mark", "clear", "markReplaced", "await"}

CallOK(o) ==
  /\ pc[o] \in Active => /\ job[o] \in Job
                         /\ IF IsExecute(o) THEN quote[job[o].quote] # None
                                            ELSE Recorded(job[o].original)
  /\ pc[o] \in Prepared => tx[o] \in Tx
  /\ pc[o] = "markReplaced" => ~IsExecute(o)
  /\ pc[o] \in Late => Recorded(tx[o])

\* Only recorded transactions are checked.
Checking == \A t \in Tx : check[t] # "idle" => Recorded(t)

IInv == /\ TypeOK
        /\ \A o \in Op : CallOK(o)
        /\ Checking
        /\ RecordedBeforeBroadcast

\* No step loses a record.
Kept == \A t \in Tx : Recorded(t) => Recorded(t)'
-----------------------------------------------------------------------------
(* What the helpers of the model do to the types and the records.          *)

LEMMA RememberType ==
  ASSUME NEW seq \in Seq(Quote), NEW q \in Quote
  PROVE  Remember(seq, q) \in Seq(Quote)
<1>1. Append(seq, q) \in Seq(Quote) OBVIOUS
<1>2. Append(seq, q) # <<>> OBVIOUS
<1>3. Tail(Append(seq, q)) \in Seq(Quote) BY <1>1, <1>2
<1> QED BY <1>1, <1>3 DEF Remember

\* A new record, and the three ways a record changes.
LEMMA NewRecordType ==
  ASSUME DiskTypes, NEW t \in Tx, NEW order \in Order \cup {None},
         stored' = [stored EXCEPT ![t] = NewRecord(order)]
  PROVE  stored' \in [Tx -> Record \cup {None}] /\ Kept /\ Recorded(t)'
<1>1. NewRecord(order) \in Record BY DEF NewRecord, Record
<1>2. NewRecord(order) # None BY <1>1, NoneAssumption
<1> QED BY <1>1, <1>2 DEF DiskTypes, Kept, Recorded

LEMMA MarkSeenType ==
  ASSUME DiskTypes, NEW t \in Tx, IsPending(t), MarkSeen(t)
  PROVE  stored' \in [Tx -> Record \cup {None}] /\ Kept
<1> DEFINE r == [stored[t] EXCEPT !.submission = "network_seen"]
<1>1. stored[t] \in Record BY DEF DiskTypes, IsPending
<1>2. r \in Record BY <1>1 DEF Record
<1>3. r # None BY <1>2, NoneAssumption
<1>4. stored' = [stored EXCEPT ![t] = r] BY DEF MarkSeen
<1> HIDE DEF r
<1> QED BY <1>2, <1>3, <1>4 DEF DiskTypes, Kept, Recorded

LEMMA UpdateType ==
  ASSUME DiskTypes, NEW t \in Tx, NEW status \in {"confirmed", "failed"},
         MayBecome(t, status), Update(t, status)
  PROVE  stored' \in [Tx -> Record \cup {None}] /\ Kept
<1> DEFINE r == [stored[t] EXCEPT !.status = status]
<1>1. stored[t] \in Record BY DEF DiskTypes, MayBecome
<1>2. r \in Record BY <1>1 DEF Record
<1>3. r # None BY <1>2, NoneAssumption
<1>4. stored' = [stored EXCEPT ![t] = r] BY DEF Update
<1> HIDE DEF r
<1> QED BY <1>2, <1>3, <1>4 DEF DiskTypes, Kept, Recorded

LEMMA ReplacedType ==
  ASSUME DiskTypes, NEW t \in Tx, NEW u \in Tx, MayBecome(t, "replaced"),
         stored' = [stored EXCEPT ![t].status = "replaced", ![t].replacement = u]
  PROVE  stored' \in [Tx -> Record \cup {None}] /\ Kept
<1> DEFINE r == [stored[t] EXCEPT !.status = "replaced", !.replacement = u]
<1>1. stored[t] \in Record BY DEF DiskTypes, MayBecome
<1>2. r \in Record BY <1>1 DEF Record
<1>3. r # None BY <1>2, NoneAssumption
<1>4. stored' = [stored EXCEPT ![t] = r] BY <1>1 DEF DiskTypes
<1> HIDE DEF r
<1> QED BY <1>2, <1>3, <1>4 DEF DiskTypes, Kept, Recorded

LEMMA FaultType == ASSUME LimitTypes, Fault PROVE LimitTypes'
BY BoundAssumption DEF LimitTypes, Fault

LEMMA TryUpdateType ==
  ASSUME DiskTypes, LimitTypes, NEW t \in Tx, NEW status \in {"confirmed", "failed"},
         TryUpdate(t, status), outbox' = outbox
  PROVE  DiskTypes' /\ LimitTypes' /\ Kept
<1>1. CASE MayBecome(t, status) /\ Update(t, status) /\ UNCHANGED limits
  <2>1. stored' \in [Tx -> Record \cup {None}] /\ Kept BY <1>1, UpdateType
  <2> QED BY <1>1, <2>1 DEF DiskTypes, LimitTypes, limits
<1>2. CASE UNCHANGED <<stored, limits>>
  BY <1>2 DEF DiskTypes, LimitTypes, limits, Kept, Recorded
<1>3. CASE Fault /\ UNCHANGED stored
  BY <1>3, FaultType DEF DiskTypes, Kept, Recorded
<1> QED BY <1>1, <1>2, <1>3 DEF TryUpdate

LEMMA DeleteSignedType ==
  ASSUME DiskTypes, LimitTypes, NEW t \in Tx, DeleteSigned(t), stored' = stored
  PROVE  DiskTypes' /\ LimitTypes' /\ Kept
<1>1. DiskTypes' /\ Kept BY DEF DiskTypes, DeleteSigned, Kept, Recorded
<1>2. CASE Fault BY <1>1, <1>2, FaultType
<1>3. CASE UNCHANGED limits BY <1>1, <1>3 DEF LimitTypes, limits
<1> QED BY <1>2, <1>3 DEF DeleteSigned

LEMMA TransmitType ==
  ASSUME NetworkTypes, NEW t \in Tx, Transmit(t)
  PROVE  NetworkTypes' /\ sent' \subseteq sent \cup {t}
BY DEF NetworkTypes, Transmit, network
-----------------------------------------------------------------------------
(* What a step does to the calls.                                          *)

Labels == Active \cup {"idle", "shared", "refused", "done"}

LEMMA GotoType ==
  ASSUME CallTypes, NEW o \in Op, NEW label \in Labels, Goto(o, label), ahead' = ahead
  PROVE  /\ CallTypes'
         /\ pc'[o] = label
         /\ \A p \in Op \ {o} : pc'[p] = pc[p]
         /\ \A p \in Op : job'[p] = job[p] /\ tx'[p] = tx[p]
BY DEF CallTypes, Goto, local, Labels

LEMMA LeaveType ==
  ASSUME CallTypes, NEW o \in Op, Leave(o), ahead' = ahead
  PROVE  /\ CallTypes'
         /\ pc'[o] = "done"
         /\ \A p \in Op \ {o} : pc'[p] = pc[p] /\ job'[p] = job[p] /\ tx'[p] = tx[p]
<1>1. 0 \in 0 .. BroadcastAttempts BY BoundAssumption
<1> QED BY <1>1 DEF CallTypes, Leave

LEMMA TurnAwayType ==
  ASSUME CallTypes, NEW o \in Op, NEW how \in {"shared", "refused"}, TurnAway(o, how)
  PROVE  /\ CallTypes'
         /\ pc'[o] = how
         /\ \A p \in Op \ {o} : pc'[p] = pc[p] /\ job'[p] = job[p] /\ tx'[p] = tx[p]
BY DEF CallTypes, TurnAway

LEMMA RunExclusiveType ==
  ASSUME CallTypes, NEW o \in Op, NEW task \in Job, RunExclusive(o, task)
  PROVE  /\ CallTypes'
         /\ pc'[o] \in {"queued", "refused"}
         /\ pc'[o] = "queued" => job'[o] = task
         /\ \A p \in Op \ {o} : pc'[p] = pc[p] /\ job'[p] = job[p] /\ tx'[p] = tx[p]
<1>1. CASE Cardinality(Outstanding) < MaxQueueDepth
  BY <1>1 DEF CallTypes, RunExclusive, Outstanding, Active
<1>2. CASE ~(Cardinality(Outstanding) < MaxQueueDepth)
  BY <1>2, TurnAwayType DEF RunExclusive
<1> QED BY <1>1, <1>2

\* A call another one's step did not touch is as it was.
LEMMA CallKept ==
  ASSUME CallTypes, Kept, NEW p \in Op, CallOK(p),
         pc'[p] = pc[p], job'[p] = job[p], tx'[p] = tx[p],
         \A q \in Quote : quote[q] # None => quote'[q] # None
  PROVE  CallOK(p)'
<1>1. pc[p] \in Active => job[p] \in Job BY DEF CallOK
<1>2. pc[p] \in Active /\ job[p].kind = "execute" => quote'[job[p].quote] # None
  BY <1>1 DEF CallOK, IsExecute, Job
<1>3. pc[p] \in Active /\ job[p].kind # "execute" => stored'[job[p].original] # None
  BY <1>1 DEF CallOK, IsExecute, Job, Kept, Recorded
<1>4. pc[p] \in Late => stored'[tx[p]] # None
  BY DEF CallOK, Kept, Recorded, Late, Prepared, InSection
<1> QED BY <1>1, <1>2, <1>3, <1>4 DEF CallOK, IsExecute, Recorded

\* A call that is over or was turned away refers to nothing.
LEMMA CallOver ==
  ASSUME NEW o \in Op, pc'[o] \in {"idle", "shared", "refused", "done"}
  PROVE  CallOK(o)'
BY DEF CallOK, Active, InSection, Prepared, Late
-----------------------------------------------------------------------------
(* The invariant is kept by a step of one call ...                         *)

Unsent == sent' = sent

LEMMA CallStep ==
  ASSUME IInv, TypeOK', Kept, NEW o \in Op, CallOK(o)',
         \A p \in Op \ {o} : pc'[p] = pc[p] /\ job'[p] = job[p] /\ tx'[p] = tx[p],
         quote' = quote, check' = check,
         \A t \in sent' \ sent : Recorded(t)'
  PROVE  IInv'
<1>1. \A p \in Op : CallOK(p)'
  <2> TAKE p \in Op
  <2>1. CASE p = o BY <2>1
  <2>2. CASE p # o BY <2>2, CallKept DEF IInv, TypeOK
  <2> QED BY <2>1, <2>2
<1>2. Checking' BY DEF IInv, Checking, Kept
<1>3. RecordedBeforeBroadcast'
  BY DEF IInv, TypeOK, NetworkTypes, RecordedBeforeBroadcast, Kept, Recorded
<1> QED BY <1>1, <1>2, <1>3 DEF IInv

\* ... and by a step of anyone else.
LEMMA OtherStep ==
  ASSUME IInv, TypeOK', Kept, UNCHANGED <<pc, job, tx>>,
         \A q \in Quote : quote[q] # None => quote'[q] # None,
         \A t \in Tx : check'[t] # "idle" => check[t] # "idle" \/ Recorded(t)',
         \A t \in sent' \ sent : Recorded(t)'
  PROVE  IInv'
<1>1. \A p \in Op : CallOK(p)' BY CallKept DEF IInv, TypeOK
<1>2. Checking' BY DEF IInv, Checking, Kept
<1>3. RecordedBeforeBroadcast'
  BY DEF IInv, TypeOK, NetworkTypes, RecordedBeforeBroadcast, Kept, Recorded
<1> QED BY <1>1, <1>2, <1>3 DEF IInv

\* The types and records a step leaves alone.
LEMMA QuotesKept == ASSUME QuoteTypes, UNCHANGED <<quotes, caches, signatures>>
                    PROVE  QuoteTypes' /\ quote' = quote
BY DEF QuoteTypes, quotes, caches

LEMMA NetworkKept == ASSUME NetworkTypes, UNCHANGED network
                     PROVE  NetworkTypes' /\ \A t \in sent' \ sent : Recorded(t)'
BY DEF NetworkTypes, network

LEMMA DiskKept == ASSUME DiskTypes, UNCHANGED disk PROVE DiskTypes' /\ Kept
BY DEF DiskTypes, disk, Kept, Recorded

LEMMA LimitsKept == ASSUME LimitTypes, UNCHANGED limits PROVE LimitTypes'
BY DEF LimitTypes, limits

LEMMA ChecksKept == ASSUME CheckTypes, UNCHANGED check PROVE CheckTypes'
BY DEF CheckTypes
-----------------------------------------------------------------------------
(* The steps of a call.                                                    *)

LEMMA BeginExecuteStep ==
  ASSUME IInv, NEW o \in Op, NEW q \in Quote, BeginExecute(o, q)
  PROVE  IInv'
<1> DEFINE task == [kind |-> "execute", quote |-> q]
<1>0. TypeOK BY DEF IInv
<1>1. task \in Job BY DEF Job
<1>2. CallTypes' /\ CallOK(o)'
      /\ \A p \in Op \ {o} : pc'[p] = pc[p] /\ job'[p] = job[p] /\ tx'[p] = tx[p]
  <2>1. CASE TurnAway(o, "shared")
    BY <2>1, <1>0, TurnAwayType, CallOver DEF TypeOK
  <2>2. CASE RunExclusive(o, task)
    <3>1. /\ CallTypes'
          /\ pc'[o] \in {"queued", "refused"}
          /\ pc'[o] = "queued" => job'[o] = task
          /\ \A p \in Op \ {o} : pc'[p] = pc[p] /\ job'[p] = job[p] /\ tx'[p] = tx[p]
      BY <2>2, <1>0, <1>1, RunExclusiveType DEF TypeOK
    <3>2. quote'[q] # None BY DEF BeginExecute, quotes
    <3>3. CASE pc'[o] = "refused" BY <3>1, <3>3, CallOver
    <3>4. CASE pc'[o] = "queued"
      BY <1>1, <3>1, <3>2, <3>4
      DEF CallOK, IsExecute, Active, InSection, Prepared, Late
    <3> QED BY <3>1, <3>3, <3>4
  <2> QED BY <2>1, <2>2 DEF BeginExecute
<1>3. UNCHANGED <<quotes, caches, check, disk, network, signatures, limits>>
  BY DEF BeginExecute
<1>4. TypeOK' /\ Kept /\ quote' = quote /\ \A t \in sent' \ sent : Recorded(t)'
  BY <1>0, <1>2, <1>3, QuotesKept, NetworkKept, DiskKept, LimitsKept, ChecksKept DEF TypeOK
<1> QED BY <1>2, <1>3, <1>4, CallStep

LEMMA BeginReplaceStep ==
  ASSUME IInv, NEW o \in Op, NEW t \in Tx, NEW mode \in {"speed-up", "cancel"},
         BeginReplace(o, t, mode)
  PROVE  IInv'
<1> DEFINE task == [kind |-> mode, original |-> t]
<1>0. TypeOK BY DEF IInv
<1>1. task \in Job BY DEF Job
<1>2. UNCHANGED <<quotes, caches, check, disk, network, signatures, limits>>
  BY DEF BeginReplace
<1>3. CallTypes' /\ CallOK(o)'
      /\ \A p \in Op \ {o} : pc'[p] = pc[p] /\ job'[p] = job[p] /\ tx'[p] = tx[p]
  <2>1. CASE TurnAway(o, "shared")
    BY <2>1, <1>0, TurnAwayType, CallOver DEF TypeOK
  <2>2. CASE /\ pc' = [pc EXCEPT ![o] = "snapshot"]
             /\ job' = [job EXCEPT ![o] = task]
             /\ UNCHANGED <<tx, tries, ahead>>
    <3>1. CallTypes' BY <2>2, <1>0, <1>1 DEF TypeOK, CallTypes, Active
    <3>2. pc'[o] = "snapshot" /\ job'[o] = task BY <2>2, <1>0 DEF TypeOK, CallTypes
    <3>3. Recorded(t)' BY <1>2 DEF BeginReplace, Recorded, disk
    <3>4. CallOK(o)'
      BY <1>1, <3>2, <3>3 DEF CallOK, IsExecute, Active, InSection, Prepared, Late
    <3> QED BY <2>2, <3>1, <3>4, <1>0 DEF TypeOK, CallTypes
  <2> QED BY <2>1, <2>2 DEF BeginReplace
<1>4. TypeOK' /\ Kept /\ quote' = quote /\ \A u \in sent' \ sent : Recorded(u)'
  BY <1>0, <1>2, <1>3, QuotesKept, NetworkKept, DiskKept, LimitsKept, ChecksKept DEF TypeOK
<1> QED BY <1>2, <1>3, <1>4, CallStep

LEMMA ReadOriginalStep ==
  ASSUME IInv, NEW o \in Op, ReadOriginal(o)
  PROVE  IInv'
<1>0. TypeOK /\ CallOK(o) BY DEF IInv
<1>1. job[o] \in Job /\ ~IsExecute(o) => Recorded(job[o].original)
  BY <1>0 DEF ReadOriginal, CallOK, Active
<1>2. job[o] \in Job /\ IF IsExecute(o) THEN quote[job[o].quote] # None
                                        ELSE Recorded(job[o].original)
  BY <1>0 DEF ReadOriginal, CallOK, Active
<1>3. /\ CallTypes'
      /\ pc'[o] \in {"queued", "refused"}
      /\ pc'[o] = "queued" => job'[o] = job[o]
      /\ \A p \in Op \ {o} : pc'[p] = pc[p] /\ job'[p] = job[p] /\ tx'[p] = tx[p]
  BY <1>0, <1>2, RunExclusiveType DEF ReadOriginal, TypeOK
<1>4. UNCHANGED <<quotes, caches, check, disk, network, signatures, limits>>
  BY DEF ReadOriginal
<1>5. CallOK(o)'
  <2>1. CASE pc'[o] = "refused" BY <1>3, <2>1, CallOver
  <2>2. CASE pc'[o] = "queued"
    BY <1>2, <1>3, <1>4, <2>2
    DEF CallOK, IsExecute, Recorded, Active, InSection, Prepared, Late, quotes, disk
  <2> QED BY <1>3, <2>1, <2>2
<1>6. TypeOK' /\ Kept /\ quote' = quote /\ \A u \in sent' \ sent : Recorded(u)'
  BY <1>0, <1>3, <1>4, QuotesKept, NetworkKept, DiskKept, LimitsKept, ChecksKept DEF TypeOK
<1> QED BY <1>3, <1>4, <1>5, <1>6, CallStep

LEMMA RefuseOriginalStep ==
  ASSUME IInv, NEW o \in Op, RefuseOriginal(o)
  PROVE  IInv'
<1>0. TypeOK BY DEF IInv
<1>1. TurnAway(o, "shared")
      /\ UNCHANGED <<quotes, caches, check, disk, network, signatures, limits>>
  BY DEF RefuseOriginal
<1>2. CallTypes' /\ CallOK(o)'
      /\ \A p \in Op \ {o} : pc'[p] = pc[p] /\ job'[p] = job[p] /\ tx'[p] = tx[p]
  BY <1>0, <1>1, TurnAwayType, CallOver DEF TypeOK
<1>3. TypeOK' /\ Kept /\ quote' = quote /\ \A u \in sent' \ sent : Recorded(u)'
  BY <1>0, <1>1, <1>2, QuotesKept, NetworkKept, DiskKept, LimitsKept, ChecksKept DEF TypeOK
<1> QED BY <1>1, <1>2, <1>3, CallStep

\* What is known of a call inside the section.
LEMMA RunningCall ==
  ASSUME TypeOK, NEW o \in Op, CallOK(o), pc[o] \in InSection
  PROVE  /\ job[o] \in Job
         /\ IF IsExecute(o) THEN job[o].quote \in Quote /\ quote[job[o].quote] # None
                            ELSE job[o].original \in Tx /\ Recorded(job[o].original)
         /\ pc[o] # "prepare" => tx[o] \in Tx
<1>1. job[o] \in Job BY DEF CallOK, Active
<1>2. IsExecute(o) => job[o].quote \in Quote BY <1>1 DEF IsExecute, Job
<1>3. ~IsExecute(o) => job[o].original \in Tx BY <1>1 DEF IsExecute, Job
<1> QED BY <1>1, <1>2, <1>3 DEF CallOK, Active, Prepared

LEMMA EnterStep ==
  ASSUME IInv, NEW o \in Op, Enter(o)
  PROVE  IInv'
<1>0. TypeOK /\ CallOK(o) BY DEF IInv
<1>1. Goto(o, "prepare") /\ ahead' = ahead
      /\ UNCHANGED <<quotes, caches, check, disk, network, signatures, limits>>
  BY DEF Enter
<1>2. /\ CallTypes' /\ pc'[o] = "prepare"
      /\ \A p \in Op \ {o} : pc'[p] = pc[p]
      /\ \A p \in Op : job'[p] = job[p] /\ tx'[p] = tx[p]
  BY <1>0, <1>1, GotoType DEF TypeOK, Labels, Active, InSection
<1>3. TypeOK' /\ Kept /\ quote' = quote /\ \A u \in sent' \ sent : Recorded(u)'
  BY <1>0, <1>1, <1>2, QuotesKept, NetworkKept, DiskKept, LimitsKept, ChecksKept DEF TypeOK
<1>4. job[o] \in Job /\ IF IsExecute(o) THEN quote[job[o].quote] # None
                                        ELSE Recorded(job[o].original)
  BY <1>0 DEF Enter, CallOK, Active
<1>5. CallOK(o)'
  BY <1>1, <1>2, <1>3, <1>4
  DEF CallOK, IsExecute, Recorded, Active, InSection, Prepared, Late, quotes, disk
<1> QED BY <1>1, <1>2, <1>3, <1>5, CallStep

LEMMA ThrowStep ==
  ASSUME IInv, NEW o \in Op, Throw(o)
  PROVE  IInv'
<1>0. TypeOK BY DEF IInv
<1>1. Leave(o) /\ ahead' = ahead
      /\ UNCHANGED <<quotes, caches, check, disk, network, signatures, limits>>
  BY DEF Throw
<1>2. CallTypes' /\ CallOK(o)'
      /\ \A p \in Op \ {o} : pc'[p] = pc[p] /\ job'[p] = job[p] /\ tx'[p] = tx[p]
  BY <1>0, <1>1, LeaveType, CallOver DEF TypeOK
<1>3. TypeOK' /\ Kept /\ quote' = quote /\ \A u \in sent' \ sent : Recorded(u)'
  BY <1>0, <1>1, <1>2, QuotesKept, NetworkKept, DiskKept, LimitsKept, ChecksKept DEF TypeOK
<1> QED BY <1>1, <1>2, <1>3, CallStep

LEMMA PrepareStep ==
  ASSUME IInv, NEW o \in Op, pc[o] = "prepare", NEW t \in Tx, Prepare(o, t)
  PROVE  IInv'
<1>0. TypeOK /\ CallOK(o) BY DEF IInv
<1>1. UNCHANGED <<quotes, job, tries, ahead, caches, check, disk, network, signatures, limits>>
  BY DEF Prepare
<1>2. /\ CallTypes' /\ pc'[o] = "sign" /\ tx'[o] = t /\ job'[o] = job[o]
      /\ \A p \in Op \ {o} : pc'[p] = pc[p] /\ job'[p] = job[p] /\ tx'[p] = tx[p]
  BY <1>0 DEF Prepare, TypeOK, CallTypes, Active, InSection
<1>3. TypeOK' /\ Kept /\ quote' = quote /\ \A u \in sent' \ sent : Recorded(u)'
  BY <1>0, <1>1, <1>2, QuotesKept, NetworkKept, DiskKept, LimitsKept, ChecksKept DEF TypeOK
<1>4. job[o] \in Job /\ IF IsExecute(o) THEN quote[job[o].quote] # None
                                        ELSE Recorded(job[o].original)
  BY <1>0 DEF CallOK, Active, InSection
<1>5. CallOK(o)'
  BY <1>1, <1>2, <1>3, <1>4
  DEF CallOK, IsExecute, Recorded, Active, InSection, Prepared, Late, disk
<1> QED BY <1>1, <1>2, <1>3, <1>5, CallStep

LEMMA PrepareSendStep ==
  ASSUME IInv, NEW o \in Op, PrepareSend(o)
  PROVE  IInv'
<1> DEFINE q == job[o].quote
<1>0. TypeOK /\ CallOK(o) BY DEF IInv
<1>1. q \in Quote /\ quote[q] \in Terms
  BY <1>0, RunningCall DEF PrepareSend, InSection, TypeOK, QuoteTypes
<1>2. PICK g \in 1 .. quote[q].gas :
        Prepare(o, [payload |-> PayloadOf[q], nonce |-> quote[q].nonce, gas |-> g])
  BY DEF PrepareSend
<1>3. [payload |-> PayloadOf[q], nonce |-> quote[q].nonce, gas |-> g] \in Tx
  <2>1. quote[q].nonce \in Nonce /\ quote[q].gas \in GasPrice BY <1>1 DEF Terms
  <2>2. g \in GasPrice BY <2>1, BoundAssumption DEF GasPrice
  <2>3. PayloadOf[q] \in Payload BY <1>1, QuoteAssumption
  <2> QED BY <2>1, <2>2, <2>3 DEF Tx
<1> QED BY <1>2, <1>3, PrepareStep DEF PrepareSend

LEMMA PrepareReplacementStep ==
  ASSUME IInv, NEW o \in Op, PrepareReplacement(o)
  PROVE  IInv'
<1> DEFINE t == job[o].original
           u(gas) == [payload |-> IF job[o].kind = "cancel" THEN Cancel ELSE t.payload,
                      nonce |-> t.nonce, gas |-> gas]
<1>0. TypeOK /\ CallOK(o) BY DEF IInv
<1>1. t \in Tx BY <1>0, RunningCall DEF PrepareReplacement, InSection
<1>2. PICK networkGas \in GasPrice :
        LET gas == IF networkGas > Bumped(t.gas) THEN networkGas ELSE Bumped(t.gas) IN
          /\ gas <= MaximumGasPrice
          /\ Prepare(o, u(gas))
  BY DEF PrepareReplacement
<1> DEFINE gas == IF networkGas > Bumped(t.gas) THEN networkGas ELSE Bumped(t.gas)
<1>3. gas \in GasPrice
  <2>1. t.gas \in Nat BY <1>1, BoundAssumption DEF Tx, GasPrice
  <2>2. Bumped(t.gas) \in Nat BY <2>1 DEF Bumped, CeilDivide
  <2> QED BY <1>2, <2>2, BoundAssumption DEF GasPrice
<1>4. u(gas) \in Tx BY <1>1, <1>3 DEF Tx
<1>5. Prepare(o, u(gas)) BY <1>2
<1> HIDE DEF u, gas
<1> QED BY <1>4, <1>5, PrepareStep DEF PrepareReplacement

\* A call that goes on with the transaction and the job it had.
LEMMA GoOn ==
  ASSUME TypeOK, Kept, NEW o \in Op, CallOK(o), pc[o] \in InSection \ {"prepare"},
         pc'[o] \in Prepared, job'[o] = job[o], tx'[o] = tx[o], quote' = quote,
         pc'[o] = "markReplaced" => ~IsExecute(o),
         pc'[o] \in Late => stored'[tx[o]] # None
  PROVE  CallOK(o)'
<1>1. /\ job[o] \in Job
      /\ IF IsExecute(o) THEN quote[job[o].quote] # None
                         ELSE job[o].original \in Tx /\ Recorded(job[o].original)
      /\ tx[o] \in Tx
  BY RunningCall
<1> QED BY <1>1 DEF CallOK, IsExecute, Recorded, Kept, Active, InSection, Prepared, Late

LEMMA SignStep ==
  ASSUME IInv, NEW o \in Op, Sign(o)
  PROVE  IInv'
<1>0. TypeOK /\ CallOK(o) BY DEF IInv
<1>1. tx[o] \in Tx /\ (IsExecute(o) => job[o].quote \in Quote)
  BY <1>0, RunningCall DEF Sign, InSection
<1>2. UNCHANGED <<quotes, ahead, completed, check, stored, network>> BY DEF Sign
<1>3. QuoteTypes'
  <2>1. CASE IsExecute(o)
    <3>1. consumed' \in Seq(Quote)
      BY <1>0, <1>1, <2>1, RememberType DEF Sign, TypeOK, QuoteTypes
    <3>2. signatures' \in [Quote -> Nat]
      <4>1. signatures' = [signatures EXCEPT ![job[o].quote] = @ + 1] BY <2>1 DEF Sign
      <4>2. signatures \in [Quote -> Nat] BY <1>0 DEF TypeOK, QuoteTypes
      <4>3. signatures[job[o].quote] + 1 \in Nat BY <1>1, <2>1, <4>2
      <4> QED BY <4>1, <4>2, <4>3
    <3> QED BY <1>0, <1>2, <3>1, <3>2 DEF TypeOK, QuoteTypes, quotes
  <2>2. CASE ~IsExecute(o)
    BY <1>0, <1>2, <2>2 DEF Sign, TypeOK, QuoteTypes, quotes
  <2> QED BY <2>1, <2>2
<1>4. Kept /\ NetworkTypes' /\ CheckTypes' /\ quote' = quote /\ sent' = sent
  BY <1>0, <1>2, NetworkKept, ChecksKept DEF Kept, Recorded, TypeOK, quotes, network
<1>5. CASE outbox' = outbox \cup {tx[o]} /\ Goto(o, "storePending") /\ UNCHANGED limits
  <2>1. /\ CallTypes' /\ pc'[o] = "storePending"
        /\ \A p \in Op \ {o} : pc'[p] = pc[p]
        /\ \A p \in Op : job'[p] = job[p] /\ tx'[p] = tx[p]
    BY <1>0, <1>2, <1>5, GotoType DEF TypeOK, Labels, Active, InSection
  <2>2. TypeOK' BY <1>0, <1>1, <1>2, <1>3, <1>4, <1>5, <2>1, LimitsKept DEF TypeOK, DiskTypes
  <2>3. CallOK(o)' BY <1>0, <1>4, <2>1, GoOn DEF Sign, InSection, Prepared, Late
  <2> QED BY <1>2, <1>4, <2>1, <2>2, <2>3, CallStep
<1>6. CASE Fault /\ Leave(o) /\ UNCHANGED outbox
  <2>1. CallTypes' /\ CallOK(o)'
        /\ \A p \in Op \ {o} : pc'[p] = pc[p] /\ job'[p] = job[p] /\ tx'[p] = tx[p]
    BY <1>0, <1>2, <1>6, LeaveType, CallOver DEF TypeOK
  <2>2. TypeOK' BY <1>0, <1>2, <1>3, <1>4, <1>6, <2>1, FaultType DEF TypeOK, DiskTypes
  <2> QED BY <1>2, <1>4, <2>1, <2>2, CallStep
<1> QED BY <1>5, <1>6 DEF Sign

\* What a running call goes on with, or what is left of it.
LEMMA CallStays ==
  ASSUME TypeOK, Kept, NEW o \in Op, CallOK(o), pc[o] \in Prepared,
         NEW label \in Prepared, Goto(o, label), ahead' = ahead, quote' = quote,
         label = "markReplaced" => ~IsExecute(o),
         label \in Late => stored'[tx[o]] # None
  PROVE  /\ CallTypes' /\ CallOK(o)'
         /\ \A p \in Op \ {o} : pc'[p] = pc[p] /\ job'[p] = job[p] /\ tx'[p] = tx[p]
<1>1. /\ CallTypes' /\ pc'[o] = label
      /\ \A p \in Op \ {o} : pc'[p] = pc[p]
      /\ \A p \in Op : job'[p] = job[p] /\ tx'[p] = tx[p]
  BY GotoType DEF TypeOK, Labels, Active, Prepared
<1>2. CallOK(o)' BY <1>1, GoOn DEF Prepared
<1> QED BY <1>1, <1>2

LEMMA CallLeaves ==
  ASSUME TypeOK, NEW o \in Op, Leave(o), ahead' = ahead
  PROVE  /\ CallTypes' /\ CallOK(o)'
         /\ \A p \in Op \ {o} : pc'[p] = pc[p] /\ job'[p] = job[p] /\ tx'[p] = tx[p]
BY LeaveType, CallOver DEF TypeOK

LEMMA CallReturns ==
  ASSUME TypeOK, NEW o \in Op, CallOK(o), pc[o] \in InSection, Return(o), ahead' = ahead,
         UNCHANGED <<quotes, consumed, signatures>>
  PROVE  /\ CallTypes' /\ CallOK(o)' /\ QuoteTypes' /\ quote' = quote
         /\ \A p \in Op \ {o} : pc'[p] = pc[p] /\ job'[p] = job[p] /\ tx'[p] = tx[p]
<1>1. completed' \in Seq(Quote)
  <2>1. CASE IsExecute(o)
    BY <2>1, RunningCall, RememberType DEF Return, TypeOK, QuoteTypes
  <2>2. CASE ~IsExecute(o) BY <2>2 DEF Return, TypeOK, QuoteTypes
  <2> QED BY <2>1, <2>2
<1>2. QuoteTypes' /\ quote' = quote BY <1>1 DEF TypeOK, QuoteTypes, quotes
<1> QED BY <1>2, CallLeaves DEF Return

\* Orders of new records.
LEMMA OrderForType ==
  ASSUME TypeOK, NEW o \in Op, CallOK(o), pc[o] \in InSection
  PROVE  OrderFor(o) \in Order \cup {None}
<1>1. /\ job[o] \in Job
      /\ IF IsExecute(o) THEN job[o].quote \in Quote
                         ELSE job[o].original \in Tx /\ Recorded(job[o].original)
  BY RunningCall
<1>2. CASE IsExecute(o) BY <1>1, <1>2, QuoteAssumption DEF OrderFor, IsExecute
<1>3. CASE ~IsExecute(o) /\ job[o].kind = "speed-up"
  <2>1. stored[job[o].original] \in Record
    BY <1>1, <1>3 DEF TypeOK, DiskTypes, Recorded
  <2> QED BY <1>3, <2>1 DEF OrderFor, Record
<1>4. CASE ~IsExecute(o) /\ job[o].kind = "cancel" BY <1>4 DEF OrderFor
<1>5. job[o].kind \in {"execute", "speed-up", "cancel"} BY <1>1 DEF Job
<1> QED BY <1>2, <1>3, <1>4, <1>5 DEF IsExecute

LEMMA StorePendingStep ==
  ASSUME IInv, NEW o \in Op, StorePending(o)
  PROVE  IInv'
<1> DEFINE t == tx[o]
<1>0. TypeOK /\ CallOK(o) /\ pc[o] \in Prepared /\ pc[o] \in InSection
  BY DEF IInv, StorePending, Prepared, InSection
<1>1. t \in Tx BY <1>0, RunningCall DEF StorePending
<1>2. UNCHANGED <<quotes, ahead, caches, check, outbox, network, signatures>>
  BY DEF StorePending
<1>3. QuoteTypes' /\ NetworkTypes' /\ CheckTypes' /\ quote' = quote
      /\ \A u \in sent' \ sent : Recorded(u)'
  BY <1>0, <1>2, QuotesKept, NetworkKept, ChecksKept DEF TypeOK
<1>4. ASSUME Kept, stored' \in [Tx -> Record \cup {None}], LimitTypes',
             NEW label \in {"look", "discard"}, Goto(o, label), label = "look" => stored'[t] # None
      PROVE  IInv'
  <2>1. /\ CallTypes' /\ CallOK(o)'
        /\ \A p \in Op \ {o} : pc'[p] = pc[p] /\ job'[p] = job[p] /\ tx'[p] = tx[p]
    BY <1>0, <1>2, <1>3, <1>4, CallStays DEF Prepared, InSection, Late
  <2>2. TypeOK' BY <1>0, <1>2, <1>3, <1>4, <2>1 DEF TypeOK, DiskTypes
  <2> QED BY <1>2, <1>3, <1>4, <2>1, <2>2, CallStep
<1>5. CASE /\ stored' = [stored EXCEPT ![t] = NewRecord(OrderFor(o))]
           /\ Goto(o, "look") /\ UNCHANGED limits
  <2>1. stored' \in [Tx -> Record \cup {None}] /\ Kept /\ stored'[t] # None
    BY <1>0, <1>1, <1>5, OrderForType, NewRecordType DEF TypeOK, Recorded
  <2>2. LimitTypes' BY <1>0, <1>5, LimitsKept DEF TypeOK
  <2> QED BY <1>4, <1>5, <2>1, <2>2
<1>6. CASE /\ stored[t] # None /\ ~Conflicts(t, OrderFor(o))
           /\ Goto(o, "look") /\ UNCHANGED <<stored, limits>>
  <2>1. Kept /\ stored' \in [Tx -> Record \cup {None}] /\ LimitTypes' /\ stored'[t] # None
    BY <1>0, <1>6, LimitsKept DEF Kept, Recorded, TypeOK, DiskTypes
  <2> QED BY <1>4, <1>6, <2>1
<1>7. CASE Goto(o, "discard") /\ UNCHANGED stored /\ (Fault \/ UNCHANGED limits)
  <2>1. Kept /\ stored' \in [Tx -> Record \cup {None}] /\ LimitTypes'
    BY <1>0, <1>7, LimitsKept, FaultType DEF Kept, Recorded, TypeOK, DiskTypes
  <2> QED BY <1>4, <1>7, <2>1
<1> QED BY <1>5, <1>6, <1>7 DEF StorePending

LEMMA DiscardStep ==
  ASSUME IInv, NEW o \in Op, Discard(o)
  PROVE  IInv'
<1>0. TypeOK /\ CallOK(o) /\ pc[o] \in InSection BY DEF IInv, Discard, InSection
<1>1. tx[o] \in Tx BY <1>0, RunningCall DEF Discard
<1>2. UNCHANGED <<quotes, ahead, caches, check, stored, network, signatures>> /\ Leave(o)
  BY DEF Discard
<1>3. DiskTypes' /\ LimitTypes' /\ Kept
  BY <1>0, <1>1, <1>2, DeleteSignedType DEF Discard, TypeOK
<1>4. /\ CallTypes' /\ CallOK(o)'
      /\ \A p \in Op \ {o} : pc'[p] = pc[p] /\ job'[p] = job[p] /\ tx'[p] = tx[p]
  BY <1>0, <1>2, CallLeaves
<1>5. TypeOK' /\ quote' = quote /\ \A u \in sent' \ sent : Recorded(u)'
  BY <1>0, <1>2, <1>3, <1>4, QuotesKept, NetworkKept, ChecksKept DEF TypeOK
<1> QED BY <1>2, <1>3, <1>4, <1>5, CallStep

\* A late call has a recorded transaction.
LEMMA LateCall ==
  ASSUME IInv, NEW o \in Op, pc[o] \in Late
  PROVE  /\ TypeOK /\ CallOK(o) /\ pc[o] \in Prepared /\ pc[o] \in InSection
         /\ tx[o] \in Tx /\ Recorded(tx[o])
         /\ Kept => stored'[tx[o]] # None
<1>1. TypeOK /\ CallOK(o) BY DEF IInv
<1>2. pc[o] \in Prepared /\ pc[o] \in InSection BY DEF Late, Prepared, InSection
<1>3. tx[o] \in Tx /\ Recorded(tx[o]) BY <1>1, <1>2 DEF CallOK
<1> QED BY <1>1, <1>2, <1>3 DEF Kept, Recorded

LEMMA LookFoundStep ==
  ASSUME IInv, NEW o \in Op, LookFound(o)
  PROVE  IInv'
<1>1. pc[o] \in Late /\ Goto(o, "mark") /\ ahead' = ahead
      /\ UNCHANGED <<quotes, caches, check, disk, network, signatures, limits>>
  BY DEF LookFound, Late
<1>0. /\ TypeOK /\ CallOK(o) /\ pc[o] \in Prepared
      /\ tx[o] \in Tx /\ (Kept => stored'[tx[o]] # None)
  BY <1>1, LateCall
<1>2. QuoteTypes' /\ NetworkTypes' /\ DiskTypes' /\ CheckTypes' /\ LimitTypes' /\ Kept
      /\ quote' = quote /\ \A u \in sent' \ sent : Recorded(u)'
  BY <1>0, <1>1, QuotesKept, NetworkKept, DiskKept, LimitsKept, ChecksKept DEF TypeOK
<1>3. /\ CallTypes' /\ CallOK(o)'
      /\ \A p \in Op \ {o} : pc'[p] = pc[p] /\ job'[p] = job[p] /\ tx'[p] = tx[p]
  BY <1>0, <1>1, <1>2, CallStays DEF Prepared, InSection
<1> QED BY <1>1, <1>2, <1>3, CallStep DEF TypeOK

LEMMA SubmitStep ==
  ASSUME IInv, NEW o \in Op, Submit(o)
  PROVE  IInv'
<1>0. /\ TypeOK /\ CallOK(o) /\ pc[o] = "look"
      /\ tx[o] \in Tx /\ (Kept => stored'[tx[o]] # None)
  BY LateCall DEF Submit, Late
<1>1. UNCHANGED <<quotes, pc, job, tx, ahead, caches, check, disk, signatures, limits>>
  BY DEF Submit
<1>2. QuoteTypes' /\ DiskTypes' /\ CheckTypes' /\ LimitTypes' /\ Kept /\ quote' = quote
  BY <1>0, <1>1, QuotesKept, DiskKept, LimitsKept, ChecksKept DEF TypeOK
<1>3. NetworkTypes' /\ sent' \subseteq sent \cup {tx[o]}
  BY <1>0, TransmitType DEF Submit, TypeOK
<1>4. CallTypes'
  <2>1. tries[o] \in 0 .. BroadcastAttempts /\ tries[o] < BroadcastAttempts
    BY <1>0 DEF TypeOK, CallTypes, Submit
  <2>2. tries[o] + 1 \in 0 .. BroadcastAttempts BY <2>1, BoundAssumption
  <2>3. tries' \in [Op -> 0 .. BroadcastAttempts]
    BY <1>0, <2>2 DEF Submit, TypeOK, CallTypes
  <2> QED BY <1>0, <1>1, <2>3 DEF TypeOK, CallTypes
<1>5. \A t \in sent' \ sent : Recorded(t)' BY <1>0, <1>2, <1>3 DEF Recorded
<1> QED BY <1>1, <1>2, <1>3, <1>4, <1>5, OtherStep DEF TypeOK

LEMMA GiveUpStep ==
  ASSUME IInv, NEW o \in Op, GiveUp(o)
  PROVE  IInv'
<1>1. /\ pc[o] \in Late /\ Return(o) /\ ahead' = ahead
      /\ UNCHANGED <<quotes, consumed, check, disk, network, signatures, limits>>
  BY DEF GiveUp, Late
<1>2. TypeOK /\ CallOK(o) /\ pc[o] \in InSection BY <1>1, LateCall
<1>3. /\ CallTypes' /\ CallOK(o)' /\ QuoteTypes' /\ quote' = quote
      /\ \A p \in Op \ {o} : pc'[p] = pc[p] /\ job'[p] = job[p] /\ tx'[p] = tx[p]
  BY <1>1, <1>2, CallReturns
<1>4. TypeOK' /\ Kept /\ \A u \in sent' \ sent : Recorded(u)'
  BY <1>1, <1>2, <1>3, NetworkKept, DiskKept, LimitsKept, ChecksKept DEF TypeOK
<1> QED BY <1>1, <1>3, <1>4, CallStep

LEMMA MarkStep ==
  ASSUME IInv, NEW o \in Op, Mark(o)
  PROVE  IInv'
<1>1. pc[o] \in Late /\ UNCHANGED <<quotes, ahead, caches, check, outbox, network, signatures>>
  BY DEF Mark, Late
<1>0. /\ TypeOK /\ CallOK(o) /\ pc[o] \in Prepared
      /\ tx[o] \in Tx /\ (Kept => stored'[tx[o]] # None)
  BY <1>1, LateCall
<1>2. QuoteTypes' /\ NetworkTypes' /\ CheckTypes' /\ quote' = quote
      /\ \A u \in sent' \ sent : Recorded(u)'
  BY <1>0, <1>1, QuotesKept, NetworkKept, ChecksKept DEF TypeOK
<1>3. CASE IsPending(tx[o]) /\ MarkSeen(tx[o]) /\ Goto(o, "clear") /\ UNCHANGED limits
  <2>1. DiskTypes' /\ Kept BY <1>0, <1>1, <1>3, MarkSeenType DEF TypeOK, DiskTypes
  <2>2. /\ CallTypes' /\ CallOK(o)'
        /\ \A p \in Op \ {o} : pc'[p] = pc[p] /\ job'[p] = job[p] /\ tx'[p] = tx[p]
    BY <1>0, <1>1, <1>2, <1>3, <2>1, CallStays DEF Prepared, InSection
  <2>3. TypeOK' BY <1>0, <1>2, <1>3, <2>1, <2>2, LimitsKept DEF TypeOK
  <2> QED BY <1>1, <1>2, <2>1, <2>2, <2>3, CallStep
<1>4. CASE Leave(o) /\ UNCHANGED stored /\ (Fault \/ UNCHANGED limits)
  <2>1. DiskTypes' /\ Kept BY <1>0, <1>1, <1>4, DiskKept DEF TypeOK, disk
  <2>2. /\ CallTypes' /\ CallOK(o)'
        /\ \A p \in Op \ {o} : pc'[p] = pc[p] /\ job'[p] = job[p] /\ tx'[p] = tx[p]
    BY <1>0, <1>1, <1>4, CallLeaves
  <2>3. TypeOK' BY <1>0, <1>2, <1>4, <2>1, <2>2, LimitsKept, FaultType DEF TypeOK
  <2> QED BY <1>1, <1>2, <2>1, <2>2, <2>3, CallStep
<1> QED BY <1>3, <1>4 DEF Mark

LEMMA ClearStep ==
  ASSUME IInv, NEW o \in Op, Clear(o)
  PROVE  IInv'
<1>1. pc[o] \in Late /\ UNCHANGED <<quotes, ahead, caches, check, stored, network, signatures>>
  BY DEF Clear, Late
<1>0. /\ TypeOK /\ CallOK(o) /\ pc[o] \in Prepared
      /\ tx[o] \in Tx /\ (Kept => stored'[tx[o]] # None)
  BY <1>1, LateCall
<1>2. QuoteTypes' /\ NetworkTypes' /\ CheckTypes' /\ quote' = quote
      /\ \A u \in sent' \ sent : Recorded(u)'
  BY <1>0, <1>1, QuotesKept, NetworkKept, ChecksKept DEF TypeOK
<1>3. DiskTypes' /\ LimitTypes' /\ Kept BY <1>0, <1>1, DeleteSignedType DEF Clear, TypeOK
<1>4. PICK label \in {"await", "markReplaced"} :
        Goto(o, label) /\ (label = "markReplaced" => ~IsExecute(o))
  BY DEF Clear
<1>5. /\ CallTypes' /\ CallOK(o)'
      /\ \A p \in Op \ {o} : pc'[p] = pc[p] /\ job'[p] = job[p] /\ tx'[p] = tx[p]
  BY <1>0, <1>1, <1>2, <1>3, <1>4, CallStays DEF Prepared, InSection
<1> QED BY <1>1, <1>2, <1>3, <1>5, CallStep DEF TypeOK

LEMMA MarkReplacedStep ==
  ASSUME IInv, NEW o \in Op, MarkReplaced(o)
  PROVE  IInv'
<1> DEFINE t == job[o].original
<1>1. /\ pc[o] \in Late /\ pc[o] = "markReplaced" /\ Goto(o, "await")
      /\ UNCHANGED <<quotes, ahead, caches, check, outbox, network, signatures>>
  BY DEF MarkReplaced, Late
<1>0. /\ TypeOK /\ CallOK(o) /\ pc[o] \in Prepared /\ pc[o] \in InSection
      /\ tx[o] \in Tx /\ (Kept => stored'[tx[o]] # None)
  BY <1>1, LateCall
<1>2. QuoteTypes' /\ NetworkTypes' /\ CheckTypes' /\ quote' = quote
      /\ \A u \in sent' \ sent : Recorded(u)'
  BY <1>0, <1>1, QuotesKept, NetworkKept, ChecksKept DEF TypeOK
<1>3. t \in Tx BY <1>0, <1>1, RunningCall DEF CallOK
<1>4. DiskTypes' /\ LimitTypes' /\ Kept
  <2>1. CASE /\ MayBecome(t, "replaced")
             /\ stored' = [stored EXCEPT ![t].status = "replaced", ![t].replacement = tx[o]]
             /\ UNCHANGED limits
    BY <1>0, <1>1, <1>3, <2>1, ReplacedType, LimitsKept DEF TypeOK, DiskTypes
  <2>2. CASE UNCHANGED stored /\ (Fault \/ UNCHANGED limits)
    BY <1>0, <1>1, <2>2, DiskKept, LimitsKept, FaultType DEF TypeOK, disk
  <2> QED BY <2>1, <2>2 DEF MarkReplaced
<1>5. /\ CallTypes' /\ CallOK(o)'
      /\ \A p \in Op \ {o} : pc'[p] = pc[p] /\ job'[p] = job[p] /\ tx'[p] = tx[p]
  BY <1>0, <1>1, <1>2, <1>4, CallStays DEF Prepared, InSection
<1> QED BY <1>1, <1>2, <1>4, <1>5, CallStep DEF TypeOK

LEMMA AwaitConfirmedStep ==
  ASSUME IInv, NEW o \in Op, AwaitConfirmed(o)
  PROVE  IInv'
<1>1. /\ pc[o] \in Late /\ Return(o) /\ TryUpdate(tx[o], "confirmed")
      /\ UNCHANGED <<quotes, ahead, consumed, check, outbox, network, signatures>>
  BY DEF AwaitConfirmed, Late
<1>2. TypeOK /\ CallOK(o) /\ pc[o] \in InSection /\ tx[o] \in Tx BY <1>1, LateCall
<1>3. /\ CallTypes' /\ CallOK(o)' /\ QuoteTypes' /\ quote' = quote
      /\ \A p \in Op \ {o} : pc'[p] = pc[p] /\ job'[p] = job[p] /\ tx'[p] = tx[p]
  BY <1>1, <1>2, CallReturns
<1>4. DiskTypes' /\ LimitTypes' /\ Kept BY <1>1, <1>2, TryUpdateType DEF TypeOK
<1>5. NetworkTypes' /\ CheckTypes' /\ \A u \in sent' \ sent : Recorded(u)'
  BY <1>1, <1>2, NetworkKept, ChecksKept DEF TypeOK
<1> QED BY <1>1, <1>3, <1>4, <1>5, CallStep DEF TypeOK

LEMMA AwaitRevertedStep ==
  ASSUME IInv, NEW o \in Op, AwaitReverted(o)
  PROVE  IInv'
<1>1. /\ pc[o] \in Late /\ Leave(o) /\ TryUpdate(tx[o], "failed")
      /\ UNCHANGED <<quotes, ahead, caches, check, outbox, network, signatures>>
  BY DEF AwaitReverted, Late
<1>2. TypeOK /\ tx[o] \in Tx BY <1>1, LateCall
<1>3. /\ CallTypes' /\ CallOK(o)'
      /\ \A p \in Op \ {o} : pc'[p] = pc[p] /\ job'[p] = job[p] /\ tx'[p] = tx[p]
  BY <1>1, <1>2, CallLeaves
<1>4. DiskTypes' /\ LimitTypes' /\ Kept BY <1>1, <1>2, TryUpdateType DEF TypeOK
<1>5. QuoteTypes' /\ quote' = quote /\ NetworkTypes' /\ CheckTypes'
      /\ \A u \in sent' \ sent : Recorded(u)'
  BY <1>1, <1>2, QuotesKept, NetworkKept, ChecksKept DEF TypeOK
<1> QED BY <1>1, <1>3, <1>4, <1>5, CallStep DEF TypeOK

LEMMA AwaitTimeoutStep ==
  ASSUME IInv, NEW o \in Op, AwaitTimeout(o)
  PROVE  IInv'
<1>1. /\ pc[o] \in Late /\ Return(o) /\ ahead' = ahead
      /\ UNCHANGED <<quotes, consumed, check, disk, network, signatures, limits>>
  BY DEF AwaitTimeout, Late
<1>2. TypeOK /\ CallOK(o) /\ pc[o] \in InSection BY <1>1, LateCall
<1>3. /\ CallTypes' /\ CallOK(o)' /\ QuoteTypes' /\ quote' = quote
      /\ \A p \in Op \ {o} : pc'[p] = pc[p] /\ job'[p] = job[p] /\ tx'[p] = tx[p]
  BY <1>1, <1>2, CallReturns
<1>4. TypeOK' /\ Kept /\ \A u \in sent' \ sent : Recorded(u)'
  BY <1>1, <1>2, <1>3, NetworkKept, DiskKept, LimitsKept, ChecksKept DEF TypeOK
<1> QED BY <1>1, <1>3, <1>4, CallStep
-----------------------------------------------------------------------------
(* The steps of the checks, of the network and of the user; a crash.       *)

CheckLabels == {"idle", "look", "submit", "relook", "mark", "clear", "receipt"}

\* A step of a check, whatever it does to the stores and the network.
LEMMA CheckGoes ==
  ASSUME IInv, NEW t \in Tx, Recorded(t), NEW label \in CheckLabels, CheckGoto(t, label),
         DiskTypes', NetworkTypes', LimitTypes', Kept, sent' \subseteq sent \cup {t}
  PROVE  IInv'
<1>0. TypeOK BY DEF IInv
<1>1. check' = [check EXCEPT ![t] = label]
      /\ UNCHANGED <<quotes, pc, local, ahead, caches, signatures>>
  BY DEF CheckGoto
<1>2. CheckTypes' BY <1>0, <1>1 DEF TypeOK, CheckTypes, CheckLabels
<1>3. QuoteTypes' /\ quote' = quote BY <1>0, <1>1, QuotesKept DEF TypeOK
<1>4. CallTypes' /\ UNCHANGED <<pc, job, tx>> BY <1>0, <1>1 DEF TypeOK, CallTypes, local
<1>5. Recorded(t)' BY DEF Kept
<1>6. \A u \in Tx : check'[u] # "idle" => check[u] # "idle" \/ Recorded(u)'
  <2> TAKE u \in Tx
  <2>1. CASE u = t BY <1>5, <2>1
  <2>2. CASE u # t BY <1>0, <1>1, <2>2 DEF TypeOK, CheckTypes
  <2> QED BY <2>1, <2>2
<1>7. \A u \in sent' \ sent : Recorded(u)'
  <2> TAKE u \in sent' \ sent
  <2>1. u = t OBVIOUS
  <2> QED BY <1>5, <2>1
<1> QED BY <1>2, <1>3, <1>4, <1>6, <1>7, OtherStep DEF TypeOK

LEMMA CheckStepKeeps ==
  ASSUME IInv, NEW t \in Tx, CheckStep(t)
  PROVE  IInv'
<1>0. TypeOK /\ DiskTypes /\ NetworkTypes /\ LimitTypes BY DEF IInv, TypeOK
<1>1. check[t] # "idle" => Recorded(t) BY DEF IInv, Checking
<1>2. UNCHANGED disk => DiskTypes' /\ Kept BY <1>0, DiskKept
<1>3. UNCHANGED network => NetworkTypes' /\ sent' \subseteq sent
  BY <1>0, NetworkKept DEF network
<1>4. Fault \/ UNCHANGED limits => LimitTypes' BY <1>0, LimitsKept, FaultType
<1>5. CASE StartCheck(t)
  <2>1. Recorded(t) BY <1>5 DEF StartCheck, IsPending, Recorded
  <2>2. PICK label \in CheckLabels : CheckGoto(t, label) BY <1>5 DEF StartCheck, CheckLabels
  <2> QED BY <1>2, <1>3, <1>4, <1>5, <2>1, <2>2, CheckGoes DEF StartCheck
<1>6. CASE CheckFound(t) \/ CheckMissing(t)
  <2>1. Recorded(t) BY <1>1, <1>6 DEF CheckFound, CheckMissing
  <2>2. /\ \E label \in CheckLabels : CheckGoto(t, label)
        /\ UNCHANGED <<disk, network, limits>>
    BY <1>6 DEF CheckFound, CheckMissing, CheckLabels
  <2> QED BY <1>2, <1>3, <1>4, <2>1, <2>2, CheckGoes
<1>7. CASE CheckLoad(t)
  <2>1. Recorded(t) BY <1>1, <1>7 DEF CheckLoad
  <2>2. /\ \E label \in CheckLabels : CheckGoto(t, label)
        /\ UNCHANGED <<disk, network>> /\ (Fault \/ UNCHANGED limits)
    BY <1>7 DEF CheckLoad, CheckLabels
  <2> QED BY <1>2, <1>3, <1>4, <2>1, <2>2, CheckGoes
<1>8. CASE CheckSubmit(t)
  <2>1. Recorded(t) BY <1>1, <1>8 DEF CheckSubmit
  <2>2. NetworkTypes' /\ sent' \subseteq sent \cup {t}
    BY <1>0, <1>8, TransmitType DEF CheckSubmit
  <2>3. CheckGoto(t, "relook") /\ UNCHANGED <<disk, limits>> BY <1>8 DEF CheckSubmit
  <2> QED BY <1>2, <1>4, <2>1, <2>2, <2>3, CheckGoes DEF CheckLabels
<1>9. CASE CheckMark(t)
  <2>1. Recorded(t) BY <1>1, <1>9 DEF CheckMark
  <2>2. UNCHANGED <<outbox, network>> BY <1>9 DEF CheckMark
  <2>3. CASE IsPending(t) /\ MarkSeen(t) /\ CheckGoto(t, "clear") /\ UNCHANGED limits
    <3>1. DiskTypes' /\ Kept BY <1>0, <2>2, <2>3, MarkSeenType DEF DiskTypes
    <3> QED BY <1>3, <1>4, <2>1, <2>2, <2>3, <3>1, CheckGoes DEF CheckLabels
  <2>4. CASE CheckGoto(t, "idle") /\ UNCHANGED stored /\ (Fault \/ UNCHANGED limits)
    BY <1>2, <1>3, <1>4, <2>1, <2>2, <2>4, CheckGoes DEF CheckLabels, disk
  <2> QED BY <1>9, <2>3, <2>4 DEF CheckMark
<1>10. CASE CheckClear(t)
  <2>1. Recorded(t) BY <1>1, <1>10 DEF CheckClear
  <2>2. DiskTypes' /\ LimitTypes' /\ Kept
    BY <1>0, <1>10, DeleteSignedType DEF CheckClear
  <2> QED BY <1>3, <1>10, <2>1, <2>2, CheckGoes DEF CheckClear, CheckLabels
<1>11. CASE CheckReceipt(t)
  <2>1. Recorded(t) BY <1>1, <1>11 DEF CheckReceipt
  <2>2. CheckGoto(t, "idle") /\ UNCHANGED <<outbox, network>> BY <1>11 DEF CheckReceipt
  <2>3. CASE \E status \in {"confirmed", "failed"} : TryUpdate(t, status)
    <3>1. DiskTypes' /\ LimitTypes' /\ Kept BY <1>0, <2>2, <2>3, TryUpdateType
    <3> QED BY <1>3, <2>1, <2>2, <3>1, CheckGoes DEF CheckLabels
  <2>4. CASE UNCHANGED <<stored, limits>>
    BY <1>2, <1>3, <1>4, <2>1, <2>2, <2>4, CheckGoes DEF CheckLabels, disk
  <2> QED BY <1>11, <2>3, <2>4 DEF CheckReceipt
<1> QED BY <1>5, <1>6, <1>7, <1>8, <1>9, <1>10, <1>11 DEF CheckStep

LEMMA PrepareQuoteStep ==
  ASSUME IInv, NEW q \in Quote, PrepareQuote(q)
  PROVE  IInv'
<1>0. TypeOK BY DEF IInv
<1>1. UNCHANGED <<lost, pc, local, ahead, caches, check, disk, network, signatures, limits>>
  BY DEF PrepareQuote
<1>2. PICK n \in Nonce, g \in GasPrice : quote' = [quote EXCEPT ![q] = [nonce |-> n, gas |-> g]]
  BY DEF PrepareQuote
<1> DEFINE terms == [nonce |-> n, gas |-> g]
<1>3. terms \in Terms /\ terms # None BY NoneAssumption DEF Terms
<1> HIDE DEF terms
<1>4. quote' \in [Quote -> Terms \cup {None}]
      /\ \A p \in Quote : quote[p] # None => quote'[p] # None
  <2>1. quote' = [quote EXCEPT ![q] = terms] BY <1>2 DEF terms
  <2> QED BY <1>0, <1>3, <2>1 DEF TypeOK, QuoteTypes
<1>5. QuoteTypes' BY <1>0, <1>1, <1>4 DEF TypeOK, QuoteTypes, caches
<1>6. CallTypes' /\ UNCHANGED <<pc, job, tx>> BY <1>0, <1>1 DEF TypeOK, CallTypes, local
<1>7. TypeOK' /\ Kept /\ \A u \in sent' \ sent : Recorded(u)'
  BY <1>0, <1>1, <1>5, <1>6, NetworkKept, DiskKept, LimitsKept, ChecksKept DEF TypeOK
<1> QED BY <1>1, <1>4, <1>6, <1>7, OtherStep

LEMMA NetworkStep ==
  ASSUME IInv, NEW t \in Tx, Mine(t) \/ Evict(t)
  PROVE  IInv'
<1>0. TypeOK BY DEF IInv
<1>1. UNCHANGED <<quotes, pc, local, ahead, caches, check, disk, sent, signatures, limits>>
  BY DEF Mine, Evict
<1>2. NetworkTypes'
  <2>1. CASE Mine(t)
    <3>1. head + 1 \in 0 .. MaxNonce + 1
      BY <2>1, BoundAssumption DEF Mine, Tx, Nonce
    <3> QED BY <1>0, <2>1, <3>1 DEF Mine, TypeOK, NetworkTypes
  <2>2. CASE Evict(t) BY <1>0, <2>2 DEF Evict, TypeOK, NetworkTypes
  <2> QED BY <2>1, <2>2
<1>3. CallTypes' /\ UNCHANGED <<pc, job, tx>> BY <1>0, <1>1 DEF TypeOK, CallTypes, local
<1>4. TypeOK' /\ Kept /\ quote' = quote
  BY <1>0, <1>1, <1>2, <1>3, QuotesKept, DiskKept, LimitsKept, ChecksKept DEF TypeOK
<1> QED BY <1>1, <1>3, <1>4, OtherStep

LEMMA CrashStep ==
  ASSUME IInv, Crash
  PROVE  IInv'
<1>0. TypeOK BY DEF IInv
<1>1. UNCHANGED <<quote, ahead, disk, network, signatures, faults>> BY DEF Crash
<1>2. pc' = [o \in Op |-> CASE pc[o] = "snapshot" -> "shared"
                            [] o \in Outstanding -> "done"
                            [] OTHER -> pc[o]]
  BY DEF Crash
<1>3. \A o \in Op : pc'[o] \in {"idle", "shared", "refused", "done"}
  <2> TAKE o \in Op
  <2>1. pc[o] \in Active \cup {"idle", "shared", "refused", "done"}
    BY <1>0 DEF TypeOK, CallTypes
  <2>2. CASE pc[o] = "snapshot" BY <1>2, <2>2
  <2>3. CASE pc[o] # "snapshot" /\ o \in Outstanding BY <1>2, <2>3
  <2>4. CASE pc[o] # "snapshot" /\ o \notin Outstanding
    <3>1. pc'[o] = pc[o] BY <1>2, <2>4
    <3> QED BY <2>1, <2>4, <3>1 DEF Outstanding, Active
  <2> QED BY <2>2, <2>3, <2>4
<1>4. CallTypes'
  <2>1. pc' \in [Op -> Active \cup {"idle", "shared", "refused", "done"}] BY <1>2, <1>3
  <2>2. tries' \in [Op -> 0 .. BroadcastAttempts] BY BoundAssumption DEF Crash
  <2>3. job' \in [Op -> Job \cup {None}] /\ tx' \in [Op -> Tx \cup {None}] BY DEF Crash
  <2> QED BY <1>0, <1>1, <2>1, <2>2, <2>3 DEF TypeOK, CallTypes
<1>5. QuoteTypes' BY <1>0 DEF Crash, TypeOK, QuoteTypes
<1>6. CheckTypes' BY DEF Crash, CheckTypes
<1>7. LimitTypes' BY <1>0, BoundAssumption DEF Crash, TypeOK, LimitTypes
<1>8. DiskTypes' /\ Kept /\ NetworkTypes' /\ sent' = sent
  BY <1>0, <1>1, DiskKept, NetworkKept DEF TypeOK, network
<1>9. \A o \in Op : CallOK(o)' BY <1>3, CallOver
<1>10. Checking' BY DEF Crash, Checking
<1>11. RecordedBeforeBroadcast'
  BY <1>8 DEF IInv, TypeOK, NetworkTypes, RecordedBeforeBroadcast, Kept, Recorded
<1> QED BY <1>4, <1>5, <1>6, <1>7, <1>8, <1>9, <1>10, <1>11 DEF IInv, TypeOK

LEMMA StutterStep ==
  ASSUME IInv, UNCHANGED vars
  PROVE  IInv'
<1>0. TypeOK BY DEF IInv
<1>1. UNCHANGED <<quotes, pc, local, ahead, caches, check, disk, network, signatures, limits>>
  BY DEF vars
<1>2. CallTypes' /\ UNCHANGED <<pc, job, tx>> BY <1>0, <1>1 DEF TypeOK, CallTypes, local
<1>3. TypeOK' /\ Kept /\ quote' = quote /\ \A u \in sent' \ sent : Recorded(u)'
  BY <1>0, <1>1, <1>2, QuotesKept, NetworkKept, DiskKept, LimitsKept, ChecksKept DEF TypeOK
<1> QED BY <1>1, <1>2, <1>3, OtherStep
-----------------------------------------------------------------------------
(* The theorems.                                                           *)

LEMMA InitEstablishes == Init => IInv
<1> SUFFICES ASSUME Init PROVE IInv OBVIOUS
<1>1. QuoteTypes BY DEF Init, QuoteTypes
<1>2. CallTypes BY BoundAssumption DEF Init, CallTypes
<1>3. CheckTypes /\ DiskTypes BY DEF Init, CheckTypes, DiskTypes
<1>4. NetworkTypes /\ LimitTypes BY BoundAssumption DEF Init, NetworkTypes, LimitTypes
<1>5. \A o \in Op : CallOK(o) BY DEF Init, CallOK, Active, InSection, Prepared, Late
<1>6. Checking /\ RecordedBeforeBroadcast BY DEF Init, Checking, RecordedBeforeBroadcast
<1> QED BY <1>1, <1>2, <1>3, <1>4, <1>5, <1>6 DEF IInv, TypeOK

LEMMA SendStepKeeps ==
  ASSUME IInv, NEW o \in Op, SendStep(o)
  PROVE  IInv'
BY EnterStep, PrepareSendStep, PrepareReplacementStep, ThrowStep, SignStep, StorePendingStep,
   DiscardStep, LookFoundStep, SubmitStep, GiveUpStep, MarkStep, ClearStep, MarkReplacedStep,
   AwaitConfirmedStep, AwaitRevertedStep, AwaitTimeoutStep
DEF SendStep

LEMMA Inductive == IInv /\ [Next]_vars => IInv'
<1> SUFFICES ASSUME IInv, [Next]_vars PROVE IInv' OBVIOUS
<1>1. ASSUME NEW q \in Quote, PrepareQuote(q) PROVE IInv' BY <1>1, PrepareQuoteStep
<1>2. ASSUME NEW o \in Op, NEW q \in Quote, BeginExecute(o, q) PROVE IInv'
  BY <1>2, BeginExecuteStep
<1>3. ASSUME NEW o \in Op, NEW t \in Tx, NEW mode \in {"speed-up", "cancel"},
             BeginReplace(o, t, mode)
      PROVE  IInv'
  BY <1>3, BeginReplaceStep
<1>4. ASSUME NEW o \in Op, ReadOriginal(o) \/ RefuseOriginal(o) PROVE IInv'
  BY <1>4, ReadOriginalStep, RefuseOriginalStep
<1>5. ASSUME NEW o \in Op, SendStep(o) PROVE IInv' BY <1>5, SendStepKeeps
<1>6. ASSUME NEW t \in Tx, Mine(t) \/ Evict(t) \/ CheckStep(t) PROVE IInv'
  BY <1>6, NetworkStep, CheckStepKeeps
<1>7. CASE Crash BY <1>7, CrashStep
<1>8. CASE UNCHANGED vars BY <1>8, StutterStep
<1> QED BY <1>1, <1>2, <1>3, <1>4, <1>5, <1>6, <1>7, <1>8 DEF Next

\* The values of the service's state, its stores and its view of the network
\* keep to their types, whatever fails or dies.
THEOREM TypeCorrect == Spec => []TypeOK
<1>1. IInv => TypeOK BY DEF IInv
<1> QED BY <1>1, InitEstablishes, Inductive, PTL DEF Spec

\* executeConfirmedQuote, replacePendingTransaction and resumePending never let
\* a transaction reach the network that the wallet has no record of, for any
\* number of calls, faults and restarts.
THEOREM NothingUnrecordedIsSent == Spec => []RecordedBeforeBroadcast
<1>1. IInv => RecordedBeforeBroadcast BY DEF IInv
<1> QED BY <1>1, InitEstablishes, Inductive, PTL DEF Spec
-----------------------------------------------------------------------------
(* The order of a record.                                                  *)

OrdersKept == \A t \in Tx : stored[t] # None => stored'[t].order = stored[t].order

LEMMA MarkSeenKeepsOrders ==
  ASSUME DiskTypes, NEW t \in Tx, IsPending(t), MarkSeen(t)
  PROVE  OrdersKept
<1>1. stored[t] \in Record BY DEF DiskTypes, IsPending
<1> QED BY <1>1 DEF DiskTypes, MarkSeen, OrdersKept, Record

LEMMA TryUpdateKeepsOrders ==
  ASSUME DiskTypes, NEW t \in Tx, NEW status, TryUpdate(t, status)
  PROVE  OrdersKept
<1>1. CASE MayBecome(t, status) /\ Update(t, status)
  <2>1. stored[t] \in Record BY <1>1 DEF DiskTypes, MayBecome
  <2> QED BY <1>1, <2>1 DEF DiskTypes, Update, OrdersKept, Record
<1>2. CASE UNCHANGED stored BY <1>2 DEF OrdersKept
<1> QED BY <1>1, <1>2 DEF TryUpdate

LEMMA StorePendingKeepsOrders ==
  ASSUME DiskTypes, NEW o \in Op, tx[o] \in Tx, StorePending(o)
  PROVE  OrdersKept
BY DEF StorePending, DiskTypes, OrdersKept

LEMMA MarkReplacedKeepsOrders ==
  ASSUME DiskTypes, NEW o \in Op, job[o].original \in Tx, MarkReplaced(o)
  PROVE  OrdersKept
<1> DEFINE t == job[o].original
<1>1. CASE MayBecome(t, "replaced")
           /\ stored' = [stored EXCEPT ![t].status = "replaced", ![t].replacement = tx[o]]
  <2>1. stored[t] \in Record BY <1>1 DEF DiskTypes, MayBecome
  <2> QED BY <1>1, <2>1 DEF DiskTypes, OrdersKept, Record
<1>2. CASE UNCHANGED stored BY <1>2 DEF OrdersKept
<1> QED BY <1>1, <1>2 DEF MarkReplaced

LEMMA SendStepKeepsOrders ==
  ASSUME IInv, NEW o \in Op, SendStep(o)
  PROVE  OrdersKept
<1>1. TypeOK /\ CallOK(o) /\ DiskTypes BY DEF IInv, TypeOK
<1>2. pc[o] \in Prepared => tx[o] \in Tx BY <1>1 DEF CallOK
<1>3. CASE Enter(o) \/ PrepareSend(o) \/ PrepareReplacement(o) \/ Throw(o) \/ Sign(o)
           \/ Discard(o) \/ LookFound(o) \/ Submit(o) \/ GiveUp(o) \/ Clear(o)
           \/ AwaitTimeout(o)
  <2>1. UNCHANGED stored
    BY <1>3 DEF Enter, PrepareSend, PrepareReplacement, Prepare, Throw, Sign, Discard,
                LookFound, Submit, GiveUp, Clear, AwaitTimeout, disk
  <2> QED BY <2>1 DEF OrdersKept
<1>4. CASE StorePending(o)
  BY <1>1, <1>2, <1>4, StorePendingKeepsOrders DEF StorePending, Prepared, InSection
<1>5. CASE Mark(o)
  <2>1. tx[o] \in Tx BY <1>2, <1>5 DEF Mark, Prepared, InSection
  <2>2. CASE IsPending(tx[o]) /\ MarkSeen(tx[o]) BY <1>1, <2>1, <2>2, MarkSeenKeepsOrders
  <2>3. CASE UNCHANGED stored BY <2>3 DEF OrdersKept
  <2> QED BY <1>5, <2>2, <2>3 DEF Mark
<1>6. CASE MarkReplaced(o)
  <2>1. ~IsExecute(o) /\ job[o] \in Job
    BY <1>1, <1>6 DEF CallOK, MarkReplaced, Active, InSection
  <2>2. job[o].original \in Tx BY <2>1 DEF Job, IsExecute
  <2> QED BY <1>1, <1>6, <2>2, MarkReplacedKeepsOrders
<1>7. CASE AwaitConfirmed(o)
  BY <1>1, <1>2, <1>7, TryUpdateKeepsOrders DEF AwaitConfirmed, Prepared, InSection
<1>8. CASE AwaitReverted(o)
  BY <1>1, <1>2, <1>8, TryUpdateKeepsOrders DEF AwaitReverted, Prepared, InSection
<1> QED BY <1>3, <1>4, <1>5, <1>6, <1>7, <1>8 DEF SendStep

LEMMA CheckStepKeepsOrders ==
  ASSUME IInv, NEW t \in Tx, CheckStep(t)
  PROVE  OrdersKept
<1>1. DiskTypes BY DEF IInv, TypeOK
<1>2. CASE StartCheck(t) \/ CheckFound(t) \/ CheckLoad(t) \/ CheckSubmit(t) \/ CheckMissing(t)
           \/ CheckClear(t)
  <2>1. UNCHANGED stored
    BY <1>2 DEF StartCheck, CheckFound, CheckLoad, CheckSubmit, CheckMissing, CheckClear, disk
  <2> QED BY <2>1 DEF OrdersKept
<1>3. CASE CheckMark(t)
  <2>1. CASE IsPending(t) /\ MarkSeen(t) BY <1>1, <2>1, MarkSeenKeepsOrders
  <2>2. CASE UNCHANGED stored BY <2>2 DEF OrdersKept
  <2> QED BY <1>3, <2>1, <2>2 DEF CheckMark
<1>4. CASE CheckReceipt(t)
  <2>1. CASE \E status : TryUpdate(t, status) BY <1>1, <2>1, TryUpdateKeepsOrders
  <2>2. CASE UNCHANGED stored BY <2>2 DEF OrdersKept
  <2> QED BY <1>4, <2>1, <2>2 DEF CheckReceipt
<1> QED BY <1>2, <1>3, <1>4 DEF CheckStep

LEMMA NextKeepsOrders == IInv /\ [Next]_vars => OrdersKept
<1> SUFFICES ASSUME IInv, [Next]_vars PROVE OrdersKept OBVIOUS
<1>1. ASSUME NEW o \in Op, SendStep(o) PROVE OrdersKept BY <1>1, SendStepKeepsOrders
<1>2. ASSUME NEW t \in Tx, CheckStep(t) PROVE OrdersKept BY <1>2, CheckStepKeepsOrders
<1>3. CASE \/ \E q \in Quote : PrepareQuote(q)
           \/ \E o \in Op : \/ \E q \in Quote : BeginExecute(o, q)
                            \/ \E t \in Tx, mode \in {"speed-up", "cancel"} :
                                 BeginReplace(o, t, mode)
                            \/ ReadOriginal(o) \/ RefuseOriginal(o)
           \/ \E t \in Tx : Mine(t) \/ Evict(t)
           \/ Crash \/ UNCHANGED vars
  <2>1. UNCHANGED stored
    BY <1>3 DEF PrepareQuote, BeginExecute, BeginReplace, ReadOriginal, RefuseOriginal,
                Mine, Evict, Crash, disk, vars
  <2> QED BY <2>1 DEF OrdersKept
<1> QED BY <1>1, <1>2, <1>3 DEF Next

\* The energy order a record was made for stays with it, whoever signs the
\* same bytes again and whatever fails: storePendingBscTransaction never
\* changes the record it finds.
THEOREM OrdersAreStable == Spec => OrderLinkIsStable
BY InitEstablishes, Inductive, NextKeepsOrders, PTL DEF Spec, OrderLinkIsStable, OrdersKept
-----------------------------------------------------------------------------
(* The price of a replacement.                                             *)

\* A bumped gas price is the least that is higher by a fifth: rounding never
\* loses the bump, however small the price.
THEOREM BumpIsAFifth ==
  ASSUME NEW gas \in Nat
  PROVE  /\ Bumped(gas) \in Nat
         /\ 10 * Bumped(gas) >= 12 * gas
         /\ \A less \in Nat : 10 * less >= 12 * gas => Bumped(gas) <= less
BY DEF Bumped, CeilDivide

\* Whatever the original cost and the network asks for, a transaction prepared
\* to replace it, of the same nonce, offers a fifth more than it did.
THEOREM ReplacementsPayMore ==
  Spec => [][\A o \in Op : PrepareReplacement(o)
                => /\ 10 * tx'[o].gas >= 12 * job[o].original.gas
                   /\ tx'[o].nonce = job[o].original.nonce]_vars
<1>1. ASSUME IInv, NEW o \in Op, PrepareReplacement(o)
      PROVE  /\ 10 * tx'[o].gas >= 12 * job[o].original.gas
             /\ tx'[o].nonce = job[o].original.nonce
  <2> DEFINE t == job[o].original
  <2>1. t \in Tx BY <1>1, RunningCall DEF IInv, PrepareReplacement, InSection
  <2>2. t.gas \in Nat BY <2>1, BoundAssumption DEF Tx, GasPrice
  <2>3. /\ Bumped(t.gas) \in Nat
        /\ 10 * Bumped(t.gas) >= 12 * t.gas
    BY <2>2, BumpIsAFifth
  <2>4. PICK networkGas \in GasPrice :
          LET gas == IF networkGas > Bumped(t.gas) THEN networkGas ELSE Bumped(t.gas) IN
            Prepare(o, [payload |-> IF job[o].kind = "cancel" THEN Cancel ELSE t.payload,
                        nonce |-> t.nonce, gas |-> gas])
    BY <1>1 DEF PrepareReplacement
  <2> DEFINE gas == IF networkGas > Bumped(t.gas) THEN networkGas ELSE Bumped(t.gas)
  <2>5. 10 * gas >= 12 * t.gas BY <2>2, <2>3, <2>4, BoundAssumption DEF GasPrice
  <2>6. tx'[o].gas = gas /\ tx'[o].nonce = t.nonce
    BY <1>1, <2>4 DEF Prepare, IInv, TypeOK, CallTypes
  <2> QED BY <2>5, <2>6
<1>2. IInv /\ [Next]_vars
        => [\A o \in Op : PrepareReplacement(o)
              => /\ 10 * tx'[o].gas >= 12 * job[o].original.gas
                 /\ tx'[o].nonce = job[o].original.nonce]_vars
  BY <1>1
<1> QED BY <1>2, InitEstablishes, Inductive, PTL DEF Spec
-----------------------------------------------------------------------------
(* What a step of a running call is, apart from what it does to the world. *)

\* Call o goes on at label, or is over; the other calls stay where they are.
Advances(o, label) ==
  /\ pc' = [pc EXCEPT ![o] = label]
  /\ label # "done" => job' = job
  /\ \A p \in Op \ {o} : job'[p] = job[p] /\ tx'[p] = tx[p]
  /\ UNCHANGED <<ahead, quotes>>
  /\ \/ pc[o] \in InSection
     \/ pc[o] = "queued" /\ label = "prepare"
  /\ label \in {"prepare", "sign"} => pc[o] \in {"queued", "prepare"}

LEMMA GotoAdvances ==
  ASSUME NEW o \in Op, NEW label, Goto(o, label), UNCHANGED <<ahead, quotes>>,
         pc[o] \in InSection, label \notin {"prepare", "sign"}
  PROVE  Advances(o, label)
BY DEF Advances, Goto, local

LEMMA LeaveAdvances ==
  ASSUME NEW o \in Op, Leave(o), UNCHANGED <<ahead, quotes>>, pc[o] \in InSection, TypeOK
  PROVE  Advances(o, "done")
BY DEF Advances, Leave, TypeOK, CallTypes

LEMMA SendAdvances ==
  ASSUME IInv, NEW o \in Op, SendStep(o)
  PROVE  /\ \E label \in InSection \cup {"done"} : Advances(o, label)
         /\ Sign(o) \/ UNCHANGED <<consumed, signatures>>
<1>0. TypeOK BY DEF IInv
<1>1. CASE Enter(o)
  <2>1. Advances(o, "prepare") BY <1>1 DEF Advances, Enter, Goto, local
  <2> QED BY <1>1, <2>1 DEF Enter, InSection, caches
<1>2. CASE PrepareSend(o) \/ PrepareReplacement(o)
  <2>1. PICK t : Prepare(o, t) BY <1>2 DEF PrepareSend, PrepareReplacement
  <2>2. pc[o] = "prepare" BY <1>2 DEF PrepareSend, PrepareReplacement
  <2>3. Advances(o, "sign")
    BY <1>0, <2>1, <2>2 DEF Advances, Prepare, InSection, TypeOK, CallTypes
  <2> QED BY <2>1, <2>3 DEF Prepare, InSection, caches
<1>3. CASE Throw(o) \/ Discard(o) \/ AwaitReverted(o)
  <2>1. Leave(o) /\ pc[o] \in InSection /\ UNCHANGED <<ahead, quotes, consumed, signatures>>
    BY <1>3 DEF Throw, Discard, AwaitReverted, InSection, caches
  <2> QED BY <1>0, <2>1, LeaveAdvances
<1>4. CASE Sign(o)
  <2>1. pc[o] \in InSection /\ UNCHANGED <<ahead, quotes>> BY <1>4 DEF Sign, InSection
  <2>2. CASE Goto(o, "storePending")
    <3>1. Advances(o, "storePending") BY <2>1, <2>2, GotoAdvances
    <3> QED BY <1>4, <3>1 DEF InSection
  <2>3. CASE Leave(o) BY <1>0, <1>4, <2>1, <2>3, LeaveAdvances
  <2> QED BY <1>4, <2>2, <2>3 DEF Sign
<1>5. CASE StorePending(o)
  <2>1. pc[o] \in InSection /\ UNCHANGED <<ahead, quotes, consumed, signatures>>
    BY <1>5 DEF StorePending, InSection, caches
  <2>2. PICK label \in {"look", "discard"} : Goto(o, label) BY <1>5 DEF StorePending
  <2>3. Advances(o, label) BY <2>1, <2>2, GotoAdvances
  <2> QED BY <2>1, <2>3 DEF InSection
<1>6. CASE LookFound(o) \/ Clear(o) \/ MarkReplaced(o)
  <2>1. pc[o] \in InSection /\ UNCHANGED <<ahead, quotes, consumed, signatures>>
    BY <1>6 DEF LookFound, Clear, MarkReplaced, InSection, caches
  <2>2. PICK label \in {"mark", "await", "markReplaced"} : Goto(o, label)
    BY <1>6 DEF LookFound, Clear, MarkReplaced
  <2>3. Advances(o, label) BY <2>1, <2>2, GotoAdvances
  <2> QED BY <2>1, <2>3 DEF InSection
<1>7. CASE Submit(o)
  <2>1. pc' = [pc EXCEPT ![o] = "look"] BY <1>0, <1>7 DEF Submit, TypeOK, CallTypes
  <2>2. Advances(o, "look") BY <1>7, <2>1 DEF Advances, Submit, InSection
  <2> QED BY <1>7, <2>2 DEF Submit, InSection, caches
<1>8. CASE Mark(o)
  <2>1. pc[o] \in InSection /\ UNCHANGED <<ahead, quotes, consumed, signatures>>
    BY <1>8 DEF Mark, InSection, caches
  <2>2. CASE Goto(o, "clear")
    <3>1. Advances(o, "clear") BY <2>1, <2>2, GotoAdvances
    <3> QED BY <2>1, <3>1 DEF InSection
  <2>3. CASE Leave(o) BY <1>0, <2>1, <2>3, LeaveAdvances
  <2> QED BY <1>8, <2>2, <2>3 DEF Mark
<1>9. CASE GiveUp(o) \/ AwaitConfirmed(o) \/ AwaitTimeout(o)
  <2>1. Leave(o) /\ pc[o] \in InSection /\ UNCHANGED <<ahead, quotes, consumed, signatures>>
    BY <1>9 DEF GiveUp, AwaitConfirmed, AwaitTimeout, Return, InSection
  <2> QED BY <1>0, <2>1, LeaveAdvances
<1> QED BY <1>1, <1>2, <1>3, <1>4, <1>5, <1>6, <1>7, <1>8, <1>9 DEF SendStep

\* A step of a check, of the network or of the user's next quote.
Aside == \/ \E q \in Quote : PrepareQuote(q)
         \/ \E t \in Tx : Mine(t) \/ Evict(t) \/ CheckStep(t)

LEMMA AsideMoves ==
  Aside => UNCHANGED <<pc, local, ahead, caches, lost, signatures>>
BY DEF Aside, PrepareQuote, Mine, Evict, CheckStep, StartCheck, CheckFound, CheckLoad,
       CheckSubmit, CheckMissing, CheckMark, CheckClear, CheckReceipt, CheckGoto, quotes

\* Restarting leaves no call running.
LEMMA CrashEndsCalls ==
  ASSUME TypeOK, Crash, NEW o \in Op
  PROVE  /\ pc'[o] \in {"idle", "shared", "refused", "done"}
         /\ pc'[o] = IF pc[o] = "snapshot" THEN "shared"
                     ELSE IF o \in Outstanding THEN "done" ELSE pc[o]
<1>1. pc' = [p \in Op |-> CASE pc[p] = "snapshot" -> "shared"
                            [] p \in Outstanding -> "done"
                            [] OTHER -> pc[p]]
  BY DEF Crash
<1>2. pc[o] \in Active \cup {"idle", "shared", "refused", "done"} BY DEF TypeOK, CallTypes
<1>3. pc[o] = "snapshot" => o \notin Outstanding BY DEF Outstanding, InSection
<1>4. pc'[o] = IF pc[o] = "snapshot" THEN "shared"
               ELSE IF o \in Outstanding THEN "done" ELSE pc[o]
  BY <1>1, <1>3
<1> QED BY <1>2, <1>4 DEF Outstanding, Active
-----------------------------------------------------------------------------
(* A quote is signed once.                                                 *)

SignedQuotes == {q \in Quote : signatures[q] > 0}

\* The code remembers MAX_REMEMBERED_QUOTES quotes that were signed.  Beyond
\* them nothing is promised: TLC finds a quote signed twice when one more is.
EnoughMemory == Cardinality(SignedQuotes) <= MaxRememberedQuotes

Executing(o, q) == pc[o] \in Active /\ IsExecute(o) /\ job[o].quote = q
BeforeSigning(o) == pc[o] \in {"queued", "prepare", "sign"}

NoRepeats(seq) == \A i, j \in 1 .. Len(seq) : seq[i] = seq[j] => i = j

\* inFlight lets one call execute a quote, consumed only holds signed quotes.
Memory == /\ IsFiniteSet(SignedQuotes)
          /\ \A q \in SignedQuotes : quote[q] # None
          /\ NoRepeats(consumed)
          /\ Remembered(consumed) \subseteq SignedQuotes
          /\ \A o, p \in Op, q \in Quote : Executing(o, q) /\ Executing(p, q) => o = p
          /\ \A o \in Op : pc[o] = "snapshot" => ~IsExecute(o)

\* As long as consumed can hold them all, a signed quote is in it or died with
\* the process, and who is yet to sign has one that was not signed.
SignedOnce ==
  /\ QuoteSignedOnce
  /\ SignedQuotes \subseteq lost \cup Remembered(consumed)
  /\ \A o \in Op, q \in Quote : Executing(o, q) /\ BeforeSigning(o) => q \notin SignedQuotes

Once == EnoughMemory => SignedOnce

LEMMA RememberFacts ==
  ASSUME NEW seq \in Seq(Quote), NEW q \in Quote, NoRepeats(seq), NEW new, new = Remember(seq, q)
  PROVE  /\ NoRepeats(new)
         /\ Remembered(new) \subseteq Remembered(seq) \cup {q}
         /\ Len(seq) < MaxRememberedQuotes => Remembered(new) = Remembered(seq) \cup {q}
<1>1. CASE q \in Remembered(seq)
  <2>1. new = seq BY <1>1 DEF Remember, Remembered
  <2> QED BY <1>1, <2>1
<1>2. CASE q \notin Remembered(seq)
  <2> DEFINE added == Append(seq, q)
  <2>1. /\ added \in Seq(Quote) /\ Len(added) = Len(seq) + 1 /\ added[Len(seq) + 1] = q
        /\ \A i \in 1 .. Len(seq) : added[i] = seq[i]
    OBVIOUS
  <2>2. new = IF Len(added) > MaxRememberedQuotes THEN Tail(added) ELSE added
    BY <1>2 DEF Remember, Remembered
  <2> HIDE DEF added
  <2>3. NoRepeats(added) BY <1>2, <2>1 DEF NoRepeats, Remembered
  <2>4. Remembered(added) = Remembered(seq) \cup {q}
    <3>1. Remembered(added) \subseteq Remembered(seq) \cup {q} BY <2>1 DEF Remembered
    <3>2. q \in Remembered(added) BY <2>1 DEF Remembered
    <3>3. Remembered(seq) \subseteq Remembered(added) BY <2>1 DEF Remembered
    <3> QED BY <3>1, <3>2, <3>3
  <2>5. CASE Len(added) > MaxRememberedQuotes
    <3>1. /\ Len(Tail(added)) = Len(added) - 1
          /\ \A i \in 1 .. Len(Tail(added)) :
               i + 1 \in 1 .. Len(added) /\ Tail(added)[i] = added[i + 1]
      BY <2>1
    <3>2. NoRepeats(Tail(added)) BY <2>1, <2>3, <3>1 DEF NoRepeats
    <3>3. Remembered(Tail(added)) \subseteq Remembered(added) BY <2>1, <3>1 DEF Remembered
    <3> QED BY <2>1, <2>2, <2>4, <2>5, <3>2, <3>3, BoundAssumption
  <2>6. CASE ~(Len(added) > MaxRememberedQuotes) BY <2>2, <2>3, <2>4, <2>6
  <2> QED BY <2>5, <2>6
<1> QED BY <1>1, <1>2

\* No more is remembered than was signed.
LEMMA RememberedFew ==
  ASSUME NEW seq \in Seq(Quote), NoRepeats(seq), NEW S, IsFiniteSet(S), Remembered(seq) \subseteq S
  PROVE  Len(seq) <= Cardinality(S)
<1>1. Len(seq) \in Nat /\ Cardinality(S) \in Nat BY FS_CardinalityType
<1>2. IsFiniteSet(1 .. Len(seq)) /\ Cardinality(1 .. Len(seq)) = Len(seq)
  <2> DEFINE n == Len(seq)
  <2>1. n \in Nat BY <1>1
  <2> HIDE DEF n
  <2>2. IsFiniteSet(1 .. n) /\ Cardinality(1 .. n) = (IF 1 > n THEN 0 ELSE n - 1 + 1)
    BY <2>1, FS_Interval
  <2>3. Cardinality(1 .. n) = n BY <2>1, <2>2
  <2> QED BY <2>2, <2>3 DEF n
<1> DEFINE f == [i \in 1 .. Len(seq) |-> seq[i]]
<1>3. f \in [1 .. Len(seq) -> S] BY DEF Remembered
<1> SUFFICES ASSUME Cardinality(S) < Len(seq) PROVE FALSE BY <1>1
<1>4. \E i, j \in 1 .. Len(seq) : i # j /\ f[i] = f[j] BY <1>2, <1>3, FS_PigeonHole
<1> QED BY <1>4 DEF NoRepeats

LEMMA InitMemory == Init => Memory /\ Once
<1> SUFFICES ASSUME Init PROVE Memory /\ Once OBVIOUS
<1>1. SignedQuotes = {} BY DEF Init, SignedQuotes
<1>2. IsFiniteSet(SignedQuotes) BY <1>1, FS_EmptySet
<1>3. Remembered(consumed) = {} /\ NoRepeats(consumed) BY DEF Init, Remembered, NoRepeats
<1>4. Memory BY <1>1, <1>2, <1>3 DEF Init, Memory, Executing, Active, InSection
<1>5. QuoteSignedOnce BY DEF Init, QuoteSignedOnce
<1> QED BY <1>1, <1>4, <1>5 DEF Once, SignedOnce

\* Nothing is signed, and no call starts to execute a quote.
LEMMA MemoryMoves ==
  ASSUME Memory, Once, UNCHANGED <<consumed, signatures>>, lost \subseteq lost',
         \A q \in Quote : quote[q] # None => quote'[q] # None,
         \A o \in Op, q \in Quote : Executing(o, q)' =>
           Executing(o, q) /\ (BeforeSigning(o)' => BeforeSigning(o)),
         \A o \in Op : pc'[o] = "snapshot" => ~IsExecute(o)'
  PROVE  Memory' /\ Once'
<1>1. SignedQuotes' = SignedQuotes BY DEF SignedQuotes
<1>2. Memory'
  <2>1. \A o, p \in Op, q \in Quote : Executing(o, q)' /\ Executing(p, q)' => o = p
    BY DEF Memory
  <2>2. \A q \in SignedQuotes : quote'[q] # None BY DEF Memory, SignedQuotes
  <2> QED BY <1>1, <2>1, <2>2 DEF Memory, NoRepeats, Remembered
<1>3. SignedOnce => SignedOnce' BY <1>1 DEF SignedOnce, QuoteSignedOnce, Remembered
<1> QED BY <1>1, <1>2, <1>3 DEF Once, EnoughMemory

\* A call that starts to execute a quote finds that no other does, and that
\* it was not signed.
LEMMA BeginExecuteMemory ==
  ASSUME IInv, Memory, Once, NEW o \in Op, NEW q \in Quote, BeginExecute(o, q)
  PROVE  Memory' /\ Once'
<1> DEFINE task == [kind |-> "execute", quote |-> q]
<1>0. CallTypes /\ task \in Job BY DEF IInv, TypeOK, Job
<1>1. UNCHANGED <<quotes, consumed, signatures>> BY DEF BeginExecute, caches
<1>2. pc[o] = "idle" BY DEF BeginExecute
<1>3. CASE pc'[o] \in {"shared", "refused"}
           /\ \A p \in Op \ {o} : pc'[p] = pc[p] /\ job'[p] = job[p] /\ tx'[p] = tx[p]
  <2>1. \A p \in Op, r \in Quote : Executing(p, r)' => Executing(p, r) /\ (BeforeSigning(p)' => BeforeSigning(p))
    BY <1>3 DEF Executing, IsExecute, BeforeSigning, Active, InSection
  <2>2. \A p \in Op : pc'[p] = "snapshot" => ~IsExecute(p)'
    BY <1>3 DEF Memory, IsExecute
  <2> QED BY <1>1, <2>1, <2>2, MemoryMoves DEF quotes
<1>4. CASE /\ pc'[o] = "queued" /\ job'[o] = task
           /\ \A p \in Op \ {o} : pc'[p] = pc[p] /\ job'[p] = job[p] /\ tx'[p] = tx[p]
           /\ q \notin InFlight \cup Remembered(consumed)
  <2>1. \A r \in Quote : Executing(o, r)' <=> r = q
    BY <1>4 DEF Executing, IsExecute, Active
  <2>2. \A p \in Op \ {o}, r \in Quote : Executing(p, r)' =>
          Executing(p, r) /\ r # q /\ (BeforeSigning(p)' => BeforeSigning(p))
    BY <1>4 DEF Executing, IsExecute, BeforeSigning, InFlight
  <2>3. SignedQuotes' = SignedQuotes BY <1>1 DEF SignedQuotes
  <2>4. Memory'
    <3>1. \A p, r \in Op, s \in Quote : Executing(p, s)' /\ Executing(r, s)' => p = r
      BY <2>1, <2>2 DEF Memory
    <3>2. \A p \in Op : pc'[p] = "snapshot" => ~IsExecute(p)' BY <1>4 DEF Memory, IsExecute
    <3> QED BY <1>1, <2>3, <3>1, <3>2 DEF Memory, NoRepeats, Remembered, quotes
  <2>5. SignedOnce => SignedOnce'
    <3> HAVE SignedOnce
    <3>1. q \notin SignedQuotes BY <1>4 DEF SignedOnce, BeginExecute
    <3>2. \A p \in Op, r \in Quote : Executing(p, r)' /\ BeforeSigning(p)' => r \notin SignedQuotes
      BY <2>1, <2>2, <3>1 DEF SignedOnce
    <3> QED BY <1>1, <2>3, <3>2 DEF SignedOnce, QuoteSignedOnce, Remembered, quotes
  <2> QED BY <2>3, <2>4, <2>5 DEF Once, EnoughMemory
<1>5. CASE TurnAway(o, "shared") BY <1>0, <1>3, <1>5, TurnAwayType
<1>6. CASE RunExclusive(o, task) /\ q \notin InFlight \cup Remembered(consumed)
  BY <1>0, <1>3, <1>4, <1>6, RunExclusiveType
<1> QED BY <1>5, <1>6 DEF BeginExecute

LEMMA BeginReplaceMemory ==
  ASSUME IInv, Memory, Once, NEW o \in Op, NEW t \in Tx, NEW mode \in {"speed-up", "cancel"},
         BeginReplace(o, t, mode)
  PROVE  Memory' /\ Once'
<1>0. CallTypes BY DEF IInv, TypeOK
<1>1. UNCHANGED <<quotes, consumed, signatures>> BY DEF BeginReplace, caches
<1>2. /\ \/ pc'[o] = "shared"
         \/ pc'[o] = "snapshot" /\ job'[o].kind = mode
      /\ \A p \in Op \ {o} : pc'[p] = pc[p] /\ job'[p] = job[p]
  <2>1. CASE TurnAway(o, "shared") BY <1>0, <2>1, TurnAwayType
  <2>2. CASE /\ pc' = [pc EXCEPT ![o] = "snapshot"]
             /\ job' = [job EXCEPT ![o] = [kind |-> mode, original |-> t]]
    BY <1>0, <2>2 DEF CallTypes
  <2> QED BY <2>1, <2>2 DEF BeginReplace
<1>3. \A p \in Op, r \in Quote : Executing(p, r)' => Executing(p, r) /\ (BeforeSigning(p)' => BeforeSigning(p))
  BY <1>2 DEF Executing, IsExecute, BeforeSigning, Active, InSection
<1>4. \A p \in Op : pc'[p] = "snapshot" => ~IsExecute(p)' BY <1>2 DEF Memory, IsExecute
<1> QED BY <1>1, <1>3, <1>4, MemoryMoves DEF quotes

LEMMA ReadOriginalMemory ==
  ASSUME IInv, Memory, Once, NEW o \in Op, ReadOriginal(o) \/ RefuseOriginal(o)
  PROVE  Memory' /\ Once'
<1>0. CallTypes /\ CallOK(o) BY DEF IInv, TypeOK
<1>1. UNCHANGED <<quotes, consumed, signatures>> BY DEF ReadOriginal, RefuseOriginal, caches
<1>2. pc[o] = "snapshot" /\ ~IsExecute(o) /\ job[o] \in Job
  BY <1>0 DEF ReadOriginal, RefuseOriginal, Memory, CallOK, Active
<1>3. /\ \/ pc'[o] \in {"shared", "refused"}
         \/ pc'[o] = "queued" /\ job'[o] = job[o]
      /\ \A p \in Op \ {o} : pc'[p] = pc[p] /\ job'[p] = job[p]
  <2>1. CASE ReadOriginal(o) BY <1>0, <1>2, <2>1, RunExclusiveType DEF ReadOriginal
  <2>2. CASE RefuseOriginal(o) BY <1>0, <2>2, TurnAwayType DEF RefuseOriginal
  <2> QED BY <2>1, <2>2
<1>4. \A p \in Op, r \in Quote : Executing(p, r)' => Executing(p, r) /\ (BeforeSigning(p)' => BeforeSigning(p))
  BY <1>2, <1>3 DEF Executing, IsExecute, BeforeSigning, Active, InSection
<1>5. \A p \in Op : pc'[p] = "snapshot" => ~IsExecute(p)' BY <1>3 DEF Memory, IsExecute
<1> QED BY <1>1, <1>4, <1>5, MemoryMoves DEF quotes

\* What a running call's own step leaves of it.
LEMMA AdvancesMemory ==
  ASSUME IInv, Memory, NEW o \in Op, NEW label \in InSection \cup {"done"}, Advances(o, label)
  PROVE  /\ \A p \in Op, r \in Quote : Executing(p, r)' =>
              Executing(p, r) /\ (BeforeSigning(p)' => BeforeSigning(p))
         /\ \A p \in Op : pc'[p] = "snapshot" => ~IsExecute(p)'
<1>1. pc'[o] = label /\ pc[o] \in Active /\ \A p \in Op \ {o} : pc'[p] = pc[p] /\ job'[p] = job[p]
  BY DEF IInv, TypeOK, CallTypes, Advances, Active
<1>2. label # "done" => job'[o] = job[o] BY DEF Advances
<1>3. label \in {"prepare", "sign"} => BeforeSigning(o) BY DEF Advances, BeforeSigning
<1>4. label # "snapshot" /\ label # "queued" BY DEF InSection
<1> QED BY <1>1, <1>2, <1>3, <1>4 DEF Memory, Executing, IsExecute, BeforeSigning, Active, InSection

LEMMA SignMemory ==
  ASSUME IInv, Memory, Once, NEW o \in Op, Sign(o), IsExecute(o)
  PROVE  Memory' /\ Once'
<1> DEFINE q == job[o].quote
<1>0. TypeOK /\ pc[o] = "sign" /\ q \in Quote /\ quote[q] # None
  BY RunningCall DEF IInv, Sign, InSection
<1>1. PICK label \in InSection \cup {"done"} : Advances(o, label)
  BY SendAdvances DEF SendStep
<1>2. /\ \A p \in Op, r \in Quote : Executing(p, r)' =>
           Executing(p, r) /\ (BeforeSigning(p)' => BeforeSigning(p))
      /\ \A p \in Op : pc'[p] = "snapshot" => ~IsExecute(p)'
  BY <1>1, AdvancesMemory
<1>3. /\ signatures' = [signatures EXCEPT ![q] = @ + 1]
      /\ consumed' = Remember(consumed, q)
      /\ UNCHANGED <<quote, lost>>
  BY DEF Sign, quotes
<1>4. consumed \in Seq(Quote) /\ signatures \in [Quote -> Nat] BY <1>0 DEF TypeOK, QuoteTypes
<1>5. SignedQuotes' = SignedQuotes \cup {q} BY <1>0, <1>3, <1>4 DEF SignedQuotes
<1>6. /\ NoRepeats(consumed')
      /\ Remembered(consumed') \subseteq Remembered(consumed) \cup {q}
      /\ Len(consumed) < MaxRememberedQuotes => Remembered(consumed') = Remembered(consumed) \cup {q}
  BY <1>0, <1>3, <1>4, RememberFacts DEF Memory
<1>7. IsFiniteSet(SignedQuotes')
      /\ Cardinality(SignedQuotes') = IF q \in SignedQuotes THEN Cardinality(SignedQuotes)
                                      ELSE Cardinality(SignedQuotes) + 1
  BY <1>5, FS_AddElement DEF Memory
<1>8. Memory'
  <2>1. \A p, r \in Op, s \in Quote : Executing(p, s)' /\ Executing(r, s)' => p = r
    BY <1>2 DEF Memory
  <2>2. NoRepeats(consumed)' /\ Remembered(consumed)' \subseteq SignedQuotes'
    BY <1>5, <1>6 DEF Memory, NoRepeats, Remembered
  <2>3. \A s \in SignedQuotes' : quote'[s] # None BY <1>0, <1>3, <1>5 DEF Memory
  <2> QED BY <1>2, <1>7, <2>1, <2>2, <2>3 DEF Memory
<1>9. Once'
  <2> SUFFICES ASSUME EnoughMemory' PROVE SignedOnce' BY DEF Once
  <2>1. Cardinality(SignedQuotes) \in Nat BY FS_CardinalityType DEF Memory
  <2>2. SignedOnce BY <1>7, <2>1, BoundAssumption DEF EnoughMemory, Once
  <2>3. Executing(o, q) /\ BeforeSigning(o) BY <1>0 DEF Executing, BeforeSigning, Active, InSection
  <2>4. q \notin SignedQuotes BY <1>0, <2>2, <2>3 DEF SignedOnce
  <2>5. Len(consumed) < MaxRememberedQuotes
    <3>1. Len(consumed) <= Cardinality(SignedQuotes) BY <1>4, RememberedFew DEF Memory
    <3>2. Cardinality(SignedQuotes) + 1 <= MaxRememberedQuotes BY <1>7, <2>4 DEF EnoughMemory
    <3> QED BY <1>4, <2>1, <3>1, <3>2, BoundAssumption
  <2>6. QuoteSignedOnce' BY <1>0, <1>3, <1>4, <2>2, <2>4 DEF SignedOnce, QuoteSignedOnce, SignedQuotes
  <2>7. SignedQuotes' \subseteq lost' \cup Remembered(consumed)'
    BY <1>3, <1>5, <1>6, <2>2, <2>5 DEF SignedOnce, Remembered
  <2>8. ASSUME NEW p \in Op, NEW r \in Quote, Executing(p, r)', BeforeSigning(p)'
        PROVE  r \notin SignedQuotes'
    <3>1. r \notin SignedQuotes BY <1>2, <2>2, <2>8 DEF SignedOnce
    <3>2. r # q
      <4> SUFFICES ASSUME r = q PROVE FALSE OBVIOUS
      <4>1. p = o BY <1>0, <1>2, <2>3, <2>8 DEF Memory
      <4>2. pc'[o] \in {"storePending", "done"} BY <1>0 DEF Sign, Goto, Leave, TypeOK, CallTypes
      <4> QED BY <2>8, <4>1, <4>2 DEF BeforeSigning
    <3> QED BY <1>5, <3>1, <3>2
  <2> QED BY <2>6, <2>7, <2>8 DEF SignedOnce
<1> QED BY <1>8, <1>9

LEMMA SendMemory ==
  ASSUME IInv, Memory, Once, NEW o \in Op, SendStep(o)
  PROVE  Memory' /\ Once'
<1>1. CASE Sign(o) /\ IsExecute(o) BY <1>1, SignMemory
<1>2. CASE ~(Sign(o) /\ IsExecute(o))
  <2>1. PICK label \in InSection \cup {"done"} : Advances(o, label) BY SendAdvances
  <2>2. UNCHANGED <<consumed, signatures>> BY <1>2, SendAdvances DEF Sign
  <2>3. UNCHANGED quotes BY <2>1 DEF Advances
  <2> QED BY <2>1, <2>2, <2>3, AdvancesMemory, MemoryMoves DEF quotes
<1> QED BY <1>1, <1>2

\* The caches die with the process, and so do the quotes they were about.
LEMMA CrashMemory ==
  ASSUME IInv, Memory, Once, Crash
  PROVE  Memory' /\ Once'
<1>1. \A p \in Op : pc'[p] \in {"idle", "shared", "refused", "done"}
  BY CrashEndsCalls DEF IInv
<1>2. \A p \in Op : pc'[p] \notin Active BY <1>1 DEF Active, InSection
<1>3. UNCHANGED <<quote, signatures>> /\ consumed' = <<>> /\ lost' = {q \in Quote : quote[q] # None}
  BY DEF Crash
<1>4. SignedQuotes' = SignedQuotes BY <1>3 DEF SignedQuotes
<1>5. Remembered(consumed)' = {} /\ NoRepeats(consumed)' BY <1>3 DEF Remembered, NoRepeats
<1>6. Memory'
  BY <1>2, <1>3, <1>4, <1>5 DEF Memory, Executing, Active
<1>7. SignedOnce => SignedOnce'
  <2>1. SignedQuotes \subseteq lost' BY <1>3 DEF Memory, SignedQuotes
  <2> QED BY <1>2, <1>3, <1>4, <2>1 DEF SignedOnce, QuoteSignedOnce, Executing
<1> QED BY <1>4, <1>6, <1>7 DEF Once, EnoughMemory

LEMMA AsideMemory ==
  ASSUME IInv, Memory, Once, Aside \/ UNCHANGED vars
  PROVE  Memory' /\ Once'
<1>1. UNCHANGED <<pc, job, consumed, signatures, lost>>
  BY AsideMoves DEF vars, local, caches, quotes
<1>2. \A q \in Quote : quote[q] # None => quote'[q] # None
  <2>1. CASE \E q \in Quote : PrepareQuote(q)
    BY <2>1 DEF PrepareQuote, IInv, TypeOK, QuoteTypes
  <2>2. CASE UNCHANGED quotes BY <2>2 DEF quotes
  <2>3. (\E t \in Tx : Mine(t) \/ Evict(t) \/ CheckStep(t)) \/ UNCHANGED vars => UNCHANGED quotes
    BY DEF vars, Mine, Evict, CheckStep, StartCheck, CheckFound, CheckLoad, CheckSubmit,
           CheckMissing, CheckMark, CheckClear, CheckReceipt, CheckGoto
  <2> QED BY <2>1, <2>2, <2>3 DEF Aside
<1>3. \A p \in Op, r \in Quote : Executing(p, r)' => Executing(p, r) /\ (BeforeSigning(p)' => BeforeSigning(p))
  BY <1>1 DEF Executing, IsExecute, BeforeSigning
<1>4. \A p \in Op : pc'[p] = "snapshot" => ~IsExecute(p)' BY <1>1 DEF Memory, IsExecute
<1> QED BY <1>1, <1>2, <1>3, <1>4, MemoryMoves

LEMMA MemoryKept == IInv /\ Memory /\ Once /\ [Next]_vars => Memory' /\ Once'
<1> SUFFICES ASSUME IInv, Memory, Once, [Next]_vars PROVE Memory' /\ Once' OBVIOUS
<1>1. ASSUME NEW o \in Op, NEW q \in Quote, BeginExecute(o, q) PROVE Memory' /\ Once'
  BY <1>1, BeginExecuteMemory
<1>2. ASSUME NEW o \in Op, NEW t \in Tx, NEW mode \in {"speed-up", "cancel"},
             BeginReplace(o, t, mode)
      PROVE  Memory' /\ Once'
  BY <1>2, BeginReplaceMemory
<1>3. ASSUME NEW o \in Op, ReadOriginal(o) \/ RefuseOriginal(o) PROVE Memory' /\ Once'
  BY <1>3, ReadOriginalMemory
<1>4. ASSUME NEW o \in Op, SendStep(o) PROVE Memory' /\ Once' BY <1>4, SendMemory
<1>5. CASE Aside \/ UNCHANGED vars BY <1>5, AsideMemory
<1>6. CASE Crash BY <1>6, CrashMemory
<1> QED BY <1>1, <1>2, <1>3, <1>4, <1>5, <1>6 DEF Next, Aside

\* As long as no more than MAX_REMEMBERED_QUOTES quotes were signed, no quote
\* is signed twice, however often and concurrently it is confirmed, whatever
\* fails and however often the app is started again.
THEOREM NoQuoteIsSignedTwice == Spec => [](EnoughMemory => QuoteSignedOnce)
<1>1. Init => IInv /\ Memory /\ Once BY InitEstablishes, InitMemory
<1>2. IInv /\ Memory /\ Once /\ [Next]_vars => (IInv /\ Memory /\ Once)' BY Inductive, MemoryKept
<1>3. Once => (EnoughMemory => QuoteSignedOnce) BY DEF Once, SignedOnce
<1> QED BY <1>1, <1>2, <1>3, PTL DEF Spec
-----------------------------------------------------------------------------
(* The queue as the coordinator keeps it.                                  *)

\* Who was found in the queue had joined it, and has not left it unnoticed.
AheadJoined == \A o \in Op : \A p \in ahead[o] : pc[p] \in {"queued", "done"} \cup InSection

\* Only runExclusive lets a call join.
LEMMA JoinKeeps ==
  ASSUME TypeOK, AheadJoined, NEW o \in Op, pc[o] \in {"idle", "snapshot"}, NEW task,
         RunExclusive(o, task)
  PROVE  AheadJoined'
<1>1. CASE Cardinality(Outstanding) < MaxQueueDepth
  <2>1. pc'[o] = "queued" /\ (\A p \in Op \ {o} : pc'[p] = pc[p])
        /\ ahead' = [ahead EXCEPT ![o] = Outstanding] /\ ahead \in [Op -> SUBSET Op]
    BY <1>1 DEF RunExclusive, TypeOK, CallTypes
  <2>2. \A p \in Op : pc[p] \in {"queued", "done"} \cup InSection
                        => pc'[p] \in {"queued", "done"} \cup InSection
    BY <2>1
  <2> QED BY <2>1, <2>2 DEF AheadJoined, Outstanding
<1>2. CASE TurnAway(o, "refused")
  <2>1. pc'[o] = "refused" /\ (\A p \in Op \ {o} : pc'[p] = pc[p]) /\ ahead' = ahead
        /\ ahead \in [Op -> SUBSET Op]
    BY <1>2 DEF TurnAway, TypeOK, CallTypes
  <2>2. \A p \in Op : pc[p] \in {"queued", "done"} \cup InSection
                        => pc'[p] \in {"queued", "done"} \cup InSection
    BY <2>1 DEF InSection
  <2> QED BY <2>1, <2>2 DEF AheadJoined
<1> QED BY <1>1, <1>2 DEF RunExclusive

\* Nobody joins.
LEMMA AheadMoves ==
  ASSUME TypeOK, AheadJoined, ahead' = ahead,
         \A p \in Op : pc[p] \in {"queued", "done"} \cup InSection
                         => pc'[p] \in {"queued", "done"} \cup InSection
  PROVE  AheadJoined'
BY DEF AheadJoined, TypeOK, CallTypes

\* One step: who is found ahead stays accounted for.
LEMMA AheadKept == IInv /\ AheadJoined /\ [Next]_vars => AheadJoined'
<1> SUFFICES ASSUME IInv, AheadJoined, [Next]_vars PROVE AheadJoined' OBVIOUS
<1>0. TypeOK BY DEF IInv
<1>1. ASSUME NEW o \in Op, pc[o] \in {"idle", "snapshot"}, NEW task, RunExclusive(o, task)
      PROVE  AheadJoined'
  BY <1>0, <1>1, JoinKeeps
<1>2. ASSUME NEW o \in Op, pc[o] \in {"idle", "snapshot"}, TurnAway(o, "shared")
      PROVE  AheadJoined'
  <2>1. ahead' = ahead /\ pc'[o] = "shared" /\ \A p \in Op \ {o} : pc'[p] = pc[p]
    BY <1>0, <1>2 DEF TurnAway, TypeOK, CallTypes
  <2> QED BY <1>0, <1>2, <2>1, AheadMoves DEF InSection
<1>3. ASSUME NEW o \in Op, NEW q \in Quote, BeginExecute(o, q) PROVE AheadJoined'
  BY <1>1, <1>2, <1>3 DEF BeginExecute
<1>4. ASSUME NEW o \in Op, NEW t \in Tx, NEW mode \in {"speed-up", "cancel"},
             BeginReplace(o, t, mode)
      PROVE  AheadJoined'
  <2>1. CASE TurnAway(o, "shared") BY <1>2, <1>4, <2>1 DEF BeginReplace
  <2>2. CASE pc' = [pc EXCEPT ![o] = "snapshot"] /\ ahead' = ahead
    <3>1. pc[o] = "idle" /\ \A p \in Op \ {o} : pc'[p] = pc[p]
      BY <1>0, <1>4, <2>2 DEF BeginReplace, TypeOK, CallTypes
    <3> QED BY <1>0, <2>2, <3>1, AheadMoves DEF InSection
  <2> QED BY <1>4, <2>1, <2>2 DEF BeginReplace
<1>5. ASSUME NEW o \in Op, ReadOriginal(o) \/ RefuseOriginal(o) PROVE AheadJoined'
  BY <1>1, <1>2, <1>5 DEF ReadOriginal, RefuseOriginal
<1>6. ASSUME NEW o \in Op, SendStep(o) PROVE AheadJoined'
  <2>1. PICK label \in InSection \cup {"done"} : Advances(o, label) BY <1>6, SendAdvances
  <2>2. pc'[o] = label /\ (\A p \in Op \ {o} : pc'[p] = pc[p]) /\ ahead' = ahead
    BY <1>0, <2>1 DEF Advances, TypeOK, CallTypes
  <2> QED BY <1>0, <2>2, AheadMoves
<1>7. CASE Crash
  <2>1. ahead' = ahead BY <1>7 DEF Crash
  <2>2. \A p \in Op : pc[p] \in {"queued", "done"} \cup InSection
                         => pc'[p] \in {"queued", "done"} \cup InSection
    BY <1>0, <1>7, CrashEndsCalls DEF Outstanding, InSection
  <2> QED BY <1>0, <2>1, <2>2, AheadMoves
<1>8. CASE Aside \/ UNCHANGED vars
  <2>1. UNCHANGED <<pc, ahead>> BY <1>8, AsideMoves DEF vars
  <2> QED BY <1>0, <2>1, AheadMoves
<1> QED BY <1>3, <1>4, <1>5, <1>6, <1>7, <1>8 DEF Next, Aside
-----------------------------------------------------------------------------
(* What the store says of the chain.                                       *)

\* One nonce is mined once, and what is pending can still be.
Chain == /\ \A t \in mempool : t.nonce >= head
         /\ \A t \in Tx : outcome[t] # "none" => t.nonce < head
         /\ \A t, u \in Tx :
              outcome[t] # "none" /\ outcome[u] # "none" /\ t.nonce = u.nonce => t = u

Seen(t) == stored[t] # None /\ stored[t].submission = "network_seen"

\* What was mined, or is said to have been seen, was on the network.
OnceSent == /\ mempool \subseteq sent
            /\ \A t \in Tx : outcome[t] # "none" \/ Seen(t) => t \in sent

Reported == Chain /\ OnceSent /\ SettledTruthfully

\* A call or check that found its transaction on the network has it marked,
\* and a replacement is another transaction of its original's nonce.
HeldCall(o) ==
  /\ pc[o] = "mark" => tx[o] \in sent
  /\ pc[o] \in {"clear", "markReplaced", "await"} => Seen(tx[o])
  /\ pc[o] \in Prepared /\ ~IsExecute(o)
       => tx[o].nonce = job[o].original.nonce /\ tx[o] # job[o].original

HeldCheck(t) == /\ check[t] = "mark" => t \in sent
                /\ check[t] \in {"clear", "receipt"} => Seen(t)

Held == (\A o \in Op : HeldCall(o)) /\ (\A t \in Tx : HeldCheck(t))

\* The record of t, and no other, gets this status and submission.
Becomes(t, status, submission) ==
  /\ stored'[t] # None
  /\ stored'[t].status = status /\ stored'[t].submission = submission
  /\ \A u \in Tx \ {t} : stored'[u] = stored[u]

\* The ways a record changes ...
StoreChange(t) ==
  \/ stored[t] = None /\ Becomes(t, "pending", "submitting")
  \/ IsPending(t) /\ t \in sent /\ Becomes(t, "pending", "network_seen")
  \/ Seen(t) /\ MayBecome(t, "confirmed") /\ outcome[t] = "ok"
     /\ Becomes(t, "confirmed", "network_seen")
  \/ Seen(t) /\ MayBecome(t, "failed") /\ outcome[t] = "reverted"
     /\ Becomes(t, "failed", "network_seen")
  \/ /\ MayBecome(t, "replaced") /\ \E u \in sent \ {t} : u.nonce = t.nonce
     /\ \E o \in Op : MarkReplaced(o) /\ t = job[o].original
     /\ Becomes(t, "replaced", stored[t].submission)

\* ... and the ways stores and network change.
WorldStep ==
  \/ UNCHANGED <<stored, network>>
  \/ UNCHANGED network /\ \E t \in Tx : StoreChange(t)
  \/ stored' = stored /\ \E t \in Tx : Recorded(t) /\ Transmit(t)
  \/ stored' = stored /\ \E t \in Tx : Mine(t) \/ Evict(t)

\* What is known of the network stays known.
Lasting == /\ sent \subseteq sent'
           /\ \A t \in Tx : Seen(t) => stored'[t] # None /\ stored'[t].submission = "network_seen"

LEMMA WorldLasts == ASSUME IInv, WorldStep PROVE Lasting
<1>1. ASSUME NEW t \in Tx, StoreChange(t), UNCHANGED network PROVE Lasting
  BY <1>1 DEF StoreChange, Becomes, Lasting, Seen, network
<1>2. ASSUME NEW t \in Tx, Transmit(t) \/ Mine(t) \/ Evict(t), stored' = stored PROVE Lasting
  BY <1>2 DEF Transmit, Mine, Evict, Lasting, Seen, network
<1>3. CASE UNCHANGED <<stored, network>> BY <1>3 DEF Lasting, Seen, network
<1> QED BY <1>1, <1>2, <1>3 DEF WorldStep

LEMMA StoreKeepsReported ==
  ASSUME IInv, Reported, NEW t \in Tx, StoreChange(t), UNCHANGED network
  PROVE  Reported'
<1>1. Chain' BY DEF Reported, Chain, network
<1>2. Seen(t)' => t \in sent
  BY DEF StoreChange, Becomes, Reported, OnceSent, Seen, MayBecome
<1>3. OnceSent'
  <2> SUFFICES ASSUME NEW u \in Tx, outcome'[u] # "none" \/ Seen(u)' PROVE u \in sent'
    BY DEF Reported, OnceSent, network
  <2>1. CASE u = t BY <1>2, <2>1 DEF Reported, OnceSent, network
  <2>2. CASE u # t BY <2>2 DEF StoreChange, Becomes, Reported, OnceSent, Seen, network
  <2> QED BY <2>1, <2>2
<1>4. SettledTruthfully'
  <2> SUFFICES ASSUME NEW u \in Tx, stored'[u] # None
               PROVE  /\ stored'[u].status = "confirmed" => outcome[u] = "ok"
                      /\ stored'[u].status = "failed" => outcome[u] = "reverted"
    BY DEF SettledTruthfully, network
  <2>1. CASE u = t BY <2>1 DEF StoreChange, Becomes
  <2>2. CASE u # t BY <2>2 DEF StoreChange, Becomes, Reported, SettledTruthfully
  <2> QED BY <2>1, <2>2
<1> QED BY <1>1, <1>3, <1>4 DEF Reported

LEMMA NetworkKeepsReported ==
  ASSUME IInv, Reported, NEW t \in Tx, stored' = stored, Transmit(t) \/ Mine(t) \/ Evict(t)
  PROVE  Reported'
<1>0. NetworkTypes BY DEF IInv, TypeOK
<1>1. head \in Nat /\ \A u \in Tx : u.nonce \in Nat
  BY <1>0, BoundAssumption DEF NetworkTypes, Tx, Nonce
<1>2. CASE Transmit(t)
  <2>1. Chain' BY <1>2 DEF Transmit, Reported, Chain, network
  <2>2. OnceSent' BY <1>2 DEF Transmit, Reported, OnceSent, Seen, network
  <2>3. SettledTruthfully' BY <1>2 DEF Transmit, Reported, SettledTruthfully, network
  <2> QED BY <2>1, <2>2, <2>3 DEF Reported
<1>3. CASE Mine(t)
  <2>1. PICK r \in {"ok", "reverted"} : outcome' = [outcome EXCEPT ![t] = r] BY <1>3 DEF Mine
  <2>2. /\ t \in mempool /\ t.nonce = head /\ head' = head + 1 /\ sent' = sent
        /\ mempool' = {u \in mempool : u.nonce > head}
        /\ outcome'[t] = r /\ \A u \in Tx \ {t} : outcome'[u] = outcome[u]
    BY <1>0, <1>3, <2>1 DEF Mine, NetworkTypes
  <2>3. outcome[t] = "none" BY <1>1, <2>2 DEF Reported, Chain
  <2>4. Chain'
    <3>1. \A u \in mempool' : u.nonce >= head' BY <1>0, <1>1, <2>2 DEF NetworkTypes
    <3>2. \A u \in Tx : outcome'[u] # "none" => u.nonce < head'
      BY <1>1, <2>2 DEF Reported, Chain
    <3>3. ASSUME NEW u \in Tx, NEW v \in Tx, outcome'[u] # "none", outcome'[v] # "none",
                 u.nonce = v.nonce
          PROVE  u = v
      <4>1. \A w \in Tx \ {t} : outcome'[w] # "none" => w.nonce < head
        BY <2>2 DEF Reported, Chain
      <4> QED BY <1>1, <2>2, <3>3, <4>1 DEF Reported, Chain
    <3> QED BY <3>1, <3>2, <3>3 DEF Chain
  <2>5. OnceSent' BY <2>2 DEF Reported, OnceSent, Seen
  <2>6. SettledTruthfully' BY <2>2, <2>3 DEF Reported, SettledTruthfully
  <2> QED BY <2>4, <2>5, <2>6 DEF Reported
<1>4. CASE Evict(t)
  <2>1. Chain' BY <1>4 DEF Evict, Reported, Chain
  <2>2. OnceSent' BY <1>4 DEF Evict, Reported, OnceSent, Seen
  <2>3. SettledTruthfully' BY <1>4 DEF Evict, Reported, SettledTruthfully
  <2> QED BY <2>1, <2>2, <2>3 DEF Reported
<1> QED BY <1>2, <1>3, <1>4

LEMMA WorldKeepsReported == ASSUME IInv, Reported, WorldStep PROVE Reported'
<1>1. CASE UNCHANGED <<stored, network>>
  BY <1>1 DEF Reported, Chain, OnceSent, Seen, SettledTruthfully, network
<1> QED BY <1>1, StoreKeepsReported, NetworkKeepsReported DEF WorldStep

\* The helpers that change a record.
LEMMA MarkSeenChanges ==
  ASSUME DiskTypes, NEW t \in Tx, IsPending(t), t \in sent, MarkSeen(t)
  PROVE  StoreChange(t) /\ stored'[t] # None /\ stored'[t].submission = "network_seen"
<1>1. stored[t] \in Record /\ stored[t].status = "pending" BY DEF DiskTypes, IsPending
<1>2. /\ stored'[t] = [stored[t] EXCEPT !.submission = "network_seen"]
      /\ \A u \in Tx \ {t} : stored'[u] = stored[u]
  BY DEF MarkSeen, DiskTypes
<1>3. stored'[t] # None BY MarkSeenType, <1>1, NoneAssumption DEF Kept, Recorded, IsPending
<1>4. stored'[t].status = "pending" /\ stored'[t].submission = "network_seen"
  BY <1>1, <1>2 DEF Record
<1> QED BY <1>2, <1>3, <1>4 DEF StoreChange, Becomes

LEMMA TryUpdateChanges ==
  ASSUME DiskTypes, NEW t \in Tx, Seen(t), UNCHANGED network,
         \/ outcome[t] = "ok" /\ TryUpdate(t, "confirmed")
         \/ outcome[t] = "reverted" /\ TryUpdate(t, "failed")
  PROVE  WorldStep
<1>1. ASSUME NEW status \in {"confirmed", "failed"}, MayBecome(t, status), Update(t, status)
      PROVE  Becomes(t, status, "network_seen")
  <2>1. stored[t] \in Record BY DEF DiskTypes, Seen
  <2>2. /\ stored'[t] = [stored[t] EXCEPT !.status = status]
        /\ \A u \in Tx \ {t} : stored'[u] = stored[u]
    BY <1>1 DEF Update, DiskTypes
  <2>3. stored'[t] # None BY <1>1, UpdateType DEF Kept, Recorded, Seen
  <2>4. stored'[t].status = status /\ stored'[t].submission = "network_seen"
    BY <2>1, <2>2 DEF Record, Seen
  <2> QED BY <2>2, <2>3, <2>4 DEF Becomes
<1>2. CASE UNCHANGED stored BY <1>2 DEF WorldStep
<1>3. CASE outcome[t] = "ok" /\ MayBecome(t, "confirmed") /\ Update(t, "confirmed")
  BY <1>1, <1>3 DEF StoreChange, WorldStep
<1>4. CASE outcome[t] = "reverted" /\ MayBecome(t, "failed") /\ Update(t, "failed")
  BY <1>1, <1>4 DEF StoreChange, WorldStep
<1> QED BY <1>2, <1>3, <1>4 DEF TryUpdate

LEMMA ReplacedChanges ==
  ASSUME DiskTypes, NEW t \in Tx, NEW u \in Tx, u \in sent, u # t, u.nonce = t.nonce,
         MayBecome(t, "replaced"), \E o \in Op : MarkReplaced(o) /\ t = job[o].original,
         stored' = [stored EXCEPT ![t].status = "replaced", ![t].replacement = u]
  PROVE  StoreChange(t)
<1>1. stored[t] \in Record BY DEF DiskTypes, MayBecome
<1> DEFINE r == [stored[t] EXCEPT !.status = "replaced", !.replacement = u]
<1>2. stored'[t] = r /\ \A v \in Tx \ {t} : stored'[v] = stored[v] BY DEF DiskTypes
<1>3. stored'[t] # None BY ReplacedType DEF Kept, Recorded, MayBecome
<1>4. stored'[t].status = "replaced" /\ stored'[t].submission = stored[t].submission
  <2>1. r.status = "replaced" /\ r.submission = stored[t].submission BY <1>1 DEF Record
  <2> QED BY <1>2, <2>1
<1> QED BY <1>2, <1>3, <1>4 DEF StoreChange, Becomes
-----------------------------------------------------------------------------
(* The steps, seen by the world; and what the calls hold.                  *)

LEMMA HeldGoto ==
  ASSUME TypeOK, NEW o \in Op, HeldCall(o), pc[o] \in Prepared, NEW label \in Prepared,
         Goto(o, label), label = "mark" => tx[o] \in sent',
         label \in {"clear", "markReplaced", "await"}
           => stored'[tx[o]] # None /\ stored'[tx[o]].submission = "network_seen"
  PROVE  HeldCall(o)'
<1>1. pc'[o] = label /\ job' = job /\ tx' = tx
  BY DEF Goto, local, TypeOK, CallTypes
<1> QED BY <1>1 DEF HeldCall, Seen, IsExecute

LEMMA HeldLeave ==
  ASSUME TypeOK, NEW o \in Op, Leave(o)
  PROVE  HeldCall(o)'
<1>1. pc'[o] = "done" BY DEF Leave, TypeOK, CallTypes
<1> QED BY <1>1 DEF HeldCall, Prepared, InSection

\* A replacement pays more than its original, so it is another transaction.
LEMMA PrepareReplacementHeld ==
  ASSUME IInv, NEW o \in Op, PrepareReplacement(o)
  PROVE  HeldCall(o)'
<1> DEFINE t == job[o].original
<1>1. TypeOK /\ t \in Tx BY RunningCall DEF IInv, PrepareReplacement, InSection
<1>2. t.gas \in Nat /\ t.gas >= 1 BY <1>1, BoundAssumption DEF Tx, GasPrice
<1>3. Bumped(t.gas) \in Nat /\ 10 * Bumped(t.gas) >= 12 * t.gas BY <1>2, BumpIsAFifth
<1>4. PICK networkGas \in GasPrice :
        LET gas == IF networkGas > Bumped(t.gas) THEN networkGas ELSE Bumped(t.gas) IN
          Prepare(o, [payload |-> IF job[o].kind = "cancel" THEN Cancel ELSE t.payload,
                      nonce |-> t.nonce, gas |-> gas])
  BY DEF PrepareReplacement
<1> DEFINE gas == IF networkGas > Bumped(t.gas) THEN networkGas ELSE Bumped(t.gas)
<1>5. gas # t.gas BY <1>2, <1>3, <1>4, BoundAssumption DEF GasPrice
<1>6. tx'[o].gas = gas /\ tx'[o].nonce = t.nonce /\ pc'[o] = "sign" /\ job' = job
  BY <1>1, <1>4 DEF Prepare, TypeOK, CallTypes
<1>7. tx'[o] # t BY <1>5, <1>6
<1> QED BY <1>6, <1>7 DEF HeldCall

LEMMA StorePendingWorld ==
  ASSUME IInv, NEW o \in Op, HeldCall(o), StorePending(o)
  PROVE  WorldStep /\ HeldCall(o)'
<1>0. TypeOK /\ pc[o] \in Prepared /\ tx[o] \in Tx /\ OrderFor(o) \in Order \cup {None}
  BY RunningCall, OrderForType DEF IInv, StorePending, Prepared, InSection
<1>1. HeldCall(o)'
  <2>1. PICK label \in {"look", "discard"} : Goto(o, label) BY DEF StorePending
  <2> QED BY <1>0, <2>1, HeldGoto DEF Prepared, InSection
<1>2. network' = network BY DEF StorePending
<1>3. CASE UNCHANGED stored BY <1>1, <1>2, <1>3 DEF WorldStep
<1>4. CASE stored[tx[o]] = None /\ stored' = [stored EXCEPT ![tx[o]] = NewRecord(OrderFor(o))]
  <2>1. stored'[tx[o]] # None BY <1>0, <1>4, NewRecordType DEF TypeOK, Recorded
  <2>2. Becomes(tx[o], "pending", "submitting")
    BY <1>0, <1>4, <2>1 DEF Becomes, NewRecord, TypeOK, DiskTypes
  <2> QED BY <1>0, <1>1, <1>2, <1>4, <2>2 DEF WorldStep, StoreChange
<1> QED BY <1>3, <1>4 DEF StorePending

LEMMA SubmitWorld ==
  ASSUME IInv, NEW o \in Op, HeldCall(o), Submit(o)
  PROVE  WorldStep /\ HeldCall(o)'
<1>1. tx[o] \in Tx /\ Recorded(tx[o]) BY LateCall DEF Submit, Late
<1>2. WorldStep BY <1>1 DEF Submit, WorldStep, disk
<1>3. pc'[o] = "look" /\ job' = job /\ tx' = tx BY DEF Submit
<1> QED BY <1>2, <1>3 DEF HeldCall, IsExecute, Submit, Prepared, InSection

LEMMA MarkWorld ==
  ASSUME IInv, NEW o \in Op, HeldCall(o), Mark(o)
  PROVE  WorldStep /\ HeldCall(o)'
<1>0. TypeOK /\ tx[o] \in Tx /\ tx[o] \in sent /\ pc[o] \in Prepared
  BY LateCall DEF Mark, Late, HeldCall
<1>1. network' = network BY DEF Mark
<1>2. CASE IsPending(tx[o]) /\ MarkSeen(tx[o]) /\ Goto(o, "clear")
  <2>1. StoreChange(tx[o]) /\ stored'[tx[o]] # None /\ stored'[tx[o]].submission = "network_seen"
    BY <1>0, <1>2, MarkSeenChanges DEF TypeOK
  <2>2. HeldCall(o)' BY <1>0, <1>2, <2>1, HeldGoto DEF Prepared, InSection
  <2> QED BY <1>0, <1>1, <2>1, <2>2 DEF WorldStep
<1>3. CASE UNCHANGED stored /\ Leave(o) BY <1>0, <1>1, <1>3, HeldLeave DEF WorldStep
<1> QED BY <1>2, <1>3 DEF Mark

LEMMA MarkReplacedWorld ==
  ASSUME IInv, Reported, NEW o \in Op, HeldCall(o), MarkReplaced(o)
  PROVE  WorldStep /\ HeldCall(o)'
<1> DEFINE t == job[o].original
<1>0. /\ TypeOK /\ CallOK(o) /\ pc[o] \in Prepared /\ tx[o] \in Tx
      /\ pc[o] = "markReplaced" /\ ~IsExecute(o)
  BY LateCall DEF MarkReplaced, Late, CallOK
<1>1. t \in Tx BY <1>0, RunningCall DEF InSection
<1>2. Seen(tx[o]) /\ tx[o] \in sent /\ tx[o].nonce = t.nonce /\ tx[o] # t
  BY <1>0 DEF HeldCall, Reported, OnceSent
<1>3. network' = network /\ Goto(o, "await") BY DEF MarkReplaced
<1>4. WorldStep
  <2>1. CASE UNCHANGED stored BY <1>3, <2>1 DEF WorldStep
  <2>2. CASE MayBecome(t, "replaced")
             /\ stored' = [stored EXCEPT ![t].status = "replaced", ![t].replacement = tx[o]]
    BY <1>0, <1>1, <1>2, <1>3, <2>2, ReplacedChanges DEF WorldStep, TypeOK
  <2> QED BY <2>1, <2>2 DEF MarkReplaced
<1>5. Lasting BY <1>4, WorldLasts
<1>6. HeldCall(o)' BY <1>0, <1>2, <1>3, <1>5, HeldGoto DEF Lasting, Prepared, InSection
<1> QED BY <1>4, <1>6

LEMMA AwaitWorld ==
  ASSUME IInv, NEW o \in Op, HeldCall(o), AwaitConfirmed(o) \/ AwaitReverted(o)
  PROVE  WorldStep /\ HeldCall(o)'
<1>1. TypeOK /\ tx[o] \in Tx /\ Seen(tx[o])
  BY LateCall DEF AwaitConfirmed, AwaitReverted, Late, HeldCall
<1>2. network' = network /\ Leave(o) BY DEF AwaitConfirmed, AwaitReverted, Return
<1>3. WorldStep BY <1>1, <1>2, TryUpdateChanges DEF AwaitConfirmed, AwaitReverted, TypeOK
<1> QED BY <1>1, <1>2, <1>3, HeldLeave

LEMMA SendWorld ==
  ASSUME IInv, Reported, NEW o \in Op, HeldCall(o), SendStep(o)
  PROVE  WorldStep /\ HeldCall(o)'
<1>0. TypeOK BY DEF IInv
<1>1. CASE Enter(o)
  <2>1. pc'[o] = "prepare" BY <1>0, <1>1 DEF Enter, Goto, TypeOK, CallTypes
  <2> QED BY <1>1, <2>1 DEF Enter, WorldStep, disk, HeldCall, Prepared
<1>2. CASE PrepareSend(o)
  <2>1. PICK t : Prepare(o, t) BY <1>2 DEF PrepareSend
  <2>2. pc'[o] = "sign" /\ job' = job BY <1>0, <2>1 DEF Prepare, TypeOK, CallTypes
  <2>3. WorldStep BY <2>1 DEF Prepare, WorldStep, disk
  <2> QED BY <1>2, <2>2, <2>3 DEF PrepareSend, HeldCall, IsExecute
<1>3. CASE PrepareReplacement(o)
  <2>1. PICK t : Prepare(o, t) BY <1>3 DEF PrepareReplacement
  <2>2. WorldStep BY <2>1 DEF Prepare, WorldStep, disk
  <2> QED BY <1>3, <2>2, PrepareReplacementHeld
<1>4. CASE Throw(o) \/ Discard(o) \/ GiveUp(o) \/ AwaitTimeout(o)
  <2>1. Leave(o) /\ UNCHANGED <<stored, network>>
    BY <1>4 DEF Throw, Discard, GiveUp, AwaitTimeout, Return, disk
  <2> QED BY <1>0, <2>1, HeldLeave DEF WorldStep
<1>5. CASE Sign(o)
  <2>1. UNCHANGED <<stored, network>> BY <1>5 DEF Sign
  <2>2. CASE Goto(o, "storePending")
    BY <1>0, <1>5, <2>1, <2>2, HeldGoto DEF Sign, WorldStep, Prepared, InSection
  <2>3. CASE Leave(o) BY <1>0, <2>1, <2>3, HeldLeave DEF WorldStep
  <2> QED BY <1>5, <2>2, <2>3 DEF Sign
<1>6. CASE LookFound(o)
  <2>1. TypeOK /\ tx[o] \in Tx /\ pc[o] \in Prepared BY <1>6, LateCall DEF LookFound, Late
  <2>2. tx[o] \in sent BY <1>6, <2>1 DEF LookFound, OnNetwork, Reported, OnceSent
  <2>3. UNCHANGED <<stored, network>> BY <1>6 DEF LookFound, disk
  <2>4. sent' = sent BY <2>3 DEF network
  <2> QED BY <1>6, <2>1, <2>2, <2>3, <2>4, HeldGoto DEF LookFound, WorldStep, Prepared, InSection
<1>7. CASE Clear(o)
  <2>1. TypeOK /\ Seen(tx[o]) /\ pc[o] \in Prepared
    BY <1>7, LateCall DEF Clear, Late, HeldCall
  <2>2. UNCHANGED <<stored, network>> BY <1>7 DEF Clear
  <2>3. PICK label \in {"await", "markReplaced"} : Goto(o, label) BY <1>7 DEF Clear
  <2>4. HeldCall(o)' BY <2>1, <2>2, <2>3, HeldGoto DEF Seen, Prepared, InSection
  <2> QED BY <2>2, <2>4 DEF WorldStep
<1>8. CASE StorePending(o) \/ Submit(o) \/ Mark(o) \/ MarkReplaced(o) \/ AwaitConfirmed(o)
           \/ AwaitReverted(o)
  BY <1>8, StorePendingWorld, SubmitWorld, MarkWorld, MarkReplacedWorld, AwaitWorld
<1> QED BY <1>1, <1>2, <1>3, <1>4, <1>5, <1>6, <1>7, <1>8 DEF SendStep

\* The checks: a check that found or marked its transaction knows as much.
LEMMA CheckGotoIs ==
  ASSUME CheckTypes, NEW t \in Tx, NEW label, CheckGoto(t, label)
  PROVE  check'[t] = label /\ \A u \in Tx \ {t} : check'[u] = check[u]
BY DEF CheckTypes, CheckGoto

LEMMA CheckWorld ==
  ASSUME IInv, Reported, NEW t \in Tx, HeldCheck(t), CheckStep(t)
  PROVE  /\ WorldStep /\ HeldCheck(t)'
         /\ UNCHANGED <<pc, job, tx>> /\ \A u \in Tx \ {t} : check'[u] = check[u]
<1>0. TypeOK /\ CheckTypes /\ DiskTypes BY DEF IInv, TypeOK
<1>1. \E label : CheckGoto(t, label)
  BY DEF CheckStep, StartCheck, CheckFound, CheckLoad, CheckSubmit, CheckMissing, CheckMark,
         CheckClear, CheckReceipt
<1>2. UNCHANGED <<pc, job, tx>> /\ \A u \in Tx \ {t} : check'[u] = check[u]
  BY <1>0, <1>1, CheckGotoIs DEF CheckGoto, local
<1>3. WorldStep /\ HeldCheck(t)'
  <2>1. CASE StartCheck(t)
    <3>1. UNCHANGED <<stored, network>> BY <2>1 DEF StartCheck, disk
    <3>2. check'[t] = IF stored[t].submission = "submitting" THEN "look" ELSE "receipt"
      BY <1>0, <2>1, CheckGotoIs DEF StartCheck
    <3>3. stored[t] \in Record /\ stored[t] # None
      BY <1>0, <2>1 DEF StartCheck, IsPending, DiskTypes
    <3>4. stored[t].submission # "submitting" => Seen(t) BY <3>3 DEF Record, Seen
    <3> QED BY <3>1, <3>2, <3>4 DEF WorldStep, HeldCheck, Seen
  <2>2. CASE CheckFound(t)
    <3>1. UNCHANGED <<stored, network>> BY <2>2 DEF CheckFound, disk
    <3>2. check'[t] = "mark" BY <1>0, <2>2, CheckGotoIs DEF CheckFound
    <3>3. t \in sent BY <2>2 DEF CheckFound, OnNetwork, Reported, OnceSent
    <3> QED BY <3>1, <3>2, <3>3 DEF WorldStep, HeldCheck, network
  <2>3. CASE CheckLoad(t) \/ CheckMissing(t)
    <3>1. UNCHANGED <<stored, network>> BY <2>3 DEF CheckLoad, CheckMissing, disk
    <3>2. check'[t] \in {"submit", "idle"}
      BY <1>0, <2>3, CheckGotoIs DEF CheckLoad, CheckMissing
    <3> QED BY <3>1, <3>2 DEF WorldStep, HeldCheck
  <2>4. CASE CheckSubmit(t)
    <3>1. stored' = stored /\ Transmit(t) BY <2>4 DEF CheckSubmit, disk
    <3>2. check'[t] = "relook" BY <1>0, <2>4, CheckGotoIs DEF CheckSubmit
    <3>3. Recorded(t) BY <2>4 DEF CheckSubmit, IInv, Checking
    <3> QED BY <3>1, <3>2, <3>3 DEF WorldStep, HeldCheck
  <2>5. CASE CheckMark(t)
    <3>1. network' = network BY <2>5 DEF CheckMark
    <3>2. CASE IsPending(t) /\ MarkSeen(t) /\ CheckGoto(t, "clear")
      <4>1. StoreChange(t) /\ stored'[t] # None /\ stored'[t].submission = "network_seen"
        BY <1>0, <2>5, <3>2, MarkSeenChanges DEF CheckMark, HeldCheck
      <4>2. check'[t] = "clear" BY <1>0, <3>2, CheckGotoIs
      <4> QED BY <3>1, <4>1, <4>2 DEF WorldStep, HeldCheck, Seen
    <3>3. CASE UNCHANGED stored /\ CheckGoto(t, "idle")
      <4>1. check'[t] = "idle" BY <1>0, <3>3, CheckGotoIs
      <4> QED BY <3>1, <3>3, <4>1 DEF WorldStep, HeldCheck
    <3> QED BY <2>5, <3>2, <3>3 DEF CheckMark
  <2>6. CASE CheckClear(t)
    <3>1. UNCHANGED <<stored, network>> BY <2>6 DEF CheckClear
    <3>2. check'[t] = "receipt" BY <1>0, <2>6, CheckGotoIs DEF CheckClear
    <3>3. Seen(t) BY <2>6 DEF CheckClear, HeldCheck
    <3> QED BY <3>1, <3>2, <3>3 DEF WorldStep, HeldCheck, Seen
  <2>7. CASE CheckReceipt(t)
    <3>1. check'[t] = "idle" BY <1>0, <2>7, CheckGotoIs DEF CheckReceipt
    <3>2. network' = network /\ Seen(t) BY <2>7 DEF CheckReceipt, HeldCheck
    <3>3. CASE UNCHANGED stored BY <3>1, <3>2, <3>3 DEF WorldStep, HeldCheck
    <3>4. CASE \/ outcome[t] = "ok" /\ TryUpdate(t, "confirmed")
               \/ outcome[t] = "reverted" /\ TryUpdate(t, "failed")
      <4>1. WorldStep BY <1>0, <3>2, <3>4, TryUpdateChanges
      <4> QED BY <3>1, <4>1 DEF HeldCheck
    <3> QED BY <2>7, <3>3, <3>4 DEF CheckReceipt
  <2> QED BY <2>1, <2>2, <2>3, <2>4, <2>5, <2>6, <2>7 DEF CheckStep
<1> QED BY <1>2, <1>3

\* Who does nothing still knows what it knew.
LEMMA CallHeldOn ==
  ASSUME IInv, Lasting, NEW o \in Op, HeldCall(o),
         pc'[o] = pc[o], job'[o] = job[o], tx'[o] = tx[o]
  PROVE  HeldCall(o)'
<1>1. pc[o] \in Prepared => tx[o] \in Tx BY DEF IInv, CallOK
<1>2. pc[o] \in {"clear", "markReplaced", "await"} => Seen(tx[o])'
  BY <1>1 DEF HeldCall, Lasting, Seen, Prepared, InSection
<1>3. pc[o] = "mark" => tx[o] \in sent' BY DEF HeldCall, Lasting
<1> QED BY <1>2, <1>3 DEF HeldCall, IsExecute

LEMMA CheckHeldOn ==
  ASSUME Lasting, NEW t \in Tx, HeldCheck(t), check'[t] = check[t]
  PROVE  HeldCheck(t)'
BY DEF HeldCheck, Lasting, Seen

\* A call that starts, is turned away or is over holds nothing.
LEMMA HoldsNothing ==
  ASSUME NEW o \in Op, pc'[o] \in {"idle", "shared", "refused", "done", "snapshot", "queued"}
  PROVE  HeldCall(o)'
BY DEF HeldCall, Prepared, InSection

\* A call begins.
BeginStep(o) == \/ \E q \in Quote : BeginExecute(o, q)
                \/ \E t \in Tx, mode \in {"speed-up", "cancel"} : BeginReplace(o, t, mode)
                \/ ReadOriginal(o) \/ RefuseOriginal(o)

LEMMA BeginMoves ==
  ASSUME TypeOK, NEW o \in Op, BeginStep(o)
  PROVE  /\ pc'[o] \in {"shared", "refused", "snapshot", "queued"}
         /\ \A p \in Op \ {o} : pc'[p] = pc[p] /\ job'[p] = job[p] /\ tx'[p] = tx[p]
         /\ UNCHANGED <<check, disk, network>>
<1>1. UNCHANGED <<check, disk, network>>
  BY DEF BeginStep, BeginExecute, BeginReplace, ReadOriginal, RefuseOriginal
<1>2. \/ TurnAway(o, "shared")
      \/ \E task : RunExclusive(o, task)
      \/ \E task : /\ pc' = [pc EXCEPT ![o] = "snapshot"]
                   /\ job' = [job EXCEPT ![o] = task] /\ tx' = tx
  BY DEF BeginStep, BeginExecute, BeginReplace, ReadOriginal, RefuseOriginal
<1> QED BY <1>1, <1>2 DEF TurnAway, RunExclusive, TypeOK, CallTypes

LEMMA HeldKept ==
  ASSUME IInv, Reported, Held, [Next]_vars
  PROVE  WorldStep /\ Held'
<1>0. TypeOK BY DEF IInv
<1>1. ASSUME NEW o \in Op, BeginStep(o) PROVE WorldStep /\ Held'
  <2>1. WorldStep /\ check' = check BY <1>0, <1>1, BeginMoves DEF WorldStep, disk
  <2>2. \A p \in Op : HeldCall(p)'
    BY <1>0, <1>1, <2>1, BeginMoves, HoldsNothing, CallHeldOn, WorldLasts DEF Held
  <2>3. \A t \in Tx : HeldCheck(t)' BY <2>1, CheckHeldOn, WorldLasts DEF Held
  <2> QED BY <2>1, <2>2, <2>3 DEF Held
<1>2. ASSUME NEW o \in Op, SendStep(o) PROVE WorldStep /\ Held'
  <2>1. WorldStep /\ HeldCall(o)' BY <1>2, SendWorld DEF Held
  <2>2. PICK label \in InSection \cup {"done"} : Advances(o, label) BY <1>2, SendAdvances
  <2>3. \A p \in Op \ {o} : pc'[p] = pc[p] /\ job'[p] = job[p] /\ tx'[p] = tx[p]
    BY <1>0, <2>2 DEF Advances, TypeOK, CallTypes
  <2>4. check' = check
    BY <1>2 DEF SendStep, Enter, PrepareSend, PrepareReplacement, Prepare, Throw, Sign,
                StorePending, Discard, LookFound, Submit, GiveUp, Mark, Clear, MarkReplaced,
                AwaitConfirmed, AwaitReverted, AwaitTimeout
  <2>5. \A p \in Op : HeldCall(p)'
    <3> TAKE p \in Op
    <3>1. CASE p = o BY <2>1, <3>1
    <3>2. CASE p # o BY <2>1, <2>3, <3>2, CallHeldOn, WorldLasts DEF Held
    <3> QED BY <3>1, <3>2
  <2>6. \A t \in Tx : HeldCheck(t)' BY <2>1, <2>4, CheckHeldOn, WorldLasts DEF Held
  <2> QED BY <2>1, <2>5, <2>6 DEF Held
<1>3. ASSUME NEW t \in Tx, CheckStep(t) PROVE WorldStep /\ Held'
  <2>1. /\ WorldStep /\ HeldCheck(t)'
        /\ UNCHANGED <<pc, job, tx>> /\ \A u \in Tx \ {t} : check'[u] = check[u]
    BY <1>3, CheckWorld DEF Held
  <2>2. \A p \in Op : HeldCall(p)' BY <2>1, CallHeldOn, WorldLasts DEF Held
  <2>3. \A u \in Tx : HeldCheck(u)'
    <3> TAKE u \in Tx
    <3>1. CASE u = t BY <2>1, <3>1
    <3>2. CASE u # t BY <2>1, <3>2, CheckHeldOn, WorldLasts DEF Held
    <3> QED BY <3>1, <3>2
  <2> QED BY <2>1, <2>2, <2>3 DEF Held
<1>4. ASSUME WorldStep, UNCHANGED <<pc, job, tx, check>> PROVE WorldStep /\ Held'
  BY <1>4, CallHeldOn, CheckHeldOn, WorldLasts DEF Held
<1>5. ASSUME NEW t \in Tx, Mine(t) \/ Evict(t) PROVE WorldStep /\ Held'
  <2>1. UNCHANGED <<pc, job, tx, check>> /\ stored' = stored
    BY <1>5 DEF Mine, Evict, local, disk
  <2>2. WorldStep BY <1>5, <2>1 DEF WorldStep
  <2> QED BY <1>4, <2>1, <2>2
<1>6. CASE (\E q \in Quote : PrepareQuote(q)) \/ UNCHANGED vars
  <2>1. UNCHANGED <<pc, job, tx, check, stored, network>>
    BY <1>6 DEF PrepareQuote, vars, local, disk
  <2> QED BY <1>4, <2>1 DEF WorldStep
<1>7. CASE Crash
  <2>1. WorldStep BY <1>7 DEF Crash, WorldStep, disk
  <2>2. \A p \in Op : HeldCall(p)' BY <1>0, <1>7, CrashEndsCalls, HoldsNothing
  <2>3. \A t \in Tx : HeldCheck(t)' BY <1>7 DEF Crash, HeldCheck
  <2> QED BY <2>1, <2>2, <2>3 DEF Held
<1> QED BY <1>1, <1>2, <1>3, <1>5, <1>6, <1>7 DEF Next, BeginStep

LEMMA InitReported == Init => Reported /\ Held
<1> SUFFICES ASSUME Init PROVE Reported /\ Held OBVIOUS
<1>1. Reported BY DEF Init, Reported, Chain, OnceSent, Seen, SettledTruthfully
<1>2. Held BY DEF Init, Held, HeldCall, HeldCheck, Prepared, InSection
<1> QED BY <1>1, <1>2

LEMMA ReportedKept ==
  IInv /\ Reported /\ Held /\ [Next]_vars => IInv' /\ Reported' /\ Held' /\ WorldStep
BY Inductive, HeldKept, WorldKeepsReported

\* A record says confirmed or failed only of a transaction that was mined so,
\* whichever call or check wrote it and in whatever order their answers came.
THEOREM RecordsAreTruthful == Spec => []SettledTruthfully
<1>1. Init => IInv /\ Reported /\ Held BY InitEstablishes, InitReported
<1>2. IInv /\ Reported /\ Held /\ [Next]_vars => (IInv /\ Reported /\ Held)' BY ReportedKept
<1>3. Reported => SettledTruthfully BY DEF Reported
<1> QED BY <1>1, <1>2, <1>3, PTL DEF Spec
-----------------------------------------------------------------------------
(* Every step is one SendLifecycle allows.                                 *)

lifeOf == [t \in Tx |-> CASE stored[t] = None -> "none"
                          [] IsPending(t) -> stored[t].submission
                          [] OTHER -> stored[t].status]

LEMMA LifeIs ==
  ASSUME NEW t \in Tx
  PROVE  /\ stored[t] = None => lifeOf[t] = "none"
         /\ IsPending(t) => lifeOf[t] = stored[t].submission
         /\ stored[t] # None /\ ~IsPending(t) => lifeOf[t] = stored[t].status
BY DEF lifeOf, IsPending

LEMMA LifeBecomes ==
  ASSUME NEW t \in Tx, NEW status, NEW submission, Becomes(t, status, submission)
  PROVE  lifeOf' = [lifeOf EXCEPT ![t] = IF status = "pending" THEN submission ELSE status]
<1> DEFINE new == IF status = "pending" THEN submission ELSE status
<1>1. lifeOf' = [u \in Tx |-> lifeOf'[u]] BY DEF lifeOf
<1>2. lifeOf = [u \in Tx |-> lifeOf[u]] BY DEF lifeOf
<1>3. \A u \in Tx \ {t} : lifeOf'[u] = lifeOf[u] BY DEF Becomes, lifeOf, IsPending
<1>4. lifeOf'[t] = new BY DEF Becomes, lifeOf, IsPending
<1> HIDE DEF new
<1>5. lifeOf' = [lifeOf EXCEPT ![t] = new] BY <1>1, <1>2, <1>3, <1>4
<1> QED BY <1>5 DEF new

LEMMA LifeStays ==
  ASSUME NEW t \in Tx, lifeOf' = [lifeOf EXCEPT ![t] = lifeOf[t]]
  PROVE  lifeOf' = lifeOf
<1>1. lifeOf = [u \in Tx |-> lifeOf[u]] BY DEF lifeOf
<1> QED BY <1>1

\* The actions of the lifecycle, said of this life.
LEMMA IsRecord ==
  ASSUME NEW t \in Tx, lifeOf[t] = "none", lifeOf' = [lifeOf EXCEPT ![t] = "submitting"], sent' = sent
  PROVE  Lifecycle!Record(t)
BY DEF Lifecycle!Record, lifeOf

LEMMA IsBroadcast ==
  ASSUME NEW t \in Tx, lifeOf[t] # "none", lifeOf' = lifeOf, sent' = sent \cup {t}
  PROVE  Lifecycle!Broadcast(t)
BY DEF Lifecycle!Broadcast, lifeOf

LEMMA IsSee ==
  ASSUME NEW t \in Tx, lifeOf[t] = "submitting", t \in sent,
         lifeOf' = [lifeOf EXCEPT ![t] = "network_seen"], sent' = sent
  PROVE  Lifecycle!See(t)
BY DEF Lifecycle!See, lifeOf

LEMMA IsSettle ==
  ASSUME NEW t \in Tx, lifeOf[t] = "network_seen",
         \A u \in Tx : u.nonce = t.nonce => lifeOf[u] \notin {"confirmed", "failed"},
         NEW s \in {"confirmed", "failed"}, lifeOf' = [lifeOf EXCEPT ![t] = s], sent' = sent
  PROVE  Lifecycle!Settle(t)
<1>1. \A u \in Tx : [v \in Tx |-> v.nonce][u] = [v \in Tx |-> v.nonce][t]
                      => lifeOf[u] \notin {"confirmed", "failed"}
  OBVIOUS
<1> QED BY <1>1 DEF Lifecycle!Settle, Lifecycle!Settled, lifeOf

LEMMA IsReplace ==
  ASSUME NEW t \in Tx, lifeOf[t] \in {"submitting", "network_seen"}, sent \subseteq Tx,
         \E u \in sent \ {t} : u.nonce = t.nonce,
         lifeOf' = [lifeOf EXCEPT ![t] = "replaced"], sent' = sent
  PROVE  Lifecycle!Replace(t)
<1>1. \E u \in sent \ {t} : [v \in Tx |-> v.nonce][u] = [v \in Tx |-> v.nonce][t]
  OBVIOUS
<1> QED BY <1>1 DEF Lifecycle!Replace, Lifecycle!Pending, lifeOf

LEMMA IsSameLife ==
  ASSUME lifeOf' = lifeOf, sent' = sent PROVE UNCHANGED Lifecycle!vars
BY DEF Lifecycle!vars, lifeOf

\* What the wallet says is settled was mined.
LEMMA SettledWasMined ==
  ASSUME IInv, Reported, NEW u \in Tx, lifeOf[u] \in {"confirmed", "failed"}
  PROVE  outcome[u] # "none"
<1>1. stored[u] \in Record \/ stored[u] = None BY DEF IInv, TypeOK, DiskTypes
<1>2. stored[u] # None /\ ~IsPending(u) BY <1>1, LifeIs DEF Record, IsPending
<1>3. stored[u].status \in {"confirmed", "failed"} BY <1>2, LifeIs
<1> QED BY <1>2, <1>3 DEF Reported, SettledTruthfully

LEMMA SettlementRefines ==
  ASSUME IInv, Reported, NEW t \in Tx, NEW s \in {"confirmed", "failed"}, UNCHANGED network,
         Seen(t), MayBecome(t, s), outcome[t] # "none", Becomes(t, s, "network_seen")
  PROVE  [Lifecycle!Next]_Lifecycle!vars
<1>1. lifeOf' = [lifeOf EXCEPT ![t] = s] BY LifeBecomes
<1>2. sent' = sent BY DEF network
<1>3. CASE stored[t].status = s
  <2>1. lifeOf[t] = s BY <1>3, LifeIs DEF Seen, IsPending
  <2> QED BY <1>1, <1>2, <2>1, LifeStays, IsSameLife
<1>4. CASE stored[t].status = "pending"
  <2>1. lifeOf[t] = "network_seen" BY <1>4, LifeIs DEF Seen, IsPending
  <2>2. \A u \in Tx : u.nonce = t.nonce => lifeOf[u] \notin {"confirmed", "failed"}
    <3> SUFFICES ASSUME NEW u \in Tx, u.nonce = t.nonce, lifeOf[u] \in {"confirmed", "failed"}
                 PROVE  FALSE
      OBVIOUS
    <3>1. outcome[u] # "none" BY SettledWasMined
    <3>2. u = t BY <3>1 DEF Reported, Chain
    <3> QED BY <2>1, <3>2
  <2>3. Lifecycle!Settle(t) BY <1>1, <1>2, <2>1, <2>2, IsSettle
  <2> QED BY <2>3 DEF Lifecycle!Next
<1> QED BY <1>3, <1>4 DEF MayBecome

LEMMA StoreRefines ==
  ASSUME IInv, Reported, NEW t \in Tx, StoreChange(t), UNCHANGED network
  PROVE  [Lifecycle!Next]_Lifecycle!vars
<1>0. stored[t] \in Record \cup {None} /\ sent' = sent /\ sent \subseteq Tx
  BY DEF IInv, TypeOK, DiskTypes, NetworkTypes, network
<1>1. CASE stored[t] = None /\ Becomes(t, "pending", "submitting")
  <2>1. Lifecycle!Record(t) BY <1>0, <1>1, LifeIs, LifeBecomes, IsRecord
  <2> QED BY <2>1 DEF Lifecycle!Next
<1>2. CASE IsPending(t) /\ t \in sent /\ Becomes(t, "pending", "network_seen")
  <2>1. lifeOf' = [lifeOf EXCEPT ![t] = "network_seen"] BY <1>2, LifeBecomes
  <2>2. lifeOf[t] = stored[t].submission BY <1>2, LifeIs
  <2>3. stored[t].submission \in {"submitting", "network_seen"}
    BY <1>0, <1>2 DEF Record, IsPending
  <2>4. CASE lifeOf[t] = "network_seen" BY <1>0, <2>1, <2>4, LifeStays, IsSameLife
  <2>5. CASE lifeOf[t] = "submitting"
    <3>1. Lifecycle!See(t) BY <1>0, <1>2, <2>1, <2>5, IsSee
    <3> QED BY <3>1 DEF Lifecycle!Next
  <2> QED BY <2>2, <2>3, <2>4, <2>5
<1>3. CASE \/ Seen(t) /\ MayBecome(t, "confirmed") /\ outcome[t] = "ok"
              /\ Becomes(t, "confirmed", "network_seen")
           \/ Seen(t) /\ MayBecome(t, "failed") /\ outcome[t] = "reverted"
              /\ Becomes(t, "failed", "network_seen")
  BY <1>3, SettlementRefines
<1>4. CASE /\ MayBecome(t, "replaced") /\ \E u \in sent \ {t} : u.nonce = t.nonce
           /\ Becomes(t, "replaced", stored[t].submission)
  <2>1. lifeOf' = [lifeOf EXCEPT ![t] = "replaced"] BY <1>4, LifeBecomes
  <2>2. CASE stored[t].status = "replaced"
    <3>1. lifeOf[t] = "replaced" BY <1>4, <2>2, LifeIs DEF MayBecome, IsPending
    <3> QED BY <1>0, <2>1, <3>1, LifeStays, IsSameLife
  <2>3. CASE stored[t].status = "pending"
    <3>1. lifeOf[t] \in {"submitting", "network_seen"}
      BY <1>0, <1>4, <2>3, LifeIs DEF MayBecome, IsPending, Record
    <3>2. Lifecycle!Replace(t) BY <1>0, <1>4, <2>1, <3>1, IsReplace
    <3> QED BY <3>2 DEF Lifecycle!Next
  <2> QED BY <1>4, <2>2, <2>3 DEF MayBecome
<1> QED BY <1>1, <1>2, <1>3, <1>4 DEF StoreChange

LEMMA WorldRefines ==
  ASSUME IInv, Reported, WorldStep
  PROVE  [Lifecycle!Next]_Lifecycle!vars
<1>1. stored' = stored => lifeOf' = lifeOf BY DEF lifeOf, IsPending
<1>2. CASE UNCHANGED <<stored, network>> BY <1>1, <1>2, IsSameLife DEF network
<1>3. ASSUME NEW t \in Tx, UNCHANGED network, StoreChange(t)
      PROVE  [Lifecycle!Next]_Lifecycle!vars
  BY <1>3, StoreRefines
<1>4. ASSUME NEW t \in Tx, stored' = stored, Recorded(t), Transmit(t)
      PROVE  [Lifecycle!Next]_Lifecycle!vars
  <2>1. stored[t] \in Record /\ lifeOf[t] # "none"
    BY <1>4, LifeIs DEF IInv, TypeOK, DiskTypes, Recorded, Record
  <2>2. CASE sent' = sent \cup {t}
    <3>1. Lifecycle!Broadcast(t) BY <1>1, <1>4, <2>1, <2>2, IsBroadcast
    <3> QED BY <3>1 DEF Lifecycle!Next
  <2>3. CASE sent' = sent BY <1>1, <1>4, <2>3, IsSameLife
  <2> QED BY <1>4, <2>2, <2>3 DEF Transmit, network
<1>5. ASSUME NEW t \in Tx, stored' = stored, Mine(t) \/ Evict(t)
      PROVE  [Lifecycle!Next]_Lifecycle!vars
  <2>1. sent' = sent BY <1>5 DEF Mine, Evict
  <2> QED BY <1>1, <1>5, <2>1, IsSameLife
<1> QED BY <1>2, <1>3, <1>4, <1>5 DEF WorldStep

\* The service keeps its promise to the user for any number of calls, quotes,
\* faults and restarts: nothing unrecorded is sent, a record changes only for a
\* reason the network gave, of one nonce at most one transaction is ever
\* settled, and what is final stays.
THEOREM SendsImplementLifecycle == Spec => ImplementsLifecycle
<1>1. Init => IInv /\ Reported /\ Held BY InitEstablishes, InitReported
<1>2. Init => Lifecycle!Init
  <2> SUFFICES ASSUME Init PROVE Lifecycle!Init OBVIOUS
  <2>1. \A t \in Tx : lifeOf[t] = "none" BY LifeIs DEF Init
  <2>2. lifeOf = [t \in Tx |-> lifeOf[t]] BY DEF lifeOf
  <2>3. lifeOf = [t \in Tx |-> "none"] BY <2>1, <2>2
  <2> QED BY <2>3 DEF Init, Lifecycle!Init, lifeOf
<1>3. IInv /\ Reported /\ Held /\ [Next]_vars
        => (IInv /\ Reported /\ Held)' /\ [Lifecycle!Next]_Lifecycle!vars
  BY ReportedKept, WorldRefines
<1> QED BY <1>1, <1>2, <1>3, PTL DEF Spec, ImplementsLifecycle, Lifecycle!Spec
-----------------------------------------------------------------------------
(* The calls use the account one at a time.                                *)

\* Two calls that are queued or running know who came first, and who runs
\* waits for nobody.
Queueing ==
  /\ \A o, p \in Outstanding : o # p => o \in ahead[p] \/ p \in ahead[o]
  /\ \A o \in Op : pc[o] \in InSection => \A p \in ahead[o] : p \notin Outstanding

\* Nobody joins, and nobody enters before its turn.
LEMMA QueueingMoves ==
  ASSUME Queueing, ahead' = ahead, Outstanding' \subseteq Outstanding,
         \A o \in Op : pc'[o] \in InSection
           => pc[o] \in InSection \/ \A p \in ahead[o] : p \notin Outstanding
  PROVE  Queueing'
BY DEF Queueing

LEMMA QueueingJoins ==
  ASSUME TypeOK, AheadJoined, Queueing, NEW o \in Op, pc[o] \in {"idle", "snapshot"}, NEW task,
         RunExclusive(o, task)
  PROVE  Queueing'
<1>1. CASE TurnAway(o, "refused")
  <2>1. pc'[o] = "refused" /\ (\A p \in Op \ {o} : pc'[p] = pc[p]) /\ ahead' = ahead
    BY <1>1 DEF TurnAway, TypeOK, CallTypes
  <2>2. \A p \in Op : pc'[p] \in {"queued"} \cup InSection => pc'[p] = pc[p]
    BY <2>1 DEF InSection
  <2>3. Outstanding' \subseteq Outstanding BY <2>2 DEF Outstanding
  <2> QED BY <2>1, <2>2, <2>3, QueueingMoves
<1>2. CASE Cardinality(Outstanding) < MaxQueueDepth
  <2>1. /\ pc'[o] = "queued" /\ ahead'[o] = Outstanding
        /\ \A p \in Op \ {o} : pc'[p] = pc[p] /\ ahead'[p] = ahead[p]
    BY <1>2 DEF RunExclusive, TypeOK, CallTypes
  <2>2. Outstanding' = Outstanding \cup {o} /\ o \notin Outstanding
    BY <2>1 DEF Outstanding, InSection
  <2>3. \A p \in Op : o \notin ahead[p] BY DEF AheadJoined, InSection
  <2>4. ASSUME NEW p \in Outstanding', NEW r \in Outstanding', p # r
        PROVE  p \in ahead'[r] \/ r \in ahead'[p]
    <3>1. CASE p = o \/ r = o BY <2>1, <2>2, <2>4, <3>1
    <3>2. CASE p # o /\ r # o
      <4>1. p \in Outstanding /\ r \in Outstanding BY <2>2, <2>4, <3>2
      <4>2. ahead'[p] = ahead[p] /\ ahead'[r] = ahead[r] BY <2>1, <3>2, <4>1 DEF Outstanding
      <4> QED BY <2>4, <4>1, <4>2 DEF Queueing
    <3> QED BY <3>1, <3>2
  <2>5. ASSUME NEW p \in Op, pc'[p] \in InSection, NEW r \in ahead'[p]
        PROVE  r \notin Outstanding'
    <3>1. p # o BY <2>1, <2>5 DEF InSection
    <3>2. pc[p] \in InSection /\ r \in ahead[p] BY <2>1, <2>5, <3>1
    <3> QED BY <2>2, <2>3, <3>2 DEF Queueing
  <2> QED BY <2>4, <2>5 DEF Queueing
<1> QED BY <1>1, <1>2 DEF RunExclusive

LEMMA QueueingKept == IInv /\ AheadJoined /\ Queueing /\ [Next]_vars => Queueing'
<1> SUFFICES ASSUME IInv, AheadJoined, Queueing, [Next]_vars PROVE Queueing' OBVIOUS
<1>0. TypeOK BY DEF IInv
<1>1. ASSUME NEW o \in Op, BeginStep(o) PROVE Queueing'
  <2>1. CASE \E task : RunExclusive(o, task) /\ pc[o] \in {"idle", "snapshot"}
    BY <1>0, <2>1, QueueingJoins
  <2>2. CASE pc'[o] \in {"shared", "snapshot"} /\ ahead' = ahead
    <3>1. \A p \in Op \ {o} : pc'[p] = pc[p] BY <1>0, <1>1, BeginMoves
    <3>2. \A p \in Op : pc'[p] \in {"queued"} \cup InSection => pc'[p] = pc[p]
      BY <2>2, <3>1 DEF InSection
    <3>3. Outstanding' \subseteq Outstanding BY <3>2 DEF Outstanding
    <3> QED BY <2>2, <3>2, <3>3, QueueingMoves
  <2>3. TurnAway(o, "shared") => pc'[o] = "shared" /\ ahead' = ahead
    BY <1>0 DEF TurnAway, TypeOK, CallTypes
  <2> QED
    BY <1>0, <1>1, <2>1, <2>2, <2>3
    DEF BeginStep, BeginExecute, BeginReplace, ReadOriginal, RefuseOriginal, TypeOK, CallTypes
<1>2. ASSUME NEW o \in Op, SendStep(o) PROVE Queueing'
  <2>1. PICK label \in InSection \cup {"done"} : Advances(o, label) BY <1>2, SendAdvances
  <2>2. pc'[o] = label /\ (\A p \in Op \ {o} : pc'[p] = pc[p]) /\ ahead' = ahead
        /\ pc[o] \in {"queued"} \cup InSection
    BY <1>0, <2>1 DEF Advances, TypeOK, CallTypes
  <2>3. Outstanding' \subseteq Outstanding BY <2>2 DEF Outstanding
  <2>4. pc[o] = "queued" => \A p \in ahead[o] : p \notin Outstanding
    BY <1>2 DEF SendStep, Enter, PrepareSend, PrepareReplacement, Throw, Sign, StorePending,
                Discard, LookFound, Submit, GiveUp, Mark, Clear, MarkReplaced, AwaitConfirmed,
                AwaitReverted, AwaitTimeout
  <2> QED BY <2>2, <2>3, <2>4, QueueingMoves
<1>3. CASE Crash
  <2>1. \A p \in Op : pc'[p] \notin {"queued"} \cup InSection
    BY <1>0, <1>3, CrashEndsCalls DEF InSection
  <2>2. Outstanding' = {} BY <2>1 DEF Outstanding
  <2> QED BY <1>3, <2>1, <2>2, QueueingMoves DEF Crash
<1>4. CASE Aside \/ UNCHANGED vars
  <2>1. UNCHANGED <<pc, ahead>> BY <1>4, AsideMoves DEF vars
  <2>2. Outstanding' = Outstanding BY <2>1 DEF Outstanding
  <2> QED BY <2>1, <2>2, QueueingMoves
<1> QED BY <1>1, <1>2, <1>3, <1>4 DEF Next, Aside, BeginStep

LEMMA OneRuns ==
  ASSUME Queueing, NEW o \in Op, NEW p \in Op, pc[o] \in InSection, pc[p] \in InSection
  PROVE  o = p
BY DEF Queueing, Outstanding
-----------------------------------------------------------------------------
(* What keeps the signed bytes of an uncertain submission.                 *)

\* Who is about to write the first record of a transaction has its bytes.
Bytes == /\ \A o \in Op : pc[o] = "storePending" => tx[o] \in outbox \/ Recorded(tx[o])
         /\ SubmittingIsRecoverable

\* The bytes a call throws away after a failed storePending are not those of
\* a submission somebody else has recorded.
DiscardsAreSpare == \A o \in Op : pc[o] = "discard" => ~Submitting(tx[o])

NoNewRecord == \A t \in Tx : Recorded(t)' => Recorded(t)

\* No record becomes uncertain again.
LEMMA UncertainOnce ==
  ASSUME IInv, WorldStep
  PROVE  Kept /\ \A t \in Tx : Submitting(t)' => Submitting(t) \/ ~Recorded(t)
<1>1. ASSUME NEW t \in Tx, StoreChange(t)
      PROVE  Kept /\ \A u \in Tx : Submitting(u)' => Submitting(u) \/ ~Recorded(u)
  <2>1. stored'[t] # None /\ \A u \in Tx \ {t} : stored'[u] = stored[u]
    BY <1>1 DEF StoreChange, Becomes
  <2>2. Submitting(t)' => ~Recorded(t)
    BY <1>1 DEF StoreChange, Becomes, Submitting, IsPending, Recorded
  <2> QED BY <2>1, <2>2 DEF Kept, Recorded, Submitting, IsPending
<1>2. CASE stored' = stored BY <1>2 DEF Kept, Recorded, Submitting, IsPending
<1> QED BY <1>1, <1>2 DEF WorldStep

\* A step that writes no first record and deletes the bytes of transactions
\* the network has seen only.
LEMMA BytesStay ==
  ASSUME IInv, Bytes, WorldStep, NoNewRecord, \A t \in outbox : t \in outbox' \/ Seen(t),
         \A o \in Op : pc'[o] = "storePending" => pc[o] = "storePending" /\ tx'[o] = tx[o]
  PROVE  Bytes'
<1>1. Kept /\ \A t \in Tx : Submitting(t)' => Submitting(t)
  BY UncertainOnce DEF NoNewRecord, Submitting, IsPending, Recorded
<1>2. SubmittingIsRecoverable'
  <2> SUFFICES ASSUME NEW t \in Tx, Submitting(t)' PROVE t \in outbox'
    BY DEF SubmittingIsRecoverable
  <2>1. Submitting(t) /\ t \in outbox BY <1>1 DEF Bytes, SubmittingIsRecoverable
  <2>2. ~Seen(t) BY <2>1 DEF Submitting, Seen
  <2> QED BY <2>1, <2>2
<1>3. ASSUME NEW o \in Op, pc'[o] = "storePending" PROVE tx'[o] \in outbox' \/ Recorded(tx[o])'
  <2>1. pc[o] = "storePending" /\ tx[o] \in Tx /\ tx'[o] = tx[o]
    BY <1>3 DEF IInv, CallOK, Prepared, InSection
  <2>2. CASE Recorded(tx[o]) BY <1>1, <2>1, <2>2 DEF Kept, Recorded
  <2>3. CASE tx[o] \in outbox /\ ~Recorded(tx[o]) BY <2>1, <2>3 DEF Seen, Recorded
  <2> QED BY <2>1, <2>2, <2>3 DEF Bytes
<1> QED BY <1>2, <1>3 DEF Bytes

LEMMA DeleteSignedKeepsOthers ==
  ASSUME NEW t, DeleteSigned(t)
  PROVE  \A u \in outbox : u \in outbox' \/ u = t
BY DEF DeleteSigned

LEMMA TryUpdateNothingNew ==
  ASSUME DiskTypes, NEW t \in Tx, Seen(t), NEW status, TryUpdate(t, status)
  PROVE  NoNewRecord
BY DEF TryUpdate, Update, DiskTypes, NoNewRecord, Seen, Recorded

LEMMA SignBytes ==
  ASSUME IInv, Bytes, NEW o \in Op, Sign(o),
         \A p \in Op \ {o} : pc'[p] = pc[p] /\ tx'[p] = tx[p]
  PROVE  Bytes'
<1>0. TypeOK BY DEF IInv
<1>1. stored' = stored /\ outbox \subseteq outbox' BY DEF Sign
<1>2. pc'[o] = "storePending" => tx'[o] \in outbox'
  <2>1. Leave(o) => pc'[o] = "done" BY <1>0 DEF Leave, TypeOK, CallTypes
  <2>2. Goto(o, "storePending") => tx'[o] = tx[o] BY DEF Goto, local
  <2> QED BY <2>1, <2>2 DEF Sign
<1>3. SubmittingIsRecoverable'
  BY <1>1 DEF Bytes, SubmittingIsRecoverable, Submitting, IsPending
<1>4. \A p \in Op : pc'[p] = "storePending" => tx'[p] \in outbox' \/ Recorded(tx[p])'
  <2> TAKE p \in Op
  <2>1. CASE p = o BY <1>2, <2>1
  <2>2. CASE p # o BY <1>1, <2>2 DEF Bytes, Recorded
  <2> QED BY <2>1, <2>2
<1> QED BY <1>3, <1>4 DEF Bytes

LEMMA StorePendingBytes ==
  ASSUME IInv, Bytes, WorldStep, NEW o \in Op, StorePending(o),
         \A p \in Op \ {o} : pc'[p] = pc[p] /\ tx'[p] = tx[p]
  PROVE  Bytes'
<1>0. TypeOK /\ DiskTypes /\ tx[o] \in Tx /\ outbox' = outbox
  BY RunningCall DEF IInv, TypeOK, StorePending, InSection
<1>1. pc'[o] \in {"look", "discard"} BY <1>0 DEF StorePending, Goto, CallTypes, TypeOK
<1>2. \A p \in Op : pc'[p] = "storePending" => tx'[p] \in outbox' \/ Recorded(tx[p])'
  <2> SUFFICES ASSUME NEW p \in Op, pc'[p] = "storePending"
               PROVE  tx'[p] \in outbox' \/ Recorded(tx[p])'
    OBVIOUS
  <2>1. pc[p] = "storePending" /\ tx'[p] = tx[p] /\ tx[p] \in Tx
    BY <1>1 DEF IInv, CallOK, Prepared, InSection
  <2>2. Recorded(tx[p]) => Recorded(tx[p])' BY <2>1, UncertainOnce DEF Kept, Recorded
  <2> QED BY <1>0, <2>1, <2>2 DEF Bytes
<1>3. ASSUME NEW t \in Tx, Submitting(t)' PROVE t \in outbox'
  <2>1. CASE stored'[t] = stored[t]
    BY <1>0, <1>3, <2>1 DEF Bytes, SubmittingIsRecoverable, Submitting, IsPending
  <2>2. CASE stored'[t] # stored[t]
    <3>1. t = tx[o] /\ stored[t] = None BY <1>0, <2>2 DEF StorePending, DiskTypes
    <3> QED BY <1>0, <3>1 DEF Bytes, StorePending, Recorded
  <2> QED BY <2>1, <2>2
<1>4. SubmittingIsRecoverable' BY <1>3 DEF SubmittingIsRecoverable
<1> QED BY <1>2, <1>4 DEF Bytes

LEMMA DiscardBytes ==
  ASSUME IInv, Bytes, Queueing, DiscardsAreSpare, NEW o \in Op, Discard(o)
  PROVE  Bytes'
<1>0. TypeOK /\ pc[o] = "discard" BY DEF IInv, Discard
<1>1. \A p \in Op : pc'[p] # "storePending"
  <2> TAKE p \in Op
  <2>1. CASE p = o BY <1>0, <2>1 DEF Discard, Leave, TypeOK, CallTypes
  <2>2. CASE p # o
    <3>1. pc[p] # "storePending" BY <1>0, <2>2, OneRuns DEF InSection
    <3> QED BY <1>0, <2>2, <3>1 DEF Discard, Leave, TypeOK, CallTypes
  <2> QED BY <2>1, <2>2
<1>2. stored' = stored /\ ~Submitting(tx[o]) /\ \A t \in outbox : t \in outbox' \/ t = tx[o]
  BY <1>0, DeleteSignedKeepsOthers DEF Discard, DiscardsAreSpare
<1>3. SubmittingIsRecoverable'
  BY <1>2 DEF Bytes, SubmittingIsRecoverable, Submitting, IsPending
<1> QED BY <1>1, <1>3 DEF Bytes

\* The other steps of a call.
LEMMA OtherSendRecords ==
  ASSUME IInv, NEW o \in Op, HeldCall(o), SendStep(o), ~StorePending(o)
  PROVE  NoNewRecord
<1>0. DiskTypes BY DEF IInv, TypeOK
<1>1. CASE stored' = stored BY <1>1 DEF NoNewRecord, Recorded
<1>2. CASE Mark(o)
  <2>1. tx[o] \in Tx BY <1>2, LateCall DEF Mark, Late
  <2> QED
    BY <1>0, <1>2, <2>1 DEF Mark, MarkSeen, DiskTypes, IsPending, NoNewRecord, Recorded
<1>3. CASE MarkReplaced(o)
  BY <1>0, <1>3 DEF MarkReplaced, MayBecome, DiskTypes, NoNewRecord, Recorded
<1>4. CASE AwaitConfirmed(o) \/ AwaitReverted(o)
  <2>1. Seen(tx[o]) /\ tx[o] \in Tx
    BY <1>4, LateCall DEF AwaitConfirmed, AwaitReverted, HeldCall, Late
  <2> QED BY <1>0, <1>4, <2>1, TryUpdateNothingNew DEF AwaitConfirmed, AwaitReverted
<1> QED
  BY <1>1, <1>2, <1>3, <1>4
  DEF SendStep, Enter, PrepareSend, PrepareReplacement, Prepare, Throw, Sign, Discard, LookFound,
      Submit, GiveUp, Clear, AwaitTimeout, disk

LEMMA OtherSendBytes ==
  ASSUME IInv, Reported, Bytes, NEW o \in Op, HeldCall(o), SendStep(o),
         \A p \in Op \ {o} : pc'[p] = pc[p] /\ tx'[p] = tx[p],
         ~Sign(o), ~StorePending(o), ~Discard(o)
  PROVE  Bytes'
<1>0. TypeOK /\ WorldStep /\ NoNewRecord BY SendWorld, OtherSendRecords DEF IInv
<1>1. \A t \in outbox : t \in outbox' \/ Seen(t)
  <2>1. CASE Clear(o) BY <2>1, DeleteSignedKeepsOthers DEF Clear, HeldCall
  <2>2. CASE outbox' = outbox BY <2>2
  <2> QED
    BY <2>1, <2>2
    DEF SendStep, Enter, PrepareSend, PrepareReplacement, Prepare, Throw, LookFound, Submit,
        GiveUp, Mark, MarkReplaced, AwaitConfirmed, AwaitReverted, AwaitTimeout, disk
<1>2. pc'[o] # "storePending"
  <2>1. CASE Submit(o) BY <2>1 DEF Submit
  <2>2. CASE Leave(o) BY <1>0, <2>2 DEF Leave, TypeOK, CallTypes
  <2>3. CASE \E label \in {"prepare", "mark", "clear", "markReplaced", "await"} : Goto(o, label)
    BY <1>0, <2>3 DEF Goto, TypeOK, CallTypes
  <2>4. CASE \E t : Prepare(o, t) BY <1>0, <2>4 DEF Prepare, TypeOK, CallTypes
  <2> QED
    BY <2>1, <2>2, <2>3, <2>4
    DEF SendStep, Enter, PrepareSend, PrepareReplacement, Throw, LookFound, GiveUp, Mark, Clear,
        MarkReplaced, AwaitConfirmed, AwaitReverted, AwaitTimeout, Return
<1> QED BY <1>0, <1>1, <1>2, BytesStay

LEMMA SendBytes ==
  ASSUME IInv, Reported, Bytes, Queueing, DiscardsAreSpare, NEW o \in Op, HeldCall(o),
         SendStep(o)
  PROVE  Bytes'
<1>1. PICK label \in InSection \cup {"done"} : Advances(o, label) BY SendAdvances
<1>2. \A p \in Op \ {o} : pc'[p] = pc[p] /\ tx'[p] = tx[p]
  BY <1>1 DEF Advances, IInv, TypeOK, CallTypes
<1>3. WorldStep BY SendWorld
<1> QED BY <1>2, <1>3, SignBytes, StorePendingBytes, DiscardBytes, OtherSendBytes

LEMMA CheckRecords ==
  ASSUME IInv, NEW t \in Tx, HeldCheck(t), CheckStep(t)
  PROVE  NoNewRecord
<1>0. DiskTypes BY DEF IInv, TypeOK
<1>1. CASE stored' = stored BY <1>1 DEF NoNewRecord, Recorded
<1>2. CASE CheckMark(t)
  BY <1>0, <1>2 DEF CheckMark, MarkSeen, DiskTypes, IsPending, NoNewRecord, Recorded
<1>3. CASE CheckReceipt(t)
  BY <1>0, <1>1, <1>3, TryUpdateNothingNew DEF CheckReceipt, HeldCheck
<1> QED
  BY <1>1, <1>2, <1>3 DEF CheckStep, StartCheck, CheckFound, CheckLoad, CheckSubmit,
                          CheckMissing, CheckClear, disk

LEMMA CheckBytes ==
  ASSUME IInv, Reported, Bytes, NEW t \in Tx, HeldCheck(t), CheckStep(t)
  PROVE  Bytes'
<1>1. WorldStep /\ UNCHANGED <<pc, tx>> /\ NoNewRecord BY CheckWorld, CheckRecords
<1>2. \A u \in outbox : u \in outbox' \/ Seen(u)
  <2>1. CASE CheckClear(t)
    BY <2>1, DeleteSignedKeepsOthers DEF CheckClear, HeldCheck
  <2>2. CASE outbox' = outbox BY <2>2
  <2> QED
    BY <2>1, <2>2 DEF CheckStep, StartCheck, CheckFound, CheckLoad, CheckSubmit, CheckMissing,
                      CheckMark, CheckReceipt, disk
<1> QED BY <1>1, <1>2, BytesStay

LEMMA BytesKept ==
  IInv /\ Reported /\ Held /\ Queueing /\ DiscardsAreSpare /\ Bytes /\ [Next]_vars => Bytes'
<1> SUFFICES ASSUME IInv, Reported, Held, Queueing, DiscardsAreSpare, Bytes, [Next]_vars
             PROVE  Bytes'
  OBVIOUS
<1>0. TypeOK /\ WorldStep BY HeldKept DEF IInv
<1>1. ASSUME UNCHANGED disk,
             \A o \in Op : pc'[o] = "storePending" => pc[o] = "storePending" /\ tx'[o] = tx[o]
      PROVE  Bytes'
  <2>1. UNCHANGED <<stored, outbox>> /\ NoNewRecord BY <1>1 DEF disk, NoNewRecord, Recorded
  <2> QED BY <1>0, <1>1, <2>1, BytesStay
<1>2. ASSUME NEW o \in Op, BeginStep(o) PROVE Bytes'
  BY <1>0, <1>1, <1>2, BeginMoves
<1>3. ASSUME NEW o \in Op, SendStep(o) PROVE Bytes' BY <1>3, SendBytes DEF Held
<1>4. ASSUME NEW t \in Tx, CheckStep(t) PROVE Bytes' BY <1>4, CheckBytes DEF Held
<1>5. CASE (\E q \in Quote : PrepareQuote(q)) \/ (\E t \in Tx : Mine(t) \/ Evict(t))
           \/ UNCHANGED vars
  <2>1. UNCHANGED <<pc, tx, disk>> BY <1>5 DEF PrepareQuote, Mine, Evict, vars, local
  <2> QED BY <1>1, <2>1
<1>6. CASE Crash
  <2>1. UNCHANGED disk BY <1>6 DEF Crash
  <2>2. \A o \in Op : pc'[o] # "storePending" BY <1>0, <1>6, CrashEndsCalls
  <2> QED BY <1>1, <2>1, <2>2
<1> QED BY <1>2, <1>3, <1>4, <1>5, <1>6 DEF Next, BeginStep

\* What the proofs about the bytes rest on.
Basis == IInv /\ AheadJoined /\ Queueing /\ Reported /\ Held

LEMMA BasisHolds == /\ Init => Basis /\ Bytes
                    /\ Basis /\ [Next]_vars => Basis'
<1>1. ASSUME Init PROVE Basis /\ Bytes
  <2>1. Outstanding = {} BY <1>1 DEF Init, Outstanding, InSection
  <2>2. Queueing BY <1>1, <2>1 DEF Init, Queueing, InSection
  <2>4. IInv /\ AheadJoined /\ Reported /\ Held
    BY <1>1, InitEstablishes, InitReported DEF Init, AheadJoined
  <2>5. Bytes BY <1>1 DEF Init, Bytes, SubmittingIsRecoverable, Submitting, IsPending
  <2> QED BY <2>2, <2>4, <2>5 DEF Basis
<1>2. Basis /\ [Next]_vars => Basis'
  BY Inductive, AheadKept, QueueingKept, ReportedKept DEF Basis
<1> QED BY <1>1, <1>2

\* An uncertain submission loses its signed bytes in one way only: a call that
\* signed the same transaction again could not store its record and discards
\* the bytes both share.  No other failure, restart or interleaving does it.
THEOREM OnlyDiscardsLoseBytes == Spec /\ []DiscardsAreSpare => []SubmittingIsRecoverable
<1>1. Init => Basis /\ Bytes BY BasisHolds
<1>2. Basis /\ Bytes /\ DiscardsAreSpare /\ [Next]_vars => (Basis /\ Bytes)'
  BY BasisHolds, BytesKept DEF Basis
<1>3. Bytes => SubmittingIsRecoverable BY DEF Bytes
<1> QED BY <1>1, <1>2, <1>3, PTL DEF Spec
-----------------------------------------------------------------------------
(* When no discard is harmful.                                             *)

\* A payment is quoted for one energy order at most.
OneOrderPerPayment ==
  \A p, q \in Quote : PayloadOf[p] = PayloadOf[q] => OrderOf[p] = OrderOf[q]

\* The order is the one of a quote for this payment; a cancellation has none.
Fits(payload, order) ==
  IF payload = Cancel THEN order = None
  ELSE \E q \in Quote : PayloadOf[q] = payload /\ OrderOf[q] = order

Linked == \A t \in Tx : Recorded(t) => Fits(t.payload, stored[t].order)

\* What a call prepared is what it was asked to pay.
CallLinked(o) ==
  pc[o] \in Prepared =>
    /\ IsExecute(o) => tx[o].payload = PayloadOf[job[o].quote]
    /\ job[o].kind = "speed-up" => tx[o].payload = job[o].original.payload
    /\ job[o].kind = "cancel" => tx[o].payload = Cancel

LEMMA FitsOne ==
  ASSUME OneOrderPerPayment, NEW payload, NEW a, NEW b, Fits(payload, a), Fits(payload, b)
  PROVE  a = b
BY DEF OneOrderPerPayment, Fits

LEMMA OrderForFits ==
  ASSUME IInv, Linked, NEW o \in Op, CallLinked(o), pc[o] \in Prepared
  PROVE  Fits(tx[o].payload, OrderFor(o))
<1>1. /\ TypeOK /\ pc[o] \in InSection /\ job[o] \in Job
      /\ IF IsExecute(o) THEN job[o].quote \in Quote
                         ELSE job[o].original \in Tx /\ Recorded(job[o].original)
  BY RunningCall DEF IInv, Prepared
<1>2. CASE IsExecute(o)
  <2>1. OrderFor(o) = OrderOf[job[o].quote] BY <1>2 DEF OrderFor, IsExecute
  <2>2. tx[o].payload = PayloadOf[job[o].quote] /\ tx[o].payload # Cancel
    BY <1>1, <1>2, QuoteAssumption, CancelAssumption DEF CallLinked
  <2> QED BY <1>1, <1>2, <2>1, <2>2 DEF Fits
<1>3. CASE ~IsExecute(o) /\ job[o].kind = "speed-up"
  BY <1>1, <1>3 DEF OrderFor, CallLinked, Linked
<1>4. CASE ~IsExecute(o) /\ job[o].kind = "cancel"
  BY <1>4 DEF OrderFor, CallLinked, Fits
<1>5. job[o].kind \in {"execute", "speed-up", "cancel"} BY <1>1 DEF Job
<1> QED BY <1>2, <1>3, <1>4, <1>5 DEF IsExecute

LEMMA PrepareLinked ==
  ASSUME IInv, NEW o \in Op, PrepareSend(o) \/ PrepareReplacement(o)
  PROVE  CallLinked(o)'
<1>0. TypeOK BY DEF IInv
<1>1. pc[o] = "prepare" BY DEF PrepareSend, PrepareReplacement
<1>2. job[o] \in Job BY <1>1 DEF IInv, CallOK, Active, InSection
<1>3. CASE PrepareSend(o)
  <2>1. IsExecute(o) /\ job' = job /\ tx'[o].payload = PayloadOf[job[o].quote]
    BY <1>0, <1>3 DEF PrepareSend, Prepare, TypeOK, CallTypes
  <2> QED BY <2>1 DEF CallLinked, IsExecute
<1>4. CASE PrepareReplacement(o)
  <2>1. /\ ~IsExecute(o) /\ job' = job
        /\ tx'[o].payload = IF job[o].kind = "cancel" THEN Cancel ELSE job[o].original.payload
    BY <1>0, <1>4 DEF PrepareReplacement, Prepare, TypeOK, CallTypes
  <2> QED BY <2>1 DEF CallLinked, IsExecute
<1> QED BY <1>3, <1>4

LEMMA CallLinkedOn ==
  ASSUME NEW o \in Op, CallLinked(o), job'[o] = job[o], tx'[o] = tx[o],
         pc'[o] \in Prepared => pc[o] \in Prepared
  PROVE  CallLinked(o)'
BY DEF CallLinked, IsExecute

LEMMA SendLinked ==
  ASSUME IInv, NEW o \in Op, CallLinked(o), SendStep(o)
  PROVE  CallLinked(o)'
<1>0. TypeOK BY DEF IInv
<1>1. CASE Enter(o) \/ Leave(o)
  <2>1. pc'[o] \in {"prepare", "done"} BY <1>0, <1>1 DEF Enter, Goto, Leave, TypeOK, CallTypes
  <2> QED BY <2>1 DEF CallLinked, Prepared, InSection
<1>2. CASE PrepareSend(o) \/ PrepareReplacement(o) BY <1>2, PrepareLinked
<1>3. CASE pc[o] \in Prepared /\ UNCHANGED <<job, tx>> BY <1>3, CallLinkedOn
<1> QED
  BY <1>1, <1>2, <1>3
  DEF SendStep, Throw, Sign, StorePending, Discard, LookFound, Submit, GiveUp, Mark, Clear,
      MarkReplaced, AwaitConfirmed, AwaitReverted, AwaitTimeout, Return, Goto, local, Prepared,
      InSection

\* The discards of calls that met no storage fault.
Spare == faults = 0 => \A o \in Op : pc[o] = "discard" => Seen(tx[o])

LEMMA StorePendingLinked ==
  ASSUME IInv, Linked, NEW o \in Op, CallLinked(o), StorePending(o)
  PROVE  Linked'
<1>0. DiskTypes /\ tx[o] \in Tx /\ OrdersKept /\ Fits(tx[o].payload, OrderFor(o))
  BY OrderForFits, RunningCall, StorePendingKeepsOrders
  DEF IInv, TypeOK, StorePending, Prepared, InSection
<1> SUFFICES ASSUME NEW t \in Tx, Recorded(t)' PROVE Fits(t.payload, stored'[t].order)
  BY DEF Linked, Fits
<1>1. CASE Recorded(t) BY <1>0, <1>1 DEF Linked, Recorded, OrdersKept
<1>2. CASE ~Recorded(t)
  <2>1. t = tx[o] /\ stored'[t] = NewRecord(OrderFor(o))
    BY <1>0, <1>2 DEF StorePending, DiskTypes, Recorded
  <2> QED BY <1>0, <2>1 DEF NewRecord
<1> QED BY <1>1, <1>2

LEMMA RecordsLinked ==
  ASSUME Linked, OrdersKept, NoNewRecord
  PROVE  Linked'
BY DEF Linked, OrdersKept, NoNewRecord, Recorded, Fits

\* Without a fault only a record that is already marked stands in the way.
LEMMA StorePendingSpare ==
  ASSUME IInv, OneOrderPerPayment, Linked, NEW o \in Op, CallLinked(o), StorePending(o),
         faults' = 0, pc'[o] = "discard"
  PROVE  Seen(tx[o]) /\ stored' = stored /\ tx' = tx
<1>0. TypeOK /\ DiskTypes /\ faults \in Nat /\ tx[o] \in Tx /\ pc[o] \in Prepared
  BY RunningCall, BoundAssumption
  DEF IInv, TypeOK, LimitTypes, StorePending, Prepared, InSection
<1>1. pc' # [pc EXCEPT ![o] = "look"] BY <1>0 DEF TypeOK, CallTypes
<1>2. ~Fault BY <1>0 DEF Fault
<1>3. Conflicts(tx[o], OrderFor(o)) /\ stored' = stored /\ tx' = tx
  BY <1>1, <1>2 DEF StorePending, Goto, local
<1>4. stored[tx[o]] \in Record /\ Recorded(tx[o])
  BY <1>0, <1>3 DEF Conflicts, DiskTypes, Recorded
<1>5. stored[tx[o]].order = OrderFor(o)
  BY <1>0, <1>4, OrderForFits, FitsOne DEF Linked
<1> QED BY <1>3, <1>4, <1>5 DEF Conflicts, Record, Seen

LEMMA LinkedKept ==
  ASSUME IInv, Reported, Held, Linked, \A o \in Op : CallLinked(o), [Next]_vars
  PROVE  Linked' /\ \A o \in Op : CallLinked(o)'
<1>0. TypeOK /\ OrdersKept BY NextKeepsOrders DEF IInv
<1>1. ASSUME NEW o \in Op, BeginStep(o) PROVE Linked' /\ \A p \in Op : CallLinked(p)'
  <2>1. NoNewRecord BY <1>0, <1>1, BeginMoves DEF disk, NoNewRecord, Recorded
  <2>2. ASSUME NEW p \in Op PROVE CallLinked(p)'
    <3>1. CASE p = o BY <1>0, <1>1, <3>1, BeginMoves DEF CallLinked, Prepared, InSection
    <3>2. CASE p # o BY <1>0, <1>1, <3>2, BeginMoves, CallLinkedOn
    <3> QED BY <3>1, <3>2
  <2> QED BY <1>0, <2>1, <2>2, RecordsLinked
<1>2. ASSUME NEW o \in Op, SendStep(o) PROVE Linked' /\ \A p \in Op : CallLinked(p)'
  <2>1. Linked'
    <3>1. CASE StorePending(o) BY <3>1, StorePendingLinked
    <3>2. CASE ~StorePending(o) BY <1>0, <1>2, <3>2, OtherSendRecords, RecordsLinked DEF Held
    <3> QED BY <3>1, <3>2
  <2>2. PICK label \in InSection \cup {"done"} : Advances(o, label) BY <1>2, SendAdvances
  <2>3. ASSUME NEW p \in Op PROVE CallLinked(p)'
    <3>1. CASE p = o BY <1>2, <3>1, SendLinked
    <3>2. CASE p # o
      <4>1. pc'[p] = pc[p] /\ job'[p] = job[p] /\ tx'[p] = tx[p]
        BY <1>0, <2>2, <3>2 DEF Advances, TypeOK, CallTypes
      <4> QED BY <4>1, CallLinkedOn
    <3> QED BY <3>1, <3>2
  <2> QED BY <2>1, <2>3
<1>3. ASSUME NEW t \in Tx, CheckStep(t) PROVE Linked' /\ \A p \in Op : CallLinked(p)'
  <2>1. NoNewRecord BY <1>3, CheckRecords DEF Held
  <2>2. UNCHANGED <<pc, job, tx>> BY <1>3, CheckWorld DEF Held
  <2> QED BY <1>0, <2>1, <2>2, RecordsLinked, CallLinkedOn
<1>4. CASE (\E q \in Quote : PrepareQuote(q)) \/ (\E t \in Tx : Mine(t) \/ Evict(t))
           \/ UNCHANGED vars
  <2>1. UNCHANGED <<pc, job, tx, stored>>
    BY <1>4 DEF PrepareQuote, Mine, Evict, vars, local, disk
  <2>2. NoNewRecord BY <2>1 DEF NoNewRecord, Recorded
  <2> QED BY <1>0, <2>1, <2>2, RecordsLinked, CallLinkedOn
<1>5. CASE Crash
  <2>1. NoNewRecord BY <1>5 DEF Crash, disk, NoNewRecord, Recorded
  <2>2. \A p \in Op : pc'[p] \notin Prepared
    BY <1>0, <1>5, CrashEndsCalls DEF Prepared, InSection
  <2> QED BY <1>0, <2>1, <2>2, RecordsLinked DEF CallLinked
<1> QED BY <1>1, <1>2, <1>3, <1>4, <1>5 DEF Next, BeginStep

\* Faults are only ever added.
LEMMA FaultsCount ==
  ASSUME faults \in Nat, [Next]_vars
  PROVE  faults' = 0 => faults = 0
<1>1. Fault \/ UNCHANGED limits \/ faults' = faults => (faults' = 0 => faults = 0)
  BY DEF Fault, limits
<1>2. ASSUME NEW o \in Op, BeginStep(o) PROVE UNCHANGED limits
  BY <1>2 DEF BeginStep, BeginExecute, BeginReplace, ReadOriginal, RefuseOriginal
<1>3. ASSUME NEW o \in Op, SendStep(o) PROVE Fault \/ UNCHANGED limits
  <2>1. CASE Enter(o) \/ PrepareSend(o) \/ PrepareReplacement(o) \/ Throw(o) \/ LookFound(o)
             \/ Submit(o) \/ GiveUp(o) \/ AwaitTimeout(o)
    BY <2>1 DEF Enter, PrepareSend, PrepareReplacement, Prepare, Throw, LookFound, Submit,
                GiveUp, AwaitTimeout
  <2>2. CASE Sign(o) \/ StorePending(o) \/ Discard(o) \/ Mark(o) \/ Clear(o) \/ MarkReplaced(o)
    BY <2>2 DEF Sign, StorePending, Discard, DeleteSigned, Mark, Clear, MarkReplaced
  <2>3. CASE AwaitConfirmed(o) \/ AwaitReverted(o)
    BY <2>3 DEF AwaitConfirmed, AwaitReverted, TryUpdate
  <2> QED BY <1>3, <2>1, <2>2, <2>3 DEF SendStep
<1>4. ASSUME NEW t \in Tx, CheckStep(t) PROVE Fault \/ UNCHANGED limits
  BY <1>4 DEF CheckStep, StartCheck, CheckFound, CheckLoad, CheckSubmit, CheckMissing, CheckMark,
              CheckClear, CheckReceipt, DeleteSigned, TryUpdate
<1>5. CASE (\E q \in Quote : PrepareQuote(q)) \/ (\E t \in Tx : Mine(t) \/ Evict(t))
           \/ UNCHANGED vars
  BY <1>1, <1>5 DEF PrepareQuote, Mine, Evict, vars
<1>6. CASE Crash BY <1>1, <1>6 DEF Crash
<1> QED BY <1>1, <1>2, <1>3, <1>4, <1>5, <1>6 DEF Next, BeginStep

LEMMA SpareKept ==
  ASSUME IInv, Reported, Held, OneOrderPerPayment, Linked, \A o \in Op : CallLinked(o), Spare,
         [Next]_vars
  PROVE  Spare' /\ (faults' = 0 => faults = 0)
<1>0. TypeOK /\ Lasting /\ faults \in Nat
  BY HeldKept, WorldLasts, BoundAssumption DEF IInv, TypeOK, LimitTypes
<1>1. faults' = 0 => faults = 0 BY <1>0, FaultsCount
<1> SUFFICES ASSUME faults' = 0, NEW o \in Op, pc'[o] = "discard" PROVE Seen(tx[o])'
  BY <1>1 DEF Spare
<1>2. CASE pc[o] = "discard" /\ tx'[o] = tx[o]
  <2>1. tx[o] \in Tx /\ Seen(tx[o])
    BY <1>1, <1>2 DEF Spare, IInv, CallOK, Prepared, InSection
  <2> QED BY <1>0, <1>2, <2>1 DEF Lasting, Seen
<1>3. CASE StorePending(o)
  <2>1. Seen(tx[o]) /\ stored' = stored /\ tx' = tx BY <1>3, StorePendingSpare
  <2> QED BY <2>1 DEF Seen
<1>4. (pc[o] = "discard" /\ tx'[o] = tx[o]) \/ StorePending(o)
  <2>1. ASSUME NEW p \in Op, BeginStep(p) PROVE pc[o] = "discard" /\ tx'[o] = tx[o]
    BY <1>0, <2>1, BeginMoves
  <2>2. ASSUME NEW p \in Op, SendStep(p)
        PROVE  (pc[o] = "discard" /\ tx'[o] = tx[o]) \/ StorePending(o)
    <3>1. PICK label \in InSection \cup {"done"} : Advances(p, label) BY <2>2, SendAdvances
    <3>2. CASE p # o BY <1>0, <3>1, <3>2 DEF Advances, TypeOK, CallTypes
    <3>3. CASE p = o
      <4>1. ~Submit(o) BY DEF Submit
      <4>2. ~Leave(o) BY <1>0 DEF Leave, TypeOK, CallTypes
      <4>3. ~\E t : Prepare(o, t) BY <1>0 DEF Prepare, TypeOK, CallTypes
      <4>4. ~\E to \in {"prepare", "storePending", "mark", "clear", "markReplaced", "await"} :
               Goto(o, to)
        BY <1>0 DEF Goto, TypeOK, CallTypes
      <4> QED
        BY <2>2, <3>3, <4>1, <4>2, <4>3, <4>4
        DEF SendStep, Enter, PrepareSend, PrepareReplacement, Throw, Sign, Discard, LookFound,
            GiveUp, Mark, Clear, MarkReplaced, AwaitConfirmed, AwaitReverted, AwaitTimeout, Return
    <3> QED BY <3>2, <3>3
  <2>3. CASE Aside \/ UNCHANGED vars BY <2>3, AsideMoves DEF vars, local
  <2>4. ~Crash BY <1>0, CrashEndsCalls
  <2> QED BY <2>1, <2>2, <2>3, <2>4 DEF Next, Aside, BeginStep
<1> QED BY <1>2, <1>3, <1>4

\* If every payment is quoted for one energy order at most, and storage does
\* not fail, no uncertain submission loses its signed bytes, however many
\* calls, restarts and lost answers there are.  With two orders it does.
THEOREM OneOrderIsRecoverable ==
  ASSUME OneOrderPerPayment
  PROVE  Spec => [](faults = 0 => SubmittingIsRecoverable)
<1> DEFINE Strong == /\ Basis /\ Linked /\ Spare
                     /\ \A o \in Op : CallLinked(o)
                     /\ faults = 0 => Bytes
<1>1. Init => Strong
  <2> SUFFICES ASSUME Init PROVE Strong OBVIOUS
  <2>1. Basis /\ Bytes BY BasisHolds
  <2>2. Linked BY DEF Init, Linked, Recorded
  <2>3. Spare /\ \A o \in Op : CallLinked(o)
    BY DEF Init, Spare, CallLinked, Prepared, InSection
  <2> QED BY <2>1, <2>2, <2>3
<1>2. Strong /\ [Next]_vars => Strong'
  <2> SUFFICES ASSUME Strong, [Next]_vars PROVE Strong' OBVIOUS
  <2>1. IInv /\ Reported /\ Held /\ Queueing /\ Basis' BY BasisHolds DEF Basis
  <2>2. Linked' /\ \A o \in Op : CallLinked(o)' BY <2>1, LinkedKept
  <2>3. Spare' /\ (faults' = 0 => faults = 0) BY <2>1, SpareKept
  <2>4. faults = 0 => DiscardsAreSpare
    BY DEF Spare, DiscardsAreSpare, Submitting, IsPending, Seen
  <2>5. faults' = 0 => Bytes' BY <2>1, <2>3, <2>4, BytesKept
  <2> QED BY <2>1, <2>2, <2>3, <2>5
<1>3. Strong => (faults = 0 => SubmittingIsRecoverable) BY DEF Bytes
<1> QED BY <1>1, <1>2, <1>3, PTL DEF Spec
-----------------------------------------------------------------------------
(* What a replaced record leads to.                                        *)

\* A replacement under way outbids its original and is the cancellation or
\* the same payment, recorded for the same order.
Outbids(o) ==
  pc[o] \in Prepared /\ ~IsExecute(o) =>
    LET t == job[o].original IN
    /\ tx[o].gas >= Bumped(t.gas)
    /\ \/ tx[o].payload = Cancel
       \/ /\ job[o].kind = "speed-up" /\ tx[o].payload = t.payload
          /\ pc[o] \in Late => stored[tx[o]].order = stored[t].order

LEMMA PrepareOutbids ==
  ASSUME IInv, NEW o \in Op, PrepareReplacement(o)
  PROVE  Outbids(o)'
<1> DEFINE t == job[o].original
<1>1. TypeOK /\ t \in Tx /\ job[o] \in Job /\ ~IsExecute(o)
  BY RunningCall DEF IInv, PrepareReplacement, InSection
<1>2. t.gas \in Nat /\ Bumped(t.gas) \in Nat
  <2>1. t.gas \in GasPrice BY <1>1 DEF Tx
  <2>2. t.gas \in Nat BY <2>1, BoundAssumption DEF GasPrice
  <2> QED BY <2>2, BumpIsAFifth
<1>3. PICK networkGas \in GasPrice :
        LET gas == IF networkGas > Bumped(t.gas) THEN networkGas ELSE Bumped(t.gas) IN
          Prepare(o, [payload |-> IF job[o].kind = "cancel" THEN Cancel ELSE t.payload,
                      nonce |-> t.nonce, gas |-> gas])
  BY DEF PrepareReplacement
<1> DEFINE gas == IF networkGas > Bumped(t.gas) THEN networkGas ELSE Bumped(t.gas)
<1>4. gas >= Bumped(t.gas) BY <1>2, <1>3, BoundAssumption DEF GasPrice
<1>5. /\ tx'[o].gas = gas /\ pc'[o] = "sign" /\ job' = job
      /\ tx'[o].payload = IF job[o].kind = "cancel" THEN Cancel ELSE t.payload
  BY <1>1, <1>3 DEF Prepare, TypeOK, CallTypes
<1>6. job[o].kind # "cancel" => job[o].kind = "speed-up" BY <1>1 DEF Job, IsExecute
<1>7. "sign" \notin Late BY DEF Late
<1> QED BY <1>4, <1>5, <1>6, <1>7 DEF Outbids

\* The call holds what it held, and orders are kept.
LEMMA OutbidsOn ==
  ASSUME IInv, OrdersKept, NEW o \in Op, Outbids(o), job'[o] = job[o], tx'[o] = tx[o],
         pc'[o] \in Prepared => pc[o] \in Prepared, pc'[o] \in Late => pc[o] \in Late
  PROVE  Outbids(o)'
<1> SUFFICES ASSUME pc'[o] \in Prepared, ~IsExecute(o) PROVE Outbids(o)'
  BY DEF Outbids, IsExecute
<1> DEFINE t == job[o].original
<1>1. pc[o] \in Late => /\ t \in Tx /\ Recorded(t) /\ tx[o] \in Tx /\ Recorded(tx[o])
  BY LateCall, RunningCall
<1>2. pc'[o] \in Late => /\ stored'[tx[o]].order = stored[tx[o]].order
                         /\ stored'[t].order = stored[t].order
  BY <1>1 DEF OrdersKept, Recorded
<1> QED BY <1>2 DEF Outbids, IsExecute

\* The record the call goes on with is new or made for its order.
LEMMA StorePendingOutbids ==
  ASSUME IInv, OrdersKept, NEW o \in Op, Outbids(o), StorePending(o)
  PROVE  Outbids(o)'
<1> DEFINE t == job[o].original
<1>0. /\ TypeOK /\ DiskTypes /\ pc[o] \in Prepared /\ tx[o] \in Tx
      /\ ~IsExecute(o) => t \in Tx /\ Recorded(t)
  BY RunningCall DEF IInv, TypeOK, StorePending, Prepared, InSection
<1>1. PICK label \in {"look", "discard"} : Goto(o, label) BY DEF StorePending
<1>2. pc'[o] = label /\ job' = job /\ tx' = tx BY <1>0, <1>1 DEF Goto, local, TypeOK, CallTypes
<1>3. CASE label = "discard" BY <1>0, <1>2, <1>3, OutbidsOn DEF Late
<1>4. CASE label = "look"
  <2>1. pc' # [pc EXCEPT ![o] = "discard"] BY <1>0, <1>2, <1>4 DEF TypeOK, CallTypes
  <2>2. stored'[tx[o]].order = OrderFor(o)
    <3>1. CASE stored' = [stored EXCEPT ![tx[o]] = NewRecord(OrderFor(o))]
      BY <1>0, <3>1 DEF NewRecord, DiskTypes
    <3>2. CASE stored[tx[o]] # None /\ ~Conflicts(tx[o], OrderFor(o)) /\ UNCHANGED stored
      BY <3>2 DEF Conflicts
    <3> QED BY <2>1, <3>1, <3>2 DEF StorePending, Goto
  <2>3. ~IsExecute(o) /\ job[o].kind = "speed-up" => OrderFor(o) = stored[t].order
    BY DEF OrderFor, IsExecute
  <2>4. ~IsExecute(o) => stored'[t].order = stored[t].order
    BY <1>0 DEF OrdersKept, Recorded
  <2> QED BY <1>0, <1>2, <2>2, <2>3, <2>4 DEF Outbids, IsExecute
<1> QED BY <1>3, <1>4

LEMMA SendOutbids ==
  ASSUME IInv, OrdersKept, NEW o \in Op, Outbids(o), SendStep(o)
  PROVE  Outbids(o)'
<1>0. TypeOK BY DEF IInv
<1>1. CASE Enter(o) \/ Leave(o)
  <2>1. pc'[o] \in {"prepare", "done"} BY <1>0, <1>1 DEF Enter, Goto, Leave, TypeOK, CallTypes
  <2> QED BY <2>1 DEF Outbids, Prepared, InSection
<1>2. CASE PrepareSend(o)
  <2>1. IsExecute(o) /\ job' = job BY <1>2 DEF PrepareSend, Prepare
  <2> QED BY <2>1 DEF Outbids, IsExecute
<1>3. CASE PrepareReplacement(o) BY <1>3, PrepareOutbids
<1>4. CASE Sign(o) /\ Goto(o, "storePending")
  <2>1. pc'[o] = "storePending" /\ job' = job /\ tx' = tx /\ pc[o] = "sign"
    BY <1>0, <1>4 DEF Sign, Goto, local, TypeOK, CallTypes
  <2> QED BY <2>1, OutbidsOn DEF Prepared, InSection, Late
<1>5. CASE StorePending(o) BY <1>5, StorePendingOutbids
<1>6. CASE pc[o] \in Late /\ UNCHANGED <<job, tx>>
  <2>1. pc[o] \in Prepared BY <1>6, LateCall
  <2> QED BY <1>6, <2>1, OutbidsOn
<1> QED
  BY <1>1, <1>2, <1>3, <1>4, <1>5, <1>6
  DEF SendStep, Throw, Sign, Discard, LookFound, Submit, GiveUp, Mark, Clear, MarkReplaced,
      AwaitConfirmed, AwaitReverted, AwaitTimeout, Return, Goto, local, Late

LEMMA OutbidsKept ==
  ASSUME IInv, Reported, Held, \A o \in Op : Outbids(o), [Next]_vars
  PROVE  \A o \in Op : Outbids(o)'
<1>0. TypeOK /\ OrdersKept BY NextKeepsOrders DEF IInv
<1>1. ASSUME NEW o \in Op, BeginStep(o), NEW p \in Op PROVE Outbids(p)'
  <2>1. CASE p = o BY <1>0, <1>1, <2>1, BeginMoves DEF Outbids, Prepared, InSection
  <2>2. CASE p # o BY <1>0, <1>1, <2>2, BeginMoves, OutbidsOn
  <2> QED BY <2>1, <2>2
<1>2. ASSUME NEW o \in Op, SendStep(o), NEW p \in Op PROVE Outbids(p)'
  <2>1. CASE p = o BY <1>0, <1>2, <2>1, SendOutbids
  <2>2. CASE p # o
    <3>1. PICK label \in InSection \cup {"done"} : Advances(o, label) BY <1>2, SendAdvances
    <3>2. pc'[p] = pc[p] /\ job'[p] = job[p] /\ tx'[p] = tx[p]
      BY <1>0, <2>2, <3>1 DEF Advances, TypeOK, CallTypes
    <3> QED BY <1>0, <3>2, OutbidsOn
  <2> QED BY <2>1, <2>2
<1>3. ASSUME UNCHANGED <<pc, job, tx>>, NEW p \in Op PROVE Outbids(p)' BY <1>0, <1>3, OutbidsOn
<1>4. ASSUME NEW t \in Tx, CheckStep(t) PROVE UNCHANGED <<pc, job, tx>>
  BY <1>4, CheckWorld DEF Held
<1>5. CASE (\E q \in Quote : PrepareQuote(q)) \/ (\E t \in Tx : Mine(t) \/ Evict(t))
           \/ UNCHANGED vars
  <2>1. UNCHANGED <<pc, job, tx>> BY <1>5 DEF PrepareQuote, Mine, Evict, vars, local
  <2> QED BY <1>3, <2>1
<1>6. CASE Crash
  <2>1. \A p \in Op : pc'[p] \notin Prepared
    BY <1>0, <1>6, CrashEndsCalls DEF Prepared, InSection
  <2> QED BY <2>1 DEF Outbids
<1> QED BY <1>1, <1>2, <1>3, <1>4, <1>5, <1>6 DEF Next, BeginStep

\* A successor once found stays one.
LEMMA SuccessorStays ==
  ASSUME Lasting, OrdersKept, NEW r \in Tx, NEW t \in Tx, Recorded(t), Succeeds(r, t)
  PROVE  Succeeds(r, t)'
<1>1. Seen(r) /\ Recorded(r) BY DEF Succeeds, NetworkSeen, Seen, Recorded
<1>2. stored'[r] # None /\ stored'[r].submission = "network_seen" BY <1>1 DEF Lasting
<1>3. stored'[r].order = stored[r].order /\ stored'[t].order = stored[t].order
  BY <1>1 DEF OrdersKept, Recorded
<1> QED BY <1>2, <1>3 DEF Succeeds, NetworkSeen

\* The one step that marks a record replaced names a successor.
LEMMA MarkReplacedSucceeds ==
  ASSUME IInv, Reported, Held, OrdersKept, Lasting, NEW o \in Op, Outbids(o), MarkReplaced(o),
         NEW t \in Tx, t = job[o].original, NEW r \in Tx, r = tx[o], stored' # stored
  PROVE  stored'[t].replacement = r /\ Succeeds(r, t)'
<1>0. /\ TypeOK /\ DiskTypes /\ tx[o] \in Tx /\ pc[o] = "markReplaced" /\ ~IsExecute(o)
      /\ pc[o] \in Prepared /\ pc[o] \in Late /\ Recorded(t)
  BY LateCall, RunningCall DEF MarkReplaced, Late, CallOK, IInv, TypeOK
<1>1. stored' = [stored EXCEPT ![t].status = "replaced", ![t].replacement = tx[o]]
  BY DEF MarkReplaced
<1>2. stored[t] \in Record BY <1>0 DEF DiskTypes, Recorded
<1>3. stored'[t].replacement = r BY <1>0, <1>1, <1>2 DEF DiskTypes, Record
<1>4. Seen(r) /\ r.nonce = t.nonce BY <1>0 DEF Held, HeldCall
<1>5. Succeeds(r, t) BY <1>0, <1>4 DEF Succeeds, NetworkSeen, Seen, Outbids
<1>6. Succeeds(r, t)' BY <1>0, <1>5, SuccessorStays
<1> QED BY <1>3, <1>6

LEMMA SuccessorsKept ==
  ASSUME IInv, Reported, Held, ReplacedHasSuccessor, \A o \in Op : Outbids(o), [Next]_vars
  PROVE  ReplacedHasSuccessor'
<1>0. OrdersKept /\ WorldStep /\ Lasting BY NextKeepsOrders, HeldKept, WorldLasts
<1> SUFFICES ASSUME NEW t \in Tx, stored'[t] # None, stored'[t].status = "replaced"
             PROVE  \E r \in Tx : stored'[t].replacement = r /\ Succeeds(r, t)'
  BY DEF ReplacedHasSuccessor
<1>1. CASE stored'[t] = stored[t]
  <2>1. PICK r \in Tx : stored[t].replacement = r /\ Succeeds(r, t)
    BY <1>1 DEF ReplacedHasSuccessor
  <2> QED BY <1>0, <1>1, <2>1, SuccessorStays DEF Recorded
<1>2. CASE stored'[t] # stored[t]
  <2>1. PICK u \in Tx : StoreChange(u) BY <1>0, <1>2 DEF WorldStep
  <2>2. u = t BY <1>2, <2>1 DEF StoreChange, Becomes
  <2>3. PICK o \in Op : MarkReplaced(o) /\ t = job[o].original
    BY <2>1, <2>2 DEF StoreChange, Becomes
  <2>4. MarkReplaced(o) /\ stored' # stored BY <1>2, <2>3
  <2>5. PICK r \in Tx : r = tx[o] BY <2>4, LateCall DEF MarkReplaced, Late, CallOK, IInv
  <2>6. stored'[t].replacement = r /\ Succeeds(r, t)'
    BY <1>0, <2>3, <2>4, <2>5, MarkReplacedSucceeds
  <2> QED BY <2>6
<1> QED BY <1>1, <1>2

\* Whoever follows a payment from its "replaced" record finds a later
\* transaction of the same nonce that the network has taken, that outbids it by
\* a fifth, and that cancels it or pays the same for the same energy order:
\* however many calls, faults and restarts there are, no record is replaced by
\* nothing and no order's payment loses its link.
THEOREM ReplacementsAreLinked == Spec => []ReplacedHasSuccessor
<1> DEFINE Strong == /\ IInv /\ Reported /\ Held /\ ReplacedHasSuccessor
                     /\ \A o \in Op : Outbids(o)
<1>1. Init => Strong
  <2> SUFFICES ASSUME Init PROVE Strong OBVIOUS
  <2>1. ReplacedHasSuccessor BY DEF Init, ReplacedHasSuccessor
  <2>2. \A o \in Op : Outbids(o) BY DEF Init, Outbids, Prepared, InSection
  <2> QED BY <2>1, <2>2, InitEstablishes, InitReported
<1>2. Strong /\ [Next]_vars => Strong'
  BY Inductive, ReportedKept, OutbidsKept, SuccessorsKept
<1> QED BY <1>1, <1>2, PTL DEF Spec
=============================================================================
