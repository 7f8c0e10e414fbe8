--------------------------- MODULE AppLock_proofs ---------------------------
(***************************************************************************)
(* Proofs about the app lock, for any PINs, durations and counts to start  *)
(* with, and any number of attempts, PINs set, faults and crashes.         *)
(*                                                                         *)
(* An upgrade goes on beside the calls, so what it will write has to be    *)
(* related to what is stored meanwhile: unless a PIN was set while one was *)
(* under way (overlap), it writes the PIN that is stored (Upgrades), and a *)
(* call still works on the record it has read (Reading).  What a call is   *)
(* about to count includes all that was answered and not wiped out by the  *)
(* reset of an upgrade (Counting).                                         *)
(***************************************************************************)
EXTENDS AppLock, TLAPS

Judging == {"readAttempts", "reset", "count"}

\* What a call has read is what is stored, as far as the PIN goes.
Reading ==
  /\ call.step \in Judging => call.read \in Record /\ call.pin \in Pins
  /\ call.step = "reset" => call.pin = call.read.pin
  /\ call.step \in {"write", "resetAfterSet"} => call.next \in Pins
  /\ ~ overlap /\ call.step \in Judging => record # None /\ record.pin = call.read.pin
  /\ ~ overlap /\ call.step = "resetAfterSet" => record # None /\ record.pin = call.next

\* What is upgraded is what is stored.
Upgrades ==
  ~ overlap => \A p \in Pins : upgrade[p] # "none" => record # None /\ record.pin = p

\* What will be counted includes what was answered.
Counting == call.step = "count" => wrong - forgotten <= call.failed

IInv == TypeOK /\ Reading /\ Upgrades /\ Counting /\ PinIsKnown /\ AnsweredIsCounted
-----------------------------------------------------------------------------
LEMMA LockDurationType ==
  ASSUME NEW failed \in Nat
  PROVE  getPinLockDurationMs(failed) \in Nat
BY DurationAssumption DEF getPinLockDurationMs

LEMMA NoneIsNoRecord == \A r \in Record : r # None
BY PinAssumption

LEMMA CountedType ==
  ASSUME TypeOK
  PROVE  Counted \in [failed : Nat, left : Nat] /\ Counted.failed = call.failed + 1
<1>1. call.failed + 1 \in Nat BY DEF TypeOK
<1> QED BY <1>1, LockDurationType DEF Counted

LEMMA FaultType ==
  ASSUME TypeOK, Fault
  PROVE  tries' \in Nat /\ sets' \in Nat /\ faults' \in Nat /\ crashes' \in Nat
BY DEF TypeOK, Fault

LEMMA ResetType ==
  ASSUME TypeOK, Reset
  PROVE  /\ attempts' \in [failed : Nat, left : Nat]
         /\ attempts'.failed \in {0, attempts.failed}
         /\ tries' \in Nat /\ sets' \in Nat /\ faults' \in Nat /\ crashes' \in Nat
BY FaultType DEF Reset, NoAttempts, TypeOK, limits
-----------------------------------------------------------------------------
LEMMA InitEstablishes == Init => IInv
<1> SUFFICES ASSUME Init PROVE IInv OBVIOUS
<1>1. attempts \in [failed : Nat, left : Nat] BY BoundAssumption DEF Init
<1>2. known \subseteq Pins BY DEF Init, Record
<1>3. TypeOK BY <1>1, <1>2 DEF Init, TypeOK, Idle
<1>4. Reading /\ Upgrades /\ Counting
  BY DEF Init, Idle, Reading, Upgrades, Counting, Judging
<1>5. PinIsKnown BY DEF Init, PinIsKnown
<1>6. AnsweredIsCounted BY <1>1 DEF Init, AnsweredIsCounted
<1> QED BY <1>3, <1>4, <1>5, <1>6 DEF IInv

LEMMA BeginVerifyStep ==
  ASSUME IInv, NEW pin \in Pins, NEW next \in Pins \cup {None}, BeginVerify(pin, next)
  PROVE  IInv'
BY BoundAssumption
   DEF BeginVerify, IInv, TypeOK, Reading, Upgrades, Counting, PinIsKnown, AnsweredIsCounted,
       stored, history, Judging

LEMMA BeginSetStep ==
  ASSUME IInv, NEW next \in Pins, BeginSet(next)
  PROVE  IInv'
BY DEF BeginSet, IInv, TypeOK, Reading, Upgrades, Counting, PinIsKnown, AnsweredIsCounted,
       stored, history, limits, Judging, Idle

LEMMA ReadAttemptsStep == ASSUME IInv, ReadAttempts PROVE IInv'
BY DEF ReadAttempts, IInv, TypeOK, Reading, Upgrades, Counting, PinIsKnown,
       AnsweredIsCounted, stored, history, limits, Judging

\* A call that ends leaves nothing to read.
LEMMA CallEnds ==
  ASSUME IInv, NEW said \in {"none", "open", "wrong"}, End(said),
         UNCHANGED <<stored, upgrade, known, wrong, forgotten, overlap>>,
         tries' \in Nat, sets' \in Nat, faults' \in Nat, crashes' \in Nat
  PROVE  IInv'
BY DEF End, Idle, IInv, TypeOK, Reading, Upgrades, Counting, PinIsKnown, AnsweredIsCounted,
       stored, Judging

LEMMA ReadFailsStep == ASSUME IInv, ReadFails PROVE IInv'
BY CallEnds, FaultType DEF ReadFails, IInv

LEMMA TurnAwayStep == ASSUME IInv, TurnAway PROVE IInv'
BY CallEnds DEF TurnAway, IInv, TypeOK, limits

LEMMA OpenStep == ASSUME IInv, Open PROVE IInv'
<1>1. TypeOK /\ Reset BY DEF IInv, Open
<1>2. call.read \in Record /\ call.pin \in Pins /\ call.pin = call.read.pin
  BY DEF Open, IInv, Reading, Judging
<1>3. upgrade' \in [Pins -> {"none", "write", "reset"}]
      /\ \A p \in Pins : upgrade'[p] # upgrade[p] => p = call.pin
  BY <1>1, <1>2 DEF Open, TypeOK
<1>4. /\ call'.step \in {"idle", "write"} /\ call'.next \in Pins \cup {None}
      /\ call'.step = "write" => call'.next \in Pins
  BY <1>1 DEF Open, TypeOK, End, Idle, At
<1>5. TypeOK'
  BY <1>1, <1>3, ResetType DEF Open, Uncounted, TypeOK, End, Idle, At
<1>6. Reading' /\ Counting' BY <1>4 DEF Reading, Counting, Judging
<1>7. Upgrades'
  BY <1>2, <1>3 DEF Open, IInv, Upgrades, Reading, Judging
<1>8. PinIsKnown' BY DEF Open, IInv, PinIsKnown
<1>9. AnsweredIsCounted' BY <1>1, ResetType DEF Open, Uncounted, AnsweredIsCounted, TypeOK
<1> QED BY <1>5, <1>6, <1>7, <1>8, <1>9 DEF IInv

LEMMA CountStep == ASSUME IInv, Count PROVE IInv'
<1>1. TypeOK BY DEF IInv
<1>2. attempts' \in [failed : Nat, left : Nat] /\ attempts'.failed = call.failed + 1
  BY <1>1, CountedType DEF Count
<1>3. TypeOK' BY <1>1, <1>2 DEF Count, AnswerWrong, End, Idle, TypeOK, limits
<1>4. Reading' /\ Counting' BY DEF Count, AnswerWrong, End, Idle, Reading, Counting, Judging
<1>5. Upgrades' BY DEF Count, AnswerWrong, IInv, Upgrades
<1>6. PinIsKnown' BY DEF Count, AnswerWrong, IInv, PinIsKnown
<1>7. AnsweredIsCounted'
  BY <1>1, <1>2 DEF Count, AnswerWrong, IInv, Counting, AnsweredIsCounted, TypeOK
<1> QED BY <1>3, <1>4, <1>5, <1>6, <1>7 DEF IInv

LEMMA CountFailsStep == ASSUME IInv, CountFails PROVE IInv'
<1>1. TypeOK BY DEF IInv
<1>2. /\ attempts' \in [failed : Nat, left : Nat]
      /\ attempts'.failed \in {attempts.failed, call.failed + 1}
  BY <1>1, CountedType DEF CountFails, TypeOK
<1>3. TypeOK' BY <1>1, <1>2, FaultType DEF CountFails, End, Idle, TypeOK
<1>4. Reading' /\ Counting' BY DEF CountFails, End, Idle, Reading, Counting, Judging
<1>5. Upgrades' BY DEF CountFails, IInv, Upgrades
<1>6. PinIsKnown' BY DEF CountFails, IInv, PinIsKnown
<1>7. AnsweredIsCounted'
  BY <1>1, <1>2 DEF CountFails, IInv, Counting, AnsweredIsCounted, TypeOK
<1> QED BY <1>3, <1>4, <1>5, <1>6, <1>7 DEF IInv

LEMMA SetRecordStep == ASSUME IInv, SetRecord PROVE IInv'
<1>1. TypeOK /\ call.next \in Pins BY DEF IInv, SetRecord, Reading
<1>2. record' \in Record /\ record'.pin = call.next BY <1>1 DEF SetRecord, NewRecord, Record
<1>3. TypeOK' BY <1>1, <1>2 DEF SetRecord, Setting, At, TypeOK
<1>4. Reading' /\ Counting'
  <2>1. record' # None BY <1>2, NoneIsNoRecord
  <2>2. call'.step = "resetAfterSet" /\ call'.next = call.next BY <1>1 DEF SetRecord, At, TypeOK
  <2> QED BY <1>1, <1>2, <2>1, <2>2 DEF Reading, Counting, Judging
<1>5. Upgrades' BY <1>1 DEF SetRecord, Setting, Upgrading, Upgrades, TypeOK
<1>6. PinIsKnown' BY <1>1, <1>2 DEF SetRecord, Setting, PinIsKnown
<1>7. AnsweredIsCounted' BY DEF SetRecord, Setting, IInv, AnsweredIsCounted
<1> QED BY <1>3, <1>4, <1>5, <1>6, <1>7 DEF IInv

LEMMA SetFailsStep == ASSUME IInv, SetFails PROVE IInv'
<1>1. TypeOK /\ call.next \in Pins BY DEF IInv, SetFails, Reading
<1>2. record' = record \/ (record' \in Record /\ record'.pin = call.next)
  <2>1. NewRecord(call.next) \in Record /\ NewRecord(call.next).pin = call.next
    BY <1>1 DEF NewRecord, Record
  <2>2. record' = record \/ record' = NewRecord(call.next) BY DEF SetFails
  <2> QED BY <2>1, <2>2
<1>3. TypeOK' BY <1>1, <1>2, FaultType DEF SetFails, Setting, End, Idle, TypeOK
<1>4. Reading' /\ Counting' BY DEF SetFails, End, Idle, Reading, Counting, Judging
<1>5. Upgrades' BY <1>1 DEF SetFails, Setting, Upgrading, Upgrades, TypeOK
<1>6. PinIsKnown' BY <1>1, <1>2 DEF SetFails, Setting, IInv, PinIsKnown
<1>7. AnsweredIsCounted' BY DEF SetFails, Setting, IInv, AnsweredIsCounted
<1> QED BY <1>3, <1>4, <1>5, <1>6, <1>7 DEF IInv

LEMMA EndSetStep == ASSUME IInv, EndSet PROVE IInv'
<1>1. TypeOK /\ Reset /\ call.next \in Pins BY DEF IInv, EndSet, Reading
<1>2. TypeOK' BY <1>1, ResetType DEF EndSet, Uncounted, End, Idle, TypeOK
<1>3. Reading' /\ Counting' BY DEF EndSet, End, Idle, Reading, Counting, Judging
<1>4. Upgrades' BY <1>1 DEF EndSet, IInv, Upgrades
<1>5. PinIsKnown' BY DEF EndSet, IInv, Reading, PinIsKnown
<1>6. AnsweredIsCounted' BY <1>1, ResetType DEF EndSet, Uncounted, AnsweredIsCounted, TypeOK
<1> QED BY <1>2, <1>3, <1>4, <1>5, <1>6 DEF IInv

LEMMA UpgradeRecordStep ==
  ASSUME IInv, NEW p \in Pins, UpgradeRecord(p)
  PROVE  IInv'
<1>1. TypeOK BY DEF IInv
<1>2. record' \in Record /\ record'.pin = p BY DEF UpgradeRecord, NewRecord, Record
<1>3. TypeOK' BY <1>1, <1>2 DEF UpgradeRecord, TypeOK, history, limits
<1>4. ~ overlap => record # None /\ record.pin = p /\ record' # None
  BY <1>2, NoneIsNoRecord DEF UpgradeRecord, IInv, Upgrades
<1>5. Reading' /\ Counting'
  BY <1>2, <1>4 DEF UpgradeRecord, IInv, Reading, Counting, history
<1>6. Upgrades' BY <1>1, <1>2, <1>4 DEF UpgradeRecord, IInv, Upgrades, TypeOK, history
<1>7. PinIsKnown' BY <1>2, <1>4 DEF UpgradeRecord, IInv, PinIsKnown, history
<1>8. AnsweredIsCounted' BY DEF UpgradeRecord, IInv, AnsweredIsCounted, history
<1> QED BY <1>3, <1>5, <1>6, <1>7, <1>8 DEF IInv

LEMMA UpgradeFailsStep ==
  ASSUME IInv, NEW p \in Pins, UpgradeFails(p)
  PROVE  IInv'
<1>1. TypeOK BY DEF IInv
<1>2. TypeOK' BY <1>1, FaultType DEF UpgradeFails, TypeOK, stored, history
<1>3. Upgrades' BY <1>1 DEF UpgradeFails, IInv, Upgrades, TypeOK, stored, history
<1>4. Reading' /\ Counting' /\ PinIsKnown' /\ AnsweredIsCounted'
  BY DEF UpgradeFails, IInv, Reading, Counting, PinIsKnown, AnsweredIsCounted, stored, history
<1> QED BY <1>2, <1>3, <1>4 DEF IInv

LEMMA UpgradeResetsStep ==
  ASSUME IInv, NEW p \in Pins, UpgradeResets(p)
  PROVE  IInv'
<1>1. TypeOK /\ Reset BY DEF IInv, UpgradeResets, Reset
<1>2. TypeOK' BY <1>1, ResetType DEF UpgradeResets, TypeOK
<1>3. Upgrades' BY <1>1 DEF UpgradeResets, IInv, Upgrades, TypeOK
<1>4. Reading' /\ PinIsKnown' BY DEF UpgradeResets, IInv, Reading, PinIsKnown
<1>5. wrong' = wrong /\ forgotten' \in {forgotten, wrong} BY DEF UpgradeResets
<1>6. Counting' BY <1>1, <1>5 DEF UpgradeResets, IInv, Counting, TypeOK
<1>7. AnsweredIsCounted'
  BY <1>1, ResetType DEF UpgradeResets, IInv, AnsweredIsCounted, TypeOK, NoAttempts
<1> QED BY <1>2, <1>3, <1>4, <1>6, <1>7 DEF IInv

LEMMA TickStep == ASSUME IInv, Tick PROVE IInv'
<1>1. /\ attempts' \in [failed : Nat, left : Nat]
      /\ attempts'.failed = attempts.failed
  BY DEF IInv, TypeOK, Tick, Locked
<1> QED BY <1>1 DEF Tick, IInv, TypeOK, Reading, Upgrades, Counting, PinIsKnown,
                    AnsweredIsCounted, history, limits

LEMMA CrashStep == ASSUME IInv, Crash PROVE IInv'
BY BoundAssumption
   DEF Crash, End, Idle, IInv, TypeOK, Reading, Upgrades, Counting, PinIsKnown,
       AnsweredIsCounted, Judging, stored

LEMMA ReinstallStep == ASSUME IInv, Reinstall PROVE IInv'
<1>1. TypeOK /\ attempts' \in [failed : Nat, left : Nat]
  BY DEF IInv, TypeOK, Reinstall, NoAttempts
<1>2. TypeOK' BY <1>1, BoundAssumption DEF Reinstall, Uncounted, TypeOK, End, Idle
<1>3. Reading' /\ Counting' /\ Upgrades'
  BY DEF Reinstall, End, Idle, Reading, Counting, Upgrades, Judging
<1>4. PinIsKnown' BY DEF Reinstall, IInv, PinIsKnown
<1>5. AnsweredIsCounted' BY <1>1 DEF Reinstall, Uncounted, AnsweredIsCounted
<1> QED BY <1>2, <1>3, <1>4, <1>5 DEF IInv

LEMMA Inductive == IInv /\ [Next]_vars => IInv'
<1> SUFFICES ASSUME IInv, [Next]_vars PROVE IInv' OBVIOUS
<1>1. ASSUME NEW p \in Pins, Verify(p) PROVE IInv' BY <1>1, BeginVerifyStep DEF Verify
<1>2. ASSUME NEW p \in Pins, NEW q \in Pins, Change(p, q) PROVE IInv'
  BY <1>2, BeginVerifyStep DEF Change
<1>3. ASSUME NEW p \in Pins, BeginSet(p) PROVE IInv' BY <1>3, BeginSetStep
<1>4. ASSUME NEW p \in Pins, UpgradeRecord(p) \/ UpgradeFails(p) \/ UpgradeResets(p)
      PROVE  IInv'
  BY <1>4, UpgradeRecordStep, UpgradeFailsStep, UpgradeResetsStep
<1>5. CASE Step
  BY <1>5, ReadAttemptsStep, ReadFailsStep, TurnAwayStep, OpenStep, CountStep,
     CountFailsStep, SetRecordStep, SetFailsStep, EndSetStep DEF Step
<1>6. CASE Tick \/ Crash \/ Reinstall BY <1>6, TickStep, CrashStep, ReinstallStep
<1>7. CASE UNCHANGED vars
  BY <1>7 DEF vars, stored, history, limits, IInv, TypeOK, Reading, Upgrades, Counting,
              PinIsKnown, AnsweredIsCounted
<1> QED BY <1>1, <1>2, <1>3, <1>4, <1>5, <1>6, <1>7 DEF Next

\* The record, the count and the calls of the app lock keep their types.
THEOREM TypeCorrect == Spec => []TypeOK
<1>1. IInv => TypeOK BY DEF IInv
<1> QED BY <1>1, InitEstablishes, Inductive, PTL DEF Spec

\* setAppPin, changeAppPin and the upgrade in verifyAppPin never leave a PIN in the Keychain that
\* the user has not been told of or asked for, unless a PIN is set during an upgrade.
THEOREM StoredPinIsKnown == Spec => []PinIsKnown
<1>1. IInv => PinIsKnown BY DEF IInv
<1> QED BY <1>1, InitEstablishes, Inductive, PTL DEF Spec

\* verifyAppPin counts every attempt it answers as wrong, through crashes and failing storage, and
\* no step takes one back before the right PIN is entered or a new one set, save one: the reset an
\* upgrade ends with (app-security.ts:74, called from 130), which wipes out what was answered
\* while it went on.
THEOREM AnswersAreCounted == Spec => []AnsweredIsCounted
<1>1. IInv => AnsweredIsCounted BY DEF IInv
<1> QED BY <1>1, InitEstablishes, Inductive, PTL DEF Spec

\* Whatever the count, attemptsUntilNextExtendedLock says exactly when getPinLockDurationMs gives
\* the next lock that is longer than the short delay.
THEOREM LocksComeAsAnnounced == Spec => []AnnouncedLockComes
<1>1. TypeOK => AnnouncedLockComes
  <2> SUFFICES ASSUME attempts.failed \in Nat PROVE AnnouncedLockComes BY DEF TypeOK
  <2> DEFINE announced == attempts.failed + attemptsUntilNextExtendedLock(attempts.failed)
  <2>1. announced \in Nat /\ announced >= 5 /\ announced % 5 = 0
    BY DEF attemptsUntilNextExtendedLock
  <2>2. getPinLockDurationMs(announced) > ShortDelay
    BY <2>1, DurationAssumption DEF getPinLockDurationMs
  <2>3. ASSUME NEW failed \in attempts.failed + 1 .. announced - 1
        PROVE  getPinLockDurationMs(failed) = ShortDelay
    <3>1. failed \in Nat /\ failed > 0 /\ failed % 5 # 0 BY DEF attemptsUntilNextExtendedLock
    <3> QED BY <3>1 DEF getPinLockDurationMs
  <2> QED BY <2>2, <2>3 DEF AnnouncedLockComes
<1> QED BY <1>1, TypeCorrect, PTL
=============================================================================
