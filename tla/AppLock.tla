------------------------------- MODULE AppLock -------------------------------
(***************************************************************************)
(* The app lock (src/security/app-security.ts).  The Keychain holds a      *)
(* record of the PIN and one of the failed attempts, with the time until   *)
(* which no other attempt is judged.                                       *)
(*                                                                         *)
(* The screens make one call at a time.  What nobody awaits is the upgrade *)
(* of a record derived with more iterations: it goes on beside the calls   *)
(* that follow, and writes its record whenever it is ready.  Every storage *)
(* call may throw, the process may die between any two.                    *)
(*                                                                         *)
(* Time is counted in ticks, lockedUntil kept as the ticks that are left.  *)
(***************************************************************************)
EXTENDS Integers

CONSTANTS Pins,         \* what may be entered as a PIN
          Legacy,       \* PINs of LEGACY_APP_PIN_LENGTH
          None,         \* null
          ShortDelay, FiveLock, TenLock, FifteenLock, LongLock,   \* durations
          Earlier,      \* counts of failed attempts the app may start with
          MaxWrong,     \* bound: wrong attempts
          MaxSets,      \* bound: times a PIN is set by the user
          MaxFaults,    \* bound: storage calls that throw
          MaxCrashes    \* bound: deaths of the process

\* What setAppPin stores: the PIN, and whether fewer iterations than ITERATIONS were spent on it.
Record == [pin : Pins, outdated : BOOLEAN]

ASSUME PinAssumption == Legacy \subseteq Pins /\ None \notin Pins \cup Record
ASSUME DurationAssumption ==
         /\ ShortDelay \in Nat
         /\ \A lock \in {FiveLock, TenLock, FifteenLock, LongLock} :
              lock \in Nat /\ lock > ShortDelay
ASSUME BoundAssumption ==
         /\ Earlier \subseteq Nat
         /\ MaxWrong \in Nat /\ MaxSets \in Nat /\ MaxFaults \in Nat /\ MaxCrashes \in Nat

(***************************************************************************)
(* How long to wait after a number of failed attempts, and how many the    *)
(* user is told are left before the wait is a long one.                    *)
(***************************************************************************)
\* Mutant: the long locks begin after the twentieth attempt.
LockAfterTwenty(failed) ==
  CASE failed <= 0 -> 0
    [] failed = 5 -> FiveLock
    [] failed = 10 -> TenLock
    [] failed = 15 -> FifteenLock
    [] failed > 20 /\ failed % 5 = 0 -> LongLock
    [] OTHER -> ShortDelay

getPinLockDurationMs(failed) ==
  CASE failed <= 0 -> 0
    [] failed = 5 -> FiveLock
    [] failed = 10 -> TenLock
    [] failed = 15 -> FifteenLock
    [] failed >= 20 /\ failed % 5 = 0 -> LongLock
    [] OTHER -> ShortDelay

attemptsUntilNextExtendedLock(failed) == IF failed % 5 = 0 THEN 5 ELSE 5 - (failed % 5)

VARIABLES
  record,    \* PIN_KEY: None, or a Record
  attempts,  \* ATTEMPTS_KEY: failed, and the ticks until lockedUntil
  call,      \* the call that runs: what it does next, and its variables
  upgrade,   \* for each PIN, where the upgrade of its record stands
  answer,    \* what the last call answered: "open", "wrong" or "none"
  known,     \* history: the PINs of which the user may think that one is set
  wrong,     \* history: attempts answered as wrong since the count was reset
  forgotten, \* history: how many of them an upgrade wiped out with the reset it ends with
  overlap,   \* history: an upgrade was under way when a PIN was set
  tries, sets, faults, crashes

stored == <<record, attempts>>
limits == <<tries, sets, faults, crashes>>
history == <<answer, known, wrong, forgotten, overlap>>
vars == <<stored, call, upgrade, history, limits>>

NoAttempts == [failed |-> 0, left |-> 0]

Idle == [step |-> "idle", pin |-> None, next |-> None, read |-> None, failed |-> 0]

\* A user who has no PIN, or one set with this or an earlier build and perhaps mistaken before.
Init == /\ record \in {None} \cup Record
        /\ attempts \in [failed : Earlier, left : {0}]
        /\ call = Idle
        /\ upgrade = [p \in Pins |-> "none"]
        /\ answer = "none" /\ wrong = attempts.failed /\ forgotten = 0 /\ overlap = FALSE
        /\ known = IF record = None THEN {} ELSE {record.pin}
        /\ tries = 0 /\ sets = 0 /\ faults = 0 /\ crashes = 0

Locked == attempts.left > 0
Upgrading == \E p \in Pins : upgrade[p] # "none"

At(step) == [call EXCEPT !.step = step]

(***************************************************************************)
(* The steps of a call, from one await to the next.                        *)
(***************************************************************************)
\* A storage call throws.
Fault == /\ faults < MaxFaults
         /\ faults' = faults + 1
         /\ UNCHANGED <<tries, sets, crashes>>

End(said) == call' = Idle /\ answer' = said

\* verifyAppPin, and changeAppPin when there is a next PIN.
BeginVerify(pin, next) ==
  /\ call.step = "idle" /\ record # None
  /\ tries' = IF pin = record.pin THEN tries ELSE tries + 1
  /\ tries' <= MaxWrong
  /\ call' = [step |-> "readAttempts", pin |-> pin, next |-> next, read |-> record, failed |-> 0]
  /\ UNCHANGED <<stored, upgrade, history, sets, faults, crashes>>

Verify(pin) == BeginVerify(pin, None)

isValidPin(pin) == pin \notin Legacy

\* Whether the next PIN is one that may be set is asked when the present one has been verified.
Change(pin, next) == sets < MaxSets /\ BeginVerify(pin, next)

SameLength(p, q) == p \in Legacy <=> q \in Legacy

\* The attempt is judged.
ReadAttempts ==
  /\ call.step = "readAttempts"
  /\ ~ Locked /\ SameLength(call.pin, call.read.pin)
  /\ call' = [call EXCEPT !.failed = attempts.failed,
                          !.step = IF call.pin = call.read.pin THEN "reset" ELSE "count"]
  /\ UNCHANGED <<stored, upgrade, history, limits>>

ReadFails == /\ call.step = "readAttempts"
             /\ Fault
             /\ End("none")
             /\ UNCHANGED <<stored, upgrade, known, wrong, forgotten, overlap>>

\* Mutant: an attempt during the lock starts it again.
TurnAwayAgain ==
  /\ call.step = "readAttempts"
  /\ Locked \/ ~ SameLength(call.pin, call.read.pin)
  /\ End("none")
  /\ attempts' = [attempts EXCEPT !.left = getPinLockDurationMs(attempts.failed)]
  /\ UNCHANGED <<record, upgrade, known, wrong, forgotten, overlap, limits>>

\* It is not, and not counted.
TurnAway ==
  /\ call.step = "readAttempts"
  /\ Locked \/ ~ SameLength(call.pin, call.read.pin)
  /\ End("none")
  /\ UNCHANGED <<stored, upgrade, known, wrong, forgotten, overlap, limits>>

\* resetAppPinAttempts, whose errors are swallowed.
Reset == \/ attempts' = NoAttempts /\ UNCHANGED limits
         \/ Fault /\ UNCHANGED attempts

Uncounted == wrong' = 0 /\ forgotten' = 0

\* The right PIN; an outdated record of the present length is upgraded meanwhile.  What changeAppPin
\* is to set goes through setAppPin, which throws when it is no valid PIN.
Open ==
  /\ call.step = "reset"
  /\ Reset
  /\ Uncounted
  /\ upgrade' = IF call.read.outdated /\ call.pin \notin Legacy
                  THEN [upgrade EXCEPT ![call.pin] = "write"] ELSE upgrade
  /\ \/ call.next = None /\ End("open")
     \/ call.next # None /\ ~ isValidPin(call.next) /\ End("none")
     \/ call.next # None /\ isValidPin(call.next) /\ call' = At("write") /\ UNCHANGED answer
  /\ UNCHANGED <<record, known, overlap>>

Counted == [failed |-> call.failed + 1, left |-> getPinLockDurationMs(call.failed + 1)]

AnswerWrong == End("wrong") /\ wrong' = wrong + 1

\* Mutant: the count is written after the answer.
CountLater ==
  /\ call.step = "count"
  /\ attempts' \in {attempts, Counted}
  /\ AnswerWrong
  /\ UNCHANGED <<record, upgrade, known, forgotten, overlap, limits>>

\* The wrong PIN.
Count ==
  /\ call.step = "count"
  /\ attempts' = Counted
  /\ AnswerWrong
  /\ UNCHANGED <<record, upgrade, known, forgotten, overlap, limits>>

\* The write throws, done or not, and with it the call.
CountFails ==
  /\ call.step = "count"
  /\ Fault
  /\ attempts' \in {attempts, Counted}
  /\ End("none")
  /\ UNCHANGED <<record, upgrade, known, wrong, forgotten, overlap>>

\* setAppPin on its own: there is no PIN yet, or one of the old length was verified.  No call
\* is made of one that throws at once, having changed nothing.
BeginSet(next) ==
  /\ call.step = "idle" /\ sets < MaxSets /\ isValidPin(next)
  /\ record # None => record.pin \in Legacy /\ answer = "open"
  /\ call' = [Idle EXCEPT !.step = "write", !.next = next]
  /\ UNCHANGED <<stored, upgrade, history, limits>>

NewRecord(pin) == [pin |-> pin, outdated |-> FALSE]

\* The user may take the PIN to be set, and takes no other to be when told so.
Setting == /\ known' = known \cup {call.next}
           /\ overlap' = (overlap \/ Upgrading)
           /\ UNCHANGED <<attempts, upgrade, wrong, forgotten>>

SetRecord ==
  /\ call.step = "write"
  /\ record' = NewRecord(call.next)
  /\ sets' = sets + 1
  /\ call' = At("resetAfterSet")
  /\ Setting
  /\ UNCHANGED <<answer, tries, faults, crashes>>

\* Mutant: a PIN that could not be written is reported as set.
SetFailsSilently ==
  /\ call.step = "write"
  /\ Fault
  /\ record' \in {record, NewRecord(call.next)}
  /\ End("none")
  /\ known' = {call.next}
  /\ overlap' = (overlap \/ Upgrading)
  /\ UNCHANGED <<attempts, upgrade, wrong, forgotten>>

SetFails ==
  /\ call.step = "write"
  /\ Fault
  /\ record' \in {record, NewRecord(call.next)}
  /\ End("none")
  /\ Setting

EndSet ==
  /\ call.step = "resetAfterSet"
  /\ Reset
  /\ known' = {call.next}
  /\ Uncounted
  /\ End("none")
  /\ UNCHANGED <<record, upgrade, overlap>>

(***************************************************************************)
(* setAppPin(pin).catch(...): the upgrades of one PIN are taken together.  *)
(***************************************************************************)
UpgradeRecord(p) ==
  /\ upgrade[p] = "write"
  /\ record' = NewRecord(p)
  /\ upgrade' = [upgrade EXCEPT ![p] = "reset"]
  /\ UNCHANGED <<attempts, call, history, limits>>

UpgradeFails(p) ==
  /\ upgrade[p] = "write"
  /\ Fault
  /\ upgrade' = [upgrade EXCEPT ![p] = "none"]
  /\ UNCHANGED <<stored, call, history>>

UpgradeResets(p) ==
  /\ upgrade[p] = "reset"
  /\ \/ attempts' = NoAttempts /\ forgotten' = wrong /\ UNCHANGED limits
     \/ Fault /\ UNCHANGED <<attempts, forgotten>>
  /\ upgrade' = [upgrade EXCEPT ![p] = "none"]
  /\ UNCHANGED <<record, call, answer, known, wrong, overlap>>

(***************************************************************************)
(* Time, and what happens to the process.                                  *)
(***************************************************************************)
Tick == /\ Locked
        /\ attempts' = [attempts EXCEPT !.left = @ - 1]
        /\ UNCHANGED <<record, call, upgrade, history, limits>>

Crash == /\ crashes < MaxCrashes
         /\ crashes' = crashes + 1
         /\ End("none")
         /\ upgrade' = [p \in Pins |-> "none"]
         /\ UNCHANGED <<stored, known, wrong, forgotten, overlap, tries, sets, faults>>

\* clearAppSecurityStorage, when the app was installed anew: each deletion may fail.
Reinstall ==
  /\ crashes < MaxCrashes
  /\ crashes' = crashes + 1
  /\ End("none")
  /\ upgrade' = [p \in Pins |-> "none"]
  /\ record' \in {None, record}
  /\ attempts' \in {NoAttempts, attempts}
  /\ known' = IF record' = None THEN {} ELSE known
  /\ Uncounted
  /\ UNCHANGED <<overlap, tries, sets, faults>>

Step == \/ ReadAttempts \/ ReadFails \/ TurnAway \/ Open \/ Count \/ CountFails
        \/ SetRecord \/ SetFails \/ EndSet

Next == \/ \E p \in Pins : \/ Verify(p) \/ (\E q \in Pins : Change(p, q)) \/ BeginSet(p)
                           \/ UpgradeRecord(p) \/ UpgradeFails(p) \/ UpgradeResets(p)
        \/ Step \/ Tick \/ Crash \/ Reinstall

Spec == Init /\ [][Next]_vars

\* A call that is answered ends, time passes, and the user tries again and again
\* what the PIN may be.
Fairness == /\ WF_vars(Step)
            /\ WF_vars(Tick)
            /\ \A p \in Pins : SF_vars(p \in known /\ Verify(p))

FairSpec == Spec /\ Fairness

(***************************************************************************)
(* Properties                                                              *)
(***************************************************************************)
\* Every variable has its type.
TypeOK ==
  /\ record \in Record \cup {None}
  /\ attempts \in [failed : Nat, left : Nat]
  /\ call \in [step : {"idle", "readAttempts", "reset", "count", "write", "resetAfterSet"},
               pin : Pins \cup {None}, next : Pins \cup {None}, read : Record \cup {None},
               failed : Nat]
  /\ upgrade \in [Pins -> {"none", "write", "reset"}]
  /\ answer \in {"none", "open", "wrong"}
  /\ known \subseteq Pins
  /\ wrong \in Nat /\ forgotten \in Nat /\ overlap \in BOOLEAN
  /\ tries \in Nat /\ sets \in Nat /\ faults \in Nat /\ crashes \in Nat

\* The PIN that is stored is one the user knows of: the one he was last told is set, or one he
\* asked to set without getting an answer.  Only an upgrade that goes on while another PIN is set
\* can put an old one back (app-security.ts:130).
PinIsKnown == record # None /\ ~ overlap => record.pin \in known

\* Every wrong attempt that was answered is in the stored count until the right PIN is entered, a
\* new one is set or the app is installed anew, through crashes and failing storage
\* (app-security.ts:143-145).  What an upgrade wipes out with the resetAppPinAttempts it ends with
\* (app-security.ts:74, called from 130) is lost: the attempts answered while it went on, no others.
AnsweredIsCounted == wrong - forgotten <= attempts.failed

\* A user told how many attempts are left before a long lock has just so many with short delays.
AnnouncedLockComes ==
  LET announced == attempts.failed + attemptsUntilNextExtendedLock(attempts.failed) IN
  /\ getPinLockDurationMs(announced) > ShortDelay
  /\ \A failed \in attempts.failed + 1 .. announced - 1 :
       getPinLockDurationMs(failed) = ShortDelay

\* Who keeps trying the PIN he knows gets in: every lock ends, and trying during one does not
\* renew it (app-security.ts:98-105).
RightPinOpens == record # None ~> answer = "open" \/ record = None \/ overlap
=============================================================================
