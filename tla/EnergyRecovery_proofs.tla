------------------------ MODULE EnergyRecovery_proofs ------------------------
(***************************************************************************)
(* Proofs about the recovery of energy payments.                           *)
(*                                                                         *)
(* A payment is marked when a sweep has reached "mark", so the invariant   *)
(* says what is known there and one step before: a sweep that marks has    *)
(* seen its payment bound or got an answer that named none, and a sweep    *)
(* whose POST has arrived will see the order bound to something.  Both stay true because a binding is      *)
(* never changed.  That answers are heeded needs more: an answered payment *)
(* is bound, so no sweep that looks afterwards goes on to POST it, and a   *)
(* sweep that looked before is the only one that can have had the answer.  *)
(***************************************************************************)
EXTENDS EnergyRecovery, TLAPS

Bound(p) == bound[OrderOf[p]]

\* What a sweep knows where it stands.
Knows(s) ==
  /\ pc[s] = "mark" => Bound(Current(s)) = Current(s) \/ Current(s) \in unnamed
  /\ pc[s] = "waiting" /\ <<s, Current(s)>> \notin requests => Bound(Current(s)) # None

\* The payments of a sweep are those of its wallet, which it has to itself.
Alone(s) ==
  /\ \A p \in rest[s] : WalletOf[p] = SweptBy[s]
  /\ \A r \in Sweep : SweptBy[r] = SweptBy[s] /\ pc[r] # "idle" /\ pc[s] # "idle" => r = s

AnsweredIsBound == \A p \in answered : Bound(p) # None

IInv == /\ TypeOK
        /\ AttachedIsBoundOrUnnamed
        /\ \A s \in Sweep : Knows(s)
        /\ \A s \in Sweep : Alone(s)
        /\ AnsweredIsBound
        /\ AnswersAreHeeded

\* A sweep that is not idle is busy with a payment of its list.
LEMMA CurrentIsListed ==
  ASSUME TypeOK, NEW s \in Sweep, pc[s] # "idle"
  PROVE  Current(s) \in rest[s] /\ Current(s) \in Payment
<1>1. rest[s] # {} /\ rest[s] \in SUBSET Payment
  BY DEF TypeOK
<1>2. \E p \in rest[s] : \A q \in rest[s] : q <= p
  BY <1>1, NewestAssumption
<1> QED
  BY <1>1, <1>2 DEF Current, Newest

\* What Continue does to one sweep, and leaves alone.
LEMMA ContinueKeepsTypes ==
  ASSUME TypeOK, NEW s \in Sweep, pc[s] # "idle", Continue(s)
  PROVE  /\ pc' \in [Sweep -> {"idle", "get", "attach", "waiting", "mark"}]
         /\ rest' \in [Sweep -> SUBSET Payment]
         /\ \A r \in Sweep : pc'[r] # "idle" => rest'[r] # {}
         /\ pc'[s] \in {"idle", "get"}
         /\ rest'[s] \subseteq rest[s]
         /\ \A r \in Sweep \ {s} : pc'[r] = pc[r] /\ rest'[r] = rest[r]
BY DEF TypeOK, Continue

LEMMA GotoKeepsTypes ==
  ASSUME TypeOK, NEW s \in Sweep, pc[s] # "idle",
         NEW label \in {"attach", "waiting", "mark"}, Goto(s, label)
  PROVE  /\ pc' \in [Sweep -> {"idle", "get", "attach", "waiting", "mark"}]
         /\ rest' = rest
         /\ \A r \in Sweep : pc'[r] # "idle" => rest'[r] # {}
         /\ pc'[s] = label
         /\ \A r \in Sweep \ {s} : pc'[r] = pc[r]
BY DEF TypeOK, Goto

\* Bindings do not change.
LEMMA BindingsStay ==
  ASSUME TypeOK, [Next]_vars
  PROVE  \A o \in Order : bound[o] # None => bound'[o] = bound[o]
<1>1. CASE \E r \in Sweep \X Payment : Arrive(r)
  <2> PICK r \in Sweep \X Payment : Arrive(r)
    BY <1>1
  <2> OrderOf[r[2]] \in Order
    BY PaymentAssumption
  <2> QED
    BY DEF Arrive, TypeOK
<1>2. CASE bound' = bound
  BY <1>2
<1> QED
  BY <1>1, <1>2 DEF Next, Step, vars, Start, Get, Attach, Answer, AnswerUnnamed, Lose, Mark, Confirm,
                    Finalize, Crash

LEMMA UnnamedStay == [Next]_vars => unnamed \subseteq unnamed'
BY DEF Next, Step, vars, Start, Get, Attach, Answer, AnswerUnnamed, Lose, Mark, Confirm, Arrive,
       Finalize, Crash

LEMMA InitEstablishes == Init => IInv
<1> SUFFICES ASSUME Init PROVE IInv
  OBVIOUS
<1>1. TypeOK
  <2>1. confirmed \subseteq Payment /\ bound \in [Order -> Payment \cup {None}]
    BY DEF Init
  <2>2. final \subseteq Order
    BY DEF Init
  <2>3. faults \in 0 .. MaxFaults /\ crashes \in 0 .. MaxCrashes
    BY BoundAssumption DEF Init
  <2> QED
    BY <2>1, <2>2, <2>3 DEF Init, TypeOK
<1> QED
  BY <1>1 DEF Init, IInv, AttachedIsBoundOrUnnamed, Knows, Alone, AnsweredIsBound,
                           AnswersAreHeeded

\* Every step keeps the types.
LEMMA TypesStay == ASSUME TypeOK, [Next]_vars PROVE TypeOK'
<1>1. ASSUME NEW s \in Sweep, Start(s) PROVE TypeOK'
  BY <1>1 DEF Start, Unattached, TypeOK, limits
<1>2. ASSUME NEW s \in Sweep, Step(s) PROVE TypeOK'
  <2>1. pc[s] # "idle"
    BY <1>2 DEF Step, Get, Attach, Answer, AnswerUnnamed, Lose, Mark
  <2>2. Current(s) \in Payment
    BY <2>1, CurrentIsListed
  <2>3. /\ Continue(s) \/ (\E label \in {"attach", "waiting", "mark"} : Goto(s, label))
        /\ confirmed' = confirmed /\ bound' = bound /\ final' = final
        /\ attached' \in {attached, attached \cup {Current(s)}}
        /\ answered' \in {answered, answered \cup {Current(s)}}
        /\ unnamed' \in {unnamed, unnamed \cup {Current(s)}}
        /\ requests' \in {requests, requests \cup {<<s, Current(s)>>},
                          requests \ {<<s, Current(s)>>}}
        /\ limits' = limits \/ Fault
    BY <1>2 DEF Step, Get, Attach, Answer, AnswerUnnamed, Lose, Mark, limits
  <2>4. /\ pc' \in [Sweep -> {"idle", "get", "attach", "waiting", "mark"}]
        /\ rest' \in [Sweep -> SUBSET Payment]
        /\ \A r \in Sweep : pc'[r] # "idle" => rest'[r] # {}
    <3>1. CASE Continue(s)
      BY <2>1, <3>1, ContinueKeepsTypes
    <3>2. ASSUME NEW label \in {"attach", "waiting", "mark"}, Goto(s, label)
          PROVE  /\ pc' \in [Sweep -> {"idle", "get", "attach", "waiting", "mark"}]
                 /\ rest' \in [Sweep -> SUBSET Payment]
                 /\ \A r \in Sweep : pc'[r] # "idle" => rest'[r] # {}
      BY <2>1, <3>2, GotoKeepsTypes DEF TypeOK
    <3> QED
      BY <2>3, <3>1, <3>2
  <2>5. faults' \in 0 .. MaxFaults /\ crashes' \in 0 .. MaxCrashes
    BY <2>3, BoundAssumption DEF TypeOK, Fault, limits
  <2> QED
    BY <2>2, <2>3, <2>4, <2>5 DEF TypeOK
<1>3. ASSUME NEW p \in Payment, Confirm(p) PROVE TypeOK'
  BY <1>3 DEF Confirm, TypeOK, limits
<1>4. ASSUME NEW r \in Sweep \X Payment, Arrive(r) PROVE TypeOK'
  <2>1. r[2] \in Payment /\ OrderOf[r[2]] \in Order
    BY PaymentAssumption
  <2> QED
    BY <1>4, <2>1 DEF Arrive, TypeOK, limits
<1>5. ASSUME NEW o \in Order, Finalize(o) PROVE TypeOK'
  BY <1>5 DEF Finalize, TypeOK, limits
<1>6. CASE Crash
  BY <1>6, BoundAssumption DEF Crash, TypeOK
<1>7. CASE UNCHANGED vars
  BY <1>7 DEF vars, limits, TypeOK
<1> QED
  BY <1>1, <1>2, <1>3, <1>4, <1>5, <1>6, <1>7 DEF Next

\* A step of one sweep goes on to the next payment or on with the same one,
\* and does not touch the others.
LEMMA StepFrame ==
  ASSUME TypeOK, NEW s \in Sweep, Step(s)
  PROVE  /\ pc[s] # "idle"
         /\ rest'[s] \subseteq rest[s]
         /\ \A r \in Sweep \ {s} :
              /\ pc'[r] = pc[r] /\ rest'[r] = rest[r]
              /\ \A p : <<r, p>> \in requests' <=> <<r, p>> \in requests
<1>1. /\ pc[s] # "idle"
      /\ Continue(s) \/ (\E label \in {"attach", "waiting", "mark"} : Goto(s, label))
      /\ requests' \in {requests, requests \cup {<<s, Current(s)>>},
                        requests \ {<<s, Current(s)>>}}
  BY DEF Step, Get, Attach, Answer, AnswerUnnamed, Lose, Mark
<1>2. /\ rest'[s] \subseteq rest[s]
      /\ \A r \in Sweep \ {s} : pc'[r] = pc[r] /\ rest'[r] = rest[r]
  BY <1>1, ContinueKeepsTypes, GotoKeepsTypes
<1> QED
  BY <1>1, <1>2

LEMMA AttachedStayBound == ASSUME IInv, [Next]_vars PROVE AttachedIsBoundOrUnnamed'
<1> USE DEF IInv
<1>1. \A p \in attached : p \in Payment /\ (Bound(p) = p \/ p \in unnamed)
  BY DEF AttachedIsBoundOrUnnamed, Bound, TypeOK
<1>2. \A p \in attached' \ attached : p \in Payment /\ (Bound(p) = p \/ p \in unnamed)
  <2> SUFFICES ASSUME NEW p \in attached', p \notin attached
               PROVE  p \in Payment /\ (Bound(p) = p \/ p \in unnamed)
    OBVIOUS
  <2>1. PICK s \in Sweep : Mark(s) /\ p = Current(s)
    BY DEF Next, Step, vars, Start, Get, Attach, Answer, AnswerUnnamed, Lose, Mark, Confirm, Arrive,
           Finalize, Crash
  <2> QED
    BY <2>1, CurrentIsListed DEF Mark, Knows
<1>3. \A p \in Payment : p # None /\ OrderOf[p] \in Order
  BY PaymentAssumption
<1> QED
  BY <1>1, <1>2, <1>3, BindingsStay, UnnamedStay DEF AttachedIsBoundOrUnnamed, Bound

\* Where s goes on with its payment, what it knows there follows from what it
\* sees; everywhere else it keeps what it knew.
LEMMA KnowledgeStays ==
  ASSUME IInv, [Next]_vars, NEW s \in Sweep PROVE Knows(s)'
<1> USE DEF IInv
<1>1. \A p \in Payment : Bound(p) # None => Bound(p)' = Bound(p)
  BY BindingsStay, PaymentAssumption DEF Bound
<1>2. \A p \in Payment : p # None
  BY PaymentAssumption
<1>3. pc[s] # "idle" => Current(s) \in Payment
  BY CurrentIsListed
<1>4. rest'[s] = rest[s] => Current(s)' = Current(s)
  BY DEF Current
<1>5. CASE Step(s)
  <2>1. CASE Continue(s)
    BY <1>5, <2>1, StepFrame, ContinueKeepsTypes DEF Knows
  <2>2. CASE Goto(s, "attach")
    BY <1>5, <2>2, StepFrame, GotoKeepsTypes DEF Knows
  <2>3. CASE Get(s) /\ Goto(s, "mark")
    <3>1. pc[s] = "get" /\ rest' = rest /\ pc'[s] = "mark" /\ bound' = bound
      BY <2>3, GotoKeepsTypes DEF Get
    <3>2. Bound(Current(s)) = Current(s)
      BY <2>3, <3>1 DEF Get, Goto, Bound, Continue, TypeOK
    <3> QED
      BY <1>4, <3>1, <3>2 DEF Knows, Bound
  <2>4. CASE Attach(s)
    <3>1. pc[s] = "attach" /\ rest' = rest /\ pc'[s] = "waiting"
      BY <2>4, GotoKeepsTypes DEF Attach
    <3>2. <<s, Current(s)>> \in requests'
      BY <2>4 DEF Attach
    <3> QED
      BY <1>4, <3>1, <3>2 DEF Knows
  <2>5. CASE Answer(s) /\ Goto(s, "mark")
    <3>1. pc[s] = "waiting" /\ rest' = rest /\ pc'[s] = "mark" /\ bound' = bound
      BY <2>5, GotoKeepsTypes DEF Answer
    <3>2. Bound(Current(s)) = Current(s)
      BY <2>5, <3>1, <1>3 DEF Answer, Goto, Bound, Continue, TypeOK, Knows
    <3> QED
      BY <1>4, <3>1, <3>2 DEF Knows, Bound
  <2>6. CASE AnswerUnnamed(s)
    <3>1. /\ pc[s] = "waiting" /\ rest' = rest /\ pc'[s] = "mark"
          /\ unnamed' = unnamed \cup {Current(s)}
      BY <2>6, GotoKeepsTypes DEF AnswerUnnamed
    <3> QED
      BY <1>4, <3>1 DEF Knows
  <2> QED
    BY <1>5, <2>1, <2>2, <2>3, <2>4, <2>5, <2>6 DEF Step, Get, Attach, Answer, AnswerUnnamed, Lose, Mark
<1>6. CASE pc'[s] = "idle" \/ pc'[s] = "get"
  BY <1>6 DEF Knows
<1>0. unnamed \subseteq unnamed'
  BY UnnamedStay
<1>7. CASE /\ pc'[s] = pc[s] /\ rest'[s] = rest[s]
           /\ \A p \in Payment : <<s, p>> \in requests /\ <<s, p>> \notin requests'
                                   => Bound(p)' # None
           /\ \A p \in Payment : <<s, p>> \notin requests' => <<s, p>> \notin requests \/ Bound(p)' # None
  BY <1>0, <1>1, <1>2, <1>3, <1>4, <1>7 DEF Knows, Bound
<1>8. ASSUME NEW r \in Sweep, r # s, Step(r) PROVE Knows(s)'
  BY <1>7, <1>8, StepFrame
<1>9. ASSUME NEW r \in Sweep, Start(r) PROVE Knows(s)'
  BY <1>6, <1>7, <1>9 DEF Start, TypeOK
<1>10. ASSUME NEW r \in Sweep \X Payment, Arrive(r) PROVE Knows(s)'
  <2>1. OrderOf[r[2]] \in Order /\ r[2] # None
    BY PaymentAssumption
  <2>2. \A p \in Payment : <<s, p>> \in requests /\ <<s, p>> \notin requests' => Bound(p)' # None
    BY <1>10, <2>1 DEF Arrive, Bound, TypeOK
  <2> QED
    BY <1>7, <1>10, <2>2 DEF Arrive
<1> QED
  BY <1>5, <1>6, <1>7, <1>8, <1>9, <1>10
     DEF Next, vars, Confirm, Finalize, Crash, limits

\* Sweeps of a wallet start only when none is under way.
LEMMA AloneStays == ASSUME IInv, [Next]_vars, NEW s \in Sweep PROVE Alone(s)'
<1> USE DEF IInv
<1>1. ASSUME NEW r \in Sweep, Start(r) PROVE Alone(s)'
  BY <1>1 DEF Start, Unattached, Alone, TypeOK
<1>2. ASSUME NEW r \in Sweep, Step(r) PROVE Alone(s)'
  BY <1>2, StepFrame DEF Alone
<1>3. CASE Crash
  BY <1>3 DEF Crash, Alone
<1>4. CASE UNCHANGED <<pc, rest>>
  BY <1>4 DEF Alone
<1> QED
  BY <1>1, <1>2, <1>3, <1>4 DEF Next, vars, Confirm, Arrive, Finalize

\* An answer arrives after the request.
LEMMA AnsweredStayBound == ASSUME IInv, [Next]_vars PROVE AnsweredIsBound'
<1> USE DEF IInv
<1>1. \A p \in answered : p \in Payment /\ Bound(p) # None
  BY DEF AnsweredIsBound, TypeOK
<1>2. \A p \in answered' \ answered : p \in Payment /\ Bound(p) # None
  <2> SUFFICES ASSUME NEW p \in answered', p \notin answered
               PROVE  p \in Payment /\ Bound(p) # None
    OBVIOUS
  <2>1. PICK s \in Sweep : Answer(s) /\ p = Current(s)
    BY DEF Next, Step, vars, Start, Get, Attach, Answer, AnswerUnnamed, Lose, Mark, Confirm, Arrive,
           Finalize, Crash
  <2> QED
    BY <2>1, CurrentIsListed DEF Answer, Knows
<1> QED
  BY <1>1, <1>2, BindingsStay, PaymentAssumption DEF AnsweredIsBound, Bound

\* A payment about to be POSTed was unbound when it was looked at, so it had
\* not been answered; since then only this sweep could have been.
LEMMA AnswersStayHeeded == ASSUME IInv, [Next]_vars PROVE AnswersAreHeeded'
<1> USE DEF IInv
<1> SUFFICES ASSUME NEW s \in Sweep, pc'[s] = "attach"
             PROVE  Current(s)' \notin answered'
  BY DEF AnswersAreHeeded
<1>1. CASE pc[s] = "attach" /\ rest'[s] = rest[s]
  <2>1. Current(s)' = Current(s) /\ Current(s) \in rest[s] /\ Current(s) \notin answered
    BY <1>1, CurrentIsListed DEF Current, AnswersAreHeeded
  <2>2. ASSUME NEW r \in Sweep, Answer(r) PROVE Current(r) # Current(s)
    <3>1. r # s /\ pc[r] # "idle"
      BY <1>1, <2>2 DEF Answer
    <3>2. Current(r) \in rest[r]
      BY <3>1, CurrentIsListed
    <3> QED
      BY <1>1, <2>1, <3>1, <3>2 DEF Alone
  <2>3. \A p \in answered' \ answered : \E r \in Sweep : Answer(r) /\ p = Current(r)
    BY DEF Next, Step, vars, Start, Get, Attach, Answer, AnswerUnnamed, Lose, Mark, Confirm, Arrive,
           Finalize, Crash
  <2> QED
    BY <2>1, <2>2, <2>3
<1>2. CASE Get(s) /\ Goto(s, "attach")
  <2>1. pc[s] = "get" /\ Current(s)' = Current(s) /\ answered' = answered
    BY <1>2 DEF Get, Goto, Current
  <2>2. Bound(Current(s)) = None
    BY <1>2, <2>1 DEF Get, Goto, Continue, Bound, TypeOK
  <2> QED
    BY <2>1, <2>2 DEF AnsweredIsBound
<1>3. ASSUME Step(s) PROVE Get(s) /\ Goto(s, "attach")
  <2>1. pc[s] # "idle"
    BY <1>3, StepFrame
  <2>2. ~Continue(s) /\ ~Goto(s, "waiting") /\ ~Goto(s, "mark")
    BY <2>1, ContinueKeepsTypes, GotoKeepsTypes
  <2> QED
    BY <1>3, <2>2 DEF Step, Get, Attach, Answer, AnswerUnnamed, Lose, Mark
<1>4. ASSUME NEW r \in Sweep, Start(r) PROVE pc[s] = "attach" /\ rest'[s] = rest[s]
  BY <1>4 DEF Start, TypeOK
<1>5. ASSUME NEW r \in Sweep, r # s, Step(r) PROVE pc[s] = "attach" /\ rest'[s] = rest[s]
  BY <1>5, StepFrame
<1> QED
  BY <1>1, <1>2, <1>3, <1>4, <1>5 DEF Next, vars, Confirm, Arrive, Finalize, Crash

LEMMA Invariance == Spec => []IInv
<1>1. IInv /\ [Next]_vars => IInv'
  BY TypesStay, AttachedStayBound, KnowledgeStays, AloneStays, AnsweredStayBound,
     AnswersStayHeeded DEF IInv
<1> QED
  BY <1>1, InitEstablishes, PTL DEF Spec

\* The state always has the shape the code gives it.
THEOREM TypeCorrect == Spec => []TypeOK
<1>1. IInv => TypeOK
  BY DEF IInv
<1> QED
  BY <1>1, Invariance, PTL

\* A record is marked only when the backend holds the payment or has answered its POST without
\* naming any, however many wallets, orders and sweeps there are and whatever is lost or dies.
THEOREM MarkedPaymentsAreBoundOrUnnamed == Spec => []AttachedIsBoundOrUnnamed
<1>1. IInv => AttachedIsBoundOrUnnamed
  BY DEF IInv
<1> QED
  BY <1>1, Invariance, PTL

\* No POST is repeated once it has been answered.
THEOREM NoAnsweredPostIsRepeated == Spec => []AnswersAreHeeded
<1>1. IInv => AnswersAreHeeded
  BY DEF IInv
<1> QED
  BY <1>1, Invariance, PTL
=============================================================================
