--------------------------- MODULE EnergyRecovery ---------------------------
(***************************************************************************)
(* Energy payments and their orders                                        *)
(* (integrations/mobile-bsc/energy-payment-recovery.ts).  A confirmed      *)
(* payment names the order it pays; sweeps over the payments of a wallet   *)
(* tell the backend which transaction paid, and remember in the record     *)
(* when it need not be told any more.                                      *)
(*                                                                         *)
(* The backend is modelled by what the code relies on: GET answers with    *)
(* the order as it is, POST binds an order to the first transaction it     *)
(* hears of, a bound order becomes final.  Requests may be lost, or arrive *)
(* after the caller has given up or died, and a POST may be answered with  *)
(* an order that names no payment yet.                                     *)
(***************************************************************************)
EXTENDS Naturals

CONSTANTS Payment,     \* hashes of energy payments, numbered by createdAt
          Order,       \* energy orders
          Wallet,      \* wallet ids
          OrderOf,     \* OrderOf[p]: energyOrderId
          WalletOf,    \* WalletOf[p]: walletId
          Sweep,       \* callers of reconcileStoredBscEnergyPayments
          SweptBy,     \* SweptBy[s]: the wallet s asks for
          None,        \* null
          MaxFaults,   \* bound: requests and storage calls that throw, POSTs answered without a hash
          MaxCrashes   \* bound: deaths of the process

ASSUME PaymentAssumption == /\ Payment \subseteq Nat
                            /\ OrderOf \in [Payment -> Order]
                            /\ WalletOf \in [Payment -> Wallet]
                            /\ None \notin Payment
ASSUME NewestAssumption ==
         \A list \in SUBSET Payment : list # {} => \E p \in list : \A q \in list : q <= p
ASSUME SweepAssumption == SweptBy \in [Sweep -> Wallet]
ASSUME BoundAssumption == MaxFaults \in Nat /\ MaxCrashes \in Nat

VARIABLES
  confirmed,  \* payments whose record is confirmed
  attached,   \* payments whose record has energyPaymentAttachedAt
  bound,      \* backend: paymentTxHash of each order
  final,      \* backend: orders that have left PAYMENT_PENDING with a payment
  pc,         \* where each sweep stands
  rest,       \* the payments it has not finished with
  requests,   \* POSTs on their way to the backend
  answered,   \* history: payments whose POST was answered with the order's payment
  unnamed,    \* history: payments whose POST was answered with an order that names none
  faults, crashes

limits == <<faults, crashes>>
vars == <<confirmed, attached, bound, final, pc, rest, requests, answered, unnamed, limits>>

Init == /\ confirmed \in SUBSET Payment
        /\ attached = {}
        /\ bound \in [Order -> confirmed \cup {None}]
        /\ \A o \in Order : bound[o] # None => OrderOf[bound[o]] = o
        /\ final \in SUBSET {o \in Order : bound[o] # None}
        /\ pc = [s \in Sweep |-> "idle"]
        /\ rest = [s \in Sweep |-> {}]
        /\ requests = {}
        /\ answered = {} /\ unnamed = {}
        /\ faults = 0 /\ crashes = 0

\* Something throws, or an answer says nothing.
Fault == /\ faults < MaxFaults
         /\ faults' = faults + 1
         /\ UNCHANGED crashes

\* isUnattachedEnergyPayment
Unattached(w) == {p \in confirmed \ attached : WalletOf[p] = w}

\* The payment a sweep is busy with: the list is in order of age, newest first.
Newest(payments) == CHOOSE p \in payments : \A q \in payments : q <= p
Current(s) == Newest(rest[s])

\* Mutant: a payment that fails ends the sweep.
Stop(s) == /\ pc' = [pc EXCEPT ![s] = "idle"]
           /\ rest' = [rest EXCEPT ![s] = {}]

\* On to the next payment, whether this one succeeded or threw.
Continue(s) == LET left == rest[s] \ {Current(s)} IN
               /\ rest' = [rest EXCEPT ![s] = left]
               /\ pc' = [pc EXCEPT ![s] = IF left = {} THEN "idle" ELSE "get"]

Goto(s, label) == pc' = [pc EXCEPT ![s] = label] /\ UNCHANGED rest
-----------------------------------------------------------------------------
\* Mutant: sweeps do not look for one under way.
StartAlways(s) ==
  /\ pc[s] = "idle"
  /\ Unattached(SweptBy[s]) # {}
  /\ rest' = [rest EXCEPT ![s] = Unattached(SweptBy[s])]
  /\ pc' = [pc EXCEPT ![s] = "get"]
  /\ UNCHANGED <<confirmed, attached, bound, final, requests, answered, unnamed, limits>>

\* reconciliationInFlight: a wallet has one sweep at a time, which any other
\* caller shares.  It lists the payments to look after.
Start(s) ==
  /\ pc[s] = "idle"
  /\ \A r \in Sweep : SweptBy[r] = SweptBy[s] => pc[r] = "idle"
  /\ Unattached(SweptBy[s]) # {}
  /\ rest' = [rest EXCEPT ![s] = Unattached(SweptBy[s])]
  /\ pc' = [pc EXCEPT ![s] = "get"]
  /\ UNCHANGED <<confirmed, attached, bound, final, requests, answered, unnamed, limits>>

\* GET of the order: another transaction paid it, this one did and it is
\* final or still pending, or nobody did.
Get(s) ==
  LET p == Current(s) o == OrderOf[p] IN
  /\ pc[s] = "get"
  /\ \/ bound[o] \notin {None, p} /\ Continue(s) /\ UNCHANGED limits
     \/ bound[o] = p /\ o \in final /\ Goto(s, "mark") /\ UNCHANGED limits
     \/ bound[o] = p /\ o \notin final /\ Continue(s) /\ UNCHANGED limits
     \/ bound[o] = None /\ Goto(s, "attach") /\ UNCHANGED limits
     \/ Fault /\ Continue(s)
  /\ UNCHANGED <<confirmed, attached, bound, final, requests, answered, unnamed>>

\* POST of the payment's hash.
Attach(s) ==
  /\ pc[s] = "attach"
  /\ requests' = requests \cup {<<s, Current(s)>>}
  /\ Goto(s, "waiting")
  /\ UNCHANGED <<confirmed, attached, bound, final, answered, unnamed, limits>>

\* Mutant: the answer is not looked at.
AnswerUnread(s) ==
  LET p == Current(s) IN
  /\ pc[s] = "waiting"
  /\ <<s, p>> \notin requests
  /\ answered' = answered \cup {p}
  /\ Goto(s, "mark")
  /\ UNCHANGED <<confirmed, attached, bound, final, requests, unnamed, limits>>

\* The answer once the POST has arrived: the order, which has this hash or another.
Answer(s) ==
  LET p == Current(s) IN
  /\ pc[s] = "waiting"
  /\ <<s, p>> \notin requests
  /\ answered' = answered \cup {p}
  /\ \/ bound[OrderOf[p]] = p /\ Goto(s, "mark")
     \/ bound[OrderOf[p]] # p /\ Continue(s)
  /\ UNCHANGED <<confirmed, attached, bound, final, requests, unnamed, limits>>

\* An answer without a hash, which is as good: the backend deals with the POST later, or never.
AnswerUnnamed(s) ==
  LET p == Current(s) IN
  /\ pc[s] = "waiting"
  /\ bound[OrderOf[p]] = None
  /\ Fault
  /\ unnamed' = unnamed \cup {p}
  /\ requests' \in {requests, requests \ {<<s, p>>}}
  /\ Goto(s, "mark")
  /\ UNCHANGED <<confirmed, attached, bound, final, answered>>

\* No answer: the request may be lost, or arrive some day.
Lose(s) ==
  /\ pc[s] = "waiting"
  /\ Fault
  /\ requests' \in {requests, requests \ {<<s, Current(s)>>}}
  /\ Continue(s)
  /\ UNCHANGED <<confirmed, attached, bound, final, answered, unnamed>>

\* markStoredBscEnergyPaymentAttached; a confirmed record stays confirmed.
Mark(s) ==
  /\ pc[s] = "mark"
  /\ \/ attached' = attached \cup {Current(s)} /\ UNCHANGED limits
     \/ Fault /\ UNCHANGED attached
  /\ Continue(s)
  /\ UNCHANGED <<confirmed, bound, final, requests, answered, unnamed>>
-----------------------------------------------------------------------------
\* The send service confirms a payment.
Confirm(p) ==
  /\ p \notin confirmed
  /\ confirmed' = confirmed \cup {p}
  /\ UNCHANGED <<attached, bound, final, pc, rest, requests, answered, unnamed, limits>>

\* A POST arrives: the first one for an order binds it.
Arrive(r) ==
  /\ r \in requests
  /\ requests' = requests \ {r}
  /\ LET o == OrderOf[r[2]] IN
     bound' = IF bound[o] = None THEN [bound EXCEPT ![o] = r[2]] ELSE bound
  /\ UNCHANGED <<confirmed, attached, final, pc, rest, answered, unnamed, limits>>

Finalize(o) ==
  /\ bound[o] # None /\ o \notin final
  /\ final' = final \cup {o}
  /\ UNCHANGED <<confirmed, attached, bound, pc, rest, requests, answered, unnamed, limits>>

Crash ==
  /\ crashes < MaxCrashes
  /\ crashes' = crashes + 1
  /\ pc' = [s \in Sweep |-> "idle"]
  /\ rest' = [s \in Sweep |-> {}]
  /\ UNCHANGED <<confirmed, attached, bound, final, requests, answered, unnamed, faults>>

Step(s) == Get(s) \/ Attach(s) \/ Answer(s) \/ AnswerUnnamed(s) \/ Lose(s) \/ Mark(s)

Next == \/ \E s \in Sweep : Start(s) \/ Step(s)
        \/ \E p \in Payment : Confirm(p)
        \/ \E r \in Sweep \X Payment : Arrive(r)
        \/ \E o \in Order : Finalize(o)
        \/ Crash

Spec == Init /\ [][Next]_vars

\* Sweeps are asked for again and again (on each return to the foreground), a
\* sweep goes on, and the backend handles what reaches it.
FairSpec == /\ Spec
            /\ \A s \in Sweep : WF_vars(Start(s)) /\ WF_vars(Step(s))
            /\ \A r \in Sweep \X Payment : WF_vars(Arrive(r))
            /\ \A o \in Order : WF_vars(Finalize(o))
-----------------------------------------------------------------------------
\* Every value has its type, and a sweep that is under way has a payment left.
TypeOK == /\ confirmed \subseteq Payment /\ attached \subseteq Payment
          /\ bound \in [Order -> Payment \cup {None}]
          /\ final \subseteq Order
          /\ pc \in [Sweep -> {"idle", "get", "attach", "waiting", "mark"}]
          /\ rest \in [Sweep -> SUBSET Payment]
          /\ \A s \in Sweep : pc[s] # "idle" => rest[s] # {}
          /\ requests \subseteq Sweep \X Payment
          /\ answered \subseteq Payment /\ unnamed \subseteq Payment
          /\ faults \in 0 .. MaxFaults /\ crashes \in 0 .. MaxCrashes

\* A payment is taken off the list only when the backend holds it as the payment of its order, or
\* has answered its POST with an order that named no payment (energy-payment-recovery.ts:76-80):
\* no other payment is given up that the order was not credited with, also when another wallet
\* pays the same order meanwhile, answers are lost or requests arrive late.
AttachedIsBoundOrUnnamed == \A p \in attached \ unnamed : bound[OrderOf[p]] = p

\* A POST that was answered with the order's payment is not repeated, not even by the callers that
\* ask for a sweep at the same time: the order is looked at before each POST, and only one sweep of
\* a wallet is between the look and the answer.
AnswersAreHeeded == \A s \in Sweep : pc[s] = "attach" => Current(s) \notin answered

\* Every confirmed payment is marked in the end, unless another payment of the order came first:
\* neither an answer that got lost, nor a death between answer and mark, nor a payment that fails
\* every time keeps it back.  What a mark stands for is said above.
PaymentsAreAttached ==
  \A p \in Payment : p \in confirmed ~> p \in attached \/ bound[OrderOf[p]] \notin {None, p}
=============================================================================
