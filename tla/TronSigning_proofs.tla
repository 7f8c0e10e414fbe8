------------------------- MODULE TronSigning_proofs -------------------------
(***************************************************************************)
(* Proofs about TRON permissions and payments, for any keys, accounts,     *)
(* payments and updates, and any number of retries and damaged envelopes.  *)
(*                                                                         *)
(* An envelope passes through many hands, so both invariants speak of all  *)
(* the envelopes there are: none has a signature of a key that was shown   *)
(* something else (Shown), and those of a payment that is saved are of the *)
(* one transaction that is (Lone).  What was submitted and what was        *)
(* executed has passed the import, drafts their own validation too (Sound).*)
(***************************************************************************)
EXTENDS TronSigning, TLAPS


\* The envelopes that have left the calls.
Out == shared \cup wire \cup taken

Honest(e, seen) == \A k \in e.signature : <<k, e.raw.effect>> \in seen

Shown == /\ \A e \in Out : Honest(e, reviewed)
         /\ \A a \in Asks : saved[a] # None => Honest(saved[a], reviewed)
         /\ \A a \in Asks : pc[a] # "idle" => Honest(envelope[a], reviewed)

\* A call works on an envelope of its payment, a payment's own envelope is saved.
Held == /\ \A a \in Asks :
             pc[a] # "idle" => /\ envelope[a] \in Envelopes /\ envelope[a].raw.effect = a
                               /\ <<AccountOf[a], a>> \in reviewed
        /\ \A a \in Asks : saved[a] # None => saved[a].raw.effect = a

\* Of a payment that is saved before it is sent there is one transaction outside.
Lone(a) ==
  /\ \A e \in Out : e.raw.effect = a =>
       (saved[a] # None /\ e.raw = saved[a].raw) \/ (saved[a] = None /\ outcome[a] = "cosigned")
  /\ \A e, f \in Out : e.raw.effect = a /\ f.raw.effect = a => e.raw = f.raw
  /\ pc[a] \in {"sign", "weigh", "save"} => saved[a] = None /\ outcome[a] = "open"
  /\ pc[a] \in {"send", "answer"} => saved[a] # None /\ envelope[a].raw = saved[a].raw
  /\ pc[a] # "balance"

Single == \A a \in Asks : Recovered(a) => Lone(a)

IInv == TypeOK /\ Held /\ Shown /\ Single
-----------------------------------------------------------------------------
LEMMA EnvelopeType ==
  ASSUME NEW e \in Envelopes
  PROVE  /\ e.raw \in Transactions /\ e.raw.effect \in Effects
         /\ e.shown \in Effects /\ e.signature \in SUBSET Keys
BY DEF Envelopes, Transactions

LEMMA NoneIsNoEnvelope == \A e \in Envelopes : e # None
BY NoneAssumption

LEMMA HonestStays ==
  ASSUME NEW e, Honest(e, reviewed), reviewed \subseteq reviewed'
  PROVE  Honest(e, reviewed')
BY DEF Honest

LEMMA ShownStays ==
  ASSUME IInv, reviewed \subseteq reviewed',
         \A e \in Out' : e \in Out \/ Honest(e, reviewed'),
         \A a \in Asks : saved'[a] = saved[a] \/ Honest(saved'[a], reviewed'),
         \A a \in Asks : \/ pc'[a] = "idle"
                         \/ pc[a] # "idle" /\ envelope'[a] = envelope[a]
                         \/ Honest(envelope'[a], reviewed')
  PROVE  Shown'
BY HonestStays DEF IInv, Shown

LEMMA HeldStays ==
  ASSUME IInv, reviewed \subseteq reviewed', saved' = saved,
         \A a \in Asks : \/ pc'[a] = "idle"
                         \/ pc[a] # "idle" /\ envelope'[a] = envelope[a]
  PROVE  Held'
BY DEF IInv, Held

\* Goto and End change the call of one payment.
LEMMA CallMoves ==
  ASSUME TypeOK, NEW b \in Asks,
         NEW where \in {"idle", "sign", "weigh", "save", "balance", "send", "answer"},
         Goto(b, where)
  PROVE  /\ pc' \in [Asks -> {"idle", "sign", "weigh", "save", "balance", "send", "answer"}]
         /\ envelope' = envelope
         /\ pc'[b] = where /\ \A a \in Asks \ {b} : pc'[a] = pc[a]
BY DEF TypeOK, Goto

LEMMA CallEnds ==
  ASSUME TypeOK, NEW b \in Asks, End(b)
  PROVE  /\ pc' \in [Asks -> {"idle", "sign", "weigh", "save", "balance", "send", "answer"}]
         /\ envelope' \in [Asks -> Envelopes \cup {None}]
         /\ pc'[b] = "idle"
         /\ \A a \in Asks \ {b} : pc'[a] = pc[a] /\ envelope'[a] = envelope[a]
BY DEF TypeOK, End

\* The envelope a call works on.
LEMMA CallsEnvelope ==
  ASSUME IInv, NEW b \in Asks, pc[b] # "idle"
  PROVE  /\ envelope[b] \in Envelopes /\ envelope[b] # None
         /\ envelope[b].raw.effect = b /\ Honest(envelope[b], reviewed)
BY NoneIsNoEnvelope DEF IInv, Held, Shown

\* Nothing that others do disturbs a payment's own transaction.
LEMMA LoneStays ==
  ASSUME NEW a \in Asks, Lone(a),
         \A e \in Out' : e.raw.effect = a => \E f \in Out : f.raw = e.raw,
         saved'[a] = saved[a], outcome'[a] = outcome[a],
         (pc'[a] = pc[a] /\ envelope'[a] = envelope[a]) \/ pc'[a] = "idle"
  PROVE  Lone(a)'
<1>1. ASSUME NEW e \in Out', e.raw.effect = a
      PROVE  (saved'[a] # None /\ e.raw = saved'[a].raw)
             \/ (saved'[a] = None /\ outcome'[a] = "cosigned")
  BY <1>1 DEF Lone
<1>2. ASSUME NEW e \in Out', NEW f \in Out', e.raw.effect = a, f.raw.effect = a
      PROVE  e.raw = f.raw
  <2>1. PICK x \in Out : x.raw = e.raw BY <1>2
  <2>2. PICK y \in Out : y.raw = f.raw BY <1>2
  <2> QED BY <1>2, <2>1, <2>2 DEF Lone
<1>3. /\ pc'[a] \in {"sign", "weigh", "save"} => saved'[a] = None /\ outcome'[a] = "open"
      /\ pc'[a] \in {"send", "answer"} => saved'[a] # None /\ envelope'[a].raw = saved'[a].raw
      /\ pc'[a] # "balance"
  BY DEF Lone
<1> QED BY <1>1, <1>2, <1>3 DEF Lone

\* A call at pc[b] changes what is kept for b only, and lets out nothing but an envelope of b.
LEMMA OthersAreLone ==
  ASSUME IInv, NEW b \in Asks, \A e \in Out' : e.raw.effect # b => e \in Out,
         \A a \in Asks \ {b} : /\ saved'[a] = saved[a] /\ outcome'[a] = outcome[a]
                              /\ pc'[a] = pc[a] /\ envelope'[a] = envelope[a],
         Recovered(b) => Lone(b)'
  PROVE  Single'
<1> SUFFICES ASSUME NEW a \in Asks \ {b}, Recovered(a) PROVE Lone(a)' BY DEF Single
<1>1. Lone(a) BY DEF IInv, Single
<1>2. \A e \in Out' : e.raw.effect = a => \E f \in Out : f.raw = e.raw OBVIOUS
<1> QED BY <1>1, <1>2, LoneStays

\* What is done with the envelopes outside leaves the transactions of the calls as they are.
LEMMA OutsideIsLone ==
  ASSUME IInv, UNCHANGED <<calls, saved>>,
         \A e \in Out' : \/ \E f \in Out : f.raw = e.raw
                         \/ e.raw.effect \in Updates
                         \/ \E a \in Asks : saved[a] # None /\ e = saved[a]
  PROVE  Single'
<1> SUFFICES ASSUME NEW a \in Asks, Recovered(a) PROVE Lone(a)' BY DEF Single
<1>1. Lone(a) BY DEF IInv, Single
<1>2. ASSUME NEW e \in Out', e.raw.effect = a
      PROVE  (\E f \in Out : f.raw = e.raw) \/ (saved[a] # None /\ e.raw = saved[a].raw)
  <2>1. e.raw.effect \notin Updates BY <1>2, EffectsAssumption
  <2> QED BY <1>2, <2>1 DEF IInv, Held
<1>3. ASSUME NEW e \in Out', e.raw.effect = a
      PROVE  (saved[a] # None /\ e.raw = saved[a].raw)
             \/ (saved[a] = None /\ outcome[a] = "cosigned")
  BY <1>1, <1>2, <1>3 DEF Lone
<1>4. ASSUME NEW e \in Out', NEW f \in Out', e.raw.effect = a, f.raw.effect = a
      PROVE  e.raw = f.raw
  <2>1. CASE saved[a] # None BY <1>3, <1>4, <2>1
  <2>2. CASE saved[a] = None
    <3>1. PICK x \in Out : x.raw = e.raw BY <1>2, <1>4, <2>2
    <3>2. PICK y \in Out : y.raw = f.raw BY <1>2, <1>4, <2>2
    <3> QED BY <1>1, <1>4, <3>1, <3>2 DEF Lone
  <2> QED BY <2>1, <2>2
<1>5. pc' = pc /\ envelope' = envelope /\ saved' = saved /\ outcome' = outcome BY DEF calls
<1> QED BY <1>1, <1>3, <1>4, <1>5 DEF Lone
-----------------------------------------------------------------------------
LEMMA InitEstablishes == Init => IInv
<1> SUFFICES ASSUME Init PROVE IInv OBVIOUS
<1>1. TypeOK BY BoundAssumption DEF Init, TypeOK
<1>2. Held /\ Shown /\ Single BY DEF Init, Held, Shown, Single, Lone, Out
<1> QED BY <1>1, <1>2 DEF IInv

LEMMA StopStep == ASSUME IInv, NEW b \in Asks, Stop(b) PROVE IInv'
<1>1. TypeOK /\ End(b) BY DEF IInv, Stop
<1>2. Out' = Out BY DEF Stop, Out
<1>3. TypeOK' BY <1>1, CallEnds DEF TypeOK, Stop
<1>4. Held' BY <1>1, CallEnds, HeldStays DEF Stop
<1>5. Shown' BY <1>1, <1>2, CallEnds, ShownStays DEF Stop
<1>6. ASSUME Recovered(b) PROVE Lone(b)'
  <2>1. Lone(b) BY <1>6 DEF IInv, Single
  <2> QED BY <1>1, <1>2, <2>1, CallEnds, LoneStays DEF Stop
<1>7. Single' BY <1>1, <1>2, <1>6, CallEnds, OthersAreLone DEF Stop
<1> QED BY <1>3, <1>4, <1>5, <1>7 DEF IInv

LEMMA BuildStep == ASSUME IInv, NEW b \in Asks, Build(b) PROVE IInv'
<1> DEFINE fresh == [raw |-> [effect |-> b, stamp |-> retries'], shown |-> b, signature |-> {}]
<1>1. retries' \in 0 .. MaxRetries BY BoundAssumption DEF IInv, TypeOK, Build
<1>2. fresh \in Envelopes BY <1>1 DEF Envelopes, Transactions, Effects
<1>3. /\ pc' = [pc EXCEPT ![b] = "sign"] /\ envelope' = [envelope EXCEPT ![b] = fresh]
      /\ reviewed' = reviewed \cup {<<AccountOf[b], b>>}
      /\ saved[b] = None /\ outcome[b] = "open"
      /\ saved' = saved /\ outcome' = outcome
  BY DEF Build
<1>4. /\ pc'[b] = "sign" /\ envelope'[b] = fresh
      /\ \A a \in Asks \ {b} : pc'[a] = pc[a] /\ envelope'[a] = envelope[a]
  BY <1>3 DEF IInv, TypeOK
<1>5. AccountOf[b] \in Keys /\ b \in Effects BY EffectsAssumption DEF Effects
<1>6. TypeOK'
  <2>1. pc' \in [Asks -> {"idle", "sign", "weigh", "save", "balance", "send", "answer"}]
        /\ envelope' \in [Asks -> Envelopes \cup {None}]
    BY <1>2, <1>3 DEF IInv, TypeOK
  <2>2. reviewed' \subseteq Keys \X Effects BY <1>3, <1>5 DEF IInv, TypeOK
  <2> QED BY <1>1, <2>1, <2>2 DEF IInv, TypeOK, Build
<1>7. Out' = Out BY DEF Build, Out
<1>8. Held' BY <1>2, <1>3, <1>4 DEF IInv, Held
<1>9. Shown'
  <2>1. \A e \in Out' : Honest(e, reviewed') BY <1>3, <1>7, HonestStays DEF IInv, Shown
  <2>2. \A a \in Asks : saved'[a] # None => Honest(saved'[a], reviewed')
    BY <1>3, HonestStays DEF IInv, Shown
  <2>3. \A a \in Asks : pc'[a] # "idle" => Honest(envelope'[a], reviewed')
    <3>1. Honest(fresh, reviewed') BY DEF Honest
    <3> QED BY <1>3, <1>4, <3>1, HonestStays DEF IInv, Shown
  <2> QED BY <2>1, <2>2, <2>3 DEF Shown
<1>10. ASSUME Recovered(b) PROVE Lone(b)'
  <2>1. Lone(b) BY <1>10 DEF IInv, Single
  <2> QED BY <1>3, <1>4, <1>7, <2>1 DEF Lone
<1>11. Single' BY <1>3, <1>4, <1>7, <1>10, OthersAreLone
<1> QED BY <1>6, <1>8, <1>9, <1>11 DEF IInv

LEMMA SignStep == ASSUME IInv, NEW b \in Asks, Sign(b) PROVE IInv'
<1> DEFINE signed == [envelope[b] EXCEPT !.signature = {AccountOf[b]}]
<1>1. TypeOK /\ pc[b] = "sign" BY DEF IInv, Sign
<1>2. AccountOf[b] \in Keys /\ <<AccountOf[b], b>> \in reviewed
  BY <1>1, EffectsAssumption DEF IInv, Held, Effects
<1>3. signed \in Envelopes /\ signed.raw = envelope[b].raw /\ signed.signature = {AccountOf[b]}
  BY <1>1, <1>2, CallsEnvelope DEF Envelopes
<1>4. /\ pc'[b] = "weigh" /\ envelope'[b] = signed
      /\ \A a \in Asks \ {b} : pc'[a] = pc[a] /\ envelope'[a] = envelope[a]
  BY <1>1 DEF Sign, TypeOK
<1>5. TypeOK'
  <2>1. pc' \in [Asks -> {"idle", "sign", "weigh", "save", "balance", "send", "answer"}]
        /\ envelope' \in [Asks -> Envelopes \cup {None}]
    BY <1>1, <1>3 DEF Sign, TypeOK
  <2> QED BY <1>1, <2>1 DEF Sign, TypeOK
<1>6. Out' = Out BY DEF Sign, Out
<1>7. Held' BY <1>1, <1>2, <1>3, <1>4, CallsEnvelope DEF IInv, Held, Sign
<1>8. Shown'
  <2>1. Honest(signed, reviewed') BY <1>1, <1>2, <1>3, CallsEnvelope DEF Honest, Sign
  <2> QED BY <1>4, <1>6, <2>1, ShownStays DEF Sign
<1>9. ASSUME Recovered(b) PROVE Lone(b)'
  <2>1. Lone(b) BY <1>9 DEF IInv, Single
  <2> QED BY <1>1, <1>4, <1>6, <2>1 DEF Lone, Sign
<1>10. Single' BY <1>4, <1>6, <1>9, OthersAreLone DEF Sign
<1> QED BY <1>5, <1>7, <1>8, <1>10 DEF IInv

\* A payment that is not saved and not handed over has nothing outside.
LEMMA NothingOut ==
  ASSUME IInv, NEW b \in Asks, Recovered(b), saved[b] = None, outcome[b] = "open"
  PROVE  \A e \in Out : e.raw.effect # b
BY DEF IInv, Single, Lone

LEMMA HandOverStep == ASSUME IInv, NEW b \in Asks, HandOver(b) PROVE IInv'
<1>1. TypeOK /\ End(b) /\ pc[b] = "weigh" BY DEF IInv, HandOver
<1>2. envelope[b] \in Envelopes /\ envelope[b].raw.effect = b /\ Honest(envelope[b], reviewed)
  BY <1>1, CallsEnvelope
<1>3. Out' = Out \cup {envelope[b]} BY DEF HandOver, Out
<1>4. /\ outcome' \in [Asks -> {"open", "cosigned", "sent"}] /\ outcome'[b] = "cosigned"
      /\ \A a \in Asks \ {b} : outcome'[a] = outcome[a]
  BY <1>1 DEF HandOver, TypeOK
<1>5. TypeOK' BY <1>1, <1>2, <1>4, CallEnds DEF TypeOK, HandOver
<1>6. Held' BY <1>1, CallEnds, HeldStays DEF HandOver
<1>7. Shown' BY <1>1, <1>2, <1>3, CallEnds, ShownStays DEF HandOver
<1>8. ASSUME Recovered(b) PROVE Lone(b)'
  <2>1. saved[b] = None /\ outcome[b] = "open" BY <1>1, <1>8 DEF IInv, Single, Lone
  <2>2. \A e \in Out' : e.raw.effect = b => e = envelope[b] BY <1>3, <1>8, <2>1, NothingOut
  <2>3. saved'[b] = None /\ pc'[b] = "idle" BY <1>1, <2>1, CallEnds DEF HandOver
  <2> QED BY <1>4, <2>2, <2>3 DEF Lone
<1>9. Single'
  <2>1. \A e \in Out' : e.raw.effect # b => e \in Out BY <1>2, <1>3
  <2> QED BY <1>1, <1>4, <1>8, <2>1, CallEnds, OthersAreLone DEF HandOver
<1> QED BY <1>5, <1>6, <1>7, <1>9 DEF IInv

LEMMA WeighStep == ASSUME IInv, NEW b \in Asks, Weigh(b) PROVE IInv'
<1>1. TypeOK /\ pc[b] = "weigh" /\ Goto(b, AfterWeighing(b)) BY DEF IInv, Weigh
<1>2. /\ AfterWeighing(b) \in {"save", "balance", "send"}
      /\ Recovered(b) => AfterWeighing(b) = "save"
  <2>1. IdOf[b] \in Nat BY EffectsAssumption DEF Effects
  <2> QED BY <2>1 DEF AfterWeighing, Recovered
<1>3. Out' = Out BY DEF Weigh, Out
<1>4. TypeOK' BY <1>1, <1>2, CallMoves DEF TypeOK, Weigh
<1>5. Held' BY <1>1, <1>2, CallMoves, HeldStays DEF Weigh
<1>6. Shown' BY <1>1, <1>2, <1>3, CallMoves, ShownStays DEF Weigh
<1>7. ASSUME Recovered(b) PROVE Lone(b)'
  <2>1. Lone(b) BY <1>7 DEF IInv, Single
  <2>2. pc'[b] = "save" BY <1>1, <1>2, <1>7, CallMoves
  <2> QED BY <1>1, <1>3, <2>1, <2>2 DEF Lone, Weigh
<1>8. Single' BY <1>1, <1>2, <1>3, <1>7, CallMoves, OthersAreLone DEF Weigh
<1> QED BY <1>4, <1>5, <1>6, <1>8 DEF IInv

LEMMA SaveStep == ASSUME IInv, NEW b \in Asks, Save(b) PROVE IInv'
<1>1. TypeOK /\ pc[b] = "save" BY DEF IInv, Save
<1>2. /\ envelope[b] \in Envelopes /\ envelope[b] # None
      /\ envelope[b].raw.effect = b /\ Honest(envelope[b], reviewed)
  BY <1>1, CallsEnvelope
<1>3. /\ saved' \in [Asks -> Envelopes \cup {None}] /\ saved'[b] = envelope[b]
      /\ \A a \in Asks \ {b} : saved'[a] = saved[a]
  BY <1>1, <1>2 DEF Save, TypeOK
<1>4. /\ pc' \in [Asks -> {"idle", "sign", "weigh", "save", "balance", "send", "answer"}]
      /\ envelope' \in [Asks -> Envelopes \cup {None}]
      /\ \A a \in Asks \ {b} : pc'[a] = pc[a] /\ envelope'[a] = envelope[a]
      /\ pc'[b] = "idle" \/ (pc'[b] = "send" /\ envelope'[b] = envelope[b])
  <2>1. CASE Goto(b, "send") BY <1>1, <2>1, CallMoves DEF TypeOK
  <2>2. CASE End(b) BY <1>1, <2>2, CallEnds
  <2> QED BY <2>1, <2>2 DEF Save
<1>5. Out' = Out BY DEF Save, Out
<1>6. TypeOK' BY <1>1, <1>3, <1>4 DEF TypeOK, Save
<1>7. Held' BY <1>1, <1>2, <1>3, <1>4 DEF IInv, Held, Save
<1>8. Shown' BY <1>1, <1>2, <1>3, <1>4, <1>5, ShownStays DEF Save
<1>9. ASSUME Recovered(b) PROVE Lone(b)'
  <2>1. saved[b] = None /\ outcome[b] = "open" BY <1>1, <1>9 DEF IInv, Single, Lone
  <2>2. \A e \in Out' : e.raw.effect # b BY <1>5, <1>9, <2>1, NothingOut
  <2> QED BY <1>2, <1>3, <1>4, <2>2 DEF Lone
<1>10. Single' BY <1>3, <1>4, <1>5, <1>9, OthersAreLone DEF Save
<1> QED BY <1>6, <1>7, <1>8, <1>10 DEF IInv

LEMMA BalanceStep == ASSUME IInv, NEW b \in Asks, Balance(b) PROVE IInv'
<1>1. TypeOK /\ pc[b] = "balance" /\ Goto(b, "send") BY DEF IInv, Balance
<1>2. Out' = Out BY DEF Balance, Out
<1>3. TypeOK' BY <1>1, CallMoves DEF TypeOK, Balance
<1>4. Held' BY <1>1, CallMoves, HeldStays DEF Balance
<1>5. Shown' BY <1>1, <1>2, CallMoves, ShownStays DEF Balance
<1>6. ~ Recovered(b) BY <1>1 DEF IInv, Single, Lone
<1>7. Single' BY <1>1, <1>2, <1>6, CallMoves, OthersAreLone DEF Balance
<1> QED BY <1>3, <1>4, <1>5, <1>7 DEF IInv

LEMMA SendStep == ASSUME IInv, NEW b \in Asks, Send(b) PROVE IInv'
<1>1. TypeOK /\ pc[b] = "send" /\ Goto(b, "answer") BY DEF IInv, Send
<1>2. /\ envelope[b] \in Envelopes
      /\ envelope[b].raw.effect = b /\ Honest(envelope[b], reviewed)
  BY <1>1, CallsEnvelope
<1>3. Out \subseteq Out' /\ Out' \subseteq Out \cup {envelope[b]} BY DEF Send, Out
<1>4. TypeOK' BY <1>1, <1>2, CallMoves DEF TypeOK, Send
<1>5. Held' BY <1>1, CallMoves, HeldStays DEF Send
<1>6. Shown' BY <1>1, <1>2, <1>3, CallMoves, ShownStays DEF Send
<1>7. ASSUME Recovered(b) PROVE Lone(b)'
  <2>1. Lone(b) BY <1>7 DEF IInv, Single
  <2>2. saved[b] # None /\ envelope[b].raw = saved[b].raw BY <1>1, <2>1 DEF Lone
  <2>3. \A e \in Out' : e.raw.effect = b => e.raw = saved[b].raw
    BY <1>3, <2>1, <2>2 DEF Lone
  <2>4. pc'[b] = "answer" /\ envelope' = envelope /\ saved' = saved
    BY <1>1, CallMoves DEF Send
  <2> QED BY <2>2, <2>3, <2>4 DEF Lone
<1>8. Single' BY <1>1, <1>2, <1>3, <1>7, CallMoves, OthersAreLone DEF Send
<1> QED BY <1>4, <1>5, <1>6, <1>8 DEF IInv

LEMMA AnswerStep == ASSUME IInv, NEW b \in Asks, Answer(b) PROVE IInv'
<1>1. TypeOK /\ pc[b] = "answer" /\ End(b) BY DEF IInv, Answer
<1>2. Out' = Out BY DEF Answer, Out
<1>3. /\ outcome' \in [Asks -> {"open", "cosigned", "sent"}]
      /\ \A a \in Asks \ {b} : outcome'[a] = outcome[a]
  BY <1>1 DEF Answer, TypeOK
<1>4. TypeOK' BY <1>1, <1>3, CallEnds DEF TypeOK, Answer
<1>5. Held' BY <1>1, CallEnds, HeldStays DEF Answer
<1>6. Shown' BY <1>1, <1>2, CallEnds, ShownStays DEF Answer
<1>7. ASSUME Recovered(b) PROVE Lone(b)'
  <2>1. Lone(b) /\ saved[b] # None BY <1>1, <1>7 DEF IInv, Single, Lone
  <2>2. pc'[b] = "idle" /\ saved' = saved BY <1>1, CallEnds DEF Answer
  <2> QED BY <1>2, <2>1, <2>2 DEF Lone
<1>8. Single' BY <1>1, <1>2, <1>3, <1>7, CallEnds, OthersAreLone DEF Answer
<1> QED BY <1>4, <1>5, <1>6, <1>8 DEF IInv
-----------------------------------------------------------------------------
LEMMA RecoverStep == ASSUME IInv, NEW b \in Asks, Recover(b) PROVE IInv'
<1>1. TypeOK /\ saved[b] \in Envelopes /\ saved[b] # None BY DEF IInv, TypeOK, Recover
<1>2. Out' = Out \cup {saved[b]} BY DEF Recover, Out
<1>3. TypeOK' BY <1>1 DEF TypeOK, Recover, calls
<1>4. Held' BY HeldStays DEF Recover, calls
<1>5. Honest(saved[b], reviewed) BY <1>1 DEF IInv, Shown
<1>6. Shown' BY <1>2, <1>5 DEF IInv, Shown, Recover, calls
<1>7. Single' BY <1>1, <1>2, OutsideIsLone DEF Recover, calls
<1> QED BY <1>3, <1>4, <1>6, <1>7 DEF IInv

LEMMA BeginStep ==
  ASSUME IInv, NEW u \in Updates, Begin(u), strange' \in 0 .. MaxStrange
  PROVE  IInv'
<1> DEFINE fresh == [raw |-> [effect |-> u, stamp |-> 0], shown |-> u, signature |-> {}]
<1>1. TypeOK BY DEF IInv
<1>2. fresh \in Envelopes BY BoundAssumption DEF Envelopes, Transactions, Effects
<1>3. shared' = shared \cup {fresh} BY DEF Begin
<1>4. Out' = Out \cup {fresh} BY <1>3 DEF Begin, Out
<1>5. TypeOK' BY <1>1, <1>2, <1>3 DEF TypeOK, Begin, calls
<1>6. Held' BY HeldStays DEF Begin, calls
<1>7. Honest(fresh, reviewed) BY DEF Honest
<1>8. Shown' BY <1>4, <1>7 DEF IInv, Shown, Begin, calls
<1>9. Single'
  <2>1. fresh.raw.effect \in Updates OBVIOUS
  <2> QED BY <1>4, <2>1, OutsideIsLone DEF Begin
<1> QED BY <1>5, <1>6, <1>8, <1>9 DEF IInv

LEMMA OneMoreIsCounted == ASSUME TypeOK, OneMoreStrange PROVE strange' \in 0 .. MaxStrange
BY BoundAssumption DEF TypeOK, OneMoreStrange

LEMMA ProposeStep == ASSUME IInv, NEW d \in Drafts, Propose(d) PROVE IInv'
<1>1. d \in Updates /\ Begin(d) /\ strange' \in 0 .. MaxStrange
  BY DEF Propose, Updates, IInv, TypeOK
<1> QED BY <1>1, BeginStep

LEMMA ArriveStep == ASSUME IInv, NEW f \in Foreign, Arrive(f) PROVE IInv'
<1>1. f \in Updates /\ Begin(f) /\ strange' \in 0 .. MaxStrange
  BY OneMoreIsCounted DEF Arrive, Updates, IInv
<1> QED BY <1>1, BeginStep

LEMMA ImportStep ==
  ASSUME IInv, NEW e \in shared, NEW k \in Keys, Import(k, e)
  PROVE  IInv'
<1> DEFINE signed == [e EXCEPT !.signature = @ \cup {k}]
<1>1. TypeOK /\ e \in Envelopes /\ e \in Out BY DEF IInv, TypeOK, Out
<1>2. e.shown = e.raw.effect /\ e.shown \in Effects
  BY <1>1, EnvelopeType DEF Import, SafeImport
<1>3. /\ signed \in Envelopes /\ signed.raw = e.raw
      /\ signed.signature = e.signature \cup {k}
  BY <1>1 DEF Envelopes
<1>4. shared' = shared \cup {signed} /\ reviewed' = reviewed \cup {<<k, e.shown>>}
  BY DEF Import
<1>5. Out' = Out \cup {signed} BY <1>4 DEF Import, Out
<1>6. TypeOK'
  <2>1. reviewed' \subseteq Keys \X Effects BY <1>1, <1>2, <1>4 DEF TypeOK
  <2> QED BY <1>1, <1>3, <1>4, <2>1 DEF TypeOK, Import, calls
<1>7. pc' = pc /\ envelope' = envelope /\ saved' = saved BY DEF Import, calls
<1>8. Held' BY <1>4, <1>7, HeldStays
<1>9. Shown'
  <2>1. Honest(e, reviewed) BY <1>1 DEF IInv, Shown
  <2>2. Honest(signed, reviewed') BY <1>2, <1>3, <1>4, <2>1 DEF Honest
  <2>3. \A a \in Asks : saved'[a] = saved[a] BY <1>7
  <2>4. \A x \in Out' : x \in Out \/ Honest(x, reviewed') BY <1>5, <2>2
  <2>5. \A a \in Asks : pc'[a] # "idle" => Honest(envelope'[a], reviewed')
    BY <1>4, <1>7, HonestStays DEF IInv, Shown
  <2>6. reviewed \subseteq reviewed' BY <1>4
  <2> QED BY <2>3, <2>4, <2>5, <2>6, ShownStays
<1>10. Single' BY <1>1, <1>3, <1>5, OutsideIsLone DEF Import
<1> QED BY <1>6, <1>8, <1>9, <1>10 DEF IInv

LEMMA SubmitStep == ASSUME IInv, NEW e \in shared, Submit(e) PROVE IInv'
<1>1. Out' = Out BY DEF Submit, Out
<1>2. TypeOK' BY DEF IInv, TypeOK, Submit, calls
<1>3. Held' BY HeldStays DEF Submit, calls
<1>4. Shown' BY <1>1 DEF IInv, Shown, Submit, calls
<1>5. Single' BY <1>1, OutsideIsLone DEF Submit
<1> QED BY <1>2, <1>3, <1>4, <1>5 DEF IInv

LEMMA DamageStep == ASSUME IInv, NEW e \in shared, Damage(e) PROVE IInv'
<1>1. PICK effect \in Effects : shared' = shared \cup {[e EXCEPT !.shown = effect]}
  BY DEF Damage
<1> DEFINE changed == [e EXCEPT !.shown = effect]
<1>2. TypeOK /\ e \in Envelopes /\ e \in Out BY DEF IInv, TypeOK, Out
<1>3. changed \in Envelopes /\ changed.raw = e.raw /\ changed.signature = e.signature
  BY <1>2 DEF Envelopes
<1>4. Out' = Out \cup {changed} BY <1>1 DEF Damage, Out
<1>5. strange' \in 0 .. MaxStrange BY <1>2, OneMoreIsCounted DEF Damage
<1>6. TypeOK' BY <1>1, <1>2, <1>3, <1>5 DEF TypeOK, Damage, calls
<1>7. Held' BY HeldStays DEF Damage, calls
<1>8. Honest(changed, reviewed) BY <1>2, <1>3 DEF IInv, Shown, Honest
<1>9. Shown' BY <1>4, <1>8 DEF IInv, Shown, Damage, calls
<1>10. Single' BY <1>2, <1>3, <1>4, OutsideIsLone DEF Damage
<1> QED BY <1>6, <1>7, <1>9, <1>10 DEF IInv

LEMMA ExecuteStep == ASSUME IInv, NEW e \in wire, Execute(e) PROVE IInv'
<1>1. TypeOK /\ e \in Envelopes BY DEF IInv, TypeOK
<1>2. Out' = Out BY DEF Execute, Out
<1>3. updated' \in [Keys -> Updates \cup {None}]
  BY <1>1 DEF TypeOK, Execute
<1>4. TypeOK' BY <1>1, <1>3 DEF TypeOK, Execute, calls
<1>5. Held' BY HeldStays DEF Execute, calls
<1>6. Shown' BY <1>2 DEF IInv, Shown, Execute, calls
<1>7. Single' BY <1>2, OutsideIsLone DEF Execute
<1> QED BY <1>4, <1>5, <1>6, <1>7 DEF IInv

LEMMA Inductive == IInv /\ [Next]_vars => IInv'
<1> SUFFICES ASSUME IInv, [Next]_vars PROVE IInv' OBVIOUS
<1>1. ASSUME NEW b \in Asks,
             \/ Stop(b) \/ Build(b) \/ Sign(b) \/ HandOver(b) \/ Weigh(b) \/ Save(b)
             \/ Balance(b) \/ Send(b) \/ Answer(b) \/ Recover(b)
      PROVE  IInv'
  BY <1>1, StopStep, BuildStep, SignStep, HandOverStep, WeighStep, SaveStep, BalanceStep,
     SendStep, AnswerStep, RecoverStep
<1>2. /\ \A d \in Drafts : Propose(d) => IInv'
      /\ \A f \in Foreign : Arrive(f) => IInv'
  BY ProposeStep, ArriveStep
<1>3. ASSUME NEW e \in shared, NEW k \in Keys, Import(k, e) PROVE IInv' BY <1>3, ImportStep
<1>4. ASSUME NEW e \in shared, Submit(e) \/ Damage(e) PROVE IInv'
  BY <1>4, SubmitStep, DamageStep
<1>5. ASSUME NEW e \in wire, Execute(e) PROVE IInv' BY <1>5, ExecuteStep
<1>6. CASE UNCHANGED vars
  <2>1. Out' = Out BY <1>6 DEF vars, Out
  <2> QED BY <1>6, <2>1 DEF vars, calls, IInv, TypeOK, Held, Shown, Single, Lone
<1> QED BY <1>1, <1>2, <1>3, <1>4, <1>5, <1>6 DEF Next

\* Calls, envelopes and permissions keep their types.
THEOREM TypeCorrect == Spec => []TypeOK
<1>1. IInv => TypeOK BY DEF IInv
<1> QED BY <1>1, InitEstablishes, Inductive, PTL DEF Spec

\* However often sendTrxPayment is called for a payment it saves, dies or is not answered, the
\* chain executes one transaction of it at most.
THEOREM NoDoublePayment == Spec => []PaidOnce
<1>1. IInv => PaidOnce
  <2> SUFFICES ASSUME IInv, NEW e \in taken, NEW f \in taken,
                      e.raw.effect = f.raw.effect, e.raw.effect \in Asks,
                      Recovered(e.raw.effect)
               PROVE  e.raw = f.raw
    BY DEF PaidOnce
  <2>1. Lone(e.raw.effect) /\ e \in Out /\ f \in Out BY DEF IInv, Single, Out
  <2> QED BY <2>1 DEF Lone
<1> QED BY <1>1, InitEstablishes, Inductive, PTL DEF Spec

\* Whoever signed what the chain executes was shown just that: assertSafeImportedMultisigTransaction
\* stops every envelope whose text was changed on its way.
THEOREM WhatIsShownIsExecuted == Spec => []ReviewedIsExecuted
<1>1. IInv => ReviewedIsExecuted
  <2> SUFFICES ASSUME IInv, NEW e \in taken, NEW k \in e.signature
               PROVE  <<k, e.raw.effect>> \in reviewed
    BY Zenon DEF ReviewedIsExecuted
  <2>1. Honest(e, reviewed) BY DEF IInv, Shown, Out
  <2> QED BY <2>1 DEF Honest
<1> QED BY <1>1, InitEstablishes, Inductive, PTL DEF Spec
-----------------------------------------------------------------------------
\* encodeOperations and decodeOperations are inverse for all the types that fit in.
THEOREM CodecInverse ==
  ASSUME NEW ids \in SUBSET (0 .. 8 * OperationBytes - 1)
  PROVE  decodeOperations(encodeOperations(ids)) = ids
<1> DEFINE bytes == encodeOperations(ids)
<1>1. OperationBytes \in Nat BY AccountsAssumption
<1>2. ASSUME NEW byte \in 0 .. OperationBytes - 1
      PROVE  bytes[byte] = {i % 8 : i \in {j \in ids : j \div 8 = byte}}
  BY <1>2 DEF encodeOperations
<1>3. ASSUME NEW id \in ids PROVE id \in decodeOperations(bytes)
  <2>1. id \in Nat /\ id <= 8 * OperationBytes - 1 BY <1>1
  <2>2. /\ id \div 8 \in 0 .. OperationBytes - 1
        /\ id = 8 * (id \div 8) + (id % 8)
    BY <1>1, <2>1
  <2>3. id % 8 \in bytes[id \div 8] BY <1>2, <2>2
  <2> QED BY <2>2, <2>3 DEF decodeOperations
<1>4. ASSUME NEW id \in decodeOperations(bytes) PROVE id \in ids
  <2>1. PICK byte \in 0 .. OperationBytes - 1 : \E bit \in bytes[byte] : id = 8 * byte + bit
    BY <1>4 DEF decodeOperations
  <2>2. PICK bit \in bytes[byte] : id = 8 * byte + bit BY <2>1
  <2>3. PICK i \in ids : i \div 8 = byte /\ bit = i % 8 BY <1>2, <2>2
  <2>4. i \in Nat /\ i = 8 * (i \div 8) + (i % 8) BY <1>1
  <2> QED BY <2>2, <2>3, <2>4
<1> QED BY <1>3, <1>4

-----------------------------------------------------------------------------
(* Where a payment is sent, it has been saved.                             *)

Kept(a) ==
  /\ \A e \in shared : e.raw.effect = a => outcome[a] = "cosigned"
  /\ \A e \in wire \cup taken : e.raw.effect = a => saved[a] = e \/ outcome[a] = "cosigned"
  /\ outcome[a] = "cosigned" => pc[a] = "idle"
  /\ pc[a] \in {"send", "answer"} => saved[a] = envelope[a]

AllKept == \A a \in Asks : Recovered(a) => Kept(a)

\* A call that stays or ends, and envelopes of which no new ones come from it.
LEMMA KeptStays ==
  ASSUME NEW a \in Asks, Kept(a),
         \A e \in shared' : e.raw.effect = a => \E f \in shared : f.raw = e.raw,
         \A e \in wire' \cup taken' : e.raw.effect = a =>
           e \in wire \cup taken \/ saved[a] = e \/ \E f \in shared : f.raw = e.raw,
         saved'[a] = saved[a], outcome'[a] = outcome[a],
         (pc'[a] = pc[a] /\ envelope'[a] = envelope[a]) \/ pc'[a] = "idle"
  PROVE  Kept(a)'
<1>1. \A e \in shared' : e.raw.effect = a => outcome'[a] = "cosigned" BY DEF Kept
<1>2. ASSUME NEW e \in wire' \cup taken', e.raw.effect = a
      PROVE  saved'[a] = e \/ outcome'[a] = "cosigned"
  BY <1>2 DEF Kept
<1>3. /\ outcome'[a] = "cosigned" => pc'[a] = "idle"
      /\ pc'[a] \in {"send", "answer"} => saved'[a] = envelope'[a]
  BY DEF Kept
<1> QED BY <1>1, <1>2, <1>3 DEF Kept

\* Only the call of b moves.
LEMMA OthersAreKept ==
  ASSUME IInv, AllKept, NEW b \in Asks,
         \A a \in Asks \ {b} : /\ saved'[a] = saved[a] /\ outcome'[a] = outcome[a]
                              /\ pc'[a] = pc[a] /\ envelope'[a] = envelope[a],
         \A e \in shared' : e.raw.effect # b => e \in shared,
         \A e \in wire' \cup taken' : e.raw.effect # b => e \in wire \cup taken,
         Recovered(b) => Kept(b)'
  PROVE  AllKept'
<1> SUFFICES ASSUME NEW a \in Asks \ {b}, Recovered(a) PROVE Kept(a)' BY DEF AllKept
<1>1. Kept(a) BY DEF AllKept
<1> QED BY <1>1, KeptStays

LEMMA KeptCall ==
  ASSUME IInv, AllKept, NEW b \in Asks,
         \/ Stop(b) \/ Build(b) \/ Sign(b) \/ Weigh(b) \/ Save(b) \/ Balance(b) \/ Answer(b)
  PROVE  AllKept'
<1>1. TypeOK /\ shared' = shared /\ wire' = wire /\ taken' = taken
  BY DEF IInv, Stop, Build, Sign, Weigh, Save, Balance, Answer
<1>2. \A a \in Asks \ {b} : /\ saved'[a] = saved[a] /\ outcome'[a] = outcome[a]
                            /\ pc'[a] = pc[a] /\ envelope'[a] = envelope[a]
  BY <1>1 DEF Stop, Build, Sign, Weigh, Save, Balance, Answer, Goto, End, TypeOK
<1>3. ASSUME Recovered(b) PROVE Kept(b)'
  <2>1. Kept(b) /\ Lone(b) BY <1>3 DEF AllKept, IInv, Single
  <2>2. CASE Stop(b)
    <3>1. pc'[b] = "idle" /\ saved' = saved /\ outcome' = outcome
      BY <1>1, <2>2, CallEnds DEF Stop
    <3> QED BY <1>1, <2>1, <3>1 DEF Kept
  <2>3. CASE Build(b) \/ Sign(b)
    <3>1. /\ pc'[b] \in {"sign", "weigh"} /\ saved' = saved /\ outcome' = outcome
          /\ outcome[b] = "open"
      BY <1>1, <2>1, <2>3 DEF Build, Sign, TypeOK, Lone
    <3> QED BY <1>1, <2>1, <3>1 DEF Kept
  <2>4. CASE Weigh(b)
    <3>1. AfterWeighing(b) = "save"
      <4>1. IdOf[b] \in Nat BY EffectsAssumption DEF Effects
      <4> QED BY <1>3, <4>1 DEF AfterWeighing, Recovered
    <3>2. /\ pc'[b] = "save" /\ saved' = saved /\ outcome' = outcome /\ outcome[b] = "open"
      BY <1>1, <2>1, <2>4, <3>1 DEF Weigh, Goto, TypeOK, Lone
    <3> QED BY <1>1, <2>1, <3>2 DEF Kept
  <2>5. CASE Save(b)
    <3>1. saved[b] = None /\ outcome[b] = "open" /\ outcome' = outcome
      BY <2>1, <2>5 DEF Save, Lone
    <3>2. \A e \in Out : e.raw.effect # b BY <1>3, <3>1, NothingOut
    <3>3. /\ saved'[b] = envelope[b]
          /\ pc'[b] = "idle" \/ (pc'[b] = "send" /\ envelope'[b] = envelope[b])
      BY <1>1, <2>5 DEF Save, Goto, End, TypeOK
    <3> QED BY <1>1, <3>1, <3>2, <3>3 DEF Kept, Out
  <2>6. CASE Balance(b) BY <2>1, <2>6 DEF Balance, Lone
  <2>7. CASE Answer(b)
    <3>1. pc'[b] = "idle" /\ saved' = saved /\ outcome'[b] = "sent" /\ outcome[b] # "cosigned"
      BY <1>1, <2>1, <2>7, CallEnds DEF Answer, Kept, TypeOK
    <3> QED BY <1>1, <2>1, <3>1 DEF Kept
  <2> QED BY <2>2, <2>3, <2>4, <2>5, <2>6, <2>7
<1> QED BY <1>1, <1>2, <1>3, OthersAreKept

LEMMA KeptHandOver == ASSUME IInv, AllKept, NEW b \in Asks, HandOver(b) PROVE AllKept'
<1>1. TypeOK /\ pc[b] = "weigh" /\ End(b) BY DEF IInv, HandOver
<1>2. envelope[b].raw.effect = b BY <1>1, CallsEnvelope
<1>3. /\ outcome'[b] = "cosigned" /\ pc'[b] = "idle"
      /\ \A a \in Asks \ {b} : /\ saved'[a] = saved[a] /\ outcome'[a] = outcome[a]
                               /\ pc'[a] = pc[a] /\ envelope'[a] = envelope[a]
  BY <1>1, CallEnds DEF HandOver, TypeOK
<1>4. /\ shared' = shared \cup {envelope[b]} /\ wire' = wire /\ taken' = taken BY DEF HandOver
<1>5. Kept(b)' BY <1>3, <1>4 DEF Kept
<1> QED BY <1>2, <1>3, <1>4, <1>5, OthersAreKept

LEMMA KeptSend == ASSUME IInv, AllKept, NEW b \in Asks, Send(b) PROVE AllKept'
<1>1. TypeOK /\ pc[b] = "send" /\ Goto(b, "answer") BY DEF IInv, Send
<1>2. envelope[b].raw.effect = b BY <1>1, CallsEnvelope
<1>3. /\ envelope' = envelope /\ saved' = saved /\ outcome' = outcome /\ shared' = shared
      /\ taken' = taken /\ wire' \subseteq wire \cup {envelope[b]}
      /\ pc'[b] = "answer" /\ \A a \in Asks \ {b} : pc'[a] = pc[a]
  BY <1>1, CallMoves DEF Send
<1>4. ASSUME Recovered(b) PROVE Kept(b)'
  <2>1. Kept(b) /\ saved[b] = envelope[b] BY <1>1, <1>4 DEF AllKept, Kept
  <2> QED BY <1>1, <1>3, <2>1 DEF Kept
<1> QED BY <1>2, <1>3, <1>4, OthersAreKept

LEMMA KeptOutside ==
  ASSUME IInv, AllKept, UNCHANGED <<calls, saved>>,
         \A e \in shared' : (\E f \in shared : f.raw = e.raw) \/ e.raw.effect \in Updates,
         \A e \in wire' \cup taken' : \/ e \in wire \cup taken
                                      \/ \E f \in shared : f.raw = e.raw
                                      \/ \E a \in Asks : saved[a] # None /\ e = saved[a]
  PROVE  AllKept'
<1> SUFFICES ASSUME NEW a \in Asks, Recovered(a) PROVE Kept(a)' BY DEF AllKept
<1>1. Kept(a) /\ a \notin Updates BY EffectsAssumption DEF AllKept
<1>2. ASSUME NEW e \in wire' \cup taken', e.raw.effect = a
      PROVE  e \in wire \cup taken \/ saved[a] = e \/ \E f \in shared : f.raw = e.raw
  BY <1>2 DEF IInv, Held
<1>3. pc' = pc /\ envelope' = envelope /\ saved' = saved /\ outcome' = outcome BY DEF calls
<1>4. \A e \in shared' : e.raw.effect = a => \E f \in shared : f.raw = e.raw BY <1>1
<1> QED BY <1>1, <1>2, <1>3, <1>4, KeptStays

LEMMA KeptStep == ASSUME IInv, AllKept, [Next]_vars PROVE AllKept'
<1>1. TypeOK BY DEF IInv
<1>2. ASSUME NEW b \in Asks, Recover(b) PROVE AllKept'
  BY <1>2, KeptOutside DEF Recover
<1>3. ASSUME NEW u \in Updates, Begin(u) PROVE AllKept'
  BY <1>3, KeptOutside DEF Begin
<1>4. (\E d \in Drafts : Propose(d)) \/ (\E f \in Foreign : Arrive(f)) => AllKept'
  BY <1>3 DEF Propose, Arrive, Updates
<1>5. ASSUME NEW e \in shared, NEW k \in Keys, Import(k, e) PROVE AllKept'
  <2>1. e \in Envelopes BY <1>1 DEF TypeOK
  <2>2. [e EXCEPT !.signature = @ \cup {k}].raw = e.raw BY <2>1 DEF Envelopes
  <2> QED BY <1>5, <2>2, KeptOutside DEF Import
<1>6. ASSUME NEW e \in shared, Submit(e) PROVE AllKept'
  BY <1>6, KeptOutside DEF Submit
<1>7. ASSUME NEW e \in shared, Damage(e) PROVE AllKept'
  <2>1. e \in Envelopes BY <1>1 DEF TypeOK
  <2>2. PICK effect \in Effects : shared' = shared \cup {[e EXCEPT !.shown = effect]}
    BY <1>7 DEF Damage
  <2>3. [e EXCEPT !.shown = effect].raw = e.raw BY <2>1 DEF Envelopes
  <2> QED BY <1>7, <2>2, <2>3, KeptOutside DEF Damage
<1>8. ASSUME NEW e \in wire, Execute(e) PROVE AllKept'
  BY <1>8, KeptOutside DEF Execute
<1>9. CASE UNCHANGED vars
  BY <1>9, KeptOutside DEF vars
<1> QED BY <1>2, <1>4, <1>5, <1>6, <1>7, <1>8, <1>9, KeptCall, KeptHandOver, KeptSend DEF Next

\* Of a TRX payment under the owner permission a node, or another signer, never has what
\* onSigned has not been given first, unless it needs more signatures.
THEOREM SavedBeforeSent == Spec => []SentIsSaved
<1>1. Init => AllKept BY DEF Init, AllKept, Kept
<1>2. IInv /\ AllKept => SentIsSaved BY DEF AllKept, Kept, SentIsSaved
<1> QED BY <1>1, <1>2, InitEstablishes, Inductive, KeptStep, PTL DEF Spec
-----------------------------------------------------------------------------
(* How the two validations of permission updates differ.                   *)

\* What a permission is to be in its place, and in numbers that JavaScript keeps exactly.
Placed(permission, type) == permission.type = type /\ permission.parent = 0
Exact(permission) ==
  /\ Safe(permission.threshold)
  /\ \A i \in DOMAIN permission.keys : Safe(permission.keys[i].weight)

LEMMA CanonicalMeansValid ==
  ASSUME NEW permission, NEW Key, permission.keys \in Seq(Key),
         NEW type \in {0, 2},
         permission.threshold \in Int,
         \A i \in DOMAIN permission.keys : permission.keys[i].weight \in Int
  PROVE  canonicalPermission(permission, type) /\ Distinct(permission)
           <=> validPermission(permission) /\ Placed(permission, type) /\ Exact(permission)
<1>1. MaxSafeInteger \in Nat /\ MaxKeys \in Nat BY AccountsAssumption
<1>2. \A n \in Int : Safe(n) => n > 0 BY <1>1 DEF Safe
<1>3. permission.keys # <<>> <=> Len(permission.keys) >= 1 OBVIOUS
<1>4. Len(permission.keys) \in Nat OBVIOUS
<1>5. ASSUME canonicalPermission(permission, type), Distinct(permission)
      PROVE  validPermission(permission) /\ Placed(permission, type) /\ Exact(permission)
  <2>1. Positive(permission) BY <1>2, <1>5 DEF canonicalPermission, Positive
  <2>2. permission.keys # <<>> /\ Len(permission.keys) <= MaxKeys
    BY <1>1, <1>3, <1>4, <1>5 DEF canonicalPermission
  <2>3. Placed(permission, type) /\ Exact(permission)
    BY <1>5 DEF canonicalPermission, Placed, Exact
  <2> QED BY <1>5, <2>1, <2>2, <2>3 DEF canonicalPermission, validPermission
<1>6. ASSUME validPermission(permission), Placed(permission, type), Exact(permission)
      PROVE  canonicalPermission(permission, type) /\ Distinct(permission)
  <2>1. Len(permission.keys) \in 1 .. MaxKeys
    BY <1>1, <1>3, <1>4, <1>6 DEF validPermission
  <2> QED BY <1>6, <2>1 DEF validPermission, Positive, Placed, Exact, canonicalPermission
<1> QED BY <1>5, <1>6

\* What an import takes and what a draft may contain differ in four things: an import does not
\* mind a key that is listed twice; a draft does not mind a permission whose type is not that of
\* its place, one with a parent, or integers that are not safe ones.
THEOREM ValidationsDiffer ==
  ASSUME NEW structure, NEW Key,
         \A permission \in PermissionsOf(structure) :
           /\ permission.keys \in Seq(Key) /\ permission.threshold \in Int
           /\ \A i \in DOMAIN permission.keys : permission.keys[i].weight \in Int
  PROVE  /\ validatePermissionUpdatePayload(structure)
         /\ \A permission \in PermissionsOf(structure) : Distinct(permission)
         <=>
         /\ validateAccountPermissions(structure)
         /\ Placed(structure.owner, 0)
         /\ \A permission \in Range(structure.actives) : Placed(permission, 2)
         /\ \A permission \in PermissionsOf(structure) : Exact(permission)
<1>1. structure.owner \in PermissionsOf(structure) BY DEF PermissionsOf
<1>2. Range(structure.actives) \subseteq PermissionsOf(structure) BY DEF PermissionsOf
<1>3. canonicalPermission(structure.owner, 0) /\ Distinct(structure.owner)
        <=> /\ validPermission(structure.owner) /\ Placed(structure.owner, 0)
            /\ Exact(structure.owner)
  BY <1>1, CanonicalMeansValid
<1>4. \A permission \in Range(structure.actives) :
        canonicalPermission(permission, 2) /\ Distinct(permission)
          <=> validPermission(permission) /\ Placed(permission, 2) /\ Exact(permission)
  BY <1>2, CanonicalMeansValid
<1>5. \A permission \in Range(structure.actives) :
        canonicalPermission(permission, 2) => WellFormed(permission.operations)
  BY DEF canonicalPermission
<1> QED BY <1>3, <1>4, <1>5
        DEF validatePermissionUpdatePayload, validateAccountPermissions, PermissionsOf
-----------------------------------------------------------------------------
(* What locks the signers out of an account.                               *)

Imported(u) == validatePermissionUpdatePayload(StructureOf[u])
Drafted(u) == u \in Drafts => validateAccountPermissions(StructureOf[u])

\* Envelopes of drafts have been validated, those that were submitted have been
\* imported, and accounts have their permissions from these.
Sound ==
  /\ \A e \in Out : Drafted(e.raw.effect)
  /\ \A e \in wire \cup taken : e.raw.effect \in Updates => Imported(e.raw.effect)
  /\ \A k \in Keys : updated[k] # None => Drafted(updated[k]) /\ Imported(updated[k])

LEMMA SoundStays ==
  ASSUME Sound, updated' = updated,
         \A e \in Out' : (\E f \in Out : f.raw = e.raw) \/ e.raw.effect \notin Drafts,
         \A e \in wire' \cup taken' : e \in wire \cup taken \/ e.raw.effect \notin Updates
  PROVE  Sound'
BY DEF Sound, Drafted, Imported

LEMMA SoundStep == ASSUME IInv, Sound, [Next]_vars PROVE Sound'
<1>1. TypeOK /\ \A a \in Asks : a \notin Updates /\ a \notin Drafts
  BY EffectsAssumption DEF IInv, Updates
<1>2. ASSUME NEW b \in Asks,
             \/ Stop(b) \/ Build(b) \/ Sign(b) \/ Weigh(b) \/ Save(b) \/ Balance(b) \/ Answer(b)
      PROVE  Sound'
  BY <1>2, SoundStays DEF Stop, Build, Sign, Weigh, Save, Balance, Answer, Out
<1>3. ASSUME NEW b \in Asks, HandOver(b) \/ Send(b) PROVE Sound'
  <2>1. pc[b] # "idle" /\ updated' = updated BY <1>3 DEF HandOver, Send
  <2>2. envelope[b].raw.effect = b BY <2>1, CallsEnvelope
  <2>3. /\ Out' \subseteq Out \cup {envelope[b]}
        /\ wire' \cup taken' \subseteq wire \cup taken \cup {envelope[b]}
    BY <1>3 DEF HandOver, Send, Out
  <2> QED BY <1>1, <2>1, <2>2, <2>3, SoundStays
<1>4. ASSUME NEW b \in Asks, Recover(b) PROVE Sound'
  <2>1. saved[b].raw.effect = b BY <1>4 DEF Recover, IInv, Held
  <2>2. /\ Out' \subseteq Out \cup {saved[b]} /\ updated' = updated
        /\ wire' \cup taken' \subseteq wire \cup taken \cup {saved[b]}
    BY <1>4 DEF Recover, Out
  <2> QED BY <1>1, <2>1, <2>2, SoundStays
<1>5. ASSUME NEW u \in Updates, Begin(u), Drafted(u) PROVE Sound'
  <2> DEFINE fresh == [raw |-> [effect |-> u, stamp |-> 0], shown |-> u, signature |-> {}]
  <2>1. Out' = Out \cup {fresh} /\ UNCHANGED <<wire, taken, updated>> BY <1>5 DEF Begin, Out
  <2>2. fresh.raw.effect = u OBVIOUS
  <2> QED BY <1>5, <2>1, <2>2 DEF Sound, Drafted, Imported
<1>6. (\E d \in Drafts : Propose(d)) \/ (\E f \in Foreign : Arrive(f)) => Sound'
  <2>1. \A f \in Foreign : Drafted(f) BY EffectsAssumption DEF Drafted
  <2> QED BY <1>5, <2>1 DEF Propose, Arrive, Updates, Drafted
<1>7. ASSUME NEW e \in shared, NEW k \in Keys, Import(k, e) PROVE Sound'
  <2>1. e \in Envelopes /\ e \in Out BY <1>1 DEF TypeOK, Out
  <2>2. Out' = Out \cup {[e EXCEPT !.signature = @ \cup {k}]} /\ UNCHANGED <<wire, taken, updated>>
    BY <1>7 DEF Import, Out
  <2>3. [e EXCEPT !.signature = @ \cup {k}].raw = e.raw BY <2>1 DEF Envelopes
  <2> QED BY <2>1, <2>2, <2>3, SoundStays
<1>8. ASSUME NEW e \in shared, Submit(e) PROVE Sound'
  <2>1. Out' = Out /\ updated' = updated /\ taken' = taken /\ wire' = wire \cup {e}
    BY <1>8 DEF Submit, Out
  <2>2. e.raw.effect \in Updates => Imported(e.raw.effect)
    BY <1>8 DEF Submit, SafeImport, Imported
  <2> QED BY <2>1, <2>2 DEF Sound, Drafted, Imported
<1>9. ASSUME NEW e \in shared, Damage(e) PROVE Sound'
  <2>1. e \in Envelopes /\ e \in Out BY <1>1 DEF TypeOK, Out
  <2>2. PICK effect \in Effects : shared' = shared \cup {[e EXCEPT !.shown = effect]}
    BY <1>9 DEF Damage
  <2>3. /\ Out' = Out \cup {[e EXCEPT !.shown = effect]} /\ UNCHANGED <<wire, taken, updated>>
    BY <1>9, <2>2 DEF Damage, Out
  <2>4. [e EXCEPT !.shown = effect].raw = e.raw BY <2>1 DEF Envelopes
  <2> QED BY <2>1, <2>3, <2>4, SoundStays
<1>10. ASSUME NEW e \in wire, Execute(e) PROVE Sound'
  <2>1. Out' = Out /\ e \in Out /\ wire' \cup taken' = wire \cup taken BY <1>10 DEF Execute, Out
  <2>2. \A k \in Keys : updated'[k] = updated[k] \/
                        (updated'[k] = e.raw.effect /\ e.raw.effect \in Updates)
    BY <1>1, <1>10 DEF Execute, TypeOK
  <2> QED BY <2>1, <2>2 DEF Sound, Drafted, Imported
<1>11. CASE UNCHANGED vars
  <2>1. Out' = Out /\ UNCHANGED <<wire, taken, updated>> BY <1>11 DEF vars, Out
  <2> QED BY <2>1, SoundStays
<1> QED BY <1>2, <1>3, <1>4, <1>6, <1>7, <1>8, <1>9, <1>10, <1>11 DEF Next

\* Where no key is listed twice, what the import adds up is what counts on the chain.
LEMMA CanonicalIsControllable ==
  ASSUME NEW permission, canonicalPermission(permission, 0), Distinct(permission),
         DOMAIN permission.keys = 1 .. Len(permission.keys)
  PROVE  Controllable(permission)
<1>1. ASSUME NEW i \in DOMAIN permission.keys PROVE Counts(permission, i, Keys)
  BY DEF canonicalPermission, Distinct, Counts
<1>2. [i \in DOMAIN permission.keys |-> permission.keys[i].weight]
        = [i \in DOMAIN permission.keys |->
             IF Counts(permission, i, Keys) THEN permission.keys[i].weight ELSE 0]
  BY <1>1
<1>3. TotalWeight(permission.keys) = Weight(permission, Keys)
  BY <1>2 DEF TotalWeight, Weight
<1> QED BY <1>3 DEF canonicalPermission, Reachable, Controllable

\* Whatever updates are drafted or brought in, signed and executed, an account gets out of its
\* keys' reach only by one of foreign origin that lists a key of its owner permission twice: what
\* is submitted has passed the import, and what was drafted lists no key twice.
THEOREM LockedOutByDuplicatesOnly == Spec => []OnlyForeignDuplicatesLockOut
<1>1. Init => Sound BY DEF Init, Sound, Out
<1>2. IInv /\ Sound => OnlyForeignDuplicatesLockOut
  <2> SUFFICES ASSUME IInv, Sound, NEW k \in Keys,
                      ~ (updated[k] \in Foreign /\ ~ Distinct(StructureOf[updated[k]].owner))
               PROVE  Controllable(Permissions(k).owner)
    BY DEF OnlyForeignDuplicatesLockOut
  <2>1. CASE updated[k] = None BY <2>1, StructuresAssumption DEF Permissions
  <2>2. CASE updated[k] # None
    <3> DEFINE owner == StructureOf[updated[k]].owner
    <3>1. updated[k] \in Updates BY <2>2 DEF IInv, TypeOK
    <3>2. owner \in PermissionsOf(StructureOf[updated[k]]) BY DEF PermissionsOf
    <3>3. canonicalPermission(owner, 0)
      BY <2>2 DEF Sound, Imported, validatePermissionUpdatePayload
    <3>4. Distinct(owner)
      BY <2>2, <3>1, <3>2 DEF Sound, Drafted, validateAccountPermissions, validPermission, Updates
    <3>5. DOMAIN owner.keys = 1 .. Len(owner.keys) BY <3>1, <3>2, ListsAssumption
    <3>6. Permissions(k).owner = owner BY <2>2 DEF Permissions
    <3> QED BY <3>3, <3>4, <3>5, <3>6, CanonicalIsControllable
  <2> QED BY <2>1, <2>2
<1> QED BY <1>1, <1>2, InitEstablishes, Inductive, SoundStep, PTL DEF Spec
=============================================================================
