----------------------- MODULE NonceCoordinator_proofs -----------------------
(***************************************************************************)
(* Proofs about the per-account queue, for any set of calls and accounts   *)
(* and any queue limit.                                                    *)
(*                                                                         *)
(* Mutual exclusion is not inductive: why a call may enter is written in   *)
(* the promises it awaits, one call back at a time.  `ahead` records what  *)
(* that chain amounts to, and Chain relates the two: the tail a call       *)
(* awaits, once settled, stands for everyone who was ahead of it.          *)
(***************************************************************************)
EXTENDS NonceCoordinator, FiniteSetTheorems, TLAPS

Joined(c) == pc[c] \in {"queued", "running", "done"}
Busy(c) == pc[c] \in {"queued", "running"}

\* The depth counter, for sets of calls whose Cardinality means something.
Counted == \A k \in Key : /\ IsFiniteSet(Outstanding(k))
                          /\ depth[k] = Cardinality(Outstanding(k))

\* The registered tail is the latest arrival, and it is not over yet.
LastTail == \A k \in Key : tails[k] # NoCall =>
              /\ KeyOf(tails[k]) = k
              /\ Busy(tails[k])
              /\ Outstanding(k) \subseteq {tails[k]} \cup ahead[tails[k]]

ReleasedAtEnd == released = {c \in Call : pc[c] = "done"}

\* A settled tail stands for its own call and for all that were ahead of it.
SettledPast == /\ settled \subseteq released
               /\ \A c \in settled : \A d \in ahead[c] : pc[d] = "done"

\* Following `previous` reaches everyone that was ahead.
Chain == \A c \in Call : Joined(c) =>
           IF previous[c] = NoCall THEN ahead[c] = {}
           ELSE /\ Joined(previous[c])
                /\ ahead[c] \subseteq {previous[c]} \cup ahead[previous[c]]

\* Of two outstanding calls of one account, one found the other there.
Ordered == \A c, d \in Call : Busy(c) /\ Busy(d) /\ KeyOf(c) = KeyOf(d)
                              => c = d \/ c \in ahead[d] \/ d \in ahead[c]

\* A call that entered found everyone ahead of it gone.
EnteredAlone == \A c \in Call : pc[c] \in {"running", "done"} =>
                  \A d \in ahead[c] : pc[d] = "done"

IInv == /\ TypeOK
        /\ Counted
        /\ TailRegisteredWhileBusy
        /\ LastTail
        /\ ReleasedAtEnd
        /\ SettledPast
        /\ Chain
        /\ Ordered
        /\ EnteredAlone
-----------------------------------------------------------------------------
\* The keys of the calls are keys.
LEMMA KeyTyping == ASSUME NEW c \in Call PROVE KeyOf(c) \in Key
BY KeyAssumption DEF KeyOf

\* Only the lane of the acting call changes, by that call.
LEMMA OutstandingAfterJoin ==
  ASSUME TypeOK, NEW c \in Call, Join(c), NEW k \in Key
  PROVE  /\ k = KeyOf(c) => Outstanding(k)' = Outstanding(k) \cup {c}
         /\ k # KeyOf(c) => Outstanding(k)' = Outstanding(k)
         /\ c \notin Outstanding(k)
BY DEF TypeOK, Join, Outstanding

LEMMA OutstandingAfterFinish ==
  ASSUME TypeOK, NEW c \in Call, Finish(c), NEW k \in Key
  PROVE  /\ k = KeyOf(c) => Outstanding(k)' = Outstanding(k) \ {c} /\ c \in Outstanding(k)
         /\ k # KeyOf(c) => Outstanding(k)' = Outstanding(k)
BY DEF TypeOK, Finish, Outstanding

\* The remaining actions leave every lane as it is.
LEMMA OutstandingOtherwise ==
  ASSUME TypeOK, NEW c \in Call, Refuse(c) \/ Enter(c) \/ SettleTail(c), NEW k \in Key
  PROVE  Outstanding(k)' = Outstanding(k)
BY DEF TypeOK, Refuse, Enter, SettleTail, Outstanding

\* The operation that finishes while its tail is the registered one is the
\* last of its lane: everyone else there was ahead of it, and is over.
LEMMA LastOneOut ==
  ASSUME IInv, NEW c \in Call, Finish(c), tails[KeyOf(c)] = c
  PROVE  Outstanding(KeyOf(c)) = {c}
<1>1. KeyOf(c) \in Key BY KeyTyping
<1>2. pc[c] = "running" BY DEF Finish
<1>3. c # NoCall BY CallAssumption
<1>4. Outstanding(KeyOf(c)) \subseteq {c} \cup ahead[c]
  BY <1>1, <1>3 DEF IInv, LastTail
<1>5. \A d \in ahead[c] : d \notin Outstanding(KeyOf(c))
  BY <1>2 DEF IInv, EnteredAlone, Outstanding
<1>6. c \in Outstanding(KeyOf(c)) BY <1>2 DEF Outstanding
<1> QED BY <1>4, <1>5, <1>6

LEMMA InitEstablishes == Init => IInv
<1> SUFFICES ASSUME Init PROVE IInv OBVIOUS
<1>1. TypeOK BY DepthAssumption DEF Init, TypeOK
<1>2. \A k \in Key : Outstanding(k) = {} BY DEF Init, Outstanding
<1>3. Counted BY <1>2, FS_EmptySet DEF Init, Counted
<1>4. TailRegisteredWhileBusy BY DEF Init, TailRegisteredWhileBusy
<1>5. LastTail BY DEF Init, LastTail
<1>6. ReleasedAtEnd /\ SettledPast BY DEF Init, ReleasedAtEnd, SettledPast
<1>7. Chain /\ Ordered /\ EnteredAlone
  BY DEF Init, Chain, Ordered, EnteredAlone, Joined, Busy
<1> QED BY <1>1, <1>3, <1>4, <1>5, <1>6, <1>7 DEF IInv

LEMMA JoinPreserves ==
  ASSUME IInv, NEW c \in Call, Join(c)
  PROVE  IInv'
<1> DEFINE k == KeyOf(c)
<1>0. k \in Key /\ TypeOK BY KeyTyping DEF IInv
<1>1. TypeOK' BY <1>0, DepthAssumption DEF TypeOK, Join, Outstanding
<1>2. Counted'
  <2> SUFFICES ASSUME NEW l \in Key
               PROVE IsFiniteSet(Outstanding(l)') /\ depth'[l] = Cardinality(Outstanding(l)')
    BY DEF Counted
  <2>1. IsFiniteSet(Outstanding(l)) /\ depth[l] = Cardinality(Outstanding(l))
    BY DEF IInv, Counted
  <2>2. CASE l = k
    <3>1. Outstanding(l)' = Outstanding(l) \cup {c} /\ c \notin Outstanding(l)
      BY <1>0, <2>2, OutstandingAfterJoin
    <3>2. depth'[l] = depth[l] + 1 BY <1>0, <2>2 DEF Join, TypeOK
    <3> QED BY <2>1, <3>1, <3>2, FS_AddElement
  <2>3. CASE l # k
    BY <1>0, <2>1, <2>3, OutstandingAfterJoin DEF Join, TypeOK
  <2> QED BY <2>2, <2>3
<1>3. TailRegisteredWhileBusy'
  <2>1. c # NoCall BY CallAssumption
  <2>2. depth'[k] # 0 /\ tails'[k] = c BY <1>0 DEF Join, TypeOK
  <2>3. \A l \in Key : l # k => depth'[l] = depth[l] /\ tails'[l] = tails[l]
    BY <1>0 DEF Join, TypeOK
  <2> QED BY <2>1, <2>2, <2>3 DEF IInv, TailRegisteredWhileBusy
<1>4. LastTail'
  <2> SUFFICES ASSUME NEW l \in Key, tails'[l] # NoCall
               PROVE /\ KeyOf(tails'[l]) = l
                     /\ pc'[tails'[l]] \in {"queued", "running"}
                     /\ Outstanding(l)' \subseteq {tails'[l]} \cup ahead'[tails'[l]]
    BY DEF LastTail, Busy
  <2>1. CASE l = k
    <3>1. tails'[l] = c /\ pc'[c] = "queued" /\ ahead'[c] = Outstanding(k)
      BY <1>0, <2>1 DEF Join, TypeOK
    <3>2. Outstanding(l)' = Outstanding(k) \cup {c} BY <1>0, <2>1, OutstandingAfterJoin
    <3> QED BY <2>1, <3>1, <3>2
  <2>2. CASE l # k
    <3>1. tails'[l] = tails[l] /\ tails[l] \in Call BY <1>0, <2>2 DEF Join, TypeOK
    <3>2. KeyOf(tails[l]) = l /\ Busy(tails[l])
          /\ Outstanding(l) \subseteq {tails[l]} \cup ahead[tails[l]]
      BY <3>1 DEF IInv, LastTail
    <3>3. Outstanding(l)' = Outstanding(l) BY <1>0, <2>2, OutstandingAfterJoin
    <3>4. pc'[tails[l]] = pc[tails[l]] /\ ahead'[tails[l]] = ahead[tails[l]]
      BY <2>2, <3>1, <3>2, <1>0 DEF Join, TypeOK
    <3> QED BY <3>1, <3>2, <3>3, <3>4 DEF Busy
  <2> QED BY <2>1, <2>2
<1>5. ReleasedAtEnd' BY <1>0 DEF IInv, ReleasedAtEnd, Join, TypeOK
<1>6. SettledPast'
  <2>1. \A d \in Call : pc[d] = "done" => pc'[d] = "done" /\ ahead'[d] = ahead[d]
    BY <1>0 DEF Join, TypeOK
  <2> QED BY <1>0, <2>1 DEF IInv, SettledPast, ReleasedAtEnd, Join, TypeOK
<1>7. Chain'
  <2> SUFFICES ASSUME NEW d \in Call, pc'[d] \in {"queued", "running", "done"}
               PROVE IF previous'[d] = NoCall THEN ahead'[d] = {}
                     ELSE /\ pc'[previous'[d]] \in {"queued", "running", "done"}
                          /\ ahead'[d] \subseteq {previous'[d]} \cup ahead'[previous'[d]]
    BY DEF Chain, Joined
  <2>1. CASE d = c
    <3>1. previous'[c] = tails[k] /\ ahead'[c] = Outstanding(k) BY <1>0 DEF Join, TypeOK
    <3>2. CASE tails[k] = NoCall
      <4>1. Cardinality(Outstanding(k)) = 0 /\ IsFiniteSet(Outstanding(k))
        BY <1>0, <3>2 DEF IInv, TailRegisteredWhileBusy, Counted
      <4>2. Outstanding(k) = {} BY <4>1, FS_EmptySet
      <4> QED BY <2>1, <3>1, <3>2, <4>2
    <3>3. CASE tails[k] # NoCall
      <4>1. tails[k] \in Call /\ pc[tails[k]] \in {"queued", "running"}
        BY <1>0, <3>3 DEF IInv, LastTail, TypeOK, Busy
      <4>2. tails[k] # c BY <4>1 DEF Join
      <4>3. pc'[tails[k]] = pc[tails[k]] /\ ahead'[tails[k]] = ahead[tails[k]]
        BY <1>0, <4>1, <4>2 DEF Join, TypeOK
      <4>4. Outstanding(k) \subseteq {tails[k]} \cup ahead[tails[k]]
        BY <1>0, <3>3 DEF IInv, LastTail
      <4> QED BY <2>1, <3>1, <3>3, <4>1, <4>3, <4>4
    <3> QED BY <3>2, <3>3
  <2>2. CASE d # c
    <3>1. pc'[d] = pc[d] /\ previous'[d] = previous[d] /\ ahead'[d] = ahead[d]
      BY <1>0, <2>2 DEF Join, TypeOK
    <3>2. \A e \in Call : Joined(e) => pc'[e] = pc[e] /\ ahead'[e] = ahead[e]
      BY <1>0 DEF Joined, Join, TypeOK
    <3>3. previous[d] \in Call \cup {NoCall} BY <1>0 DEF TypeOK
    <3>4. IF previous[d] = NoCall THEN ahead[d] = {}
          ELSE Joined(previous[d]) /\ ahead[d] \subseteq {previous[d]} \cup ahead[previous[d]]
      BY <3>1 DEF IInv, Chain, Joined
    <3> QED BY <3>1, <3>2, <3>3, <3>4 DEF Joined
  <2> QED BY <2>1, <2>2
<1>8. Ordered'
  <2> SUFFICES ASSUME NEW d \in Call, NEW e \in Call, Busy(d)', Busy(e)', KeyOf(d) = KeyOf(e)
               PROVE d = e \/ d \in ahead'[e] \/ e \in ahead'[d]
    BY DEF Ordered, Busy
  <2>1. \A f \in Call : f # c => pc'[f] = pc[f] /\ ahead'[f] = ahead[f]
    BY <1>0 DEF Join, TypeOK
  <2>2. ahead'[c] = Outstanding(k) BY <1>0 DEF Join, TypeOK
  <2>3. CASE d # c /\ e # c BY <2>1, <2>3 DEF IInv, Ordered, Busy
  <2>4. CASE d = c /\ e # c BY <2>1, <2>2, <2>4 DEF Outstanding, Busy
  <2>5. CASE d # c /\ e = c BY <2>1, <2>2, <2>5 DEF Outstanding, Busy
  <2> QED BY <2>3, <2>4, <2>5
<1>9. EnteredAlone'
  <2>1. \A f \in Call : pc'[f] \in {"running", "done"}
                          => pc'[f] = pc[f] /\ ahead'[f] = ahead[f]
    BY <1>0 DEF Join, TypeOK
  <2>2. \A f \in Call : pc[f] = "done" => pc'[f] = "done" BY <1>0 DEF Join, TypeOK
  <2>3. \A f \in Call : ahead[f] \subseteq Call BY <1>0 DEF TypeOK
  <2> QED BY <2>1, <2>2, <2>3 DEF IInv, EnteredAlone
<1> QED BY <1>1, <1>2, <1>3, <1>4, <1>5, <1>6, <1>7, <1>8, <1>9 DEF IInv

LEMMA FinishPreserves ==
  ASSUME IInv, NEW c \in Call, Finish(c)
  PROVE  IInv'
<1> DEFINE k == KeyOf(c)
<1>0. k \in Key /\ TypeOK /\ pc[c] = "running" BY KeyTyping DEF IInv, Finish
<1>a. /\ IsFiniteSet(Outstanding(k)) /\ depth[k] = Cardinality(Outstanding(k))
      /\ Outstanding(k)' = Outstanding(k) \ {c} /\ c \in Outstanding(k)
  BY <1>0, OutstandingAfterFinish DEF IInv, Counted
<1>b. IsFiniteSet(Outstanding(k)') /\ Cardinality(Outstanding(k)') = depth[k] - 1
  BY <1>a, FS_RemoveElement
<1>c. depth[k] - 1 \in Nat BY <1>b, FS_CardinalityType
<1>d. \A d \in Call : d # c => pc'[d] = pc[d] BY <1>0 DEF Finish, TypeOK
<1>e. pc'[c] = "done" /\ ahead' = ahead /\ previous' = previous
  BY <1>0 DEF Finish, TypeOK
<1>1. TypeOK'
  <2>1. depth[k] - 1 \in 0 .. MaxQueueDepth BY <1>0, <1>c, DepthAssumption DEF TypeOK
  <2>2. depth' = [depth EXCEPT ![k] = depth[k] - 1] BY DEF Finish
  <2>3. depth' \in [Key -> 0 .. MaxQueueDepth] BY <1>0, <2>1, <2>2 DEF TypeOK
  <2>4. tails' \in [Key -> Call \cup {NoCall}] BY <1>0 DEF Finish, TypeOK
  <2> QED BY <1>0, <2>3, <2>4 DEF Finish, TypeOK
<1>2. Counted'
  <2> SUFFICES ASSUME NEW l \in Key
               PROVE IsFiniteSet(Outstanding(l)') /\ depth'[l] = Cardinality(Outstanding(l)')
    BY DEF Counted
  <2>1. CASE l = k BY <1>0, <1>b, <2>1 DEF Finish, TypeOK
  <2>2. CASE l # k
    BY <1>0, <2>2, OutstandingAfterFinish DEF IInv, Counted, Finish, TypeOK
  <2> QED BY <2>1, <2>2
<1>f. tails[k] = c => depth[k] - 1 = 0
  <2> SUFFICES ASSUME tails[k] = c PROVE depth[k] - 1 = 0 OBVIOUS
  <2>1. Outstanding(k) = {c} BY LastOneOut
  <2>2. Outstanding(k)' = {} BY <1>a, <2>1
  <2> QED BY <1>b, <2>2, FS_EmptySet
<1>g. tails[k] # c => depth[k] - 1 # 0 /\ tails[k] # NoCall
  <2> SUFFICES ASSUME tails[k] # c PROVE depth[k] - 1 # 0 /\ tails[k] # NoCall OBVIOUS
  <2>1. depth[k] # 0 BY <1>c, <1>0 DEF TypeOK
  <2>2. tails[k] # NoCall BY <1>0, <2>1 DEF IInv, TailRegisteredWhileBusy
  <2>3. tails[k] \in Call /\ Busy(tails[k]) /\ KeyOf(tails[k]) = k
    BY <1>0, <2>2 DEF IInv, LastTail, TypeOK
  <2>4. tails[k] \in Outstanding(k)' BY <1>a, <2>3 DEF Outstanding, Busy
  <2>5. Cardinality(Outstanding(k)') # 0 BY <1>b, <2>4, FS_EmptySet
  <2> QED BY <1>b, <2>2, <2>5
<1>h. tails' = IF tails[k] = c THEN [tails EXCEPT ![k] = NoCall] ELSE tails
  BY <1>f DEF Finish
<1>3. TailRegisteredWhileBusy'
  <2> SUFFICES ASSUME NEW l \in Key PROVE (tails'[l] = NoCall) <=> (depth'[l] = 0)
    BY DEF TailRegisteredWhileBusy
  <2>1. CASE l = k BY <1>0, <1>f, <1>g, <1>h, <2>1 DEF Finish, TypeOK
  <2>2. CASE l # k
    BY <1>0, <1>h, <2>2 DEF IInv, TailRegisteredWhileBusy, Finish, TypeOK
  <2> QED BY <2>1, <2>2
<1>4. LastTail'
  <2> SUFFICES ASSUME NEW l \in Key, tails'[l] # NoCall
               PROVE /\ KeyOf(tails'[l]) = l
                     /\ pc'[tails'[l]] \in {"queued", "running"}
                     /\ Outstanding(l)' \subseteq {tails'[l]} \cup ahead'[tails'[l]]
    BY DEF LastTail, Busy
  <2>1. tails'[l] = tails[l] /\ tails[l] \in Call BY <1>0, <1>h DEF TypeOK
  <2>2. KeyOf(tails[l]) = l /\ Busy(tails[l])
        /\ Outstanding(l) \subseteq {tails[l]} \cup ahead[tails[l]]
    BY <2>1 DEF IInv, LastTail
  <2>3. tails[l] # c
    <3> SUFFICES ASSUME tails[l] = c PROVE FALSE OBVIOUS
    <3>1. l = k BY <2>2
    <3>2. tails'[l] = NoCall BY <1>0, <1>h, <3>1 DEF TypeOK
    <3> QED BY <3>2
  <2>4. Outstanding(l)' \subseteq Outstanding(l) BY <1>0, OutstandingAfterFinish
  <2> QED BY <1>d, <1>e, <2>1, <2>2, <2>3, <2>4 DEF Busy
<1>5. ReleasedAtEnd' BY <1>0 DEF IInv, ReleasedAtEnd, Finish, TypeOK
<1>6. SettledPast' BY <1>0 DEF IInv, SettledPast, Finish, TypeOK
<1>7. Chain'
  <2>1. \A d \in Call : Joined(d) <=> pc'[d] \in {"queued", "running", "done"}
    BY <1>0, <1>d, <1>e DEF Joined
  <2>2. \A d \in Call : previous[d] \in Call \cup {NoCall} BY <1>0 DEF TypeOK
  <2> QED BY <1>e, <2>1, <2>2 DEF IInv, Chain, Joined
<1>8. Ordered' BY <1>d, <1>e DEF IInv, Ordered, Busy
<1>9. EnteredAlone'
  <2>1. \A d \in Call : pc'[d] \in {"running", "done"} => pc[d] \in {"running", "done"}
    BY <1>0, <1>d
  <2>2. \A d \in Call : ahead[d] \subseteq Call BY <1>0 DEF TypeOK
  <2> QED BY <1>d, <1>e, <2>1, <2>2 DEF IInv, EnteredAlone
<1> QED BY <1>1, <1>2, <1>3, <1>4, <1>5, <1>6, <1>7, <1>8, <1>9 DEF IInv

\* A call enters only when everyone ahead of it is over.
LEMMA EnterIsAlone ==
  ASSUME IInv, NEW c \in Call, pc[c] \in {"queued", "done"}, PreviousSettled(c)
  PROVE  \A d \in ahead[c] : pc[d] = "done"
<1>1. IF previous[c] = NoCall THEN ahead[c] = {}
      ELSE Joined(previous[c]) /\ ahead[c] \subseteq {previous[c]} \cup ahead[previous[c]]
  BY DEF IInv, Chain, Joined
<1>2. CASE previous[c] = NoCall BY <1>1, <1>2
<1>3. CASE previous[c] # NoCall
  <2>1. previous[c] \in settled BY <1>3 DEF PreviousSettled
  <2>2. pc[previous[c]] = "done" BY <2>1 DEF IInv, SettledPast, ReleasedAtEnd
  <2>3. \A d \in ahead[previous[c]] : pc[d] = "done" BY <2>1 DEF IInv, SettledPast
  <2> QED BY <1>1, <1>3, <2>2, <2>3
<1> QED BY <1>2, <1>3

LEMMA EnterPreserves ==
  ASSUME IInv, NEW c \in Call, Enter(c)
  PROVE  IInv'
<1>0. TypeOK /\ pc[c] = "queued" BY DEF IInv, Enter
<1>a. /\ pc' = [pc EXCEPT ![c] = "running"]
      /\ UNCHANGED <<depth, tails, previous, released, settled, ahead>>
  BY DEF Enter
<1>b. \A d \in Call : /\ Busy(d) <=> pc'[d] \in {"queued", "running"}
                      /\ Joined(d) <=> pc'[d] \in {"queued", "running", "done"}
                      /\ pc[d] = "done" <=> pc'[d] = "done"
  BY <1>0, <1>a DEF Busy, Joined, TypeOK
<1>c. \A l \in Key : Outstanding(l)' = Outstanding(l) BY <1>0, OutstandingOtherwise
<1>1. TypeOK' BY <1>0, <1>a DEF TypeOK
<1>2. Counted' BY <1>a, <1>c DEF IInv, Counted
<1>3. TailRegisteredWhileBusy' BY <1>a DEF IInv, TailRegisteredWhileBusy
<1>4. LastTail'
  <2>1. \A l \in Key : tails[l] \in Call \cup {NoCall} BY <1>0 DEF TypeOK
  <2> QED BY <1>a, <1>b, <1>c, <2>1 DEF IInv, LastTail, Busy
<1>5. ReleasedAtEnd' BY <1>a, <1>b DEF IInv, ReleasedAtEnd
<1>6. SettledPast'
  <2>1. \A d \in Call : ahead[d] \subseteq Call BY <1>0 DEF TypeOK
  <2> QED BY <1>0, <1>a, <1>b, <2>1 DEF IInv, SettledPast, TypeOK
<1>7. Chain'
  <2>1. \A d \in Call : previous[d] \in Call \cup {NoCall} BY <1>0 DEF TypeOK
  <2> QED BY <1>a, <1>b, <2>1 DEF IInv, Chain, Joined
<1>8. Ordered' BY <1>a, <1>b DEF IInv, Ordered, Busy
<1>9. EnteredAlone'
  <2>1. \A d \in ahead[c] : pc[d] = "done" BY <1>0, EnterIsAlone DEF Enter
  <2>2. \A d \in Call : ahead[d] \subseteq Call BY <1>0 DEF TypeOK
  <2>3. \A d \in Call : d # c => pc'[d] = pc[d] BY <1>0, <1>a DEF TypeOK
  <2> QED BY <1>a, <1>b, <2>1, <2>2, <2>3 DEF IInv, EnteredAlone
<1> QED BY <1>1, <1>2, <1>3, <1>4, <1>5, <1>6, <1>7, <1>8, <1>9 DEF IInv

LEMMA RefusePreserves ==
  ASSUME IInv, NEW c \in Call, Refuse(c)
  PROVE  IInv'
<1>0. TypeOK /\ pc[c] = "idle" BY DEF IInv, Refuse
<1>a. /\ pc' = [pc EXCEPT ![c] = "refused"]
      /\ UNCHANGED <<depth, tails, previous, released, settled, ahead>>
  BY DEF Refuse
<1>b. \A d \in Call : /\ Busy(d) <=> pc'[d] \in {"queued", "running"}
                      /\ Joined(d) <=> pc'[d] \in {"queued", "running", "done"}
                      /\ pc[d] = "done" <=> pc'[d] = "done"
                      /\ pc'[d] \in {"running", "done"} => pc[d] = pc'[d]
  BY <1>0, <1>a DEF Busy, Joined, TypeOK
<1>c. \A l \in Key : Outstanding(l)' = Outstanding(l) BY <1>0, OutstandingOtherwise
<1>d. \A d \in Call : ahead[d] \subseteq Call BY <1>0 DEF TypeOK
<1>e. \A d \in Call : previous[d] \in Call \cup {NoCall} BY <1>0 DEF TypeOK
<1>f. \A l \in Key : tails[l] \in Call \cup {NoCall} BY <1>0 DEF TypeOK
<1>1. TypeOK' BY <1>0, <1>a DEF TypeOK
<1>2. Counted' BY <1>a, <1>c DEF IInv, Counted
<1>3. TailRegisteredWhileBusy' BY <1>a DEF IInv, TailRegisteredWhileBusy
<1>4. LastTail' BY <1>a, <1>b, <1>c, <1>f DEF IInv, LastTail, Busy
<1>5. ReleasedAtEnd' BY <1>a, <1>b DEF IInv, ReleasedAtEnd
<1>6. SettledPast' BY <1>0, <1>a, <1>b, <1>d DEF IInv, SettledPast, TypeOK
<1>7. Chain' BY <1>a, <1>b, <1>e DEF IInv, Chain, Joined
<1>8. Ordered' BY <1>a, <1>b DEF IInv, Ordered, Busy
<1>9. EnteredAlone' BY <1>a, <1>b, <1>d DEF IInv, EnteredAlone
<1> QED BY <1>1, <1>2, <1>3, <1>4, <1>5, <1>6, <1>7, <1>8, <1>9 DEF IInv

LEMMA SettleTailPreserves ==
  ASSUME IInv, NEW c \in Call, SettleTail(c)
  PROVE  IInv'
<1>0. TypeOK BY DEF IInv
<1>a. /\ c \in released /\ PreviousSettled(c)
      /\ settled' = settled \cup {c}
      /\ UNCHANGED <<pc, depth, tails, previous, released, ahead>>
  BY DEF SettleTail
<1>b. \A l \in Key : Outstanding(l)' = Outstanding(l) BY <1>0, OutstandingOtherwise
<1>1. TypeOK' BY <1>0, <1>a DEF TypeOK
<1>2. Counted' BY <1>a, <1>b DEF IInv, Counted
<1>3. TailRegisteredWhileBusy' BY <1>a DEF IInv, TailRegisteredWhileBusy
<1>4. LastTail' BY <1>a, <1>b DEF IInv, LastTail, Busy
<1>5. ReleasedAtEnd' BY <1>a DEF IInv, ReleasedAtEnd
<1>6. SettledPast'
  <2>1. pc[c] = "done" BY <1>a DEF IInv, ReleasedAtEnd
  <2>2. \A d \in ahead[c] : pc[d] = "done" BY <1>a, <2>1, EnterIsAlone
  <2> QED BY <1>a, <2>2 DEF IInv, SettledPast
<1>7. Chain' BY <1>a DEF IInv, Chain, Joined
<1>8. Ordered' BY <1>a DEF IInv, Ordered, Busy
<1>9. EnteredAlone' BY <1>a DEF IInv, EnteredAlone
<1> QED BY <1>1, <1>2, <1>3, <1>4, <1>5, <1>6, <1>7, <1>8, <1>9 DEF IInv

\* A step that touches no variable.
LEMMA StutterPreserves == IInv /\ UNCHANGED vars => IInv'
<1> SUFFICES ASSUME IInv, UNCHANGED vars PROVE IInv' OBVIOUS
<1>1. \A l \in Key : Outstanding(l)' = Outstanding(l) BY DEF vars, Outstanding
<1> QED BY <1>1 DEF vars, IInv, TypeOK, Counted, TailRegisteredWhileBusy, LastTail,
        ReleasedAtEnd, SettledPast, Chain, Ordered, EnteredAlone, Joined, Busy

LEMMA Inductive == IInv /\ [Next]_vars => IInv'
<1> SUFFICES ASSUME IInv, [Next]_vars PROVE IInv' OBVIOUS
<1>1. ASSUME NEW c \in Call, Join(c) PROVE IInv' BY <1>1, JoinPreserves
<1>2. ASSUME NEW c \in Call, Refuse(c) PROVE IInv' BY <1>2, RefusePreserves
<1>3. ASSUME NEW c \in Call, Enter(c) PROVE IInv' BY <1>3, EnterPreserves
<1>4. ASSUME NEW c \in Call, Finish(c) PROVE IInv' BY <1>4, FinishPreserves
<1>5. ASSUME NEW c \in Call, SettleTail(c) PROVE IInv' BY <1>5, SettleTailPreserves
<1>6. CASE UNCHANGED vars BY <1>6, StutterPreserves
<1> QED BY <1>1, <1>2, <1>3, <1>4, <1>5, <1>6 DEF Next

LEMMA Invariance == Spec => []IInv
<1>1. Init => IInv BY InitEstablishes
<1>2. IInv /\ [Next]_vars => IInv' BY Inductive
<1> QED BY <1>1, <1>2, PTL DEF Spec

\* Of two running operations of one account, one found the other outstanding
\* when it joined, and entered after that one was over: contradiction.
LEMMA ExclusionFromInvariant == IInv => MutualExclusion
<1> SUFFICES ASSUME IInv, NEW c \in Call, NEW d \in Call,
                    pc[c] = "running", pc[d] = "running", KeyOf(c) = KeyOf(d)
             PROVE  c = d
  BY DEF MutualExclusion
<1>1. c = d \/ c \in ahead[d] \/ d \in ahead[c] BY DEF IInv, Ordered, Busy
<1>2. c \notin ahead[d] /\ d \notin ahead[c] BY DEF IInv, EnteredAlone
<1> QED BY <1>1, <1>2
-----------------------------------------------------------------------------
\* The variables of the coordinator keep their types.
THEOREM TypeCorrect == Spec => []TypeOK
BY Invariance, PTL DEF IInv

\* runExclusive never overlaps two operations of one account, for any number
\* of calls, accounts and spellings of their addresses.
THEOREM Exclusive == Spec => []MutualExclusion
BY Invariance, ExclusionFromInvariant, PTL

\* The counter behind NONCE_QUEUE_FULL is exactly the number of outstanding
\* calls.
THEOREM DepthIsExact == Spec => []DepthExact
<1>1. IInv => DepthExact BY DEF IInv, Counted, DepthExact
<1> QED BY <1>1, Invariance, PTL

\* The tails Map has an entry exactly for the accounts with outstanding calls.
THEOREM TailsAreReclaimed == Spec => []TailRegisteredWhileBusy
BY Invariance, PTL DEF IInv
-----------------------------------------------------------------------------
\* In the abstract section a lane is the key of the call's address.
LEMMA SameOutstanding ==
  ASSUME NEW c \in Call
  PROVE  Section!Outstanding([d \in Call |-> KeyOf(d)][c]) = Outstanding(KeyOf(c))
BY DEF Section!Outstanding, Outstanding

\* The section counts with its own copy of the definition of Cardinality.
LEMMA SameCardinality == \A S : Section!Cardinality(S) = Cardinality(S)
BY DEF Section!Cardinality, Cardinality

\* Each step of the coordinator is a step of the section or changes nothing
\* the section shows.
LEMMA StepImplements ==
  ASSUME IInv, [Next]_vars
  PROVE  [Section!Next]_(Section!vars)
<1>1. ASSUME NEW c \in Call, Join(c) PROVE Section!Next
  <2>1. KeyOf(c) \in Key BY KeyTyping
  <2>2. Cardinality(Outstanding(KeyOf(c))) < MaxQueueDepth
    BY <1>1, <2>1 DEF Join, IInv, Counted
  <2>3. Section!Join(c)
    BY <1>1, <2>2, SameOutstanding, SameCardinality DEF Join, Section!Join
  <2> QED BY <2>3 DEF Section!Next
<1>2. ASSUME NEW c \in Call, Refuse(c) PROVE Section!Next
  <2>1. KeyOf(c) \in Key BY KeyTyping
  <2>2. Cardinality(Outstanding(KeyOf(c))) >= MaxQueueDepth
    BY <1>2, <2>1 DEF Refuse, IInv, Counted
  <2>3. Section!Refuse(c) BY <1>2, <2>2, SameOutstanding, SameCardinality DEF Refuse, Section!Refuse
  <2> QED BY <2>3 DEF Section!Next
<1>3. ASSUME NEW c \in Call, Enter(c) PROVE Section!Next
  <2>1. \A d \in ahead[c] : pc[d] = "done" BY <1>3, EnterIsAlone DEF Enter
  <2>2. Section!Start(c) BY <1>3, <2>1 DEF Enter, Section!Start
  <2> QED BY <2>2 DEF Section!Next
<1>4. ASSUME NEW c \in Call, Finish(c) PROVE Section!Next
  <2>1. Section!Finish(c) BY <1>4 DEF Finish, Section!Finish
  <2> QED BY <2>1 DEF Section!Next
<1>5. ASSUME NEW c \in Call, SettleTail(c) PROVE UNCHANGED Section!vars
  BY <1>5 DEF SettleTail, Section!vars
<1>6. CASE UNCHANGED vars BY <1>6 DEF vars, Section!vars
<1> QED BY <1>1, <1>2, <1>3, <1>4, <1>5, <1>6 DEF Next

\* The chain of promises implements the first-come-first-served, bounded,
\* exclusive section its callers rely on.
THEOREM CoordinatorImplementsSection == Spec => ImplementsSection
<1>1. Init => Section!Init BY DEF Init, Section!Init
<1>2. IInv /\ [Next]_vars => [Section!Next]_(Section!vars) BY StepImplements
<1> QED BY <1>1, <1>2, Invariance, PTL DEF Spec, ImplementsSection, Section!Spec
=============================================================================
