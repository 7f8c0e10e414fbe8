-------------------------- MODULE NonceCoordinator --------------------------
(***************************************************************************)
(* The per-account queue of packages/bsc-core (nonce-coordinator.js):      *)
(* runExclusive(address, operation) runs the operations of one account one *)
(* after the other, by chaining promises.                                  *)
(*                                                                         *)
(* A call c of runExclusive owns two promises: `current`, resolved by      *)
(* release(), and `tail` = previous.then(() => current).  A promise is     *)
(* known here by the call that made it.  An action is what JavaScript runs *)
(* without giving up the thread; the promise jobs between two such runs    *)
(* (SettleTail, Enter) are actions of their own, taken in any order the    *)
(* promises allow.                                                         *)
(***************************************************************************)
EXTENDS Naturals, FiniteSets

CONSTANTS Call,           \* the calls of runExclusive ever made
          Address,        \* account addresses as the callers spell them
          Key,            \* lower-case addresses
          LowerCase,      \* address.toLowerCase()
          AddressOf,      \* AddressOf[c]: the address call c is made with
          MaxQueueDepth,  \* #maxQueueDepth
          NoCall          \* no promise: the Map has no entry

ASSUME CallAssumption == NoCall \notin Call
ASSUME DepthAssumption == MaxQueueDepth \in Nat \ {0}
ASSUME KeyAssumption == /\ LowerCase \in [Address -> Key]
                        /\ AddressOf \in [Call -> Address]

VARIABLES pc,        \* where each call stands
          depth,     \* #depth: 0 stands for no entry
          tails,     \* #tails: the call whose tail promise is registered
          previous,  \* the tail promise a call awaits
          released,  \* calls whose `current` promise is resolved
          settled,   \* calls whose `tail` promise is resolved
          ahead      \* history: who was outstanding when the call joined

vars == <<pc, depth, tails, previous, released, settled, ahead>>

KeyOf(c) == LowerCase[AddressOf[c]]

Outstanding(k) == {d \in Call : KeyOf(d) = k /\ pc[d] \in {"queued", "running"}}

Init == /\ pc = [c \in Call |-> "idle"]
        /\ depth = [k \in Key |-> 0]
        /\ tails = [k \in Key |-> NoCall]
        /\ previous = [c \in Call |-> NoCall]
        /\ released = {}
        /\ settled = {}
        /\ ahead = [c \in Call |-> {}]

\* runExclusive up to its first await: the call is counted, takes the
\* registered tail as its predecessor and registers its own.
Join(c) == LET k == KeyOf(c) IN
  /\ pc[c] = "idle"
  /\ depth[k] < MaxQueueDepth
  /\ depth' = [depth EXCEPT ![k] = @ + 1]
  /\ previous' = [previous EXCEPT ![c] = tails[k]]
  /\ tails' = [tails EXCEPT ![k] = c]
  /\ pc' = [pc EXCEPT ![c] = "queued"]
  /\ ahead' = [ahead EXCEPT ![c] = Outstanding(k)]
  /\ UNCHANGED <<released, settled>>

\* NONCE_QUEUE_FULL: thrown before anything is registered.
Refuse(c) == /\ pc[c] = "idle"
             /\ depth[KeyOf(c)] >= MaxQueueDepth
             /\ pc' = [pc EXCEPT ![c] = "refused"]
             /\ UNCHANGED <<depth, tails, previous, released, settled, ahead>>

\* `previous` is resolved: either Promise.resolve() or a settled tail.
PreviousSettled(c) == previous[c] = NoCall \/ previous[c] \in settled

\* Mutant: previous is not awaited.
EnterAtOnce(c) == /\ pc[c] = "queued"
                  /\ pc' = [pc EXCEPT ![c] = "running"]
                  /\ UNCHANGED <<depth, tails, previous, released, settled, ahead>>

\* await previous returns and operation() is called.
Enter(c) == /\ pc[c] = "queued"
            /\ PreviousSettled(c)
            /\ pc' = [pc EXCEPT ![c] = "running"]
            /\ UNCHANGED <<depth, tails, previous, released, settled, ahead>>

\* Mutant: an operation that throws is not counted down.
FinishUncounted(c) == LET k == KeyOf(c)
                          nextDepth == depth[k] - 1 IN
  /\ pc[c] = "running"
  /\ released' = released \cup {c}
  /\ depth' \in {depth, [depth EXCEPT ![k] = nextDepth]}
  /\ tails' = IF nextDepth = 0 /\ tails[k] = c
                THEN [tails EXCEPT ![k] = NoCall] ELSE tails
  /\ pc' = [pc EXCEPT ![c] = "done"]
  /\ UNCHANGED <<previous, settled, ahead>>

\* Mutant: the Map keeps the last tail for ever.
FinishKeepsTail(c) == LET k == KeyOf(c) IN
  /\ pc[c] = "running"
  /\ released' = released \cup {c}
  /\ depth' = [depth EXCEPT ![k] = @ - 1]
  /\ pc' = [pc EXCEPT ![c] = "done"]
  /\ UNCHANGED <<tails, previous, settled, ahead>>

\* Mutant: release() is not called.
FinishUnreleased(c) == LET k == KeyOf(c)
                           nextDepth == depth[k] - 1 IN
  /\ pc[c] = "running"
  /\ depth' = [depth EXCEPT ![k] = nextDepth]
  /\ tails' = IF nextDepth = 0 /\ tails[k] = c
                THEN [tails EXCEPT ![k] = NoCall] ELSE tails
  /\ pc' = [pc EXCEPT ![c] = "done"]
  /\ UNCHANGED <<previous, released, settled, ahead>>

\* operation() settles, either way, and the finally block runs.
Finish(c) == LET k == KeyOf(c)
                 nextDepth == depth[k] - 1 IN
  /\ pc[c] = "running"
  /\ released' = released \cup {c}
  /\ depth' = [depth EXCEPT ![k] = nextDepth]
  /\ tails' = IF nextDepth = 0 /\ tails[k] = c
                THEN [tails EXCEPT ![k] = NoCall] ELSE tails
  /\ pc' = [pc EXCEPT ![c] = "done"]
  /\ UNCHANGED <<previous, settled, ahead>>

\* The promise job that resolves tail once previous and current are resolved.
SettleTail(c) == /\ c \in released \ settled
                 /\ PreviousSettled(c)
                 /\ settled' = settled \cup {c}
                 /\ UNCHANGED <<pc, depth, tails, previous, released, ahead>>

Next == \E c \in Call : Join(c) \/ Refuse(c) \/ Enter(c) \/ Finish(c) \/ SettleTail(c)

Spec == Init /\ [][Next]_vars

\* Promise jobs always run, and every operation settles: each awaits RPC
\* requests with time limits, bounded retries, and a signer that answers.
FairSpec == /\ Spec
            /\ \A c \in Call : WF_vars(Enter(c)) /\ WF_vars(Finish(c)) /\ WF_vars(SettleTail(c))
-----------------------------------------------------------------------------
\* pc, the two Maps and the promises hold what runExclusive can put there.
TypeOK == /\ pc \in [Call -> {"idle", "queued", "running", "done", "refused"}]
          /\ depth \in [Key -> 0 .. MaxQueueDepth]
          /\ tails \in [Key -> Call \cup {NoCall}]
          /\ previous \in [Call -> Call \cup {NoCall}]
          /\ released \in SUBSET Call
          /\ settled \in SUBSET Call
          /\ ahead \in [Call -> SUBSET Call]

\* Two operations of one account never overlap, however the address is
\* spelled: between reading the pending nonce and broadcasting, a send is
\* alone on its account (runExclusive).
MutualExclusion ==
  \A c, d \in Call : /\ pc[c] = "running" /\ pc[d] = "running"
                     /\ KeyOf(c) = KeyOf(d)
                     => c = d

\* The counter that decides NONCE_QUEUE_FULL is the number of calls that
\* joined and are not over: no exit path loses or repeats a decrement.
DepthExact == \A k \in Key : depth[k] = Cardinality(Outstanding(k))

\* The Map keeps a tail exactly while calls of that account are outstanding:
\* it neither leaks an entry nor forgets the tail a new call must wait for.
TailRegisteredWhileBusy == \A k \in Key : (tails[k] = NoCall) <=> (depth[k] = 0)

\* A call that joined is eventually run to its end: no wake-up is lost in the
\* chain of promises.
JoinedCallsFinish == \A c \in Call : pc[c] = "queued" ~> pc[c] = "done"

\* The queue is the section its callers rely on, first come first served and
\* bounded.
Section == INSTANCE ExclusiveSection
             WITH Lane <- [c \in Call |-> KeyOf(c)], Limit <- MaxQueueDepth, phase <- pc
ImplementsSection == Section!Spec
=============================================================================
