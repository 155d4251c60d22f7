-------------------------- MODULE InheritanceProofs --------------------------
(***************************************************************************)
(* Priority inheritance is exact, for every regular scenario of any size:  *)
(* the incremental boosts and the one-level recalculation of an unlock     *)
(* keep every priority at the maximum over the whole wait-for graph.       *)
(*                                                                         *)
(* Locally, a priority is never below the thread's own base priority, nor  *)
(* below that of a thread that waits for it.  Around a cycle that does not *)
(* say what the priorities are, so the invariant also names a witness: a   *)
(* dependent whose base priority the thread runs at.                       *)
(***************************************************************************)
EXTENDS WaitingProofs

-----------------------------------------------------------------------------
(* The wait-for graph *)

LEMMA DependsOnItself ==
  ASSUME NEW t \in Thread
  PROVE  t \in Dependents(t)
  BY DEF Dependents

(* What holds of t, and of v when it holds of whom v waits for, holds of   *)
(* all dependents of t                                                     *)
LEMMA DependentsWithin ==
  ASSUME NEW t \in Thread, NEW B \in SUBSET Thread, t \in B,
         \A v \in Thread, w \in B : WaitsFor(v, w) => v \in B
  PROVE  Dependents(t) \subseteq B
  BY DEF Dependents

(* Together they say what the priorities are *)
LEMMA MonotoneBounds ==
  ASSUME InheritOK, ValidScenario(scenario), Monotone, NEW t \in Thread
  PROVE  \A u \in Dependents(t) : priority[u] <= priority[t] /\ BasePriority(u) <= priority[t]
<1> DEFINE B == {v \in Thread : priority[v] <= priority[t]}
<1>0. \A v \in Thread : priority[v] \in Int /\ BasePriority(v) \in Int
  BY DEF InheritOK, ValidScenario, BasePriority
<1>1. t \in B
  BY <1>0
<1>2. \A v \in Thread, w \in B : WaitsFor(v, w) => v \in B
  BY <1>0 DEF Monotone
<1>3. Dependents(t) \subseteq B
  BY <1>1, <1>2, DependentsWithin
<1> QED BY <1>0, <1>3 DEF Monotone

LEMMA ExactPriority ==
  ASSUME InheritOK, ValidScenario(scenario), Monotone, NEW t \in Thread, Witnessed(t)
  PROVE  priority[t] = InheritedPriority(t)
<1> DEFINE P == {BasePriority(u) : u \in Dependents(t)}
<1>1. P \subseteq Int
  BY DEF ValidScenario, BasePriority, Dependents
<1>2. priority[t] \in P
  BY DEF Witnessed
<1>3. \A p \in P : p <= priority[t]
  BY MonotoneBounds
<1> HIDE DEF P
<1>4. Max(P) = priority[t]
  <2>1. priority[t] \in P /\ \A p \in P : priority[t] >= p
    BY <1>1, <1>2, <1>3
  <2>2. Max(P) \in P /\ \A p \in P : Max(P) >= p
    BY <2>1, Zenon DEF Max
  <2>3. Max(P) \in Int /\ priority[t] \in Int
    BY <1>1, <2>1, <2>2
  <2>4. Max(P) >= priority[t] /\ priority[t] >= Max(P)
    BY <2>1, <2>2
  <2> HIDE DEF Max
  <2> QED BY <2>3, <2>4
<1> QED BY <1>4 DEF P, InheritedPriority

-----------------------------------------------------------------------------
(* Steps that leave the graph and the priorities alone *)

SameGraph == \A v, w \in Thread : WaitsFor(v, w)' <=> WaitsFor(v, w)

LEMMA SameGraphKeeps ==
  ASSUME SameGraph, scenario' = scenario, priority' = priority,
         Monotone, \A u \in Thread : Witnessed(u)
  PROVE  Monotone' /\ \A u \in Thread : Witnessed(u)'
<1>1. \A u \in Thread : Dependents(u)' = Dependents(u)
  BY DEF SameGraph, Dependents
<1> QED BY <1>1 DEF SameGraph, Monotone, Witnessed, BasePriority

(* The threads asleep on mutexes and the owners of these stay the same *)
MutexSleepersKeep ==
  /\ \A u \in Thread : state'[u] = "BLOCKED_MUTEX" <=> state[u] = "BLOCKED_MUTEX"
  /\ \A u \in Thread : state[u] = "BLOCKED_MUTEX" =>
       blocked_on'[u] = blocked_on[u] /\ owner'[blocked_on[u]] = owner[blocked_on[u]]

LEMMA SleepersKeepGraph ==
  ASSUME MutexSleepersKeep
  PROVE  SameGraph
  BY DEF MutexSleepersKeep, SameGraph, WaitsFor

-----------------------------------------------------------------------------
(* smash_mutex_lock blocks: t now waits for the owner, and the boost runs  *)
(* along the chain of owners until one has the priority of t already       *)

LEMMA BoostedSet ==
  ASSUME InheritOK, NEW first \in Thread, NEW t \in Thread
  PROVE  /\ Boosted(first, priority[t]) \subseteq {u \in Thread : priority[u] < priority[t]}
         /\ ClosedUnderBoost(Boosted(first, priority[t]), first, priority[t])
<1> DEFINE p == priority[t]
<1>1. ClosedUnderBoost({u \in Thread : priority[u] < p}, first, p)
  BY DEF ClosedUnderBoost
<1>2. Boosted(first, p) \subseteq {u \in Thread : priority[u] < p}
  BY <1>1 DEF Boosted
<1>3. ASSUME NEW u \in Thread, priority[u] < p,
             u = first \/ \E v \in Boosted(first, p) : u = NextOwner(v),
             NEW B \in SUBSET Thread, ClosedUnderBoost(B, first, p)
      PROVE  u \in B
  <2>1. Boosted(first, p) \subseteq B
    BY <1>3 DEF Boosted
  <2> QED BY <1>3, <2>1 DEF ClosedUnderBoost
<1>4. ClosedUnderBoost(Boosted(first, p), first, p)
  BY <1>3 DEF ClosedUnderBoost, Boosted
<1> QED BY <1>2, <1>4

LEMMA NextOwnerIsWaitedFor ==
  ASSUME SchedOK, NoTimers, NEW v \in Thread
  PROVE  /\ \A w \in Thread : WaitsFor(v, w) => NextOwner(v) = w
         /\ NextOwner(v) \in Thread => NextOwner(v) = v \/ WaitsFor(v, NextOwner(v))
<1>1. TickedState = state /\ TickedBlockedOn = blocked_on
  BY TimeStandsStill
<1> QED BY <1>1 DEF WaitsFor, NextOwner, Thread, NoThread

(* t waits for o now, everyone else for whom they did *)
NewEdge(t, o) ==
  \A v, w \in Thread : WaitsFor(v, w)' <=> WaitsFor(v, w) \/ (v = t /\ w = o)

LEMMA BoostKeepsMonotone ==
  ASSUME SchedOK, InheritOK, ValidScenario(scenario), NoTimers, scenario' = scenario,
         NEW t \in Thread, NEW o \in Thread, state[t] = "READY", NewEdge(t, o), Monotone,
         priority' = [u \in Thread |-> IF u \in Boosted(o, priority[t])
                                       THEN priority[t] ELSE priority[u]]
  PROVE  Monotone'
<1> DEFINE p == priority[t]
           B == Boosted(o, p)
<1>0. \A v \in Thread : priority[v] \in Int /\ BasePriority(v) \in Int
  BY DEF InheritOK, ValidScenario, BasePriority
<1>1. \A u \in Thread : u \in B => priority[u] < p
  BY BoostedSet
<1>2. \A u \in Thread : priority[u] < p /\ (u = o \/ \E v \in B : u = NextOwner(v)) => u \in B
  BY BoostedSet DEF ClosedUnderBoost
<1>3. \A u \in Thread : priority'[u] = IF u \in B THEN p ELSE priority[u]
  OBVIOUS
<1>4. \A v, w \in Thread : WaitsFor(v, w) => priority[v] <= priority[w] /\ NextOwner(v) = w
  BY NextOwnerIsWaitedFor DEF Monotone
<1>5. p \in Int
  BY <1>0
<1> HIDE DEF B, p
<1>6. ASSUME NEW v \in Thread, NEW w \in Thread, WaitsFor(v, w)
      PROVE  priority'[v] <= priority'[w]
  BY <1>0, <1>1, <1>2, <1>3, <1>4, <1>5, <1>6
<1>7. priority'[t] <= priority'[o]
  <2>1. priority'[t] = p
    BY <1>3 DEF p
  <2> QED BY <1>0, <1>2, <1>3, <1>5, <2>1
<1>8. \A u \in Thread : BasePriority(u)' <= priority'[u]
  <2>1. \A u \in Thread : BasePriority(u)' = BasePriority(u) /\ BasePriority(u) <= priority[u]
    BY DEF BasePriority, Monotone
  <2> QED BY <1>0, <1>1, <1>3, <1>5, <2>1
<1> QED BY <1>6, <1>7, <1>8 DEF Monotone, NewEdge

LEMMA BoostKeepsWitness ==
  ASSUME SchedOK, NoTimers, scenario' = scenario,
         NEW t \in Thread, NEW o \in Thread, state[t] = "READY", NewEdge(t, o),
         \A u \in Thread : Witnessed(u),
         priority' = [u \in Thread |-> IF u \in Boosted(o, priority[t])
                                       THEN priority[t] ELSE priority[u]],
         NEW u \in Thread
  PROVE  Witnessed(u)'
<1> DEFINE p == priority[t]
           Above == {x \in Thread : t \in Dependents(x)'}
<1>1. \A x \in Thread : Dependents(x) \subseteq Dependents(x)'
  BY DEF Dependents, NewEdge
<1>2. \A x \in Thread, y \in Thread : x \in Dependents(y)' => Dependents(x)' \subseteq Dependents(y)'
  <2>1. ASSUME NEW x \in Thread, NEW y \in Thread, x \in Dependents(y)',
               NEW z \in Dependents(x)', NEW C \in SUBSET Thread, y \in C,
               \A v \in Thread, w \in C : WaitsFor(v, w)' => v \in C
        PROVE  z \in C
    <3>1. x \in C
      BY <2>1 DEF Dependents
    <3> QED BY <2>1, <3>1 DEF Dependents
  <2>2. \A x \in Thread : Dependents(x)' \subseteq Thread
    BY DEF Dependents
  <2> QED BY <2>1, <2>2 DEF Dependents
<1>3. ClosedUnderBoost(Above, o, p)
  <2>1. WaitsFor(t, o)'
    BY DEF NewEdge
  <2>2. t \in Dependents(o)'
    BY <2>1 DEF Dependents
  <2>3. ASSUME NEW v \in Above, NEW x \in Thread, x = NextOwner(v)
        PROVE  x \in Above
    <3>1. x = v \/ WaitsFor(v, x)
      BY <2>3, NextOwnerIsWaitedFor
    <3>2. CASE WaitsFor(v, x)
      <4>1. WaitsFor(v, x)'
        BY <3>2 DEF NewEdge
      <4>2. v \in Dependents(x)'
        BY <4>1 DEF Dependents
      <4> QED BY <1>2, <4>2
    <3> QED BY <3>1, <3>2
  <2> QED BY <2>2, <2>3 DEF ClosedUnderBoost
<1>4. Boosted(o, p) \subseteq Above
  BY <1>3 DEF Boosted
<1>5. PICK x \in Dependents(u) : priority[u] = BasePriority(x)
  BY DEF Witnessed
<1>6. PICK y \in Dependents(t) : priority[t] = BasePriority(y)
  BY DEF Witnessed
<1>7. \A z : BasePriority(z)' = BasePriority(z)
  BY DEF BasePriority
<1>8. CASE u \in Boosted(o, p)
  <2>1. y \in Dependents(u)'
    BY <1>1, <1>2, <1>4, <1>6, <1>8
  <2> QED BY <1>6, <1>7, <1>8, <2>1 DEF Witnessed
<1>9. CASE u \notin Boosted(o, p)
  BY <1>1, <1>5, <1>7, <1>9 DEF Witnessed
<1> QED BY <1>8, <1>9

-----------------------------------------------------------------------------
(* smash_mutex_unlock: who waited for t at r waits for the new owner, who  *)
(* is a best of them; t keeps what it inherits through its other mutexes   *)

LetsGo(t, r) ==
  /\ \A v \in Thread : WaitsFor(v, t)' <=> WaitsFor(v, t) /\ blocked_on[v] # r
  /\ \A v \in Thread, x \in Thread \ {t} :
       /\ WaitsFor(v, x) => WaitsFor(v, x)'
       /\ WaitsFor(v, x)' => priority[v] <= priority[x]
  /\ \A x \in Thread : ~WaitsFor(t, x) /\ ~WaitsFor(t, x)'

Recalculated(t, r) ==
  /\ BasePriority(t) <= priority'[t]
  /\ \A v \in Thread : WaitsFor(v, t) /\ blocked_on[v] # r => priority[v] <= priority'[t]
  /\ \/ priority'[t] = BasePriority(t)
     \/ \E v \in Thread : /\ WaitsFor(v, t) /\ blocked_on[v] # r
                          /\ priority'[t] = priority[v]
  /\ \A u \in Thread \ {t} : priority'[u] = priority[u]

LEMMA UnlockKeepsMonotone ==
  ASSUME scenario' = scenario, Monotone, NEW t \in Thread, NEW r \in Resource,
         LetsGo(t, r), Recalculated(t, r)
  PROVE  Monotone'
<1>1. ASSUME NEW v \in Thread, NEW x \in Thread, WaitsFor(v, x)'
      PROVE  priority'[v] <= priority'[x]
  <2>1. v # t
    BY <1>1 DEF LetsGo
  <2>2. CASE x = t
    BY <1>1, <2>1, <2>2 DEF LetsGo, Recalculated
  <2>3. CASE x # t
    BY <1>1, <2>1, <2>3 DEF LetsGo, Recalculated
  <2> QED BY <2>2, <2>3
<1>2. \A u \in Thread : BasePriority(u)' <= priority'[u]
  BY DEF Monotone, Recalculated, BasePriority
<1> QED BY <1>1, <1>2 DEF Monotone

LEMMA UnlockKeepsWitness ==
  ASSUME scenario' = scenario, NEW t \in Thread, NEW r \in Resource,
         LetsGo(t, r), Recalculated(t, r), \A u \in Thread : Witnessed(u), NEW u \in Thread
  PROVE  Witnessed(u)'
<1>0. \A z : BasePriority(z)' = BasePriority(z)
  BY DEF BasePriority
<1>1. ASSUME NEW x \in Thread \ {t}
      PROVE  Dependents(x) \subseteq Dependents(x)'
  <2> SUFFICES ASSUME NEW y \in Dependents(x), NEW B \in SUBSET Thread, x \in B,
                      \A v \in Thread, w \in B : WaitsFor(v, w)' => v \in B
               PROVE  y \in B
    BY DEF Dependents
  <2> DEFINE C == B \ {t}
  <2>1. \A v \in Thread, w \in C : WaitsFor(v, w) => v \in C
    BY DEF LetsGo
  <2>2. Dependents(x) \subseteq C
    BY <2>1, DependentsWithin
  <2> QED BY <2>2
<1>2. ASSUME NEW x \in Thread \ {t}
      PROVE  Witnessed(x)'
  BY <1>0, <1>1, <1>2 DEF Witnessed, Recalculated
<1>3. Witnessed(t)'
  <2>1. CASE priority'[t] = BasePriority(t)
    <3>1. t \in Dependents(t)'
      BY DEF Dependents
    <3> QED BY <1>0, <2>1, <3>1 DEF Witnessed
  <2>2. CASE priority'[t] # BasePriority(t)
    <3>1. PICK v \in Thread : /\ WaitsFor(v, t) /\ blocked_on[v] # r
                              /\ priority'[t] = priority[v]
      BY <2>2 DEF Recalculated
    <3>2. v # t /\ WaitsFor(v, t)'
      BY <3>1 DEF LetsGo
    <3>3. PICK x \in Dependents(v)' : priority'[v] = BasePriority(x)
      BY <1>0, <1>2, <3>2 DEF Witnessed
    <3>4. x \in Dependents(t)'
      BY <3>2, <3>3 DEF Dependents
    <3>5. priority'[t] = BasePriority(x)
      BY <3>1, <3>2, <3>3 DEF Recalculated
    <3> QED BY <1>0, <3>4, <3>5 DEF Witnessed
  <2> QED BY <2>1, <2>2
<1> QED BY <1>2, <1>3

-----------------------------------------------------------------------------
(* Queues of mutexes hold exactly the threads blocked on them *)

LEMMA MutexQueue ==
  ASSUME Typed, Settled, NEW m \in OfType("MUTEX"), NEW v \in Thread
  PROVE  v \in QueuedOn(m) <=> state[v] = "BLOCKED_MUTEX" /\ blocked_on[v] = m
<1>1. m \in Resource
  BY DEF OfType
<1>2. ASSUME v \in QueuedOn(m)
      PROVE  state[v] = "BLOCKED_MUTEX" /\ blocked_on[v] = m
  BY <1>1, <1>2 DEF QueuedOn, Settled, ExactQueue, WaitsIn, OffMutex, BlockedStates
<1>3. ASSUME state[v] = "BLOCKED_MUTEX" /\ blocked_on[v] = m
      PROVE  v \in QueuedOn(m)
  BY <1>3 DEF Settled, BlockedAreQueued, BlockedStates
<1> QED BY <1>2, <1>3

LEMMA WaitsForOwner ==
  ASSUME Typed, Settled, NEW v \in Thread, NEW x \in Thread
  PROVE  WaitsFor(v, x) <=>
           x # v /\ \E m \in OfType("MUTEX") : v \in QueuedOn(m) /\ owner[m] = x
<1>1. ASSUME WaitsFor(v, x)
      PROVE  \E m \in OfType("MUTEX") : v \in QueuedOn(m) /\ owner[m] = x
  BY <1>1, MutexQueue DEF WaitsFor, Settled, OnMutex
<1>2. ASSUME x # v, NEW m \in OfType("MUTEX"), v \in QueuedOn(m), owner[m] = x
      PROVE  WaitsFor(v, x)
  BY <1>2, MutexQueue DEF WaitsFor, OfType
<1> QED BY <1>1, <1>2 DEF WaitsFor

LEMMA LockAddsEdge ==
  ASSUME Typed, Settled, NEW t \in Thread, state[t] = "READY",
         NEW r \in OfType("MUTEX"), LockBlock(t, r, 0)
  PROVE  owner[r] \in Thread /\ NewEdge(t, owner[r])
<1>1. /\ r \in Resource /\ owner[r] \in Thread /\ owner[r] # t
      /\ owner' = owner
  BY DEF LockBlock, LockFault, OfType, Typed, ModelOK, ObjectOK
<1>2. Unmoved({t}) /\ state'[t] = "BLOCKED_MUTEX" /\ blocked_on'[t] = r
  BY BlockUnmoved DEF LockBlock, Typed, Settled
<1> QED BY <1>1, <1>2 DEF NewEdge, WaitsFor, Unmoved

LEMMA RecalcIsExact ==
  ASSUME Typed, Settled, NEW t \in Thread, NEW r \in OfType("MUTEX"), owner[r] = t,
         state[t] = "READY", RecalcPriority(t, r)
  PROVE  Recalculated(t, r)
<1>1. PICK p \in PriorityClaims(t, r) :
        /\ \A q \in PriorityClaims(t, r) : q <= p
        /\ priority' = [priority EXCEPT ![t] = p]
  BY DEF RecalcPriority
<1>2. priority'[t] = p /\ \A u \in Thread \ {t} : priority'[u] = priority[u]
  BY <1>1 DEF Typed, ModelOK, InheritOK
<1>3. BasePriority(t) \in PriorityClaims(t, r)
  BY DEF PriorityClaims
<1>4. ASSUME NEW v \in Thread, WaitsFor(v, t), blocked_on[v] # r
      PROVE  priority[v] \in PriorityClaims(t, r)
  <2>1. PICK m \in OfType("MUTEX") : v \in QueuedOn(m) /\ owner[m] = t
    BY <1>4, WaitsForOwner
  <2>2. m # r
    BY <1>4, <2>1, MutexQueue
  <2> QED BY <2>1, <2>2 DEF PriorityClaims, OfType
<1>5. ASSUME p # BasePriority(t)
      PROVE  \E v \in Thread : WaitsFor(v, t) /\ blocked_on[v] # r /\ p = priority[v]
  <2>1. PICK m \in Resource : /\ m # r /\ ResType(m) = "MUTEX" /\ owner[m] = t
                              /\ p \in {priority[v] : v \in QueuedOn(m)}
    BY <1>1, <1>5 DEF PriorityClaims
  <2>2. PICK v \in QueuedOn(m) : p = priority[v]
    BY <2>1
  <2>3. v \in Thread /\ m \in OfType("MUTEX")
    BY <2>1, QueuedAreThreads DEF Typed, ModelOK, OfType
  <2>4. state[v] = "BLOCKED_MUTEX" /\ blocked_on[v] = m
    BY <2>2, <2>3, MutexQueue
  <2>5. WaitsFor(v, t)
    BY <2>1, <2>2, <2>3, <2>4 DEF WaitsFor
  <2> QED BY <2>1, <2>2, <2>3, <2>4, <2>5
<1> QED BY <1>1, <1>2, <1>3, <1>4, <1>5 DEF Recalculated

LEMMA FreeLetsGo ==
  ASSUME Typed, Settled, Monotone, NEW t \in Thread, state[t] = "READY",
         NEW r \in OfType("MUTEX"), UnlockFree(t, r)
  PROVE  LetsGo(t, r) /\ Recalculated(t, r)
<1>0. r \in Resource /\ owner[r] = t /\ RecalcPriority(t, r)
  BY DEF OfType, UnlockFree, UnlockFault
<1>1. \A v \in Thread : ~(state[v] = "BLOCKED_MUTEX" /\ blocked_on[v] = r)
  BY MutexQueue DEF UnlockFree, QueuedOn
<1>2. state' = state /\ blocked_on' = blocked_on
  BY StayUnmoved DEF UnlockFree, Typed, Settled
<1>3. \A m \in Resource \ {r} : owner'[m] = owner[m]
  BY <1>0 DEF UnlockFree, Typed, ModelOK, ObjectOK
<1>4. \A v, x \in Thread : WaitsFor(v, x)' <=> WaitsFor(v, x)
  BY <1>1, <1>2, <1>3 DEF WaitsFor
<1>5. LetsGo(t, r)
  BY <1>1, <1>4 DEF LetsGo, Monotone, WaitsFor
<1> QED BY <1>0, <1>5, RecalcIsExact

LEMMA HandoffLetsGo ==
  ASSUME Typed, Settled, Monotone, NEW t \in Thread, state[t] = "READY",
         NEW r \in OfType("MUTEX"), UnlockHandoff(t, r)
  PROVE  /\ LetsGo(t, r) /\ Recalculated(t, r)
         /\ owner'[r] \in QueuedOn(r)
         /\ \A v \in QueuedOn(r) : priority[v] <= priority[owner'[r]]
<1>0. /\ r \in Resource /\ owner[r] = t /\ RecalcPriority(t, r)
      /\ SchedOK /\ ObjectOK /\ NoTimers
  BY DEF OfType, UnlockHandoff, UnlockFault, Typed, ModelOK, Settled
<1>1. Recalculated(t, r)
  BY <1>0, RecalcIsExact
<1>2. PICK i \in 1 .. Len(waiters[r]) :
        /\ IsBest(waiters[r], priority', i)
        /\ owner' = [owner EXCEPT ![r] = waiters[r][i]]
        /\ WakeAndAdvance(t, {waiters[r][i]}, 1)
  BY DEF UnlockHandoff
<1> DEFINE w == waiters[r][i]
<1>3. w \in QueuedOn(r) /\ w \in Thread
  BY <1>0, QueuedAreThreads DEF QueuedOn
<1>4. \A v \in Thread : v \in QueuedOn(r) <=> state[v] = "BLOCKED_MUTEX" /\ blocked_on[v] = r
  BY MutexQueue
<1>5. \A v \in QueuedOn(r) : v \in Thread \ {t} /\ priority'[v] = priority[v]
  BY <1>0, <1>1, <1>4, QueuedAreThreads DEF Recalculated
<1>6. \A v \in QueuedOn(r) : priority[v] <= priority[w]
  <2>1. \A k \in 1 .. Len(waiters[r]) : priority'[waiters[r][k]] <= priority'[w]
    BY <1>2 DEF IsBest
  <2> QED BY <1>3, <1>5, <2>1 DEF QueuedOn
<1>7. owner'[r] = w /\ \A m \in Resource \ {r} : owner'[m] = owner[m]
  BY <1>0, <1>2 DEF ObjectOK
<1>8. /\ state'[w] = "READY"
      /\ \A v \in Thread \ {w} : state'[v] = state[v] /\ blocked_on'[v] = blocked_on[v]
  BY <1>0, <1>2, <1>3, WakeUnmoved DEF Unmoved
<1>9. LetsGo(t, r)
  <2> HIDE DEF w
  <2>1. \A x \in Thread : ~WaitsFor(t, x) /\ ~WaitsFor(t, x)'
    BY <1>3, <1>5, <1>8 DEF WaitsFor
  <2>2. ASSUME NEW v \in Thread
        PROVE  WaitsFor(v, t)' <=> WaitsFor(v, t) /\ blocked_on[v] # r
    BY <1>3, <1>4, <1>5, <1>7, <1>8 DEF WaitsFor
  <2>3. ASSUME NEW v \in Thread, NEW x \in Thread \ {t}
        PROVE  /\ WaitsFor(v, x) => WaitsFor(v, x)'
               /\ WaitsFor(v, x)' => priority[v] <= priority[x]
    <3>1. WaitsFor(v, x) => WaitsFor(v, x)'
      BY <1>0, <1>3, <1>4, <1>7, <1>8 DEF WaitsFor
    <3>2. WaitsFor(v, x)' => WaitsFor(v, x) \/ (x = w /\ v \in QueuedOn(r))
      BY <1>3, <1>4, <1>7, <1>8 DEF WaitsFor
    <3> QED BY <1>6, <3>1, <3>2 DEF Monotone
  <2> QED BY <2>1, <2>2, <2>3 DEF LetsGo
<1> QED BY <1>1, <1>3, <1>6, <1>7, <1>9

-----------------------------------------------------------------------------
(* All other steps *)

Aside ==
  /\ priority' = priority
  /\ MutexSleepersKeep
  /\ \A u \in Thread : state'[u] = "BLOCKED_SEM" =>
       \/ state[u] = "BLOCKED_SEM" /\ blocked_on'[u] = blocked_on[u]
       \/ blocked_on'[u] \notin OfType("MUTEX")
  /\ \A r \in OfType("MUTEX") :
       /\ waiters'[r] = waiters[r]
       /\ owner'[r] # owner[r] => owner[r] = NoThread /\ owner'[r] # NoThread

Contends(t) ==
  \E r \in OfType("MUTEX") : LockBlock(t, r, 0) \/ UnlockFree(t, r) \/ UnlockHandoff(t, r)

LEMMA StillAside ==
  ASSUME Typed, Settled, NEW t \in Thread, state[t] = "READY", Stay \/ Advance(t),
         UNCHANGED <<priority, owner, waiters>>
  PROVE  Aside
<1>1. state' = state /\ blocked_on' = blocked_on
  BY StayUnmoved DEF Typed, Settled
<1> QED BY <1>1 DEF Aside, MutexSleepersKeep

LEMMA AcquireAside ==
  ASSUME Typed, Settled, NEW t \in Thread, state[t] = "READY",
         NEW r \in OfType("MUTEX"), LockAcquire(t, r)
  PROVE  Aside
<1>1. /\ r \in Resource /\ owner' = [owner EXCEPT ![r] = t] /\ priority' = priority
      /\ waiters' = waiters /\ t # NoThread /\ owner \in [Resource -> Thread \cup {NoThread}]
  BY DEF LockAcquire, OfType, Thread, NoThread, Typed, ModelOK, ObjectOK
<1>2. state' = state /\ blocked_on' = blocked_on
  BY StayUnmoved DEF LockAcquire, Typed, Settled
<1>3. \A u \in Thread : ~(state[u] = "BLOCKED_MUTEX" /\ blocked_on[u] = r)
  BY MutexQueue DEF LockAcquire, Settled, FreeMutexesIdle, QueuedOn
<1>4. owner'[r] = t /\ owner[r] = NoThread /\ \A m : m # r => owner'[m] = owner[m]
  BY <1>1 DEF LockAcquire
<1> QED BY <1>1, <1>2, <1>3, <1>4 DEF Aside, MutexSleepersKeep

LEMMA QueueAside ==
  ASSUME Typed, Settled, NEW t \in Thread, state[t] = "READY",
         NEW r \in Resource \ OfType("MUTEX"), Block(t, r, "BLOCKED_SEM", 0),
         waiters' = [waiters EXCEPT ![r] = Append(@, t)], UNCHANGED <<priority, owner>>
  PROVE  Aside
<1>1. Unmoved({t}) /\ state'[t] = "BLOCKED_SEM" /\ blocked_on'[t] = r
  BY BlockUnmoved DEF Typed, Settled
<1>2. \A m \in OfType("MUTEX") : waiters'[m] = waiters[m]
  BY DEF OfType, Typed, ModelOK, ObjectOK
<1> QED BY <1>1, <1>2 DEF Aside, MutexSleepersKeep, Unmoved

LEMMA WakeAside ==
  ASSUME Typed, Settled, NEW t \in Thread, state[t] = "READY",
         NEW r \in Resource \ OfType("MUTEX"), NEW i \in 1 .. Len(waiters[r]), NEW n,
         WakeAndAdvance(t, {waiters[r][i]}, n),
         waiters' = [waiters EXCEPT ![r] = WaiterRemove(@, i)], UNCHANGED <<priority, owner>>
  PROVE  Aside
<1> DEFINE w == waiters[r][i]
<1>1. w \in Thread /\ blocked_on[w] = r
  BY QueuedAreThreads DEF Typed, ModelOK, Settled, ExactQueue, WaitsIn
<1>2. state[w] # "BLOCKED_MUTEX"
  BY <1>1 DEF Settled, OnMutex
<1>3. Unmoved({w}) /\ state'[w] = "READY"
  BY <1>1, WakeUnmoved DEF Typed, Settled
<1>4. \A m \in OfType("MUTEX") : waiters'[m] = waiters[m]
  BY DEF OfType, Typed, ModelOK, ObjectOK
<1> HIDE DEF w
<1> QED BY <1>1, <1>2, <1>3, <1>4 DEF Aside, MutexSleepersKeep, Unmoved

LEMMA MutexCalls ==
  ASSUME Typed, Settled, Regular(scenario), NEW t \in Thread, state[t] = "READY",
         Lock(t) \/ Unlock(t)
  PROVE  Aside \/ Contends(t)
<1> DEFINE r == Target(t)
<1>1. r \in OfType("MUTEX")
  BY RegularCalls
<1>2. CASE LockAcquire(t, r)
  BY <1>1, <1>2, AcquireAside
<1>3. CASE LockReject(t, r) \/ UnlockReject(t, r)
  BY <1>3, StillAside DEF LockReject, UnlockReject, Reject, modelVars, inheritVars, objectVars
<1> QED BY <1>1, <1>2, <1>3 DEF Lock, Unlock, MutexLock, MutexUnlock, Contends

LEMMA SemCalls ==
  ASSUME Typed, Settled, Regular(scenario), NEW t \in Thread, state[t] = "READY",
         Wait(t) \/ Signal(t)
  PROVE  Aside
<1> DEFINE r == Target(t)
<1>1. r \in Resource \ OfType("MUTEX")
  BY RegularCalls DEF OfType
<1>2. CASE SemTake(t, r) \/ SemWaitReject(t, r) \/ SemPost(t, r) \/ SemSignalReject(t, r)
  BY <1>2, StillAside DEF SemTake, SemWaitReject, SemPost, SemSignalReject, Reject, modelVars,
                          inheritVars, objectVars
<1>3. CASE SemBlock(t, r, 0)
  BY <1>1, <1>3, QueueAside DEF SemBlock, inheritVars
<1>4. CASE SemWake(t, r)
  BY <1>1, <1>4, WakeAside DEF SemWake, inheritVars
<1> QED BY <1>2, <1>3, <1>4 DEF Wait, Signal, SemWait, SemSignal

LEMMA MailboxCalls ==
  ASSUME Typed, Settled, NEW t \in Thread, state[t] = "READY",
         Post(t) \/ PostFront(t) \/ Fetch(t)
  PROVE  Aside
<1> DEFINE r == Target(t)
           msg == Current(t).arg
<1>1. r \in Resource
  BY CurrentType DEF Post, PostFront, Fetch, ResourceActions
<1>2. ASSUME NEW blocks, MbReject(r, blocks)
      PROVE  Aside
  BY <1>2, StillAside DEF MbReject, Reject, modelVars, inheritVars, objectVars
<1>3. ASSUME NEW blocks, MbBlock(t, r, blocks)
      PROVE  Aside
  <2>1. r \notin OfType("MUTEX")
    BY <1>3 DEF MbBlock, MbFault, OfType
  <2> QED BY <1>1, <1>3, <2>1, QueueAside DEF MbBlock, inheritVars
<1>4. CASE MbAppend(t, r, msg) \/ MbPrepend(t, r, msg)
  BY <1>4, StillAside DEF MbAppend, MbPrepend, inheritVars, objectVars
<1>5. CASE MbTake(t, r)
  <2>1. r \notin OfType("MUTEX")
    BY <1>5 DEF MbTake, MbFault, OfType
  <2>2. CASE waiters[r] = <<>>
    <3>1. {waiters[r][i] : i \in {1} \cap (1 .. Len(waiters[r]))} = {}
      BY <2>2
    <3>2. Unmoved({})
      BY <1>5, <3>1, WakeUnmoved DEF MbTake, Typed, Settled
    <3>3. waiters' = waiters
      BY <1>1, <1>5, <2>2 DEF MbTake, Typed, ModelOK, ObjectOK
    <3> QED BY <1>5, <3>2, <3>3 DEF MbTake, inheritVars, Aside, MutexSleepersKeep, Unmoved
  <2>3. CASE waiters[r] # <<>>
    <3>1. 1 \in 1 .. Len(waiters[r])
      BY <1>1, <2>3 DEF Typed, ModelOK, ObjectOK
    <3>2. waiters' = [waiters EXCEPT ![r] = WaiterRemove(@, 1)]
      BY <1>1, <1>5, <2>3 DEF MbTake, Typed, ModelOK, ObjectOK
    <3>3. {waiters[r][i] : i \in {1} \cap (1 .. Len(waiters[r]))} = {waiters[r][1]}
      BY <3>1
    <3>4. WakeAndAdvance(t, {waiters[r][1]}, 0) /\ UNCHANGED <<priority, owner>>
      BY <1>5, <3>3 DEF MbTake, inheritVars
    <3> QED BY <1>1, <2>1, <3>1, <3>2, <3>4, WakeAside
  <2> QED BY <2>2, <2>3
<1> HIDE DEF r, msg
<1>6. \/ MbAppend(t, r, msg) \/ MbPrepend(t, r, msg) \/ MbTake(t, r)
      \/ \E blocks : MbBlock(t, r, blocks) \/ MbReject(r, blocks)
  BY DEF Post, PostFront, Fetch, MbPost, MbPostFront, MbFetch, r, msg
<1> QED BY <1>2, <1>3, <1>4, <1>5, <1>6

LEMMA LocalAside ==
  ASSUME Typed, Settled, NEW t \in Thread, state[t] = "READY",
         \/ ThreadEnd(t) \/ Done(t) \/ Pause(t) \/ Unhandled(t) \/ LocalReject(t)
         \/ SysLock(t) \/ SysUnlock(t) \/ IsrEnter(t) \/ IsrExit(t)
         \/ ObjectInit(t) \/ ObjectDestroy(t) \/ Call(t) \/ Return(t)
  PROVE  Aside
<1>1. UNCHANGED <<priority, owner, waiters>>
  BY LocalKeeps DEF modelVars, inheritVars, objectVars
<1>2. CASE ThreadEnd(t) \/ Done(t)
  <2>1. Unmoved({t}) /\ state'[t] = "DONE"
    BY <1>2, EndUnmoved, TimeStandsStill DEF ThreadEnd, Done, Typed, Settled, SchedOK
  <2> QED BY <1>1, <2>1 DEF Aside, MutexSleepersKeep, Unmoved
<1>3. CASE ~(ThreadEnd(t) \/ Done(t))
  <2>1. Stay \/ Advance(t)
    BY <1>3 DEF Pause, Unhandled, LocalReject, SysLock, SysUnlock, IsrEnter, IsrExit,
                CtxStep, ObjectInit, ObjectDestroy, SetAlive, Call, Return
  <2> QED BY <1>1, <2>1, StillAside
<1> QED BY <1>2, <1>3

LEMMA RegularStep ==
  ASSUME Typed, Settled, Regular(scenario), NEW t \in Thread, Step(t)
  PROVE  state[t] = "READY" /\ (Aside \/ Contends(t))
<1>1. state[t] = "READY"
  BY StepIsAwake DEF Settled
<1>2. ~TimedLock(t) /\ ~TimedWait(t) /\ ~WaitCond(t) /\ ~SignalCond(t) /\ ~Broadcast(t)
  BY NoTimedCalls, NoConditionCalls DEF Regular
<1> QED BY <1>1, <1>2, MutexCalls, SemCalls, MailboxCalls, LocalAside DEF Step

-----------------------------------------------------------------------------
(* The invariant *)

InheritInv ==
  Regular(scenario) =>
    /\ \A u \in Thread : OffMutex(u)
    /\ FreeMutexesIdle
    /\ Monotone
    /\ \A t \in Thread : Witnessed(t)

LEMMA AsideSettles ==
  ASSUME Settled, scenario' = scenario, Aside
  PROVE  (\A u \in Thread : OffMutex(u)') /\ FreeMutexesIdle'
<1>1. OfType("MUTEX")' = OfType("MUTEX")
  BY DEF OfType, ResType
<1>2. \A u \in Thread : OffMutex(u)'
  BY <1>1 DEF Aside, Settled, OffMutex
<1>3. FreeMutexesIdle'
  BY <1>1 DEF Aside, Settled, FreeMutexesIdle
<1> QED BY <1>2, <1>3

LEMMA ContendsSettles ==
  ASSUME Typed, Settled, scenario' = scenario, NEW t \in Thread, state[t] = "READY",
         NEW r \in OfType("MUTEX"),
         LockBlock(t, r, 0) \/ UnlockFree(t, r) \/ UnlockHandoff(t, r)
  PROVE  (\A u \in Thread : OffMutex(u)') /\ FreeMutexesIdle'
<1>0. /\ r \in Resource /\ SchedOK /\ ObjectOK /\ NoTimers
      /\ OfType("MUTEX")' = OfType("MUTEX") /\ OfType("MUTEX") \subseteq Resource
      /\ \A u \in Thread : OffMutex(u)
      /\ \A m \in OfType("MUTEX") : owner[m] = NoThread => waiters[m] = <<>>
  BY DEF OfType, ResType, Typed, ModelOK, Settled, FreeMutexesIdle
<1>1. CASE LockBlock(t, r, 0)
  <2>1. Unmoved({t}) /\ state'[t] = "BLOCKED_MUTEX"
    BY <1>0, <1>1, BlockUnmoved DEF LockBlock
  <2>2. owner[r] # NoThread /\ owner' = owner
    BY <1>1 DEF LockBlock
  <2>3. \A m \in Resource \ {r} : waiters'[m] = waiters[m]
    BY <1>0, <1>1 DEF LockBlock, ObjectOK
  <2> QED BY <1>0, <2>1, <2>2, <2>3 DEF Unmoved, OffMutex, FreeMutexesIdle
<1>2. CASE UnlockFree(t, r)
  <2>1. state' = state /\ blocked_on' = blocked_on
    BY <1>0, <1>2, StayUnmoved DEF UnlockFree
  <2>2. waiters' = waiters /\ waiters[r] = <<>>
    BY <1>2 DEF UnlockFree
  <2>3. \A m \in Resource \ {r} : owner'[m] = owner[m]
    BY <1>0, <1>2 DEF UnlockFree, ObjectOK
  <2> QED BY <1>0, <2>1, <2>2, <2>3 DEF OffMutex, FreeMutexesIdle
<1>3. CASE UnlockHandoff(t, r)
  <2>1. PICK i \in 1 .. Len(waiters[r]) :
          /\ waiters' = [waiters EXCEPT ![r] = WaiterRemove(@, i)]
          /\ owner' = [owner EXCEPT ![r] = waiters[r][i]]
          /\ WakeAndAdvance(t, {waiters[r][i]}, 1)
    BY <1>3 DEF UnlockHandoff
  <2> DEFINE w == waiters[r][i]
  <2>2. w \in Thread /\ w # NoThread
    BY <1>0, QueuedAreThreads DEF Thread, NoThread
  <2>3. Unmoved({w}) /\ state'[w] = "READY"
    BY <1>0, <2>1, <2>2, WakeUnmoved
  <2>4. owner'[r] = w
    BY <1>0, <2>1 DEF ObjectOK
  <2>5. \A m \in Resource \ {r} : owner'[m] = owner[m] /\ waiters'[m] = waiters[m]
    BY <1>0, <2>1 DEF ObjectOK
  <2> HIDE DEF w
  <2> QED BY <1>0, <2>2, <2>3, <2>4, <2>5 DEF Unmoved, OffMutex, FreeMutexesIdle
<1> QED BY <1>1, <1>2, <1>3

LEMMA ContendsInherits ==
  ASSUME Typed, Settled, scenario' = scenario, NEW t \in Thread, state[t] = "READY",
         Contends(t), Monotone, \A u \in Thread : Witnessed(u)
  PROVE  Monotone' /\ \A u \in Thread : Witnessed(u)'
<1>0. SchedOK /\ InheritOK /\ ValidScenario(scenario) /\ NoTimers
  BY DEF Typed, ModelOK, Settled
<1>1. ASSUME NEW r \in OfType("MUTEX"), LockBlock(t, r, 0)
      PROVE  Monotone' /\ \A u \in Thread : Witnessed(u)'
  <2>1. owner[r] \in Thread /\ NewEdge(t, owner[r])
    BY <1>1, LockAddsEdge
  <2>2. priority' = [u \in Thread |-> IF u \in Boosted(owner[r], priority[t])
                                      THEN priority[t] ELSE priority[u]]
    BY <1>1 DEF LockBlock
  <2> QED BY <1>0, <2>1, <2>2, BoostKeepsMonotone, BoostKeepsWitness
<1>2. ASSUME NEW r \in OfType("MUTEX"), UnlockFree(t, r) \/ UnlockHandoff(t, r)
      PROVE  Monotone' /\ \A u \in Thread : Witnessed(u)'
  <2>1. r \in Resource /\ LetsGo(t, r) /\ Recalculated(t, r)
    BY <1>2, FreeLetsGo, HandoffLetsGo DEF OfType
  <2> QED BY <2>1, UnlockKeepsMonotone, UnlockKeepsWitness
<1> QED BY <1>1, <1>2 DEF Contends

LEMMA InheritInit ==
  ASSUME Init, ValidScenario(scenario)
  PROVE  InheritInv
<1>1. \A u \in Thread : state[u] = "READY" /\ priority[u] = BasePriority(u)
  BY DEF Init, Reset, BasePriority
<1>2. \A r \in Resource : waiters[r] = <<>>
  BY DEF Init, Reset
<1>3. \A v, w \in Thread : ~WaitsFor(v, w)
  BY <1>1 DEF WaitsFor
<1>4. \A u \in Thread : priority[u] \in Int
  BY DEF Init, Reset, ValidScenario
<1> QED BY <1>1, <1>2, <1>3, <1>4, DependsOnItself
     DEF InheritInv, OffMutex, FreeMutexesIdle, OfType, Monotone, Witnessed

LEMMA RegularIsSettled ==
  ASSUME TypeOK, BlockedAreQueued, ExactInv, OnMutexInv, InheritInv, Regular(scenario)
  PROVE  Typed /\ Settled
  BY TypeOKParts DEF Typed, Settled, ExactInv, OnMutexInv, InheritInv, Regular

LEMMA InheritStep ==
  ASSUME TypeOK, BlockedAreQueued, ExactInv, OnMutexInv, InheritInv, [Next]_vars
  PROVE  InheritInv'
<1>1. CASE Next
  <2>1. PICK t \in Thread : Step(t)
    BY <1>1 DEF Next, Runnable
  <2>2. scenario' = scenario
    BY <2>1, StepKeepsScenario
  <2>3. ASSUME Regular(scenario)
        PROVE  /\ \A u \in Thread : OffMutex(u)'
               /\ FreeMutexesIdle' /\ Monotone' /\ \A u \in Thread : Witnessed(u)'
    <3>1. /\ Typed /\ Settled /\ Monotone
          /\ \A u \in Thread : Witnessed(u)
      BY <2>3, RegularIsSettled DEF InheritInv
    <3>2. state[t] = "READY" /\ (Aside \/ Contends(t))
      BY <2>1, <2>3, <3>1, RegularStep
    <3>3. CASE Aside
      <4>1. SameGraph /\ priority' = priority
        BY <3>3, SleepersKeepGraph DEF Aside
      <4> QED BY <2>2, <3>1, <3>3, <4>1, SameGraphKeeps, AsideSettles
    <3>4. CASE Contends(t)
      <4>1. (\A u \in Thread : OffMutex(u)') /\ FreeMutexesIdle'
        BY <2>2, <3>1, <3>2, <3>4, ContendsSettles DEF Contends
      <4> QED BY <2>2, <3>1, <3>2, <3>4, <4>1, ContendsInherits
    <3> QED BY <3>2, <3>3, <3>4
  <2> QED BY <2>2, <2>3
       DEF InheritInv, Regular, Untimed, CondFree, WellTyped, ActionsOf
<1>2. CASE UNCHANGED vars
  <2>1. UNCHANGED <<scenario, state, blocked_on, priority, owner, waiters>>
    BY <1>2 DEF vars, schedVars, inheritVars, objectVars
  <2>2. SameGraph
    BY <2>1 DEF SameGraph, WaitsFor
  <2>3. Regular(scenario)' <=> Regular(scenario)
    BY <2>1 DEF Regular, Untimed, CondFree, WellTyped, ActionsOf
  <2> QED BY <2>1, <2>2, <2>3, SameGraphKeeps
       DEF InheritInv, OffMutex, FreeMutexesIdle, OfType, ResType
<1> QED BY <1>1, <1>2

LEMMA InheritCorrect == Spec /\ FitsArrays(scenario) => []InheritInv
<1>1. Init /\ TypeOK => InheritInv
  BY InheritInit, TypeOKParts
<1>2. TypeOK /\ BlockedAreQueued /\ ExactInv /\ OnMutexInv /\ InheritInv /\ [Next]_vars
        => InheritInv'
  BY InheritStep
<1> QED BY <1>1, <1>2, TypeCorrect, SleepersAreQueued, ExactCorrect, OnMutexCorrect, PTL
     DEF Spec

-----------------------------------------------------------------------------
(* In a regular scenario every thread runs at exactly the highest base     *)
(* priority among itself and all the threads that wait for it, directly or *)
(* through any chain of owners, whichever boosts and recalculations led    *)
(* there, and around cycles as well.                                       *)
THEOREM PrioritiesAreInherited == Spec /\ FitsArrays(scenario) => []InheritanceExact
<1>1. TypeOK /\ InheritInv => InheritanceExact
  BY TypeOKParts, ExactPriority DEF InheritInv, InheritanceExact, ModelOK
<1> QED BY <1>1, TypeCorrect, InheritCorrect, PTL

(* A mutex somebody queues for changes hands only by going straight to a   *)
(* waiter entitled to the highest priority of them all.                    *)
THEOREM HandoffsAreFair == Spec /\ FitsArrays(scenario) => HandoffToHighest
<1> DEFINE A == Regular(scenario) =>
                  \A r \in OfType("MUTEX") :
                    waiters[r] # <<>> /\ owner'[r] # owner[r] =>
                      /\ owner'[r] \in QueuedOn(r)
                      /\ \A w \in QueuedOn(r) :
                           InheritedPriority(w) <= InheritedPriority(owner'[r])
<1>1. /\ TypeOK /\ BlockedAreQueued /\ ExactInv /\ OnMutexInv /\ InheritInv
      /\ InheritanceExact /\ [Next]_vars
      => [A]_vars
  <2>1. ASSUME TypeOK, BlockedAreQueued, ExactInv, OnMutexInv, InheritInv,
               InheritanceExact, Next, Regular(scenario), NEW r \in OfType("MUTEX"),
               waiters[r] # <<>>, owner'[r] # owner[r]
        PROVE  /\ owner'[r] \in QueuedOn(r)
               /\ \A w \in QueuedOn(r) :
                    InheritedPriority(w) <= InheritedPriority(owner'[r])
    <3>1. Typed /\ Settled /\ Monotone
      BY <2>1, RegularIsSettled DEF InheritInv
    <3>2. PICK t \in Thread : Step(t)
      BY <2>1 DEF Next, Runnable
    <3>3. state[t] = "READY" /\ (Aside \/ Contends(t))
      BY <2>1, <3>1, <3>2, RegularStep
    <3>4. UnlockHandoff(t, r)
      <4>1. ASSUME NEW m \in OfType("MUTEX"), m # r,
                   UnlockFree(t, m) \/ UnlockHandoff(t, m)
            PROVE  FALSE
        <5>1. owner'[r] = owner[r]
          BY <3>1, <4>1 DEF UnlockFree, UnlockHandoff, OfType, Typed, ModelOK, ObjectOK
        <5> QED BY <2>1, <5>1
      <4>2. ~UnlockFree(t, r)
        BY <2>1 DEF UnlockFree
      <4>3. \A m : ~LockBlock(t, m, 0)
        BY <2>1 DEF LockBlock
      <4>4. ~Aside
        BY <2>1, <3>1 DEF Aside, Settled, FreeMutexesIdle
      <4> QED BY <3>3, <4>1, <4>2, <4>3, <4>4 DEF Contends
    <3>5. /\ owner'[r] \in QueuedOn(r)
          /\ \A w \in QueuedOn(r) : priority[w] <= priority[owner'[r]]
      BY <3>1, <3>3, <3>4, HandoffLetsGo
    <3>6. QueuedOn(r) \subseteq Thread
      BY <3>1, QueuedAreThreads DEF OfType, Typed, ModelOK
    <3> QED BY <2>1, <3>5, <3>6 DEF InheritanceExact
  <2> QED BY <2>1
<1>2. [][A]_vars <=> HandoffToHighest
  BY DEF HandoffToHighest
<1> HIDE DEF A
<1> QED BY <1>1, <1>2, TypeCorrect, SleepersAreQueued, ExactCorrect, OnMutexCorrect,
        InheritCorrect, PrioritiesAreInherited, PTL DEF Spec
=============================================================================
