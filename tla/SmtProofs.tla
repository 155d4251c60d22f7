------------------------------ MODULE SmtProofs ------------------------------
(***************************************************************************)
(* The exported formula is neither too strong nor too weak, for every      *)
(* scenario in the class each property names and for every number of       *)
(* threads and resources.                                                  *)
(*                                                                         *)
(* Every execution that runs to its end is a model: the order of the       *)
(* completed events satisfies the assertions of the formula at every step, *)
(* read as statements about a sequence (Recorded).  That a lock is not     *)
(* completed inside another thread's section follows from the owned-mutex  *)
(* stacks: a section that is still open in the order has its mutex on the  *)
(* stack of its thread.  That a wait comes after a signal follows from the *)
(* accounting of the semaphores.                                           *)
(*                                                                         *)
(* Every model is an execution: the replay has done the first events of    *)
(* the model and no thread sleeps (Along).  The next lock finds its mutex  *)
(* free, since a mutex that is held has an open section, which the model   *)
(* ends first; the next wait finds a unit, by counting.                    *)
(***************************************************************************)
EXTENDS AccountingProofs, SmtProperties

-----------------------------------------------------------------------------
(* Events *)

Kind(e) == scenario.steps[e[1]][e[2]].type

LEMMA EventMembers ==
  ASSUME ValidScenario(scenario), NEW e
  PROVE  e \in Event <=> \E t \in Thread : \E i \in 1 .. StepCount(t) : e = <<t, i>>
  BY DEF Event

LEMMA EventParts ==
  ASSUME ValidScenario(scenario), NEW e \in Event
  PROVE  /\ e[1] \in Thread /\ e[2] \in Nat \ {0} /\ e[2] <= StepCount(e[1])
         /\ e = <<e[1], e[2]>>
<1>1. PICK t \in Thread : \E i \in 1 .. StepCount(t) : e = <<t, i>>
  BY EventMembers
<1>2. PICK i \in 1 .. StepCount(t) : e = <<t, i>>
  BY <1>1
<1>3. StepCount(t) \in Nat
  BY DEF ValidScenario, StepCount
<1> QED BY <1>2, <1>3

LEMMA KindsOfEvents ==
  ASSUME NEW type, NEW e
  PROVE  e \in EventsOf(type) <=> e \in Event /\ Kind(e) = type
  BY DEF EventsOf, Kind

(* Sets of one event or none, in a sequence *)
LEMMA ShortSets ==
  /\ SetToSeq({}) = <<>>
  /\ \A e : SetToSeq({e}) = <<e>>
<1>1. SetToSeq({}) = <<>>
  <2>1. Cardinality({}) = 0
    BY FS_EmptySet
  <2>2. /\ \A f \in [1 .. 0 -> {}] : f = <<>>
        /\ <<>> \in [1 .. 0 -> {}]
    OBVIOUS
  <2>3. IsInjective(<<>>)
    BY DEF IsInjective
  <2>4. <<>> \in [1 .. 0 -> {}]
    BY <2>2
  <2>5. \E f \in [1 .. 0 -> {}] : IsInjective(f)
    BY <2>3, <2>4
  <2>6. (CHOOSE f \in [1 .. 0 -> {}] : IsInjective(f)) \in [1 .. 0 -> {}]
    BY <2>5
  <2> QED BY <2>1, <2>2, <2>6 DEF SetToSeq
<1>2. ASSUME NEW e
      PROVE  SetToSeq({e}) = <<e>>
  <2>1. Cardinality({e}) = 1
    BY FS_Singleton
  <2>2. \A f : f \in [1 .. 1 -> {e}] <=> f = <<e>>
    OBVIOUS
  <2>3. IsInjective(<<e>>)
    BY DEF IsInjective
  <2>4. <<e>> \in [1 .. 1 -> {e}]
    BY <2>2
  <2>5. \E f \in [1 .. 1 -> {e}] : IsInjective(f)
    BY <2>3, <2>4
  <2>6. (CHOOSE f \in [1 .. 1 -> {e}] : IsInjective(f)) \in [1 .. 1 -> {e}]
    BY <2>5
  <2> QED BY <2>1, <2>2, <2>6 DEF SetToSeq
<1> QED BY <1>1, <1>2

(* The next event of u *)
NextEvent(u) == <<u, pc[u] + 1>>

(* The order grows by the event of the thread that took the step, if it    *)
(* moved on, and then by that of the thread it served.                     *)
LEMMA OrderGrows ==
  ASSUME SchedOK, NEW S, order \in Seq(S), NEW t \in Thread, Completes(t)
  PROVE  /\ MovesOn({}) => order' = order
         /\ MovesOn({t}) => order' = Append(order, NextEvent(t))
         /\ \A w \in Thread :
              t # w /\ MovesOn({t, w}) =>
                order' = Append(Append(order, NextEvent(t)), NextEvent(w))
<1> DEFINE passed == {u \in Thread : pc'[u] > pc[u]}
<1>1. order' = order \o [i \in 1 .. Cardinality(passed \cap {t}) |-> NextEvent(t)]
                     \o SetToSeq({NextEvent(u) : u \in passed \ {t}})
  BY DEF Completes, NextEvent
<1>2. \A A \in SUBSET Thread : MovesOn(A) => passed = A
  BY DEF MovesOn, SchedOK
<1>3. Cardinality({}) = 0 /\ Cardinality({t}) = 1
  BY FS_EmptySet, FS_Singleton
<1>4. /\ [i \in 1 .. 0 |-> NextEvent(t)] = <<>>
      /\ [i \in 1 .. 1 |-> NextEvent(t)] = <<NextEvent(t)>>
  OBVIOUS
<1> HIDE DEF passed
<1>5. ASSUME MovesOn({})
      PROVE  order' = order
  <2>1. passed = {} /\ passed \cap {t} = {}
    BY <1>2, <1>5
  <2>2. {NextEvent(u) : u \in passed \ {t}} = {}
    BY <2>1
  <2>3. order' = order \o <<>> \o <<>>
    BY <1>1, <1>3, <1>4, <2>1, <2>2, ShortSets
  <2> QED BY <2>3
<1>6. ASSUME MovesOn({t})
      PROVE  order' = Append(order, NextEvent(t))
  <2>1. passed = {t} /\ passed \cap {t} = {t}
    BY <1>2, <1>6
  <2>2. {NextEvent(u) : u \in passed \ {t}} = {}
    BY <2>1
  <2>3. order' = order \o <<NextEvent(t)>> \o <<>>
    BY <1>1, <1>3, <1>4, <2>1, <2>2, ShortSets
  <2> HIDE DEF NextEvent
  <2> QED BY <2>3
<1>7. ASSUME NEW w \in Thread, t # w, MovesOn({t, w})
      PROVE  order' = Append(Append(order, NextEvent(t)), NextEvent(w))
  <2>1. passed = {t, w} /\ passed \cap {t} = {t} /\ passed \ {t} = {w}
    BY <1>2, <1>7
  <2>2. {NextEvent(u) : u \in passed \ {t}} = {NextEvent(w)}
    BY <2>1
  <2>3. order' = order \o <<NextEvent(t)>> \o <<NextEvent(w)>>
    BY <1>1, <1>3, <1>4, <2>1, <2>2, ShortSets
  <2> HIDE DEF NextEvent
  <2> QED BY <2>3
<1> QED BY <1>5, <1>6, <1>7

-----------------------------------------------------------------------------
(* The assertions of the formula, of a sequence of events *)

(* u is an unlock that closes a section e opens, if it comes after e *)
Closes(u, e) ==
  Kind(u) = "MUTEX_UNLOCK" /\ u[1] = e[1] /\ ResourceOf(u) = ResourceOf(e)

InProgramOrder(o) ==
  \A i, j \in 1 .. Len(o) : i < j /\ o[i][1] = o[j][1] => o[i][2] < o[j][2]

(* The second of two locks of one mutex comes after the end of the section *)
(* that the first one opens.                                               *)
SectionsApart(o) ==
  \A i, j \in 1 .. Len(o) :
    /\ i < j
    /\ Kind(o[i]) = "MUTEX_LOCK" /\ Kind(o[j]) = "MUTEX_LOCK"
    /\ o[i][1] # o[j][1] /\ ResourceOf(o[i]) = ResourceOf(o[j])
    => \E k \in i .. j : Closes(o[k], o[i])

WaitsAreFed(o) ==
  \A j \in 1 .. Len(o) :
    Kind(o[j]) = "SEM_WAIT" /\ scenario.sem_init[ResourceOf(o[j])] <= 0 =>
      \E i \in 1 .. j :
        Kind(o[i]) = "SEM_SIGNAL" /\ ResourceOf(o[i]) = ResourceOf(o[j])

Recorded(o) ==
  o \in Seq(Event) /\ InProgramOrder(o) /\ SectionsApart(o) /\ WaitsAreFed(o)

Includes(o, e) == \E i \in 1 .. Len(o) : o[i] = e

(* Once all events are in it, the formula holds of their positions. *)
LEMMA RecordedIsModel ==
  ASSUME ValidScenario(scenario), NEW o, Recorded(o), \A e \in Event : Includes(o, e)
  PROVE  Formula(Position(o))
<1> DEFINE pos == Position(o)
<1>1. \A e \in Event : pos[e] \in 1 .. Len(o) /\ o[pos[e]] = e
  BY DEF Position, Includes
<1>2. Len(o) \in Nat /\ \A i \in 1 .. Len(o) : o[i] \in Event
  BY DEF Recorded
<1>3. \A e \in Event : pos[e] \in Nat /\ pos[e] >= 0
  BY <1>1, <1>2
<1> HIDE DEF pos
<1>4. Distinct(pos)
  BY <1>1 DEF Distinct
<1>5. ASSUME NEW e \in Event, NEW f \in Event, e[1] = f[1], e[2] < f[2]
      PROVE  pos[e] < pos[f]
  <2>1. e[2] \in Nat /\ f[2] \in Nat
    BY EventParts
  <2>2. pos[e] # pos[f]
    BY <1>1, <1>5, <2>1
  <2>3. SUFFICES ASSUME pos[f] < pos[e] PROVE FALSE
    BY <1>3, <2>2
  <2>4. f[2] < e[2]
    <3>1. o[pos[f]] = f /\ o[pos[e]] = e /\ pos[f] \in 1 .. Len(o) /\ pos[e] \in 1 .. Len(o)
      BY <1>1
    <3>2. InProgramOrder(o)
      BY DEF Recorded
    <3> QED BY <1>5, <2>3, <3>1, <3>2 DEF InProgramOrder
  <2> QED BY <1>5, <2>1, <2>4
<1>6. ProgramOrder(pos)
  <2> SUFFICES ASSUME NEW e \in Event, NEW f \in Event, e[1] = f[1], e[2] + 1 = f[2]
               PROVE  pos[e] < pos[f]
    BY DEF ProgramOrder
  <2>1. e[2] < f[2]
    BY EventParts
  <2> QED BY <1>5, <2>1
<1>7. ASSUME NEW e \in EventsOf("MUTEX_LOCK"), NEW f \in EventsOf("MUTEX_LOCK"),
             e[1] # f[1], ResourceOf(e) = ResourceOf(f), pos[e] < pos[f],
             NEW u \in MatchingUnlock(e)
      PROVE  pos[u] < pos[f]
  <2>1. e \in Event /\ f \in Event /\ Kind(e) = "MUTEX_LOCK" /\ Kind(f) = "MUTEX_LOCK"
    BY KindsOfEvents
  <2>2. PICK k \in pos[e] .. pos[f] : Closes(o[k], e)
    BY <1>1, <1>7, <2>1 DEF Recorded, SectionsApart
  <2>3. k \in 1 .. Len(o) /\ k # pos[e] /\ k # pos[f]
    BY <1>1, <1>2, <2>1, <2>2 DEF Closes
  <2> DEFINE v == o[k]
  <2>4. v \in Event /\ pos[v] = k
    <3>1. v \in Event
      BY <1>2, <2>3
    <3>2. v[2] \in Nat /\ o[pos[v]] = v /\ pos[v] \in 1 .. Len(o)
      BY <1>1, <3>1, EventParts
    <3>3. ~(pos[v] < k) /\ ~(k < pos[v])
      BY <2>3, <3>2 DEF Recorded, InProgramOrder
    <3> QED BY <1>2, <2>3, <3>1, <3>2, <3>3
  <2>5. v \in EventsOf("MUTEX_UNLOCK") /\ v[1] = e[1] /\ ResourceOf(v) = ResourceOf(e)
    BY <2>2, <2>4, KindsOfEvents DEF Closes
  <2>6. e[2] < v[2]
    <3>1. /\ pos[e] \in 1 .. Len(o) /\ o[pos[e]] = e /\ pos[e] \in Nat
          /\ k \in 1 .. Len(o) /\ k \in pos[e] .. pos[f] /\ k # pos[e]
      BY <1>1, <1>3, <2>1, <2>3
    <3>2. pos[e] < k
      BY <3>1
    <3>3. o[pos[e]][1] = o[k][1]
      BY <2>5, <3>1
    <3>4. o[pos[e]][2] < o[k][2]
      BY <3>1, <3>2, <3>3 DEF Recorded, InProgramOrder
    <3> QED BY <3>1, <3>4
  <2> HIDE DEF v
  <2>7. u \in Event /\ u[1] = e[1] /\ u[2] <= v[2]
    BY <2>5, <2>6, KindsOfEvents DEF MatchingUnlock
  <2>8. pos[u] <= pos[v]
    <3>1. CASE u[2] = v[2]
      <4>1. u = v
        BY <2>4, <2>5, <2>7, <3>1, EventParts
      <4> QED BY <1>3, <2>4, <4>1
    <3>2. CASE u[2] # v[2]
      <4>1. u[2] < v[2]
        BY <2>4, <2>7, <3>2, EventParts
      <4> QED BY <1>3, <1>5, <2>4, <2>5, <2>7, <4>1
    <3> QED BY <3>1, <3>2
  <2> QED BY <1>3, <2>1, <2>2, <2>3, <2>4, <2>7, <2>8
<1>8. MutexExclusivity(pos)
  <2> SUFFICES ASSUME NEW e \in EventsOf("MUTEX_LOCK"), NEW f \in EventsOf("MUTEX_LOCK"),
                      e[1] < f[1], ResourceOf(e) = ResourceOf(f),
                      NEW u \in MatchingUnlock(e), NEW v \in MatchingUnlock(f)
               PROVE  pos[u] < pos[f] \/ pos[v] < pos[e]
    BY DEF MutexExclusivity
  <2>1. e \in Event /\ f \in Event
    BY KindsOfEvents
  <2>2. e[1] # f[1]
    <3>1. e[1] \in Thread /\ f[1] \in Thread
      BY <2>1, EventParts
    <3> QED BY <3>1, SizeAssumption DEF Thread
  <2>3. pos[e] # pos[f]
    BY <1>4, <2>1, <2>2 DEF Distinct
  <2>4. pos[e] < pos[f] \/ pos[f] < pos[e]
    BY <1>3, <2>1, <2>3
  <2> QED BY <1>7, <2>2, <2>4
<1>9. SemaphoreOrdering(pos)
  <2> SUFFICES ASSUME NEW w \in EventsOf("SEM_WAIT"), scenario.sem_init[ResourceOf(w)] <= 0
               PROVE  \E s \in EventsOf("SEM_SIGNAL") :
                        ResourceOf(s) = ResourceOf(w) /\ pos[s] < pos[w]
    BY DEF SemaphoreOrdering
  <2>1. w \in Event /\ Kind(w) = "SEM_WAIT"
    BY KindsOfEvents
  <2>2. PICK i \in 1 .. pos[w] :
          Kind(o[i]) = "SEM_SIGNAL" /\ ResourceOf(o[i]) = ResourceOf(w)
    BY <1>1, <2>1 DEF Recorded, WaitsAreFed
  <2>3. i \in 1 .. Len(o) /\ i # pos[w]
    BY <1>1, <1>2, <2>1, <2>2
  <2> DEFINE s == o[i]
  <2>4. s \in Event /\ s \in EventsOf("SEM_SIGNAL")
    BY <1>2, <2>2, <2>3, KindsOfEvents
  <2>5. s[2] \in Nat /\ o[pos[s]] = s /\ pos[s] \in 1 .. Len(o)
    BY <1>1, <2>4, EventParts
  <2>6. pos[s] = i
    <3>1. ~(pos[s] < i) /\ ~(i < pos[s])
      BY <2>3, <2>5 DEF Recorded, InProgramOrder
    <3> QED BY <1>2, <2>3, <2>5, <3>1
  <2>7. pos[s] < pos[w]
    BY <1>3, <2>1, <2>2, <2>3, <2>6
  <2> QED BY <2>2, <2>4, <2>7
<1> QED BY <1>3, <1>4, <1>6, <1>8, <1>9 DEF Formula, pos

-----------------------------------------------------------------------------
(* One more event *)

LEMMA OneMoreEvent ==
  ASSUME NEW S, NEW o \in Seq(S), NEW e \in S
  PROVE  /\ Append(o, e) \in Seq(S) /\ Len(o) \in Nat
         /\ Len(Append(o, e)) = Len(o) + 1
         /\ Append(o, e)[Len(o) + 1] = e
         /\ \A i \in 1 .. Len(o) : Append(o, e)[i] = o[i]
         /\ \A i \in 1 .. Len(o) + 1 : i \in 1 .. Len(o) \/ i = Len(o) + 1
         /\ \A f : Includes(Append(o, e), f) <=> Includes(o, f) \/ f = e
<1>1. /\ Append(o, e) \in Seq(S) /\ Len(o) \in Nat
      /\ Len(Append(o, e)) = Len(o) + 1
      /\ Append(o, e)[Len(o) + 1] = e
      /\ \A i \in 1 .. Len(o) : Append(o, e)[i] = o[i]
      /\ \A i \in 1 .. Len(o) + 1 : i \in 1 .. Len(o) \/ i = Len(o) + 1
  BY AppendType
<1> DEFINE p == Append(o, e)
<1> HIDE DEF p
<1>2. ASSUME NEW f
      PROVE  Includes(p, f) <=> Includes(o, f) \/ f = e
  BY <1>1 DEF Includes, p
<1> QED BY <1>1, <1>2 DEF p

SectionClosed(o, i) == \E k \in i .. Len(o) : Closes(o[k], o[i])

LEMMA AppendRecorded ==
  ASSUME ValidScenario(scenario), NEW o, Recorded(o), NEW e \in Event,
         \A i \in 1 .. Len(o) : o[i][1] = e[1] => o[i][2] < e[2],
         \A i \in 1 .. Len(o) :
           /\ Kind(e) = "MUTEX_LOCK" /\ Kind(o[i]) = "MUTEX_LOCK"
           /\ o[i][1] # e[1] /\ ResourceOf(o[i]) = ResourceOf(e)
           => SectionClosed(o, i),
         Kind(e) = "SEM_WAIT" /\ scenario.sem_init[ResourceOf(e)] <= 0 =>
           \E i \in 1 .. Len(o) :
             Kind(o[i]) = "SEM_SIGNAL" /\ ResourceOf(o[i]) = ResourceOf(e)
  PROVE  Recorded(Append(o, e))
<1> DEFINE p == Append(o, e)
           n == Len(o)
<1>1. /\ p \in Seq(Event) /\ n \in Nat /\ Len(p) = n + 1 /\ p[n + 1] = e
      /\ \A i \in 1 .. n : p[i] = o[i]
      /\ \A i \in 1 .. n + 1 : i \in 1 .. n \/ i = n + 1
  BY OneMoreEvent DEF Recorded
<1> HIDE DEF p
<1>2. InProgramOrder(p)
  <2> SUFFICES ASSUME NEW i \in 1 .. n + 1, NEW j \in 1 .. n + 1, i < j, p[i][1] = p[j][1]
               PROVE  p[i][2] < p[j][2]
    BY <1>1 DEF InProgramOrder
  <2>1. i \in 1 .. n
    BY <1>1
  <2>2. CASE j \in 1 .. n
    BY <1>1, <2>1, <2>2 DEF Recorded, InProgramOrder
  <2>3. CASE j = n + 1
    BY <1>1, <2>1, <2>3
  <2> QED BY <1>1, <2>2, <2>3
<1>3. SectionsApart(p)
  <2> SUFFICES ASSUME NEW i \in 1 .. n + 1, NEW j \in 1 .. n + 1, i < j,
                      Kind(p[i]) = "MUTEX_LOCK", Kind(p[j]) = "MUTEX_LOCK",
                      p[i][1] # p[j][1], ResourceOf(p[i]) = ResourceOf(p[j])
               PROVE  \E k \in i .. j : Closes(p[k], p[i])
    BY <1>1 DEF SectionsApart
  <2>1. i \in 1 .. n /\ p[i] = o[i]
    BY <1>1
  <2>2. CASE j \in 1 .. n
    <3>1. PICK k \in i .. j : Closes(o[k], o[i])
      BY <1>1, <2>1, <2>2 DEF Recorded, SectionsApart
    <3> QED BY <1>1, <2>1, <2>2, <3>1
  <2>3. CASE j = n + 1
    <3>1. PICK k \in i .. n : Closes(o[k], o[i])
      BY <1>1, <2>1, <2>3 DEF SectionClosed
    <3> QED BY <1>1, <2>1, <2>3, <3>1
  <2> QED BY <1>1, <2>2, <2>3
<1>4. WaitsAreFed(p)
  <2> SUFFICES ASSUME NEW j \in 1 .. n + 1, Kind(p[j]) = "SEM_WAIT",
                      scenario.sem_init[ResourceOf(p[j])] <= 0
               PROVE  \E i \in 1 .. j : /\ Kind(p[i]) = "SEM_SIGNAL"
                                        /\ ResourceOf(p[i]) = ResourceOf(p[j])
    BY <1>1 DEF WaitsAreFed
  <2>1. CASE j \in 1 .. n
    <3>1. PICK i \in 1 .. j :
            Kind(o[i]) = "SEM_SIGNAL" /\ ResourceOf(o[i]) = ResourceOf(o[j])
      BY <1>1, <2>1 DEF Recorded, WaitsAreFed
    <3> QED BY <1>1, <2>1, <3>1
  <2>2. CASE j = n + 1
    <3>1. PICK i \in 1 .. n : Kind(o[i]) = "SEM_SIGNAL" /\ ResourceOf(o[i]) = ResourceOf(e)
      BY <1>1, <2>2
    <3> QED BY <1>1, <2>2, <3>1
  <2> QED BY <1>1, <2>1, <2>2
<1> QED BY <1>1, <1>2, <1>3, <1>4 DEF Recorded, p

(* A section that is open has its mutex on the stack of its thread. *)
OpenOnStack(o, stacks) ==
  \A i \in 1 .. Len(o) :
    Kind(o[i]) = "MUTEX_LOCK" =>
      OnStack(stacks[o[i][1]], ResourceOf(o[i])) \/ SectionClosed(o, i)

LEMMA AppendOpen ==
  ASSUME ValidScenario(scenario), NEW o \in Seq(Event), NEW e \in Event,
         NEW old, NEW new, OpenOnStack(o, old),
         \A u \in Thread : \A r :
           OnStack(old[u], r) =>
             OnStack(new[u], r)
               \/ (Kind(e) = "MUTEX_UNLOCK" /\ e[1] = u /\ ResourceOf(e) = r),
         Kind(e) = "MUTEX_LOCK" => OnStack(new[e[1]], ResourceOf(e))
  PROVE  OpenOnStack(Append(o, e), new)
<1> DEFINE p == Append(o, e)
           n == Len(o)
<1>1. /\ n \in Nat /\ Len(p) = n + 1 /\ p[n + 1] = e
      /\ \A i \in 1 .. n : p[i] = o[i]
      /\ \A i \in 1 .. n + 1 : i \in 1 .. n \/ i = n + 1
  BY OneMoreEvent
<1>2. \A i \in 1 .. n : o[i][1] \in Thread
  BY EventParts
<1> HIDE DEF p
<1> SUFFICES ASSUME NEW i \in 1 .. n + 1, Kind(p[i]) = "MUTEX_LOCK"
             PROVE  OnStack(new[p[i][1]], ResourceOf(p[i])) \/ SectionClosed(p, i)
  BY <1>1 DEF OpenOnStack, p
<1>3. CASE i = n + 1
  BY <1>1, <1>3
<1>4. CASE i \in 1 .. n
  <2>1. p[i] = o[i] /\ o[i][1] \in Thread
    BY <1>1, <1>2, <1>4
  <2>2. CASE SectionClosed(o, i)
    <3>1. PICK k \in i .. n : Closes(o[k], o[i])
      BY <2>2 DEF SectionClosed
    <3>2. k \in i .. n + 1 /\ p[k] = o[k]
      BY <1>1, <1>4, <3>1
    <3> QED BY <1>1, <2>1, <3>1, <3>2 DEF SectionClosed
  <2>3. CASE OnStack(old[o[i][1]], ResourceOf(o[i]))
    <3>1. CASE Kind(e) = "MUTEX_UNLOCK" /\ e[1] = o[i][1] /\ ResourceOf(e) = ResourceOf(o[i])
      <4>1. Closes(p[n + 1], p[i]) /\ n + 1 \in i .. n + 1
        BY <1>1, <1>4, <2>1, <3>1 DEF Closes
      <4> QED BY <1>1, <4>1 DEF SectionClosed
    <3> QED BY <2>1, <2>3, <3>1
  <2> QED BY <1>4, <2>1, <2>2, <2>3 DEF OpenOnStack
<1> QED BY <1>1, <1>3, <1>4

(* What the order says while the threads are before their actions p *)
Follows(o, p, stacks) ==
  /\ Recorded(o)
  /\ OpenOnStack(o, stacks)
  /\ \A e \in Event : Includes(o, e) <=> e[2] <= p[e[1]]

LEMMA FollowsOn ==
  ASSUME ValidScenario(scenario), NEW o, NEW p \in [Thread -> Nat], NEW old, NEW new,
         Follows(o, p, old), NEW u \in Thread, p[u] < StepCount(u),
         NEW e, e = <<u, p[u] + 1>>,
         \A v \in Thread : \A r :
           OnStack(old[v], r) =>
             OnStack(new[v], r)
               \/ (Kind(e) = "MUTEX_UNLOCK" /\ u = v /\ ResourceOf(e) = r),
         Kind(e) = "MUTEX_LOCK" =>
           /\ OnStack(new[u], ResourceOf(e))
           /\ \A v \in Thread \ {u} : ~OnStack(old[v], ResourceOf(e)),
         Kind(e) = "SEM_WAIT" /\ scenario.sem_init[ResourceOf(e)] <= 0 =>
           \E f \in Event : /\ Includes(o, f) /\ Kind(f) = "SEM_SIGNAL"
                            /\ ResourceOf(f) = ResourceOf(e)
  PROVE  e \in Event /\ Follows(Append(o, e), [p EXCEPT ![u] = @ + 1], new)
<1>1. StepCount(u) \in Nat /\ p[u] \in Nat /\ p[u] + 1 \in 1 .. StepCount(u)
  BY DEF ValidScenario, StepCount
<1>2. e \in Event /\ e[1] = u /\ e[2] = p[u] + 1
  BY <1>1, EventMembers
<1>3. o \in Seq(Event) /\ \A i \in 1 .. Len(o) : o[i] \in Event /\ Includes(o, o[i])
  BY DEF Follows, Recorded, Includes
<1>4. \A i \in 1 .. Len(o) : o[i][1] = e[1] => o[i][2] < e[2]
  <2> SUFFICES ASSUME NEW i \in 1 .. Len(o), o[i][1] = e[1]
               PROVE  o[i][2] < e[2]
    OBVIOUS
  <2>1. o[i] \in Event /\ o[i][2] \in Nat
    BY <1>3, EventParts
  <2>2. o[i][2] <= p[u]
    BY <1>2, <1>3, <2>1 DEF Follows
  <2> QED BY <1>1, <1>2, <2>1, <2>2
<1>5. ASSUME NEW i \in 1 .. Len(o), Kind(e) = "MUTEX_LOCK", Kind(o[i]) = "MUTEX_LOCK",
             o[i][1] # e[1], ResourceOf(o[i]) = ResourceOf(e)
      PROVE  SectionClosed(o, i)
  <2>1. o[i][1] \in Thread \ {u}
    BY <1>2, <1>3, <1>5, EventParts
  <2>2. ~OnStack(old[o[i][1]], ResourceOf(o[i]))
    BY <1>5, <2>1
  <2> QED BY <1>5, <2>2 DEF Follows, OpenOnStack
<1>6. Recorded(Append(o, e))
  <2>1. ASSUME Kind(e) = "SEM_WAIT", scenario.sem_init[ResourceOf(e)] <= 0
        PROVE  \E i \in 1 .. Len(o) :
                 Kind(o[i]) = "SEM_SIGNAL" /\ ResourceOf(o[i]) = ResourceOf(e)
    BY <2>1 DEF Includes
  <2> QED BY <1>2, <1>4, <1>5, <2>1, AppendRecorded DEF Follows
<1>7. OpenOnStack(Append(o, e), new)
  <2>1. OpenOnStack(o, old) /\ o \in Seq(Event) /\ e \in Event /\ e[1] = u
    BY <1>2, <1>3 DEF Follows
  <2>2. \A w \in Thread : \A r :
          OnStack(old[w], r) =>
            OnStack(new[w], r)
              \/ (Kind(e) = "MUTEX_UNLOCK" /\ e[1] = w /\ ResourceOf(e) = r)
    BY <2>1
  <2>3. Kind(e) = "MUTEX_LOCK" => OnStack(new[e[1]], ResourceOf(e))
    BY <2>1
  <2> QED BY <2>1, <2>2, <2>3, AppendOpen
<1>8. ASSUME NEW f \in Event
      PROVE  Includes(Append(o, e), f) <=> f[2] <= [p EXCEPT ![u] = @ + 1][f[1]]
  <2>1. Includes(Append(o, e), f) <=> Includes(o, f) \/ f = e
    BY <1>2, <1>3, OneMoreEvent
  <2>2. /\ f[1] \in Thread /\ f[2] \in Nat /\ f = <<f[1], f[2]>> /\ p[f[1]] \in Nat
    BY EventParts
  <2>3. Includes(o, f) <=> f[2] <= p[f[1]]
    BY DEF Follows
  <2>4. CASE f[1] = u
    <3>1. f = e <=> f[2] = p[u] + 1
      BY <2>2, <2>4
    <3> QED BY <1>1, <2>1, <2>2, <2>3, <2>4, <3>1
  <2>5. CASE f[1] # u
    BY <1>2, <2>1, <2>2, <2>3, <2>5
  <2> QED BY <2>4, <2>5
<1> QED BY <1>2, <1>6, <1>7, <1>8 DEF Follows

-----------------------------------------------------------------------------
(* The order keeps up with the engine *)

(* What is on the stacks, after a push or a pop of one of them *)
LEMMA PushedStacks ==
  ASSUME NEW own, NEW old, Match(own, old), NEW u \in Thread, NEW r \in Resource,
         own[r] = NoThread \/ \A v \in Thread : ~OnStack(old[v], r)
  PROVE  LET new == [old EXCEPT ![u] = OwnedPush(@, r)] IN
         /\ \A v \in Thread : \A q : OnStack(old[v], q) => OnStack(new[v], q)
         /\ OnStack(new[u], r)
         /\ \A v \in Thread : ~OnStack(old[v], r)
<1> DEFINE s == OwnedPush(old[u], r)
<1>1. \A v \in Thread : /\ old[v] \in Seq(Resource) /\ NoRepeats(old[v])
                        /\ ~OnStack(old[v], r)
  BY DEF Match, Thread, NoThread
<1>2. \A q \in Resource : OnStack(s, q) <=> OnStack(old[u], q) \/ q = r
  BY <1>1, PushOnStack
<1>3. \A q : OnStack(old[u], q) => q \in Resource
  BY <1>1 DEF OnStack
<1> HIDE DEF s
<1>4. /\ [old EXCEPT ![u] = OwnedPush(@, r)][u] = s
      /\ \A v \in Thread \ {u} : [old EXCEPT ![u] = OwnedPush(@, r)][v] = old[v]
  BY DEF Match, s
<1> QED BY <1>1, <1>2, <1>3, <1>4

LEMMA PoppedStacks ==
  ASSUME NEW own, NEW old, Match(own, old), NEW u \in Thread, NEW r \in Resource,
         Len(old[u]) > 0, old[u][Len(old[u])] = r
  PROVE  LET new == [old EXCEPT ![u] = OwnedPop(@)] IN
         /\ \A v \in Thread : \A q :
              OnStack(old[v], q) => OnStack(new[v], q) \/ (u = v /\ q = r)
         /\ \A v \in Thread : ~OnStack(new[v], r)
<1> DEFINE s == OwnedPop(old[u])
<1>1. \A v \in Thread : old[v] \in Seq(Resource) /\ NoRepeats(old[v])
  BY DEF Match
<1>2. \A q \in Resource : OnStack(s, q) <=> OnStack(old[u], q) /\ q # r
  BY <1>1, PopOffStack
<1>3. \A q : OnStack(old[u], q) => q \in Resource
  BY <1>1 DEF OnStack
<1>4. own[r] = u /\ \A v \in Thread \ {u} : ~OnStack(old[v], r)
  <2>1. Len(old[u]) \in 1 .. Len(old[u])
    BY <1>1
  <2>2. OnStack(old[u], r)
    BY <2>1 DEF OnStack
  <2> QED BY <2>2 DEF Match
<1> HIDE DEF s
<1>5. /\ [old EXCEPT ![u] = OwnedPop(@)][u] = s
      /\ \A v \in Thread \ {u} : [old EXCEPT ![u] = OwnedPop(@)][v] = old[v]
  BY DEF Match, s
<1> QED BY <1>2, <1>3, <1>4, <1>5

(* A semaphore that starts empty and now counts a signal has had one. *)
LEMMA SomeSignal ==
  ASSUME Typed, \A u \in Thread : pc[u] <= StepCount(u), NEW r \in Resource, Tally(r),
         count[r] > 0, scenario.sem_init[r] <= 0
  PROVE  \E f \in Event : /\ f[2] <= pc[f[1]] /\ Kind(f) = "SEM_SIGNAL"
                          /\ ResourceOf(f) = r
<1> DEFINE S == Executed("SEM_SIGNAL", r)
           W == Executed("SEM_WAIT", r)
<1>1. S # {}
  <2>1. /\ scenario.sem_init[r] \in Int /\ Cardinality(W) \in Nat
        /\ count[r] = scenario.sem_init[r] + Cardinality(S) - Cardinality(W)
        /\ Cardinality(S) \in Nat
    BY FS_CardinalityType DEF Typed, ValidScenario, Tally
  <2>2. Cardinality(S) # 0
    <3> HIDE DEF S, W
    <3> QED BY <2>1
  <2> HIDE DEF S
  <2> QED BY <2>2, FS_EmptySet
<1>2. PICK f : f \in S
  BY <1>1
<1>3. PICK u \in Thread : \E i \in 1 .. Passed(u) :
        /\ f = <<u, i>>
        /\ scenario.steps[u][i].type = "SEM_SIGNAL"
        /\ scenario.steps[u][i].resource_id = r
  BY <1>2, ExecutedMembers
<1>4. PICK i \in 1 .. Passed(u) :
        /\ f = <<u, i>>
        /\ scenario.steps[u][i].type = "SEM_SIGNAL"
        /\ scenario.steps[u][i].resource_id = r
  BY <1>3
<1>5. pc[u] \in Nat /\ StepCount(u) \in Nat /\ Passed(u) = pc[u] /\ i \in 1 .. StepCount(u)
      /\ i <= pc[u]
  BY DEF Typed, SchedOK, ValidScenario, StepCount, Passed
<1>6. f \in Event
  BY <1>4, <1>5, EventMembers DEF Typed
<1> QED BY <1>4, <1>5, <1>6 DEF Kind, ResourceOf

LEMMA NextEvents ==
  ASSUME NEW u \in Thread
  PROVE  /\ NextEvent(u) = <<u, pc[u] + 1>>
         /\ Kind(NextEvent(u)) = Pending(u).type
         /\ ResourceOf(NextEvent(u)) = Pending(u).resource_id
  BY DEF NextEvent, Kind, ResourceOf, Pending

LEMMA OrderFollows ==
  ASSUME Waits, StacksMatchOwners, CondFree(scenario),
         \A u \in Thread : pc[u] <= StepCount(u), \A r \in Resource : Tally(r),
         NEW t \in Thread, Books(t), Completes(t),
         Follows(order, pc, owned_mutex_stack)
  PROVE  Follows(order', pc', owned_mutex_stack')
<1> DEFINE stack == owned_mutex_stack
           e == NextEvent(t)
<1>1. /\ Typed /\ SchedOK /\ ValidScenario(scenario) /\ order \in Seq(Event)
      /\ pc \in [Thread -> Nat] /\ stack \in [Thread -> Seq(Resource)]
  BY DEF Waits, Typed, SchedOK, ModelOK, InheritOK, Follows, Recorded
<1>2. Match(owner, stack)
  BY <1>1, MatchMeaning DEF Typed
<1>3. /\ MovesOn({}) => order' = order /\ pc' = pc
      /\ MovesOn({t}) => order' = Append(order, e) /\ pc' = [pc EXCEPT ![t] = @ + 1]
      /\ \A w \in Thread :
           t # w /\ MovesOn({t, w}) =>
             /\ order' = Append(Append(order, e), NextEvent(w))
             /\ pc' = [[pc EXCEPT ![t] = @ + 1] EXCEPT ![w] = @ + 1]
  <2>1. /\ MovesOn({}) => pc' = pc
        /\ MovesOn({t}) => pc' = [pc EXCEPT ![t] = @ + 1]
        /\ \A w \in Thread :
             t # w /\ MovesOn({t, w}) =>
               pc' = [[pc EXCEPT ![t] = @ + 1] EXCEPT ![w] = @ + 1]
    BY <1>1 DEF MovesOn
  <2> QED BY <1>1, <2>1, OrderGrows
<1>4. e = <<t, pc[t] + 1>> /\ Kind(e) = Pending(t).type
        /\ ResourceOf(e) = Pending(t).resource_id
  BY NextEvents
<1>5. \A r \in Resource :
        \A type \in Booked : About(t, type, r) =>
          pc[t] < StepCount(t) /\ Kind(e) = type /\ ResourceOf(e) = r
  BY <1>4 DEF About
<1> HIDE DEF e, stack
<1>6. CASE Stops(t)
  BY <1>3, <1>6 DEF Stops, Unbooked, stack
<1>7. CASE Passes(t)
  <2>1. /\ order' = Append(order, e) /\ pc' = [pc EXCEPT ![t] = @ + 1] /\ stack' = stack
        /\ pc[t] < StepCount(t) /\ Kind(e) \notin Booked
    BY <1>3, <1>4, <1>7 DEF Passes, Unbooked, stack
  <2> QED BY <1>1, <1>4, <2>1, FollowsOn DEF Booked, stack
<1>8. ASSUME NEW r \in Resource, Locks(t, r)
      PROVE  Follows(order', pc', stack')
  <2>1. /\ order' = Append(order, e) /\ pc' = [pc EXCEPT ![t] = @ + 1]
        /\ pc[t] < StepCount(t) /\ Kind(e) = "MUTEX_LOCK" /\ ResourceOf(e) = r
        /\ stack' = [stack EXCEPT ![t] = OwnedPush(@, r)]
    BY <1>3, <1>5, <1>8 DEF Locks, Booked, stack
  <2>2. /\ \A v \in Thread : \A q : OnStack(stack[v], q) => OnStack(stack'[v], q)
        /\ OnStack(stack'[t], r)
        /\ \A v \in Thread : ~OnStack(stack[v], r)
    BY <1>2, <1>8, <2>1, PushedStacks DEF Locks
  <2> QED BY <1>1, <1>4, <2>1, <2>2, FollowsOn DEF stack
<1>9. ASSUME NEW r \in Resource, Unlocks(t, r)
      PROVE  Follows(order', pc', stack')
  <2>1. /\ order' = Append(order, e) /\ pc' = [pc EXCEPT ![t] = @ + 1]
        /\ pc[t] < StepCount(t) /\ Kind(e) = "MUTEX_UNLOCK" /\ ResourceOf(e) = r
        /\ stack' = [stack EXCEPT ![t] = OwnedPop(@)]
        /\ Len(stack[t]) > 0 /\ stack[t][Len(stack[t])] = r
    BY <1>3, <1>5, <1>9 DEF Unlocks, Booked, OwnedTopIs, stack
  <2>2. \A v \in Thread : \A q :
          OnStack(stack[v], q) => OnStack(stack'[v], q) \/ (t = v /\ q = r)
    <3> DEFINE new == [stack EXCEPT ![t] = OwnedPop(@)]
    <3>1. \A v \in Thread : \A q :
            OnStack(stack[v], q) => OnStack(new[v], q) \/ (t = v /\ q = r)
      BY <1>2, <2>1, PoppedStacks
    <3>2. stack' = new
      BY <2>1
    <3> HIDE DEF new
    <3> QED BY <3>1, <3>2
  <2> QED BY <1>1, <1>4, <2>1, <2>2, FollowsOn DEF stack
<1>10. ASSUME NEW r \in Resource, TakesSignal(t, r)
       PROVE  Follows(order', pc', stack')
  <2>1. /\ order' = Append(order, e) /\ pc' = [pc EXCEPT ![t] = @ + 1]
        /\ pc[t] < StepCount(t) /\ Kind(e) = "SEM_WAIT" /\ ResourceOf(e) = r
        /\ stack' = stack /\ count[r] > 0
    BY <1>3, <1>5, <1>10 DEF TakesSignal, Booked, stack
  <2>2. ASSUME scenario.sem_init[r] <= 0
        PROVE  \E f \in Event : /\ Includes(order, f) /\ Kind(f) = "SEM_SIGNAL"
                                /\ ResourceOf(f) = r
    BY <1>1, <2>1, <2>2, SomeSignal DEF Follows
  <2> QED BY <1>1, <1>4, <2>1, <2>2, FollowsOn DEF stack
<1>11. ASSUME NEW r \in Resource, LeavesSignal(t, r)
       PROVE  Follows(order', pc', stack')
  <2>1. /\ order' = Append(order, e) /\ pc' = [pc EXCEPT ![t] = @ + 1]
        /\ pc[t] < StepCount(t) /\ Kind(e) = "SEM_SIGNAL" /\ stack' = stack
    BY <1>3, <1>5, <1>11 DEF LeavesSignal, Booked, stack
  <2> QED BY <1>1, <1>4, <2>1, FollowsOn DEF stack
<1>12. ASSUME NEW w \in Thread, t # w
       PROVE  LET p == [pc EXCEPT ![t] = @ + 1]
                  f == NextEvent(w) IN
              /\ p \in [Thread -> Nat] /\ p[w] = pc[w] /\ f = <<w, p[w] + 1>>
              /\ Kind(f) = Pending(w).type /\ ResourceOf(f) = Pending(w).resource_id
  BY <1>1, <1>12, NextEvents
<1>13. ASSUME NEW r \in Resource, NEW w \in Thread, Gives(t, w, r)
       PROVE  Follows(order', pc', stack')
  <2> DEFINE o1 == Append(order, e)
             p1 == [pc EXCEPT ![t] = @ + 1]
             s1 == [stack EXCEPT ![t] = OwnedPop(@)]
             f == NextEvent(w)
  <2>1. /\ t # w /\ order' = Append(o1, f) /\ pc' = [p1 EXCEPT ![w] = @ + 1]
        /\ pc[t] < StepCount(t) /\ Kind(e) = "MUTEX_UNLOCK" /\ ResourceOf(e) = r
        /\ stack' = [s1 EXCEPT ![w] = OwnedPush(@, r)]
        /\ Len(stack[t]) > 0 /\ stack[t][Len(stack[t])] = r
    BY <1>3, <1>5, <1>13 DEF Gives, Booked, OwnedTopIs, stack
  <2>2. /\ p1 \in [Thread -> Nat] /\ p1[w] < StepCount(w) /\ f = <<w, p1[w] + 1>>
        /\ Kind(f) = "MUTEX_LOCK" /\ ResourceOf(f) = r
    BY <1>12, <1>13, <2>1 DEF Gives, About
  <2>3. /\ \A v \in Thread : \A q :
             OnStack(stack[v], q) => OnStack(s1[v], q) \/ (t = v /\ q = r)
        /\ \A v \in Thread : ~OnStack(s1[v], r)
    BY <1>2, <2>1, PoppedStacks
  <2>4. \E own : Match(own, s1)
    BY <1>2, <1>13, <2>1, ReleaseMatch DEF Gives
  <2> HIDE DEF o1, p1, s1, f
  <2>5. Follows(o1, p1, s1)
    BY <1>1, <1>4, <2>1, <2>3, FollowsOn DEF stack, o1, p1
  <2>6. /\ \A v \in Thread : \A q : OnStack(s1[v], q) => OnStack(stack'[v], q)
        /\ OnStack(stack'[w], r)
    BY <2>1, <2>3, <2>4, PushedStacks
  <2>7. /\ \A v \in Thread : \A q :
             OnStack(s1[v], q) =>
               OnStack(stack'[v], q)
                 \/ (Kind(f) = "MUTEX_UNLOCK" /\ w = v /\ ResourceOf(f) = q)
        /\ OnStack(stack'[w], ResourceOf(f))
        /\ \A v \in Thread \ {w} : ~OnStack(s1[v], ResourceOf(f))
        /\ Kind(f) # "SEM_WAIT"
    BY <2>2, <2>3, <2>6
  <2>8. Follows(Append(o1, f), [p1 EXCEPT ![w] = @ + 1], stack')
    <3> HIDE DEF stack
    <3> QED BY <1>1, <2>2, <2>5, <2>7, FollowsOn
  <2> QED BY <2>1, <2>8
<1>14. ASSUME NEW r \in Resource, NEW w \in Thread, PassesSignal(t, w, r)
       PROVE  Follows(order', pc', stack')
  <2> DEFINE o1 == Append(order, e)
             p1 == [pc EXCEPT ![t] = @ + 1]
             f == NextEvent(w)
  <2>1. /\ t # w /\ order' = Append(o1, f) /\ pc' = [p1 EXCEPT ![w] = @ + 1]
        /\ pc[t] < StepCount(t) /\ Kind(e) = "SEM_SIGNAL" /\ ResourceOf(e) = r
        /\ stack' = stack
    BY <1>3, <1>5, <1>14 DEF PassesSignal, Booked, stack
  <2>2. /\ p1 \in [Thread -> Nat] /\ p1[w] < StepCount(w) /\ f = <<w, p1[w] + 1>>
        /\ Kind(f) = "SEM_WAIT" /\ ResourceOf(f) = r
    BY <1>12, <1>14, <2>1 DEF PassesSignal, About
  <2>3. e \in Event /\ Follows(o1, p1, stack)
    BY <1>1, <1>4, <2>1, FollowsOn DEF stack, o1, p1
  <2>4. Includes(o1, e)
    BY <1>1, <2>3, OneMoreEvent DEF o1
  <2> HIDE DEF o1, p1, f
  <2> QED BY <1>1, <2>1, <2>2, <2>3, <2>4, FollowsOn
<1> QED BY <1>6, <1>7, <1>8, <1>9, <1>10, <1>11, <1>13, <1>14 DEF Books, stack

-----------------------------------------------------------------------------
(* Threads that are done have run their programs, if none says DONE *)

LEMMA OnlyExitsEnd ==
  ASSUME SchedOK, NEW t \in Thread, Step(t), state'[t] = "DONE"
  PROVE  ThreadEnd(t) \/ Done(t)
<1>1. TickedState[t] = "READY"
  BY DEF Step, ThreadEnd, Done, Lock, TimedLock, Unlock, Wait, TimedWait, Signal,
         WaitCond, SignalCond, Broadcast, Post, PostFront, Fetch, Pause, Unhandled,
         LocalReject, SysLock, SysUnlock, IsrEnter, IsrExit, ObjectInit,
         ObjectDestroy, Call, Return, Doing, Scheduled
<1>2. /\ ~Stay /\ ~Advance(t)
      /\ \A r, ticks : ~Block(t, r, "BLOCKED_MUTEX", ticks) /\ ~Block(t, r, "BLOCKED_SEM", ticks)
      /\ \A W, n : ~WakeAndAdvance(t, W, n)
  BY <1>1 DEF SchedOK, Stay, Advance, Block, WakeAndAdvance, TickedState
<1>3. ~Lock(t) /\ ~TimedLock(t) /\ ~Unlock(t)
  BY <1>2 DEF Lock, TimedLock, Unlock, MutexLock, MutexUnlock, LockAcquire, LockBlock,
              LockReject, UnlockHandoff, UnlockFree, UnlockReject
<1>4. ~Wait(t) /\ ~TimedWait(t) /\ ~Signal(t)
  BY <1>2 DEF Wait, TimedWait, Signal, SemWait, SemSignal, SemTake, SemBlock, SemWaitReject,
              SemWake, SemPost, SemSignalReject
<1>5. ~WaitCond(t) /\ ~SignalCond(t) /\ ~Broadcast(t)
  BY <1>2 DEF WaitCond, SignalCond, Broadcast, CondWait, CondSignal, CondBroadcast,
              CondBlock, CondOverflow, CondWaitReject, CondWake, CondLost,
              CondSignalReject, CondWakeAll
<1>6. ~Post(t) /\ ~PostFront(t) /\ ~Fetch(t)
  BY <1>2 DEF Post, PostFront, Fetch, MbPost, MbPostFront, MbFetch, MbAppend, MbPrepend,
              MbTake, MbBlock, MbReject
<1>7. /\ ~Pause(t) /\ ~Unhandled(t) /\ ~LocalReject(t)
      /\ ~SysLock(t) /\ ~SysUnlock(t) /\ ~IsrEnter(t) /\ ~IsrExit(t)
      /\ ~ObjectInit(t) /\ ~ObjectDestroy(t) /\ ~Call(t) /\ ~Return(t)
  BY <1>2 DEF Pause, Unhandled, LocalReject, SysLock, SysUnlock, IsrEnter, IsrExit, CtxStep,
              ObjectInit, ObjectDestroy, SetAlive, Call, Return
<1> QED BY <1>3, <1>4, <1>5, <1>6, <1>7 DEF Step

FinishedInv ==
  Exportable(scenario) /\ fail = "none" =>
    \A u \in Thread : state[u] = "DONE" => pc[u] = StepCount(u)

LEMMA FinishedStep ==
  ASSUME Waits, Exportable(scenario), scenario' = scenario,
         \A u \in Thread : /\ pc[u] <= StepCount(u)
                           /\ state[u] = "DONE" => pc[u] = StepCount(u),
         NEW t \in Thread, Step(t), WaitShape(t), Books(t),
         NEW u \in Thread, state'[u] = "DONE"
  PROVE  pc'[u] = StepCount(u)'
<1>1. /\ Typed /\ SchedOK /\ pc[u] \in Nat /\ StepCount(u) \in Nat
      /\ StepCount(u)' = StepCount(u)
  BY DEF Waits, Typed, SchedOK, ValidScenario, StepCount
<1>2. PICK A \in SUBSET Thread :
        MovesOn(A) /\ \A v \in A : pc[v] < StepCount(v) /\ state'[v] \notin BlockedStates
  BY BooksMoves
<1>3. pc[u] = StepCount(u)
  <2>1. CASE u = t
    <3>1. ~Done(t)
      BY <1>1, CurrentIsOfScenario DEF Done, Exportable
    <3>2. ThreadEnd(t)
      BY <1>1, <2>1, <3>1, OnlyExitsEnd
    <3>3. pc[t] >= StepCount(t)
      BY <1>1, <3>2, TimeStandsStill DEF ThreadEnd, Waits
    <3> QED BY <1>1, <2>1, <3>3
  <2>2. CASE u # t
    <3>1. state[u] = "DONE"
      BY <2>2 DEF WaitShape, Minds, Queues, Wakes, WakesAll, Unmoved
    <3> QED BY <3>1
  <2> QED BY <2>1, <2>2
<1> QED BY <1>1, <1>2, <1>3 DEF MovesOn

LEMMA FinishedCorrect == Spec /\ FitsArrays(scenario) => []FinishedInv
<1>1. Init => FinishedInv
  BY DEF Init, Reset, FinishedInv
<1>2. TypeOK /\ BlockedAreQueued /\ ExactInv /\ PendingInv /\ FinishedInv /\ [Next]_vars
        => FinishedInv'
  <2> SUFFICES ASSUME TypeOK, BlockedAreQueued, ExactInv, PendingInv, FinishedInv, [Next]_vars
               PROVE  FinishedInv'
    OBVIOUS
  <2>1. CASE Next
    <3>1. scenario' = scenario
      BY <2>1, StepKeepsScenario DEF Next, Runnable
    <3>2. Exportable(scenario)' = Exportable(scenario)
      BY <3>1
    <3>3. ASSUME Exportable(scenario), fail' = "none", NEW u \in Thread, state'[u] = "DONE"
          PROVE  pc'[u] = StepCount(u)'
      <4>1. /\ Waits /\ fail = "none" /\ \A v \in Thread : pc[v] <= StepCount(v)
            /\ \E t \in Thread : Step(t) /\ WaitShape(t) /\ Books(t)
        BY <2>1, <3>3, UntimedStep DEF Exportable
      <4>2. \A v \in Thread : state[v] = "DONE" => pc[v] = StepCount(v)
        BY <3>3, <4>1 DEF FinishedInv
      <4> QED BY <3>1, <3>3, <4>1, <4>2, FinishedStep
    <3> QED BY <3>2, <3>3 DEF FinishedInv
  <2>2. CASE UNCHANGED vars
    BY <2>2 DEF FinishedInv, StepCount, vars, schedVars
  <2> QED BY <2>1, <2>2
<1> QED BY <1>1, <1>2, TypeCorrect, SleepersAreQueued, ExactCorrect, PendingCorrect, PTL
     DEF Spec

-----------------------------------------------------------------------------
(* Executions of the engine that no model guides *)

EngineInv ==
  /\ TypeOK /\ BlockedAreQueued /\ StacksMatchOwners /\ ExactInv /\ PendingInv
  /\ TallyInv /\ FinishedInv

LEMMA FreeStep ==
  ASSUME [SmtNext]_smtVars
  PROVE  Free' = Free /\ (Free => [Next]_vars)
<1>1. UNCHANGED smtVars => UNCHANGED vars /\ plan' = plan
  BY DEF smtVars, replayVars
<1>2. SmtNext => plan' = plan
  BY DEF SmtNext, RunFreely, RunModel, RefuseModel, Follow, GiveUp, replayVars
<1>3. Free /\ SmtNext => Next
  BY DEF SmtNext, RunFreely, RunModel, RefuseModel, Next
<1> QED BY <1>1, <1>2, <1>3 DEF Free

LEMMA FreeRuns == SmtSpec /\ FitsArrays(scenario) => [](Free => EngineInv)
<1>1. SmtInit => Init
  BY DEF SmtInit
<1>2. Free /\ [SmtNext]_smtVars => Free' /\ [Next]_vars
  BY FreeStep
<1>3. ~Free /\ [SmtNext]_smtVars => ~Free'
  BY FreeStep
<1>4. Spec /\ FitsArrays(scenario) => []EngineInv
  BY TypeCorrect, SleepersAreQueued, OwnersMatchStacks, ExactCorrect, PendingCorrect,
     TallyCorrect, FinishedCorrect, PTL DEF EngineInv
<1> QED BY <1>1, <1>2, <1>3, <1>4, PTL DEF SmtSpec, Spec

(* As long as no call has been refused *)
OrderInv ==
  Exportable(scenario) /\ Free /\ fail = "none" =>
    Follows(order, pc, owned_mutex_stack)

LEMMA OrderInit ==
  ASSUME SmtInit, TypeOK
  PROVE  OrderInv
<1>1. order = <<>> /\ \A u \in Thread : pc[u] = 0
  BY DEF SmtInit, Init, Reset
<1>2. Recorded(<<>>) /\ OpenOnStack(<<>>, owned_mutex_stack)
  BY DEF Recorded, InProgramOrder, SectionsApart, WaitsAreFed, OpenOnStack
<1>3. \A e \in Event : ~Includes(<<>>, e) /\ ~(e[2] <= pc[e[1]])
  BY <1>1, EventParts DEF Includes, TypeOK
<1> QED BY <1>1, <1>2, <1>3 DEF OrderInv, Follows

LEMMA OrderStep ==
  ASSUME Free => EngineInv, OrderInv, [SmtNext]_smtVars
  PROVE  OrderInv'
<1>1. Free' = Free
  BY FreeStep
<1>2. ASSUME scenario' = scenario, order' = order, pc' = pc, fail' = fail,
             owned_mutex_stack' = owned_mutex_stack
      PROVE  OrderInv'
  <2>1. /\ Exportable(scenario)' = Exportable(scenario)
        /\ Follows(order, pc, owned_mutex_stack)' = Follows(order, pc, owned_mutex_stack)
    BY <1>2 DEF Follows, Recorded, InProgramOrder, SectionsApart, WaitsAreFed, OpenOnStack,
                SectionClosed, Closes, Kind, ResourceOf, Event, StepCount
  <2> QED BY <1>1, <1>2, <2>1 DEF OrderInv
<1>3. CASE UNCHANGED smtVars
  BY <1>2, <1>3 DEF smtVars, vars, schedVars, inheritVars
<1>4. CASE SmtNext
  <2> SUFFICES ASSUME Exportable(scenario)', Free', fail' = "none"
               PROVE  Follows(order, pc, owned_mutex_stack)'
    BY DEF OrderInv
  <2>1. PICK t \in Runnable : Step(t) /\ Completes(t)
    BY <1>1, <1>4 DEF SmtNext, RunFreely, RunModel, RefuseModel
  <2>2. /\ EngineInv /\ t \in Thread /\ scenario' = scenario
    BY <1>1, <2>1, StepKeepsScenario DEF Runnable
  <2>3. Exportable(scenario) /\ Untimed(scenario) /\ CondFree(scenario) /\ WellTyped(scenario)
    BY <2>2 DEF Exportable
  <2>4. fail = "none"
    BY <2>1, <2>2, StepIsAllowed
  <2>5. /\ Waits /\ \A u \in Thread : pc[u] <= StepCount(u)
        /\ \A r \in Resource : Tally(r)
    BY <2>2, <2>3, <2>4, TypeOKParts
       DEF EngineInv, Waits, Typed, ExactInv, PendingInv, TallyInv
  <2>6. Books(t)
    BY <2>1, <2>2, <2>3, <2>5, StepBooks
  <2>7. Follows(order, pc, owned_mutex_stack)
    BY <1>1, <2>3, <2>4 DEF OrderInv
  <2>8. Follows(order', pc', owned_mutex_stack')
    BY <2>1, <2>2, <2>3, <2>5, <2>6, <2>7, OrderFollows DEF EngineInv
  <2>9. /\ Event' = Event
        /\ \A e : Kind(e)' = Kind(e) /\ ResourceOf(e)' = ResourceOf(e)
    BY <2>2 DEF Event, Kind, ResourceOf, StepCount
  <2>10. Recorded(order)' <=> Recorded(order')
    <3>1. InProgramOrder(order)' <=> InProgramOrder(order')
      BY DEF InProgramOrder
    <3>2. SectionsApart(order)' <=> SectionsApart(order')
      BY <2>9 DEF SectionsApart, Closes
    <3>3. WaitsAreFed(order)' <=> WaitsAreFed(order')
      BY <2>2, <2>9 DEF WaitsAreFed
    <3> QED BY <2>9, <3>1, <3>2, <3>3 DEF Recorded
  <2>11. OpenOnStack(order, owned_mutex_stack)' <=> OpenOnStack(order', owned_mutex_stack')
    BY <2>9 DEF OpenOnStack, SectionClosed, Closes
  <2> QED BY <2>8, <2>9, <2>10, <2>11 DEF Follows
<1> QED BY <1>3, <1>4

(* The formula of smash_smt_export has every execution of the engine that  *)
(* runs to its end as a model: if a solver finds none, no schedule ends    *)
(* well.                                                                   *)
THEOREM ExecutionsSatisfyFormula == SmtSpec /\ FitsArrays(scenario) => []ExecutionsAreModels
<1>1. SmtInit /\ (Free => EngineInv) => OrderInv
  <2> SUFFICES ASSUME SmtInit, Free => EngineInv PROVE OrderInv
    OBVIOUS
  <2>1. CASE Free
    BY <2>1, OrderInit DEF EngineInv
  <2>2. CASE ~Free
    BY <2>2 DEF OrderInv
  <2> QED BY <2>1, <2>2
<1>2. (Free => EngineInv) /\ OrderInv /\ [SmtNext]_smtVars => OrderInv'
  BY OrderStep
<1>3. (Free => EngineInv) /\ OrderInv => ExecutionsAreModels
  <2> SUFFICES ASSUME Free => EngineInv, OrderInv,
                      Exportable(scenario), Free, AllDone, fail = "none"
               PROVE  Formula(Position(order))
    BY DEF ExecutionsAreModels
  <2>1. ValidScenario(scenario) /\ Recorded(order)
    BY DEF EngineInv, TypeOK, OrderInv, Follows
  <2>2. \A u \in Thread : pc[u] = StepCount(u)
    BY DEF EngineInv, FinishedInv, AllDone
  <2>3. \A e \in Event : Includes(order, e)
    BY <2>1, <2>2, EventParts DEF OrderInv, Follows
  <2> QED BY <2>1, <2>3, RecordedIsModel
<1> QED BY <1>1, <1>2, <1>3, FreeRuns, PTL DEF SmtSpec

-----------------------------------------------------------------------------
(* What a program holds, where threads nest their sections *)

LEMMA HeldChanges ==
  ASSUME ValidScenario(scenario), FitsArrays(scenario), Balanced(scenario),
         NEW u \in Thread
  PROVE  LET steps == scenario.steps[u]
             h == Held(scenario.steps[u]) IN
         /\ h[0] = <<>> /\ h[StepCount(u)] = <<>>
         /\ \A i \in 1 .. StepCount(u) : \A r \in Resource :
              OnStack(h[i], r) <=>
                \/ steps[i].type = "MUTEX_LOCK" /\ steps[i].resource_id = r
                \/ /\ OnStack(h[i - 1], r)
                   /\ ~(steps[i].type = "MUTEX_UNLOCK" /\ steps[i].resource_id = r)
<1> DEFINE steps == scenario.steps[u]
           h == Held(steps)
           n == StepCount(u)
<1>1. /\ n \in Nat /\ n = Len(steps)
      /\ \A i \in 1 .. n :
           steps[i].type = "MUTEX_LOCK" => steps[i].resource_id \in Resource
  BY DEF ValidScenario, FitsArrays, ResourceActions, StepCount
<1> HIDE DEF steps
<1>2. /\ h[0] = <<>>
      /\ \A i \in 1 .. n : h[i] = StackAfter(h[i - 1], steps[i])
  BY <1>1, HeldStepwise
<1>3. /\ h[n] = <<>>
      /\ \A i \in 1 .. n :
           /\ steps[i].type = "MUTEX_LOCK" => steps[i].resource_id \notin Range(h[i - 1])
           /\ steps[i].type = "MUTEX_UNLOCK" =>
                h[i - 1] # <<>> /\ h[i - 1][Len(h[i - 1])] = steps[i].resource_id
  BY <1>1 DEF Balanced, steps
<1> HIDE DEF h, n
<1>4. ASSUME NEW i \in 1 .. n, h[i - 1] \in Seq(Resource), NoRepeats(h[i - 1])
      PROVE  /\ h[i] \in Seq(Resource) /\ NoRepeats(h[i])
             /\ \A r \in Resource :
                  OnStack(h[i], r) <=>
                    \/ steps[i].type = "MUTEX_LOCK" /\ steps[i].resource_id = r
                    \/ /\ OnStack(h[i - 1], r)
                       /\ ~(steps[i].type = "MUTEX_UNLOCK" /\ steps[i].resource_id = r)
  <2> DEFINE s == h[i - 1]
             a == steps[i]
  <2>1. h[i] = StackAfter(s, a)
    BY <1>1, <1>2
  <2>2. CASE a.type = "MUTEX_LOCK"
    <3>1. h[i] = Append(s, a.resource_id) /\ a.resource_id \in Resource
      BY <1>1, <2>1, <2>2, StackAfters
    <3>2. ~OnStack(s, a.resource_id)
      BY <1>3, <1>4, <2>2 DEF OnStack, Range
    <3>3. OwnedPush(s, a.resource_id) = Append(s, a.resource_id)
      BY <1>4, <3>1, <3>2, RoomOnStack DEF OwnedPush
    <3>4. s \in Seq(Resource) /\ NoRepeats(s)
      BY <1>4
    <3> HIDE DEF s, a
    <3>5. PICK r \in Resource : r = a.resource_id
      BY <3>1
    <3>6. /\ OwnedPush(s, r) \in Seq(Resource) /\ NoRepeats(OwnedPush(s, r))
          /\ \A q \in Resource : OnStack(OwnedPush(s, r), q) <=> OnStack(s, q) \/ q = r
      BY <3>2, <3>4, <3>5, PushOnStack
    <3>7. h[i] = OwnedPush(s, r)
      BY <3>1, <3>3, <3>5
    <3> QED BY <2>2, <3>5, <3>6, <3>7 DEF s, a
  <2>3. CASE a.type = "MUTEX_UNLOCK"
    <3>1. /\ h[i] = OwnedPop(s) /\ Len(s) > 0 /\ s[Len(s)] = a.resource_id
      BY <1>3, <1>4, <2>1, <2>3, StackAfters
    <3> HIDE DEF s, a
    <3>2. /\ h[i] \in Seq(Resource) /\ NoRepeats(h[i])
          /\ \A q \in Resource : OnStack(h[i], q) <=> OnStack(s, q) /\ q # a.resource_id
      BY <1>4, <3>1, PopOffStack DEF s
    <3> QED BY <2>3, <3>2 DEF s, a
  <2>4. CASE a.type \notin {"MUTEX_LOCK", "MUTEX_UNLOCK"}
    <3>1. h[i] = s
      BY <2>1, <2>4, StackAfters
    <3> QED BY <1>4, <2>4, <3>1
  <2> QED BY <2>2, <2>3, <2>4
<1>5. \A i \in 0 .. n : h[i] \in Seq(Resource) /\ NoRepeats(h[i])
  <2> DEFINE T == {i \in 0 .. n : ~(h[i] \in Seq(Resource) /\ NoRepeats(h[i]))}
  <2> SUFFICES ASSUME T # {} PROVE FALSE
    OBVIOUS
  <2>1. PICK i \in T : \A j \in T : i <= j
    <3>1. T \in SUBSET Nat
      BY <1>1
    <3> HIDE DEF T
    <3> QED BY <3>1, LeastNumber
  <2>2. i # 0
    <3>1. <<>> \in Seq(Resource) /\ NoRepeats(<<>>)
      BY DEF NoRepeats
    <3> QED BY <1>2, <2>1, <3>1
  <2>3. i \in 1 .. n /\ i - 1 \in 0 .. n /\ i - 1 \notin T
    BY <1>1, <2>1, <2>2
  <2> QED BY <1>4, <2>1, <2>3
<1>6. \A i \in 1 .. n : i - 1 \in 0 .. n
  BY <1>1
<1> QED BY <1>2, <1>3, <1>4, <1>5, <1>6 DEF h, n, steps

LocksAt(u, i, r) ==
  scenario.steps[u][i].type = "MUTEX_LOCK" /\ scenario.steps[u][i].resource_id = r
UnlocksAt(u, i, r) ==
  scenario.steps[u][i].type = "MUTEX_UNLOCK" /\ scenario.steps[u][i].resource_id = r

(* Where a mutex is held, the last lock of it is not yet unlocked. *)
LEMMA HeldIsOpen ==
  ASSUME ValidScenario(scenario), FitsArrays(scenario), Balanced(scenario),
         NEW u \in Thread,
         NEW k \in 0 .. StepCount(u), NEW r \in Resource,
         OnStack(Held(scenario.steps[u])[k], r)
  PROVE  \E i \in 1 .. k : LocksAt(u, i, r) /\ \A j \in i + 1 .. k : ~UnlocksAt(u, j, r)
<1> DEFINE h == Held(scenario.steps[u])
           n == StepCount(u)
           IsOpen(m) ==
             \E i \in 1 .. m : LocksAt(u, i, r) /\ \A j \in i + 1 .. m : ~UnlocksAt(u, j, r)
           T == {m \in 0 .. n : OnStack(h[m], r) /\ ~IsOpen(m)}
<1>1. n \in Nat
  BY DEF ValidScenario, StepCount
<1>2. /\ h[0] = <<>>
      /\ \A i \in 1 .. n :
           OnStack(h[i], r)
             <=> LocksAt(u, i, r) \/ (OnStack(h[i - 1], r) /\ ~UnlocksAt(u, i, r))
  BY HeldChanges DEF LocksAt, UnlocksAt
<1> HIDE DEF h, n
<1> SUFFICES ASSUME T # {} PROVE FALSE
  BY DEF h, n
<1>3. PICK m \in T : \A j \in T : m <= j
  <2>1. T \in SUBSET Nat
    BY <1>1
  <2> HIDE DEF T
  <2> QED BY <2>1, LeastNumber
<1>4. m # 0
  BY <1>2, <1>3 DEF OnStack
<1>5. m \in 1 .. n /\ m - 1 \in 0 .. n
  BY <1>1, <1>3, <1>4
<1>6. CASE LocksAt(u, m, r)
  BY <1>1, <1>3, <1>5, <1>6
<1>7. CASE ~LocksAt(u, m, r)
  <2>1. OnStack(h[m - 1], r) /\ ~UnlocksAt(u, m, r)
    BY <1>2, <1>3, <1>5, <1>7
  <2>2. m - 1 \notin T
    BY <1>1, <1>3, <1>5
  <2>3. IsOpen(m - 1)
    BY <1>5, <2>1, <2>2
  <2> HIDE DEF T
  <2>4. PICK i \in 1 .. m - 1 :
          LocksAt(u, i, r) /\ \A j \in i + 1 .. m - 1 : ~UnlocksAt(u, j, r)
    BY <2>3
  <2>5. \A j \in i + 1 .. m : j \in i + 1 .. m - 1 \/ j = m
    BY <1>5
  <2>6. i \in 1 .. m
    BY <1>5
  <2>7. IsOpen(m)
    BY <2>1, <2>4, <2>5, <2>6
  <2> QED BY <1>3, <2>7 DEF T
<1> QED BY <1>6, <1>7

(* Every lock is given back, *)
LEMMA LocksAreUnlocked ==
  ASSUME ValidScenario(scenario), FitsArrays(scenario), Balanced(scenario),
         NEW u \in Thread,
         NEW i \in 1 .. StepCount(u), NEW r \in Resource, LocksAt(u, i, r)
  PROVE  \E k \in i + 1 .. StepCount(u) : UnlocksAt(u, k, r)
<1> DEFINE h == Held(scenario.steps[u])
           n == StepCount(u)
           T == {m \in i .. n : ~OnStack(h[m], r)}
<1>1. n \in Nat
  BY DEF ValidScenario, StepCount
<1>2. /\ h[n] = <<>>
      /\ \A j \in 1 .. n :
           OnStack(h[j], r)
             <=> LocksAt(u, j, r) \/ (OnStack(h[j - 1], r) /\ ~UnlocksAt(u, j, r))
  BY HeldChanges DEF LocksAt, UnlocksAt
<1> HIDE DEF h
<1>3. PICK m \in T : \A j \in T : m <= j
  <2>1. T \in SUBSET Nat
    BY <1>1
  <2>2. n \in T
    BY <1>1, <1>2 DEF OnStack
  <2> HIDE DEF T
  <2> QED BY <2>1, <2>2, LeastNumber
<1>4. m # i
  BY <1>2, <1>3
<1>5. m \in i + 1 .. n /\ m \in 1 .. n /\ m - 1 \in i .. n
  BY <1>1, <1>3, <1>4
<1>6. OnStack(h[m - 1], r)
  BY <1>1, <1>3, <1>5
<1> QED BY <1>2, <1>3, <1>5, <1>6

-----------------------------------------------------------------------------
(* The places of the events in a model *)

LEMMA EventsAreFinite ==
  ASSUME ValidScenario(scenario)
  PROVE  IsFiniteSet(Event)
<1> DEFINE own(t) == {t} \X (1 .. StepCount(t))
           f == [t \in Thread |-> own(t)]
           A == {own(t) : t \in Thread}
<1>1. IsFiniteSet(Thread)
  BY SizeAssumption, FS_Interval DEF Thread
<1>2. f \in Surjection(Thread, A)
  BY DEF Surjection
<1>3. IsFiniteSet(A)
  <2> HIDE DEF f, A
  <2> QED BY <1>1, <1>2, FS_Surjection
<1>4. ASSUME NEW t \in Thread
      PROVE  IsFiniteSet(own(t))
  <2>1. StepCount(t) \in Nat
    BY DEF ValidScenario, StepCount
  <2>2. IsFiniteSet({t})
    BY FS_Singleton, Zenon
  <2>3. IsFiniteSet(1 .. StepCount(t))
    BY <2>1, FS_Interval
  <2> QED BY <2>2, <2>3, FS_Product
<1>5. Event = UNION A
  BY DEF Event
<1> HIDE DEF A
<1>6. \A B \in A : IsFiniteSet(B)
  BY <1>4 DEF A
<1> QED BY <1>3, <1>5, <1>6, FS_UNION

(* How many of the first i steps of p are u's *)
StepsBy(p, u, i) == Cardinality({j \in 1 .. i : p[j] = u})

LEMMA StepsAreCounted ==
  ASSUME NEW p, NEW u
  PROVE  /\ \A i \in Nat : StepsBy(p, u, i) \in Nat
         /\ StepsBy(p, u, 0) = 0
         /\ \A i \in Nat \ {0} :
              StepsBy(p, u, i) = IF p[i] = u THEN StepsBy(p, u, i - 1) + 1
                                 ELSE StepsBy(p, u, i - 1)
         /\ \A i, k \in Nat : i <= k => StepsBy(p, u, i) <= StepsBy(p, u, k)
<1> DEFINE S(i) == {j \in 1 .. i : p[j] = u}
<1>1. ASSUME NEW i \in Nat
      PROVE  IsFiniteSet(S(i)) /\ Cardinality(S(i)) \in Nat
  <2>1. IsFiniteSet(1 .. i) /\ S(i) \in SUBSET (1 .. i)
    BY FS_Interval
  <2> HIDE DEF S
  <2>2. IsFiniteSet(S(i))
    BY <2>1, FS_Subset
  <2> QED BY <2>2, FS_CardinalityType
<1>2. Cardinality(S(0)) = 0
  <2>1. S(0) = {}
    OBVIOUS
  <2> QED BY <2>1, FS_EmptySet, Zenon
<1>3. ASSUME NEW i \in Nat \ {0}
      PROVE  Cardinality(S(i)) = IF p[i] = u THEN Cardinality(S(i - 1)) + 1
                                 ELSE Cardinality(S(i - 1))
  <2>1. i - 1 \in Nat /\ i \notin S(i - 1)
        /\ S(i) = IF p[i] = u THEN S(i - 1) \cup {i} ELSE S(i - 1)
    OBVIOUS
  <2> HIDE DEF S
  <2>2. Cardinality(S(i - 1) \cup {i}) = Cardinality(S(i - 1)) + 1
    BY <1>1, <2>1, FS_AddElement
  <2> QED BY <2>1, <2>2
<1>4. ASSUME NEW i \in Nat, NEW k \in Nat, i <= k
      PROVE  Cardinality(S(i)) <= Cardinality(S(k))
  <2>1. S(i) \in SUBSET S(k)
    BY <1>4
  <2> HIDE DEF S
  <2> QED BY <1>1, <2>1, FS_Subset
<1> HIDE DEF S
<1>5. \A i : StepsBy(p, u, i) = Cardinality(S(i))
  BY DEF StepsBy, S
<1> QED BY <1>1, <1>2, <1>3, <1>4, <1>5

LEMMA StepCounts ==
  ASSUME NEW p, NEW u, NEW i \in Nat \ {0}
  PROVE  StepsBy(p, u, i) = IF p[i] = u THEN StepsBy(p, u, i - 1) + 1
                            ELSE StepsBy(p, u, i - 1)
<1>1. \A j \in Nat \ {0} :
        StepsBy(p, u, j) = IF p[j] = u THEN StepsBy(p, u, j - 1) + 1
                           ELSE StepsBy(p, u, j - 1)
  BY StepsAreCounted, Zenon
<1> QED BY <1>1, Zenon

Place(p, e) == Position(EventsAlong(p))[e]

LEMMA PlacesOfEvents ==
  ASSUME ValidScenario(scenario), NEW p \in ThreadOrders
  PROVE  LET E == EventsAlong(p) IN
         /\ Len(p) \in Nat /\ p \in [1 .. Len(p) -> Thread] /\ p \in Seq(Thread)
         /\ E \in Seq(Event) /\ Len(E) = Len(p)
         /\ \A i \in 1 .. Len(p) : E[i] = <<p[i], StepsBy(p, p[i], i - 1) + 1>>
         /\ \A u \in Thread : StepsBy(p, u, Len(p)) = StepCount(u)
         /\ \A e \in Event : Place(p, e) \in 1 .. Len(p) /\ E[Place(p, e)] = e
         /\ \A e \in Event : \A i \in 0 .. Len(p) :
              e[2] <= StepsBy(p, e[1], i) <=> Place(p, e) <= i
<1> DEFINE E == EventsAlong(p)
           n == Cardinality(Event)
<1>1. n \in Nat
  BY EventsAreFinite, FS_CardinalityType
<1>2. p \in [1 .. n -> Thread] /\ DOMAIN p = 1 .. n
  BY DEF ThreadOrders
<1> HIDE DEF n
<1>3. Len(p) = n /\ p \in Seq(Thread)
  BY <1>1, <1>2
<1>4. \A u \in Thread : StepsBy(p, u, n) = StepCount(u)
  BY <1>2 DEF ThreadOrders, StepsBy
<1>5. E = [i \in 1 .. n |-> <<p[i], StepsBy(p, p[i], i)>>]
  BY <1>2 DEF EventsAlong, StepsBy
<1>6. /\ \A u : \A i \in 0 .. n : StepsBy(p, u, i) \in Nat
      /\ \A u : StepsBy(p, u, 0) = 0
      /\ \A u : \A i \in 1 .. n :
           StepsBy(p, u, i) = IF p[i] = u THEN StepsBy(p, u, i - 1) + 1
                              ELSE StepsBy(p, u, i - 1)
      /\ \A u : \A i, k \in 0 .. n : i <= k => StepsBy(p, u, i) <= StepsBy(p, u, k)
  <2>1. ASSUME NEW u
        PROVE  /\ \A i \in 0 .. n : StepsBy(p, u, i) \in Nat
               /\ StepsBy(p, u, 0) = 0
               /\ \A i \in 1 .. n :
                    StepsBy(p, u, i) = IF p[i] = u THEN StepsBy(p, u, i - 1) + 1
                                       ELSE StepsBy(p, u, i - 1)
               /\ \A i, k \in 0 .. n : i <= k => StepsBy(p, u, i) <= StepsBy(p, u, k)
    BY <1>1, StepsAreCounted
  <2> QED BY <2>1
<1> HIDE DEF E
<1>7. ASSUME NEW i \in 1 .. n
      PROVE  /\ E[i] = <<p[i], StepsBy(p, p[i], i - 1) + 1>> /\ p[i] \in Thread
             /\ E[i] \in Event
  <2>1. /\ p[i] \in Thread /\ i \in 0 .. n /\ i - 1 \in 0 .. n
        /\ E[i] = <<p[i], StepsBy(p, p[i], i)>>
        /\ StepsBy(p, p[i], i) = StepsBy(p, p[i], i - 1) + 1
    BY <1>1, <1>2, <1>5, <1>6
  <2>2. StepsBy(p, p[i], i) <= StepsBy(p, p[i], n) /\ n \in 0 .. n
    BY <1>1, <1>6, <2>1
  <2>3. StepsBy(p, p[i], i) \in 1 .. StepCount(p[i])
    BY <1>4, <1>6, <2>1, <2>2
  <2> QED BY <2>1, <2>3, EventMembers
<1>8. E \in Seq(Event) /\ Len(E) = n
  <2>1. E \in [1 .. n -> Event]
    BY <1>5, <1>7
  <2> QED BY <1>1, <2>1
<1>9. ASSUME NEW u \in Thread, NEW i \in 1 .. StepCount(u)
      PROVE  \E k \in 1 .. n : E[k] = <<u, i>>
  <2> DEFINE T == {k \in 0 .. n : StepsBy(p, u, k) >= i}
  <2>1. PICK k \in T : \A j \in T : k <= j
    <3>1. T \in SUBSET Nat
      BY <1>1
    <3>2. n \in T
      BY <1>1, <1>4, <1>9
    <3> HIDE DEF T
    <3> QED BY <3>1, <3>2, LeastNumber
  <2>2. k # 0
    BY <1>6, <1>9, <2>1
  <2>3. k \in 1 .. n /\ k - 1 \in 0 .. n /\ k - 1 \notin T
    BY <1>1, <2>1, <2>2
  <2>4. StepsBy(p, u, k - 1) < i /\ StepsBy(p, u, k) >= i
        /\ StepsBy(p, u, k - 1) \in Nat /\ i \in Nat
    BY <1>6, <1>9, <2>1, <2>3
  <2>5. p[k] = u /\ StepsBy(p, u, k - 1) + 1 = i
    BY <1>6, <2>3, <2>4
  <2> QED BY <1>7, <2>3, <2>5
<1>10. ASSUME NEW e \in Event
       PROVE  Place(p, e) \in 1 .. n /\ E[Place(p, e)] = e
  <2>1. e[1] \in Thread /\ e[2] \in 1 .. StepCount(e[1]) /\ e = <<e[1], e[2]>>
    BY EventParts
  <2>2. \E k \in 1 .. n : E[k] = e
    BY <1>9, <2>1
  <2>3. Place(p, e) = CHOOSE k \in 1 .. n : E[k] = e
    BY <1>8 DEF Place, Position, E
  <2> QED BY <2>2, <2>3
<1>11. ASSUME NEW e \in Event, NEW i \in 0 .. n
       PROVE  e[2] <= StepsBy(p, e[1], i) <=> Place(p, e) <= i
  <2> DEFINE k == Place(p, e)
             u == e[1]
  <2>1. k \in 1 .. n /\ E[k] = e
    BY <1>10
  <2> HIDE DEF k
  <2>2. /\ e = <<p[k], StepsBy(p, p[k], k - 1) + 1>>
        /\ k \in 0 .. n /\ k - 1 \in 0 .. n /\ k \in Nat /\ i \in Nat
    BY <1>1, <1>7, <2>1
  <2>3. p[k] = u /\ e[2] = StepsBy(p, u, k - 1) + 1 /\ StepsBy(p, u, k) = e[2]
    BY <1>6, <2>1, <2>2
  <2> HIDE DEF u
  <2>4. StepsBy(p, u, k - 1) \in Nat /\ StepsBy(p, u, i) \in Nat
    BY <1>6, <2>2
  <2>5. CASE k <= i
    BY <1>6, <2>2, <2>3, <2>5 DEF u, k
  <2>6. CASE ~(k <= i)
    <3>1. i <= k - 1
      BY <2>2, <2>6
    <3>2. StepsBy(p, u, i) <= StepsBy(p, u, k - 1)
      BY <1>6, <2>2, <3>1
    <3> QED BY <2>3, <2>4, <2>6, <3>2 DEF u, k
  <2> QED BY <2>5, <2>6
<1> QED BY <1>1, <1>2, <1>3, <1>4, <1>7, <1>8, <1>10, <1>11 DEF E

LEMMA PlacesInOrder ==
  ASSUME ValidScenario(scenario), NEW p \in ThreadOrders,
         NEW e \in Event, NEW f \in Event, e[1] = f[1], e[2] < f[2]
  PROVE  Place(p, e) < Place(p, f)
<1>1. /\ e[2] \in Nat /\ f[2] \in Nat /\ Len(p) \in Nat
      /\ Place(p, e) \in 1 .. Len(p) /\ EventsAlong(p)[Place(p, e)] = e
      /\ Place(p, f) \in 1 .. Len(p) /\ EventsAlong(p)[Place(p, f)] = f
  BY EventParts, PlacesOfEvents
<1>2. Place(p, f) \in 0 .. Len(p) /\ StepsBy(p, e[1], Place(p, f)) \in Nat
  <2>1. Place(p, f) \in 0 .. Len(p) /\ Place(p, f) \in Nat
    BY <1>1
  <2>2. \A i \in Nat : StepsBy(p, e[1], i) \in Nat
    BY StepsAreCounted
  <2> QED BY <2>1, <2>2
<1>3. f[2] <= StepsBy(p, f[1], Place(p, f))
  BY <1>1, <1>2, PlacesOfEvents
<1>4. e[2] <= StepsBy(p, e[1], Place(p, f))
  BY <1>1, <1>2, <1>3
<1>5. Place(p, e) <= Place(p, f)
  BY <1>2, <1>4, PlacesOfEvents
<1>6. Place(p, e) # Place(p, f)
  BY <1>1
<1> QED BY <1>1, <1>5, <1>6

LEMMA CallsNameResources ==
  ASSUME ValidScenario(scenario), FitsArrays(scenario),
         NEW e \in Event, Kind(e) \in ResourceActions
  PROVE  ResourceOf(e) \in Resource
<1>1. e[1] \in Thread /\ e[2] \in 1 .. StepCount(e[1])
  BY EventParts
<1> QED BY <1>1 DEF Kind, ResourceOf, FitsArrays, StepCount

(* An unlock that the formula pairs a lock with *)
LEMMA SomeMatchingUnlock ==
  ASSUME ValidScenario(scenario), FitsArrays(scenario), Balanced(scenario),
         NEW e \in EventsOf("MUTEX_LOCK")
  PROVE  \E u \in MatchingUnlock(e) : u \in Event /\ Closes(u, e) /\ e[2] < u[2]
<1> DEFINE t == e[1]
           r == ResourceOf(e)
           T == {k \in e[2] + 1 .. StepCount(t) : UnlocksAt(t, k, r)}
<1>1. e \in Event /\ Kind(e) = "MUTEX_LOCK"
  BY KindsOfEvents
<1>2. t \in Thread /\ e[2] \in 1 .. StepCount(t) /\ StepCount(t) \in Nat
  BY <1>1, EventParts DEF ValidScenario, StepCount
<1>3. r \in Resource /\ LocksAt(t, e[2], r)
  BY <1>1, CallsNameResources DEF LocksAt, Kind, ResourceOf, ResourceActions
<1>4. PICK k \in T : \A j \in T : k <= j
  <2>1. T \in SUBSET Nat
    BY <1>2
  <2>2. T # {}
    BY <1>2, <1>3, LocksAreUnlocked
  <2> HIDE DEF T
  <2> QED BY <2>1, <2>2, LeastNumber
<1> DEFINE u == <<t, k>>
<1>5. /\ k \in 1 .. StepCount(t) /\ e[2] < k /\ u[1] = t /\ u[2] = k
  BY <1>2, <1>4
<1>6. /\ u \in Event /\ Kind(u) = "MUTEX_UNLOCK" /\ ResourceOf(u) = r
  BY <1>2, <1>4, <1>5, EventMembers DEF UnlocksAt, Kind, ResourceOf
<1>7. ASSUME NEW v \in EventsOf("MUTEX_UNLOCK"), v[1] = t, ResourceOf(v) = r, v[2] > e[2]
      PROVE  k <= v[2]
  <2>1. v \in Event /\ Kind(v) = "MUTEX_UNLOCK"
    BY KindsOfEvents
  <2>2. v[2] \in e[2] + 1 .. StepCount(t)
    BY <1>2, <1>7, <2>1, EventParts
  <2>3. v[2] \in T
    BY <1>7, <2>1, <2>2 DEF UnlocksAt, Kind, ResourceOf
  <2> QED BY <1>4, <2>3
<1> HIDE DEF u, T
<1>8. u \in MatchingUnlock(e)
  BY <1>2, <1>5, <1>6, <1>7, KindsOfEvents DEF MatchingUnlock
<1> QED BY <1>5, <1>6, <1>8 DEF Closes

(* In a model a section ends before another thread's section begins, *)
LEMMA SectionsInModel ==
  ASSUME ValidScenario(scenario), FitsArrays(scenario), Balanced(scenario),
         NEW p \in Models,
         NEW e \in EventsOf("MUTEX_LOCK"), NEW f \in EventsOf("MUTEX_LOCK"),
         e[1] # f[1], ResourceOf(e) = ResourceOf(f), Place(p, e) < Place(p, f)
  PROVE  \E u \in Event : Closes(u, e) /\ e[2] < u[2] /\ Place(p, u) < Place(p, f)
<1>1. p \in ThreadOrders /\ Formula(Position(EventsAlong(p)))
  BY DEF Models
<1>2. \A a, b \in EventsOf("MUTEX_LOCK") :
        a[1] < b[1] /\ ResourceOf(a) = ResourceOf(b) =>
          \A u \in MatchingUnlock(a), v \in MatchingUnlock(b) :
            Place(p, u) < Place(p, b) \/ Place(p, v) < Place(p, a)
  BY <1>1 DEF Formula, MutexExclusivity, Place
<1>3. PICK u \in MatchingUnlock(e) : u \in Event /\ Closes(u, e) /\ e[2] < u[2]
  BY SomeMatchingUnlock
<1>4. PICK v \in MatchingUnlock(f) : v \in Event /\ Closes(v, f) /\ f[2] < v[2]
  BY SomeMatchingUnlock
<1>5. e \in Event /\ f \in Event /\ e[1] \in Thread /\ f[1] \in Thread
  BY KindsOfEvents, EventParts
<1>6. e[1] < f[1] \/ f[1] < e[1]
  BY <1>5, SizeAssumption DEF Thread
<1>7. Place(p, u) < Place(p, f) \/ Place(p, v) < Place(p, e)
  BY <1>2, <1>6
<1>8. Place(p, f) < Place(p, v)
  BY <1>1, <1>4, <1>5, PlacesInOrder DEF Closes
<1>9. Place(p, e) \in Nat /\ Place(p, f) \in Nat /\ Place(p, v) \in Nat
  <2>1. Len(p) \in Nat /\ \A a \in Event : Place(p, a) \in 1 .. Len(p)
    BY <1>1, PlacesOfEvents
  <2> HIDE DEF Place
  <2> QED BY <1>4, <1>5, <2>1
<1> QED BY <1>3, <1>7, <1>8, <1>9

(* and a wait on an empty semaphore has a signal before it. *)
LEMMA SignalsInModel ==
  ASSUME ValidScenario(scenario), Signalled(scenario), NEW p \in Models,
         NEW w \in EventsOf("SEM_WAIT"), scenario.sem_init[ResourceOf(w)] <= 0
  PROVE  /\ scenario.sem_init[ResourceOf(w)] = 0
         /\ \E s \in Event : /\ Kind(s) = "SEM_SIGNAL" /\ ResourceOf(s) = ResourceOf(w)
                             /\ Place(p, s) < Place(p, w)
<1>1. w \in Event /\ Kind(w) = "SEM_WAIT" /\ w[1] \in Thread /\ w[2] \in 1 .. StepCount(w[1])
  BY KindsOfEvents, EventParts
<1>2. scenario.steps[w[1]][w[2]] \in ActionsOf(scenario)
  BY <1>1 DEF ActionsOf, StepCount
<1>3. /\ scenario.sem_init[ResourceOf(w)] = 0
      /\ \E b \in ActionsOf(scenario) : b.type = "SEM_SIGNAL" /\ b.resource_id = ResourceOf(w)
  BY <1>1, <1>2 DEF Signalled, Kind, ResourceOf
<1>4. PICK b \in ActionsOf(scenario) : b.type = "SEM_SIGNAL" /\ b.resource_id = ResourceOf(w)
  BY <1>3
<1>5. PICK u \in Thread : \E i \in 1 .. StepCount(u) : b = scenario.steps[u][i]
  BY DEF ActionsOf, StepCount
<1>6. PICK i \in 1 .. StepCount(u) : b = scenario.steps[u][i]
  BY <1>5
<1>7. <<u, i>> \in EventsOf("SEM_SIGNAL") /\ ResourceOf(<<u, i>>) = ResourceOf(w)
  BY <1>4, <1>6, EventMembers, KindsOfEvents DEF Kind, ResourceOf
<1>8. PICK s \in EventsOf("SEM_SIGNAL") :
        ResourceOf(s) = ResourceOf(w) /\ Place(p, s) < Place(p, w)
  <2> DEFINE signals == {s \in EventsOf("SEM_SIGNAL") : ResourceOf(s) = ResourceOf(w)}
  <2>1. signals # {}
    BY <1>7
  <2>2. SemaphoreOrdering(Position(EventsAlong(p)))
    BY DEF Models, Formula
  <2> QED BY <2>1, <2>2 DEF SemaphoreOrdering, Place
<1> QED BY <1>3, <1>8, KindsOfEvents

-----------------------------------------------------------------------------
(* A thread that finds its mutex free or its semaphore positive *)

(* What a replayed step is taken in *)
Untroubled ==
  /\ Waits /\ StacksMatchOwners /\ Lockstep(scenario) /\ fail = "none"
  /\ \A u \in Thread : OnTrack(u) /\ exec_ctx[u] = "THREAD" /\ state[u] \notin BlockedStates
  /\ \A r \in Resource : alive[r] /\ Tally(r)

(* The action is completed at once *)
Smooth(t) ==
  /\ state' = state /\ MovesOn({t})
  /\ UNCHANGED <<fail, alive, exec_ctx>>

LEMMA NobodyWaits ==
  ASSUME Untroubled, NEW r \in Resource
  PROVE  waiters[r] = <<>>
<1>1. waiters[r] \in Seq(Thread)
  BY DEF Untroubled, Waits, Typed, ModelOK, ObjectOK
<1>2. \A i \in 1 .. Len(waiters[r]) : FALSE
  BY WaitingAreAbout DEF Untroubled
<1> QED BY <1>1, <1>2

LEMMA LockstepSteps ==
  ASSUME Untroubled, NEW t \in Thread, Step(t)
  PROVE  Lock(t) \/ Unlock(t) \/ Wait(t) \/ Signal(t) \/ Pause(t) \/ ThreadEnd(t)
<1>1. ASSUME NEW type, Doing(t, type)
      PROVE  type \in {"MUTEX_LOCK", "MUTEX_UNLOCK", "SEM_WAIT", "SEM_SIGNAL", "NOP"}
  BY <1>1, CurrentIsOfScenario DEF Untroubled, Waits, Lockstep
<1>2. /\ ~Done(t) /\ ~TimedLock(t) /\ ~TimedWait(t)
      /\ ~WaitCond(t) /\ ~SignalCond(t) /\ ~Broadcast(t)
      /\ ~Post(t) /\ ~PostFront(t) /\ ~Fetch(t)
  BY <1>1 DEF Done, TimedLock, TimedWait, WaitCond, SignalCond, Broadcast, Post, PostFront,
              Fetch
<1>3. /\ ~SysLock(t) /\ ~SysUnlock(t) /\ ~IsrEnter(t) /\ ~IsrExit(t)
      /\ ~ObjectInit(t) /\ ~ObjectDestroy(t) /\ ~Call(t) /\ ~Return(t)
  <2>1. \A type \in {"SYS_LOCK", "SYS_UNLOCK", "ISR_ENTER", "ISR_EXIT", "OBJECT_INIT",
                    "OBJECT_DESTROY", "CALL", "RETURN"} : ~Doing(t, type)
    BY <1>1
  <2> QED BY <2>1 DEF SysLock, SysUnlock, IsrEnter, IsrExit, ObjectInit, ObjectDestroy,
                      Call, Return
<1>4. ~Unhandled(t) /\ ~LocalReject(t)
  <2>1. \A type \in {"COND_WAIT_TIMEOUT", "MB_POST_TIMEOUT", "MB_FETCH_TIMEOUT",
                    "SYS_UNLOCK", "ISR_ENTER", "ISR_EXIT", "OBJECT_DESTROY"} :
          ~Doing(t, type)
    BY <1>1
  <2> QED BY <2>1 DEF Unhandled, LocalReject
<1> QED BY <1>2, <1>3, <1>4 DEF Step

LEMMA SmoothMutex ==
  ASSUME Untroubled, NEW t \in Thread, state[t] = "READY", Lock(t) \/ Unlock(t),
         \A r \in Resource : About(t, "MUTEX_LOCK", r) => owner[r] = NoThread
  PROVE  Smooth(t)
<1>1. /\ Typed /\ SchedOK /\ NoTimers /\ StacksMatchOwners
      /\ WellTyped(scenario) /\ Balanced(scenario) /\ OnTrack(t)
  BY DEF Untroubled, Waits, Typed, Lockstep
<1> DEFINE r == Target(t)
<1>2. r \in Resource
  BY <1>1, TypedCalls DEF OfType
<1>3. alive[r] /\ waiters[r] = <<>>
  BY <1>2, NobodyWaits DEF Untroubled
<1>4. Advance(t) => state' = state /\ MovesOn({t})
  BY <1>1, StayMoves
<1> HIDE DEF r
<1>5. CASE Lock(t)
  <2>1. owner[r] = NoThread
    BY <1>1, <1>2, <1>5, DoingIsAbout DEF Lock, r
  <2>2. LockFault(t, r) = "none"
    BY <1>3, <2>1 DEF LockFault, Untroubled, Thread, NoThread
  <2>3. LockAcquire(t, r)
    BY <1>5, <2>1, <2>2 DEF Lock, MutexLock, LockBlock, LockReject, Reject, r
  <2> QED BY <1>4, <1>5, <2>3 DEF LockAcquire, Lock, ModelStep, ctxVars, Smooth
<1>6. CASE Unlock(t)
  <2>1. UnlockFault(t, r) = "none"
    <3>1. About(t, "MUTEX_UNLOCK", r)
      BY <1>1, <1>6, DoingIsAbout DEF Unlock, r
    <3> QED BY <1>1, <1>2, <1>3, <3>1, NextIsInOrder DEF UnlockFault
  <2>2. UnlockFree(t, r)
    BY <1>3, <1>6, <2>1 DEF Unlock, MutexUnlock, UnlockHandoff, UnlockReject, Reject, r
  <2> QED BY <1>4, <1>6, <2>2 DEF UnlockFree, Unlock, ModelStep, ctxVars, Smooth
<1> QED BY <1>5, <1>6

LEMMA SmoothSemaphore ==
  ASSUME Untroubled, NEW t \in Thread, state[t] = "READY", Wait(t) \/ Signal(t),
         \A r \in Resource : About(t, "SEM_WAIT", r) => count[r] > 0
  PROVE  Smooth(t)
<1>1. Typed /\ SchedOK /\ NoTimers /\ WellTyped(scenario)
  BY DEF Untroubled, Waits, Typed, Lockstep
<1> DEFINE r == Target(t)
<1>2. r \in Resource
  BY <1>1, TypedCalls DEF OfType
<1>3. alive[r] /\ waiters[r] = <<>> /\ count[r] \in Int
  BY <1>1, <1>2, NobodyWaits DEF Untroubled, Typed, ModelOK, ObjectOK
<1>4. Advance(t) => state' = state /\ MovesOn({t})
  BY <1>1, StayMoves
<1> HIDE DEF r
<1>5. CASE Wait(t)
  <2>1. count[r] > 0
    BY <1>1, <1>2, <1>5, DoingIsAbout DEF Wait, r
  <2>2. SemWaitFault(t, r) = "none"
    BY <1>3, <2>1 DEF SemWaitFault, Untroubled
  <2>3. SemTake(t, r)
    BY <1>3, <1>5, <2>1, <2>2 DEF Wait, SemWait, SemBlock, SemWaitReject, Reject, r
  <2> QED BY <1>4, <1>5, <2>3 DEF SemTake, Wait, ModelStep, ctxVars, Smooth
<1>6. CASE Signal(t)
  <2>1. SemPost(t, r)
    BY <1>3, <1>6 DEF Signal, SemSignal, SemWake, SemSignalReject, Reject, r
  <2> QED BY <1>4, <1>6, <2>1 DEF SemPost, Signal, ModelStep, ctxVars, Smooth
<1> QED BY <1>5, <1>6

LEMMA SmoothStep ==
  ASSUME Untroubled, NEW t \in Thread, state[t] = "READY", Step(t), pc[t] < StepCount(t),
         \A r \in Resource : About(t, "MUTEX_LOCK", r) => owner[r] = NoThread,
         \A r \in Resource : About(t, "SEM_WAIT", r) => count[r] > 0
  PROVE  Smooth(t)
<1>1. SchedOK /\ NoTimers /\ TickedPc = pc /\ pc[t] \in Nat /\ StepCount(t) \in Nat
  BY TimeStandsStill DEF Untroubled, Waits, Typed, SchedOK, ValidScenario, StepCount
<1>2. ~ThreadEnd(t)
  BY <1>1 DEF ThreadEnd
<1>3. CASE Pause(t)
  BY <1>1, <1>3, StayMoves DEF Pause, ctxVars, Smooth
<1> QED BY <1>2, <1>3, LockstepSteps, SmoothMutex, SmoothSemaphore

LEMMA LastStep ==
  ASSUME Untroubled, NEW t \in Thread, state[t] = "READY", Step(t), pc[t] >= StepCount(t)
  PROVE  /\ state' = [state EXCEPT ![t] = "DONE"] /\ MovesOn({})
         /\ UNCHANGED <<fail, alive, exec_ctx>>
<1>1. /\ SchedOK /\ NoTimers /\ TickedPc = pc /\ TickedState = state
      /\ pc[t] \in Nat /\ StepCount(t) \in Nat
  BY TimeStandsStill DEF Untroubled, Waits, Typed, SchedOK, ValidScenario, StepCount
<1>2. \A type : ~Doing(t, type)
  BY <1>1 DEF Doing
<1>3. ThreadEnd(t)
  BY <1>2, LockstepSteps DEF Lock, Unlock, Wait, Signal, Pause
<1> QED BY <1>1, <1>3 DEF ThreadEnd, ctxVars, MovesOn, SchedOK

-----------------------------------------------------------------------------
(* Along a model, the next event finds its object ready. *)

(* Every thread has done its share of the first i - 1 events of p. *)
UpTo(p, i) == \A u \in Thread : pc[u] = StepsBy(p, u, i - 1)

LEMMA NextPlace ==
  ASSUME ValidScenario(scenario), NEW p \in ThreadOrders, NEW i \in 1 .. Len(p), UpTo(p, i)
  PROVE  /\ p[i] \in Thread /\ pc[p[i]] < StepCount(p[i])
         /\ NextEvent(p[i]) \in Event /\ NextEvent(p[i]) = EventsAlong(p)[i]
         /\ Place(p, NextEvent(p[i])) = i
         /\ \A e \in Event : e[2] <= pc[e[1]] <=> Place(p, e) < i
<1> DEFINE t == p[i]
           E == EventsAlong(p)
           f == E[i]
<1>1. /\ Len(p) \in Nat /\ t \in Thread /\ E \in Seq(Event) /\ Len(E) = Len(p)
      /\ f = <<t, StepsBy(p, t, i - 1) + 1>>
      /\ \A e \in Event : Place(p, e) \in 1 .. Len(p) /\ E[Place(p, e)] = e
      /\ \A e \in Event : \A j \in 0 .. Len(p) :
           e[2] <= StepsBy(p, e[1], j) <=> Place(p, e) <= j
  BY PlacesOfEvents
<1>2. i \in 0 .. Len(p) /\ i - 1 \in 0 .. Len(p)
  BY <1>1
<1>3. f \in Event /\ f = NextEvent(t) /\ f[1] = t /\ f[2] = pc[t] + 1
  <2>1. f \in Event
    <3>1. E \in Seq(Event) /\ i \in 1 .. Len(E)
      BY <1>1
    <3> HIDE DEF E
    <3> QED BY <3>1
  <2>2. pc[t] = StepsBy(p, t, i - 1)
    BY <1>1 DEF UpTo
  <2>3. f = <<t, pc[t] + 1>>
    BY <1>1, <2>2
  <2> HIDE DEF E, f, t
  <2> QED BY <2>1, <2>3 DEF NextEvent
<1>4. ASSUME NEW e \in Event
      PROVE  e[2] <= pc[e[1]] <=> Place(p, e) <= i - 1
  <2>1. e[1] \in Thread
    BY EventParts
  <2>2. pc[e[1]] = StepsBy(p, e[1], i - 1)
    BY <2>1 DEF UpTo
  <2> QED BY <1>1, <1>2, <2>2
<1>5. pc[t] < StepCount(t) /\ StepCount(t) \in Nat /\ pc[t] \in Nat
  <2>1. f[2] \in Nat /\ f[2] <= StepCount(t)
    BY <1>3, EventParts
  <2>2. StepCount(t) \in Nat
    BY <1>1 DEF ValidScenario, StepCount
  <2>3. pc[t] \in Nat
    <3>1. pc[t] = StepsBy(p, t, i - 1)
      BY <1>1 DEF UpTo
    <3>2. \A j \in Nat : StepsBy(p, t, j) \in Nat
      <4> HIDE DEF t
      <4> QED BY StepsAreCounted
    <3>3. i - 1 \in Nat
      BY <1>1
    <3> QED BY <3>1, <3>2, <3>3
  <2> QED BY <1>3, <2>1, <2>2, <2>3
<1> HIDE DEF E, f
<1>6. Place(p, f) = i
  <2>1. ~(f[2] <= pc[f[1]])
    BY <1>3, <1>5
  <2>2. i \in 1 .. Len(p) /\ StepsBy(p, t, i) = StepsBy(p, t, i - 1) + 1
    <3>1. Len(p) \in Nat /\ i \in 1 .. Len(p) /\ p[i] = t
      BY <1>1
    <3>2. i \in Nat \ {0}
      BY <3>1
    <3> HIDE DEF t
    <3>3. StepsBy(p, t, i) = IF p[i] = t THEN StepsBy(p, t, i - 1) + 1
                             ELSE StepsBy(p, t, i - 1)
      BY <3>2, StepCounts
    <3> QED BY <3>1, <3>3
  <2>3. pc[t] = StepsBy(p, t, i - 1)
    BY <1>1 DEF UpTo
  <2>4. f[2] <= StepsBy(p, f[1], i)
    BY <1>3, <1>5, <2>2, <2>3
  <2>5. Place(p, f) <= i /\ ~(Place(p, f) <= i - 1)
    BY <1>1, <1>2, <1>3, <1>4, <2>1, <2>4
  <2>6. Place(p, f) \in Nat /\ i \in Nat
    BY <1>1, <1>3
  <2> QED BY <2>5, <2>6
<1>7. \A e \in Event : Place(p, e) \in Nat /\ (Place(p, e) <= i - 1 <=> Place(p, e) < i)
  <2>1. \A e \in Event : Place(p, e) \in Nat
    BY <1>1
  <2> QED BY <2>1
<1> QED BY <1>1, <1>3, <1>4, <1>5, <1>6, <1>7 DEF E, f

LEMMA FreeToLock ==
  ASSUME Untroubled, NEW p \in Models, NEW i \in 1 .. Len(p), UpTo(p, i),
         NEW r \in Resource, About(p[i], "MUTEX_LOCK", r)
  PROVE  owner[r] = NoThread
<1> DEFINE t == p[i]
           f == NextEvent(t)
<1>1. /\ Typed /\ ValidScenario(scenario) /\ FitsArrays(scenario)
      /\ Balanced(scenario) /\ StacksMatchOwners
      /\ p \in ThreadOrders /\ owner[r] \in Thread \cup {NoThread}
  BY DEF Untroubled, Waits, Typed, ModelOK, ObjectOK, InheritOK, Lockstep, Models
<1> SUFFICES ASSUME owner[r] \in Thread PROVE FALSE
  BY <1>1
<1> DEFINE v == owner[r]
<1>2. /\ t \in Thread /\ f \in Event /\ Place(p, f) = i
      /\ \A e \in Event : e[2] <= pc[e[1]] <=> Place(p, e) < i
  BY <1>1, NextPlace
<1>3. v # t
  BY <1>1, <1>2, NextIsInOrder DEF Untroubled
<1>4. f \in EventsOf("MUTEX_LOCK") /\ ResourceOf(f) = r /\ f[1] = t
  BY <1>2, KindsOfEvents DEF NextEvent, Kind, ResourceOf, About, Pending
<1>5. OnStack(Held(scenario.steps[v])[pc[v]], r)
  <2>1. OnStack(owned_mutex_stack[v], r)
    BY <1>1 DEF StacksMatchOwners, OnStack
  <2> QED BY <2>1 DEF Untroubled, OnTrack
<1>6. pc[v] \in 0 .. StepCount(v) /\ StepCount(v) \in Nat
  BY <1>1 DEF Untroubled, OnTrack, Typed, SchedOK, ValidScenario, StepCount
<1> HIDE DEF f, t, v
<1>7. v \in Thread
  BY DEF v
<1>8. PICK k \in 1 .. pc[v] : LocksAt(v, k, r) /\ \A j \in k + 1 .. pc[v] : ~UnlocksAt(v, j, r)
  BY <1>1, <1>5, <1>6, <1>7, HeldIsOpen
<1> DEFINE e == <<v, k>>
<1>9. /\ e \in Event /\ e[1] = v /\ e[2] = k /\ e \in EventsOf("MUTEX_LOCK")
      /\ ResourceOf(e) = r
  <2>1. k \in 1 .. StepCount(v)
    BY <1>6
  <2>2. e \in Event
    BY <1>1, <1>7, <2>1, EventMembers
  <2> QED BY <1>8, <2>2, KindsOfEvents DEF LocksAt, Kind, ResourceOf
<1> HIDE DEF e
<1>10. Place(p, e) < Place(p, f)
  BY <1>2, <1>9
<1>11. PICK u \in Event : Closes(u, e) /\ e[2] < u[2] /\ Place(p, u) < Place(p, f)
  BY <1>1, <1>3, <1>4, <1>9, <1>10, SectionsInModel
<1>12. u[2] <= pc[v] /\ u[1] = v
  BY <1>2, <1>9, <1>11 DEF Closes
<1>13. u[2] \in k + 1 .. pc[v]
  <2>1. u[2] \in Nat
    BY <1>1, EventParts
  <2> QED BY <1>6, <1>9, <1>11, <1>12, <2>1
<1>14. UnlocksAt(v, u[2], r)
  BY <1>9, <1>11, <1>12 DEF Closes, UnlocksAt, Kind, ResourceOf
<1> QED BY <1>8, <1>13, <1>14

LEMMA ExecutedEvents ==
  ASSUME Typed, \A u \in Thread : pc[u] <= StepCount(u), NEW type, NEW r, NEW e
  PROVE  e \in Executed(type, r) <=>
           e \in Event /\ e[2] <= pc[e[1]] /\ Kind(e) = type /\ ResourceOf(e) = r
<1>1. \A u \in Thread : pc[u] \in Nat /\ StepCount(u) \in Nat /\ Passed(u) = pc[u]
  BY DEF Typed, SchedOK, ValidScenario, StepCount, Passed
<1>2. ASSUME e \in Executed(type, r)
      PROVE  e \in Event /\ e[2] <= pc[e[1]] /\ Kind(e) = type /\ ResourceOf(e) = r
  <2>1. PICK u \in Thread : \E i \in 1 .. Passed(u) :
          /\ e = <<u, i>>
          /\ scenario.steps[u][i].type = type
          /\ scenario.steps[u][i].resource_id = r
    BY <1>2, ExecutedMembers
  <2>2. PICK i \in 1 .. Passed(u) :
          /\ e = <<u, i>>
          /\ scenario.steps[u][i].type = type
          /\ scenario.steps[u][i].resource_id = r
    BY <2>1
  <2>3. i \in 1 .. StepCount(u) /\ i <= pc[u]
    BY <1>1
  <2>4. e \in Event
    BY <2>2, <2>3, EventMembers DEF Typed
  <2> QED BY <2>2, <2>3, <2>4 DEF Kind, ResourceOf
<1>3. ASSUME e \in Event, e[2] <= pc[e[1]], Kind(e) = type, ResourceOf(e) = r
      PROVE  e \in Executed(type, r)
  <2>1. e[1] \in Thread /\ e[2] \in Nat \ {0} /\ e = <<e[1], e[2]>>
    BY <1>3, EventParts DEF Typed
  <2>2. e[2] \in 1 .. Passed(e[1])
    BY <1>1, <1>3, <2>1
  <2> QED BY <1>3, <2>1, <2>2, ExecutedMembers DEF Kind, ResourceOf
<1> QED BY <1>2, <1>3

LEMMA LargerOfTwo ==
  ASSUME NEW a \in Int, NEW b \in Int
  PROVE  Max({a, b}) = IF a >= b THEN a ELSE b
<1>1. \E x \in {a, b} : \A y \in {a, b} : x >= y
  OBVIOUS
<1> QED BY <1>1 DEF Max

LEMMA SignalIsThere ==
  ASSUME Untroubled, NEW p \in Models, NEW i \in 1 .. Len(p), UpTo(p, i),
         NEW r \in Resource, About(p[i], "SEM_WAIT", r)
  PROVE  count[r] > 0
<1> DEFINE t == p[i]
           f == NextEvent(t)
           S == Executed("SEM_SIGNAL", r)
           W == Executed("SEM_WAIT", r)
           waits == {e \in EventsOf("SEM_WAIT") : ResourceOf(e) = r}
           init == scenario.sem_init[r]
<1>1. /\ Typed /\ ValidScenario(scenario) /\ Supplied(scenario) /\ Signalled(scenario)
      /\ p \in ThreadOrders /\ init \in Int /\ Tally(r)
      /\ \A u \in Thread : pc[u] <= StepCount(u)
  BY DEF Untroubled, Waits, Typed, ValidScenario, Lockstep, Models, OnTrack
<1>2. /\ t \in Thread /\ f \in Event /\ Place(p, f) = i
      /\ \A e \in Event : e[2] <= pc[e[1]] <=> Place(p, e) < i
  BY <1>1, NextPlace
<1>3. f \in EventsOf("SEM_WAIT") /\ ResourceOf(f) = r
  BY <1>2, KindsOfEvents DEF NextEvent, Kind, ResourceOf, About, Pending
<1>4. /\ \A e : e \in W <=> /\ e \in Event /\ e[2] <= pc[e[1]]
                            /\ Kind(e) = "SEM_WAIT" /\ ResourceOf(e) = r
      /\ \A e : e \in S <=> /\ e \in Event /\ e[2] <= pc[e[1]]
                            /\ Kind(e) = "SEM_SIGNAL" /\ ResourceOf(e) = r
  BY <1>1, ExecutedEvents
<1>5. /\ IsFiniteSet(S) /\ IsFiniteSet(W)
      /\ Cardinality(S) \in Nat /\ Cardinality(W) \in Nat
      /\ count[r] = init + Cardinality(S) - Cardinality(W)
  BY <1>1, FS_CardinalityType DEF Tally
<1> HIDE DEF t, f, S, W
<1>6. f \notin W
  BY <1>2, <1>4
<1>7. IsFiniteSet(waits) /\ Cardinality(waits) \in Nat
  <2>1. waits \in SUBSET Event
    BY DEF EventsOf
  <2> HIDE DEF waits
  <2>2. IsFiniteSet(waits)
    BY <1>1, <2>1, EventsAreFinite, FS_Subset
  <2> QED BY <2>2, FS_CardinalityType
<1>8. Cardinality(waits) <= Max({1, init})
  BY <1>1 DEF Supplied
<1>9. W \cup {f} \in SUBSET waits
  <2>1. \A e : e \in waits <=> e \in Event /\ Kind(e) = "SEM_WAIT" /\ ResourceOf(e) = r
    BY KindsOfEvents
  <2> HIDE DEF waits
  <2> QED BY <1>3, <1>4, <2>1, KindsOfEvents
<1> HIDE DEF waits, init
<1>10. Cardinality(W) + 1 <= Cardinality(waits)
  <2>1. Cardinality(W \cup {f}) = Cardinality(W) + 1
    BY <1>5, <1>6, FS_AddElement
  <2>2. Cardinality(W \cup {f}) <= Cardinality(waits)
    BY <1>7, <1>9, FS_Subset
  <2> QED BY <2>1, <2>2
<1>11. Max({1, init}) = IF 1 >= init THEN 1 ELSE init
  BY <1>1, LargerOfTwo
<1>12. CASE init > 0
  BY <1>1, <1>5, <1>7, <1>8, <1>10, <1>11, <1>12
<1>13. CASE ~(init > 0)
  <2>1. init <= 0
    BY <1>1, <1>13
  <2>2. PICK s \in Event : /\ Kind(s) = "SEM_SIGNAL" /\ ResourceOf(s) = r
                           /\ Place(p, s) < Place(p, f)
    BY <1>1, <1>3, <2>1, SignalsInModel DEF init
  <2>3. init = 0
    BY <1>1, <1>3, <2>1, SignalsInModel DEF init
  <2>4. s \in S
    BY <1>2, <1>4, <2>2
  <2>5. Cardinality(S) # 0
    BY <1>5, <2>4, FS_EmptySet
  <2> QED BY <1>5, <1>7, <1>8, <1>10, <1>11, <2>3, <2>5
<1> QED BY <1>12, <1>13

-----------------------------------------------------------------------------
(* A plan is a model, followed by the ends of the threads. *)

Line == SubSeq(plan, 1, Len(plan) - NThreads)
GoodPlan == \E p \in Models : plan = p \o Ends

LEMMA PlanParts ==
  ASSUME ValidScenario(scenario), GoodPlan
  PROVE  /\ Line \in Models /\ Line \in Seq(Thread) /\ Len(Line) \in Nat
         /\ NThreads \in Nat /\ Len(plan) = Len(Line) + NThreads
         /\ plan \in Seq(Thread)
         /\ \A i \in 1 .. Len(Line) : plan[i] = Line[i]
         /\ \A i \in 1 .. NThreads : plan[Len(Line) + i] = i - 1
<1>1. PICK p \in Models : plan = p \o Ends
  BY DEF GoodPlan
<1>2. p \in Seq(Thread) /\ Len(p) \in Nat /\ NThreads \in Nat
  BY PlacesOfEvents, SizeAssumption DEF Models
<1>3. /\ Ends \in [1 .. NThreads -> Thread] /\ \A i \in 1 .. NThreads : Ends[i] = i - 1
  BY SizeAssumption DEF Ends, Thread
<1>4. Ends \in Seq(Thread) /\ Len(Ends) = NThreads
  BY <1>2, <1>3
<1> HIDE DEF Ends
<1>5. /\ Len(plan) = Len(p) + NThreads /\ plan \in Seq(Thread)
      /\ \A i \in 1 .. Len(p) : plan[i] = p[i]
      /\ \A i \in 1 .. NThreads : plan[Len(p) + i] = Ends[i]
  <2>1. /\ Len(p \o Ends) = Len(p) + NThreads /\ p \o Ends \in Seq(Thread)
        /\ \A i \in 1 .. Len(p) + NThreads :
             (p \o Ends)[i] = IF i <= Len(p) THEN p[i] ELSE Ends[i - Len(p)]
    BY <1>2, <1>4
  <2>2. \A i \in 1 .. NThreads :
          Len(p) + i \in 1 .. Len(p) + NThreads /\ ~(Len(p) + i <= Len(p))
            /\ Len(p) + i - Len(p) = i
    BY <1>2
  <2>3. \A i \in 1 .. Len(p) : i \in 1 .. Len(p) + NThreads /\ i <= Len(p)
    BY <1>2
  <2> QED BY <1>1, <2>1, <2>2, <2>3
<1>6. Line = p
  <2>1. Len(plan) - NThreads = Len(p)
    BY <1>2, <1>5
  <2>2. Line = SubSeq(p \o Ends, 1, Len(p))
    BY <1>1, <2>1 DEF Line
  <2>3. SubSeq(p \o Ends, 1, Len(p)) = p
    BY <1>2, <1>4
  <2> QED BY <2>2, <2>3
<1> QED BY <1>1, <1>2, <1>3, <1>5, <1>6

-----------------------------------------------------------------------------
(* Replaying a model is running the engine. *)

SmtOK == TypeOK /\ (Free \/ GoodPlan) /\ at \in Nat \ {0}

LEMMA PickedThread ==
  ASSUME SmtOK, RunModel \/ RefuseModel
  PROVE  /\ plan[at] \in Thread /\ at \in 1 .. Len(plan) /\ GoodPlan
         /\ UNCHANGED plan
         /\ RunModel => at' = at + 1 /\ refused' = refused
         /\ RefuseModel => at' = at
         /\ RunModel => Step(plan[at])
         /\ RefuseModel => Refused(plan[at])
<1>1. ~Free /\ ~ReplayEnded
  BY DEF RunModel, RefuseModel, Follow, GiveUp
<1>2. GoodPlan /\ ValidScenario(scenario)
  BY <1>1 DEF SmtOK, TypeOK
<1>3. plan \in Seq(Thread)
  BY <1>2, PlanParts
<1>4. at \in 1 .. Len(plan)
  BY <1>1, <1>3 DEF ReplayEnded, SmtOK
<1> QED BY <1>2, <1>3, <1>4 DEF RunModel, RefuseModel, Follow, GiveUp

LEMMA SameModels ==
  ASSUME scenario' = scenario
  PROVE  Models' = Models
<1>1. /\ Event' = Event /\ \A type : EventsOf(type)' = EventsOf(type)
      /\ \A e : ResourceOf(e)' = ResourceOf(e) /\ MatchingUnlock(e)' = MatchingUnlock(e)
  BY DEF Event, EventsOf, ResourceOf, MatchingUnlock, StepCount
<1>2. \A pos : Formula(pos)' = Formula(pos)
  BY <1>1 DEF Formula, ProgramOrder, Distinct, MutexExclusivity, SemaphoreOrdering
<1>3. ThreadOrders' = ThreadOrders
  BY <1>1 DEF ThreadOrders, StepCount
<1>4. \A o : Position(o)' = Position(o)
  BY <1>1 DEF Position
<1> QED BY <1>2, <1>3, <1>4 DEF Models

LEMMA SmtTypeStep ==
  ASSUME SmtOK, [SmtNext]_smtVars
  PROVE  SmtOK' /\ scenario' = scenario /\ Free' = Free
<1>1. Free' = Free
  BY FreeStep
<1>2. TypeOK' /\ scenario' = scenario
  <2>1. CASE RunFreely
    BY <2>1, ThreadTypeStep, StepKeepsScenario DEF RunFreely, Runnable, SmtOK
  <2>2. CASE RunModel \/ RefuseModel
    BY <2>2, PickedThread, ThreadTypeStep, StepKeepsScenario
       DEF SmtOK, Refused, ModelUnchanged
  <2>3. CASE UNCHANGED smtVars
    <3>1. UNCHANGED vars
      BY <2>3 DEF smtVars
    <3> QED BY <3>1, TypeStep DEF SmtOK, vars
  <2> QED BY <2>1, <2>2, <2>3 DEF SmtNext
<1>3. plan' = plan /\ at' \in Nat \ {0}
  <2>1. CASE RunModel \/ RefuseModel
    <3>1. Len(plan) \in Nat
      BY PickedThread, <2>1, PlanParts DEF SmtOK, TypeOK
    <3> QED BY <2>1, <3>1, PickedThread
  <2>2. CASE RunFreely \/ UNCHANGED smtVars
    BY <2>2 DEF RunFreely, smtVars, replayVars, SmtOK
  <2> QED BY <2>1, <2>2 DEF SmtNext
<1>4. GoodPlan' = GoodPlan
  BY <1>2, <1>3, SameModels DEF GoodPlan, Ends
<1> QED BY <1>1, <1>2, <1>3, <1>4 DEF SmtOK

LEMMA SmtTyped == SmtSpec /\ FitsArrays(scenario) => []SmtOK
<1>1. SmtInit /\ FitsArrays(scenario) => SmtOK
  BY TypeInit DEF SmtInit, SmtOK, Free, GoodPlan
<1>2. SmtOK /\ [SmtNext]_smtVars => SmtOK'
  BY SmtTypeStep
<1> QED BY <1>1, <1>2, PTL DEF SmtSpec

LEMMA LockstepMeans ==
  ASSUME Lockstep(scenario)
  PROVE  Untimed(scenario) /\ CondFree(scenario) /\ WellTyped(scenario) /\ Regular(scenario)
         /\ Balanced(scenario)
  BY DEF Lockstep, Untimed, CondFree, TimedTypes, CondTypes, Regular

LEMMA SameLockstep ==
  ASSUME scenario' = scenario
  PROVE  Lockstep(scenario)' = Lockstep(scenario)
<1>1. /\ \A type : EventsOf(type)' = EventsOf(type)
      /\ \A e : ResourceOf(e)' = ResourceOf(e)
  BY DEF EventsOf, ResourceOf, Event, StepCount
<1>2. Supplied(scenario)' = Supplied(scenario)
  BY <1>1 DEF Supplied
<1> QED BY <1>2 DEF Lockstep, Signalled, WellTyped, Balanced

LEMMA LockstepIsRun ==
  ASSUME SmtOK, Lockstep(scenario), NoTimers, [SmtNext]_smtVars
  PROVE  /\ Lockstep(scenario)' /\ NoTimers' /\ [Next]_vars
         /\ RefuseModel => state[plan[at]] # "READY"
<1>1. scenario' = scenario /\ Typed /\ Untimed(scenario) /\ SchedOK
  BY SmtTypeStep, LockstepMeans, TypeOKParts DEF SmtOK, Typed
<1>2. Lockstep(scenario)' = Lockstep(scenario)
  BY <1>1, SameLockstep
<1>3. ASSUME NEW t \in Thread, Step(t)
      PROVE  Next /\ NoTimers'
  BY <1>1, <1>3, StepIsAwake, StepWaits DEF Next, Runnable
<1>4. ASSUME NEW t \in Thread, Refused(t)
      PROVE  UNCHANGED vars /\ NoTimers' /\ state[t] # "READY"
  <2>1. TickedState = state /\ TickedPc = pc /\ TickedBlockedOn = blocked_on
        /\ TickedTimeout = timeout_ticks
    BY <1>1, TimeStandsStill
  <2>2. UNCHANGED schedVars
    BY <1>4, <2>1 DEF Refused, Stay, schedVars
  <2>3. UNCHANGED vars
    BY <1>4, <2>2 DEF Refused, ModelUnchanged, vars, modelVars
  <2>4. timeout_ticks' = timeout_ticks
    BY <2>2 DEF schedVars
  <2> QED BY <1>4, <2>1, <2>3, <2>4 DEF Refused, NoTimers
<1>5. CASE RunFreely
  BY <1>2, <1>3, <1>5 DEF RunFreely, RefuseModel, Runnable
<1>6. CASE RunModel
  <2>1. plan[at] \in Thread /\ Step(plan[at])
    BY <1>6, PickedThread
  <2>2. state[plan[at]] = "READY" /\ Next /\ NoTimers'
    BY <1>1, <1>3, <2>1, StepIsAwake
  <2>3. ~RefuseModel
    <3>1. TickedState = state
      BY <1>1, TimeStandsStill
    <3> QED BY <2>2, <3>1 DEF RefuseModel, GiveUp, Refused
  <2> QED BY <1>2, <2>2, <2>3
<1>7. CASE RefuseModel
  BY <1>2, <1>4, <1>7, PickedThread
<1>8. CASE UNCHANGED smtVars /\ ~RefuseModel
  BY <1>2, <1>8 DEF smtVars, vars, schedVars, NoTimers
<1> QED BY <1>5, <1>6, <1>7, <1>8 DEF SmtNext

(* The invariants of the engine hold of the replay, *)
LockstepInv == Lockstep(scenario) => NoTimers /\ EngineInv /\ ReplayInv

LEMMA LockstepRuns == SmtSpec /\ FitsArrays(scenario) => []LockstepInv
<1> DEFINE L == Lockstep(scenario)
           K == L => NoTimers
<1>1. SmtInit => Init /\ K
  <2>1. SmtInit => Init
    BY DEF SmtInit
  <2>2. Init => timeout_ticks = [t \in Thread |-> NoTimeout]
    BY DEF Init, Reset
  <2> QED BY <2>1, <2>2 DEF NoTimers
<1>2. SmtOK /\ L /\ NoTimers /\ [SmtNext]_smtVars => L' /\ NoTimers' /\ [Next]_vars
  BY LockstepIsRun
<1>3. SmtOK /\ ~L /\ [SmtNext]_smtVars => ~L'
  <2> SUFFICES ASSUME SmtOK, ~L, [SmtNext]_smtVars PROVE ~L'
    OBVIOUS
  <2>1. scenario' = scenario
    BY SmtTypeStep
  <2> QED BY <2>1, SameLockstep
<1>4. Spec /\ FitsArrays(scenario) => [](EngineInv /\ ReplayInv)
  BY TypeCorrect, SleepersAreQueued, OwnersMatchStacks, ExactCorrect, PendingCorrect,
     TallyCorrect, FinishedCorrect, ReplayCorrect, PTL DEF EngineInv
<1>5. LockstepInv <=> (L => NoTimers /\ EngineInv /\ ReplayInv)
  BY DEF LockstepInv
<1> HIDE DEF L
<1> QED BY <1>1, <1>2, <1>3, <1>4, <1>5, SmtTyped, PTL DEF SmtSpec, Spec

(* which has reached this place of the model, *)
Taken == IF at - 1 <= Len(Line) THEN at - 1 ELSE Len(Line)

(* and then the threads end, in turn. *)
Along ==
  /\ fail = "none" /\ at \in 1 .. Len(plan) + 1 /\ ~refused
  /\ \A r \in Resource : alive[r]
  /\ \A u \in Thread : /\ exec_ctx[u] = "THREAD"
                       /\ pc[u] = StepsBy(Line, u, Taken)
                       /\ state[u] = IF u < at - 1 - Taken THEN "DONE" ELSE "READY"
  /\ order = SubSeq(EventsAlong(Line), 1, Taken)

AlongInv == Lockstep(scenario) /\ ~Free => Along

LEMMA AlongIsUntroubled ==
  ASSUME SmtOK, LockstepInv, Lockstep(scenario), Along
  PROVE  Untroubled
<1>1. /\ TypeOK /\ NoTimers /\ EngineInv /\ ReplayInv /\ fail = "none"
      /\ Untimed(scenario) /\ WellTyped(scenario) /\ Regular(scenario)
  BY LockstepMeans DEF SmtOK, LockstepInv, Along
<1>2. Waits /\ \A u \in Thread : OnTrack(u)
  BY <1>1, TypeOKParts
     DEF EngineInv, Waits, Typed, ExactInv, PendingInv, ReplayInv, OnTrack
<1>3. \A r \in Resource : Tally(r)
  BY <1>1 DEF EngineInv, TallyInv
<1>4. StacksMatchOwners
  BY <1>1 DEF EngineInv
<1>5. \A u \in Thread : state[u] \notin BlockedStates
  BY DEF Along, BlockedStates
<1> QED BY <1>1, <1>2, <1>3, <1>4, <1>5 DEF Untroubled, Along

(* The thread the plan picks is ready. *)
LEMMA PickIsReady ==
  ASSUME SmtOK, GoodPlan, Along, at \in 1 .. Len(plan)
  PROVE  /\ state[plan[at]] = "READY" /\ plan[at] \in Thread
         /\ at <= Len(Line) => Taken = at - 1 /\ plan[at] = Line[at]
         /\ at > Len(Line) => Taken = Len(Line) /\ plan[at] = at - 1 - Len(Line)
<1>1. /\ ValidScenario(scenario) /\ at \in Nat \ {0}
      /\ Len(Line) \in Nat /\ NThreads \in Nat /\ Len(plan) = Len(Line) + NThreads
      /\ plan \in Seq(Thread)
      /\ \A i \in 1 .. Len(Line) : plan[i] = Line[i]
      /\ \A i \in 1 .. NThreads : plan[Len(Line) + i] = i - 1
  BY PlanParts DEF SmtOK, TypeOK
<1>2. plan[at] \in Thread /\ plan[at] \in Nat
  BY <1>1 DEF Thread
<1>3. CASE at <= Len(Line)
  <2>1. Taken = at - 1 /\ plan[at] = Line[at]
    BY <1>1, <1>3 DEF Taken
  <2>2. ~(plan[at] < at - 1 - Taken)
    BY <1>1, <1>2, <2>1
  <2> QED BY <1>1, <1>2, <1>3, <2>1, <2>2 DEF Along
<1>4. CASE at > Len(Line)
  <2>1. Taken = Len(Line)
    BY <1>1, <1>4 DEF Taken
  <2>2. PICK i \in 1 .. NThreads : at = Len(Line) + i
    <3>1. at - Len(Line) \in 1 .. NThreads /\ at = Len(Line) + (at - Len(Line))
      BY <1>1, <1>4
    <3> QED BY <3>1
  <2>3. plan[at] = i - 1 /\ i - 1 = at - 1 - Len(Line)
    BY <1>1, <2>2
  <2>4. ~(plan[at] < at - 1 - Taken)
    BY <1>1, <1>2, <2>1, <2>3
  <2> QED BY <1>1, <1>2, <1>4, <2>1, <2>3, <2>4 DEF Along
<1> QED BY <1>1, <1>3, <1>4

(* A step along the model *)
LEMMA AlongModel ==
  ASSUME SmtOK, LockstepInv, Lockstep(scenario), Along, RunModel, at <= Len(Line)
  PROVE  Along'
<1> DEFINE t == plan[at]
           E == EventsAlong(Line)
<1>1. /\ t \in Thread /\ at \in 1 .. Len(plan) /\ GoodPlan /\ plan' = plan /\ at' = at + 1
      /\ Step(t) /\ Completes(t) /\ refused' = refused
  BY PickedThread DEF RunModel
<1>2. /\ state[t] = "READY" /\ Taken = at - 1 /\ t = Line[at]
  BY <1>1, PickIsReady
<1>3. /\ ValidScenario(scenario) /\ Line \in Models /\ Line \in Seq(Thread)
      /\ Len(Line) \in Nat /\ Len(plan) \in Nat
  BY <1>1, PlanParts DEF SmtOK, TypeOK
<1>4. at \in 1 .. Len(Line) /\ Line \in ThreadOrders
  BY <1>1, <1>3 DEF Models
<1>5. Untroubled /\ UpTo(Line, at)
  BY <1>2, AlongIsUntroubled DEF Along, UpTo
<1>6. /\ pc[t] < StepCount(t) /\ NextEvent(t) = E[at]
      /\ E \in Seq(Event) /\ Len(E) = Len(Line)
  <2>1. /\ pc[Line[at]] < StepCount(Line[at])
        /\ NextEvent(Line[at]) = EventsAlong(Line)[at]
    BY <1>3, <1>4, <1>5, NextPlace
  <2>2. EventsAlong(Line) \in Seq(Event) /\ Len(EventsAlong(Line)) = Len(Line)
    BY <1>3, <1>4, PlacesOfEvents
  <2> QED BY <1>2, <2>1, <2>2
<1>7. Smooth(t)
  <2>1. \A r \in Resource : About(t, "MUTEX_LOCK", r) => owner[r] = NoThread
    BY <1>2, <1>3, <1>4, <1>5, FreeToLock
  <2>2. \A r \in Resource : About(t, "SEM_WAIT", r) => count[r] > 0
    BY <1>2, <1>3, <1>4, <1>5, SignalIsThere
  <2> QED BY <1>1, <1>2, <1>5, <1>6, <2>1, <2>2, SmoothStep
<1>8. Line' = Line
  BY <1>1 DEF Line
<1>9. Taken' = at
  BY <1>1, <1>4, <1>8 DEF Taken
<1>10. SchedOK
  BY TypeOKParts DEF SmtOK
<1> HIDE DEF t, E
<1>11. \A u \in Thread : pc'[u] = StepsBy(Line, u, at)
  <2> SUFFICES ASSUME NEW u \in Thread PROVE pc'[u] = StepsBy(Line, u, at)
    OBVIOUS
  <2>1. pc[u] = StepsBy(Line, u, at - 1)
    BY <1>2 DEF Along
  <2>2. StepsBy(Line, u, at) = IF Line[at] = u THEN StepsBy(Line, u, at - 1) + 1
                               ELSE StepsBy(Line, u, at - 1)
    <3>1. at \in Nat \ {0}
      BY <1>3, <1>4
    <3> QED BY <3>1, StepCounts
  <2>3. pc'[u] = IF u = t THEN pc[u] + 1 ELSE pc[u]
    BY <1>7, <1>10 DEF Smooth, MovesOn, SchedOK
  <2> QED BY <1>2, <2>1, <2>2, <2>3
<1>12. order' = SubSeq(E, 1, at)
  <2>1. order = SubSeq(E, 1, at - 1)
    BY <1>2 DEF Along, E
  <2>2. order \in Seq(Event)
    BY <1>3, <1>4, <1>6, <2>1
  <2>3. order' = Append(order, E[at])
    BY <1>1, <1>6, <1>7, <1>10, <2>2, OrderGrows DEF Smooth
  <2>4. SubSeq(E, 1, at) = Append(SubSeq(E, 1, at - 1), E[at])
    BY <1>3, <1>4, <1>6
  <2> QED BY <2>1, <2>3, <2>4
<1>13. \A u \in Thread : u \in Nat /\ ~(u < at' - 1 - at) /\ ~(u < at - 1 - Taken)
  BY <1>1, <1>2, <1>4, SizeAssumption DEF Thread
<1>14. at' \in 1 .. Len(plan') + 1 /\ ~refused' /\ fail' = "none" /\ alive' = alive
       /\ state' = state /\ exec_ctx' = exec_ctx
  BY <1>1, <1>3, <1>7 DEF Along, Smooth
<1> QED BY <1>8, <1>9, <1>11, <1>12, <1>13, <1>14 DEF Along, E

(* The end of a thread *)
LEMMA AlongEnds ==
  ASSUME SmtOK, LockstepInv, Lockstep(scenario), Along, RunModel, at > Len(Line)
  PROVE  Along'
<1> DEFINE t == plan[at]
           n == Len(Line)
<1>1. /\ t \in Thread /\ at \in 1 .. Len(plan) /\ GoodPlan /\ plan' = plan /\ at' = at + 1
      /\ Step(t) /\ Completes(t) /\ refused' = refused
  BY PickedThread DEF RunModel
<1>2. /\ state[t] = "READY" /\ Taken = n /\ t = at - 1 - n
  BY <1>1, PickIsReady
<1>3. /\ ValidScenario(scenario) /\ Line \in Models /\ Line \in ThreadOrders
      /\ n \in Nat /\ Len(plan) \in Nat /\ SchedOK
  BY <1>1, PlanParts, TypeOKParts DEF SmtOK, Models
<1>4. Line' = Line
  BY <1>1 DEF Line
<1>5. Taken' = n
  BY <1>1, <1>3, <1>4 DEF Taken
<1>6. pc[t] = StepCount(t) /\ StepCount(t) \in Nat
  <2>1. pc[t] = StepsBy(Line, t, n)
    BY <1>1, <1>2 DEF Along
  <2>2. StepsBy(Line, t, n) = StepCount(t)
    BY <1>1, <1>3, PlacesOfEvents
  <2> QED BY <1>1, <1>3, <2>1, <2>2 DEF ValidScenario, StepCount
<1>7. /\ state' = [state EXCEPT ![t] = "DONE"] /\ MovesOn({})
      /\ UNCHANGED <<fail, alive, exec_ctx>>
  BY <1>1, <1>2, <1>6, AlongIsUntroubled, LastStep
<1>8. order' = order /\ pc' = pc
  <2>1. EventsAlong(Line) \in Seq(Event) /\ Len(EventsAlong(Line)) = n
    BY <1>3, PlacesOfEvents
  <2>2. order \in Seq(Event)
    BY <1>2, <1>3, <2>1 DEF Along
  <2>3. pc' = pc
    BY <1>3, <1>7 DEF MovesOn, SchedOK
  <2> QED BY <1>1, <1>3, <1>7, <2>2, <2>3, OrderGrows
<1> HIDE DEF t, n
<1>9. \A u \in Thread : state'[u] = IF u < at' - 1 - n THEN "DONE" ELSE "READY"
  <2> SUFFICES ASSUME NEW u \in Thread
               PROVE  state'[u] = IF u < at' - 1 - n THEN "DONE" ELSE "READY"
    OBVIOUS
  <2>1. state[u] = IF u < at - 1 - n THEN "DONE" ELSE "READY"
    BY <1>2 DEF Along
  <2>2. u \in Nat /\ (u < at' - 1 - n <=> u < at - 1 - n \/ u = t)
    BY <1>1, <1>2, <1>3, SizeAssumption DEF Thread
  <2>3. state'[u] = IF u = t THEN "DONE" ELSE state[u]
    BY <1>1, <1>3, <1>7 DEF SchedOK
  <2> QED BY <2>1, <2>2, <2>3
<1>10. at' \in 1 .. Len(plan') + 1 /\ ~refused'
  BY <1>1, <1>3 DEF Along
<1> QED BY <1>2, <1>4, <1>5, <1>7, <1>8, <1>9, <1>10 DEF Along, n

LEMMA AlongStep ==
  ASSUME SmtOK, LockstepInv, AlongInv, [SmtNext]_smtVars
  PROVE  AlongInv'
<1>1. scenario' = scenario /\ Free' = Free
  BY SmtTypeStep
<1>2. Lockstep(scenario)' = Lockstep(scenario)
  BY <1>1, SameLockstep
<1> SUFFICES ASSUME Lockstep(scenario), ~Free PROVE Along'
  BY <1>1, <1>2 DEF AlongInv
<1>3. Along
  BY DEF AlongInv
<1>4. CASE RunModel
  <2>1. Len(Line) \in Nat /\ at \in Nat
    BY PlanParts DEF SmtOK, TypeOK
  <2> QED BY <1>3, <1>4, <2>1, AlongModel, AlongEnds
<1>5. ~RefuseModel
  <2> SUFFICES ASSUME RefuseModel PROVE FALSE
    OBVIOUS
  <2>1. state[plan[at]] = "READY"
    BY <1>3, PickedThread, PickIsReady
  <2>2. state[plan[at]] # "READY"
    BY LockstepIsRun DEF LockstepInv
  <2> QED BY <2>1, <2>2
<1>6. CASE UNCHANGED smtVars
  BY <1>3, <1>6 DEF Along, Taken, Line, smtVars, replayVars, vars, schedVars, ctxVars
<1> QED BY <1>4, <1>5, <1>6 DEF SmtNext, RunFreely

LEMMA AlongInit ==
  ASSUME SmtInit, SmtOK
  PROVE  AlongInv
<1> SUFFICES ASSUME ~Free PROVE Along
  BY DEF AlongInv
<1>1. /\ ValidScenario(scenario) /\ Line \in Models /\ Len(Line) \in Nat /\ Len(plan) \in Nat
  BY PlanParts DEF SmtOK, TypeOK
<1>2. at = 1 /\ ~refused /\ order = <<>> /\ Taken = 0
  BY <1>1 DEF SmtInit, Taken
<1>3. \A u \in Thread : StepsBy(Line, u, 0) = 0 /\ ~(u < 0)
  <2>1. \A u \in Thread : u \in Nat /\ ~(u < 0)
    BY SizeAssumption DEF Thread
  <2>2. \A u \in Thread : StepsBy(Line, u, 0) = 0
    BY <1>1, StepsAreCounted
  <2> QED BY <2>1, <2>2
<1>4. SubSeq(EventsAlong(Line), 1, 0) = <<>>
  <2>1. EventsAlong(Line) \in Seq(Event)
    BY <1>1, PlacesOfEvents DEF Models
  <2> HIDE DEF Line
  <2> QED BY <2>1
<1>5. /\ fail = "none" /\ \A r \in Resource : alive[r]
      /\ \A u \in Thread : exec_ctx[u] = "THREAD" /\ pc[u] = 0 /\ state[u] = "READY"
  BY DEF SmtInit, Init, Reset
<1> HIDE DEF Line
<1> QED BY <1>1, <1>2, <1>3, <1>4, <1>5 DEF Along

(* Every model of the formula is an execution of the engine, in its own    *)
(* order, to the end, and without a thread that ever blocks, where threads *)
(* give back what they lock and no two waits compete for a signal.         *)
THEOREM ModelsRunThrough == SmtSpec /\ FitsArrays(scenario) => []ModelsAreExecutions
<1>1. SmtInit /\ SmtOK => AlongInv
  BY AlongInit
<1>2. SmtOK /\ LockstepInv /\ AlongInv /\ [SmtNext]_smtVars => AlongInv'
  BY AlongStep
<1>3. SmtOK /\ AlongInv => ModelsAreExecutions
  <2> SUFFICES ASSUME SmtOK, Along, ~Free
               PROVE  /\ fail = "none"
                      /\ \A t \in Thread : ~Waiting(t)
                      /\ order = SubSeq(EventsAlong(Line), 1, Len(order))
                      /\ ReplayEnded => AllDone
    BY DEF AlongInv, ModelsAreExecutions, Line
  <2>1. /\ ValidScenario(scenario) /\ Line \in Models /\ Line \in ThreadOrders
        /\ Len(Line) \in Nat /\ NThreads \in Nat /\ Len(plan) = Len(Line) + NThreads
    BY PlanParts DEF SmtOK, TypeOK, Models
  <2>2. \A t \in Thread : ~Waiting(t)
    BY DEF Along, Waiting, BlockedStates
  <2>3. Len(order) = Taken
    <3>1. EventsAlong(Line) \in Seq(Event) /\ Len(EventsAlong(Line)) = Len(Line)
      BY <2>1, PlacesOfEvents
    <3>2. Taken \in 0 .. Len(Line)
      BY <2>1 DEF Along, Taken
    <3> HIDE DEF Line, Taken
    <3> QED BY <2>1, <3>1, <3>2 DEF Along
  <2>4. ASSUME at > Len(plan)
        PROVE  AllDone
    <3>1. at = Len(plan) + 1
      BY <2>1, <2>4 DEF Along
    <3>2. Taken = Len(Line) /\ at - 1 - Taken = NThreads
      BY <2>1, <3>1 DEF Taken
    <3>3. \A u \in Thread : u < NThreads
      BY <2>1 DEF Thread
    <3> QED BY <3>2, <3>3 DEF Along, AllDone
  <2> HIDE DEF Line
  <2> QED BY <2>2, <2>3, <2>4 DEF Along, ReplayEnded
<1> QED BY <1>1, <1>2, <1>3, SmtTyped, LockstepRuns, PTL DEF SmtSpec
=============================================================================
