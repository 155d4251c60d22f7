----------------------------- MODULE DequeProofs -----------------------------
(***************************************************************************)
(* The mailboxes implement a bounded double-ended queue, for every         *)
(* scenario and every capacity.  The ring indices are what has to be right *)
(* for it: the tail is always as far ahead of the head as there are        *)
(* messages.                                                               *)
(***************************************************************************)
EXTENDS AccountingProofs

-----------------------------------------------------------------------------
(* Rings: the n messages from slot h of c slots on *)

Slot(h, k, c) == (h + k - 1) % c
Ring(m, h, n, c) == [k \in 1 .. n |-> m[Slot(h, k, c)]]

Slots(c) == 0 .. c - 1

Memory == [0 .. MaxWaiters - 1 -> Int]
Before(h, c) == IF h = 0 THEN c - 1 ELSE h - 1
IsMemory(m, c) == \A i \in Slots(c) : m[i] \in Int

LEMMA ModSmall ==
  ASSUME NEW c \in Nat \ {0}, NEW x \in 0 .. c + c - 1
  PROVE  x % c = IF x < c THEN x ELSE x - c
<1>1. CASE x < c
  BY <1>1
<1>2. CASE ~(x < c)
  <2>1. x \in c .. c + c - 1
    BY <1>2
  <2>2. x % c = x - c
    BY <2>1
  <2> QED BY <1>2, <2>2
<1> QED BY <1>1, <1>2

LEMMA SlotIs ==
  ASSUME NEW c \in Nat \ {0}, NEW h \in Slots(c), NEW k \in 1 .. c
  PROVE  /\ Slot(h, k, c) = IF h + k - 1 < c THEN h + k - 1 ELSE h + k - 1 - c
         /\ Slot(h, k, c) \in Slots(c)
<1> DEFINE x == h + k - 1
<1>1. x \in 0 .. c + c - 1 /\ h \in 0 .. c - 1 /\ x = h + k - 1
  BY DEF Slots
<1>2. Slot(h, k, c) = x % c
  BY DEF Slot
<1> HIDE DEF x
<1>3. x % c = IF x < c THEN x ELSE x - c
  BY <1>1, ModSmall
<1>4. Slot(h, k, c) = IF x < c THEN x ELSE x - c
  BY <1>2, <1>3
<1>5. Slot(h, k, c) \in 0 .. c - 1
  BY <1>1, <1>4
<1> QED BY <1>1, <1>4, <1>5 DEF Slots

(* The next slot, and the one before *)
LEMMA NextSlot ==
  ASSUME NEW c \in Nat \ {0}, NEW h \in Slots(c)
  PROVE  /\ (h + 1) % c = IF h + 1 < c THEN h + 1 ELSE 0
         /\ (h - 1 + c) % c = IF h = 0 THEN c - 1 ELSE h - 1
         /\ (h + 1) % c \in Slots(c) /\ (h - 1 + c) % c \in Slots(c)
<1> DEFINE x == h + 1
           y == h - 1 + c
<1>1. /\ x \in 0 .. c + c - 1 /\ y \in 0 .. c + c - 1 /\ h \in 0 .. c - 1
      /\ x = h + 1 /\ y = h - 1 + c
  BY DEF Slots
<1> HIDE DEF x, y
<1>2. x % c = IF x < c THEN x ELSE x - c
  BY <1>1, ModSmall
<1>3. y % c = IF y < c THEN y ELSE y - c
  BY <1>1, ModSmall
<1>4. x % c = IF h + 1 < c THEN h + 1 ELSE 0
  BY <1>1, <1>2
<1>5. y % c = IF h = 0 THEN c - 1 ELSE h - 1
  BY <1>1, <1>3
<1>6. x % c \in 0 .. c - 1 /\ y % c \in 0 .. c - 1
  BY <1>1, <1>4, <1>5
<1> QED BY <1>4, <1>5, <1>6 DEF x, y, Slots

(* q is read off the ring m: n slots of c, from h on *)
ReadOff(q, m, h, n, c) ==
  /\ q \in Seq(Int) /\ Len(q) = n
  /\ \A k \in 1 .. n : q[k] = m[Slot(h, k, c)]

LEMMA RingType ==
  ASSUME NEW c \in Nat \ {0}, NEW h \in Slots(c), NEW n \in 0 .. c,
         NEW m, IsMemory(m, c)
  PROVE  ReadOff(Ring(m, h, n, c), m, h, n, c)
<1>1. \A k \in 1 .. n : m[Slot(h, k, c)] \in Int
  BY SlotIs DEF IsMemory
<1> QED BY <1>1 DEF Ring, ReadOff

(* smash_mb_post *)
LEMMA RingAppend ==
  ASSUME NEW c \in Nat \ {0}, NEW h \in Slots(c), NEW n \in Slots(c),
         NEW m \in Memory, Slots(c) \subseteq 0 .. MaxWaiters - 1, NEW x \in Int
  PROVE  Ring([m EXCEPT ![Slot(h, n + 1, c)] = x], h, n + 1, c)
           = Append(Ring(m, h, n, c), x)
<1> DEFINE w == [m EXCEPT ![Slot(h, n + 1, c)] = x]
           a == Ring(w, h, n + 1, c)
           b == Ring(m, h, n, c)
<1>1. n + 1 \in 1 .. c /\ n \in 0 .. c /\ n + 1 \in 0 .. c /\ h \in Nat /\ n \in Nat
  BY DEF Slots
<1>2. IsMemory(m, c) /\ IsMemory(w, c)
  BY DEF IsMemory, Memory
<1>3. /\ a \in Seq(Int) /\ Len(a) = n + 1
      /\ \A k \in 1 .. n + 1 : a[k] = w[Slot(h, k, c)]
  <2>1. n + 1 \in 0 .. c /\ IsMemory(w, c)
    BY <1>1, <1>2
  <2> HIDE DEF w
  <2>2. ReadOff(Ring(w, h, n + 1, c), w, h, n + 1, c)
    BY <2>1, RingType
  <2> QED BY <2>2 DEF ReadOff
<1>4. /\ b \in Seq(Int) /\ Len(b) = n
      /\ \A k \in 1 .. n : b[k] = m[Slot(h, k, c)]
  <2>1. n \in 0 .. c /\ IsMemory(m, c)
    BY <1>1, <1>2
  <2> HIDE DEF w
  <2>2. ReadOff(Ring(m, h, n, c), m, h, n, c)
    BY <2>1, RingType
  <2> QED BY <2>2 DEF ReadOff
<1>5. ASSUME NEW k \in 1 .. n
      PROVE  Slot(h, k, c) # Slot(h, n + 1, c) /\ Slot(h, k, c) \in 0 .. MaxWaiters - 1
  <2>1. k \in 1 .. c
    BY <1>1
  <2>2. /\ Slot(h, k, c) = IF h + k - 1 < c THEN h + k - 1 ELSE h + k - 1 - c
        /\ Slot(h, k, c) \in Slots(c)
    BY <2>1, SlotIs
  <2>3. Slot(h, n + 1, c)
          = IF h + (n + 1) - 1 < c THEN h + (n + 1) - 1 ELSE h + (n + 1) - 1 - c
    BY <1>1, SlotIs
  <2>4. Slot(h, k, c) # Slot(h, n + 1, c)
    BY <1>1, <2>1, <2>2, <2>3 DEF Slots
  <2> QED BY <2>2, <2>4
<1>6. w[Slot(h, n + 1, c)] = x /\ \A k \in 1 .. n : w[Slot(h, k, c)] = m[Slot(h, k, c)]
  BY <1>1, <1>5, SlotIs DEF Memory
<1> HIDE DEF a, b, w
<1>7. /\ Append(b, x) \in Seq(Int) /\ Len(Append(b, x)) = n + 1
      /\ \A k \in 1 .. n : Append(b, x)[k] = b[k]
      /\ Append(b, x)[n + 1] = x
  BY <1>4, AppendType
<1>8. \A k \in 1 .. Len(a) : a[k] = Append(b, x)[k]
  <2> SUFFICES ASSUME NEW k \in 1 .. Len(a)
               PROVE  a[k] = Append(b, x)[k]
    OBVIOUS
  <2>1. CASE k = n + 1
    BY <1>1, <1>3, <1>6, <1>7, <2>1
  <2>2. CASE k # n + 1
    <3>1. k \in 1 .. n
      BY <1>1, <1>3, <2>2
    <3> QED BY <1>1, <1>3, <1>4, <1>6, <1>7, <3>1
  <2> QED BY <2>1, <2>2
<1>9. a = Append(b, x)
  BY <1>3, <1>7, <1>8, SeqEqual
<1> QED BY <1>9 DEF a, b, w

(* smash_mb_post_front *)
LEMMA RingPrepend ==
  ASSUME NEW c \in Nat \ {0}, NEW h \in Slots(c), NEW n \in Slots(c),
         NEW m \in Memory, Slots(c) \subseteq 0 .. MaxWaiters - 1, NEW x \in Int
  PROVE  Ring([m EXCEPT ![Before(h, c)] = x], Before(h, c), n + 1, c)
           = <<x>> \o Ring(m, h, n, c)
<1> DEFINE g == Before(h, c)
           w == [m EXCEPT ![g] = x]
           a == Ring(w, g, n + 1, c)
           b == Ring(m, h, n, c)
           p == <<x>>
<1>1. n + 1 \in 1 .. c /\ n \in 0 .. c /\ n + 1 \in 0 .. c /\ h \in Nat /\ n \in Nat
  BY DEF Slots
<1>2. IsMemory(m, c) /\ IsMemory(w, c)
  BY DEF IsMemory, Memory
<1>3. g \in Slots(c)
  BY DEF Slots, Before
<1> HIDE DEF g
<1>4. g \in Nat
  BY <1>3 DEF Slots
<1>5. /\ a \in Seq(Int) /\ Len(a) = n + 1
      /\ \A k \in 1 .. n + 1 : a[k] = w[Slot(g, k, c)]
  <2>1. n + 1 \in 0 .. c /\ IsMemory(w, c)
    BY <1>1, <1>2
  <2> HIDE DEF w
  <2>2. ReadOff(Ring(w, g, n + 1, c), w, g, n + 1, c)
    BY <1>3, <2>1, RingType
  <2> QED BY <2>2 DEF ReadOff
<1>6. /\ b \in Seq(Int) /\ Len(b) = n
      /\ \A k \in 1 .. n : b[k] = m[Slot(h, k, c)]
  <2>1. n \in 0 .. c /\ IsMemory(m, c)
    BY <1>1, <1>2
  <2> HIDE DEF w
  <2>2. ReadOff(Ring(m, h, n, c), m, h, n, c)
    BY <2>1, RingType
  <2> QED BY <2>2 DEF ReadOff
<1> USE DEF g, Before
<1>7. Slot(g, 1, c) = g
  BY <1>1, <1>3, SlotIs DEF Slots
<1>8. ASSUME NEW k \in 2 .. n + 1
      PROVE  Slot(g, k, c) = Slot(h, k - 1, c) /\ Slot(g, k, c) # g
             /\ Slot(g, k, c) \in 0 .. MaxWaiters - 1
  <2>1. k \in 1 .. c /\ k - 1 \in 1 .. c
    BY <1>1
  <2>2. /\ Slot(g, k, c) = IF g + k - 1 < c THEN g + k - 1 ELSE g + k - 1 - c
        /\ Slot(g, k, c) \in Slots(c)
    BY <1>3, <2>1, SlotIs
  <2>3. Slot(h, k - 1, c) = IF h + (k - 1) - 1 < c THEN h + (k - 1) - 1
                            ELSE h + (k - 1) - 1 - c
    BY <2>1, SlotIs
  <2>4. Slot(g, k, c) = Slot(h, k - 1, c)
    BY <1>1, <1>3, <2>1, <2>2, <2>3 DEF Slots
  <2>5. Slot(g, k, c) # g
    BY <1>1, <1>3, <2>1, <2>2 DEF Slots
  <2> QED BY <2>2, <2>4, <2>5
<1>9. w[g] = x /\ \A k \in 2 .. n + 1 : w[Slot(g, k, c)] = m[Slot(h, k - 1, c)]
  BY <1>3, <1>8 DEF Memory
<1> HIDE DEF a, b, w
<1>10. p \in Seq(Int) /\ Len(p) = 1 /\ p[1] = x
  OBVIOUS
<1> HIDE DEF p
<1>11. /\ p \o b \in Seq(Int) /\ Len(p \o b) = n + 1
       /\ \A k \in 1 .. n + 1 : (p \o b)[k] = IF k <= 1 THEN p[k] ELSE b[k - 1]
  <2>1. /\ p \o b \in Seq(Int) /\ Len(p \o b) = Len(p) + Len(b)
        /\ \A k \in 1 .. Len(p) + Len(b) :
             (p \o b)[k] = IF k <= Len(p) THEN p[k] ELSE b[k - Len(p)]
    BY <1>6, <1>10, ConcatProperties
  <2>2. Len(p) + Len(b) = n + 1 /\ Len(p) = 1
    BY <1>1, <1>6, <1>10
  <2> QED BY <2>1, <2>2
<1>12. \A k \in 1 .. Len(a) : a[k] = (p \o b)[k]
  <2> SUFFICES ASSUME NEW k \in 1 .. Len(a)
               PROVE  a[k] = (p \o b)[k]
    OBVIOUS
  <2>1. CASE k = 1
    <3>1. 1 \in 1 .. n + 1
      BY <1>1
    <3>2. a[1] = x
      BY <1>5, <1>7, <1>9, <3>1
    <3>3. (p \o b)[1] = x
      BY <1>10, <1>11, <3>1
    <3> QED BY <2>1, <3>2, <3>3
  <2>2. CASE k # 1
    <3>1. k \in 2 .. n + 1 /\ k - 1 \in 1 .. n /\ k \in 1 .. n + 1 /\ ~(k <= 1)
      BY <1>1, <1>5, <2>2
    <3>2. a[k] = m[Slot(h, k - 1, c)]
      BY <1>5, <1>9, <3>1
    <3>3. b[k - 1] = m[Slot(h, k - 1, c)]
      BY <1>6, <3>1
    <3>4. (p \o b)[k] = b[k - 1]
      BY <1>11, <3>1
    <3> QED BY <3>2, <3>3, <3>4
  <2> QED BY <2>1, <2>2
<1>13. a = p \o b
  BY <1>5, <1>11, <1>12, SeqEqual
<1> QED BY <1>13 DEF a, b, w, p

(* smash_mb_fetch *)
LEMMA RingTail ==
  ASSUME NEW c \in Nat \ {0}, NEW h \in Slots(c), NEW n \in 1 .. c,
         NEW m, IsMemory(m, c),
         NEW g \in Slots(c)
  PROVE  g = (IF h + 1 < c THEN h + 1 ELSE 0) =>
           /\ Ring(m, h, n, c) # <<>>
           /\ Ring(m, g, n - 1, c) = Tail(Ring(m, h, n, c))
<1> DEFINE a == Ring(m, g, n - 1, c)
           b == Ring(m, h, n, c)
<1>1. n - 1 \in 0 .. c /\ n \in 0 .. c /\ h \in Nat /\ n \in Nat
  BY DEF Slots
<1>2. g \in Slots(c)
  OBVIOUS
<1>3. g \in Nat
  BY <1>2 DEF Slots
<1>4. /\ a \in Seq(Int) /\ Len(a) = n - 1
      /\ \A k \in 1 .. n - 1 : a[k] = m[Slot(g, k, c)]
  <2>1. n - 1 \in 0 .. c /\ g \in Slots(c) /\ IsMemory(m, c)
    BY <1>1, <1>2
  <2>2. ReadOff(Ring(m, g, n - 1, c), m, g, n - 1, c)
    BY <2>1, RingType
  <2> QED BY <2>2 DEF ReadOff
<1>5. /\ b \in Seq(Int) /\ Len(b) = n
      /\ \A k \in 1 .. n : b[k] = m[Slot(h, k, c)]
  <2>1. ReadOff(Ring(m, h, n, c), m, h, n, c)
    BY <1>1, RingType
  <2> QED BY <2>1 DEF ReadOff
<1> HAVE g = IF h + 1 < c THEN h + 1 ELSE 0
<1>6. ASSUME NEW k \in 1 .. n - 1
      PROVE  Slot(g, k, c) = Slot(h, k + 1, c)
  <2>1. k \in 1 .. c /\ k + 1 \in 1 .. c
    BY <1>1
  <2>2. Slot(g, k, c) = IF g + k - 1 < c THEN g + k - 1 ELSE g + k - 1 - c
    BY <1>2, <2>1, SlotIs
  <2>3. Slot(h, k + 1, c) = IF h + (k + 1) - 1 < c THEN h + (k + 1) - 1
                            ELSE h + (k + 1) - 1 - c
    BY <2>1, SlotIs
  <2> QED BY <1>1, <1>2, <2>1, <2>2, <2>3 DEF Slots
<1> HIDE DEF a, b
<1>7. b # <<>>
  BY <1>5
<1>8. /\ Tail(b) \in Seq(Int) /\ Len(Tail(b)) = n - 1
      /\ \A k \in 1 .. n - 1 : Tail(b)[k] = b[k + 1]
  BY <1>5, <1>7, HeadTailProperties
<1>9. \A k \in 1 .. Len(a) : a[k] = Tail(b)[k]
  <2> SUFFICES ASSUME NEW k \in 1 .. n - 1
               PROVE  a[k] = Tail(b)[k]
    BY <1>4
  <2>1. k + 1 \in 1 .. n
    BY <1>1
  <2>2. a[k] = m[Slot(h, k + 1, c)]
    BY <1>4, <1>6
  <2>3. b[k + 1] = m[Slot(h, k + 1, c)]
    BY <1>5, <2>1
  <2>4. Tail(b)[k] = b[k + 1]
    BY <1>8
  <2> QED BY <2>2, <2>3, <2>4
<1>10. a = Tail(b)
  BY <1>4, <1>8, <1>9, SeqEqual
<1> QED BY <1>7, <1>10 DEF a, b

-----------------------------------------------------------------------------
(* The ring of each mailbox *)

Cap(r) == scenario.mb_capacity[r]
Contents(r) == Ring(mb_messages[r], mb_head[r], mb_count[r], Cap(r))

(* The tail is as far ahead of the head as there are messages *)
Ahead(h, n, c) == IF h + n < c THEN h + n ELSE h + n - c
RingOK(r) ==
  Cap(r) > 0 => /\ mb_head[r] \in Slots(Cap(r))
                /\ mb_tail[r] = Ahead(mb_head[r], mb_count[r], Cap(r))

RingInv == scenario \in Scenarios /\ \A r \in Resource : RingOK(r)

(* What a call works on, once it is not refused *)
LEMMA RingFacts ==
  ASSUME Typed, NEW r \in Resource, RingOK(r), ~MbFull(r) \/ ~MbEmpty(r)
  PROVE  /\ Cap(r) \in Nat \ {0} /\ mb_head[r] \in Slots(Cap(r))
         /\ mb_count[r] \in 0 .. Cap(r)
         /\ mb_tail[r] = Ahead(mb_head[r], mb_count[r], Cap(r))
         /\ mb_messages[r] \in Memory
         /\ Slots(Cap(r)) \subseteq 0 .. MaxWaiters - 1
         /\ IsMemory(mb_messages[r], Cap(r))
<1>1. Cap(r) \in 1 .. MaxWaiters
  BY Capacity DEF Cap
<1>2. /\ mb_count[r] \in 0 .. MaxWaiters /\ mb_count[r] <= Cap(r)
      /\ mb_messages[r] \in Memory
  BY DEF Typed, ModelOK, MailboxOK, Cap, Memory
<1>3. Slots(Cap(r)) \subseteq 0 .. MaxWaiters - 1
  BY <1>1, SizeAssumption DEF Slots
<1>4. IsMemory(mb_messages[r], Cap(r))
  BY <1>2, <1>3 DEF IsMemory, Memory
<1>5. Cap(r) > 0 /\ Cap(r) \in Nat \ {0}
  BY <1>1, SizeAssumption
<1>6. mb_count[r] \in 0 .. Cap(r)
  BY <1>1, <1>2, SizeAssumption
<1> QED BY <1>2, <1>3, <1>4, <1>5, <1>6 DEF RingOK

(* A step of one mailbox leaves the others alone *)
LEMMA OneMailbox ==
  ASSUME scenario' = scenario, NEW r \in Resource,
         \A q \in Resource \ {r} : /\ mb_messages'[q] = mb_messages[q]
                                  /\ mb_head'[q] = mb_head[q]
                                  /\ mb_tail'[q] = mb_tail[q]
                                  /\ mb_count'[q] = mb_count[q]
  PROVE  /\ MailboxContents' = [MailboxContents EXCEPT ![r] = Contents(r)']
         /\ MailboxContents[r] = Contents(r)
         /\ RingInv /\ RingOK(r)' => RingInv'
<1>1. /\ MailboxContents = [q \in Resource |-> Contents(q)]
      /\ MailboxContents' = [q \in Resource |-> Contents(q)']
  BY DEF MailboxContents, Contents, Ring, Slot, Cap
<1>2. \A q \in Resource \ {r} : Contents(q)' = Contents(q) /\ RingOK(q)' = RingOK(q)
  BY DEF Contents, RingOK, Cap
<1>3. MailboxContents' = [MailboxContents EXCEPT ![r] = Contents(r)']
  BY <1>1, <1>2
<1> QED BY <1>1, <1>2, <1>3 DEF RingInv

LEMMA AppendPushes ==
  ASSUME Typed, RingInv, NEW t, NEW r \in Resource, NEW msg \in Int,
         scenario' = scenario, MbAppend(t, r, msg)
  PROVE  RingInv' /\ Deque!PushBack(r, msg)
<1> DEFINE c == Cap(r)
           h == mb_head[r]
           n == mb_count[r]
           m == mb_messages[r]
<1>1. /\ c \in Nat \ {0} /\ h \in Slots(c) /\ n \in 0 .. c
      /\ mb_tail[r] = Ahead(h, n, c)
      /\ m \in Memory /\ Slots(c) \subseteq 0 .. MaxWaiters - 1
      /\ IsMemory(m, c)
  BY RingFacts DEF MbAppend, RingInv
<1>2. n < c
  BY <1>1 DEF MbAppend, MbFull, Cap
<1>3. /\ mb_messages' = [mb_messages EXCEPT ![r] = [m EXCEPT ![mb_tail[r]] = msg]]
      /\ mb_tail' = [mb_tail EXCEPT ![r] = (mb_tail[r] + 1) % c]
      /\ mb_count' = [mb_count EXCEPT ![r] = n + 1]
      /\ mb_head' = mb_head
  BY DEF MbAppend, Cap
<1>4. /\ mb_messages'[r] = [m EXCEPT ![mb_tail[r]] = msg]
      /\ mb_tail'[r] = (mb_tail[r] + 1) % c
      /\ mb_count'[r] = n + 1 /\ mb_head'[r] = h /\ Cap(r)' = c
  BY <1>3 DEF Typed, ModelOK, MailboxOK, Cap
<1>5. \A q \in Resource \ {r} : /\ mb_messages'[q] = mb_messages[q]
                                /\ mb_head'[q] = mb_head[q]
                                /\ mb_tail'[q] = mb_tail[q]
                                /\ mb_count'[q] = mb_count[q]
  BY <1>3 DEF Typed, ModelOK, MailboxOK
<1>6. Contents(r)' = Ring([m EXCEPT ![mb_tail[r]] = msg], h, n + 1, c)
  BY <1>4 DEF Contents
<1>7. Contents(r) = Ring(m, h, n, c)
  BY DEF Contents
<1>8. RingOK(r)' <=> (c > 0 => h \in Slots(c) /\ (mb_tail[r] + 1) % c = Ahead(h, n + 1, c))
  BY <1>4 DEF RingOK
<1> HIDE DEF c, h, n, m
<1>9. n \in Slots(c) /\ n + 1 \in 1 .. c
  BY <1>1, <1>2 DEF Slots
<1>10. mb_tail[r] = Slot(h, n + 1, c) /\ mb_tail[r] \in Slots(c)
  <2>1. /\ Slot(h, n + 1, c) = IF h + (n + 1) - 1 < c THEN h + (n + 1) - 1
                              ELSE h + (n + 1) - 1 - c
        /\ Slot(h, n + 1, c) \in Slots(c)
    BY <1>1, <1>9, SlotIs
  <2>2. Ahead(h, n, c) = Slot(h, n + 1, c)
    BY <1>1, <2>1 DEF Ahead, Slots
  <2> QED BY <1>1, <2>1, <2>2
<1>11. Contents(r)' = Append(Contents(r), msg)
  <2>1. Ring([m EXCEPT ![Slot(h, n + 1, c)] = msg], h, n + 1, c)
          = Append(Ring(m, h, n, c), msg)
    BY <1>1, <1>9, RingAppend
  <2> QED BY <1>6, <1>7, <1>10, <2>1
<1>12. (mb_tail[r] + 1) % c = Ahead(h, n + 1, c)
  <2>1. (mb_tail[r] + 1) % c = IF mb_tail[r] + 1 < c THEN mb_tail[r] + 1 ELSE 0
    BY <1>1, <1>10, NextSlot
  <2> QED BY <1>1, <1>2, <2>1 DEF Ahead, Slots
<1>13. Len(Contents(r)) = n
  BY <1>1, <1>7, RingType DEF ReadOff
<1>14. /\ MailboxContents' = [MailboxContents EXCEPT ![r] = Contents(r)']
       /\ MailboxContents[r] = Contents(r)
       /\ RingInv'
  BY <1>1, <1>5, <1>8, <1>12, OneMailbox
<1>15. ~Deque!Full(r)
  <2>1. ~(n >= c)
    BY <1>1, <1>2
  <2> QED BY <1>13, <1>14, <2>1 DEF Deque!Full, c, Cap
<1> QED BY <1>11, <1>14, <1>15 DEF Deque!PushBack

LEMMA PrependPushes ==
  ASSUME Typed, RingInv, NEW t, NEW r \in Resource, NEW msg \in Int,
         scenario' = scenario, MbPrepend(t, r, msg)
  PROVE  RingInv' /\ Deque!PushFront(r, msg)
<1> DEFINE c == Cap(r)
           h == mb_head[r]
           n == mb_count[r]
           m == mb_messages[r]
           g == (h - 1 + c) % c
<1>1. /\ c \in Nat \ {0} /\ h \in Slots(c) /\ n \in 0 .. c
      /\ mb_tail[r] = Ahead(h, n, c)
      /\ m \in Memory /\ Slots(c) \subseteq 0 .. MaxWaiters - 1
      /\ IsMemory(m, c)
  BY RingFacts DEF MbPrepend, RingInv
<1>2. n < c
  BY <1>1 DEF MbPrepend, MbFull, Cap
<1>3. /\ mb_messages' = [mb_messages EXCEPT ![r] = [m EXCEPT ![g] = msg]]
      /\ mb_head' = [mb_head EXCEPT ![r] = g]
      /\ mb_count' = [mb_count EXCEPT ![r] = n + 1]
      /\ mb_tail' = mb_tail
  BY DEF MbPrepend, Cap
<1>4. /\ mb_messages'[r] = [m EXCEPT ![g] = msg] /\ mb_head'[r] = g
      /\ mb_count'[r] = n + 1 /\ mb_tail'[r] = mb_tail[r] /\ Cap(r)' = c
  BY <1>3 DEF Typed, ModelOK, MailboxOK, Cap
<1>5. \A q \in Resource \ {r} : /\ mb_messages'[q] = mb_messages[q]
                                /\ mb_head'[q] = mb_head[q]
                                /\ mb_tail'[q] = mb_tail[q]
                                /\ mb_count'[q] = mb_count[q]
  BY <1>3 DEF Typed, ModelOK, MailboxOK
<1>6. Contents(r)' = Ring([m EXCEPT ![g] = msg], g, n + 1, c)
  BY <1>4 DEF Contents
<1>7. Contents(r) = Ring(m, h, n, c)
  BY DEF Contents
<1>8. RingOK(r)' <=> (c > 0 => g \in Slots(c) /\ mb_tail[r] = Ahead(g, n + 1, c))
  BY <1>4 DEF RingOK
<1> HIDE DEF c, h, n, m
<1>9. n \in Slots(c) /\ g \in Slots(c) /\ g = IF h = 0 THEN c - 1 ELSE h - 1
  BY <1>1, <1>2, NextSlot DEF Slots
<1> HIDE DEF g
<1>10. Contents(r)' = <<msg>> \o Contents(r)
  <2>1. Ring([m EXCEPT ![g] = msg], g, n + 1, c) = <<msg>> \o Ring(m, h, n, c)
    <3>1. g = Before(h, c)
      BY <1>9 DEF Before
    <3>2. g \in Slots(c) /\ n \in Slots(c)
      BY <1>9
    <3>3. Ring([m EXCEPT ![Before(h, c)] = msg], Before(h, c), n + 1, c)
            = <<msg>> \o Ring(m, h, n, c)
      BY <1>1, <3>2, RingPrepend
    <3> QED BY <3>1, <3>3
  <2> QED BY <1>6, <1>7, <2>1
<1>11. mb_tail[r] = Ahead(g, n + 1, c)
  BY <1>1, <1>2, <1>9 DEF Ahead, Slots
<1>12. Len(Contents(r)) = n
  BY <1>1, <1>7, RingType DEF ReadOff
<1>13. /\ MailboxContents' = [MailboxContents EXCEPT ![r] = Contents(r)']
       /\ MailboxContents[r] = Contents(r)
       /\ RingInv'
  BY <1>5, <1>8, <1>9, <1>11, OneMailbox
<1>14. ~Deque!Full(r)
  <2>1. ~(n >= c)
    BY <1>1, <1>2
  <2> QED BY <1>12, <1>13, <2>1 DEF Deque!Full, c, Cap
<1> QED BY <1>10, <1>13, <1>14 DEF Deque!PushFront

LEMMA TakePops ==
  ASSUME Typed, RingInv, NEW t, NEW r \in Resource, scenario' = scenario, MbTake(t, r)
  PROVE  RingInv' /\ Deque!PopFront(r)
<1> DEFINE c == Cap(r)
           h == mb_head[r]
           n == mb_count[r]
           m == mb_messages[r]
           g == (h + 1) % c
<1>1. /\ c \in Nat \ {0} /\ h \in Slots(c) /\ n \in 0 .. c
      /\ mb_tail[r] = Ahead(h, n, c)
      /\ IsMemory(m, c)
  BY RingFacts DEF MbTake, RingInv
<1>2. n # 0
  BY DEF MbTake, MbEmpty
<1>3. /\ mb_head' = [mb_head EXCEPT ![r] = g]
      /\ mb_count' = [mb_count EXCEPT ![r] = n - 1]
      /\ mb_messages' = mb_messages /\ mb_tail' = mb_tail
  BY DEF MbTake, Cap
<1>4. /\ mb_messages'[r] = m /\ mb_head'[r] = g
      /\ mb_count'[r] = n - 1 /\ mb_tail'[r] = mb_tail[r] /\ Cap(r)' = c
  BY <1>3 DEF Typed, ModelOK, MailboxOK, Cap
<1>5. \A q \in Resource \ {r} : /\ mb_messages'[q] = mb_messages[q]
                                /\ mb_head'[q] = mb_head[q]
                                /\ mb_tail'[q] = mb_tail[q]
                                /\ mb_count'[q] = mb_count[q]
  BY <1>3 DEF Typed, ModelOK, MailboxOK
<1>6. Contents(r)' = Ring(m, g, n - 1, c)
  BY <1>4 DEF Contents
<1>7. Contents(r) = Ring(m, h, n, c)
  BY DEF Contents
<1>8. RingOK(r)' <=> (c > 0 => g \in Slots(c) /\ mb_tail[r] = Ahead(g, n - 1, c))
  BY <1>4 DEF RingOK
<1> HIDE DEF c, h, n, m
<1>9. n \in 1 .. c /\ g \in Slots(c) /\ g = IF h + 1 < c THEN h + 1 ELSE 0
  BY <1>1, <1>2, NextSlot DEF Slots
<1> HIDE DEF g
<1>10. Contents(r) # <<>> /\ Contents(r)' = Tail(Contents(r))
  <2>1. /\ Ring(m, h, n, c) # <<>>
        /\ Ring(m, g, n - 1, c) = Tail(Ring(m, h, n, c))
    BY <1>1, <1>9, RingTail
  <2> QED BY <1>6, <1>7, <2>1
<1>11. mb_tail[r] = Ahead(g, n - 1, c)
  BY <1>1, <1>2, <1>9 DEF Ahead, Slots
<1>12. /\ MailboxContents' = [MailboxContents EXCEPT ![r] = Contents(r)']
       /\ MailboxContents[r] = Contents(r)
       /\ RingInv'
  BY <1>5, <1>8, <1>9, <1>11, OneMailbox
<1> QED BY <1>10, <1>12 DEF Deque!PopFront, Deque!Empty

-----------------------------------------------------------------------------
(* Every step is a step of the queue, or none of its business *)

LEMMA OtherStepsKeepRings ==
  ASSUME NEW t \in Thread, Step(t)
  PROVE  Post(t) \/ PostFront(t) \/ Fetch(t) \/ UNCHANGED mailboxVars
<1>1. CASE Lock(t) \/ TimedLock(t) \/ Unlock(t)
  BY <1>1 DEF Lock, TimedLock, Unlock, MutexLock, MutexUnlock, LockAcquire, LockBlock,
              LockReject, UnlockHandoff, UnlockFree, UnlockReject, Reject, modelVars
<1>2. CASE Wait(t) \/ TimedWait(t) \/ Signal(t)
  BY <1>2 DEF Wait, TimedWait, Signal, SemWait, SemSignal, SemTake, SemBlock,
              SemWaitReject, SemWake, SemPost, SemSignalReject, Reject, modelVars
<1>3. CASE WaitCond(t) \/ SignalCond(t) \/ Broadcast(t)
  BY <1>3 DEF WaitCond, SignalCond, Broadcast, CondWait, CondSignal, CondBroadcast,
              CondRelease, CondBlock, CondOverflow, CondWaitReject, CondWake, CondLost,
              CondSignalReject, CondWakeAll, Reject, modelVars
<1> QED BY <1>1, <1>2, <1>3, LocalKeeps DEF Step, modelVars

LEMMA StepRefines ==
  ASSUME Typed, RingInv, NEW t \in Thread, Step(t)
  PROVE  RingInv' /\ [Deque!Next]_<<MailboxContents, scenario.mb_capacity>>
<1> DEFINE r == Target(t)
           msg == Current(t).arg
<1>1. scenario' = scenario
  BY StepKeepsScenario
<1>2. CASE UNCHANGED mailboxVars
  BY <1>1, <1>2 DEF mailboxVars, MailboxContents, RingInv, RingOK, Cap
<1>3. CASE Post(t) \/ PostFront(t) \/ Fetch(t)
  <2>1. r \in Resource /\ Current(t) \in ActionsOf(scenario)
    BY <1>3, CurrentType, CurrentIsOfScenario
       DEF Post, PostFront, Fetch, ResourceActions
  <2>2. msg \in Messages
    BY <2>1 DEF RingInv, Messages
  <2>3. msg \in Int
    BY <1>3, CurrentType DEF Post, PostFront, Fetch, Actions
  <2>4. \/ MbAppend(t, r, msg) \/ MbPrepend(t, r, msg) \/ MbTake(t, r)
        \/ \E blocks : MbBlock(t, r, blocks) \/ MbReject(r, blocks)
    BY <1>3 DEF Post, PostFront, Fetch, MbPost, MbPostFront, MbFetch
  <2> HIDE DEF r, msg
  <2>5. CASE MbAppend(t, r, msg)
    <3>1. RingInv' /\ Deque!PushBack(r, msg)
      BY <1>1, <2>1, <2>3, <2>5, AppendPushes
    <3> QED BY <1>1, <2>1, <2>2, <3>1 DEF Deque!Next
  <2>6. CASE MbPrepend(t, r, msg)
    <3>1. RingInv' /\ Deque!PushFront(r, msg)
      BY <1>1, <2>1, <2>3, <2>6, PrependPushes
    <3> QED BY <1>1, <2>1, <2>2, <3>1 DEF Deque!Next
  <2>7. CASE MbTake(t, r)
    <3>1. RingInv' /\ Deque!PopFront(r)
      BY <1>1, <2>1, <2>7, TakePops
    <3> QED BY <1>1, <2>1, <3>1 DEF Deque!Next
  <2>8. CASE \E blocks : MbBlock(t, r, blocks) \/ MbReject(r, blocks)
    <3>1. UNCHANGED mailboxVars
      BY <2>8 DEF MbBlock, MbReject, Reject, modelVars
    <3> QED BY <1>2, <3>1
  <2> QED BY <2>4, <2>5, <2>6, <2>7, <2>8
<1> QED BY <1>2, <1>3, OtherStepsKeepRings

(* A call that blocks or is refused touches no mailbox and does not get    *)
(* past its action; where it blocks, nothing could be done for it.         *)
LEMMA Unserved ==
  ASSUME Typed, NEW t \in Thread, NEW r, NEW blocks,
         scenario' = scenario, fail = "none",
         MbBlock(t, r, blocks) \/ MbReject(r, blocks)
  PROVE  /\ ~(pc'[t] = TickedPc[t] + 1)
         /\ UNCHANGED MailboxContents
         /\ fail' = "none" => blocks
<1>1. pc' = TickedPc /\ UNCHANGED mailboxVars
  BY DEF MbBlock, MbReject, Reject, Block, Stay, modelVars
<1>2. TickedPc[t] \in Nat
  BY TickedType DEF Typed, SchedOK
<1>3. fail' = "none" => blocks
  BY DEF MbBlock, MbReject, Reject
<1>4. UNCHANGED MailboxContents
  BY <1>1 DEF mailboxVars, MailboxContents
<1> QED BY <1>1, <1>2, <1>3, <1>4

(* One that is served gets past it *)
LEMMA Served ==
  ASSUME Typed, NEW t \in Thread, NEW r, NEW msg,
         MbAppend(t, r, msg) \/ MbPrepend(t, r, msg) \/ MbTake(t, r)
  PROVE  pc'[t] = TickedPc[t] + 1
<1>1. TickedPc \in [Thread -> Nat]
  BY TickedType DEF Typed, SchedOK
<1>2. CASE Advance(t)
  BY <1>1, <1>2 DEF Advance
<1>3. CASE \E W : WakeAndAdvance(t, W, 0)
  BY <1>1, <1>3 DEF WakeAndAdvance
<1> QED BY <1>2, <1>3 DEF MbAppend, MbPrepend, MbTake

(* As many messages as the mailbox counts *)
LEMMA ContentsLength ==
  ASSUME Typed, RingInv, NEW r \in Resource
  PROVE  /\ MbFull(r) => Deque!Full(r)
         /\ MbEmpty(r) => Deque!Empty(r)
<1>1. MailboxContents[r] = Contents(r)
  BY DEF MailboxContents, Contents, Ring, Slot, Cap
<1>2. mb_count[r] \in 0 .. MaxWaiters /\ mb_count[r] <= Cap(r)
  BY DEF Typed, ModelOK, MailboxOK, Cap
<1>3. CASE MbEmpty(r)
  <2>1. MailboxContents[r] = <<>>
    BY <1>1, <1>3 DEF Contents, Ring, MbEmpty
  <2> QED BY <1>3, <2>1 DEF Deque!Empty, Deque!Full, MbFull, MbEmpty
<1>4. CASE ~MbEmpty(r)
  <2>1. /\ Cap(r) \in Nat \ {0} /\ mb_head[r] \in Slots(Cap(r))
        /\ mb_count[r] \in 0 .. Cap(r) /\ IsMemory(mb_messages[r], Cap(r))
    BY <1>4, RingFacts DEF RingInv
  <2>2. Len(Contents(r)) = mb_count[r]
    BY <2>1, RingType DEF Contents, ReadOff
  <2> QED BY <1>1, <1>4, <2>2 DEF Deque!Full, MbFull, Cap
<1> QED BY <1>3, <1>4

(* Each call is the operation of its name *)
LEMMA CallDelivers ==
  ASSUME Typed, RingInv, NEW t \in Thread
  PROVE  Delivers(t)
<1> DEFINE r == Target(t)
           msg == Current(t).arg
<1>1. ASSUME Post(t) \/ PostFront(t) \/ Fetch(t)
      PROVE  /\ r \in Resource /\ msg \in Int
             /\ scenario' = scenario /\ fail = "none"
  BY <1>1, CurrentType
     DEF Post, PostFront, Fetch, ResourceActions, Actions, ModelStep, Doing, Scheduled
<1>2. ASSUME Post(t)
      PROVE  Serves(t, Deque!PushBack(r, msg), Deque!Full(r))
  <2>1. CASE MbAppend(t, r, msg)
    <3>1. r \in Resource /\ msg \in Int /\ scenario' = scenario
      BY <1>1, <1>2
    <3> HIDE DEF r, msg
    <3>2. pc'[t] = TickedPc[t] + 1 /\ Deque!PushBack(r, msg)
      BY <2>1, <3>1, Served, AppendPushes
    <3> QED BY <3>2 DEF Serves
  <2>2. CASE MbBlock(t, r, MbFull(r)) \/ MbReject(r, MbFull(r))
    <3>1. r \in Resource /\ scenario' = scenario /\ fail = "none"
      BY <1>1, <1>2
    <3> HIDE DEF r, msg
    <3>2. /\ ~(pc'[t] = TickedPc[t] + 1) /\ UNCHANGED MailboxContents
          /\ fail' = "none" => MbFull(r)
      BY <2>2, <3>1, Unserved
    <3> QED BY <3>1, <3>2, ContentsLength DEF Serves
  <2> QED BY <1>2, <2>1, <2>2 DEF Post, MbPost
<1>3. ASSUME PostFront(t)
      PROVE  Serves(t, Deque!PushFront(r, msg), Deque!Full(r))
  <2>1. CASE MbPrepend(t, r, msg)
    <3>1. r \in Resource /\ msg \in Int /\ scenario' = scenario
      BY <1>1, <1>3
    <3> HIDE DEF r, msg
    <3>2. pc'[t] = TickedPc[t] + 1 /\ Deque!PushFront(r, msg)
      BY <2>1, <3>1, Served, PrependPushes
    <3> QED BY <3>2 DEF Serves
  <2>2. CASE MbBlock(t, r, MbFull(r)) \/ MbReject(r, MbFull(r))
    <3>1. r \in Resource /\ scenario' = scenario /\ fail = "none"
      BY <1>1, <1>3
    <3> HIDE DEF r, msg
    <3>2. /\ ~(pc'[t] = TickedPc[t] + 1) /\ UNCHANGED MailboxContents
          /\ fail' = "none" => MbFull(r)
      BY <2>2, <3>1, Unserved
    <3> QED BY <3>1, <3>2, ContentsLength DEF Serves
  <2> QED BY <1>3, <2>1, <2>2 DEF PostFront, MbPostFront
<1>4. ASSUME Fetch(t)
      PROVE  Serves(t, Deque!PopFront(r), Deque!Empty(r))
  <2>1. CASE MbTake(t, r)
    <3>1. r \in Resource /\ scenario' = scenario
      BY <1>1, <1>4
    <3> HIDE DEF r, msg
    <3>2. pc'[t] = TickedPc[t] + 1 /\ Deque!PopFront(r)
      BY <2>1, <3>1, Served, TakePops
    <3> QED BY <3>2 DEF Serves
  <2>2. CASE MbBlock(t, r, MbEmpty(r)) \/ MbReject(r, MbEmpty(r))
    <3>1. r \in Resource /\ scenario' = scenario /\ fail = "none"
      BY <1>1, <1>4
    <3> HIDE DEF r, msg
    <3>2. /\ ~(pc'[t] = TickedPc[t] + 1) /\ UNCHANGED MailboxContents
          /\ fail' = "none" => MbEmpty(r)
      BY <2>2, <3>1, Unserved
    <3> QED BY <3>1, <3>2, ContentsLength DEF Serves
  <2> QED BY <1>4, <2>1, <2>2 DEF Fetch, MbFetch
<1> QED BY <1>2, <1>3, <1>4 DEF Delivers

LEMMA InitRefines ==
  ASSUME Init, FitsArrays(scenario)
  PROVE  RingInv /\ Deque!Init
<1>1. /\ scenario \in Scenarios /\ ValidScenario(scenario)
      /\ mb_head = [r \in Resource |-> 0] /\ mb_tail = [r \in Resource |-> 0]
      /\ mb_count = [r \in Resource |-> 0]
  BY ScenarioAssumption DEF Init, Reset
<1>2. \A r \in Resource : Cap(r) \in Nat
  BY SizeAssumption DEF FitsArrays, Cap
<1>3. RingInv
  BY <1>1, <1>2 DEF RingInv, RingOK, Slots, Ahead
<1>4. MailboxContents = [r \in Resource |-> <<>>]
  BY <1>1 DEF MailboxContents
<1>5. scenario.mb_capacity \in [Resource -> Nat]
  BY <1>1, <1>2 DEF ValidScenario, Cap
<1> QED BY <1>3, <1>4, <1>5 DEF Deque!Init

(* The ring buffers behave like bounded double-ended queues, and each call *)
(* does to them what its name says, whatever the scenario, the capacities  *)
(* and the order of calls at either end.                                   *)
THEOREM MailboxesAreDeques == Spec /\ FitsArrays(scenario) => MailboxIsDeque
<1> DEFINE cap == scenario.mb_capacity
           Called == \E t \in Thread : Post(t) \/ PostFront(t) \/ Fetch(t)
           Calls == (\A t \in Thread : Delivers(t)) /\ (UNCHANGED MailboxContents \/ Called)
<1>1. Init /\ FitsArrays(scenario) => RingInv /\ Deque!Init
  BY InitRefines
<1>2. TypeOK /\ RingInv /\ [Next]_vars => RingInv' /\ [Deque!Next]_<<MailboxContents, cap>>
  <2>1. CASE TypeOK /\ RingInv /\ Next
    BY <2>1, TypeOKParts, StepRefines DEF Next, Runnable, Typed
  <2>2. CASE UNCHANGED vars /\ RingInv
    BY <2>2 DEF vars, mailboxVars, MailboxContents, RingInv, RingOK, Cap
  <2> QED BY <2>1, <2>2
<1>3. TypeOK /\ RingInv /\ [Next]_vars => [Calls]_vars
  <2> SUFFICES ASSUME TypeOK, RingInv, Next
               PROVE  Calls
    OBVIOUS
  <2>1. \A t \in Thread : Delivers(t)
    BY TypeOKParts, CallDelivers DEF Typed
  <2>2. PICK t \in Thread : Step(t)
    BY DEF Next, Runnable
  <2>3. Called \/ UNCHANGED mailboxVars
    BY <2>2, OtherStepsKeepRings
  <2>4. scenario' = scenario
    BY <2>2, StepKeepsScenario
  <2>5. UNCHANGED mailboxVars => UNCHANGED MailboxContents
    BY <2>4 DEF mailboxVars, MailboxContents
  <2> QED BY <2>1, <2>3, <2>5
<1> QED BY <1>1, <1>2, <1>3, TypeCorrect, PTL DEF Spec, MailboxIsDeque, Deque!Spec

-----------------------------------------------------------------------------
(* Senders in front of a mailbox with one consumer *)

PostTypes == {"MB_POST", "MB_POST_FRONT"}

(* The threads that will post to r when they are next scheduled *)
Offering(r) ==
  {u \in Thread : state[u] = "READY" /\ \E type \in PostTypes : About(u, type, r)}

(* Every free slot that sleeping senders do not know of is spoken for: a   *)
(* thread that is awake is about to post into it.                          *)
Spoken(r) ==
  Senders(r) # {} /\ Receivers(r) = {} =>
    scenario.mb_capacity[r] - mb_count[r] <= Cardinality(Offering(r))

SpokenInv ==
  MailboxOnly(scenario) /\ SingleConsumer(scenario) => \A r \in Resource : Spoken(r)

(* What a step does when all calls are mailbox calls *)
Ends(t) ==
  /\ state' = [state EXCEPT ![t] = "DONE"] /\ pc[t] >= StepCount(t)
  /\ UNCHANGED <<pc, waiters, mb_count>>

Puts(t, r) ==
  /\ \E type \in PostTypes : About(t, type, r)
  /\ MovesOn({t}) /\ mb_count' = [mb_count EXCEPT ![r] = @ + 1]
  /\ UNCHANGED <<state, waiters>>

Sleeps(t, r) ==
  /\ \/ About(t, "MB_FETCH", r)
     \/ (\E type \in PostTypes : About(t, type, r)) /\ MbFull(r)
  /\ \E blocked \in BlockedStates : state' = [state EXCEPT ![t] = blocked]
  /\ waiters' = [waiters EXCEPT ![r] = Append(@, t)]
  /\ UNCHANGED <<pc, mb_count>>

Fetches(t, r) ==
  /\ About(t, "MB_FETCH", r)
  /\ MovesOn({t}) /\ mb_count' = [mb_count EXCEPT ![r] = @ - 1]

TakesAlone(t, r) == Fetches(t, r) /\ waiters[r] = <<>> /\ UNCHANGED <<state, waiters>>

TakesWaking(t, r) ==
  /\ Fetches(t, r) /\ waiters[r] # <<>>
  /\ state' = [state EXCEPT ![waiters[r][1]] = "READY"]
  /\ waiters' = [waiters EXCEPT ![r] = WaiterRemove(@, 1)]

LEMMA OnlyMailboxCalls ==
  ASSUME Waits, MailboxOnly(scenario), NEW t \in Thread, Step(t)
  PROVE  ThreadEnd(t) \/ Post(t) \/ PostFront(t) \/ Fetch(t)
<1>1. \A type : Doing(t, type) => type \in MailboxTypes
  BY CurrentIsOfScenario DEF MailboxOnly, Waits
<1>2. \A type \in (ResourceActions \cup LocalActions) \ MailboxTypes : ~Doing(t, type)
  BY <1>1
<1> QED BY <1>2
     DEF Step, Done, Lock, TimedLock, Unlock, Wait, TimedWait, Signal, WaitCond, SignalCond,
         Broadcast, Pause, Unhandled, LocalReject, SysLock, SysUnlock, IsrEnter, IsrExit,
         ObjectInit, ObjectDestroy, Call, Return, ResourceActions, LocalActions, MailboxTypes

(* In the queue of a mailbox are threads before a mailbox call on it *)
LEMMA QueuedCall ==
  ASSUME Waits, MailboxOnly(scenario), NEW r \in Resource, NEW u \in QueuedOn(r)
  PROVE  /\ u \in Thread /\ state[u] \in BlockedStates
         /\ \E type \in MailboxTypes : About(u, type, r)
<1>1. PICK i \in 1 .. Len(waiters[r]) : u = waiters[r][i]
  BY DEF QueuedOn
<1>2. /\ u \in Thread /\ state[u] \in BlockedStates /\ blocked_on[u] = r
      /\ pc[u] \in Nat /\ Len(scenario.steps[u]) \in Nat
  <2>1. u \in Thread
    BY <1>1, QueuedAreThreads DEF Waits, Typed, ModelOK
  <2>2. state[u] \in BlockedStates /\ blocked_on[u] = r
    BY <1>1 DEF Waits, ExactQueue, WaitsIn
  <2>3. pc[u] \in Nat /\ Len(scenario.steps[u]) \in Nat
    BY <2>1 DEF Waits, Typed, SchedOK, ValidScenario
  <2> QED BY <2>1, <2>2, <2>3
<1>3. SleepsOver(u)
  BY <1>2 DEF Waits
<1>4. pc[u] + 1 \in 1 .. Len(scenario.steps[u])
  BY <1>2, <1>3 DEF SleepsOver, StepCount
<1>5. Pending(u).type \in MailboxTypes
  BY <1>2, <1>4 DEF MailboxOnly, ActionsOf, Pending
<1> QED BY <1>2, <1>3, <1>5 DEF SleepsOver, About

LEMMA MailboxStep ==
  ASSUME Waits, MailboxOnly(scenario), NEW t \in Thread, Step(t), fail' = "none"
  PROVE  \/ Ends(t)
         \/ \E r \in Resource : \/ Puts(t, r) \/ Sleeps(t, r)
                                \/ TakesAlone(t, r) \/ TakesWaking(t, r)
<1> DEFINE r == Target(t)
           msg == Current(t).arg
<1>1. /\ TickedState = state /\ TickedPc = pc
      /\ Typed /\ NoTimers /\ SchedOK /\ state[t] = "READY" /\ ModelOK /\ ObjectOK
  BY TimeStandsStill, StepIsAwake DEF Waits, Typed, ModelOK
<1>2. CASE ThreadEnd(t)
  BY <1>1, <1>2 DEF ThreadEnd, Ends, ModelUnchanged, modelVars, objectVars, mailboxVars
<1>3. ASSUME NEW type, Doing(t, type), type \in MailboxTypes
      PROVE  r \in Resource /\ About(t, type, r)
  BY <1>1, <1>3, CurrentType, DoingIsAbout DEF MailboxTypes, ResourceActions
<1>4. /\ Post(t) => r \in Resource /\ About(t, "MB_POST", r)
      /\ PostFront(t) => r \in Resource /\ About(t, "MB_POST_FRONT", r)
      /\ Fetch(t) => r \in Resource /\ About(t, "MB_FETCH", r)
  BY <1>3 DEF Post, PostFront, Fetch, MailboxTypes
<1> HIDE DEF r, msg
<1>5. ASSUME Stay \/ Advance(t)
      PROVE  state' = state /\ (Advance(t) => MovesOn({t}))
  BY <1>1, <1>5, StayMoves DEF Stay
<1>6. \A blocks : ~MbReject(r, blocks)
  BY DEF MbReject, Reject
<1>7. ASSUME NEW blocks, MbBlock(t, r, blocks), r \in Resource,
             \/ About(t, "MB_FETCH", r)
             \/ (\E type \in PostTypes : About(t, type, r)) /\ MbFull(r)
      PROVE  Sleeps(t, r)
  BY <1>1, <1>7 DEF MbBlock, Block, Sleeps, mailboxVars, BlockedStates
<1>8. CASE Post(t) \/ PostFront(t)
  <2>1. r \in Resource /\ \E type \in PostTypes : About(t, type, r)
    BY <1>4, <1>8 DEF PostTypes
  <2>2. CASE MbAppend(t, r, msg) \/ MbPrepend(t, r, msg)
    <3>1. Advance(t) /\ mb_count' = [mb_count EXCEPT ![r] = @ + 1] /\ waiters' = waiters
      BY <2>2 DEF MbAppend, MbPrepend, objectVars
    <3>2. Puts(t, r)
      BY <1>5, <2>1, <3>1 DEF Puts
    <3> QED BY <2>1, <3>2
  <2>3. CASE MbBlock(t, r, MbFull(r))
    <3>1. MbFull(r)
      BY <2>3 DEF MbBlock
    <3> QED BY <1>7, <2>1, <2>3, <3>1
  <2> QED BY <1>6, <1>8, <2>2, <2>3 DEF Post, PostFront, MbPost, MbPostFront, r, msg
<1>9. CASE Fetch(t)
  <2>1. r \in Resource /\ About(t, "MB_FETCH", r)
    BY <1>4, <1>9
  <2>2. CASE MbBlock(t, r, MbEmpty(r))
    BY <1>7, <2>1, <2>2
  <2>3. CASE MbTake(t, r)
    <3> DEFINE W == {waiters[r][i] : i \in {1} \cap (1 .. Len(waiters[r]))}
    <3>1. /\ WakeAndAdvance(t, W, 0) /\ mb_count' = [mb_count EXCEPT ![r] = @ - 1]
          /\ waiters' = [waiters EXCEPT ![r] = IF @ = <<>> THEN @ ELSE WaiterRemove(@, 1)]
      BY <2>3 DEF MbTake
    <3>2. \A u \in W : u # t
      BY <1>1, <2>1, WaitingAreAbout DEF BlockedStates
    <3>3. CASE waiters[r] = <<>>
      <4>1. W = {} /\ waiters' = waiters
        BY <1>1, <2>1, <3>1, <3>3 DEF ObjectOK
      <4> HIDE DEF W
      <4>2. MovesOn({t}) /\ state' = state
        BY <1>1, <3>1, <3>2, <4>1, WakeMoves DEF WakeAndAdvance, SchedOK
      <4>3. TakesAlone(t, r)
        BY <2>1, <3>1, <3>3, <4>1, <4>2 DEF TakesAlone, Fetches
      <4> QED BY <2>1, <4>3
    <3>4. CASE waiters[r] # <<>>
      <4>1. 1 \in 1 .. Len(waiters[r])
        BY <1>1, <2>1, <3>4 DEF ObjectOK
      <4>2. W = {waiters[r][1]} /\ waiters[r][1] \in Thread
        BY <1>1, <2>1, <4>1, QueuedAreThreads
      <4>3. waiters' = [waiters EXCEPT ![r] = WaiterRemove(@, 1)]
        BY <1>1, <2>1, <3>1, <3>4 DEF ObjectOK
      <4> HIDE DEF W
      <4>4. MovesOn({t})
        BY <1>1, <3>1, <3>2, WakeMoves
      <4>5. state' = [state EXCEPT ![waiters[r][1]] = "READY"]
        BY <1>1, <3>1, <4>2 DEF WakeAndAdvance, SchedOK
      <4>6. TakesWaking(t, r)
        BY <2>1, <3>1, <3>4, <4>3, <4>4, <4>5 DEF TakesWaking, Fetches
      <4> QED BY <2>1, <4>6
    <3> QED BY <3>3, <3>4
  <2> QED BY <1>6, <1>9, <2>2, <2>3 DEF Fetch, MbFetch, r
<1> QED BY <1>2, <1>8, <1>9, OnlyMailboxCalls

(* No two threads are before a fetch from one mailbox *)
LEMMA OneConsumer ==
  ASSUME Waits, SingleConsumer(scenario), NEW r \in Resource,
         NEW t \in Thread, About(t, "MB_FETCH", r), NEW u \in Thread, About(u, "MB_FETCH", r)
  PROVE  t = u
<1>1. \A v \in {t, u} : pc[v] + 1 \in 1 .. Len(scenario.steps[v])
  <2> SUFFICES ASSUME NEW v \in {t, u} PROVE pc[v] + 1 \in 1 .. Len(scenario.steps[v])
    OBVIOUS
  <2>1. pc[v] \in Nat /\ Len(scenario.steps[v]) \in Nat /\ pc[v] < StepCount(v)
    BY DEF Waits, Typed, SchedOK, ValidScenario, About
  <2> QED BY <2>1 DEF StepCount
<1>2. \A v \in {t, u} : \E i \in 1 .. Len(scenario.steps[v]) :
        /\ scenario.steps[v][i].type = "MB_FETCH"
        /\ scenario.steps[v][i].resource_id = r
  BY <1>1 DEF About, Pending
<1> QED BY <1>2 DEF SingleConsumer

(* The threads that do not move stay before the same action *)
LEMMA StaysAbout ==
  ASSUME SchedOK, scenario' = scenario, NEW t \in Thread,
         MovesOn({t}) \/ UNCHANGED pc, NEW u \in Thread \ {t}
  PROVE  /\ Pending(u)' = Pending(u)
         /\ \A type, r : About(u, type, r)' <=> About(u, type, r)
<1>1. pc'[u] = pc[u]
  BY DEF MovesOn, SchedOK
<1> QED BY <1>1 DEF Pending, About, StepCount

(* A queue that stays as it is holds the same senders and receivers *)
LEMMA SameQueue ==
  ASSUME Waits, MailboxOnly(scenario), scenario' = scenario, NEW t \in Thread,
         state[t] = "READY", MovesOn({t}) \/ UNCHANGED pc,
         NEW r \in Resource, waiters'[r] = waiters[r]
  PROVE  Senders(r)' = Senders(r) /\ Receivers(r)' = Receivers(r)
<1>1. QueuedOn(r)' = QueuedOn(r)
  BY DEF QueuedOn
<1>2. \A u \in QueuedOn(r) : u \in Thread \ {t}
  BY QueuedCall DEF BlockedStates
<1>3. \A u \in QueuedOn(r) : Pending(u)' = Pending(u)
  BY <1>2, StaysAbout DEF Waits, Typed
<1> QED BY <1>1, <1>3 DEF Senders, Receivers

LEMMA OfferingIsFinite ==
  ASSUME NEW r
  PROVE  IsFiniteSet(Offering(r)) /\ Cardinality(Offering(r)) \in Nat
<1>1. IsFiniteSet(Thread)
  BY SizeAssumption, FS_Interval DEF Thread
<1>2. Offering(r) \subseteq Thread
  BY DEF Offering
<1> QED BY <1>1, <1>2, FS_Subset, FS_CardinalityType

LEMMA OfferingWillBeFinite ==
  ASSUME NEW r
  PROVE  IsFiniteSet(Offering(r)') /\ Cardinality(Offering(r)') \in Nat
<1>1. IsFiniteSet(Thread)
  BY SizeAssumption, FS_Interval DEF Thread
<1>2. Offering(r)' \subseteq Thread
  BY DEF Offering
<1> HIDE DEF Offering
<1> QED BY <1>1, <1>2, FS_Subset, FS_CardinalityType

(* Who does not move keeps offering, and so do the woken *)
LEMMA StillOffering ==
  ASSUME Waits, scenario' = scenario, NEW t \in Thread,
         MovesOn({t}) \/ UNCHANGED pc, NEW r,
         \A u \in Thread \ {t} : state[u] = "READY" => state'[u] = "READY"
  PROVE  Offering(r) \ {t} \subseteq Offering(r)'
  BY StaysAbout DEF Waits, Typed, Offering

LEMMA AboutOne ==
  ASSUME NEW t, NEW type, NEW r, About(t, type, r), NEW other, NEW m, About(t, other, m)
  PROVE  other = type /\ m = r
  BY DEF About

LEMMA SpokenKept ==
  ASSUME Waits, MailboxOnly(scenario), SingleConsumer(scenario), NEW t \in Thread,
         Step(t), fail' = "none", NEW r \in Resource, Spoken(r)
  PROVE  Spoken(r)'
<1> DEFINE cap == scenario.mb_capacity[r]
           O == Offering(r)
           P == Offering(r)'
<1>1. /\ scenario' = scenario /\ state[t] = "READY" /\ SchedOK /\ ObjectOK /\ MailboxOK
  BY StepKeepsScenario, StepIsAwake DEF Waits, Typed, ModelOK
<1>2. cap \in Nat /\ cap' = cap /\ mb_count[r] \in Nat /\ Cardinality(O) \in Nat
  BY <1>1, SizeAssumption, OfferingIsFinite DEF Waits, Typed, ValidScenario, MailboxOK
<1>3. IsFiniteSet(P) /\ Cardinality(P) \in Nat
  BY OfferingWillBeFinite
<1>4. ASSUME O \subseteq P PROVE Cardinality(O) <= Cardinality(P)
  BY <1>3, <1>4, FS_Subset
<1>5. t \in O => \E type \in PostTypes : About(t, type, r)
  BY DEF Offering
<1>6. ASSUME Senders(r)' = Senders(r), Receivers(r)' = Receivers(r), O \subseteq P,
             mb_count'[r] = mb_count[r]
      PROVE  Spoken(r)'
  <2> HIDE DEF O, P, cap
  <2>1. Senders(r) # {} /\ Receivers(r) = {} => cap - mb_count[r] <= Cardinality(O)
    BY DEF Spoken, O, cap
  <2>2. Senders(r)' # {} /\ Receivers(r)' = {} => cap' - mb_count'[r] <= Cardinality(P)
    BY <1>2, <1>3, <1>4, <1>6, <2>1
  <2> QED BY <2>2 DEF Spoken, P, cap
<1>7. ASSUME Ends(t) PROVE Spoken(r)'
  <2>1. Senders(r)' = Senders(r) /\ Receivers(r)' = Receivers(r)
    BY <1>1, <1>7, SameQueue DEF Ends
  <2>2. \A u \in Thread \ {t} : state[u] = "READY" => state'[u] = "READY"
    BY <1>1, <1>7 DEF Ends, SchedOK
  <2>3. \A type : ~About(t, type, r)
    <3>1. pc[t] \in Nat /\ StepCount(t) \in Nat
      BY <1>1 DEF SchedOK, StepCount, Waits, Typed, ValidScenario
    <3> QED BY <1>7, <3>1 DEF Ends, About
  <2>4. O \subseteq P
    BY <1>1, <1>5, <1>7, <2>2, <2>3, StillOffering DEF Ends
  <2> QED BY <1>6, <1>7, <2>1, <2>4 DEF Ends
<1>8. ASSUME NEW m \in Resource, Puts(t, m) PROVE Spoken(r)'
  <2>1. Senders(r)' = Senders(r) /\ Receivers(r)' = Receivers(r)
    BY <1>1, <1>8, SameQueue DEF Puts
  <2>2. O \ {t} \subseteq P
    BY <1>1, <1>8, StillOffering DEF Puts
  <2>3. CASE m = r
    <3>1. mb_count'[r] = mb_count[r] + 1
      BY <1>1, <1>8, <2>3 DEF Puts, MailboxOK
    <3>2. IsFiniteSet(O)
      BY OfferingIsFinite
    <3> HIDE DEF O, P, cap
    <3>3. IsFiniteSet(O \ {t}) /\ Cardinality(O \ {t}) >= Cardinality(O) - 1
      BY <1>2, <3>2, FS_RemoveElement
    <3>4. Cardinality(O \ {t}) <= Cardinality(P)
      BY <1>3, <2>2, FS_Subset
    <3>5. Cardinality(O \ {t}) \in Nat
      BY <3>3, FS_CardinalityType
    <3>6. Senders(r) # {} /\ Receivers(r) = {} => cap - mb_count[r] <= Cardinality(O)
      BY DEF Spoken, O, cap
    <3>7. Senders(r)' # {} /\ Receivers(r)' = {} => cap' - mb_count'[r] <= Cardinality(P)
      BY <1>2, <1>3, <2>1, <3>1, <3>3, <3>4, <3>5, <3>6
    <3> QED BY <3>7 DEF Spoken, P, cap
  <2>4. CASE m # r
    <3>1. t \notin O
      BY <1>5, <1>8, <2>4, AboutOne DEF Puts
    <3>2. O \subseteq P
      BY <2>2, <3>1
    <3>3. mb_count'[r] = mb_count[r]
      BY <1>1, <1>8, <2>4 DEF Puts, MailboxOK
    <3> QED BY <1>6, <2>1, <3>2, <3>3
  <2> QED BY <2>3, <2>4
<1>9. ASSUME NEW m \in Resource, Sleeps(t, m) PROVE Spoken(r)'
  <2>1. \A u \in Thread \ {t} : state[u] = "READY" => state'[u] = "READY"
    BY <1>1, <1>9 DEF Sleeps, SchedOK
  <2>2. O \ {t} \subseteq P
    BY <1>1, <1>9, <2>1, StillOffering DEF Sleeps
  <2>3. CASE m # r
    <3>1. waiters'[r] = waiters[r]
      BY <1>1, <1>9, <2>3 DEF Sleeps, ObjectOK
    <3>2. Senders(r)' = Senders(r) /\ Receivers(r)' = Receivers(r)
      BY <1>1, <1>9, <3>1, SameQueue DEF Sleeps
    <3>3. t \notin O
      BY <1>5, <1>9, <2>3, AboutOne DEF Sleeps
    <3>4. O \subseteq P
      BY <2>2, <3>3
    <3> QED BY <1>6, <1>9, <3>2, <3>4 DEF Sleeps
  <2>4. CASE m = r /\ About(t, "MB_FETCH", r)
    <3>1. /\ waiters'[r] = Append(waiters[r], t) /\ waiters[r] \in Seq(Thread)
      BY <1>1, <1>9, <2>4 DEF Sleeps, ObjectOK
    <3>2. t \in QueuedOn(r)'
      <4>1. waiters'[r][Len(waiters[r]) + 1] = t
            /\ Len(waiters[r]) + 1 \in 1 .. Len(waiters'[r])
        BY <3>1
      <4> QED BY <4>1 DEF QueuedOn
    <3>3. Pending(t)' = Pending(t)
      BY <1>1, <1>9 DEF Sleeps, Pending
    <3>4. t \in Receivers(r)'
      BY <2>4, <3>2, <3>3 DEF Receivers, About
    <3> QED BY <3>4 DEF Spoken
  <2>5. CASE m = r /\ MbFull(r)
    <3>1. mb_count' = mb_count /\ mb_count[r] >= cap
      BY <1>9, <2>5 DEF Sleeps, MbFull
    <3> HIDE DEF P, cap
    <3>2. cap' - mb_count'[r] <= Cardinality(P)
      BY <1>2, <1>3, <3>1
    <3> QED BY <3>2 DEF Spoken, P, cap
  <2> QED BY <1>9, <2>3, <2>4, <2>5 DEF Sleeps
<1>10. ASSUME NEW m \in Resource, TakesAlone(t, m) PROVE Spoken(r)'
  <2>1. Senders(r)' = Senders(r) /\ Receivers(r)' = Receivers(r)
    BY <1>1, <1>10, SameQueue DEF TakesAlone, Fetches
  <2>2. CASE m = r
    <3>1. Senders(r) = {}
      BY <1>10, <2>2 DEF TakesAlone, Senders, QueuedOn
    <3> QED BY <2>1, <3>1 DEF Spoken
  <2>3. CASE m # r
    <3>1. t \notin O
      BY <1>5, <1>10, AboutOne DEF TakesAlone, Fetches, PostTypes
    <3>2. O \subseteq P
      BY <1>1, <1>10, <3>1, StillOffering DEF TakesAlone, Fetches
    <3>3. mb_count'[r] = mb_count[r]
      BY <1>1, <1>10, <2>3 DEF TakesAlone, Fetches, MailboxOK
    <3> QED BY <1>6, <2>1, <3>2, <3>3
  <2> QED BY <2>2, <2>3
<1>11. ASSUME NEW m \in Resource, TakesWaking(t, m) PROVE Spoken(r)'
  <2>1. PICK w \in Thread : /\ w = waiters[m][1] /\ state[w] \in BlockedStates
                             /\ w # t /\ w \in QueuedOn(m)
    <3>1. 1 \in 1 .. Len(waiters[m])
      BY <1>1, <1>11 DEF TakesWaking, ObjectOK
    <3>2. waiters[m][1] \in QueuedOn(m)
      BY <3>1 DEF QueuedOn
    <3> QED BY <1>1, <3>2, QueuedCall DEF BlockedStates
  <2>2. state' = [state EXCEPT ![w] = "READY"]
    BY <1>11, <2>1 DEF TakesWaking
  <2>3. t \notin O
    BY <1>5, <1>11, AboutOne DEF TakesWaking, Fetches, PostTypes
  <2>4. \A u \in Thread \ {t} : state[u] = "READY" => state'[u] = "READY"
    BY <1>1, <2>2 DEF SchedOK
  <2>5. O \subseteq P
    BY <1>1, <1>11, <2>3, <2>4, StillOffering DEF TakesWaking, Fetches
  <2>6. CASE m # r
    <3>1. waiters'[r] = waiters[r] /\ mb_count'[r] = mb_count[r]
      BY <1>1, <1>11, <2>6 DEF TakesWaking, Fetches, ObjectOK, MailboxOK
    <3>2. Senders(r)' = Senders(r) /\ Receivers(r)' = Receivers(r)
      BY <1>1, <1>11, <3>1, SameQueue DEF TakesWaking, Fetches
    <3> QED BY <1>6, <2>5, <3>1, <3>2
  <2>7. CASE m = r
    <3>1. mb_count'[r] = mb_count[r] - 1
      BY <1>1, <1>11, <2>7 DEF TakesWaking, Fetches, MailboxOK
    <3>2. \A v \in QueuedOn(r) : ~About(v, "MB_FETCH", r)
      BY <1>1, <1>11, <2>7, OneConsumer, QueuedCall DEF TakesWaking, Fetches, BlockedStates
    <3>3. Receivers(r) = {}
      <4>1. \A v \in QueuedOn(r) : Pending(v).type # "MB_FETCH"
        BY <3>2, QueuedCall DEF About
      <4> QED BY <4>1 DEF Receivers
    <3>4. \E type \in PostTypes : About(w, type, r)
      BY <2>1, <2>7, <3>2, QueuedCall DEF MailboxTypes, PostTypes
    <3>5. w \in Senders(r)
      BY <2>1, <2>7, <3>4 DEF Senders, About, PostTypes
    <3>6. w \notin O
      BY <2>1 DEF Offering, BlockedStates
    <3>7. w \in P
      <4>1. state'[w] = "READY"
        BY <1>1, <2>1, <2>2 DEF SchedOK
      <4>2. w \in Thread \ {t} /\ MovesOn({t})
        BY <1>11, <2>1 DEF TakesWaking, Fetches
      <4>3. \A type : About(w, type, r)' <=> About(w, type, r)
        BY <1>1, <4>2, StaysAbout
      <4>4. \E type \in PostTypes : About(w, type, r)'
        BY <3>4, <4>3
      <4> QED BY <2>1, <4>1, <4>4 DEF Offering
    <3>8. IsFiniteSet(O)
      BY OfferingIsFinite
    <3> HIDE DEF O, P, cap
    <3>9. Cardinality(O \cup {w}) = Cardinality(O) + 1
      BY <3>6, <3>8, OneMore
    <3>10. O \cup {w} \subseteq P
      BY <2>5, <3>7
    <3>11. Cardinality(O \cup {w}) <= Cardinality(P)
      BY <1>3, <3>10, FS_Subset
    <3>12. cap - mb_count[r] <= Cardinality(O)
      BY <3>3, <3>5 DEF Spoken, O, cap
    <3>13. cap' - mb_count'[r] <= Cardinality(P)
      BY <1>2, <1>3, <3>1, <3>9, <3>11, <3>12
    <3> QED BY <3>13 DEF Spoken, P, cap
  <2> QED BY <2>6, <2>7
<1> QED BY <1>7, <1>8, <1>9, <1>10, <1>11, MailboxStep

LEMMA SpokenCorrect == Spec /\ FitsArrays(scenario) => []SpokenInv
<1>1. Init => SpokenInv
  BY DEF Init, Reset, SpokenInv, Spoken, Senders, QueuedOn
<1>2. TypeOK /\ BlockedAreQueued /\ ExactInv /\ PendingInv /\ SpokenInv /\ [Next]_vars
        => SpokenInv'
  <2> SUFFICES ASSUME TypeOK, BlockedAreQueued, ExactInv, PendingInv, SpokenInv, [Next]_vars
               PROVE  SpokenInv'
    OBVIOUS
  <2>1. ASSUME scenario' = scenario,
               UNCHANGED <<state, pc, waiters, mb_count>>
        PROVE  SpokenInv'
    BY <2>1 DEF SpokenInv, MailboxOnly, SingleConsumer, ActionsOf, Spoken, Senders, Receivers,
                QueuedOn, Offering, About, Pending, StepCount
  <2>2. CASE Next
    <3>1. PICK t \in Thread : Step(t)
      BY <2>2 DEF Next, Runnable
    <3>2. scenario' = scenario /\ fail = "none"
      BY <3>1, StepKeepsScenario, StepIsAllowed
    <3>3. MailboxOnly(scenario) => Untimed(scenario) /\ WellTyped(scenario)
      BY DEF MailboxOnly, MailboxTypes, Untimed, TimedTypes, WellTyped
    <3>4. CASE MailboxOnly(scenario) /\ SingleConsumer(scenario)
      <4>1. Waits
        BY <3>2, <3>3, <3>4, TypeOKParts DEF Waits, Typed, ExactInv, PendingInv
      <4>2. \A r \in Resource : Spoken(r)
        BY <3>4 DEF SpokenInv
      <4>3. CASE fail' = "none"
        BY <3>1, <3>4, <4>1, <4>2, <4>3, SpokenKept DEF SpokenInv
      <4>4. CASE fail' # "none"
        <5>1. Stay /\ UNCHANGED <<waiters, mb_count>>
          BY <3>1, <3>2, <3>4, <4>1, <4>4, OnlyMailboxCalls
             DEF ThreadEnd, Post, PostFront, Fetch, MbPost, MbPostFront, MbFetch, MbAppend,
                 MbPrepend, MbTake, MbBlock, MbReject, Reject, modelVars, objectVars,
                 mailboxVars
        <5>2. UNCHANGED <<state, pc>>
          BY <4>1, <5>1, TimeStandsStill DEF Stay, Waits, Typed
        <5> QED BY <2>1, <3>2, <5>1, <5>2
      <4> QED BY <4>3, <4>4
    <3>5. CASE ~(MailboxOnly(scenario) /\ SingleConsumer(scenario))
      BY <3>2, <3>5 DEF SpokenInv, MailboxOnly, SingleConsumer, ActionsOf
    <3> QED BY <3>4, <3>5
  <2>3. CASE UNCHANGED vars
    BY <2>1, <2>3 DEF vars, schedVars, objectVars, mailboxVars
  <2> QED BY <2>2, <2>3
<1> QED BY <1>1, <1>2, TypeCorrect, SleepersAreQueued, ExactCorrect, PendingCorrect,
           PTL DEF Spec

(* Where mailbox calls are all there is and each mailbox has one consumer, *)
(* no wake-up of a fetch is lost on the senders: when nothing can run any  *)
(* more, a mailbox with sleeping senders is full, or its consumer sleeps.  *)
THEOREM WakeUpsReachSenders == Spec /\ FitsArrays(scenario) => []StuckSendersFaceFull
<1>1. TypeOK /\ SpokenInv => StuckSendersFaceFull
  <2> SUFFICES ASSUME TypeOK, SpokenInv, MailboxOnly(scenario), SingleConsumer(scenario),
                      ~NoDeadlock, NEW r \in Resource, Senders(r) # {}, Receivers(r) = {}
               PROVE  MbFull(r)
    BY DEF StuckSendersFaceFull
  <2>1. Offering(r) = {}
    BY DEF NoDeadlock, Runnable, Offering
  <2>2. Cardinality(Offering(r)) = 0
    BY <2>1, FS_EmptySet
  <2>3. scenario.mb_capacity[r] - mb_count[r] <= 0
    BY <2>2 DEF SpokenInv, Spoken
  <2>4. scenario.mb_capacity[r] \in Int /\ mb_count[r] \in Int
    BY SizeAssumption DEF TypeOK, ValidScenario
  <2> QED BY <2>3, <2>4 DEF MbFull
<1> QED BY <1>1, TypeCorrect, SpokenCorrect, PTL
=============================================================================
