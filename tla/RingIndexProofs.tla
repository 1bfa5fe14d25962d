-------------------------- MODULE RingIndexProofs --------------------------
(***************************************************************************)
(* Arithmetic of ring indices and windows, for every capacity.             *)
(***************************************************************************)
EXTENDS RingIndex, TLAPS

\* Sequences of the same length and elements are equal.
LEMMA SameElements ==
    ASSUME NEW E, NEW s \in Seq(E), NEW t \in Seq(E),
           Len(s) = Len(t), \A k \in 1 .. Len(s) : s[k] = t[k]
    PROVE  s = t
  OBVIOUS

\* The tail of a sequence is all but its first element.
LEMMA TailElements ==
    ASSUME NEW E, NEW s \in Seq(E), s # <<>>
    PROVE  /\ Tail(s) \in Seq(E) /\ Len(Tail(s)) = Len(s) - 1
           /\ \A k \in 1 .. Len(s) - 1 : Tail(s)[k] = s[k + 1]
  OBVIOUS

\* Append puts its element behind the others.
LEMMA AppendElements ==
    ASSUME NEW E, NEW s \in Seq(E), NEW e \in E
    PROVE  /\ Append(s, e) \in Seq(E) /\ Len(Append(s, e)) = Len(s) + 1
           /\ \A k \in 1 .. Len(s) : Append(s, e)[k] = s[k]
           /\ Append(s, e)[Len(s) + 1] = e
  OBVIOUS

-----------------------------------------------------------------------------

\* The remainder in increment is a wrap-around on slot numbers: increment and
\* next_index of shmring.c agree.
LEMMA IncrementWraps ==
    ASSUME NEW i \in Slots
    PROVE  /\ increment(i) = IF i + 1 = Capacity THEN 0 ELSE i + 1
           /\ increment(i) \in Slots
           /\ next_index(i) = increment(i)
<1>1. CASE i + 1 = Capacity
  BY <1>1, CapacityAssumption, SMT DEF increment, next_index, Slots
<1>2. CASE i + 1 # Capacity
  BY <1>2, CapacityAssumption, SMT DEF increment, next_index, Slots
<1>3. QED
  BY <1>1, <1>2

\* Two different slots have different successors.
LEMMA IncrementInjective ==
    ASSUME NEW i \in Slots, NEW j \in Slots, i # j
    PROVE  increment(i) # increment(j)
<1>1. increment(i) = IF i + 1 = Capacity THEN 0 ELSE i + 1
  BY IncrementWraps
<1>2. increment(j) = IF j + 1 = Capacity THEN 0 ELSE j + 1
  BY IncrementWraps
<1>3. QED
  BY <1>1, <1>2, CapacityAssumption DEF Slots

\* The distance between two slots counts the slots from one up to the other.
LEMMA DistanceProperties ==
    ASSUME NEW r \in Slots, NEW w \in Slots
    PROVE  /\ Distance(r, w) \in 0 .. Capacity - 1
           /\ SlotAfter(r, Distance(r, w)) = w
           /\ r = w <=> Distance(r, w) = 0
  BY CapacityAssumption DEF Slots, Distance, SlotAfter

\* Moving the read index up by one slot brings it one closer.
LEMMA DistanceOfRead ==
    ASSUME NEW r \in Slots, NEW w \in Slots, r # w
    PROVE  /\ Distance(r, w) \in 1 .. Capacity - 1
           /\ Distance(increment(r), w) = Distance(r, w) - 1
<1>1. increment(r) = IF r + 1 = Capacity THEN 0 ELSE r + 1
  BY IncrementWraps
<1>2. QED
  BY <1>1, CapacityAssumption DEF Slots, Distance

\* Moving the write index up by one slot, short of the read index, leads on by one.
LEMMA DistanceOfWrite ==
    ASSUME NEW r \in Slots, NEW w \in Slots, increment(w) # r
    PROVE  /\ Distance(r, w) \in 0 .. Capacity - 2
           /\ Distance(r, increment(w)) = Distance(r, w) + 1
<1>1. increment(w) = IF w + 1 = Capacity THEN 0 ELSE w + 1
  BY IncrementWraps
<1>2. QED
  BY <1>1, CapacityAssumption DEF Slots, Distance

\* Slots are counted on from the successor of a slot as from the slot itself.
LEMMA SlotAfterIncrement ==
    ASSUME NEW r \in Slots, NEW n \in 1 .. Capacity - 1
    PROVE  /\ SlotAfter(r, n) \in Slots
           /\ SlotAfter(increment(r), n - 1) = SlotAfter(r, n)
<1>1. increment(r) = IF r + 1 = Capacity THEN 0 ELSE r + 1
  BY IncrementWraps
<1>2. QED
  BY <1>1, CapacityAssumption DEF Slots, SlotAfter

\* The slot after the n-th is the (n + 1)-st, and the n-th from the successor.
LEMMA SlotAfterStep ==
    ASSUME NEW r \in Slots, NEW n \in 0 .. Capacity - 1
    PROVE  /\ SlotAfter(r, n) \in Slots
           /\ SlotAfter(r, n + 1) \in Slots
           /\ increment(SlotAfter(r, n)) = SlotAfter(r, n + 1)
           /\ SlotAfter(increment(r), n) = SlotAfter(r, n + 1)
<1>1. SlotAfter(r, n) \in Slots /\ SlotAfter(r, n + 1) \in Slots
  BY CapacityAssumption DEF Slots, SlotAfter
<1>2. increment(r) = IF r + 1 = Capacity THEN 0 ELSE r + 1
  BY IncrementWraps
<1>3. \A s \in Slots : increment(s) = IF s + 1 = Capacity THEN 0 ELSE s + 1
  BY IncrementWraps
<1>4. increment(SlotAfter(r, n)) =
        IF SlotAfter(r, n) + 1 = Capacity THEN 0 ELSE SlotAfter(r, n) + 1
  BY <1>1, <1>3, Zenon
<1>5. increment(SlotAfter(r, n)) = SlotAfter(r, n + 1)
  BY <1>4, CapacityAssumption DEF Slots, SlotAfter
<1>6. SlotAfter(increment(r), n) = SlotAfter(r, n + 1)
  BY <1>2, CapacityAssumption DEF Slots, SlotAfter
<1>7. QED
  BY <1>1, <1>5, <1>6

\* Within one turn of the ring, slots at different places differ.
LEMMA SlotAfterInjective ==
    ASSUME NEW r \in Slots, NEW m \in 1 .. Capacity, NEW n \in 1 .. Capacity, m # n
    PROVE  SlotAfter(r, m) # SlotAfter(r, n)
  BY CapacityAssumption DEF Slots, SlotAfter

-----------------------------------------------------------------------------

\* A window is a sequence of what its slots hold.
LEMMA WindowIsSequence ==
    ASSUME NEW E, NEW d \in [Slots -> E], NEW r \in Slots, NEW n \in 0 .. Capacity
    PROVE  /\ Window(d, r, n) \in Seq(E)
           /\ Len(Window(d, r, n)) = n
           /\ \A k \in 1 .. n : Window(d, r, n)[k] = d[SlotAfter(r, k - 1)]
<1>1. \A k \in 1 .. n : d[SlotAfter(r, k - 1)] \in E
  BY CapacityAssumption DEF Slots, SlotAfter
<1>2. QED
  BY <1>1, CapacityAssumption DEF Window

\* Without its first slot, a window is the tail of what it was.
LEMMA WindowTail ==
    ASSUME NEW E, NEW d \in [Slots -> E], NEW r \in Slots, NEW n \in 1 .. Capacity
    PROVE  /\ Window(d, r, n) # <<>>
           /\ Head(Window(d, r, n)) = d[r]
           /\ Window(d, increment(r), n - 1) = Tail(Window(d, r, n))
<1> DEFINE s == Window(d, r, n)
           t == Window(d, increment(r), n - 1)
<1>0. n \in 0 .. Capacity /\ n - 1 \in 0 .. Capacity
  BY CapacityAssumption
<1>1. s \in Seq(E) /\ Len(s) = n /\ \A k \in 1 .. n : s[k] = d[SlotAfter(r, k - 1)]
  BY <1>0, WindowIsSequence, Zenon
<1>2. increment(r) \in Slots
  BY IncrementWraps
<1>3. /\ t \in Seq(E) /\ Len(t) = n - 1
      /\ \A k \in 1 .. n - 1 : t[k] = d[SlotAfter(increment(r), k - 1)]
  <2>1. \A q \in Slots, m \in 0 .. Capacity :
            /\ Window(d, q, m) \in Seq(E) /\ Len(Window(d, q, m)) = m
            /\ \A k \in 1 .. m : Window(d, q, m)[k] = d[SlotAfter(q, k - 1)]
    BY WindowIsSequence, Zenon
  <2>2. QED
    BY <2>1, <1>0, <1>2, Zenon
<1>4. \A k \in 1 .. n - 1 : t[k] = s[k + 1]
  BY <1>1, <1>3, SlotAfterIncrement, CapacityAssumption
<1>5. SlotAfter(r, 0) = r
  BY CapacityAssumption DEF SlotAfter, Slots
<1>6. s # <<>> /\ Head(s) = d[r]
  <2> HIDE DEF s
  <2>1. QED
    BY <1>1, <1>5
<1>7. Tail(s) = t
  <2> HIDE DEF s, t
  <2>1. /\ Tail(s) \in Seq(E) /\ Len(Tail(s)) = n - 1
        /\ \A k \in 1 .. n - 1 : Tail(s)[k] = s[k + 1]
    BY <1>1, <1>6, TailElements
  <2>2. QED
    BY <2>1, <1>3, <1>4, SameElements
<1>8. QED
  BY <1>6, <1>7

\* A window grown by one slot has what that slot holds appended.
LEMMA WindowAppend ==
    ASSUME NEW E, NEW d \in [Slots -> E], NEW r \in Slots, NEW n \in 0 .. Capacity - 1
    PROVE  Window(d, r, n + 1) = Append(Window(d, r, n), d[SlotAfter(r, n)])
<1> DEFINE s == Window(d, r, n)
           t == Window(d, r, n + 1)
           e == d[SlotAfter(r, n)]
<1>0. n \in 0 .. Capacity /\ n + 1 \in 0 .. Capacity
  BY CapacityAssumption
<1>1. s \in Seq(E) /\ Len(s) = n /\ \A k \in 1 .. n : s[k] = d[SlotAfter(r, k - 1)]
  BY <1>0, WindowIsSequence, Zenon
<1>2. t \in Seq(E) /\ Len(t) = n + 1 /\ \A k \in 1 .. n + 1 : t[k] = d[SlotAfter(r, k - 1)]
  BY <1>0, WindowIsSequence, Zenon
<1>3. e \in E
  BY CapacityAssumption DEF SlotAfter, Slots
<1>4. t[n + 1] = e
  BY <1>2, CapacityAssumption
<1> HIDE DEF s, t, e
<1>5. /\ Append(s, e) \in Seq(E) /\ Len(Append(s, e)) = n + 1
      /\ \A k \in 1 .. n : Append(s, e)[k] = s[k]
      /\ Append(s, e)[n + 1] = e
  BY <1>1, <1>3, AppendElements
<1>6. \A k \in 1 .. n + 1 : t[k] = Append(s, e)[k]
  <2>1. ASSUME NEW k \in 1 .. n
        PROVE  t[k] = Append(s, e)[k]
    BY <1>0, <1>1, <1>2, <1>5
  <2>2. QED
    BY <2>1, <1>0, <1>4, <1>5
<1>7. t = Append(s, e)
  BY <1>2, <1>5, <1>6, SameElements
<1>8. QED
  BY <1>7 DEF s, t, e

\* The slot at the end of a window, or further on, is none of the window's.
LEMMA SlotOutsideWindow ==
    ASSUME NEW r \in Slots, NEW n \in 0 .. Capacity - 1, NEW m \in n .. Capacity - 1,
           NEW k \in 1 .. n
    PROVE  SlotAfter(r, k - 1) \in Slots /\ SlotAfter(r, k - 1) # SlotAfter(r, m)
  BY CapacityAssumption DEF SlotAfter, Slots
=============================================================================
