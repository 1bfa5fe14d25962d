-------------------------- MODULE SemShmRingProofs -------------------------
(***************************************************************************)
(* Proofs about SemShmRing for every capacity, every finite set of         *)
(* producers and every set of messages.                                    *)
(***************************************************************************)
EXTENDS SemShmRing, RingIndexProofs, FiniteSetTheorems

\* Counting the producers at some set of places: one producer's move changes
\* the count by what the move enters and leaves.
LEMMA CountMove ==
    ASSUME NEW S, NEW T, S \subseteq Producers, NEW p \in Producers
    PROVE  /\ Cardinality(S) \in Nat
           /\ p \notin S /\ T = S \cup {p} => Cardinality(T) = Cardinality(S) + 1
           /\ p \in S /\ T = S \ {p} => Cardinality(T) = Cardinality(S) - 1
           /\ p \in S => Cardinality(S) >= 1
<1>1. IsFiniteSet(S)
  BY ProducersAssumption, FS_Subset
<1>2. Cardinality(S) \in Nat
  BY <1>1, FS_CardinalityType
<1>3. p \notin S /\ T = S \cup {p} => Cardinality(T) = Cardinality(S) + 1
  BY <1>1, FS_AddElement
<1>4. p \in S /\ T = S \ {p} => Cardinality(T) = Cardinality(S) - 1
  BY <1>1, FS_RemoveElement
<1>5. p \in S => Cardinality(S) # 0
  BY <1>1, FS_EmptySet
<1>6. QED
  BY <1>2, <1>3, <1>4, <1>5

\* What a move of producer p to another place does to the two counts.
LEMMA Moves ==
    ASSUME TypeOK, NEW p \in Producers, NEW pc \in Places, Goto(p, pc)
    PROVE  /\ Cardinality(Reserved) \in Nat /\ Cardinality(Unsignalled) \in Nat
           /\ prod' \in [Producers -> [pc : Places, element : Elements]]
           /\ \A q \in Producers : q # p => prod'[q] = prod[q]
           /\ prod'[p].pc = pc /\ prod'[p].element = prod[p].element
           /\ prod[p].pc \in {"mutex", "copy"} => Cardinality(Reserved) >= 1
           /\ Cardinality(Reserved)' = Cardinality(Reserved)
                  - One(prod[p].pc \in {"mutex", "copy"}) + One(pc \in {"mutex", "copy"})
           /\ prod[p].pc \in {"unlock", "signal"} => Cardinality(Unsignalled) >= 1
           /\ Cardinality(Unsignalled)' = Cardinality(Unsignalled)
                  - One(prod[p].pc \in {"unlock", "signal"}) + One(pc \in {"unlock", "signal"})
<1>1. Cardinality(Reserved) \in Nat /\ Cardinality(Unsignalled) \in Nat
  BY CountMove DEF Reserved, Unsignalled
<1>2. prod \in [Producers -> [pc : Places, element : Elements]]
  BY DEF TypeOK
<1>3. /\ prod' \in [Producers -> [pc : Places, element : Elements]]
      /\ \A q \in Producers : q # p => prod'[q] = prod[q]
      /\ prod'[p].pc = pc /\ prod'[p].element = prod[p].element
  BY <1>2 DEF Goto
<1>4. Reserved' = IF pc \in {"mutex", "copy"} THEN Reserved \cup {p}
                                                      ELSE Reserved \ {p}
  BY <1>3 DEF Reserved
<1>5. Unsignalled' = IF pc \in {"unlock", "signal"} THEN Unsignalled \cup {p}
                                                            ELSE Unsignalled \ {p}
  BY <1>3 DEF Unsignalled
<1>6. /\ p \in Reserved <=> prod[p].pc \in {"mutex", "copy"}
      /\ p \in Unsignalled <=> prod[p].pc \in {"unlock", "signal"}
      /\ Reserved \subseteq Producers /\ Unsignalled \subseteq Producers
  BY DEF Reserved, Unsignalled
<1>7. /\ p \in Reserved => Cardinality(Reserved) >= 1
      /\ Cardinality(Reserved') = Cardinality(Reserved)
            - One(p \in Reserved) + One(pc \in {"mutex", "copy"})
  <2>1. CASE p \in Reserved /\ pc \in {"mutex", "copy"}
    <3>1. Reserved' = Reserved
      BY <1>4, <2>1
    <3>2. Cardinality(Reserved) >= 1
      BY <1>6, <2>1, CountMove
    <3>3. QED
      BY <1>1, <2>1, <3>1, <3>2 DEF One
  <2>2. CASE p \in Reserved /\ pc \notin {"mutex", "copy"}
    BY <1>1, <1>4, <1>6, <2>2, CountMove DEF One
  <2>3. CASE p \notin Reserved /\ pc \in {"mutex", "copy"}
    BY <1>1, <1>4, <1>6, <2>3, CountMove DEF One
  <2>4. CASE p \notin Reserved /\ pc \notin {"mutex", "copy"}
    <3>1. Reserved' = Reserved
      BY <1>4, <2>4
    <3>2. QED
      BY <1>1, <2>4, <3>1 DEF One
  <2>5. QED
    BY <2>1, <2>2, <2>3, <2>4
<1>8. /\ p \in Unsignalled => Cardinality(Unsignalled) >= 1
      /\ Cardinality(Unsignalled') = Cardinality(Unsignalled)
            - One(p \in Unsignalled) + One(pc \in {"unlock", "signal"})
  <2>1. CASE p \in Unsignalled /\ pc \in {"unlock", "signal"}
    <3>1. Unsignalled' = Unsignalled
      BY <1>5, <2>1
    <3>2. Cardinality(Unsignalled) >= 1
      BY <1>6, <2>1, CountMove
    <3>3. QED
      BY <1>1, <2>1, <3>1, <3>2 DEF One
  <2>2. CASE p \in Unsignalled /\ pc \notin {"unlock", "signal"}
    BY <1>1, <1>5, <1>6, <2>2, CountMove DEF One
  <2>3. CASE p \notin Unsignalled /\ pc \in {"unlock", "signal"}
    BY <1>1, <1>5, <1>6, <2>3, CountMove DEF One
  <2>4. CASE p \notin Unsignalled /\ pc \notin {"unlock", "signal"}
    <3>1. Unsignalled' = Unsignalled
      BY <1>5, <2>4
    <3>2. QED
      BY <1>1, <2>4, <3>1 DEF One
  <2>5. QED
    BY <2>1, <2>2, <2>3, <2>4
<1>9. QED
  BY <1>1, <1>3, <1>6, <1>7, <1>8

-----------------------------------------------------------------------------

\* Every reachable state of the ring satisfies the inductive invariant.
THEOREM SemRingInvariant == Spec => []IndInv
<1>1. Init => IndInv
  <2> SUFFICES ASSUME Init PROVE IndInv
    OBVIOUS
  <2>1. Reserved = {} /\ Unsignalled = {}
    BY DEF Init, Reserved, Unsignalled
  <2>2. Cardinality(Reserved) = 0 /\ Cardinality(Unsignalled) = 0
    BY <2>1, FS_EmptySet
  <2>3. SlotAfter(0, 0) = 0
    BY CapacityAssumption DEF SlotAfter
  <2>4. TypeOK
    BY CapacityAssumption DEF Init, TypeOK, Slots, Places
  <2>5. QED
    BY <2>2, <2>3, <2>4, CapacityAssumption
       DEF Init, IndInv, WriteExclusive, Holds, SlotsAccounted, One
<1>2. IndInv /\ [Next]_vars => IndInv'
  <2> SUFFICES ASSUME IndInv, [Next]_vars
               PROVE  IndInv'
    OBVIOUS
  <2>0. TypeOK /\ SlotsAccounted
    BY DEF IndInv
  <2>a. Cardinality(Reserved) \in Nat /\ Cardinality(Unsignalled) \in Nat
    <3>1. Reserved \subseteq Producers /\ Unsignalled \subseteq Producers
      BY DEF Reserved, Unsignalled
    <3>2. IsFiniteSet(Reserved) /\ IsFiniteSet(Unsignalled)
      BY <3>1, ProducersAssumption, FS_Subset
    <3>3. QED
      BY <3>2, FS_CardinalityType
  <2>1. ASSUME UNCHANGED prod
        PROVE  Cardinality(Reserved)' = Cardinality(Reserved)
               /\ Cardinality(Unsignalled)' = Cardinality(Unsignalled)
    BY <2>1 DEF Reserved, Unsignalled
  <2>2. ASSUME NEW p \in Producers, NEW e \in Elements, Push(p, e)
        PROVE  IndInv'
    <3>1. UNCHANGED <<sems, segment, cons, out, dead, size, lost>>
          /\ prod' = [prod EXCEPT ![p] = [pc |-> "wait", element |-> e]]
          /\ prod[p].pc = "idle"
      BY <2>2 DEF Push, At
    <3>2. prod' \in [Producers -> [pc : Places, element : Elements]]
          /\ \A q \in Producers : q # p => prod'[q] = prod[q]
          /\ prod'[p].pc = "wait"
      BY <3>1, <2>0 DEF TypeOK, Places
    <3>3. Reserved' = Reserved /\ Unsignalled' = Unsignalled
      BY <3>1, <3>2 DEF Reserved, Unsignalled
    <3>4. \A q \in Producers : Holds(q)' <=> Holds(q)
      BY <3>1, <3>2 DEF Holds
    <3>5. TypeOK'
      BY <2>0, <3>1, <3>2 DEF TypeOK, sems, segment
    <3>6. QED
      BY <3>1, <3>3, <3>4, <3>5 DEF IndInv, WriteExclusive, SlotsAccounted, sems, segment
  <2>3. ASSUME NEW p \in Producers, GetBuffer(p)
        PROVE  IndInv'
    <3>1. At(p, "wait") /\ Goto(p, "mutex")
          /\ buf_count_sem > 0
          /\ buf_count_sem' = buf_count_sem - 1
          /\ UNCHANGED <<mutex_sem, spool_signal_sem, write_index, read_index, buf, cons, out, dead, size, lost>>
      BY <2>3 DEF GetBuffer, sems, segment
    <3>2. prod[p].pc = "wait" /\ "mutex" \in Places
      BY <3>1 DEF At, Places
    <3>3. /\ prod' \in [Producers -> [pc : Places, element : Elements]]
          /\ \A q \in Producers : q # p => prod'[q] = prod[q]
          /\ prod'[p].pc = "mutex"
      BY <2>0, <3>1, <3>2, Moves
    <3>4. Cardinality(Reserved)' = Cardinality(Reserved) + 1
          /\ Cardinality(Unsignalled)' = Cardinality(Unsignalled)
      BY <2>0, <3>1, <3>2, Moves DEF One
    <3>5. SlotsAccounted'
      BY <2>0, <2>a, <3>1, <3>4, CapacityAssumption DEF SlotsAccounted, TypeOK, One
    <3>6. TypeOK'
      BY <2>0, <2>a, <3>1, <3>3, <3>4, CapacityAssumption DEF SlotsAccounted, TypeOK, One
    <3>7. WriteExclusive' /\ (mutex_sem = 1 => cons # "init" /\ \A q \in Producers : ~Holds(q))'
      BY <2>0, <3>1, <3>2, <3>3 DEF IndInv, WriteExclusive, Holds, TypeOK
    <3>8. QED
      BY <3>1, <3>5, <3>6, <3>7 DEF IndInv
  <2>4. ASSUME NEW p \in Producers, Lock(p)
        PROVE  IndInv'
    <3>1. At(p, "mutex") /\ Goto(p, "copy")
          /\ mutex_sem > 0
          /\ mutex_sem' = mutex_sem - 1
          /\ UNCHANGED <<buf_count_sem, spool_signal_sem, write_index, read_index, buf, cons, out, dead, size, lost>>
      BY <2>4 DEF Lock, sems, segment
    <3>2. prod[p].pc = "mutex" /\ "copy" \in Places
      BY <3>1 DEF At, Places
    <3>3. /\ prod' \in [Producers -> [pc : Places, element : Elements]]
          /\ \A q \in Producers : q # p => prod'[q] = prod[q]
          /\ prod'[p].pc = "copy"
      BY <2>0, <3>1, <3>2, Moves
    <3>4. Cardinality(Reserved)' = Cardinality(Reserved)
          /\ Cardinality(Unsignalled)' = Cardinality(Unsignalled)
          /\ Cardinality(Reserved) >= 1
      BY <2>0, <3>1, <3>2, Moves DEF One
    <3>5. SlotsAccounted'
      BY <2>0, <2>a, <3>1, <3>4, CapacityAssumption DEF SlotsAccounted, TypeOK, One
    <3>6. TypeOK'
      BY <2>0, <2>a, <3>1, <3>3, <3>4, CapacityAssumption DEF SlotsAccounted, TypeOK, One
    <3>7. WriteExclusive' /\ (mutex_sem = 1 => cons # "init" /\ \A q \in Producers : ~Holds(q))'
      BY <2>0, <3>1, <3>2, <3>3 DEF IndInv, WriteExclusive, Holds, TypeOK
    <3>8. QED
      BY <3>1, <3>5, <3>6, <3>7 DEF IndInv
  <2>5. ASSUME NEW p \in Producers, CopyIn(p)
        PROVE  IndInv'
    <3>1. At(p, "copy") /\ Goto(p, "unlock")
          /\ size' = size + 1
          /\ UNCHANGED <<mutex_sem, buf_count_sem, spool_signal_sem, read_index, cons, out, dead, lost>>
          /\ write_index' = next_index(write_index)
          /\ buf' = [buf EXCEPT ![write_index] = prod[p].element]
      BY <2>5 DEF CopyIn, sems, segment
    <3>2. prod[p].pc = "copy" /\ "unlock" \in Places
      BY <3>1 DEF At, Places
    <3>3. /\ prod' \in [Producers -> [pc : Places, element : Elements]]
          /\ \A q \in Producers : q # p => prod'[q] = prod[q]
          /\ prod'[p].pc = "unlock"
      BY <2>0, <3>1, <3>2, Moves
    <3>4. Cardinality(Reserved)' = Cardinality(Reserved) - 1
          /\ Cardinality(Unsignalled)' = Cardinality(Unsignalled) + 1
          /\ Cardinality(Reserved) >= 1
      BY <2>0, <3>1, <3>2, Moves DEF One
    <3>5. SlotsAccounted'
      BY <2>0, <2>a, <3>1, <3>4, CapacityAssumption DEF SlotsAccounted, TypeOK, One
    <3>a. size \in 0 .. Capacity - 1
      BY <2>0, <2>a, <3>4, CapacityAssumption DEF SlotsAccounted, TypeOK, One
    <3>b. write_index' = SlotAfter(read_index, size + 1) /\ write_index' \in Slots
      BY <2>0, <3>1, <3>a, IncrementWraps, SlotAfterStep DEF IndInv, TypeOK
    <3>c. buf' \in [Slots -> Elements]
      BY <2>0, <3>1 DEF TypeOK
    <3>6. TypeOK'
      BY <2>0, <3>1, <3>3, <3>a, <3>b, <3>c, CapacityAssumption DEF TypeOK
    <3>7. WriteExclusive' /\ (mutex_sem = 1 => cons # "init" /\ \A q \in Producers : ~Holds(q))'
      BY <2>0, <3>1, <3>2, <3>3 DEF IndInv, WriteExclusive, Holds, TypeOK
    <3>8. QED
      BY <2>0, <3>1, <3>2, <3>5, <3>6, <3>7, <3>b DEF IndInv, WriteExclusive, Holds
  <2>6. ASSUME NEW p \in Producers, Unlock(p)
        PROVE  IndInv'
    <3>1. At(p, "unlock") /\ Goto(p, "signal")
          /\ mutex_sem' = mutex_sem + 1
          /\ UNCHANGED <<buf_count_sem, spool_signal_sem, write_index, read_index, buf, cons, out, dead, size, lost>>
      BY <2>6 DEF Unlock, sems, segment
    <3>2. prod[p].pc = "unlock" /\ "signal" \in Places
      BY <3>1 DEF At, Places
    <3>3. /\ prod' \in [Producers -> [pc : Places, element : Elements]]
          /\ \A q \in Producers : q # p => prod'[q] = prod[q]
          /\ prod'[p].pc = "signal"
      BY <2>0, <3>1, <3>2, Moves
    <3>4. Cardinality(Reserved)' = Cardinality(Reserved)
          /\ Cardinality(Unsignalled)' = Cardinality(Unsignalled)
          /\ Cardinality(Unsignalled) >= 1
      BY <2>0, <3>1, <3>2, Moves DEF One
    <3>5. SlotsAccounted'
      BY <2>0, <2>a, <3>1, <3>4, CapacityAssumption DEF SlotsAccounted, TypeOK, One
    <3>6. TypeOK'
      <4>1. mutex_sem = 0
        BY <2>0, <3>2 DEF IndInv, TypeOK, Holds
      <4>2. QED
        BY <2>0, <3>1, <3>3, <4>1 DEF TypeOK
    <3>7. WriteExclusive' /\ (mutex_sem = 1 => cons # "init" /\ \A q \in Producers : ~Holds(q))'
      BY <2>0, <3>1, <3>2, <3>3 DEF IndInv, WriteExclusive, Holds, TypeOK
    <3>8. QED
      BY <3>1, <3>5, <3>6, <3>7 DEF IndInv
  <2>7. ASSUME NEW p \in Producers, Signal(p)
        PROVE  IndInv'
    <3>1. At(p, "signal") /\ Goto(p, "idle")
          /\ spool_signal_sem' = spool_signal_sem + 1
          /\ UNCHANGED <<mutex_sem, buf_count_sem, write_index, read_index, buf, cons, out, dead, size, lost>>
      BY <2>7 DEF Signal, sems, segment
    <3>2. prod[p].pc = "signal" /\ "idle" \in Places
      BY <3>1 DEF At, Places
    <3>3. /\ prod' \in [Producers -> [pc : Places, element : Elements]]
          /\ \A q \in Producers : q # p => prod'[q] = prod[q]
          /\ prod'[p].pc = "idle"
      BY <2>0, <3>1, <3>2, Moves
    <3>4. Cardinality(Reserved)' = Cardinality(Reserved)
          /\ Cardinality(Unsignalled)' = Cardinality(Unsignalled) - 1
          /\ Cardinality(Unsignalled) >= 1
      BY <2>0, <3>1, <3>2, Moves DEF One
    <3>5. SlotsAccounted'
      BY <2>0, <2>a, <3>1, <3>4, CapacityAssumption DEF SlotsAccounted, TypeOK, One
    <3>6. TypeOK'
      BY <2>0, <2>a, <3>1, <3>3, <3>4, CapacityAssumption DEF SlotsAccounted, TypeOK, One
    <3>7. WriteExclusive' /\ (mutex_sem = 1 => cons # "init" /\ \A q \in Producers : ~Holds(q))'
      BY <2>0, <3>1, <3>2, <3>3 DEF IndInv, WriteExclusive, Holds, TypeOK
    <3>8. QED
      BY <3>1, <3>5, <3>6, <3>7 DEF IndInv
  <2>8. ASSUME NEW p \in Producers, WaitInterrupted(p)
        PROVE  IndInv'
    <3>1. At(p, "wait") /\ Goto(p, "idle")
          /\ UNCHANGED <<mutex_sem, buf_count_sem, spool_signal_sem, write_index, read_index, buf, cons, out, dead, size, lost>>
      BY <2>8 DEF WaitInterrupted, sems, segment
    <3>2. prod[p].pc = "wait" /\ "idle" \in Places
      BY <3>1 DEF At, Places
    <3>3. /\ prod' \in [Producers -> [pc : Places, element : Elements]]
          /\ \A q \in Producers : q # p => prod'[q] = prod[q]
          /\ prod'[p].pc = "idle"
      BY <2>0, <3>1, <3>2, Moves
    <3>4. Cardinality(Reserved)' = Cardinality(Reserved)
          /\ Cardinality(Unsignalled)' = Cardinality(Unsignalled)
      BY <2>0, <3>1, <3>2, Moves DEF One
    <3>5. SlotsAccounted'
      BY <2>0, <2>a, <3>1, <3>4, CapacityAssumption DEF SlotsAccounted, TypeOK, One
    <3>6. TypeOK'
      BY <2>0, <2>a, <3>1, <3>3, <3>4, CapacityAssumption DEF SlotsAccounted, TypeOK, One
    <3>7. WriteExclusive' /\ (mutex_sem = 1 => cons # "init" /\ \A q \in Producers : ~Holds(q))'
      BY <2>0, <3>1, <3>2, <3>3 DEF IndInv, WriteExclusive, Holds, TypeOK
    <3>8. QED
      BY <3>1, <3>5, <3>6, <3>7 DEF IndInv
  <2>9. ASSUME NEW p \in Producers, LockInterrupted(p)
        PROVE  IndInv'
    <3>1. At(p, "mutex") /\ Goto(p, "idle")
          /\ lost' = lost + 1
          /\ UNCHANGED <<mutex_sem, buf_count_sem, spool_signal_sem, write_index, read_index, buf, cons, out, dead, size>>
      BY <2>9 DEF LockInterrupted, sems, segment
    <3>2. prod[p].pc = "mutex" /\ "idle" \in Places
      BY <3>1 DEF At, Places
    <3>3. /\ prod' \in [Producers -> [pc : Places, element : Elements]]
          /\ \A q \in Producers : q # p => prod'[q] = prod[q]
          /\ prod'[p].pc = "idle"
      BY <2>0, <3>1, <3>2, Moves
    <3>4. Cardinality(Reserved)' = Cardinality(Reserved) - 1
          /\ Cardinality(Unsignalled)' = Cardinality(Unsignalled)
          /\ Cardinality(Reserved) >= 1
      BY <2>0, <3>1, <3>2, Moves DEF One
    <3>5. SlotsAccounted'
      BY <2>0, <2>a, <3>1, <3>4, CapacityAssumption DEF SlotsAccounted, TypeOK, One
    <3>6. TypeOK'
      <4>1. lost + 1 \in 0 .. Capacity
        BY <2>0, <2>a, <3>4, CapacityAssumption DEF SlotsAccounted, TypeOK, One
      <4>2. QED
        BY <2>0, <3>1, <3>3, <4>1 DEF TypeOK
    <3>7. WriteExclusive' /\ (mutex_sem = 1 => cons # "init" /\ \A q \in Producers : ~Holds(q))'
      BY <2>0, <3>1, <3>2, <3>3 DEF IndInv, WriteExclusive, Holds, TypeOK
    <3>8. QED
      BY <3>1, <3>5, <3>6, <3>7 DEF IndInv
  <2>10. ASSUME NEW p \in Producers, Kill(p)
         PROVE  IndInv'
    <3>1. dead' \subseteq Producers
      BY <2>0, <2>10 DEF Kill, TypeOK
    <3>2. QED
      BY <2>0, <2>1, <2>10, <3>1
         DEF Kill, IndInv, TypeOK, WriteExclusive, Holds, SlotsAccounted, One, sems, segment
  <2>11. CASE ntm_shmring_init
    <3>1. SlotsAccounted'
      BY <2>0, <2>1, <2>11 DEF ntm_shmring_init, SlotsAccounted, One
    <3>2. mutex_sem = 0
      BY <2>0, <2>11 DEF ntm_shmring_init, IndInv, TypeOK
    <3>3. TypeOK'
      BY <2>0, <2>11, <3>2, CapacityAssumption DEF ntm_shmring_init, TypeOK, Slots
    <3>4. QED
      BY <2>11, <3>1, <3>3 DEF ntm_shmring_init, IndInv, WriteExclusive, Holds
  <2>12. CASE AwaitSignal
    <3>1. SlotsAccounted'
      BY <2>0, <2>a, <2>1, <2>12 DEF AwaitSignal, SlotsAccounted, TypeOK, One
    <3>2. TypeOK'
      <4>1. spool_signal_sem - 1 \in 0 .. Capacity
        BY <2>0, <2>12, CapacityAssumption DEF AwaitSignal, TypeOK
      <4>2. QED
        BY <2>0, <2>12, <4>1 DEF AwaitSignal, TypeOK, segment
    <3>3. QED
      BY <2>12, <3>1, <3>2 DEF AwaitSignal, IndInv, WriteExclusive, Holds, segment
  <2>13. CASE CopyOut
    <3>1. SlotsAccounted' /\ size \in 1 .. Capacity
      BY <2>0, <2>a, <2>1, <2>13, CapacityAssumption
         DEF CopyOut, SlotsAccounted, TypeOK, One, sems
    <3>2. read_index' \in Slots /\ SlotAfter(read_index', size - 1) = SlotAfter(read_index, size)
      <4>1. size - 1 \in 0 .. Capacity - 1 /\ size = size
        BY <3>1, CapacityAssumption
      <4>2. QED
        BY <2>0, <2>13, <4>1, IncrementWraps, SlotAfterStep DEF CopyOut, TypeOK
    <3>3. TypeOK'
      BY <2>0, <2>13, <3>1, <3>2, CapacityAssumption DEF CopyOut, TypeOK, sems
    <3>4. QED
      BY <2>13, <3>1, <3>2, <3>3 DEF CopyOut, IndInv, WriteExclusive, Holds, sems
  <2>14. CASE Release
    <3>1. SlotsAccounted' /\ buf_count_sem + 1 \in 0 .. Capacity
      BY <2>0, <2>a, <2>1, <2>14, CapacityAssumption DEF Release, SlotsAccounted, TypeOK, One
    <3>2. TypeOK'
      BY <2>0, <2>14, <3>1 DEF Release, TypeOK, segment
    <3>3. QED
      BY <2>14, <3>1, <3>2 DEF Release, IndInv, WriteExclusive, Holds, segment
  <2>15. CASE UNCHANGED vars
    BY <2>0, <2>1, <2>15
       DEF vars, IndInv, TypeOK, WriteExclusive, Holds, SlotsAccounted, One, sems, segment
  <2>16. QED
    BY <2>2, <2>3, <2>4, <2>5, <2>6, <2>7, <2>8, <2>9, <2>10, <2>11, <2>12, <2>13, <2>14, <2>15
       DEF Next, Producer, PushStep, Fault, Consumer
<1>3. QED
  BY <1>1, <1>2, PTL DEF Spec

\* The mutex never goes above one, and the indices stay on the ring.
THEOREM SemRingTypeOK == Spec => []TypeOK
<1>1. IndInv => TypeOK
  BY DEF IndInv
<1>2. QED
  BY <1>1, SemRingInvariant, PTL

\* Only one producer uses write_index at a time, and none before the ring is
\* initialised.
THEOREM SemRingWriteExclusive == Spec => []WriteExclusive
<1>1. IndInv => WriteExclusive
  BY DEF IndInv
<1>2. QED
  BY <1>1, SemRingInvariant, PTL

\* No slot is lost or counted twice, except to an interrupted wait on the mutex.
THEOREM SemRingSlotsAccounted == Spec => []SlotsAccounted
<1>1. IndInv => SlotsAccounted
  BY DEF IndInv
<1>2. QED
  BY <1>1, SemRingInvariant, PTL

\* What the counts say when a producer is about to copy in: there is room.
LEMMA RoomToCopyIn ==
    ASSUME IndInv, NEW p \in Producers, prod[p].pc = "copy"
    PROVE  size \in 0 .. Capacity - 1
<1>1. Reserved \subseteq Producers /\ Unsignalled \subseteq Producers /\ p \in Reserved
  BY DEF Reserved, Unsignalled
<1>2. Cardinality(Reserved) \in Nat /\ Cardinality(Reserved) >= 1
  BY <1>1, CountMove
<1>3. QED
  BY <1>2, CapacityAssumption DEF IndInv, TypeOK, SlotsAccounted, One

\* And when the consumer is about to copy out: there is a message.
LEMMA MessageToCopyOut ==
    ASSUME IndInv, cons = "copy"
    PROVE  size \in 1 .. Capacity
<1>1. Unsignalled \subseteq Producers
  BY DEF Unsignalled
<1>2. Cardinality(Unsignalled) \in Nat
  BY <1>1, ProducersAssumption, FS_Subset, FS_CardinalityType
<1>3. QED
  BY <1>2, CapacityAssumption DEF IndInv, TypeOK, SlotsAccounted, One

\* The copy of a push and the copy of the pop never meet on a slot.
THEOREM SemRingSlotExclusive == Spec => []SlotExclusive
<1>1. IndInv => SlotExclusive
  <2> SUFFICES ASSUME IndInv, cons = "copy", NEW p \in Producers, prod[p].pc = "copy"
               PROVE  write_index # read_index
    BY DEF SlotExclusive
  <2>1. size \in 1 .. Capacity - 1
    BY RoomToCopyIn, MessageToCopyOut
  <2>2. write_index = SlotAfter(read_index, size) /\ read_index \in Slots
    BY DEF IndInv, TypeOK
  <2>3. QED
    BY <2>1, <2>2, CapacityAssumption DEF SlotAfter, Slots
<1>2. QED
  BY <1>1, SemRingInvariant, PTL

\* No two of the copies of ntm_shmring_push and ntm_shmring_pop ever meet.
THEOREM SemRingPushPopExclusive == Spec => []PushPopExclusive
<1>1. WriteExclusive /\ SlotExclusive => PushPopExclusive
  BY DEF PushPopExclusive
<1>2. QED
  BY <1>1, SemRingWriteExclusive, SemRingSlotExclusive, PTL

-----------------------------------------------------------------------------
(* The ring implements the bounded FIFO.                                   *)

\* There is always a message on offer, of the producer that holds the mutex
\* or, when none does, an arbitrary one.
LEMMA OfferedIsElement ==
    ASSUME TypeOK
    PROVE  Offered \in Elements
<1>1. (CHOOSE e \in Elements : TRUE) \in Elements
  BY DEF TypeOK
<1>2. ASSUME \E p \in Producers : Holds(p)
      PROVE  (CHOOSE p \in Producers : Holds(p)) \in Producers
  BY <1>2
<1>3. QED
  BY <1>1, <1>2 DEF Offered, TypeOK

\* A producer that holds the mutex is the one whose message is on offer.
LEMMA OfferedByHolder ==
    ASSUME WriteExclusive, NEW p \in Producers, Holds(p)
    PROVE  Offered = prod[p].element
<1>1. (CHOOSE q \in Producers : Holds(q)) \in Producers
      /\ Holds(CHOOSE q \in Producers : Holds(q))
  BY Zenon
<1>2. (CHOOSE q \in Producers : Holds(q)) = p
  BY <1>1 DEF WriteExclusive
<1>3. QED
  BY <1>2 DEF Offered

\* Both also hold in the state after a step.
LEMMA OfferedAfter ==
    /\ TypeOK' => Offered' \in Elements
    /\ \A p \in Producers : WriteExclusive' /\ Holds(p)' => Offered' = prod'[p].element
<1>1. TypeOK => Offered \in Elements
  BY OfferedIsElement
<1>2. (\A p \in Producers : WriteExclusive /\ Holds(p) => Offered = prod[p].element)
  BY OfferedByHolder
<1>3. (\A p \in Producers : WriteExclusive /\ Holds(p) => Offered = prod[p].element)'
  BY <1>2, PTL
<1>4. TypeOK' => (Offered \in Elements)'
  BY <1>1, PTL
<1>5. QED
  BY <1>3, <1>4

\* ntm_shmring.c implements the bounded FIFO.
THEOREM SemRingImplementsFifo == Spec => ImplementsFifo
<1>1. Init => Fifo!FifoInit
  <2> SUFFICES ASSUME Init PROVE Fifo!FifoInit
    OBVIOUS
  <2>1. Contents = <<>>
    BY DEF Init, Contents, Window
  <2>2. (CHOOSE e \in Elements : TRUE) \in Elements
    BY DEF Init
  <2>3. \A p \in Producers : ~Holds(p)
    BY DEF Init, Holds
  <2>4. Offered \in Elements
    BY <2>2, <2>3 DEF Offered
  <2>5. QED
    BY <2>1, <2>4 DEF Init, Fifo!FifoInit
<1>2. IndInv /\ IndInv' /\ [Next]_vars => [Fifo!FifoNext]_Fifo!fifoVars
  <2> SUFFICES ASSUME IndInv, IndInv', [Next]_vars
               PROVE  Fifo!FifoNext \/ UNCHANGED Fifo!fifoVars
    OBVIOUS
  <2>0. TypeOK /\ TypeOK' /\ WriteExclusive /\ WriteExclusive'
    BY DEF IndInv
  <2>1. ASSUME UNCHANGED <<buf, read_index, size, out>>
        PROVE  Fifo!FifoNext
    <3>1. Offered' \in Elements
      BY <2>0, OfferedAfter
    <3>2. Contents' = Contents
      BY <2>1 DEF Contents, Window
    <3>3. Fifo!Offer(Offered')
      BY <2>1, <3>2 DEF Fifo!Offer
    <3>4. QED
      BY <3>1, <3>3 DEF Fifo!FifoNext
  <2>2. ASSUME NEW p \in Producers, CopyIn(p)
        PROVE  Fifo!FifoNext
    <3>1. prod[p].pc = "copy" /\ prod'[p].pc = "unlock" /\ prod'[p].element = prod[p].element
      BY <2>0, <2>2 DEF CopyIn, Goto, At, TypeOK
    <3>2. Holds(p) /\ Holds(p)'
      BY <3>1 DEF Holds
    <3>3. Offered = prod[p].element /\ Offered' = prod[p].element
      <4>1. Offered = prod[p].element
        BY <2>0, <3>2, OfferedByHolder
      <4>2. Offered' = prod'[p].element
        BY <2>0, <3>2, OfferedAfter
      <4>3. QED
        BY <3>1, <4>1, <4>2
    <3>4. size \in 0 .. Capacity - 1 /\ size' = size + 1 /\ size \in 0 .. Capacity
      BY <2>2, <3>1, RoomToCopyIn, CapacityAssumption DEF CopyIn
    <3>5. read_index \in Slots /\ read_index' = read_index /\ out' = out
          /\ buf \in [Slots -> Elements] /\ buf' \in [Slots -> Elements]
          /\ write_index = SlotAfter(read_index, size)
          /\ buf' = [buf EXCEPT ![write_index] = prod[p].element]
          /\ write_index \in Slots
      BY <2>0, <2>2 DEF CopyIn, TypeOK, IndInv
    <3>6. size \in size .. Capacity - 1
      BY <3>4
    <3>7. \A k \in 1 .. size : SlotAfter(read_index, k - 1) \in Slots \ {write_index}
      BY <3>4, <3>5, <3>6, SlotOutsideWindow
    <3>8. Window(buf', read_index, size) = Contents
      BY <3>5, <3>7 DEF Window, Contents
    <3>9. Window(buf', read_index, size + 1)
            = Append(Window(buf', read_index, size), buf'[SlotAfter(read_index, size)])
      BY <3>4, <3>5, WindowAppend
    <3>10. Contents' = Append(Contents, Offered)
      BY <3>3, <3>4, <3>5, <3>8, <3>9 DEF Contents
    <3>11. Len(Contents) = size
      <4>1. \A d \in [Slots -> Elements], r \in Slots, n \in 0 .. Capacity :
                Len(Window(d, r, n)) = n
        BY WindowIsSequence, Zenon
      <4>2. QED
        BY <3>4, <3>5, <4>1 DEF Contents
    <3>12. Len(Contents) < Capacity
      BY <3>4, <3>11, CapacityAssumption
    <3>13. Fifo!Put
      BY <3>3, <3>5, <3>10, <3>12 DEF Fifo!Put
    <3>14. QED
      BY <3>13 DEF Fifo!FifoNext
  <2>3. CASE CopyOut
    <3>1. size \in 1 .. Capacity /\ size' = size - 1
      BY <2>3, MessageToCopyOut DEF CopyOut
    <3>2. read_index \in Slots /\ buf \in [Slots -> Elements] /\ buf' = buf /\ prod' = prod
          /\ read_index' = increment(read_index) /\ out' = buf[read_index]
      BY <2>0, <2>3 DEF CopyOut, TypeOK
    <3>3. Contents' = Window(buf, increment(read_index), size - 1)
      BY <3>1, <3>2 DEF Contents
    <3>4. Contents # <<>> /\ Head(Contents) = buf[read_index] /\ Contents' = Tail(Contents)
      BY <3>1, <3>2, <3>3, WindowTail DEF Contents
    <3>5. Offered' = Offered
      BY <3>2 DEF Offered, Holds
    <3>6. Fifo!Take
      BY <3>2, <3>4, <3>5 DEF Fifo!Take
    <3>7. QED
      BY <3>6 DEF Fifo!FifoNext
  <2>4. CASE ntm_shmring_init
    <3>1. UNCHANGED <<buf, read_index, size, out>>
      BY <2>4 DEF ntm_shmring_init, IndInv
    <3>2. QED
      BY <2>1, <3>1
  <2>5. CASE AwaitSignal \/ Release
    BY <2>1, <2>5 DEF AwaitSignal, Release, segment
  <2>6. ASSUME NEW p \in Producers, \/ GetBuffer(p) \/ Lock(p) \/ Unlock(p) \/ Signal(p)
                                     \/ Fault(p)
                                     \/ \E e \in Elements : Push(p, e)
        PROVE  Fifo!FifoNext
    <3>1. UNCHANGED <<buf, read_index, size, out>>
      BY <2>6 DEF GetBuffer, Lock, Unlock, Signal, Fault, WaitInterrupted, LockInterrupted,
                  Kill, Push, segment
    <3>2. QED
      BY <2>1, <3>1
  <2>7. CASE UNCHANGED vars
    BY <2>1, <2>7 DEF vars, segment
  <2>8. QED
    BY <2>2, <2>3, <2>4, <2>5, <2>6, <2>7 DEF Next, Producer, PushStep, Consumer
<1>3. QED
  BY <1>1, <1>2, SemRingInvariant, PTL DEF Spec, ImplementsFifo, Fifo!FifoSpec
=============================================================================
