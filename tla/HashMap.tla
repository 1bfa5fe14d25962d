------------------------------ MODULE HashMap ------------------------------
(***************************************************************************)
(* libfdu-utils/hash_map.c: the table from keys to objects that libnts,    *)
(* the monitor and the proxy look connections, sockets and ports up in.    *)
(*                                                                         *)
(* All the maps are created with the default hash and equality, which read *)
(* the bytes of a key up to the first zero as a C string: text gives that  *)
(* string, and keys with the same text (the socket ids 256 and 512, say)   *)
(* are one key to the map.                                                 *)
(*                                                                         *)
(* One thread calls Put and Remove, and lookups come between its calls.    *)
(* The map has no lock, and the programs look keys up in other threads in  *)
(* the middle of a call as well, where they may meet freed nodes, the old  *)
(* array with the new size, or a key with another's value: nothing is said *)
(* here of those, so a call is one step up to resetHashMap, whose          *)
(* rebuilding is taken apart because each put in it could start another.   *)
(***************************************************************************)
EXTENDS Integers, SequencesExt

CONSTANTS Keys, Values,
          text, hash,   \* what a key's bytes read as; the hash of that
          MinListSize,  \* resetHashMap does not go below this size (8)
          DEFAULT_HASHMAP_SIZE,
          NULL

ASSUME SizeAssumption ==
    /\ MinListSize \in Nat /\ MinListSize >= 2
    /\ DEFAULT_HASHMAP_SIZE \in Nat /\ DEFAULT_HASHMAP_SIZE >= MinListSize

VARIABLES
    list,      \* the chains; the first entry of a chain is in the array itself
    size,      \* the number of entries as the map counts them
    pc,        \* "idle", or the step of resetHashMap
    listSize,  \* the size resetHashMap was asked for
    tempList,  \* the entries it has still to store again
    stored,    \* history: what a map from texts to values would hold
    misplaced  \* history: a value was stored in another key's entry

vars == <<list, size, pc, listSize, tempList, stored, misplaced>>

Texts == {text[k] : k \in Keys}

Entries == [key : Keys, value : Values]

EmptyList(n) == [i \in 1 .. n |-> <<>>]

\* createHashMap
Init ==
    /\ list = EmptyList(DEFAULT_HASHMAP_SIZE)
    /\ size = 0
    /\ pc = "idle"
    /\ listSize = DEFAULT_HASHMAP_SIZE
    /\ tempList = <<>>
    /\ stored = [t \in Texts |-> NULL]
    /\ misplaced = FALSE

defaultEqual(k1, k2) == text[k1] = text[k2]

defaultHashCode(l, k) == (hash[text[k]] % Len(l)) + 1

\* The places of a chain whose key is equal to k.
Places(chain, k) == {j \in DOMAIN chain : defaultEqual(chain[j].key, k)}

defaultExists(l, k) == Places(l[defaultHashCode(l, k)], k) # {}

defaultGet(k) ==
    LET chain == list[defaultHashCode(list, k)]
    IN  IF defaultExists(list, k) THEN chain[Min(Places(chain, k))].value ELSE NULL

-----------------------------------------------------------------------------
(* put and remove on the chains                                            *)

\* A new entry goes behind the first one of its chain.  An equal key found
\* anywhere in the chain has the value stored in the chain's first entry.
ChainWith(chain, e) ==
    IF chain = <<>> THEN <<e>>
    ELSE IF Places(chain, e.key) # {} THEN [chain EXCEPT ![1].value = e.value]
    ELSE <<Head(chain), e>> \o Tail(chain)

WithEntry(l, e) == [l EXCEPT ![defaultHashCode(l, e.key)] = ChainWith(@, e)]

ChainWithoutHead(chain, k) == Tail(chain)

\* Removing the first entry copies the second one into its place.
ChainWithout(chain, k) == RemoveAt(chain, Min(Places(chain, k)))

StartResetAnySize(n) ==
    /\ pc' = "clear"
    /\ listSize' = n
    /\ tempList' = SubSeq(FlattenSeq(list'), 1, size')

\* resetHashMap(n) is called: it collects the entries in the iterator's order.
StartReset(n) ==
    /\ pc' = IF n < MinListSize THEN "idle" ELSE "clear"
    /\ listSize' = n
    /\ tempList' = IF n < MinListSize THEN <<>> ELSE SubSeq(FlattenSeq(list'), 1, size')

NoReset == pc' = "idle" /\ UNCHANGED <<listSize, tempList>>

GrowsLate(n) == IF n > Len(list) THEN StartReset(2 * Len(list)) ELSE NoReset

\* The table grows when it has as many entries as chains.
Grows(n) == IF n >= Len(list) THEN StartReset(2 * Len(list)) ELSE NoReset

defaultPut(k, v) ==
    LET e == [key |-> k, value |-> v]
        chain == list[defaultHashCode(list, k)]
    IN  /\ pc = "idle"
        /\ list' = WithEntry(list, e)
        /\ stored' = [stored EXCEPT ![text[k]] = v]
        /\ \/ /\ defaultExists(list, k)
              /\ size' = size
              /\ misplaced' = (misplaced \/ 1 \notin Places(chain, k))
              /\ UNCHANGED <<pc, listSize, tempList>>
           \/ /\ ~defaultExists(list, k)
              /\ size' = size + 1
              /\ misplaced' = misplaced
              /\ Grows(size')

\* A key that is not there changes nothing.  The table shrinks when it is less
\* than half used.
defaultRemove(k) ==
    /\ pc = "idle"
    /\ defaultExists(list, k)
    /\ list' = [list EXCEPT ![defaultHashCode(list, k)] = ChainWithout(@, k)]
    /\ size' = size - 1
    /\ IF size' < Len(list) \div 2 THEN StartReset(Len(list) \div 2) ELSE NoReset
    /\ stored' = [stored EXCEPT ![text[k]] = NULL]
    /\ misplaced' = misplaced

-----------------------------------------------------------------------------
(* resetHashMap, after it has collected the entries                        *)

ClearKeepsSize ==
    /\ pc = "clear"
    /\ list' = EmptyList(listSize)
    /\ pc' = IF tempList = <<>> THEN "idle" ELSE "store"
    /\ UNCHANGED <<size, listSize, tempList, stored, misplaced>>

\* The chains are freed, the array is resized and set to empty.
ResetClear ==
    /\ pc = "clear"
    /\ list' = EmptyList(listSize)
    /\ size' = 0
    /\ pc' = IF tempList = <<>> THEN "idle" ELSE "store"
    /\ UNCHANGED <<listSize, tempList, stored, misplaced>>

\* One put for each entry.  It never makes the table grow again: RoomLeft.
ResetStore ==
    /\ pc = "store"
    /\ list' = WithEntry(list, Head(tempList))
    /\ size' = IF defaultExists(list, Head(tempList).key) THEN size ELSE size + 1
    /\ tempList' = Tail(tempList)
    /\ pc' = IF tempList' = <<>> THEN "idle" ELSE "store"
    /\ UNCHANGED <<listSize, stored, misplaced>>

-----------------------------------------------------------------------------

Next ==
    \/ ResetClear \/ ResetStore
    \/ \E k \in Keys : defaultRemove(k) \/ \E v \in Values : defaultPut(k, v)

Spec == Init /\ [][Next]_vars

-----------------------------------------------------------------------------

\* Chains of entries, and counters; the table is never smaller than the least
\* size.
TypeOK ==
    /\ list \in Seq(Seq(Entries)) /\ Len(list) >= MinListSize
    /\ size \in Nat
    /\ pc \in {"idle", "clear", "store"}
    /\ listSize \in Nat
    /\ tempList \in Seq(Entries)
    /\ stored \in [Texts -> Values \cup {NULL}]
    /\ misplaced \in BOOLEAN

\* Between the calls, the map holds exactly the keys that were put and not
\* removed, whatever chains they have been in and however often the table was
\* rebuilt; and a lookup finds the value last put under the key, until a Put
\* under a key that is further down its chain has stored the value in the
\* chain's first entry, under another key.
GetRight ==
    pc = "idle" =>
        \A k \in Keys : /\ defaultExists(list, k) <=> stored[text[k]] # NULL
                        /\ ~misplaced => defaultGet(k) = stored[text[k]]

\* hashMap->size, which stops the iterator that resetHashMap copies the
\* entries with, is the number of entries in the chains: the copy is complete.
SizeCountsEntries ==
    /\ size = Len(FlattenSeq(list))
    /\ pc = "clear" => Len(tempList) = size

\* Outside of resetHashMap, and while it puts the entries back, there are
\* fewer entries than chains: the puts inside of resetHashMap do not start
\* another reset, which would free the array under the first.
RoomLeft == pc # "clear" => size < Len(list)
=============================================================================
