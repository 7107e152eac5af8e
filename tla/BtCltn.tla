------------------------------- MODULE BtCltn -------------------------------
(***************************************************************************)
(* The collections every program of vel and v6eval is built on, lib/Cm:    *)
(* BtSet, a hash table with linear probing, and BtList, an array with a    *)
(* gap, both an array of pointers (BtArray) with an empty place, 0, where  *)
(* nothing is stored.                                                      *)
(*                                                                         *)
(* The requests, connections and listeners of the manager, the sockets of  *)
(* an agent and the processes of velo are kept in BtSets; statements,      *)
(* threads, events and the threads an event waits for in BtLists.          *)
(***************************************************************************)
EXTENDS Integers, Sequences, FiniteSets, FiniteSetsExt, SequencesExt

CONSTANTS Elements,     \* what is stored
          Key,          \* the key isSame() compares, for each element
          Hashes,       \* the values hashElement() takes
          Sizes,        \* what the constructors are called with
          MaxLen        \* bound on the length of a list

ASSUME BtAssumption ==
  /\ Elements \subseteq Nat \ {0}
  /\ DOMAIN Key = Elements
  /\ Hashes \subseteq Nat /\ Sizes \subseteq Nat /\ MaxLen \in Nat

VARIABLES class,    \* "BtSet" or "BtList"
          hash,     \* hashElement(), by key
          array,    \* elements_, indexed from 0
          num,      \* noOfElements_
          free,     \* free_, of a BtList
          ret       \* what the last operation returned

btVars == <<class, hash, array, num, free, ret>>

noObjectEntry == -1

Keys == {Key[e] : e \in Elements}
Capacity(a) == Cardinality(DOMAIN a)
Empty(c) == [p \in 0 .. c - 1 |-> 0]
Stored(a) == {a[p] : p \in DOMAIN a} \ {0}
isSame(o, e) == o # 0 /\ Key[o] = Key[e]

BtInit ==
  /\ num = 0 /\ free = 0 /\ ret = 0
  /\ \E s \in Sizes :
       \/ /\ class = "BtSet"
          /\ hash \in [Keys -> Hashes]
          /\ array = Empty(IF s > 1 THEN s * 2 ELSE 2)
       \/ /\ class = "BtList"
          /\ hash = [k \in Keys |-> 0]
          /\ array = Empty(s)

-----------------------------------------------------------------------------
(* BtSet                                                                    *)

\* The place of e from its home on: where it is, or the first empty one
findAt(a, e) ==
  LET c == Capacity(a)
      Place(u) == (hash[Key[e]] + u) % c
      hits == {u \in 0 .. c - 1 : a[Place(u)] = 0 \/ isSame(a[Place(u)], e)}
  IN IF hits = {} THEN noObjectEntry ELSE Place(Min(hits))

\* add() of an element whose key is not there, into an array that has room for it
Added(a, o) == IF o = 0 THEN a ELSE [a EXCEPT ![findAt(a, o)] = o]

\* copyElements(): the elements are added again, in the order they were stored in.  The
\* array they are added to does not grow: they were within its limit, or a smaller one's.
CopyUpTo(a, c) ==
  LET upTo[k \in 0 .. Capacity(a)] ==
        IF k = 0 THEN Empty(c) ELSE Added(upTo[k - 1], a[k - 1])
  IN upTo

SetCopy(a, c) == CopyUpTo(a, c)[Capacity(a)]

SetExpanded == IF num * 3 > Capacity(array) * 2
                 THEN SetCopy(array, (Capacity(array) + 1) * 2) ELSE array

\* addIfAbsent(): the array (grown if need be), with e in it if its key was not
addIfAbsent(e) ==
  LET a == SetExpanded
      s == findAt(a, e)
      old == IF s = noObjectEntry THEN 0 ELSE a[s]
      new == old = 0 /\ s # noObjectEntry
  IN [array |-> IF new THEN [a EXCEPT ![s] = e] ELSE a,
      num |-> IF new THEN num + 1 ELSE num,
      slot |-> s,
      elm |-> IF new THEN e ELSE old]

add(e) ==
  /\ class = "BtSet"
  /\ LET r == addIfAbsent(e)
     IN /\ array' = r.array /\ num' = r.num
        /\ ret' = IF r.elm = e THEN e ELSE 0
  /\ UNCHANGED <<class, hash, free>>

\* A mutant: the element that was there is not returned, as in add()
filterOld(e) ==
  /\ class = "BtSet"
  /\ LET r == addIfAbsent(e)
     IN array' = r.array /\ num' = r.num /\ ret' = IF r.elm = e THEN e ELSE 0
  /\ UNCHANGED <<class, hash, free>>

filter(e) ==
  /\ class = "BtSet"
  /\ LET r == addIfAbsent(e)
     IN array' = r.array /\ num' = r.num /\ ret' = r.elm
  /\ UNCHANGED <<class, hash, free>>

replace(e) ==
  /\ class = "BtSet"
  /\ LET r == addIfAbsent(e)
     IN /\ array' = IF r.elm = 0 THEN r.array ELSE [r.array EXCEPT ![r.slot] = e]
        /\ num' = r.num
        /\ ret' = IF r.elm = e THEN 0 ELSE r.elm
  /\ UNCHANGED <<class, hash, free>>

\* A mutant: the end of the array is forgotten
MovesNoWrap(at, i, h) == h <= at

\* rehash(): the elements behind the place that became empty, up to the next
\* empty one, move into it unless their home lies behind it.  The places are
\* visited in order, around the end of the array.
Moves(at, i, h) == IF at < i THEN h <= at \/ i < h ELSE i < h /\ h <= at

\* The loop's body: at is the place that is empty, i the one visited
Visit(b, i) ==
  LET o == b.array[i]
  IN IF b.stop \/ o = 0 THEN [b EXCEPT !.stop = TRUE]
     ELSE IF Moves(b.at, i, hash[Key[o]] % Capacity(b.array))
       THEN [b EXCEPT !.array = [@ EXCEPT ![b.at] = o, ![i] = 0], !.at = i]
       ELSE b

VisitUpTo(a, n) ==
  LET upTo[k \in 0 .. Capacity(a) - 1] ==
        IF k = 0 THEN [array |-> a, at |-> n, stop |-> FALSE]
        ELSE Visit(upTo[k - 1], (n + k) % Capacity(a))
  IN upTo

rehash(a, n) == VisitUpTo(a, n)[Capacity(a) - 1].array

remove(e) ==
  /\ class = "BtSet"
  /\ LET s == findAt(array, e)
         old == IF s = noObjectEntry THEN 0 ELSE array[s]
     IN /\ ret' = old
        /\ IF old = 0
             THEN UNCHANGED <<array, num>>
             ELSE /\ array' = rehash([array EXCEPT ![s] = 0], s)
                  /\ num' = num - 1
  /\ UNCHANGED <<class, hash, free>>

find(e) ==
  /\ class = "BtSet"
  /\ LET s == findAt(array, e)
     IN ret' = IF s = noObjectEntry THEN 0 ELSE array[s]
  /\ UNCHANGED <<class, hash, array, num, free>>

-----------------------------------------------------------------------------
(* BtList.  The first free_ elements are at the left end of the array, the  *)
(* others at its right end.                                                 *)

rightPosition(a, n, i) == i + Capacity(a) - n

position(i) == IF i < free THEN i ELSE rightPosition(array, num, i)

\* The elements at the places from are at the places to, and leave zeroes behind
Move(a, from, to) ==
  [p \in DOMAIN a |->
     IF \E i \in DOMAIN to : to[i] = p THEN a[from[CHOOSE i \in DOMAIN to : to[i] = p]]
     ELSE IF \E i \in DOMAIN from : from[i] = p THEN 0
     ELSE a[p]]

\* The elements of a range of indexes are moved across the gap, one after the other in
\* the order in which none is overwritten before it was moved
leftToRight(a, n, range) ==
  Move(a, [i \in range |-> i], [i \in range |-> rightPosition(a, n, i)])
rightToLeft(a, n, range) ==
  Move(a, [i \in range |-> rightPosition(a, n, i)], [i \in range |-> i])

\* The array with the gap moved: i elements are at its left end then
GapAt(a, n, f, i) ==
  IF i < f THEN leftToRight(a, n, i .. f - 1) ELSE rightToLeft(a, n, f .. i - 1)

\* What is stored, in the order of the places
InOrderUpTo(a) ==
  LET upTo[k \in 0 .. Capacity(a)] ==
        IF k = 0 THEN <<>>
        ELSE IF a[k - 1] = 0 THEN upTo[k - 1] ELSE Append(upTo[k - 1], a[k - 1])
  IN upTo

\* append() into an array with room, which copyElements() does for each element
ListCopy(a, c) ==
  LET s == InOrderUpTo(a)[Capacity(a)]
  IN [p \in 0 .. c - 1 |-> IF p < Len(s) THEN s[p + 1] ELSE 0]

\* A mutant: the gap is taken to be where it was before the array grew
insertStale(i, e) ==
  /\ class = "BtList" /\ i <= num /\ num < MaxLen
  /\ LET a == IF num >= Capacity(array)
                THEN ListCopy(array, (Capacity(array) + 1) * 2) ELSE array
     IN array' = [GapAt(a, num, free, i) EXCEPT ![i] = e]
  /\ free' = i + 1 /\ num' = num + 1 /\ ret' = e
  /\ UNCHANGED <<class, hash>>

insert(i, e) ==
  /\ class = "BtList" /\ i <= num /\ num < MaxLen
  /\ LET grown == num >= Capacity(array)
         a == IF grown THEN ListCopy(array, (Capacity(array) + 1) * 2) ELSE array
         f == IF grown THEN num ELSE free
     IN array' = [GapAt(a, num, f, i) EXCEPT ![i] = e]
  /\ free' = i + 1 /\ num' = num + 1 /\ ret' = e
  /\ UNCHANGED <<class, hash>>

removeAt(i) ==
  /\ class = "BtList" /\ i < num
  /\ ret' = array[position(i)]
  /\ LET a == [array EXCEPT ![position(i)] = 0]
     IN array' = IF num >= Capacity(a) THEN a
                 ELSE IF i < free THEN leftToRight(a, num, i + 1 .. free - 1)
                 ELSE rightToLeft(a, num, free .. i - 1)
  /\ free' = i /\ num' = num - 1
  /\ UNCHANGED <<class, hash>>

index(i) ==
  /\ class = "BtList" /\ i < num
  /\ ret' = array[position(i)]
  /\ UNCHANGED <<class, hash, array, num, free>>

-----------------------------------------------------------------------------
\* The copy constructors; the copy takes the place of the original
copy ==
  /\ array' = IF class = "BtSet" THEN SetCopy(array, Capacity(array))
              ELSE ListCopy(array, Capacity(array))
  /\ free' = IF class = "BtSet" THEN free ELSE num
  /\ UNCHANGED <<class, hash, num, ret>>

BtNext ==
  \/ \E e \in Elements : add(e) \/ filter(e) \/ replace(e) \/ remove(e) \/ find(e)
  \/ \E i \in 0 .. MaxLen :
       removeAt(i) \/ index(i) \/ \E e \in Elements : insert(i, e)
  \/ copy

BtSpec == BtInit /\ [][BtNext]_btVars

-----------------------------------------------------------------------------
\* The kinds of the state; the gap of a list lies within its elements (BtList::removeAt)
BtTypeOK ==
  /\ class \in {"BtSet", "BtList"}
  /\ hash \in [Keys -> Hashes \cup {0}]
  /\ DOMAIN array = 0 .. Capacity(array) - 1
  /\ Stored(array) \subseteq Elements
  /\ num \in 0 .. Capacity(array) /\ free \in 0 .. num
  /\ ret \in Elements \cup {0}

(* Every element of a set is found from its home: no place between the two *)
(* is empty and none holds an equal element, whatever was removed, replaced *)
(* or moved to a larger array before (BtSet::findAt, rehash, expand); and   *)
(* the array is never full when an element is added.                        *)
ProbeChains ==
  class = "BtSet" =>
    /\ \A p \in DOMAIN array : array[p] # 0 => findAt(array, array[p]) = p
    /\ num = Cardinality({p \in DOMAIN array : array[p] # 0})
    /\ \E p \in DOMAIN SetExpanded : SetExpanded[p] = 0

\* What is stored, without its places
Content == IF class = "BtSet" THEN Stored(array)
           ELSE [i \in 1 .. num |-> array[position(i - 1)]]

Abstract == INSTANCE Cltn WITH content <- Content

(* A BtSet is a set with one element per key and a BtList a sequence: what  *)
(* an operation does to it, and returns, is what one of the operations of   *)
(* the abstract collection does.                                            *)
ImplementsCltn == Abstract!CltnSpec

(* And it is the one meant, for that element and at that index              *)
(* (BtSet::add, filter, replace, remove and find; BtList::insert, removeAt  *)
(* and index): an insertion beside the index, or a filter that returns what *)
(* add does, is none of the others by chance.                               *)
OperationsMatch ==
  [][/\ \A e \in Elements : /\ add(e) => Abstract!Add(e)
                            /\ filter(e) => Abstract!Filter(e)
                            /\ replace(e) => Abstract!Replace(e)
                            /\ remove(e) => Abstract!Discard(e)
                            /\ find(e) => Abstract!Find(e)
     /\ \A i \in 0 .. MaxLen : /\ removeAt(i) => Abstract!Take(i)
                               /\ index(i) => Abstract!Index(i)
                               /\ \A e \in Elements : insert(i, e) => Abstract!Insert(i, e)]_btVars
=============================================================================
