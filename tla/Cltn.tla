-------------------------------- MODULE Cltn --------------------------------
(***************************************************************************)
(* What the collections of lib/Cm promise: a set keeps at most one element *)
(* of a key, the first one added unless it is replaced, and finds it until *)
(* it is removed; a list is a sequence with insertion and removal anywhere.*)
(***************************************************************************)
EXTENDS Naturals, Sequences, SequencesExt

CONSTANTS Elements,     \* what is stored; 0 is the null pointer
          Key           \* the key isSame() compares, for each element

VARIABLES class,        \* "BtSet" or "BtList"
          content,      \* the set, or the sequence
          ret           \* what the last operation returned

cltnVars == <<class, content, ret>>

Same(e) == {o \in content : Key[o] = Key[e]}
OneOf(s) == IF s = {} THEN 0 ELSE CHOOSE o \in s : TRUE

CltnInit ==
  \/ class = "BtSet" /\ content = {} /\ ret = 0
  \/ class = "BtList" /\ content = <<>> /\ ret = 0

-----------------------------------------------------------------------------
(* The operations on a set, for an element e                                *)

OnSet == class = "BtSet" /\ UNCHANGED class

\* The element that e meets; 0: none
Old(e) == OneOf(Same(e))

KeepsFirst(e) == content' = IF Old(e) = 0 THEN content \cup {e} ELSE content

Add(e) == OnSet /\ KeepsFirst(e) /\ ret' = IF Old(e) \in {0, e} THEN e ELSE 0
Filter(e) == OnSet /\ KeepsFirst(e) /\ ret' = IF Old(e) = 0 THEN e ELSE Old(e)
Replace(e) ==
  /\ OnSet
  /\ content' = (content \ Same(e)) \cup {e}
  /\ ret' = IF Old(e) = e THEN 0 ELSE Old(e)
Discard(e) == OnSet /\ content' = content \ Same(e) /\ ret' = Old(e)
Find(e) == OnSet /\ content' = content /\ ret' = Old(e)

-----------------------------------------------------------------------------
(* The operations on a list, at index i                                     *)

OnList == class = "BtList" /\ UNCHANGED class

Insert(i, e) ==
  /\ OnList /\ i <= Len(content)
  /\ content' = InsertAt(content, i + 1, e) /\ ret' = e
Take(i) ==
  /\ OnList /\ i < Len(content)
  /\ content' = RemoveAt(content, i + 1) /\ ret' = content[i + 1]
Index(i) ==
  /\ OnList /\ i < Len(content)
  /\ content' = content /\ ret' = content[i + 1]

-----------------------------------------------------------------------------
CltnNext ==
  \/ \E e \in Elements : Add(e) \/ Filter(e) \/ Replace(e) \/ Discard(e) \/ Find(e)
  \/ /\ class = "BtList"
     /\ \E i \in 0 .. Len(content) : Take(i) \/ Index(i) \/ \E e \in Elements : Insert(i, e)

CltnSpec == CltnInit /\ [][CltnNext]_cltnVars
=============================================================================
