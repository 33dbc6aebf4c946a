----------------------------- MODULE IndexedList -----------------------------
(***************************************************************************)
(* The enumerable set every registry of the protocol keeps: an array of    *)
(* its members and a mapping from a member to its position plus one, so    *)
(* that a member is removed in constant time by moving the last one into   *)
(* its place ("swap and pop").  A list is a record, since each registry    *)
(* holds one or more of them.  Sequences count from 1, so the stored       *)
(* "index plus one" of the code is the index of the sequence, 0 absent.    *)
(***************************************************************************)
EXTENDS Integers, Sequences

\* All lists whose members are drawn from S.
IndexedListsOf(S) == [items : Seq(S), index : [S -> Nat]]

EmptyList(S) == [items |-> << >>, index |-> [x \in S |-> 0]]

Members(l) == {l.items[i] : i \in DOMAIN l.items}

\* The array and the mapping are each other's inverse, hence no member is
\* listed twice and no stale position is left behind.
Consistent(l) ==
    /\ \A i \in DOMAIN l.items : l.index[l.items[i]] = i
    /\ \A x \in DOMAIN l.index :
          l.index[x] # 0 => l.index[x] \in DOMAIN l.items /\ l.items[l.index[x]] = x

PushItem(l, x) ==
    [items |-> Append(l.items, x),
     index |-> [l.index EXCEPT ![x] = Len(l.items) + 1]]

\* Mutant: the member that moved keeps its old position.
SwapAndPopStaleIndex(l, x) ==
    LET n == Len(l.items)
    IN [items |-> SubSeq([l.items EXCEPT ![l.index[x]] = l.items[n]], 1, n - 1),
        index |-> [l.index EXCEPT ![x] = 0]]

\* The last member moves to the position of x, then the array shrinks and the
\* mapping forgets x.  When x is itself the last member nothing moves.
SwapAndPop(l, x) ==
    LET n == Len(l.items)
        last == l.items[n]
        at == l.index[x]
    IN [items |-> SubSeq([l.items EXCEPT ![at] = last], 1, n - 1),
        index |-> [[l.index EXCEPT ![last] = at] EXCEPT ![x] = 0]]

-----------------------------------------------------------------------------
(* Some arrays are kept without the mapping.                               *)

\* The first occurrence is found by a linear search and the last member moves
\* to its place.
RemovedFromList(list, i) ==
    LET at == CHOOSE k \in DOMAIN list :
                 list[k] = i /\ \A j \in 1 .. k - 1 : list[j] # i
    IN SubSeq([list EXCEPT ![at] = list[Len(list)]], 1, Len(list) - 1)

\* The members of a list that are not x, in their order, gathered in a loop.
WithoutItem(list, x) ==
    LET kept[i \in 0 .. Len(list)] ==
            IF i = 0 THEN << >>
            ELSE IF list[i] = x THEN kept[i - 1]
            ELSE Append(kept[i - 1], list[i])
    IN kept[Len(list)]
=============================================================================
