------------------------------ MODULE ListDemo ------------------------------
(***************************************************************************)
(* The linked list demo, 02.base/3.list: loading the module runs its calls *)
(* of list_head one after another, on a list of persons and a second one   *)
(* that is merged into it.  The links are modelled as they are stored:     *)
(* next and prev of every head and of every person.                        *)
(***************************************************************************)
EXTENDS Integers, FiniteSets, Sequences

VARIABLES
    step,   \* the call m_chr_init comes to
    next, prev,
    mem     \* the persons that are allocated

vars == <<step, next, prev, mem>>

\* person_list_head and extra_list; a person is known by its id.
PersonList == 0
ExtraList  == 1
Heads   == {PersonList, ExtraList}
Persons == {10, 20, 30, 40, 300, 400}
Nodes   == Heads \cup Persons
\* LIST_POISON1 and 2 of a deleted entry, or what kmalloc leaves there
Poison == -1

\* The order of the calls.
Calls == <<"init_list", "tail 20", "tail 40", "head 10", "sorted 30", "delete 40",
           "move", "merge 300", "merge 400", "splice", "empty extra", "clear", "return">>
At(call) == CHOOSE i \in 1..Len(Calls) : Calls[i] = call
Done == step' = Calls[At(step) + 1]

\* extra_list is a static list head, empty when the module is loaded.
Init ==
    /\ step = "init_list"
    /\ next = [n \in Nodes |-> IF n = ExtraList THEN n ELSE Poison]
    /\ prev = next
    /\ mem = {}

-----------------------------------------------------------------------------
(* Walking a list                                                          *)

\* The k-th node that list_for_each_entry comes to, the head included.
Walk(h) ==
    LET node[k \in 0..Cardinality(Nodes)] ==
            IF k = 0 THEN h
            ELSE IF node[k-1] \in Nodes THEN next[node[k-1]] ELSE Poison
    IN node
\* The first node, from head->next on, that is the head again or one of stop.
FirstNode(h, stop) ==
    LET w == Walk(h)
        stops == {k \in DOMAIN w \ {0} : w[k] \in stop \cup {h}}
    IN w[CHOOSE k \in stops : \A j \in stops : k <= j]
\* The persons of a list, in order.
Entries(h) ==
    LET w == Walk(h)
        last == CHOOSE k \in 0..Cardinality(Nodes) :
                    /\ k > 0 => w[k] \in Persons
                    /\ \A j \in 1..k : w[j] # h
                    /\ k < Cardinality(Nodes) => w[k+1] \notin Persons
    IN [k \in 1..last |-> w[k]]

-----------------------------------------------------------------------------
(* linux/list.h                                                            *)

\* INIT_LIST_HEAD
InitHead(h) == next' = [next EXCEPT ![h] = h] /\ prev' = [prev EXCEPT ![h] = h]

\* __list_add: a new entry between two that follow each other.
ListAdd(n, p, q) ==
    /\ next' = [next EXCEPT ![n] = q, ![p] = n]
    /\ prev' = [prev EXCEPT ![q] = n, ![n] = p]

\* list_del
ListDel(n) ==
    /\ next' = [next EXCEPT ![prev[n]] = next[n], ![n] = Poison]
    /\ prev' = [prev EXCEPT ![next[n]] = prev[n], ![n] = Poison]

\* list_move_tail: the entry is taken out, then added before the head.
ListMoveTail(n, h) ==
    LET nx == [next EXCEPT ![prev[n]] = next[n]]
        pv == [prev EXCEPT ![next[n]] = prev[n]]
    IN /\ next' = [nx EXCEPT ![pv[h]] = n, ![n] = h]
       /\ prev' = [pv EXCEPT ![h] = n, ![n] = pv[h]]

\* list_splice_tail, which leaves the links of the emptied head alone
ListSpliceTail(l, h) ==
    IF next[l] = l THEN UNCHANGED <<next, prev>>
    ELSE /\ next' = [next EXCEPT ![prev[h]] = next[l], ![prev[l]] = h]
         /\ prev' = [prev EXCEPT ![next[l]] = prev[h], ![h] = prev[l]]

-----------------------------------------------------------------------------
(* The calls of the demo                                                   *)

InitList == step = "init_list" /\ Done /\ InitHead(PersonList) /\ UNCHANGED mem

\* kmalloc fails: the person is not added, and nobody is told.
AllocFails(calls) == step \in calls /\ Done /\ UNCHANGED <<next, prev, mem>>
Alloc(n) == mem' = mem \cup {n}

AddPersonTail(h, id) == Alloc(id) /\ ListAdd(id, prev[h], h)
AddPersonHead(h, id) == Alloc(id) /\ ListAdd(id, h, next[h])

\* Variant: list_add in place of list_add_tail puts it behind the larger id.
InsertPersonAfter(h, id) ==
    LET p == FirstNode(h, {n \in Persons : id < n}) IN Alloc(id) /\ ListAdd(id, p, next[p])
\* Before the first person with a larger id, or at the end.
InsertPersonSorted(h, id) ==
    LET p == FirstNode(h, {n \in Persons : id < n}) IN Alloc(id) /\ ListAdd(id, prev[p], p)

\* list_del and kfree of the person with the id, if there is one.
DeletePersonById(h, id) ==
    LET p == FirstNode(h, {id})
    IN IF p = h THEN UNCHANGED <<next, prev, mem>>
       ELSE ListDel(p) /\ mem' = mem \ {p}

MoveHeadToTail(h) ==
    /\ IF next[h] = h THEN UNCHANGED <<next, prev>> ELSE ListMoveTail(next[h], h)
    /\ UNCHANGED mem

\* merge_lists_demo: two persons on extra_list, ...
MergeAdd(id) == AddPersonTail(ExtraList, id)
\* ... which is spliced to the end of the list ...
MergeSplice(h) == ListSpliceTail(ExtraList, h) /\ UNCHANGED mem
\* Variant: the emptied list keeps pointing into the other.
MergeNotEmptied == UNCHANGED <<next, prev, mem>>
\* ... and emptied.
MergeEmpties == InitHead(ExtraList) /\ UNCHANGED mem

\* clear_list, one person at a time; the next one is known before this one
\* is freed.
ClearOne(h) ==
    /\ step = "clear" /\ next[h] # h
    /\ ListDel(next[h]) /\ mem' = mem \ {next[h]}
    /\ UNCHANGED step
ClearEnds(h) ==
    step = "clear" /\ next[h] = h /\ Done /\ UNCHANGED <<next, prev, mem>>

\* m_chr_init, from init_list on
Call(call, A) == step = call /\ Done /\ A
Next ==
    \/ InitList
    \/ AllocFails({"tail 20", "tail 40", "head 10", "sorted 30", "merge 300", "merge 400"})
    \/ Call("tail 20", AddPersonTail(PersonList, 20))
    \/ Call("tail 40", AddPersonTail(PersonList, 40))
    \/ Call("head 10", AddPersonHead(PersonList, 10))
    \/ Call("sorted 30", InsertPersonSorted(PersonList, 30))
    \/ Call("delete 40", DeletePersonById(PersonList, 40))
    \/ Call("move", MoveHeadToTail(PersonList))
    \/ Call("merge 300", MergeAdd(300))
    \/ Call("merge 400", MergeAdd(400))
    \/ Call("splice", MergeSplice(PersonList))
    \/ Call("empty extra", MergeEmpties)
    \/ ClearOne(PersonList)
    \/ ClearEnds(PersonList)

Spec == Init /\ [][Next]_vars

-----------------------------------------------------------------------------
(* Properties                                                              *)

TypeOK ==
    /\ step \in {Calls[i] : i \in 1..Len(Calls)}
    /\ next \in [Nodes -> Nodes \cup {Poison}]
    /\ prev \in [Nodes -> Nodes \cup {Poison}]
    /\ mem \subseteq Persons

Reached(h) == LET w == Walk(h) IN {w[k] : k \in DOMAIN w} \ {h}

\* Each list is a ring, the same forwards and backwards, and an allocated
\* person is on exactly one of them: a walk in either direction ends, visits
\* no freed memory and misses nobody.  (Between the splice and the clearing
\* of extra_list its stale links show into the other list.)
Rings ==
    step \notin {"init_list", "empty extra"} =>
        /\ \A x \in Heads \cup mem : next[x] \in Nodes /\ prev[next[x]] = x
        /\ Reached(PersonList) \cup Reached(ExtraList) = mem
        /\ Reached(PersonList) \cap Reached(ExtraList) = {}

\* insert_person_sorted leaves the list sorted, whoever is on it.
Sorted ==
    step = "delete 40" =>
        LET e == Entries(PersonList) IN \A i, j \in DOMAIN e : i < j => e[i] < e[j]

\* The demo returns every person it has allocated.
AllFreed == step = "return" => mem = {}
=============================================================================
