-------------------------- MODULE DataDemosProofs ---------------------------
(***************************************************************************)
(* Inductive invariants of the demos of data structures: the linked list   *)
(* (L), the kfifo (K), the buffers (B) and the atomic operations (A).      *)
(* Each holds at the start (...Start), is kept by every step of its demo   *)
(* (...Step) and implies the properties of the demo (...Sound).            *)
(* DriverDemosProofs puts them together.                                   *)
(***************************************************************************)
EXTENDS DataDemos, SequenceTheorems, FiniteSetTheorems, TLAPS

(* Rings of list_head: the head h and the entries of a set are linked in a *)
(* circle, the same forwards and backwards, and no part of the entries is  *)
(* a circle of its own: a set of entries that next does not leave is       *)
(* empty.                                                                  *)
Ring(h, E, nx, pv) ==
    /\ h \notin E
    /\ \A x \in E \cup {h} : /\ nx[x] \in E \cup {h} /\ pv[x] \in E \cup {h}
                             /\ pv[nx[x]] = x /\ nx[pv[x]] = x
    /\ \A U \in SUBSET E : (\A x \in U : nx[x] \in U) => U = {}

\* A head that points to itself is a ring of nobody, and the only one whose
\* head does.
LEMMA RingOfHead ==
    ASSUME NEW h, NEW nx, NEW pv, nx[h] = h, pv[h] = h
    PROVE  Ring(h, {}, nx, pv)
BY DEF Ring

\* A head that points to itself is the head of an empty ring.
LEMMA RingEmpty ==
    ASSUME NEW h, NEW E, NEW nx, NEW pv, Ring(h, E, nx, pv), nx[h] = h
    PROVE  E = {}
<1>1. \A x \in E : nx[x] \in E
  BY DEF Ring
<1> QED  BY <1>1 DEF Ring

\* A ring depends on the links of its own entries only.
LEMMA RingKept ==
    ASSUME NEW h, NEW E, NEW nx, NEW pv, NEW nx2, NEW pv2, Ring(h, E, nx, pv),
           \A x \in E \cup {h} : nx2[x] = nx[x] /\ pv2[x] = pv[x]
    PROVE  Ring(h, E, nx2, pv2)
<1>1. \A x \in E \cup {h} : /\ nx2[x] \in E \cup {h} /\ pv2[x] \in E \cup {h}
                            /\ pv2[nx2[x]] = x /\ nx2[pv2[x]] = x
  BY DEF Ring
<1>2. ASSUME NEW U \in SUBSET E, \A x \in U : nx2[x] \in U PROVE U = {}
  BY <1>2 DEF Ring
<1> QED  BY <1>1, <1>2 DEF Ring

\* __list_add of a new entry n between p and q keeps the ring.
LEMMA RingAdd ==
    ASSUME NEW h, NEW E, NEW nx, NEW pv, NEW nx2, NEW pv2, NEW n, NEW p, NEW q,
           Ring(h, E, nx, pv), n \notin E \cup {h}, p \in E \cup {h}, q = nx[p],
           nx2[n] = q, nx2[p] = n, \A x \in (E \cup {h}) \ {p} : nx2[x] = nx[x],
           pv2[q] = n, pv2[n] = p, \A x \in (E \cup {h}) \ {q} : pv2[x] = pv[x]
    PROVE  Ring(h, E \cup {n}, nx2, pv2)
<1>1. q \in E \cup {h} /\ pv[q] = p
  BY DEF Ring
<1>2. ASSUME NEW x \in E \cup {n} \cup {h}
      PROVE  /\ nx2[x] \in E \cup {n} \cup {h} /\ pv2[x] \in E \cup {n} \cup {h}
             /\ pv2[nx2[x]] = x /\ nx2[pv2[x]] = x
  <2>1. CASE x = n
    BY <1>1, <2>1
  <2>2. CASE x # n
    <3>0. x \in E \cup {h}
      BY <2>2
    <3>1. /\ nx[x] \in E \cup {h} /\ pv[x] \in E \cup {h}
          /\ pv[nx[x]] = x /\ nx[pv[x]] = x
      BY <3>0 DEF Ring
    <3>2. nx2[x] \in E \cup {n} \cup {h} /\ pv2[nx2[x]] = x
      <4>1. CASE x = p
        BY <4>1, <1>1
      <4>2. CASE x # p
        BY <3>0, <3>1, <4>2, <1>1
      <4> QED  BY <4>1, <4>2
    <3>3. pv2[x] \in E \cup {n} \cup {h} /\ nx2[pv2[x]] = x
      <4>1. CASE x = q
        BY <4>1, <1>1
      <4>2. CASE x # q
        BY <3>0, <3>1, <4>2, <1>1
      <4> QED  BY <4>1, <4>2
    <3> QED  BY <3>2, <3>3
  <2> QED  BY <2>1, <2>2
<1>3. ASSUME NEW U \in SUBSET (E \cup {n}), \A x \in U : nx2[x] \in U PROVE U = {}
  <2>1. \A x \in U \ {n} : nx[x] \in U \ {n}
    <3>1. SUFFICES ASSUME NEW x \in U \ {n} PROVE nx[x] \in U \ {n}
      OBVIOUS
    <3>2. x \in E /\ nx[x] \in E \cup {h} /\ h \notin U
      BY DEF Ring
    <3>3. CASE x # p
      BY <1>3, <3>2, <3>3
    <3>4. CASE x = p
      <4>1. n \in U /\ nx2[n] \in U
        BY <1>3, <3>4
      <4> QED  BY <3>2, <3>4, <4>1
    <3> QED  BY <3>3, <3>4
  <2>2. U \ {n} = {}
    <3>1. U \ {n} \in SUBSET E
      OBVIOUS
    <3> QED  BY <2>1, <3>1 DEF Ring
  <2>3. n \notin U
    <3>1. SUFFICES ASSUME n \in U PROVE FALSE
      OBVIOUS
    <3>2. q \in U /\ q # n
      BY <1>3, <1>1, <3>1
    <3> QED  BY <2>2, <3>2
  <2> QED  BY <2>2, <2>3
<1>4. h \notin E \cup {n}
  BY DEF Ring
<1> QED  BY <1>2, <1>3, <1>4 DEF Ring

\* Taking an entry out keeps the ring of the others.
LEMMA RingDel ==
    ASSUME NEW h, NEW E, NEW nx, NEW pv, NEW nx2, NEW pv2, NEW n \in E,
           Ring(h, E, nx, pv),
           nx2[pv[n]] = nx[n], \A x \in (E \cup {h}) \ {n, pv[n]} : nx2[x] = nx[x],
           pv2[nx[n]] = pv[n], \A x \in (E \cup {h}) \ {n, nx[n]} : pv2[x] = pv[x]
    PROVE  Ring(h, E \ {n}, nx2, pv2)
<1>1. /\ nx[n] \in E \cup {h} /\ pv[n] \in E \cup {h} /\ pv[nx[n]] = n /\ nx[pv[n]] = n /\ h # n
  BY DEF Ring
<1>2. nx[n] # n /\ pv[n] # n
  <2>1. SUFFICES ASSUME nx[n] = n PROVE FALSE
    BY <1>1
  <2>2. {n} \in SUBSET E /\ \A x \in {n} : nx[x] \in {n}
    BY <2>1
  <2>3. {n} = {}
    BY <2>2, Zenon DEF Ring
  <2> QED  BY <2>3
<1>3. ASSUME NEW x \in (E \ {n}) \cup {h}
      PROVE  /\ nx2[x] \in (E \ {n}) \cup {h} /\ pv2[x] \in (E \ {n}) \cup {h}
             /\ pv2[nx2[x]] = x /\ nx2[pv2[x]] = x
  <2>0. /\ nx[x] \in E \cup {h} /\ pv[x] \in E \cup {h} /\ pv[nx[x]] = x /\ nx[pv[x]] = x
        /\ x # n /\ x \in E \cup {h}
    BY <1>1 DEF Ring
  <2>1. nx2[x] \in (E \ {n}) \cup {h} /\ pv2[nx2[x]] = x
    <3>1. CASE x = pv[n]
      BY <1>1, <1>2, <3>1
    <3>2. CASE x # pv[n]
      BY <1>1, <1>2, <2>0, <3>2
    <3> QED  BY <3>1, <3>2
  <2>2. pv2[x] \in (E \ {n}) \cup {h} /\ nx2[pv2[x]] = x
    <3>1. CASE x = nx[n]
      BY <1>1, <1>2, <3>1
    <3>2. CASE x # nx[n]
      BY <1>1, <1>2, <2>0, <3>2
    <3> QED  BY <3>1, <3>2
  <2> QED  BY <2>1, <2>2
<1>4. ASSUME NEW U \in SUBSET (E \ {n}), \A x \in U : nx2[x] \in U PROVE U = {}
  <2>1. CASE pv[n] \in U
    <3>1. \A x \in U \cup {n} : nx[x] \in U \cup {n}
      <4>1. ASSUME NEW x \in U, x # pv[n] PROVE nx[x] \in U
        BY <1>4, <4>1
      <4>2. nx[n] \in U
        BY <1>4, <2>1
      <4> QED  BY <4>1, <4>2, <1>1
    <3>2. U \cup {n} \in SUBSET E
      OBVIOUS
    <3>3. U \cup {n} = {}
      BY <3>1, <3>2 DEF Ring
    <3> QED  BY <3>3
  <2>2. CASE pv[n] \notin U
    <3>1. \A x \in U : nx[x] \in U
      BY <1>4, <2>2
    <3> QED  BY <3>1 DEF Ring
  <2> QED  BY <2>1, <2>2
<1>5. h \notin E \ {n}
  BY DEF Ring
<1> QED  BY <1>3, <1>4, <1>5 DEF Ring

\* list_splice_tail makes one ring of two.
LEMMA RingSplice ==
    ASSUME NEW h, NEW E, NEW l, NEW F2, NEW nx, NEW pv, NEW nx2, NEW pv2,
           Ring(h, E, nx, pv), Ring(l, F2, nx, pv), (E \cup {h}) \cap (F2 \cup {l}) = {},
           nx[l] # l,
           nx2[pv[h]] = nx[l], nx2[pv[l]] = h,
           \A x \in (E \cup {h} \cup F2) \ {pv[h], pv[l]} : nx2[x] = nx[x],
           pv2[nx[l]] = pv[h], pv2[h] = pv[l],
           \A x \in (E \cup F2) \ {nx[l]} : pv2[x] = pv[x]
    PROVE  Ring(h, E \cup F2, nx2, pv2)
<1>1. nx[l] \in F2 /\ pv[l] \in F2 /\ pv[h] \in E \cup {h} /\ nx[pv[h]] = h /\ nx[pv[l]] = l
      /\ pv[nx[l]] = l
  BY DEF Ring
<1>2. h \notin E \cup F2 /\ l \notin F2 /\ l \notin E \cup {h}
  BY DEF Ring
<1>3. ASSUME NEW x \in E \cup F2 \cup {h}
      PROVE  nx2[x] \in E \cup F2 \cup {h} /\ pv2[nx2[x]] = x
  <2>1. CASE x = pv[h]
    BY <1>1, <2>1
  <2>2. CASE x = pv[l]
    BY <1>1, <2>2
  <2>3. CASE x \in E \cup {h} /\ x # pv[h]
    <3>1. nx[x] \in E \cup {h} /\ pv[nx[x]] = x /\ nx2[x] = nx[x]
      BY <1>1, <2>3 DEF Ring
    <3>2. nx[x] # h
      BY <2>3, <3>1
    <3> QED  BY <1>1, <3>1, <3>2
  <2>4. CASE x \in F2 /\ x # pv[l]
    <3>1. nx[x] \in F2 \cup {l} /\ pv[nx[x]] = x /\ nx2[x] = nx[x]
      BY <1>1, <2>4 DEF Ring
    <3>2. nx[x] # l /\ nx[x] # nx[l]
      BY <1>1, <1>2, <2>4, <3>1
    <3> QED  BY <1>1, <3>1, <3>2
  <2> QED  BY <2>1, <2>2, <2>3, <2>4
<1>4. ASSUME NEW x \in E \cup F2 \cup {h}
      PROVE  pv2[x] \in E \cup F2 \cup {h} /\ nx2[pv2[x]] = x
  <2>1. CASE x = h
    BY <1>1, <2>1
  <2>2. CASE x = nx[l]
    BY <1>1, <2>2
  <2>3. CASE x \in E
    <3>1. pv[x] \in E \cup {h} /\ nx[pv[x]] = x /\ pv2[x] = pv[x]
      BY <1>1, <2>3 DEF Ring
    <3>2. pv[x] # pv[h] /\ pv[x] # pv[l]
      BY <1>1, <1>2, <2>3, <3>1
    <3> QED  BY <1>1, <3>1, <3>2
  <2>4. CASE x \in F2 /\ x # nx[l]
    <3>1. pv[x] \in F2 \cup {l} /\ nx[pv[x]] = x /\ pv2[x] = pv[x]
      BY <1>1, <2>4 DEF Ring
    <3>2. pv[x] # l /\ pv[x] # pv[l]
      BY <1>1, <1>2, <2>4, <3>1
    <3> QED  BY <1>1, <3>1, <3>2
  <2> QED  BY <2>1, <2>2, <2>3, <2>4
<1>5. ASSUME NEW U \in SUBSET (E \cup F2), \A x \in U : nx2[x] \in U PROVE U = {}
  <2>1. \A x \in U \cap F2 : nx[x] \in U \cap F2
    <3>1. SUFFICES ASSUME NEW x \in U \cap F2 PROVE nx[x] \in U \cap F2
      OBVIOUS
    <3>2. x # pv[l]
      BY <1>2, <1>5
    <3>3. x # pv[h]
      BY <1>1
    <3>4. nx2[x] = nx[x] /\ nx[x] \in F2 \cup {l}
      BY <3>2, <3>3 DEF Ring
    <3>5. nx[x] \in U
      BY <1>5, <3>4
    <3> QED  BY <1>2, <3>4, <3>5
  <2>2. U \cap F2 = {}
    <3>1. U \cap F2 \in SUBSET F2
      OBVIOUS
    <3> QED  BY <2>1, <3>1 DEF Ring
  <2>3. \A x \in U : nx[x] \in U
    <3>1. SUFFICES ASSUME NEW x \in U PROVE nx[x] \in U
      OBVIOUS
    <3>2. x # pv[h] /\ x # pv[l] /\ x \in E
      BY <1>1, <1>5, <2>2
    <3> QED  BY <1>5, <3>2
  <2>4. U \in SUBSET E
    BY <2>2
  <2> QED  BY <2>3, <2>4 DEF Ring
<1> QED  BY <1>2, <1>3, <1>4, <1>5 DEF Ring

-----------------------------------------------------------------------------
\* The calls of m_chr_init follow one another as Calls has them.
LEMMA ListOrder ==
    /\ L!Calls[L!At("init_list") + 1] = "tail 20"
    /\ L!Calls[L!At("tail 20") + 1] = "tail 40"
    /\ L!Calls[L!At("tail 40") + 1] = "head 10"
    /\ L!Calls[L!At("head 10") + 1] = "sorted 30"
    /\ L!Calls[L!At("sorted 30") + 1] = "delete 40"
    /\ L!Calls[L!At("delete 40") + 1] = "move"
    /\ L!Calls[L!At("move") + 1] = "merge 300"
    /\ L!Calls[L!At("merge 300") + 1] = "merge 400"
    /\ L!Calls[L!At("merge 400") + 1] = "splice"
    /\ L!Calls[L!At("splice") + 1] = "empty extra"
    /\ L!Calls[L!At("empty extra") + 1] = "clear"
    /\ L!Calls[L!At("clear") + 1] = "return"
<1>1. Len(L!Calls) = 13 /\ 1..13 = {1, 2, 3, 4, 5, 6, 7, 8, 9, 10, 11, 12, 13}
  BY DEF L!Calls
<1>2. /\ L!Calls[1] = "init_list" /\ L!Calls[2] = "tail 20" /\ L!Calls[3] = "tail 40"
      /\ L!Calls[4] = "head 10" /\ L!Calls[5] = "sorted 30" /\ L!Calls[6] = "delete 40"
      /\ L!Calls[7] = "move" /\ L!Calls[8] = "merge 300" /\ L!Calls[9] = "merge 400"
      /\ L!Calls[10] = "splice" /\ L!Calls[11] = "empty extra" /\ L!Calls[12] = "clear"
      /\ L!Calls[13] = "return"
  BY DEF L!Calls
<1>3. ASSUME NEW a \in 1..13, NEW b \in 1..13, L!Calls[a] = L!Calls[b] PROVE a = b
  <2>1. CASE a = 1
    BY <1>1, <1>2, <1>3, <2>1
  <2>2. CASE a = 2
    BY <1>1, <1>2, <1>3, <2>2
  <2>3. CASE a = 3
    BY <1>1, <1>2, <1>3, <2>3
  <2>4. CASE a = 4
    BY <1>1, <1>2, <1>3, <2>4
  <2>5. CASE a = 5
    BY <1>1, <1>2, <1>3, <2>5
  <2>6. CASE a = 6
    BY <1>1, <1>2, <1>3, <2>6
  <2>7. CASE a = 7
    BY <1>1, <1>2, <1>3, <2>7
  <2>8. CASE a = 8
    BY <1>1, <1>2, <1>3, <2>8
  <2>9. CASE a = 9
    BY <1>1, <1>2, <1>3, <2>9
  <2>10. CASE a = 10
    BY <1>1, <1>2, <1>3, <2>10
  <2>11. CASE a = 11
    BY <1>1, <1>2, <1>3, <2>11
  <2>12. CASE a = 12
    BY <1>1, <1>2, <1>3, <2>12
  <2>13. CASE a = 13
    BY <1>1, <1>2, <1>3, <2>13
  <2> QED  BY <1>1, <2>1, <2>2, <2>3, <2>4, <2>5, <2>6, <2>7, <2>8, <2>9, <2>10, <2>11, <2>12, <2>13
<1>4. ASSUME NEW a \in 1..13 PROVE L!At(L!Calls[a]) = a
  <2> DEFINE m == CHOOSE b \in 1..13 : L!Calls[b] = L!Calls[a]
  <2>1. m \in 1..13 /\ L!Calls[m] = L!Calls[a]
    BY Zenon
  <2>2. m = a
    BY <1>3, <2>1, Zenon
  <2> QED  BY <1>1, <2>2, Zenon DEF L!At
<1>5. ASSUME NEW a \in 1..12 PROVE L!Calls[L!At(L!Calls[a]) + 1] = L!Calls[a + 1]
  BY <1>4
<1>6. ASSUME NEW a \in 1..12, NEW b \in Int, b = a + 1
      PROVE  L!Calls[L!At(L!Calls[a]) + 1] = L!Calls[b]
  BY <1>5, <1>6
<1>7. /\ L!Calls[L!At(L!Calls[1]) + 1] = L!Calls[2]
      /\ L!Calls[L!At(L!Calls[2]) + 1] = L!Calls[3]
      /\ L!Calls[L!At(L!Calls[3]) + 1] = L!Calls[4]
      /\ L!Calls[L!At(L!Calls[4]) + 1] = L!Calls[5]
      /\ L!Calls[L!At(L!Calls[5]) + 1] = L!Calls[6]
      /\ L!Calls[L!At(L!Calls[6]) + 1] = L!Calls[7]
      /\ L!Calls[L!At(L!Calls[7]) + 1] = L!Calls[8]
      /\ L!Calls[L!At(L!Calls[8]) + 1] = L!Calls[9]
      /\ L!Calls[L!At(L!Calls[9]) + 1] = L!Calls[10]
      /\ L!Calls[L!At(L!Calls[10]) + 1] = L!Calls[11]
      /\ L!Calls[L!At(L!Calls[11]) + 1] = L!Calls[12]
      /\ L!Calls[L!At(L!Calls[12]) + 1] = L!Calls[13]
  BY <1>6
<1> QED  BY <1>2, <1>7, ZenonT(30)

-----------------------------------------------------------------------------
\* The nodes are as many as the eight numbers they are.
LEMMA ListNodes == L!Nodes = {0, 1, 10, 20, 30, 40, 300, 400} /\ Cardinality(L!Nodes) = 8
<1>1. L!Nodes = {0, 1, 10, 20, 30, 40, 300, 400}
  BY DEF L!Nodes, L!Heads, L!Persons, L!PersonList, L!ExtraList
<1> DEFINE a1 == {0}
           a2 == {0, 1}
           a3 == {0, 1, 10}
           a4 == {0, 1, 10, 20}
           a5 == {0, 1, 10, 20, 30}
           a6 == {0, 1, 10, 20, 30, 40}
           a7 == {0, 1, 10, 20, 30, 40, 300}
           a8 == {0, 1, 10, 20, 30, 40, 300, 400}
<1>2. IsFiniteSet(a1) /\ Cardinality(a1) = 1
  BY FS_Singleton
<1>3. /\ 1 \notin a1 /\ 10 \notin a2 /\ 20 \notin a3 /\ 30 \notin a4 /\ 40 \notin a5
      /\ 300 \notin a6 /\ 400 \notin a7
  OBVIOUS
<1>4. /\ a2 = a1 \cup {1} /\ a3 = a2 \cup {10} /\ a4 = a3 \cup {20} /\ a5 = a4 \cup {30}
      /\ a6 = a5 \cup {40} /\ a7 = a6 \cup {300} /\ a8 = a7 \cup {400}
  OBVIOUS
<1> HIDE DEF a1, a2, a3, a4, a5, a6, a7, a8
<1>0. ASSUME NEW U, IsFiniteSet(U), NEW c \in Nat, Cardinality(U) = c, NEW x, x \notin U,
             NEW T, T = U \cup {x}, NEW d, d = c + 1
      PROVE  IsFiniteSet(T) /\ Cardinality(T) = d
  BY <1>0, FS_AddElement
<1>5. IsFiniteSet(a2) /\ Cardinality(a2) = 2
  <2>1. 1 \in Nat /\ 2 = 1 + 1
    OBVIOUS
  <2> QED  BY <2>1, <1>2, <1>3, <1>4, <1>0
<1>6. IsFiniteSet(a3) /\ Cardinality(a3) = 3
  <2>1. 2 \in Nat /\ 3 = 2 + 1
    OBVIOUS
  <2> QED  BY <2>1, <1>5, <1>3, <1>4, <1>0
<1>7. IsFiniteSet(a4) /\ Cardinality(a4) = 4
  <2>1. 3 \in Nat /\ 4 = 3 + 1
    OBVIOUS
  <2> QED  BY <2>1, <1>6, <1>3, <1>4, <1>0
<1>8. IsFiniteSet(a5) /\ Cardinality(a5) = 5
  <2>1. 4 \in Nat /\ 5 = 4 + 1
    OBVIOUS
  <2> QED  BY <2>1, <1>7, <1>3, <1>4, <1>0
<1>9. IsFiniteSet(a6) /\ Cardinality(a6) = 6
  <2>1. 5 \in Nat /\ 6 = 5 + 1
    OBVIOUS
  <2> QED  BY <2>1, <1>8, <1>3, <1>4, <1>0
<1>10. IsFiniteSet(a7) /\ Cardinality(a7) = 7
  <2>1. 6 \in Nat /\ 7 = 6 + 1
    OBVIOUS
  <2> QED  BY <2>1, <1>9, <1>3, <1>4, <1>0
<1>11. IsFiniteSet(a8) /\ Cardinality(a8) = 8
  <2>1. 7 \in Nat /\ 8 = 7 + 1
    OBVIOUS
  <2> QED  BY <2>1, <1>10, <1>3, <1>4, <1>0
<1> QED  BY <1>1, <1>11 DEF a8

\* A walk over a ring of persons follows next, stays on the ring, and comes to
\* the head again.
LEMMA ListWalk ==
    ASSUME NEW h \in L!Heads, NEW E, E \subseteq {10, 20, 30, 40, 300, 400},
           Ring(h, E, next, prev)
    PROVE  /\ DOMAIN L!Walk(h) = 0..8 /\ L!Walk(h)[0] = h
           /\ \A i \in 1..8 : L!Walk(h)[i] = next[L!Walk(h)[i-1]]
           /\ \A i \in 0..8 : L!Walk(h)[i] \in E \cup {h}
           /\ \E i \in 1..7 : L!Walk(h)[i] = h
<1> DEFINE w1 == next[h]
           w2 == next[w1]
           w3 == next[w2]
           w4 == next[w3]
           w5 == next[w4]
           w6 == next[w5]
           w7 == next[w6]
           w8 == next[w7]
<1>1. \A x \in E \cup {h} : next[x] \in E \cup {h} /\ x \in L!Nodes
  BY ListNodes DEF Ring, L!Heads, L!PersonList, L!ExtraList
<1>2. /\ h \in E \cup {h} /\ h \in L!Nodes
      /\ w1 \in E \cup {h} /\ w1 \in L!Nodes
      /\ w2 \in E \cup {h} /\ w2 \in L!Nodes
      /\ w3 \in E \cup {h} /\ w3 \in L!Nodes
      /\ w4 \in E \cup {h} /\ w4 \in L!Nodes
      /\ w5 \in E \cup {h} /\ w5 \in L!Nodes
      /\ w6 \in E \cup {h} /\ w6 \in L!Nodes
      /\ w7 \in E \cup {h} /\ w7 \in L!Nodes
      /\ w8 \in E \cup {h} /\ w8 \in L!Nodes
  <2>0. h \in E \cup {h} /\ h \in L!Nodes
    BY <1>1
  <2>1. w1 \in E \cup {h} /\ w1 \in L!Nodes
    BY <1>1, <2>0
  <2>2. w2 \in E \cup {h} /\ w2 \in L!Nodes
    BY <1>1, <2>1
  <2>3. w3 \in E \cup {h} /\ w3 \in L!Nodes
    BY <1>1, <2>2
  <2>4. w4 \in E \cup {h} /\ w4 \in L!Nodes
    BY <1>1, <2>3
  <2>5. w5 \in E \cup {h} /\ w5 \in L!Nodes
    BY <1>1, <2>4
  <2>6. w6 \in E \cup {h} /\ w6 \in L!Nodes
    BY <1>1, <2>5
  <2>7. w7 \in E \cup {h} /\ w7 \in L!Nodes
    BY <1>1, <2>6
  <2>8. w8 \in E \cup {h} /\ w8 \in L!Nodes
    BY <1>1, <2>7
  <2> QED  BY <2>0, <2>1, <2>2, <2>3, <2>4, <2>5, <2>6, <2>7, <2>8
<1>3. /\ w1 = next[h] /\ w2 = next[w1] /\ w3 = next[w2] /\ w4 = next[w3]
      /\ w5 = next[w4] /\ w6 = next[w5] /\ w7 = next[w6] /\ w8 = next[w7]
  OBVIOUS
<1> HIDE DEF w1, w2, w3, w4, w5, w6, w7, w8
<1> DEFINE body(f) == [i \in 0..8 |-> IF i = 0 THEN h
                                     ELSE IF f[i-1] \in L!Nodes THEN next[f[i-1]] ELSE L!Poison]
           walk == CHOOSE f : f = body(f)
           found == [i \in 0..8 |-> IF i = 0 THEN h ELSE
                                    IF i = 1 THEN w1 ELSE
                                    IF i = 2 THEN w2 ELSE
                                    IF i = 3 THEN w3 ELSE
                                    IF i = 4 THEN w4 ELSE
                                    IF i = 5 THEN w5 ELSE
                                    IF i = 6 THEN w6 ELSE
                                    IF i = 7 THEN w7 ELSE w8]
<1>4. /\ found[0] = h
      /\ found[1] = w1
      /\ found[2] = w2
      /\ found[3] = w3
      /\ found[4] = w4
      /\ found[5] = w5
      /\ found[6] = w6
      /\ found[7] = w7
      /\ found[8] = w8
  OBVIOUS
<1>5. found = body(found)
  <2>1. ASSUME NEW i \in 0..8
        PROVE  found[i] = IF i = 0 THEN h
                          ELSE IF found[i-1] \in L!Nodes THEN next[found[i-1]] ELSE L!Poison
    <3> HIDE DEF found
    <3>0. CASE i = 0
      BY <1>2, <1>3, <1>4, <3>0
    <3>1. CASE i = 1
      <4>1. i - 1 = 0 /\ i # 0
        BY <3>1
      <4>2. found[i] = w1 /\ found[i-1] = h
        BY <1>4, <3>1, <4>1, Zenon
      <4>3. h \in L!Nodes /\ w1 = next[h]
        BY <1>2, <1>3, Zenon
      <4> QED  BY <4>1, <4>2, <4>3, Zenon
    <3>2. CASE i = 2
      <4>1. i - 1 = 1 /\ i # 0
        BY <3>2
      <4>2. found[i] = w2 /\ found[i-1] = w1
        BY <1>4, <3>2, <4>1, Zenon
      <4>3. w1 \in L!Nodes /\ w2 = next[w1]
        BY <1>2, <1>3, Zenon
      <4> QED  BY <4>1, <4>2, <4>3, Zenon
    <3>3. CASE i = 3
      <4>1. i - 1 = 2 /\ i # 0
        BY <3>3
      <4>2. found[i] = w3 /\ found[i-1] = w2
        BY <1>4, <3>3, <4>1, Zenon
      <4>3. w2 \in L!Nodes /\ w3 = next[w2]
        BY <1>2, <1>3, Zenon
      <4> QED  BY <4>1, <4>2, <4>3, Zenon
    <3>4. CASE i = 4
      <4>1. i - 1 = 3 /\ i # 0
        BY <3>4
      <4>2. found[i] = w4 /\ found[i-1] = w3
        BY <1>4, <3>4, <4>1, Zenon
      <4>3. w3 \in L!Nodes /\ w4 = next[w3]
        BY <1>2, <1>3, Zenon
      <4> QED  BY <4>1, <4>2, <4>3, Zenon
    <3>5. CASE i = 5
      <4>1. i - 1 = 4 /\ i # 0
        BY <3>5
      <4>2. found[i] = w5 /\ found[i-1] = w4
        BY <1>4, <3>5, <4>1, Zenon
      <4>3. w4 \in L!Nodes /\ w5 = next[w4]
        BY <1>2, <1>3, Zenon
      <4> QED  BY <4>1, <4>2, <4>3, Zenon
    <3>6. CASE i = 6
      <4>1. i - 1 = 5 /\ i # 0
        BY <3>6
      <4>2. found[i] = w6 /\ found[i-1] = w5
        BY <1>4, <3>6, <4>1, Zenon
      <4>3. w5 \in L!Nodes /\ w6 = next[w5]
        BY <1>2, <1>3, Zenon
      <4> QED  BY <4>1, <4>2, <4>3, Zenon
    <3>7. CASE i = 7
      <4>1. i - 1 = 6 /\ i # 0
        BY <3>7
      <4>2. found[i] = w7 /\ found[i-1] = w6
        BY <1>4, <3>7, <4>1, Zenon
      <4>3. w6 \in L!Nodes /\ w7 = next[w6]
        BY <1>2, <1>3, Zenon
      <4> QED  BY <4>1, <4>2, <4>3, Zenon
    <3>8. CASE i = 8
      <4>1. i - 1 = 7 /\ i # 0
        BY <3>8
      <4>2. found[i] = w8 /\ found[i-1] = w7
        BY <1>4, <3>8, <4>1, Zenon
      <4>3. w7 \in L!Nodes /\ w8 = next[w7]
        BY <1>2, <1>3, Zenon
      <4> QED  BY <4>1, <4>2, <4>3, Zenon
    <3> QED  BY <3>0, <3>1, <3>2, <3>3, <3>4, <3>5, <3>6, <3>7, <3>8
  <2>2. found = [i \in 0..8 |-> found[i]]
    OBVIOUS
  <2> HIDE DEF found
  <2> QED  BY <2>1, <2>2
<1>6. walk = body(walk)
  <2> HIDE DEF body, found
  <2> QED  BY <1>5, Zenon
<1>7. L!Walk(h) = walk
  <2>1. L!Cardinality(L!Nodes) = 8
    BY ListNodes DEF L!Cardinality, Cardinality
  <2> QED  BY <2>1, Zenon DEF L!Walk
<1> HIDE DEF walk
<1>8. \A i \in 0..8 : walk[i] = IF i = 0 THEN h
                              ELSE IF walk[i-1] \in L!Nodes THEN next[walk[i-1]] ELSE L!Poison
  <2>1. \A i \in 0..8 : body(walk)[i] = IF i = 0 THEN h
                              ELSE IF walk[i-1] \in L!Nodes THEN next[walk[i-1]] ELSE L!Poison
    OBVIOUS
  <2> HIDE DEF body
  <2> QED  BY <1>6, <2>1
<1>9. DOMAIN walk = 0..8
  <2>1. DOMAIN body(walk) = 0..8
    OBVIOUS
  <2> HIDE DEF body
  <2> QED  BY <1>6, <2>1
<1> HIDE DEF body, found
<1>10. /\ walk[0] = h
       /\ walk[1] = w1
       /\ walk[2] = w2
       /\ walk[3] = w3
       /\ walk[4] = w4
       /\ walk[5] = w5
       /\ walk[6] = w6
       /\ walk[7] = w7
       /\ walk[8] = w8
  <2>0. walk[0] = h
    <3>1. 0 \in 0..8
      OBVIOUS
    <3> QED  BY <1>8, <3>1, Zenon
  <2>1. walk[1] = w1
    <3>1. 1 \in 0..8 /\ 1 # 0 /\ 1 - 1 = 0
      OBVIOUS
    <3>2. walk[1] = next[walk[0]]
      BY <1>2, <1>8, <2>0, <3>1, Zenon
    <3> QED  BY <1>3, <2>0, <3>2, Zenon
  <2>2. walk[2] = w2
    <3>1. 2 \in 0..8 /\ 2 # 0 /\ 2 - 1 = 1
      OBVIOUS
    <3>2. walk[2] = next[walk[1]]
      BY <1>2, <1>8, <2>1, <3>1, Zenon
    <3> QED  BY <1>3, <2>1, <3>2, Zenon
  <2>3. walk[3] = w3
    <3>1. 3 \in 0..8 /\ 3 # 0 /\ 3 - 1 = 2
      OBVIOUS
    <3>2. walk[3] = next[walk[2]]
      BY <1>2, <1>8, <2>2, <3>1, Zenon
    <3> QED  BY <1>3, <2>2, <3>2, Zenon
  <2>4. walk[4] = w4
    <3>1. 4 \in 0..8 /\ 4 # 0 /\ 4 - 1 = 3
      OBVIOUS
    <3>2. walk[4] = next[walk[3]]
      BY <1>2, <1>8, <2>3, <3>1, Zenon
    <3> QED  BY <1>3, <2>3, <3>2, Zenon
  <2>5. walk[5] = w5
    <3>1. 5 \in 0..8 /\ 5 # 0 /\ 5 - 1 = 4
      OBVIOUS
    <3>2. walk[5] = next[walk[4]]
      BY <1>2, <1>8, <2>4, <3>1, Zenon
    <3> QED  BY <1>3, <2>4, <3>2, Zenon
  <2>6. walk[6] = w6
    <3>1. 6 \in 0..8 /\ 6 # 0 /\ 6 - 1 = 5
      OBVIOUS
    <3>2. walk[6] = next[walk[5]]
      BY <1>2, <1>8, <2>5, <3>1, Zenon
    <3> QED  BY <1>3, <2>5, <3>2, Zenon
  <2>7. walk[7] = w7
    <3>1. 7 \in 0..8 /\ 7 # 0 /\ 7 - 1 = 6
      OBVIOUS
    <3>2. walk[7] = next[walk[6]]
      BY <1>2, <1>8, <2>6, <3>1, Zenon
    <3> QED  BY <1>3, <2>6, <3>2, Zenon
  <2>8. walk[8] = w8
    <3>1. 8 \in 0..8 /\ 8 # 0 /\ 8 - 1 = 7
      OBVIOUS
    <3>2. walk[8] = next[walk[7]]
      BY <1>2, <1>8, <2>7, <3>1, Zenon
    <3> QED  BY <1>3, <2>7, <3>2, Zenon
  <2> QED  BY <2>0, <2>1, <2>2, <2>3, <2>4, <2>5, <2>6, <2>7, <2>8
\* The first seven cannot all be persons: none of them is met twice.
<1>11. w1 = h \/ w2 = h \/ w3 = h \/ w4 = h \/ w5 = h \/ w6 = h \/ w7 = h
  <2>1. SUFFICES ASSUME w1 # h, w2 # h, w3 # h, w4 # h, w5 # h, w6 # h, w7 # h PROVE FALSE
    OBVIOUS
  <2>2. /\ w1 \in E /\ w2 \in E /\ w3 \in E /\ w4 \in E /\ w5 \in E /\ w6 \in E /\ w7 \in E
    BY <1>2, <2>1
  <2>3. \A U \in SUBSET E : (\A x \in U : next[x] \in U) => U = {}
    BY Zenon DEF Ring
  <2>4. w2 # w1
    <3>1. SUFFICES ASSUME w2 = w1 PROVE FALSE
      OBVIOUS
    <3>2. {w1} \in SUBSET E /\ {w1} # {}
      BY <2>2
    <3>3. \A x \in {w1} : next[x] \in {w1}
      BY <1>3, <3>1
    <3> QED  BY <2>3, <3>2, <3>3, Zenon
  <2>5. w3 \notin {w1, w2}
    <3>1. SUFFICES ASSUME w3 \in {w1, w2} PROVE FALSE
      OBVIOUS
    <3>2. {w1, w2} \in SUBSET E /\ {w1, w2} # {}
      BY <2>2
    <3>3. \A x \in {w1, w2} : next[x] \in {w1, w2}
      <4>1. next[w1] = w2 /\ next[w2] = w3
        BY <1>3, Zenon
      <4> QED  BY <3>1, <4>1
    <3> QED  BY <2>3, <3>2, <3>3, Zenon
  <2>6. w4 \notin {w1, w2, w3}
    <3>1. SUFFICES ASSUME w4 \in {w1, w2, w3} PROVE FALSE
      OBVIOUS
    <3>2. {w1, w2, w3} \in SUBSET E /\ {w1, w2, w3} # {}
      BY <2>2
    <3>3. \A x \in {w1, w2, w3} : next[x] \in {w1, w2, w3}
      <4>1. next[w1] = w2 /\ next[w2] = w3 /\ next[w3] = w4
        BY <1>3, Zenon
      <4> QED  BY <3>1, <4>1
    <3> QED  BY <2>3, <3>2, <3>3, Zenon
  <2>7. w5 \notin {w1, w2, w3, w4}
    <3>1. SUFFICES ASSUME w5 \in {w1, w2, w3, w4} PROVE FALSE
      OBVIOUS
    <3>2. {w1, w2, w3, w4} \in SUBSET E /\ {w1, w2, w3, w4} # {}
      BY <2>2
    <3>3. \A x \in {w1, w2, w3, w4} : next[x] \in {w1, w2, w3, w4}
      <4>1. next[w1] = w2 /\ next[w2] = w3 /\ next[w3] = w4 /\ next[w4] = w5
        BY <1>3, Zenon
      <4> QED  BY <3>1, <4>1
    <3> QED  BY <2>3, <3>2, <3>3, Zenon
  <2>8. w6 \notin {w1, w2, w3, w4, w5}
    <3>1. SUFFICES ASSUME w6 \in {w1, w2, w3, w4, w5} PROVE FALSE
      OBVIOUS
    <3>2. {w1, w2, w3, w4, w5} \in SUBSET E /\ {w1, w2, w3, w4, w5} # {}
      BY <2>2
    <3>3. \A x \in {w1, w2, w3, w4, w5} : next[x] \in {w1, w2, w3, w4, w5}
      <4>1. next[w1] = w2 /\ next[w2] = w3 /\ next[w3] = w4 /\ next[w4] = w5 /\ next[w5] = w6
        BY <1>3, Zenon
      <4> QED  BY <3>1, <4>1
    <3> QED  BY <2>3, <3>2, <3>3, Zenon
  <2>9. w7 \notin {w1, w2, w3, w4, w5, w6}
    <3>1. SUFFICES ASSUME w7 \in {w1, w2, w3, w4, w5, w6} PROVE FALSE
      OBVIOUS
    <3>2. {w1, w2, w3, w4, w5, w6} \in SUBSET E /\ {w1, w2, w3, w4, w5, w6} # {}
      BY <2>2
    <3>3. \A x \in {w1, w2, w3, w4, w5, w6} : next[x] \in {w1, w2, w3, w4, w5, w6}
      <4>1. next[w1] = w2 /\ next[w2] = w3 /\ next[w3] = w4 /\ next[w4] = w5 /\ next[w5] = w6 /\ next[w6] = w7
        BY <1>3, Zenon
      <4> QED  BY <3>1, <4>1
    <3> QED  BY <2>3, <3>2, <3>3, Zenon
  <2> QED  BY <2>2, <2>4, <2>5, <2>6, <2>7, <2>8, <2>9
<1>12. L!Walk(h)[0] = h /\ DOMAIN L!Walk(h) = 0..8
  BY <1>7, <1>9, <1>10, Zenon
<1>13. ASSUME NEW i \in 1..8 PROVE L!Walk(h)[i] = next[L!Walk(h)[i-1]]
  <2>0. i = 1 \/ i = 2 \/ i = 3 \/ i = 4 \/ i = 5 \/ i = 6 \/ i = 7 \/ i = 8
    OBVIOUS
  <2>1. CASE i = 1
    <3>1. i - 1 = 0
      BY <2>1
    <3>2. walk[1] = w1 /\ walk[0] = h /\ w1 = next[h]
      BY <1>3, <1>10, Zenon
    <3> QED  BY <1>7, <2>1, <3>1, <3>2, Zenon
  <2>2. CASE i = 2
    <3>1. i - 1 = 1
      BY <2>2
    <3>2. walk[2] = w2 /\ walk[1] = w1 /\ w2 = next[w1]
      BY <1>3, <1>10, Zenon
    <3> QED  BY <1>7, <2>2, <3>1, <3>2, Zenon
  <2>3. CASE i = 3
    <3>1. i - 1 = 2
      BY <2>3
    <3>2. walk[3] = w3 /\ walk[2] = w2 /\ w3 = next[w2]
      BY <1>3, <1>10, Zenon
    <3> QED  BY <1>7, <2>3, <3>1, <3>2, Zenon
  <2>4. CASE i = 4
    <3>1. i - 1 = 3
      BY <2>4
    <3>2. walk[4] = w4 /\ walk[3] = w3 /\ w4 = next[w3]
      BY <1>3, <1>10, Zenon
    <3> QED  BY <1>7, <2>4, <3>1, <3>2, Zenon
  <2>5. CASE i = 5
    <3>1. i - 1 = 4
      BY <2>5
    <3>2. walk[5] = w5 /\ walk[4] = w4 /\ w5 = next[w4]
      BY <1>3, <1>10, Zenon
    <3> QED  BY <1>7, <2>5, <3>1, <3>2, Zenon
  <2>6. CASE i = 6
    <3>1. i - 1 = 5
      BY <2>6
    <3>2. walk[6] = w6 /\ walk[5] = w5 /\ w6 = next[w5]
      BY <1>3, <1>10, Zenon
    <3> QED  BY <1>7, <2>6, <3>1, <3>2, Zenon
  <2>7. CASE i = 7
    <3>1. i - 1 = 6
      BY <2>7
    <3>2. walk[7] = w7 /\ walk[6] = w6 /\ w7 = next[w6]
      BY <1>3, <1>10, Zenon
    <3> QED  BY <1>7, <2>7, <3>1, <3>2, Zenon
  <2>8. CASE i = 8
    <3>1. i - 1 = 7
      BY <2>8
    <3>2. walk[8] = w8 /\ walk[7] = w7 /\ w8 = next[w7]
      BY <1>3, <1>10, Zenon
    <3> QED  BY <1>7, <2>8, <3>1, <3>2, Zenon
  <2> QED  BY <2>0, <2>1, <2>2, <2>3, <2>4, <2>5, <2>6, <2>7, <2>8, Zenon
<1>14. ASSUME NEW i \in 0..8 PROVE L!Walk(h)[i] \in E \cup {h}
  <2>1. i = 0 \/ i = 1 \/ i = 2 \/ i = 3 \/ i = 4 \/ i = 5 \/ i = 6 \/ i = 7 \/ i = 8
    OBVIOUS
  <2> QED  BY <1>2, <1>7, <1>10, <2>1, ZenonT(30)
<1>15. \E i \in 1..7 : L!Walk(h)[i] = h
  <2>1. /\ 1 \in 1..7 /\ 2 \in 1..7 /\ 3 \in 1..7 /\ 4 \in 1..7 /\ 5 \in 1..7 /\ 6 \in 1..7
        /\ 7 \in 1..7
    OBVIOUS
  <2> QED  BY <1>7, <1>10, <1>11, <2>1, ZenonT(30)
<1> QED  BY <1>12, <1>13, <1>14, <1>15

\* The search of a person to insert before, or to delete, ends at the head or
\* at one of those it is after, and has passed none of them.
LEMMA ListFound ==
    ASSUME NEW h \in L!Heads, NEW E, E \subseteq {10, 20, 30, 40, 300, 400},
           Ring(h, E, next, prev), NEW stop
    PROVE  /\ L!FirstNode(h, stop) \in E \cup {h}
           /\ L!FirstNode(h, stop) \in stop \cup {h}
           /\ prev[L!FirstNode(h, stop)] = h \/ prev[L!FirstNode(h, stop)] \notin stop
<1> DEFINE walk == L!Walk(h)
<1>1. /\ DOMAIN walk = 0..8 /\ walk[0] = h /\ \A i \in 1..8 : walk[i] = next[walk[i-1]]
      /\ \A i \in 0..8 : walk[i] \in E \cup {h}
      /\ \E i \in 1..7 : walk[i] = h
  BY ListWalk
<1>2. \A x \in E \cup {h} : prev[next[x]] = x
  BY DEF Ring
<1> HIDE DEF walk
<1> DEFINE stops == {i \in DOMAIN walk \ {0} : walk[i] \in stop \cup {h}}
           first == CHOOSE i \in stops : \A j \in stops : i <= j
<1>3. stops \in SUBSET (1..8) /\ stops # {}
  BY <1>1
<1>4. \E i \in stops : \A j \in stops : i <= j
  <2> HIDE DEF stops
  <2>1. PICK x \in stops : TRUE
    BY <1>3
  <2>2. \A j \in stops : j = 1 \/ j = 2 \/ j = 3 \/ j = 4 \/ j = 5 \/ j = 6 \/ j = 7 \/ j = 8
    BY <1>3
  <2> QED  BY <2>1, <2>2
<1>5. first \in stops /\ \A j \in stops : first <= j
  <2> HIDE DEF stops
  <2> QED  BY <1>4, Zenon
<1>6. L!FirstNode(h, stop) = walk[first]
  BY Zenon DEF L!FirstNode, walk
<1>7. first \in 1..8
  BY <1>3, <1>5
<1>8. walk[first] \in stop \cup {h} /\ walk[first] \in E \cup {h}
  BY <1>1, <1>5, <1>7
<1> HIDE DEF first
<1>9. prev[walk[first]] = walk[first - 1]
  <2>1. first - 1 \in 0..8
    BY <1>7
  <2>2. walk[first] = next[walk[first-1]] /\ walk[first-1] \in E \cup {h}
    BY <1>1, <1>7, <2>1, Zenon
  <2> QED  BY <1>2, <2>2, Zenon
<1>10. walk[first - 1] = h \/ walk[first - 1] \notin stop
  <2>1. CASE first = 1
    BY <1>1, <2>1
  <2>2. CASE first # 1
    <3>1. first - 1 \in 1..8 /\ ~(first <= first - 1)
      BY <1>7, <2>2
    <3>2. first - 1 \notin stops
      BY <1>5, <3>1
    <3> QED  BY <1>1, <3>1, <3>2
  <2> QED  BY <2>1, <2>2
<1> QED  BY <1>6, <1>8, <1>9, <1>10

\* What a walk reaches is all of the ring: the rest of it would be a circle.
LEMMA ListReached ==
    ASSUME NEW h \in L!Heads, NEW E, E \subseteq {10, 20, 30, 40, 300, 400},
           Ring(h, E, next, prev)
    PROVE  L!Reached(h) = E
<1> DEFINE walk == L!Walk(h)
           rest == {x \in E : \A i \in 0..8 : walk[i] # x}
<1>1. /\ DOMAIN walk = 0..8 /\ walk[0] = h /\ \A i \in 1..8 : walk[i] = next[walk[i-1]]
      /\ \A i \in 0..8 : walk[i] \in E \cup {h}
      /\ \E i \in 1..7 : walk[i] = h
  BY ListWalk
<1>2. \A x : x \in L!Reached(h) <=> x # h /\ \E i \in DOMAIN walk : x = walk[i]
  <2>1. L!Reached(h) = {walk[i] : i \in DOMAIN walk} \ {h}
    BY Zenon DEF L!Reached
  <2> HIDE DEF walk
  <2>2. \A x : x \in {walk[i] : i \in DOMAIN walk} <=> \E i \in DOMAIN walk : x = walk[i]
    OBVIOUS
  <2> QED  BY <2>1, <2>2
<1> HIDE DEF walk
<1>3. /\ h \notin E /\ \A x \in E \cup {h} : next[x] \in E \cup {h} /\ prev[next[x]] = x
      /\ \A U \in SUBSET E : (\A x \in U : next[x] \in U) => U = {}
  BY Zenon DEF Ring
<1>4. ASSUME NEW x \in rest PROVE next[x] \in rest
  <2>1. x \in E /\ \A i \in 0..8 : walk[i] # x
    OBVIOUS
  <2>2. next[x] \in E \cup {h} /\ prev[next[x]] = x
    BY <1>3, <2>1
  <2>3. ASSUME NEW i \in 1..8, walk[i] = next[x] PROVE FALSE
    <3>1. PICK l \in 0..8 : l = i - 1
      OBVIOUS
    <3>2. walk[l] \in E \cup {h} /\ walk[i] = next[walk[l]]
      BY <1>1, <3>1, Zenon
    <3>3. prev[walk[i]] = walk[l]
      BY <1>3, <3>2, Zenon
    <3>4. walk[l] # x /\ prev[walk[i]] = x
      BY <2>1, <2>2, <2>3, <3>1, Zenon
    <3> QED  BY <3>3, <3>4, Zenon
  <2>4. \A i \in 0..8 : walk[i] # next[x]
    <3>1. walk[0] # next[x]
      <4>1. PICK i \in 1..7 : walk[i] = h
        BY <1>1
      <4>2. i \in 1..8
        OBVIOUS
      <4> QED  BY <1>1, <2>3, <4>1, <4>2
    <3>2. \A i \in 1..8 : walk[i] # next[x]
      BY <2>3
    <3> QED  BY <3>1, <3>2
  <2>5. next[x] # h
    BY <1>1, <2>4
  <2> QED  BY <2>2, <2>4, <2>5
<1>5. rest = {}
  <2>1. rest \in SUBSET E
    OBVIOUS
  <2> QED  BY <1>3, <1>4, <2>1, Zenon
<1>6. \A x \in E : \E i \in 0..8 : walk[i] = x
  BY <1>5
<1>7. \A x \in L!Reached(h) : x \in E
  <2>1. SUFFICES ASSUME NEW x \in L!Reached(h) PROVE x \in E
    OBVIOUS
  <2>2. PICK i \in DOMAIN walk : x = walk[i]
    BY <1>2, <2>1, Zenon
  <2>3. x # h /\ walk[i] \in E \cup {h}
    BY <1>1, <1>2, <2>1, Zenon
  <2> QED  BY <2>2, <2>3
<1>8. \A x \in E : x \in L!Reached(h)
  <2>1. SUFFICES ASSUME NEW x \in E PROVE x \in L!Reached(h)
    OBVIOUS
  <2>2. PICK i \in 0..8 : walk[i] = x
    BY <1>6
  <2> QED  BY <1>1, <1>2, <1>3, <2>2, Zenon
<1> QED  BY <1>7, <1>8, Zenon

\* If the links rise up to the end of a ring, so do the entries in order.
LEMMA ListEntries ==
    ASSUME NEW h \in L!Heads, NEW E, E \subseteq {10, 20, 30, 40, 300, 400},
           Ring(h, E, next, prev), \A x \in E : next[x] = h \/ x < next[x],
           NEW i \in DOMAIN L!Entries(h), NEW j \in DOMAIN L!Entries(h), i < j
    PROVE  L!Entries(h)[i] < L!Entries(h)[j]
<1> DEFINE walk == L!Walk(h)
           Ends(m) == /\ m > 0 => walk[m] \in L!Persons
                      /\ \A l \in 1..m : walk[l] # h
                      /\ m < Cardinality(L!Nodes) => walk[m+1] \notin L!Persons
           last == CHOOSE m \in 0..Cardinality(L!Nodes) : Ends(m)
<1>1. /\ DOMAIN walk = 0..8 /\ walk[0] = h /\ \A l \in 1..8 : walk[l] = next[walk[l-1]]
      /\ \A l \in 0..8 : walk[l] \in E \cup {h}
      /\ \E l \in 1..7 : walk[l] = h
  BY ListWalk
<1>2. L!Entries(h) = [l \in 1..last |-> walk[l]]
  BY Zenon DEF L!Entries, L!Cardinality, Cardinality
<1>3. Cardinality(L!Nodes) = 8
  BY ListNodes
<1>4. L!Persons = {10, 20, 30, 40, 300, 400} /\ h \notin L!Persons
  BY DEF L!Persons, L!Heads, L!PersonList, L!ExtraList
<1> HIDE DEF walk
<1>5. PICK m \in 1..7 : walk[m] = h /\ \A l \in 1..7 : l < m => walk[l] # h
  <2> DEFINE met == {l \in 1..7 : walk[l] = h}
  <2>1. PICK x \in met : TRUE
    BY <1>1
  <2>2. \E l \in met : \A l2 \in met : l <= l2
    <3>1. \A l \in met : l = 1 \/ l = 2 \/ l = 3 \/ l = 4 \/ l = 5 \/ l = 6 \/ l = 7
      OBVIOUS
    <3> HIDE DEF met
    <3> QED  BY <2>1, <3>1
  <2> QED  BY <2>2
<1>6. m - 1 \in 0..Cardinality(L!Nodes) /\ Ends(m - 1)
  <2>1. m - 1 > 0 => walk[m-1] \in L!Persons
    <3>1. SUFFICES ASSUME m - 1 > 0 PROVE walk[m-1] \in L!Persons
      OBVIOUS
    <3>2. m - 1 \in 1..7 /\ m - 1 < m /\ m - 1 \in 0..8
      BY <3>1
    <3> QED  BY <1>1, <1>4, <1>5, <3>2
  <2>2. \A l \in 1..(m-1) : walk[l] # h
    BY <1>5
  <2>3. m - 1 + 1 = m
    OBVIOUS
  <2> QED  BY <1>3, <1>4, <1>5, <2>1, <2>2, <2>3
<1>7. last \in 0..Cardinality(L!Nodes) /\ Ends(last)
  <2> HIDE DEF Ends
  <2> QED  BY <1>6, Zenon
<1>8. last \in 0..6 /\ \A l \in 1..last : walk[l] # h
  <2>1. last \in 0..8 /\ \A l \in 1..last : walk[l] # h
    BY <1>3, <1>7
  <2> HIDE DEF last
  <2> QED  BY <1>5, <2>1
<1> HIDE DEF last
<1>9. i \in 1..last /\ j \in 1..last /\ L!Entries(h)[i] = walk[i] /\ L!Entries(h)[j] = walk[j]
  <2> DEFINE e == L!Entries(h)
  <2>1. i \in DOMAIN e /\ j \in DOMAIN e /\ e = [l \in 1..last |-> walk[l]]
    BY <1>2, Zenon
  <2> HIDE DEF e
  <2>2. DOMAIN e = 1..last /\ \A l \in 1..last : e[l] = walk[l]
    BY <2>1, SMT
  <2>3. i \in 1..last /\ j \in 1..last
    BY <2>1, <2>2, Zenon
  <2> QED  BY <2>2, <2>3, Zenon DEF e
<1>10. \A l \in 1..last : walk[l] \in E /\ walk[l] \in Int
  <2>1. SUFFICES ASSUME NEW l \in 1..last PROVE walk[l] \in E /\ walk[l] \in Int
    OBVIOUS
  <2>2. l \in 0..8 /\ walk[l] # h
    BY <1>8
  <2>3. walk[l] \in E
    BY <1>1, <2>2, Zenon
  <2>4. \A x \in E : x \in Int
    OBVIOUS
  <2> QED  BY <2>3, <2>4, Zenon
<1>11. ASSUME NEW l \in 1..5, l + 1 <= last PROVE walk[l] < walk[l+1]
  <2>1. l \in 1..last /\ l + 1 \in 1..last /\ l + 1 \in 1..8 /\ l + 1 - 1 = l
    BY <1>8, <1>11
  <2>2. walk[l+1] = next[walk[l]] /\ walk[l+1] # h /\ walk[l] \in E
    BY <1>1, <1>8, <1>10, <2>1
  <2> QED  BY <2>2
<1>12. /\ last >= 2 => walk[1] < walk[2]
       /\ last >= 3 => walk[2] < walk[3]
       /\ last >= 4 => walk[3] < walk[4]
       /\ last >= 5 => walk[4] < walk[5]
       /\ last >= 6 => walk[5] < walk[6]
  BY <1>8, <1>11
<1>13. walk[i] < walk[j]
  <2>1. /\ last >= 1 => walk[1] \in Int
        /\ last >= 2 => walk[2] \in Int
        /\ last >= 3 => walk[3] \in Int
        /\ last >= 4 => walk[4] \in Int
        /\ last >= 5 => walk[5] \in Int
        /\ last >= 6 => walk[6] \in Int
    BY <1>8, <1>10
  <2>2. i \in Int /\ j \in Int /\ 1 <= i /\ j <= last /\ i < j
    BY <1>8, <1>9
  <2>3. i = 1 \/ i = 2 \/ i = 3 \/ i = 4 \/ i = 5
    BY <1>8, <2>2
  <2>4. j = 2 \/ j = 3 \/ j = 4 \/ j = 5 \/ j = 6
    BY <1>8, <2>2
  <2> QED  BY <1>8, <1>12, <2>1, <2>2, <2>3, <2>4
<1> QED  BY <1>9, <1>13

-----------------------------------------------------------------------------
(* 3.list: what has been added at each call of m_chr_init, and the two     *)
(* rings.  The head is no ring before its initialisation, and the second   *)
(* head shows into the first ring between the splice and its clearing.     *)
Added1 == {20}
Added2 == Added1 \cup {40}
Added3 == Added2 \cup {10}
Added4 == Added3 \cup {30}
Added5 == Added4 \cup {300}
Added6 == Added5 \cup {400}
Merged == {300, 400}
ListSoFar ==
    \/ step \in {"init_list", "tail 20", "return"} /\ lmem = {}
    \/ step = "tail 40" /\ lmem \subseteq Added1
    \/ step = "head 10" /\ lmem \subseteq Added2
    \/ step = "sorted 30" /\ lmem \subseteq Added3
    \/ step \in {"delete 40", "move", "merge 300"} /\ lmem \subseteq Added4
    \/ step = "merge 400" /\ lmem \subseteq Added5
    \/ step \in {"splice", "empty extra", "clear"} /\ lmem \subseteq Added6
OnExtra == IF step \in {"empty extra", "clear", "return"} THEN {} ELSE lmem \cap Merged
OnList  == lmem \ OnExtra
RingInv ==
    /\ next \in [L!Nodes -> Int] /\ prev \in [L!Nodes -> Int]
    /\ ListSoFar
    /\ step # "init_list" => Ring(L!PersonList, OnList, next, prev)
    /\ step # "empty extra" => Ring(L!ExtraList, OnExtra, next, prev)

\* The persons are nodes other than the heads, and those of merge_lists_demo
\* other than the first four.
LEMMA ListPersons ==
    /\ Added6 \subseteq L!Nodes /\ L!PersonList \notin Added6 /\ L!ExtraList \notin Added6
    /\ L!PersonList \in L!Nodes /\ L!ExtraList \in L!Nodes /\ L!PersonList # L!ExtraList
    /\ Added4 = {10, 20, 30, 40} /\ Added4 \cap Merged = {}
    /\ 40 \notin Added1 /\ 10 \notin Added2 /\ 30 \notin Added3 /\ 300 \notin Added4 /\ 400 \notin Added5
    /\ 20 \notin Merged /\ 40 \notin Merged /\ 10 \notin Merged /\ 30 \notin Merged
    /\ 300 \in Merged /\ 400 \in Merged
    /\ 10 \in L!Nodes /\ 20 \in L!Nodes /\ 30 \in L!Nodes /\ 40 \in L!Nodes
    /\ 300 \in L!Nodes /\ 400 \in L!Nodes
    /\ 10 \notin L!Heads /\ 20 \notin L!Heads /\ 30 \notin L!Heads /\ 40 \notin L!Heads
    /\ 300 \notin L!Heads /\ 400 \notin L!Heads
<1>1. /\ Added1 = {20} /\ Added2 = {20, 40} /\ Added3 = {10, 20, 40} /\ Added4 = {10, 20, 30, 40}
      /\ Added5 = {10, 20, 30, 40, 300} /\ Added6 = {10, 20, 30, 40, 300, 400}
  <2>1. Added1 = {20} /\ Added2 = {20, 40}
    BY DEF Added1, Added2
  <2>2. Added3 = {10, 20, 40}
    BY <2>1 DEF Added3
  <2>3. Added4 = {10, 20, 30, 40}
    BY <2>2 DEF Added4
  <2>4. Added5 = {10, 20, 30, 40, 300}
    BY <2>3 DEF Added5
  <2>5. Added6 = {10, 20, 30, 40, 300, 400}
    BY <2>4 DEF Added6
  <2> QED  BY <2>1, <2>2, <2>3, <2>4, <2>5
<1>2. Merged = {300, 400} /\ L!PersonList = 0 /\ L!ExtraList = 1 /\ L!Heads = {0, 1}
  BY DEF Merged, L!PersonList, L!ExtraList, L!Heads
<1>3. Added6 \subseteq L!Nodes
  BY <1>1, ListNodes
<1>4. L!PersonList \notin Added6 /\ L!ExtraList \notin Added6
  BY <1>1, <1>2
<1>5. L!PersonList \in L!Nodes /\ L!ExtraList \in L!Nodes /\ L!PersonList # L!ExtraList
  BY <1>2, ListNodes
<1>6. Added4 \cap Merged = {}
  BY <1>1, <1>2
<1>7. 40 \notin Added1 /\ 10 \notin Added2 /\ 30 \notin Added3 /\ 300 \notin Added4 /\ 400 \notin Added5
  BY <1>1
<1>8. /\ 20 \notin Merged /\ 40 \notin Merged /\ 10 \notin Merged /\ 30 \notin Merged
      /\ 300 \in Merged /\ 400 \in Merged
  BY <1>2
<1>9. /\ 10 \in L!Nodes /\ 20 \in L!Nodes /\ 30 \in L!Nodes /\ 40 \in L!Nodes
      /\ 300 \in L!Nodes /\ 400 \in L!Nodes
  BY ListNodes
<1>10. /\ 10 \notin L!Heads /\ 20 \notin L!Heads /\ 30 \notin L!Heads /\ 40 \notin L!Heads
       /\ 300 \notin L!Heads /\ 400 \notin L!Heads
  BY <1>2
<1> QED  BY <1>1, <1>3, <1>4, <1>5, <1>6, <1>7, <1>8, <1>9, <1>10, Zenon

\* At the start only the second head is a ring, as LIST_HEAD has made it.
LEMMA RingStart == ASSUME L!Init PROVE RingInv
<1>1. /\ step = "init_list" /\ lmem = {} /\ prev = next
      /\ next = [x \in L!Nodes |-> IF x = L!ExtraList THEN x ELSE L!Poison]
  BY DEF L!Init
<1>2. L!ExtraList \in Int /\ L!Poison \in Int /\ L!ExtraList \in L!Nodes
  BY ListNodes DEF L!ExtraList, L!Poison
<1>3. next[L!ExtraList] = L!ExtraList /\ prev[L!ExtraList] = L!ExtraList
  BY <1>1, <1>2
<1>4. OnExtra = {}
  BY <1>1 DEF OnExtra
<1>5. Ring(L!ExtraList, OnExtra, next, prev)
  BY <1>3, <1>4, RingOfHead
<1>6. next \in [L!Nodes -> Int] /\ prev \in [L!Nodes -> Int]
  BY <1>1, <1>2
<1>7. ListSoFar
  BY <1>1 DEF ListSoFar
<1> QED  BY <1>1, <1>5, <1>6, <1>7 DEF RingInv

\* Adding a person to one of the two rings leaves the other alone.
LEMMA ListGrows ==
    ASSUME next \in [L!Nodes -> Int], prev \in [L!Nodes -> Int],
           NEW h \in L!Nodes, NEW E, NEW g \in L!Nodes, NEW F2, E \subseteq L!Nodes, F2 \subseteq L!Nodes,
           Ring(h, E, next, prev), Ring(g, F2, next, prev),
           (E \cup {h}) \cap (F2 \cup {g}) = {},
           NEW m \in L!Nodes, m \notin E \cup {h} \cup F2 \cup {g},
           NEW p \in E \cup {h}, NEW q, q = next[p], L!ListAdd(m, p, q)
    PROVE  /\ next' \in [L!Nodes -> Int] /\ prev' \in [L!Nodes -> Int]
           /\ Ring(h, E \cup {m}, next', prev') /\ Ring(g, F2, next', prev')
<1>1. next' = [next EXCEPT ![m] = q, ![p] = m] /\ prev' = [prev EXCEPT ![q] = m, ![m] = p]
  BY DEF L!ListAdd
<1>2. q \in E \cup {h} /\ p \in L!Nodes /\ q \in L!Nodes /\ p # m /\ q # m
  BY DEF Ring
<1>3. m \in Int /\ q \in Int /\ p \in Int
  BY <1>2, ListNodes
<1>4. next' \in [L!Nodes -> Int] /\ prev' \in [L!Nodes -> Int]
  BY <1>1, <1>2, <1>3
<1>5. /\ next'[m] = q /\ next'[p] = m /\ \A x \in L!Nodes \ {m, p} : next'[x] = next[x]
      /\ prev'[q] = m /\ prev'[m] = p /\ \A x \in L!Nodes \ {m, q} : prev'[x] = prev[x]
  BY <1>1, <1>2
<1>6. Ring(h, E \cup {m}, next', prev')
  <2>1. /\ \A x \in (E \cup {h}) \ {p} : next'[x] = next[x]
        /\ \A x \in (E \cup {h}) \ {q} : prev'[x] = prev[x]
    BY <1>5
  <2> DEFINE nx2 == next'
             pv2 == prev'
  <2> HIDE DEF nx2, pv2
  <2>2. /\ nx2[m] = q /\ nx2[p] = m /\ \A x \in (E \cup {h}) \ {p} : nx2[x] = next[x]
        /\ pv2[q] = m /\ pv2[m] = p /\ \A x \in (E \cup {h}) \ {q} : pv2[x] = prev[x]
    BY <1>5, <2>1, Zenon DEF nx2, pv2
  <2>3. m \notin E \cup {h}
    OBVIOUS
  <2>4. Ring(h, E \cup {m}, nx2, pv2)
    BY <2>2, <2>3, RingAdd
  <2> QED  BY <2>4, Zenon DEF nx2, pv2
<1>7. Ring(g, F2, next', prev')
  <2>1. \A x \in F2 \cup {g} : next'[x] = next[x] /\ prev'[x] = prev[x]
    BY <1>2, <1>5
  <2> DEFINE nx2 == next'
             pv2 == prev'
  <2> HIDE DEF nx2, pv2
  <2>2. \A x \in F2 \cup {g} : nx2[x] = next[x] /\ pv2[x] = prev[x]
    BY <2>1, Zenon DEF nx2, pv2
  <2>3. Ring(g, F2, nx2, pv2)
    BY <2>2, RingKept, Zenon
  <2> QED  BY <2>3, Zenon DEF nx2, pv2
<1> QED  BY <1>4, <1>6, <1>7

\* Deleting one leaves the other ring alone, too.
LEMMA ListShrinks ==
    ASSUME next \in [L!Nodes -> Int], prev \in [L!Nodes -> Int],
           NEW h \in L!Nodes, NEW E, NEW g \in L!Nodes, NEW F2, E \subseteq L!Nodes, F2 \subseteq L!Nodes,
           Ring(h, E, next, prev), Ring(g, F2, next, prev),
           (E \cup {h}) \cap (F2 \cup {g}) = {},
           NEW m \in E, L!ListDel(m)
    PROVE  /\ next' \in [L!Nodes -> Int] /\ prev' \in [L!Nodes -> Int]
           /\ Ring(h, E \ {m}, next', prev') /\ Ring(g, F2, next', prev')
<1>1. /\ next' = [next EXCEPT ![prev[m]] = next[m], ![m] = L!Poison]
      /\ prev' = [prev EXCEPT ![next[m]] = prev[m], ![m] = L!Poison]
  BY DEF L!ListDel
<1>2. PICK p \in E \cup {h}, q \in E \cup {h} : p = prev[m] /\ q = next[m]
  BY DEF Ring
<1>3. p \in L!Nodes /\ q \in L!Nodes /\ m \in L!Nodes /\ p # m /\ q # m
  <2>1. next[p] = m /\ prev[q] = m /\ h \notin E
    BY <1>2 DEF Ring
  <2>2. q # m
    <3>1. SUFFICES ASSUME q = m PROVE FALSE
      OBVIOUS
    <3>2. {m} \in SUBSET E /\ \A x \in {m} : next[x] \in {m}
      BY <1>2, <3>1
    <3>3. {m} = {}
      BY <3>2, Zenon DEF Ring
    <3> QED  BY <3>3
  <2>3. p # m
    BY <1>2, <2>1, <2>2
  <2> QED  BY <2>2, <2>3
<1>4. p \in Int /\ q \in Int /\ L!Poison \in Int
  BY <1>3, ListNodes DEF L!Poison
<1>5. next' = [next EXCEPT ![p] = q, ![m] = L!Poison] /\ prev' = [prev EXCEPT ![q] = p, ![m] = L!Poison]
  BY <1>1, <1>2, Zenon
<1>6. next' \in [L!Nodes -> Int] /\ prev' \in [L!Nodes -> Int]
  BY <1>3, <1>4, <1>5
<1>7. /\ next'[p] = q /\ \A x \in L!Nodes \ {m, p} : next'[x] = next[x]
      /\ prev'[q] = p /\ \A x \in L!Nodes \ {m, q} : prev'[x] = prev[x]
  BY <1>3, <1>5
<1>8. Ring(h, E \ {m}, next', prev')
  <2>1. /\ next'[prev[m]] = next[m] /\ prev'[next[m]] = prev[m]
        /\ \A x \in (E \cup {h}) \ {m, prev[m]} : next'[x] = next[x]
        /\ \A x \in (E \cup {h}) \ {m, next[m]} : prev'[x] = prev[x]
    BY <1>2, <1>7
  <2> DEFINE nx2 == next'
             pv2 == prev'
  <2> HIDE DEF nx2, pv2
  <2>2. /\ nx2[prev[m]] = next[m] /\ pv2[next[m]] = prev[m]
        /\ \A x \in (E \cup {h}) \ {m, prev[m]} : nx2[x] = next[x]
        /\ \A x \in (E \cup {h}) \ {m, next[m]} : pv2[x] = prev[x]
    BY <2>1, Zenon DEF nx2, pv2
  <2>3. Ring(h, E \ {m}, nx2, pv2)
    BY <2>2, RingDel, Zenon
  <2> QED  BY <2>3, Zenon DEF nx2, pv2
<1>9. Ring(g, F2, next', prev')
  <2>1. \A x \in F2 \cup {g} : next'[x] = next[x] /\ prev'[x] = prev[x]
    BY <1>3, <1>7
  <2> DEFINE nx2 == next'
             pv2 == prev'
  <2> HIDE DEF nx2, pv2
  <2>2. \A x \in F2 \cup {g} : nx2[x] = next[x] /\ pv2[x] = prev[x]
    BY <2>1, Zenon DEF nx2, pv2
  <2>3. Ring(g, F2, nx2, pv2)
    BY <2>2, RingKept, Zenon
  <2> QED  BY <2>3, Zenon DEF nx2, pv2
<1> QED  BY <1>6, <1>8, <1>9

\* So does moving the first person behind the last.
LEMMA ListMoves ==
    ASSUME next \in [L!Nodes -> Int], prev \in [L!Nodes -> Int],
           NEW h \in L!Nodes, NEW E, NEW g \in L!Nodes, NEW F2, E \subseteq L!Nodes, F2 \subseteq L!Nodes,
           Ring(h, E, next, prev), Ring(g, F2, next, prev),
           (E \cup {h}) \cap (F2 \cup {g}) = {},
           next[h] # h, L!ListMoveTail(next[h], h)
    PROVE  /\ next' \in [L!Nodes -> Int] /\ prev' \in [L!Nodes -> Int]
           /\ Ring(h, E, next', prev') /\ Ring(g, F2, next', prev')
<1>1. PICK m \in E : m = next[h]
  BY DEF Ring
<1>2. PICK q \in E \cup {h} : q = next[m] /\ prev[m] = h /\ prev[q] = m
  BY <1>1 DEF Ring
<1>3. m # h /\ m \in L!Nodes /\ q \in L!Nodes /\ m \in Int /\ q \in Int /\ h \in Int
  BY ListNodes DEF Ring
<1>4. q # m
  <2>1. SUFFICES ASSUME q = m PROVE FALSE
    OBVIOUS
  <2>2. {m} \in SUBSET E /\ \A x \in {m} : next[x] \in {m}
    BY <1>2, <2>1
  <2>3. {m} = {}
    BY <2>2, Zenon DEF Ring
  <2> QED  BY <2>3
<1> DEFINE nx == [next EXCEPT ![h] = q]
           pv == [prev EXCEPT ![q] = h]
<1>5. /\ next' = [nx EXCEPT ![pv[h]] = m, ![m] = h]
      /\ prev' = [pv EXCEPT ![h] = m, ![m] = pv[h]]
  <2>1. /\ nx = [next EXCEPT ![prev[next[h]]] = next[next[h]]]
        /\ pv = [prev EXCEPT ![next[next[h]]] = prev[next[h]]]
    BY <1>1, <1>2, Zenon
  <2> HIDE DEF nx, pv
  <2>2. /\ next' = [nx EXCEPT ![pv[h]] = next[h], ![next[h]] = h]
        /\ prev' = [pv EXCEPT ![h] = next[h], ![next[h]] = pv[h]]
    BY <2>1, Zenon DEF L!ListMoveTail
  <2> QED  BY <1>1, <2>2, Zenon
<1>6. /\ nx \in [L!Nodes -> Int] /\ pv \in [L!Nodes -> Int]
      /\ nx[h] = q /\ \A x \in L!Nodes \ {h} : nx[x] = next[x]
      /\ pv[q] = h /\ \A x \in L!Nodes \ {q} : pv[x] = prev[x]
  BY <1>3
<1> HIDE DEF nx, pv
<1>7. Ring(h, E \ {m}, nx, pv)
  <2>1. /\ nx[prev[m]] = next[m] /\ pv[next[m]] = prev[m]
        /\ \A x \in (E \cup {h}) \ {m, prev[m]} : nx[x] = next[x]
        /\ \A x \in (E \cup {h}) \ {m, next[m]} : pv[x] = prev[x]
    BY <1>2, <1>6
  <2> QED  BY <2>1, RingDel, Zenon
<1>8. PICK p \in (E \ {m}) \cup {h} : p = pv[h]
  BY <1>7 DEF Ring
<1>9. p \in L!Nodes /\ p \in Int /\ p # m
  BY <1>3, <1>8, ListNodes
<1>10. next' = [nx EXCEPT ![p] = m, ![m] = h] /\ prev' = [pv EXCEPT ![h] = m, ![m] = p]
  BY <1>5, <1>8, Zenon
<1>11. next' \in [L!Nodes -> Int] /\ prev' \in [L!Nodes -> Int]
  BY <1>3, <1>6, <1>9, <1>10
<1>12. /\ next'[m] = h /\ next'[p] = m /\ \A x \in L!Nodes \ {m, p} : next'[x] = nx[x]
       /\ prev'[h] = m /\ prev'[m] = p /\ \A x \in L!Nodes \ {m, h} : prev'[x] = pv[x]
  BY <1>3, <1>6, <1>9, <1>10
<1>13. Ring(h, E, next', prev')
  <2>1. /\ \A x \in ((E \ {m}) \cup {h}) \ {p} : next'[x] = nx[x]
        /\ \A x \in ((E \ {m}) \cup {h}) \ {h} : prev'[x] = pv[x]
    BY <1>12
  <2> DEFINE nx2 == next'
             pv2 == prev'
  <2> HIDE DEF nx2, pv2
  <2>2. /\ nx2[m] = h /\ nx2[p] = m /\ \A x \in ((E \ {m}) \cup {h}) \ {p} : nx2[x] = nx[x]
        /\ pv2[h] = m /\ pv2[m] = p /\ \A x \in ((E \ {m}) \cup {h}) \ {h} : pv2[x] = pv[x]
    BY <1>12, <2>1, Zenon DEF nx2, pv2
  <2>3. m \notin (E \ {m}) \cup {h} /\ h = nx[p]
    BY <1>3, <1>7, <1>8 DEF Ring
  <2>4. Ring(h, (E \ {m}) \cup {m}, nx2, pv2)
    <3> DEFINE D2 == E \ {m}
    <3> HIDE DEF D2
    <3>1. /\ Ring(h, D2, nx, pv) /\ m \notin D2 \cup {h} /\ p \in D2 \cup {h}
          /\ \A x \in (D2 \cup {h}) \ {p} : nx2[x] = nx[x]
          /\ \A x \in (D2 \cup {h}) \ {h} : pv2[x] = pv[x]
      BY <1>7, <1>8, <2>2, <2>3 DEF D2
    <3>2. Ring(h, D2 \cup {m}, nx2, pv2)
      BY <2>2, <2>3, <3>1, RingAdd
    <3> QED  BY <3>2 DEF D2
  <2>5. (E \ {m}) \cup {m} = E
    OBVIOUS
  <2> QED  BY <2>4, <2>5, Zenon DEF nx2, pv2
<1>14. Ring(g, F2, next', prev')
  <2>1. \A x \in F2 \cup {g} : next'[x] = next[x] /\ prev'[x] = prev[x]
    <3>1. SUFFICES ASSUME NEW x \in F2 \cup {g} PROVE next'[x] = next[x] /\ prev'[x] = prev[x]
      OBVIOUS
    <3>2. x \in L!Nodes /\ x # m /\ x # h /\ x # q /\ x # p
      OBVIOUS
    <3> QED  BY <1>6, <1>12, <3>2
  <2> DEFINE nx2 == next'
             pv2 == prev'
  <2> HIDE DEF nx2, pv2
  <2>2. \A x \in F2 \cup {g} : nx2[x] = next[x] /\ pv2[x] = prev[x]
    BY <2>1, Zenon DEF nx2, pv2
  <2>3. Ring(g, F2, nx2, pv2)
    BY <2>2, RingKept, Zenon
  <2> QED  BY <2>3, Zenon DEF nx2, pv2
<1> QED  BY <1>11, <1>13, <1>14

\* Splicing the second list to the end of the first gives one ring of both.
LEMMA ListJoins ==
    ASSUME next \in [L!Nodes -> Int], prev \in [L!Nodes -> Int],
           NEW h \in L!Nodes, NEW E, NEW l \in L!Nodes, NEW F2, E \subseteq L!Nodes, F2 \subseteq L!Nodes,
           Ring(h, E, next, prev), Ring(l, F2, next, prev),
           (E \cup {h}) \cap (F2 \cup {l}) = {}, L!ListSpliceTail(l, h)
    PROVE  /\ next' \in [L!Nodes -> Int] /\ prev' \in [L!Nodes -> Int]
           /\ Ring(h, E \cup F2, next', prev')
<1>1. CASE next[l] = l
  <2>1. next' = next /\ prev' = prev
    BY <1>1 DEF L!ListSpliceTail
  <2>2. F2 = {} /\ E \cup F2 = E
    BY <1>1, RingEmpty
  <2> QED  BY <2>1, <2>2
<1>2. CASE next[l] # l
  <2>1. /\ next' = [next EXCEPT ![prev[h]] = next[l], ![prev[l]] = h]
        /\ prev' = [prev EXCEPT ![next[l]] = prev[h], ![h] = prev[l]]
    BY <1>2 DEF L!ListSpliceTail
  <2>2. PICK a \in E \cup {h}, b \in F2, c \in F2 : a = prev[h] /\ b = next[l] /\ c = prev[l]
    <3>1. next[l] \in F2 /\ prev[l] \in F2 /\ prev[h] \in E \cup {h}
      BY <1>2 DEF Ring
    <3> QED  BY <3>1
  <2>3. /\ a \in L!Nodes /\ b \in L!Nodes /\ c \in L!Nodes /\ a # c /\ b # h /\ c # h
        /\ a \in Int /\ b \in Int /\ c \in Int /\ h \in Int
    BY ListNodes
  <2>4. next' = [next EXCEPT ![a] = b, ![c] = h] /\ prev' = [prev EXCEPT ![b] = a, ![h] = c]
    BY <2>1, <2>2, Zenon
  <2>5. next' \in [L!Nodes -> Int] /\ prev' \in [L!Nodes -> Int]
    BY <2>3, <2>4
  <2>6. /\ next'[a] = b /\ next'[c] = h /\ \A x \in L!Nodes \ {a, c} : next'[x] = next[x]
        /\ prev'[b] = a /\ prev'[h] = c /\ \A x \in L!Nodes \ {b, h} : prev'[x] = prev[x]
    BY <2>3, <2>4
  <2>7. h \notin E \cup F2
    BY DEF Ring
  <2>8. /\ next'[prev[h]] = next[l] /\ next'[prev[l]] = h
        /\ \A x \in (E \cup {h} \cup F2) \ {prev[h], prev[l]} : next'[x] = next[x]
        /\ prev'[next[l]] = prev[h] /\ prev'[h] = prev[l]
        /\ \A x \in (E \cup F2) \ {next[l]} : prev'[x] = prev[x]
    BY <2>2, <2>6, <2>7
  <2> DEFINE nx2 == next'
             pv2 == prev'
  <2> HIDE DEF nx2, pv2
  <2>9. /\ nx2[prev[h]] = next[l] /\ nx2[prev[l]] = h
        /\ \A x \in (E \cup {h} \cup F2) \ {prev[h], prev[l]} : nx2[x] = next[x]
        /\ pv2[next[l]] = prev[h] /\ pv2[h] = prev[l]
        /\ \A x \in (E \cup F2) \ {next[l]} : pv2[x] = prev[x]
    BY <2>8, Zenon DEF nx2, pv2
  <2>10. Ring(h, E \cup F2, nx2, pv2)
    BY <1>2, <2>9, RingSplice, Zenon
  <2> QED  BY <2>5, <2>10, Zenon DEF nx2, pv2
<1> QED  BY <1>1, <1>2

\* INIT_LIST_HEAD makes a ring of nobody and leaves the rest alone.
LEMMA ListInits ==
    ASSUME next \in [L!Nodes -> Int], prev \in [L!Nodes -> Int], NEW h \in L!Nodes,
           L!InitHead(h), NEW E, E \subseteq L!Nodes, NEW g \in L!Nodes, h \notin E \cup {g},
           Ring(g, E, next, prev)
    PROVE  /\ next' \in [L!Nodes -> Int] /\ prev' \in [L!Nodes -> Int]
           /\ Ring(h, {}, next', prev') /\ Ring(g, E, next', prev')
<1>1. next' = [next EXCEPT ![h] = h] /\ prev' = [prev EXCEPT ![h] = h] /\ h \in Int
  BY ListNodes DEF L!InitHead
<1>2. /\ next' \in [L!Nodes -> Int] /\ prev' \in [L!Nodes -> Int]
      /\ next'[h] = h /\ prev'[h] = h
      /\ \A x \in L!Nodes \ {h} : next'[x] = next[x] /\ prev'[x] = prev[x]
  BY <1>1
<1>3. \A x \in E \cup {g} : next'[x] = next[x] /\ prev'[x] = prev[x]
  BY <1>2
<1> DEFINE nx2 == next'
           pv2 == prev'
<1> HIDE DEF nx2, pv2
<1>4. /\ nx2[h] = h /\ pv2[h] = h
      /\ \A x \in E \cup {g} : nx2[x] = next[x] /\ pv2[x] = prev[x]
  BY <1>2, <1>3, Zenon DEF nx2, pv2
<1>5. Ring(h, {}, nx2, pv2)
  BY <1>4, RingOfHead, Zenon
<1>6. Ring(g, E, nx2, pv2)
  BY <1>4, RingKept, Zenon
<1> QED  BY <1>2, <1>5, <1>6, Zenon DEF nx2, pv2

\* Every call of m_chr_init keeps the rings.
LEMMA RingStep == ASSUME RingInv, L!Next PROVE RingInv'
<1>0. /\ next \in [L!Nodes -> Int] /\ prev \in [L!Nodes -> Int] /\ ListSoFar
      /\ step # "init_list" => Ring(L!PersonList, OnList, next, prev)
      /\ step # "empty extra" => Ring(L!ExtraList, OnExtra, next, prev)
  BY DEF RingInv
<1>a. /\ lmem \subseteq L!Nodes /\ L!PersonList \in L!Nodes /\ L!ExtraList \in L!Nodes
      /\ L!PersonList \notin lmem /\ L!ExtraList \notin lmem /\ L!PersonList # L!ExtraList
  <2>1. /\ Added1 \subseteq Added6 /\ Added2 \subseteq Added6 /\ Added3 \subseteq Added6
        /\ Added4 \subseteq Added6 /\ Added5 \subseteq Added6
    <3>1. Added1 \subseteq Added2 /\ Added2 \subseteq Added3
      BY Zenon DEF Added2, Added3
    <3>2. Added3 \subseteq Added4 /\ Added4 \subseteq Added5
      BY Zenon DEF Added4, Added5
    <3>3. Added5 \subseteq Added6
      BY Zenon DEF Added6
    <3> QED  BY <3>1, <3>2, <3>3
  <2>2. lmem \subseteq Added6
    BY <1>0, <2>1 DEF ListSoFar
  <2>3. /\ Added6 \subseteq L!Nodes /\ L!PersonList \notin Added6 /\ L!ExtraList \notin Added6
        /\ L!PersonList \in L!Nodes /\ L!ExtraList \in L!Nodes /\ L!PersonList # L!ExtraList
    BY ListPersons, Zenon
  <2> QED  BY <2>2, <2>3
<1>1. OnList \cup OnExtra = lmem /\ OnExtra \subseteq Merged /\ OnList \cap OnExtra = {}
  <2>1. OnExtra \subseteq Merged /\ OnExtra \subseteq lmem
    BY Zenon DEF OnExtra
  <2> QED  BY <2>1, Zenon DEF OnList
<1>2. /\ L!PersonList \in L!Nodes /\ L!ExtraList \in L!Nodes
      /\ OnList \subseteq L!Nodes /\ OnExtra \subseteq L!Nodes
      /\ (OnList \cup {L!PersonList}) \cap (OnExtra \cup {L!ExtraList}) = {}
      /\ (OnExtra \cup {L!ExtraList}) \cap (OnList \cup {L!PersonList}) = {}
  <2>1. OnList \subseteq lmem /\ OnExtra \subseteq lmem
    BY <1>1, Zenon
  <2> QED  BY <1>a, <1>1, <2>1
<1>3. ASSUME L!InitList PROVE RingInv'
  <2>1. step = "init_list" /\ step' = "tail 20" /\ lmem' = lmem /\ L!InitHead(L!PersonList)
    BY <1>3, ListOrder, Zenon DEF L!InitList, L!Done
  <2>2. lmem = {}
    BY <1>0, <2>1 DEF ListSoFar
  <2>3. OnExtra' = {} /\ OnList' = {} /\ OnExtra = {}
    BY <2>1, <2>2 DEF OnExtra, OnList
  <2>4. Ring(L!ExtraList, {}, next, prev)
    BY <1>0, <2>1, <2>3
  <2>5. {} \subseteq L!Nodes /\ L!PersonList \notin {} \cup {L!ExtraList}
    BY <1>a
  <2>6. /\ next' \in [L!Nodes -> Int] /\ prev' \in [L!Nodes -> Int]
        /\ Ring(L!PersonList, {}, next', prev') /\ Ring(L!ExtraList, {}, next', prev')
    BY <1>0, <1>a, <2>1, <2>4, <2>5, ListInits
  <2>7. ListSoFar'
    BY <2>1, <2>2 DEF ListSoFar
  <2> QED  BY <2>3, <2>6, <2>7 DEF RingInv
<1>4. ASSUME L!AllocFails({"tail 20", "tail 40", "head 10", "sorted 30", "merge 300", "merge 400"})
      PROVE RingInv'
  <2>1. /\ step \in {"tail 20", "tail 40", "head 10", "sorted 30", "merge 300", "merge 400"}
        /\ step' = L!Calls[L!At(step) + 1] /\ next' = next /\ prev' = prev /\ lmem' = lmem
    BY <1>4, Zenon DEF L!AllocFails, L!Done
  <2>2. \/ step = "tail 20" /\ step' = "tail 40"
        \/ step = "tail 40" /\ step' = "head 10"
        \/ step = "head 10" /\ step' = "sorted 30"
        \/ step = "sorted 30" /\ step' = "delete 40"
        \/ step = "merge 300" /\ step' = "merge 400"
        \/ step = "merge 400" /\ step' = "splice"
    BY <2>1, ListOrder, Zenon
  <2>3. ListSoFar'
    <3>1. CASE step = "tail 20" /\ step' = "tail 40"
      <4>1. lmem \subseteq {}
        BY <1>0, <3>1 DEF ListSoFar
      <4>2. lmem' \subseteq Added1
        BY <2>1, <4>1 DEF Added1
      <4> QED  BY <3>1, <4>2 DEF ListSoFar
    <3>2. CASE step = "tail 40" /\ step' = "head 10"
      <4>1. lmem \subseteq Added1
        BY <1>0, <3>2 DEF ListSoFar
      <4>2. lmem' \subseteq Added2
        BY <2>1, <4>1 DEF Added2
      <4> QED  BY <3>2, <4>2 DEF ListSoFar
    <3>3. CASE step = "head 10" /\ step' = "sorted 30"
      <4>1. lmem \subseteq Added2
        BY <1>0, <3>3 DEF ListSoFar
      <4>2. lmem' \subseteq Added3
        BY <2>1, <4>1 DEF Added3
      <4> QED  BY <3>3, <4>2 DEF ListSoFar
    <3>4. CASE step = "sorted 30" /\ step' = "delete 40"
      <4>1. lmem \subseteq Added3
        BY <1>0, <3>4 DEF ListSoFar
      <4>2. lmem' \subseteq Added4
        BY <2>1, <4>1 DEF Added4
      <4> QED  BY <3>4, <4>2 DEF ListSoFar
    <3>5. CASE step = "merge 300" /\ step' = "merge 400"
      <4>1. lmem \subseteq Added4
        BY <1>0, <3>5 DEF ListSoFar
      <4>2. lmem' \subseteq Added5
        BY <2>1, <4>1 DEF Added5
      <4> QED  BY <3>5, <4>2 DEF ListSoFar
    <3>6. CASE step = "merge 400" /\ step' = "splice"
      <4>1. lmem \subseteq Added5
        BY <1>0, <3>6 DEF ListSoFar
      <4>2. lmem' \subseteq Added6
        BY <2>1, <4>1 DEF Added6
      <4> QED  BY <3>6, <4>2 DEF ListSoFar
    <3> QED  BY <2>2, <3>1, <3>2, <3>3, <3>4, <3>5, <3>6
  <2>4. /\ step \notin {"init_list", "empty extra", "clear", "return"}
        /\ step' \notin {"init_list", "empty extra", "clear", "return"}
    BY <2>2
  <2>5. OnExtra' = OnExtra /\ OnList' = OnList
    BY <2>1, <2>4 DEF OnExtra, OnList
  <2> QED  BY <1>0, <2>1, <2>3, <2>4, <2>5 DEF RingInv
\* A person is added to the first list.
<1>5. ASSUME NEW id \in L!Nodes, id \notin Merged, id \notin lmem \cup L!Heads, NEW p \in OnList \cup {L!PersonList}, NEW q,
             q = next[p], L!ListAdd(id, p, q), lmem' = lmem \cup {id},
             step \notin {"init_list", "empty extra", "clear", "return"},
             step' \notin {"init_list", "empty extra", "clear", "return"}, ListSoFar'
      PROVE  RingInv'
  <2>1. OnExtra' = OnExtra /\ OnList' = OnList \cup {id}
    <3>1. /\ OnExtra = lmem \cap Merged /\ OnExtra' = lmem' \cap Merged
          /\ OnList = lmem \ OnExtra /\ OnList' = lmem' \ OnExtra'
      BY <1>5 DEF OnExtra, OnList
    <3> QED  BY <1>5, <3>1
  <2>2. id \in L!Nodes /\ id \notin OnList \cup {L!PersonList} \cup OnExtra \cup {L!ExtraList}
    BY <1>1, <1>5, Zenon DEF L!Heads
  <2>3. Ring(L!PersonList, OnList, next, prev) /\ Ring(L!ExtraList, OnExtra, next, prev)
    BY <1>0, <1>5
  <2>4. /\ next' \in [L!Nodes -> Int] /\ prev' \in [L!Nodes -> Int]
        /\ Ring(L!PersonList, OnList \cup {id}, next', prev') /\ Ring(L!ExtraList, OnExtra, next', prev')
    <3>1. /\ next \in [L!Nodes -> Int] /\ prev \in [L!Nodes -> Int]
          /\ p \in OnList \cup {L!PersonList} /\ q = next[p] /\ L!ListAdd(id, p, q)
      BY <1>0, <1>5, Zenon
    <3> QED  BY <1>2, <2>2, <2>3, <3>1, ListGrows
  <2> QED  BY <1>5, <2>1, <2>4 DEF RingInv
\* And one to the second.
<1>6. ASSUME NEW id \in L!Nodes, id \in Merged, id \notin lmem \cup L!Heads, NEW p \in OnExtra \cup {L!ExtraList}, NEW q,
             q = next[p], L!ListAdd(id, p, q), lmem' = lmem \cup {id},
             step \notin {"init_list", "empty extra", "clear", "return"},
             step' \notin {"init_list", "empty extra", "clear", "return"}, ListSoFar'
      PROVE  RingInv'
  <2>1. OnExtra' = OnExtra \cup {id} /\ OnList' = OnList
    <3>1. /\ OnExtra = lmem \cap Merged /\ OnExtra' = lmem' \cap Merged
          /\ OnList = lmem \ OnExtra /\ OnList' = lmem' \ OnExtra'
      BY <1>6 DEF OnExtra, OnList
    <3> QED  BY <1>6, <3>1
  <2>2. id \in L!Nodes /\ id \notin OnExtra \cup {L!ExtraList} \cup OnList \cup {L!PersonList}
    BY <1>1, <1>6, Zenon DEF L!Heads
  <2>3. Ring(L!PersonList, OnList, next, prev) /\ Ring(L!ExtraList, OnExtra, next, prev)
    BY <1>0, <1>6
  <2>4. /\ next' \in [L!Nodes -> Int] /\ prev' \in [L!Nodes -> Int]
        /\ Ring(L!ExtraList, OnExtra \cup {id}, next', prev') /\ Ring(L!PersonList, OnList, next', prev')
    <3>1. /\ next \in [L!Nodes -> Int] /\ prev \in [L!Nodes -> Int]
          /\ p \in OnExtra \cup {L!ExtraList} /\ q = next[p] /\ L!ListAdd(id, p, q)
      BY <1>0, <1>6, Zenon
    <3> QED  BY <1>2, <2>2, <2>3, <3>1, ListGrows
  <2> QED  BY <1>6, <2>1, <2>4 DEF RingInv
\* Both heads are rings, and what follows what goes before them.
<1>7. ASSUME step \notin {"init_list", "empty extra", "clear", "return"}
      PROVE  /\ \A x \in OnList \cup {L!PersonList} : prev[x] \in OnList \cup {L!PersonList} /\ next[prev[x]] = x
             /\ \A x \in OnExtra \cup {L!ExtraList} : prev[x] \in OnExtra \cup {L!ExtraList} /\ next[prev[x]] = x
  BY <1>0, <1>7 DEF Ring
<1>8. ASSUME L!Call("tail 20", L!AddPersonTail(L!PersonList, 20)) PROVE RingInv'
  <2>1. /\ step = "tail 20" /\ step' = "tail 40" /\ lmem' = lmem \cup {20}
        /\ L!ListAdd(20, prev[L!PersonList], L!PersonList)
    BY <1>8, ListOrder, Zenon DEF L!Call, L!AddPersonTail, L!Alloc, L!Done
  <2>2. 20 \in L!Nodes /\ 20 \notin lmem \cup L!Heads /\ 20 \notin Merged /\ ListSoFar'
    <3>1. lmem \subseteq {}
      BY <1>0, <2>1 DEF ListSoFar
    <3>2. 20 \in L!Nodes /\ 20 \notin lmem \cup L!Heads /\ 20 \notin Merged
      <4>1. 20 \in L!Nodes /\ 20 \notin L!Heads /\ 20 \notin Merged /\ 20 \notin {}
        BY ListPersons, Zenon
      <4> QED  BY <3>1, <4>1, Zenon
    <3>3. lmem' \subseteq Added1
      BY <2>1, <3>1, Zenon DEF Added1
    <3>4. ListSoFar'
      BY <2>1, <3>3 DEF ListSoFar
    <3> QED  BY <3>2, <3>4
  <2>3. /\ step \notin {"init_list", "empty extra", "clear", "return"}
        /\ step' \notin {"init_list", "empty extra", "clear", "return"}
    BY <2>1
  <2>4. prev[L!PersonList] \in OnList \cup {L!PersonList} /\ L!PersonList = next[prev[L!PersonList]]
    BY <1>7, <2>3
  <2>5. PICK p : p = prev[L!PersonList]
    OBVIOUS
  <2>7. p \in OnList \cup {L!PersonList} /\ L!PersonList = next[p] /\ L!ListAdd(20, p, L!PersonList)
    BY <2>1, <2>4, <2>5, Zenon
  <2>6. lmem' = lmem \cup {20}
    BY <2>1
  <2> QED  BY <1>5, <2>2, <2>3, <2>6, <2>7, ZenonT(30)
<1>9. ASSUME L!Call("tail 40", L!AddPersonTail(L!PersonList, 40)) PROVE RingInv'
  <2>1. /\ step = "tail 40" /\ step' = "head 10" /\ lmem' = lmem \cup {40}
        /\ L!ListAdd(40, prev[L!PersonList], L!PersonList)
    BY <1>9, ListOrder, Zenon DEF L!Call, L!AddPersonTail, L!Alloc, L!Done
  <2>2. 40 \in L!Nodes /\ 40 \notin lmem \cup L!Heads /\ 40 \notin Merged /\ ListSoFar'
    <3>1. lmem \subseteq Added1
      BY <1>0, <2>1 DEF ListSoFar
    <3>2. 40 \in L!Nodes /\ 40 \notin lmem \cup L!Heads /\ 40 \notin Merged
      <4>1. 40 \in L!Nodes /\ 40 \notin L!Heads /\ 40 \notin Merged /\ 40 \notin Added1
        BY ListPersons, Zenon
      <4> QED  BY <3>1, <4>1, Zenon
    <3>3. lmem' \subseteq Added2
      BY <2>1, <3>1, Zenon DEF Added2
    <3>4. ListSoFar'
      BY <2>1, <3>3 DEF ListSoFar
    <3> QED  BY <3>2, <3>4
  <2>3. /\ step \notin {"init_list", "empty extra", "clear", "return"}
        /\ step' \notin {"init_list", "empty extra", "clear", "return"}
    BY <2>1
  <2>4. prev[L!PersonList] \in OnList \cup {L!PersonList} /\ L!PersonList = next[prev[L!PersonList]]
    BY <1>7, <2>3
  <2>5. PICK p : p = prev[L!PersonList]
    OBVIOUS
  <2>7. p \in OnList \cup {L!PersonList} /\ L!PersonList = next[p] /\ L!ListAdd(40, p, L!PersonList)
    BY <2>1, <2>4, <2>5, Zenon
  <2>6. lmem' = lmem \cup {40}
    BY <2>1
  <2> QED  BY <1>5, <2>2, <2>3, <2>6, <2>7, ZenonT(30)
<1>10. ASSUME L!Call("head 10", L!AddPersonHead(L!PersonList, 10)) PROVE RingInv'
  <2>1. /\ step = "head 10" /\ step' = "sorted 30" /\ lmem' = lmem \cup {10}
        /\ L!ListAdd(10, L!PersonList, next[L!PersonList])
    BY <1>10, ListOrder, Zenon DEF L!Call, L!AddPersonHead, L!Alloc, L!Done
  <2>2. 10 \in L!Nodes /\ 10 \notin lmem \cup L!Heads /\ 10 \notin Merged /\ ListSoFar'
    <3>1. lmem \subseteq Added2
      BY <1>0, <2>1 DEF ListSoFar
    <3>2. 10 \in L!Nodes /\ 10 \notin lmem \cup L!Heads /\ 10 \notin Merged
      <4>1. 10 \in L!Nodes /\ 10 \notin L!Heads /\ 10 \notin Merged /\ 10 \notin Added2
        BY ListPersons, Zenon
      <4> QED  BY <3>1, <4>1, Zenon
    <3>3. lmem' \subseteq Added3
      BY <2>1, <3>1, Zenon DEF Added3
    <3>4. ListSoFar'
      BY <2>1, <3>3 DEF ListSoFar
    <3> QED  BY <3>2, <3>4
  <2>3. /\ step \notin {"init_list", "empty extra", "clear", "return"}
        /\ step' \notin {"init_list", "empty extra", "clear", "return"}
    BY <2>1
  <2>4. L!PersonList \in OnList \cup {L!PersonList}
    OBVIOUS
  <2>5. PICK q : q = next[L!PersonList] /\ L!ListAdd(10, L!PersonList, q)
    BY <2>1
  <2> QED  BY <1>5, <2>1, <2>2, <2>3, <2>4, <2>5, Zenon
<1>11. ASSUME L!Call("sorted 30", L!InsertPersonSorted(L!PersonList, 30)) PROVE RingInv'
  <2>1. PICK x : /\ x = L!FirstNode(L!PersonList, {n_1 \in L!Persons : 30 < n_1})
                 /\ step = "sorted 30" /\ step' = "delete 40" /\ lmem' = lmem \cup {30}
                 /\ L!ListAdd(30, prev[x], x)
    BY <1>11, ListOrder, Zenon DEF L!Call, L!InsertPersonSorted, L!Alloc, L!Done
  <2>2. 30 \in L!Nodes /\ 30 \notin lmem \cup L!Heads /\ 30 \notin Merged /\ ListSoFar'
    <3>1. lmem \subseteq Added3
      BY <1>0, <2>1 DEF ListSoFar
    <3>2. 30 \in L!Nodes /\ 30 \notin lmem \cup L!Heads /\ 30 \notin Merged
      <4>1. 30 \in L!Nodes /\ 30 \notin L!Heads /\ 30 \notin Merged /\ 30 \notin Added3
        BY ListPersons, Zenon
      <4> QED  BY <3>1, <4>1, Zenon
    <3>3. lmem' \subseteq Added4
      BY <2>1, <3>1, Zenon DEF Added4
    <3>4. ListSoFar'
      BY <2>1, <3>3 DEF ListSoFar
    <3> QED  BY <3>2, <3>4
  <2>3. /\ step \notin {"init_list", "empty extra", "clear", "return"}
        /\ step' \notin {"init_list", "empty extra", "clear", "return"}
    BY <2>1
  <2>4. x \in OnList \cup {L!PersonList}
    <3>1. OnList \subseteq {10, 20, 30, 40}
      <4>1. lmem \subseteq Added4
        BY <1>0, <2>1 DEF ListSoFar, Added4
      <4> QED  BY <1>1, <4>1, ListPersons
    <3>2. Ring(L!PersonList, OnList, next, prev)
      BY <1>0, <2>3
    <3>3. L!PersonList \in L!Heads /\ OnList \subseteq {10, 20, 30, 40, 300, 400}
      BY <3>1 DEF L!Heads
    <3> QED  BY <2>1, <3>2, <3>3, ListFound, Zenon
  <2>5. prev[x] \in OnList \cup {L!PersonList} /\ x = next[prev[x]]
    BY <1>7, <2>3, <2>4
  <2> QED  BY <1>5, <2>1, <2>2, <2>3, <2>5, Zenon
<1>12. ASSUME L!Call("delete 40", L!DeletePersonById(L!PersonList, 40)) PROVE RingInv'
  <2>1. PICK x : /\ x = L!FirstNode(L!PersonList, {40})
                 /\ step = "delete 40" /\ step' = "move"
                 /\ IF x = L!PersonList THEN UNCHANGED <<next, prev, lmem>>
                    ELSE L!ListDel(x) /\ lmem' = lmem \ {x}
    BY <1>12, ListOrder, Zenon DEF L!Call, L!DeletePersonById, L!Done
  <2>2. lmem \subseteq Added4
    BY <1>0, <2>1 DEF ListSoFar
  <2>3. Ring(L!PersonList, OnList, next, prev) /\ Ring(L!ExtraList, OnExtra, next, prev)
    BY <1>0, <2>1
  <2>4. x \in OnList \cup {L!PersonList}
    <3>1. OnList \subseteq {10, 20, 30, 40}
      BY <1>1, <2>2, ListPersons
    <3>2. L!PersonList \in L!Heads /\ OnList \subseteq {10, 20, 30, 40, 300, 400}
      BY <3>1 DEF L!Heads
    <3>3. PICK stop : stop = {40}
      OBVIOUS
    <3>4. x = L!FirstNode(L!PersonList, stop) /\ Ring(L!PersonList, OnList, next, prev)
      BY <2>1, <2>3, <3>3, Zenon
    <3> QED  BY <3>2, <3>4, ListFound, Zenon
  <2>8. lmem \cap Merged = {}
    <3>1. Added4 \cap Merged = {}
      BY ListPersons, Zenon
    <3> QED  BY <2>2, <3>1
  <2>5. OnExtra = {} /\ OnList = lmem /\ OnExtra' = lmem' \cap Merged /\ OnList' = lmem' \ OnExtra'
    BY <2>1, <2>8 DEF OnExtra, OnList
  <2>6. CASE x = L!PersonList
    <3>1. next' = next /\ prev' = prev /\ lmem' = lmem
      BY <2>1, <2>6
    <3>2. OnExtra' = OnExtra /\ OnList' = OnList
      BY <2>5, <2>8, <3>1
    <3>3. ListSoFar'
      BY <2>1, <2>2, <3>1 DEF ListSoFar
    <3> QED  BY <1>0, <2>3, <3>1, <3>2, <3>3 DEF RingInv
  <2>7. CASE x # L!PersonList
    <3>1. x \in OnList /\ L!ListDel(x) /\ lmem' = lmem \ {x}
      BY <2>1, <2>4, <2>7
    <3>2. OnExtra' = OnExtra /\ OnList' = OnList \ {x}
      BY <2>5, <2>8, <3>1
    <3>3. ListSoFar'
      BY <2>1, <2>2, <3>1 DEF ListSoFar
    <3>4. /\ next' \in [L!Nodes -> Int] /\ prev' \in [L!Nodes -> Int]
          /\ Ring(L!PersonList, OnList \ {x}, next', prev') /\ Ring(L!ExtraList, OnExtra, next', prev')
      BY <1>0, <1>2, <2>3, <3>1, ListShrinks
    <3> QED  BY <3>2, <3>3, <3>4 DEF RingInv
  <2> QED  BY <2>6, <2>7
<1>13. ASSUME L!Call("move", L!MoveHeadToTail(L!PersonList)) PROVE RingInv'
  <2>1. /\ step = "move" /\ step' = "merge 300" /\ lmem' = lmem
        /\ IF next[L!PersonList] = L!PersonList THEN UNCHANGED <<next, prev>>
           ELSE L!ListMoveTail(next[L!PersonList], L!PersonList)
    BY <1>13, ListOrder, Zenon DEF L!Call, L!MoveHeadToTail, L!Done
  <2>2. Ring(L!PersonList, OnList, next, prev) /\ Ring(L!ExtraList, OnExtra, next, prev)
    BY <1>0, <2>1
  <2>3. OnExtra' = OnExtra /\ OnList' = OnList
    BY <2>1 DEF OnExtra, OnList
  <2>4. ListSoFar'
    BY <1>0, <2>1 DEF ListSoFar
  <2>5. CASE next[L!PersonList] = L!PersonList
    <3>1. next' = next /\ prev' = prev
      BY <2>1, <2>5
    <3> QED  BY <1>0, <2>2, <2>3, <2>4, <3>1 DEF RingInv
  <2>6. CASE next[L!PersonList] # L!PersonList
    <3>1. /\ next' \in [L!Nodes -> Int] /\ prev' \in [L!Nodes -> Int]
          /\ Ring(L!PersonList, OnList, next', prev') /\ Ring(L!ExtraList, OnExtra, next', prev')
      BY <1>0, <1>2, <2>1, <2>2, <2>6, ListMoves
    <3> QED  BY <2>3, <2>4, <3>1 DEF RingInv
  <2> QED  BY <2>5, <2>6
<1>14. ASSUME L!Call("merge 300", L!MergeAdd(300)) PROVE RingInv'
  <2>1. /\ step = "merge 300" /\ step' = "merge 400" /\ lmem' = lmem \cup {300}
        /\ L!ListAdd(300, prev[L!ExtraList], L!ExtraList)
    BY <1>14, ListOrder, Zenon DEF L!Call, L!MergeAdd, L!AddPersonTail, L!Alloc, L!Done
  <2>2. 300 \in L!Nodes /\ 300 \notin lmem \cup L!Heads /\ 300 \in Merged /\ ListSoFar'
    <3>1. lmem \subseteq Added4
      BY <1>0, <2>1 DEF ListSoFar
    <3>2. 300 \in L!Nodes /\ 300 \notin lmem \cup L!Heads /\ 300 \in Merged
      <4>1. 300 \in L!Nodes /\ 300 \notin L!Heads /\ 300 \in Merged /\ 300 \notin Added4
        BY ListPersons, Zenon
      <4> QED  BY <3>1, <4>1, Zenon
    <3>3. lmem' \subseteq Added5
      <4>1. lmem' = lmem \cup {300}
        BY <2>1
      <4> QED  BY <3>1, <4>1 DEF Added5
    <3>4. ListSoFar'
      BY <2>1, <3>3 DEF ListSoFar
    <3> QED  BY <3>2, <3>4
  <2>3. /\ step \notin {"init_list", "empty extra", "clear", "return"}
        /\ step' \notin {"init_list", "empty extra", "clear", "return"}
    BY <2>1
  <2>4. prev[L!ExtraList] \in OnExtra \cup {L!ExtraList} /\ L!ExtraList = next[prev[L!ExtraList]]
    BY <1>7, <2>3
  <2>5. PICK p : p = prev[L!ExtraList]
    OBVIOUS
  <2>7. p \in OnExtra \cup {L!ExtraList} /\ L!ExtraList = next[p] /\ L!ListAdd(300, p, L!ExtraList)
    BY <2>1, <2>4, <2>5, Zenon
  <2>6. lmem' = lmem \cup {300}
    BY <2>1
  <2> QED  BY <1>6, <2>2, <2>3, <2>6, <2>7, ZenonT(60)
<1>15. ASSUME L!Call("merge 400", L!MergeAdd(400)) PROVE RingInv'
  <2>1. /\ step = "merge 400" /\ step' = "splice" /\ lmem' = lmem \cup {400}
        /\ L!ListAdd(400, prev[L!ExtraList], L!ExtraList)
    BY <1>15, ListOrder, Zenon DEF L!Call, L!MergeAdd, L!AddPersonTail, L!Alloc, L!Done
  <2>2. 400 \in L!Nodes /\ 400 \notin lmem \cup L!Heads /\ 400 \in Merged /\ ListSoFar'
    <3>1. lmem \subseteq Added5
      BY <1>0, <2>1 DEF ListSoFar
    <3>2. 400 \in L!Nodes /\ 400 \notin lmem \cup L!Heads /\ 400 \in Merged
      <4>1. 400 \in L!Nodes /\ 400 \notin L!Heads /\ 400 \in Merged /\ 400 \notin Added5
        BY ListPersons, Zenon
      <4> QED  BY <3>1, <4>1, Zenon
    <3>3. lmem' \subseteq Added6
      <4>1. lmem' = lmem \cup {400}
        BY <2>1
      <4> QED  BY <3>1, <4>1 DEF Added6
    <3>4. ListSoFar'
      BY <2>1, <3>3 DEF ListSoFar
    <3> QED  BY <3>2, <3>4
  <2>3. /\ step \notin {"init_list", "empty extra", "clear", "return"}
        /\ step' \notin {"init_list", "empty extra", "clear", "return"}
    BY <2>1
  <2>4. prev[L!ExtraList] \in OnExtra \cup {L!ExtraList} /\ L!ExtraList = next[prev[L!ExtraList]]
    BY <1>7, <2>3
  <2>5. PICK p : p = prev[L!ExtraList]
    OBVIOUS
  <2>7. p \in OnExtra \cup {L!ExtraList} /\ L!ExtraList = next[p] /\ L!ListAdd(400, p, L!ExtraList)
    BY <2>1, <2>4, <2>5, Zenon
  <2>6. lmem' = lmem \cup {400}
    BY <2>1
  <2> QED  BY <1>6, <2>2, <2>3, <2>6, <2>7, ZenonT(60)
<1>16. ASSUME L!Call("splice", L!MergeSplice(L!PersonList)) PROVE RingInv'
  <2>1. /\ step = "splice" /\ step' = "empty extra" /\ lmem' = lmem
        /\ L!ListSpliceTail(L!ExtraList, L!PersonList)
    BY <1>16, ListOrder, Zenon DEF L!Call, L!MergeSplice, L!Done
  <2>2. Ring(L!PersonList, OnList, next, prev) /\ Ring(L!ExtraList, OnExtra, next, prev)
    BY <1>0, <2>1
  <2>3. OnList' = OnList \cup OnExtra
    <3>1. OnExtra' = {}
      BY <2>1 DEF OnExtra
    <3> QED  BY <1>1, <2>1, <3>1 DEF OnList
  <2>4. ListSoFar'
    BY <1>0, <2>1 DEF ListSoFar
  <2>5. /\ next' \in [L!Nodes -> Int] /\ prev' \in [L!Nodes -> Int]
        /\ Ring(L!PersonList, OnList \cup OnExtra, next', prev')
    BY <1>0, <1>2, <2>1, <2>2, ListJoins
  <2> QED  BY <2>1, <2>3, <2>4, <2>5 DEF RingInv
<1>17. ASSUME L!Call("empty extra", L!MergeEmpties) PROVE RingInv'
  <2>1. step = "empty extra" /\ step' = "clear" /\ lmem' = lmem /\ L!InitHead(L!ExtraList)
    BY <1>17, ListOrder, Zenon DEF L!Call, L!MergeEmpties, L!Done
  <2>2. Ring(L!PersonList, OnList, next, prev)
    BY <1>0, <2>1
  <2>3. OnList' = OnList /\ OnExtra' = {}
    BY <2>1 DEF OnExtra, OnList
  <2>4. ListSoFar'
    BY <1>0, <2>1 DEF ListSoFar
  <2>5. L!ExtraList \notin OnList \cup {L!PersonList}
    BY <1>2
  <2>6. /\ next' \in [L!Nodes -> Int] /\ prev' \in [L!Nodes -> Int]
        /\ Ring(L!ExtraList, {}, next', prev') /\ Ring(L!PersonList, OnList, next', prev')
    BY <1>0, <1>2, <2>1, <2>2, <2>5, ListInits
  <2> QED  BY <2>3, <2>4, <2>6 DEF RingInv
<1>18. ASSUME L!ClearOne(L!PersonList) PROVE RingInv'
  <2>1. /\ step = "clear" /\ step' = step /\ next[L!PersonList] # L!PersonList
        /\ L!ListDel(next[L!PersonList]) /\ lmem' = lmem \ {next[L!PersonList]}
    BY <1>18 DEF L!ClearOne
  <2>2. Ring(L!PersonList, OnList, next, prev) /\ Ring(L!ExtraList, OnExtra, next, prev)
    BY <1>0, <2>1
  <2>3. PICK x \in OnList : x = next[L!PersonList]
    BY <2>1, <2>2 DEF Ring
  <2>4. OnList' = OnList \ {x} /\ OnExtra' = OnExtra
    BY <1>1, <2>1, <2>3 DEF OnExtra, OnList
  <2>5. ListSoFar'
    BY <1>0, <2>1 DEF ListSoFar
  <2>6. /\ next' \in [L!Nodes -> Int] /\ prev' \in [L!Nodes -> Int]
        /\ Ring(L!PersonList, OnList \ {x}, next', prev') /\ Ring(L!ExtraList, OnExtra, next', prev')
    BY <1>0, <1>2, <2>1, <2>2, <2>3, ListShrinks
  <2> QED  BY <2>4, <2>5, <2>6 DEF RingInv
<1>19. ASSUME L!ClearEnds(L!PersonList) PROVE RingInv'
  <2>1. /\ step = "clear" /\ step' = "return" /\ next[L!PersonList] = L!PersonList
        /\ next' = next /\ prev' = prev /\ lmem' = lmem
    BY <1>19, ListOrder, Zenon DEF L!ClearEnds, L!Done
  <2>2. Ring(L!PersonList, OnList, next, prev) /\ Ring(L!ExtraList, OnExtra, next, prev)
    BY <1>0, <2>1
  <2>3. OnList = {} /\ OnExtra = {} /\ lmem = {}
    <3>1. OnList = {}
      BY <2>1, <2>2, RingEmpty
    <3> QED  BY <1>1, <2>1, <3>1 DEF OnExtra
  <2>4. OnList' = {} /\ OnExtra' = {} /\ ListSoFar'
    BY <2>1, <2>3 DEF OnExtra, OnList, ListSoFar
  <2> QED  BY <1>0, <2>1, <2>2, <2>3, <2>4 DEF RingInv
<1> QED  BY <1>3, <1>4, <1>8, <1>9, <1>10, <1>11, <1>12, <1>13, <1>14, <1>15, <1>16, <1>17, <1>18, <1>19
         DEF L!Next

(* While persons are added to the first list, its links rise up to the end: *)
(* that is what the sorted insert relies on and keeps.                      *)
Adding == {"init_list", "tail 20", "tail 40", "head 10", "sorted 30", "delete 40"}
Rising ==
    step \in Adding => \A x \in OnList : next[x] = L!PersonList \/ x < next[x]
ListInv == RingInv /\ Rising

\* What may be on the first list while persons are added to it.
LEMMA ListBelow ==
    ASSUME RingInv
    PROVE  /\ lmem \subseteq Added6 /\ Added6 = {10, 20, 30, 40, 300, 400}
           /\ OnList \subseteq lmem /\ OnExtra \subseteq lmem
           /\ step \in {"init_list", "tail 20"} => OnList = {}
           /\ step = "tail 40" => OnList \subseteq {20}
           /\ step = "head 10" => OnList \subseteq {20, 40}
           /\ step = "sorted 30" => OnList \subseteq {10, 20, 40}
<1>1. /\ Added1 = {20} /\ Added2 = {20, 40} /\ Added3 = {10, 20, 40} /\ Added4 = {10, 20, 30, 40}
      /\ Added5 = {10, 20, 30, 40, 300} /\ Added6 = {10, 20, 30, 40, 300, 400}
  <2>1. Added1 = {20} /\ Added2 = {20, 40}
    BY DEF Added1, Added2
  <2>2. Added3 = {10, 20, 40}
    BY <2>1 DEF Added3
  <2>3. Added4 = {10, 20, 30, 40}
    BY <2>2 DEF Added4
  <2>4. Added5 = {10, 20, 30, 40, 300}
    BY <2>3 DEF Added5
  <2>5. Added6 = {10, 20, 30, 40, 300, 400}
    BY <2>4 DEF Added6
  <2> QED  BY <2>1, <2>2, <2>3, <2>4, <2>5
<1>2. ListSoFar
  BY DEF RingInv
<1>3. lmem \subseteq Added6
  <2>1. /\ {} \subseteq Added6 /\ Added1 \subseteq Added6 /\ Added2 \subseteq Added6
        /\ Added3 \subseteq Added6 /\ Added4 \subseteq Added6 /\ Added5 \subseteq Added6
    BY <1>1
  <2> QED  BY <1>2, <2>1 DEF ListSoFar
<1>4. OnList \subseteq lmem /\ OnExtra \subseteq lmem
  BY Zenon DEF OnList, OnExtra
<1>5. /\ step \in {"init_list", "tail 20"} => lmem = {}
      /\ step = "tail 40" => lmem \subseteq {20}
      /\ step = "head 10" => lmem \subseteq {20, 40}
      /\ step = "sorted 30" => lmem \subseteq {10, 20, 40}
  BY <1>1, <1>2 DEF ListSoFar
<1>6. /\ step \in {"init_list", "tail 20"} => OnList = {}
      /\ step = "tail 40" => OnList \subseteq {20}
      /\ step = "head 10" => OnList \subseteq {20, 40}
      /\ step = "sorted 30" => OnList \subseteq {10, 20, 40}
  BY <1>4, <1>5
<1> QED  BY <1>1, <1>3, <1>4, <1>6, Zenon

\* No person is on a list at the start.
LEMMA ListStart == ASSUME L!Init PROVE ListInv
<1>1. RingInv /\ step = "init_list"
  BY RingStart DEF L!Init
<1>2. OnList = {}
  BY <1>1, ListBelow
<1> QED  BY <1>1, <1>2 DEF ListInv, Rising

\* A person added between a smaller and a larger one, or the head, lets the
\* links rise.
LEMMA RisingAdd ==
    ASSUME next \in [L!Nodes -> Int], NEW E, E \subseteq {10, 20, 30, 40},
           \A x \in E : next[x] = L!PersonList \/ x < next[x],
           NEW id \in {10, 20, 30, 40}, id \notin E,
           NEW p \in E \cup {L!PersonList}, NEW q, p = L!PersonList \/ p < id,
           q = L!PersonList \/ id < q, L!ListAdd(id, p, q)
    PROVE  \A x \in E \cup {id} : next'[x] = L!PersonList \/ x < next'[x]
<1>1. next' = [next EXCEPT ![id] = q, ![p] = id]
  BY DEF L!ListAdd
<1>2. L!PersonList = 0 /\ id \in L!Nodes /\ p \in L!Nodes /\ E \subseteq L!Nodes /\ id # p
  BY ListNodes DEF L!PersonList
<1>3. next'[id] = q /\ next'[p] = id /\ \A x \in L!Nodes \ {id, p} : next'[x] = next[x]
  BY <1>1, <1>2
<1> DEFINE nx2 == next'
<1> HIDE DEF nx2
<1>4. nx2[id] = q /\ nx2[p] = id /\ \A x \in L!Nodes \ {id, p} : nx2[x] = next[x]
  BY <1>3, Zenon DEF nx2
<1>5. ASSUME NEW x \in E \cup {id} PROVE nx2[x] = L!PersonList \/ x < nx2[x]
  <2>1. CASE x = id
    BY <1>4, <2>1
  <2>2. CASE x = p
    BY <1>2, <1>4, <2>2
  <2>3. CASE x # id /\ x # p
    BY <1>2, <1>4, <2>3
  <2> QED  BY <2>1, <2>2, <2>3
<1> QED  BY <1>5, Zenon DEF nx2

\* Each call that adds to the first list lets its links rise.
LEMMA RisingStep == ASSUME RingInv, Rising, L!Next PROVE Rising'
<1>0. /\ next \in [L!Nodes -> Int] /\ prev \in [L!Nodes -> Int]
      /\ step # "init_list" => Ring(L!PersonList, OnList, next, prev)
  BY DEF RingInv
<1>a. L!PersonList = 0 /\ L!PersonList \in L!Heads
  BY DEF L!PersonList, L!Heads
<1>1. ASSUME L!InitList PROVE Rising'
  <2>1. step = "init_list" /\ step' = "tail 20" /\ lmem' = lmem
    BY <1>1, ListOrder, Zenon DEF L!InitList, L!Done
  <2>2. lmem = {}
    BY <2>1 DEF RingInv, ListSoFar
  <2>3. OnList' = {}
    BY <2>1, <2>2 DEF OnList
  <2> QED  BY <2>3 DEF Rising
<1>2. ASSUME L!AllocFails({"tail 20", "tail 40", "head 10", "sorted 30", "merge 300", "merge 400"})
      PROVE Rising'
  <2>1. /\ step \in {"tail 20", "tail 40", "head 10", "sorted 30", "merge 300", "merge 400"}
        /\ step' = L!Calls[L!At(step) + 1] /\ next' = next /\ lmem' = lmem
    BY <1>2, Zenon DEF L!AllocFails, L!Done
  <2>2. \/ step = "tail 20" /\ step' = "tail 40"
        \/ step = "tail 40" /\ step' = "head 10"
        \/ step = "head 10" /\ step' = "sorted 30"
        \/ step = "sorted 30" /\ step' = "delete 40"
        \/ step = "merge 300" /\ step' = "merge 400"
        \/ step = "merge 400" /\ step' = "splice"
    BY <2>1, ListOrder, Zenon
  <2>3. /\ step \notin {"empty extra", "clear", "return"} /\ step' \notin {"empty extra", "clear", "return"}
        /\ step' \in Adding => step \in Adding
    BY <2>2 DEF Adding
  <2>4. OnList' = OnList
    BY <2>1, <2>3 DEF OnExtra, OnList
  <2> QED  BY <2>1, <2>3, <2>4 DEF Rising
\* A person is added to the first list.
<1>3. ASSUME step \in Adding, step \notin {"init_list", "delete 40"}, step' \in Adding,
             OnList \subseteq {10, 20, 30, 40},
             NEW id \in {10, 20, 30, 40}, id \notin OnList, lmem' = lmem \cup {id},
             NEW p \in OnList \cup {L!PersonList}, NEW q, p = L!PersonList \/ p < id,
             q = L!PersonList \/ id < q, L!ListAdd(id, p, q)
      PROVE  Rising'
  <2>1. \A x \in OnList : next[x] = L!PersonList \/ x < next[x]
    BY <1>3 DEF Rising
  <2>2. \A x \in OnList \cup {id} : next'[x] = L!PersonList \/ x < next'[x]
    <3>1. next \in [L!Nodes -> Int] /\ L!ListAdd(id, p, q) /\ OnList \subseteq {10, 20, 30, 40}
          /\ id \notin OnList /\ (p = L!PersonList \/ p < id) /\ (q = L!PersonList \/ id < q)
      BY <1>0, <1>3, Zenon
    <3>2. id \in {10, 20, 30, 40} /\ p \in OnList \cup {L!PersonList}
      BY <1>3, Zenon
    <3> QED  BY <2>1, <3>1, <3>2, RisingAdd, ZenonT(60)
  <2>3. OnList' \subseteq OnList \cup {id}
    <3>1. /\ step \notin {"empty extra", "clear", "return"}
          /\ step' \notin {"empty extra", "clear", "return"}
      BY <1>3 DEF Adding
    <3> QED  BY <1>3, <3>1 DEF OnExtra, OnList
  <2> QED  BY <2>2, <2>3 DEF Rising
\* What goes before a node of the first list.
<1>4. ASSUME step # "init_list"
      PROVE  \A x \in OnList \cup {L!PersonList} : prev[x] \in OnList \cup {L!PersonList}
  BY <1>0, <1>4 DEF Ring
<1>5. ASSUME L!Call("tail 20", L!AddPersonTail(L!PersonList, 20)) PROVE Rising'
  <2>1. /\ step = "tail 20" /\ step' = "tail 40" /\ lmem' = lmem \cup {20}
        /\ L!ListAdd(20, prev[L!PersonList], L!PersonList)
    BY <1>5, ListOrder, Zenon DEF L!Call, L!AddPersonTail, L!Alloc, L!Done
  <2>2. PICK p : p = prev[L!PersonList] /\ L!ListAdd(20, p, L!PersonList)
    BY <2>1
  <2>3. OnList = {}
    BY <2>1, ListBelow
  <2>4. p \in OnList \cup {L!PersonList} /\ p = L!PersonList
    BY <1>4, <2>1, <2>2, <2>3
  <2>5. /\ step \in Adding /\ step \notin {"init_list", "delete 40"} /\ step' \in Adding
        /\ OnList \subseteq {10, 20, 30, 40} /\ 20 \in {10, 20, 30, 40} /\ 20 \notin OnList
        /\ lmem' = lmem \cup {20} /\ L!PersonList = L!PersonList
    <3>1. step \in Adding /\ step \notin {"init_list", "delete 40"} /\ step' \in Adding
      BY <2>1 DEF Adding
    <3>2. OnList \subseteq {10, 20, 30, 40} /\ 20 \in {10, 20, 30, 40} /\ 20 \notin OnList
      BY <2>3
    <3>3. lmem' = lmem \cup {20} /\ L!PersonList \in OnList \cup {L!PersonList}
      BY <2>1
    <3> QED  BY <3>1, <3>2, <3>3, Zenon
  <2> QED  BY <1>3, <2>2, <2>4, <2>5, Zenon
<1>6. ASSUME L!Call("tail 40", L!AddPersonTail(L!PersonList, 40)) PROVE Rising'
  <2>1. /\ step = "tail 40" /\ step' = "head 10" /\ lmem' = lmem \cup {40}
        /\ L!ListAdd(40, prev[L!PersonList], L!PersonList)
    BY <1>6, ListOrder, Zenon DEF L!Call, L!AddPersonTail, L!Alloc, L!Done
  <2>2. PICK p : p = prev[L!PersonList] /\ L!ListAdd(40, p, L!PersonList)
    BY <2>1
  <2>3. OnList \subseteq {20}
    BY <2>1, ListBelow
  <2>4. p \in OnList \cup {L!PersonList} /\ (p = L!PersonList \/ p < 40)
    <3>1. p \in OnList \cup {L!PersonList}
      BY <1>4, <2>1, <2>2
    <3> QED  BY <2>3, <3>1
  <2>5. /\ step \in Adding /\ step \notin {"init_list", "delete 40"} /\ step' \in Adding
        /\ OnList \subseteq {10, 20, 30, 40} /\ 40 \in {10, 20, 30, 40} /\ 40 \notin OnList
        /\ lmem' = lmem \cup {40} /\ L!PersonList = L!PersonList
    <3>1. step \in Adding /\ step \notin {"init_list", "delete 40"} /\ step' \in Adding
      BY <2>1 DEF Adding
    <3>2. OnList \subseteq {10, 20, 30, 40} /\ 40 \in {10, 20, 30, 40} /\ 40 \notin OnList
      BY <2>3
    <3>3. lmem' = lmem \cup {40} /\ L!PersonList \in OnList \cup {L!PersonList}
      BY <2>1
    <3> QED  BY <3>1, <3>2, <3>3, Zenon
  <2> QED  BY <1>3, <2>2, <2>4, <2>5, Zenon
<1>7. ASSUME L!Call("head 10", L!AddPersonHead(L!PersonList, 10)) PROVE Rising'
  <2>1. /\ step = "head 10" /\ step' = "sorted 30" /\ lmem' = lmem \cup {10}
        /\ L!ListAdd(10, L!PersonList, next[L!PersonList])
    BY <1>7, ListOrder, Zenon DEF L!Call, L!AddPersonHead, L!Alloc, L!Done
  <2>2. PICK q : q = next[L!PersonList] /\ L!ListAdd(10, L!PersonList, q)
    BY <2>1
  <2>3. OnList \subseteq {20, 40}
    BY <2>1, ListBelow
  <2>4. q = L!PersonList \/ 10 < q
    <3>1. q \in OnList \cup {L!PersonList}
      BY <1>0, <2>1, <2>2 DEF Ring
    <3> QED  BY <2>3, <3>1
  <2>5. /\ step \in Adding /\ step \notin {"init_list", "delete 40"} /\ step' \in Adding
        /\ OnList \subseteq {10, 20, 30, 40} /\ 10 \in {10, 20, 30, 40} /\ 10 \notin OnList
        /\ lmem' = lmem \cup {10} /\ L!PersonList = L!PersonList
        /\ L!PersonList \in OnList \cup {L!PersonList}
    <3>1. step \in Adding /\ step \notin {"init_list", "delete 40"} /\ step' \in Adding
      BY <2>1 DEF Adding
    <3>2. OnList \subseteq {10, 20, 30, 40} /\ 10 \in {10, 20, 30, 40} /\ 10 \notin OnList
      BY <2>3
    <3>3. lmem' = lmem \cup {10} /\ L!PersonList \in OnList \cup {L!PersonList}
      BY <2>1
    <3> QED  BY <3>1, <3>2, <3>3, Zenon
  <2> QED  BY <1>3, <2>2, <2>4, <2>5, Zenon
<1>8. ASSUME L!Call("sorted 30", L!InsertPersonSorted(L!PersonList, 30)) PROVE Rising'
  <2>1. PICK x : /\ x = L!FirstNode(L!PersonList, {n_1 \in L!Persons : 30 < n_1})
                 /\ step = "sorted 30" /\ step' = "delete 40" /\ lmem' = lmem \cup {30}
                 /\ L!ListAdd(30, prev[x], x)
    BY <1>8, ListOrder, Zenon DEF L!Call, L!InsertPersonSorted, L!Alloc, L!Done
  <2> DEFINE larger == {n_1 \in L!Persons : 30 < n_1}
  <2>2. OnList \subseteq {10, 20, 40}
    BY <2>1, ListBelow
  <2>3. /\ x \in OnList \cup {L!PersonList}
        /\ x \in larger \cup {L!PersonList}
        /\ prev[x] = L!PersonList \/ prev[x] \notin larger
    <3>1. OnList \subseteq {10, 20, 30, 40, 300, 400} /\ Ring(L!PersonList, OnList, next, prev)
      BY <1>0, <2>1, <2>2
    <3>2. x = L!FirstNode(L!PersonList, larger)
      BY <2>1, Zenon
    <3> HIDE DEF larger
    <3> QED  BY <1>a, <3>1, <3>2, ListFound, Zenon
  <2>4. PICK p : p = prev[x] /\ L!ListAdd(30, p, x)
    BY <2>1
  <2>5. p \in OnList \cup {L!PersonList}
    BY <1>4, <2>1, <2>3, <2>4
  <2>6. p = L!PersonList \/ p < 30
    <3>1. p = L!PersonList \/ p \notin larger
      BY <2>3, <2>4, Zenon
    <3>2. OnList \subseteq L!Persons
      BY <2>2 DEF L!Persons
    <3> QED  BY <2>2, <2>5, <3>1, <3>2
  <2>7. x = L!PersonList \/ 30 < x
    BY <2>3
  <2>8. /\ step \in Adding /\ step \notin {"init_list", "delete 40"} /\ step' \in Adding
        /\ OnList \subseteq {10, 20, 30, 40} /\ 30 \in {10, 20, 30, 40} /\ 30 \notin OnList
        /\ lmem' = lmem \cup {30}
    <3>1. step \in Adding /\ step \notin {"init_list", "delete 40"} /\ step' \in Adding
      BY <2>1 DEF Adding
    <3>2. OnList \subseteq {10, 20, 30, 40} /\ 30 \in {10, 20, 30, 40} /\ 30 \notin OnList
      BY <2>2
    <3>3. lmem' = lmem \cup {30} /\ L!PersonList \in OnList \cup {L!PersonList}
      BY <2>1
    <3> QED  BY <3>1, <3>2, <3>3, Zenon
  <2> QED  BY <1>3, <2>4, <2>5, <2>6, <2>7, <2>8, Zenon
\* All others are done when nobody is added any more.
<1>9. ASSUME step' \notin Adding PROVE Rising'
  BY <1>9, Zenon DEF Rising
<1>10. /\ "move" \notin Adding /\ "merge 300" \notin Adding /\ "merge 400" \notin Adding
       /\ "splice" \notin Adding /\ "empty extra" \notin Adding /\ "clear" \notin Adding
       /\ "return" \notin Adding
  BY DEF Adding
<1>11. ASSUME \/ L!Call("delete 40", L!DeletePersonById(L!PersonList, 40))
              \/ L!Call("move", L!MoveHeadToTail(L!PersonList))
              \/ L!Call("merge 300", L!MergeAdd(300))
              \/ L!Call("merge 400", L!MergeAdd(400))
              \/ L!Call("splice", L!MergeSplice(L!PersonList))
              \/ L!Call("empty extra", L!MergeEmpties)
              \/ L!ClearOne(L!PersonList)
              \/ L!ClearEnds(L!PersonList)
       PROVE  Rising'
  <2>1. \/ step = "delete 40" /\ L!Done
        \/ step = "move" /\ L!Done
        \/ step = "merge 300" /\ L!Done
        \/ step = "merge 400" /\ L!Done
        \/ step = "splice" /\ L!Done
        \/ step = "empty extra" /\ L!Done
        \/ step = "clear" /\ step' = step
        \/ step = "clear" /\ L!Done
    BY <1>11, Zenon DEF L!Call, L!ClearOne, L!ClearEnds
  <2>2. step' \in {"move", "merge 300", "merge 400", "splice", "empty extra", "clear", "return"}
    <3>1. \/ step' = "move" \/ step' = "merge 300" \/ step' = "merge 400" \/ step' = "splice"
          \/ step' = "empty extra" \/ step' = "clear" \/ step' = "return"
      BY <2>1, ListOrder, ZenonT(30) DEF L!Done
    <3> QED  BY <3>1
  <2> QED  BY <1>9, <1>10, <2>2
<1> QED  BY <1>1, <1>2, <1>5, <1>6, <1>7, <1>8, <1>11, Zenon DEF L!Next

LEMMA ListStep == ASSUME ListInv, L!Next PROVE ListInv'
BY RingStep, RisingStep DEF ListInv

\* From the invariant: both lists are rings that hold all persons, the sorted
\* insert leaves the first sorted, and all are freed when m_chr_init returns.
LEMMA ListSound == ASSUME ListInv PROVE L!Rings /\ L!Sorted /\ L!AllFreed
<1>0. /\ RingInv /\ Rising /\ ListSoFar
      /\ step # "init_list" => Ring(L!PersonList, OnList, next, prev)
      /\ step # "empty extra" => Ring(L!ExtraList, OnExtra, next, prev)
  BY DEF ListInv, RingInv
<1>1. /\ L!PersonList \in L!Heads /\ L!ExtraList \in L!Heads /\ L!Heads = {L!PersonList, L!ExtraList}
      /\ L!Heads \subseteq L!Nodes
  BY DEF L!Heads, L!Nodes
<1>2. /\ OnList \subseteq lmem /\ OnExtra \subseteq lmem /\ OnList \cup OnExtra = lmem
      /\ OnList \cap OnExtra = {}
      /\ lmem \subseteq {10, 20, 30, 40, 300, 400} /\ lmem \subseteq L!Nodes
  <2>1. OnList \subseteq lmem /\ OnExtra \subseteq lmem /\ lmem \subseteq {10, 20, 30, 40, 300, 400}
    BY <1>0, ListBelow
  <2>2. lmem \subseteq L!Nodes
    BY <2>1, ListNodes
  <2> QED  BY <2>1, <2>2, Zenon DEF OnList
<1>3. OnList \subseteq {10, 20, 30, 40, 300, 400} /\ OnExtra \subseteq {10, 20, 30, 40, 300, 400}
  BY <1>2
<1>4. L!Rings
  <2>1. SUFFICES ASSUME step \notin {"init_list", "empty extra"}
                 PROVE  /\ \A x \in L!Heads \cup lmem : next[x] \in L!Nodes /\ prev[next[x]] = x
                        /\ L!Reached(L!PersonList) \cup L!Reached(L!ExtraList) = lmem
                        /\ L!Reached(L!PersonList) \cap L!Reached(L!ExtraList) = {}
    BY Zenon DEF L!Rings
  <2>2. Ring(L!PersonList, OnList, next, prev) /\ Ring(L!ExtraList, OnExtra, next, prev)
    BY <1>0, <2>1
  <2>3. ASSUME NEW x \in L!Heads \cup lmem PROVE next[x] \in L!Nodes /\ prev[next[x]] = x
    <3>1. x \in OnList \cup {L!PersonList} \/ x \in OnExtra \cup {L!ExtraList}
      BY <1>1, <1>2
    <3>2. CASE x \in OnList \cup {L!PersonList}
      <4>1. next[x] \in OnList \cup {L!PersonList} /\ prev[next[x]] = x
        BY <2>2, <3>2, Zenon DEF Ring
      <4> QED  BY <1>1, <1>2, <4>1
    <3>3. CASE x \in OnExtra \cup {L!ExtraList}
      <4>1. next[x] \in OnExtra \cup {L!ExtraList} /\ prev[next[x]] = x
        BY <2>2, <3>3, Zenon DEF Ring
      <4> QED  BY <1>1, <1>2, <4>1
    <3> QED  BY <3>1, <3>2, <3>3
  <2>4. L!Reached(L!PersonList) = OnList
    BY <1>1, <1>3, <2>2, ListReached, Zenon
  <2>5. L!Reached(L!ExtraList) = OnExtra
    BY <1>1, <1>3, <2>2, ListReached, Zenon
  <2> QED  BY <1>2, <2>3, <2>4, <2>5
<1>5. L!Sorted
  <2>1. SUFFICES ASSUME step = "delete 40",
                        NEW i \in DOMAIN L!Entries(L!PersonList), NEW j \in DOMAIN L!Entries(L!PersonList),
                        i < j
                 PROVE  L!Entries(L!PersonList)[i] < L!Entries(L!PersonList)[j]
    BY Zenon DEF L!Sorted
  <2>2. Ring(L!PersonList, OnList, next, prev)
    BY <1>0, <2>1
  <2>3. \A x \in OnList : next[x] = L!PersonList \/ x < next[x]
    BY <1>0, <2>1 DEF Rising, Adding
  <2> QED  BY <1>1, <1>3, <2>1, <2>2, <2>3, ListEntries, Zenon
<1>6. L!AllFreed
  BY <1>0 DEF ListSoFar, L!AllFreed
<1> QED  BY <1>4, <1>5, <1>6

-----------------------------------------------------------------------------
(* Remainders: what the solver does not find alone.                        *)
LEMMA ModUnique ==
    ASSUME NEW a \in Nat, NEW q \in Int, NEW m \in Nat \ {0}, NEW r \in 0..m-1, a = m * q + r
    PROVE  (a % m) = r
OBVIOUS

\* A multiple of the divisor may be added, ...
LEMMA ModAddMultiple ==
    ASSUME NEW a \in Nat, NEW q \in Nat, NEW m \in Nat \ {0}
    PROVE  ((a + m * q) % m) = (a % m)
<1>1. PICK p \in Nat, r \in 0..m-1 : a = m * p + r /\ r = (a % m)
  <2>1. (a % m) \in 0..m-1 /\ (a \div m) \in Nat /\ a = m * (a \div m) + (a % m)
    OBVIOUS
  <2> QED  BY <2>1
<1>2. m * (p + q) = m * p + m * q /\ m * p \in Nat /\ m * q \in Nat
  OBVIOUS
<1>3. a + m * q = m * (p + q) + r
  BY <1>1, <1>2
<1>4. a + m * q \in Nat /\ p + q \in Int
  BY <1>2
<1> QED  BY <1>1, <1>3, <1>4, ModUnique

\* ... two numbers with the same remainder are far apart, ...
LEMMA ModSame ==
    ASSUME NEW a \in Nat, NEW b \in Nat, NEW m \in Nat \ {0}, (a % m) = (b % m),
           a <= b, b - a < m
    PROVE  a = b
<1>1. PICK p \in Nat, r \in 0..m-1 : a = m * p + r /\ r = (a % m)
  <2>1. (a % m) \in 0..m-1 /\ (a \div m) \in Nat /\ a = m * (a \div m) + (a % m)
    OBVIOUS
  <2> QED  BY <2>1
<1>2. PICK q \in Nat : b = m * q + r
  <2>1. (b % m) \in 0..m-1 /\ (b \div m) \in Nat /\ b = m * (b \div m) + (b % m)
    OBVIOUS
  <2> QED  BY <2>1, <1>1
<1>3. b - a = m * (q - p)
  <2>1. m * (q - p) = m * q - m * p
    OBVIOUS
  <2> QED  BY <2>1, <1>1, <1>2
<1>4. ~(q - p >= 1)
  <2>1. q - p >= 1 => m * (q - p) >= m
    OBVIOUS
  <2> QED  BY <2>1, <1>3
<1>5. ~(q - p <= -1)
  <2>1. q - p <= -1 => m * (q - p) <= -m
    OBVIOUS
  <2> QED  BY <2>1, <1>3
<1>6. q = p
  BY <1>4, <1>5
<1> QED  BY <1>1, <1>2, <1>6

\* An index that has wrapped around leads to the same slot.
WrapsAround(m, s, a, i) == (((a % m) + i) % s) = ((a + i) % s)

\* It does wherever the slots divide the range of the index.
LEMMA ModWrap ==
    ASSUME NEW m \in Nat \ {0}, NEW s \in Nat \ {0}, (m % s) = 0,
           NEW a \in Nat, NEW i \in Nat, a < 2 * m
    PROVE  WrapsAround(m, s, a, i)
<1> USE DEF WrapsAround
<1>1. PICK q \in Nat : m = s * q
  <2>1. (m % s) \in 0..s-1 /\ (m \div s) \in Nat /\ m = s * (m \div s) + (m % s)
    OBVIOUS
  <2>2. m = s * (m \div s)
    BY <2>1
  <2> QED  BY <2>1, <2>2
<1>2. CASE a < m
  BY <1>2
<1>3. CASE m <= a
  <2>1. (a % m) = a - m
    BY <1>3
  <2>2. a - m + i \in Nat /\ a + i = (a - m + i) + s * q
    BY <1>1, <1>3
  <2>3. (((a - m + i) + s * q) % s) = ((a - m + i) % s)
    BY <2>2, ModAddMultiple
  <2> QED  BY <2>1, <2>2, <2>3
<1> QED  BY <1>2, <1>3

\* The labels that fifo_demo's two rounds of puts and gets run between.
FifoPutting == {"put", "put again"}
FifoGetting == {"get", "get again"}
FifoGot == {"put again", "node"}

(* The kfifo: the lock lets one call in; between copying and moving an     *)
(* index, what is copied counts as gone or as there.  Unless fifo_demo     *)
(* plays with the fifo, the bytes that wait have been written later than   *)
(* all that users have read.                                               *)
FifoInside == {"to user", "move out", "from user", "move in", "reset", "put", "get",
               "put again", "get again", "node", "unlock"}
CopiedOut == IF lock \in Tasks /\ kpc[lock] = "move out" THEN moved[lock] ELSE 0
CopiedIn  == IF lock \in Tasks /\ kpc[lock] = "move in" THEN moved[lock] ELSE 0
OnlyUsers == ~(lock \in Tasks /\ kpc[lock] \in {"get", "get again"})

\* The bytes a+1 to b from index o on are in the order they were written, and
\* later than those in g.
InLine(bf, o, a, b, s, g) ==
    /\ \A i \in a+1..b : /\ bf[(o + i - 1) % FifoSize] \in 1..s
                         /\ \A j \in DOMAIN g : g[j] < bf[(o + i - 1) % FifoSize]
    /\ \A i, j \in a+1..b : i < j => bf[(o + i - 1) % FifoSize] < bf[(o + j - 1) % FifoSize]

KfifoInv ==
    /\ K!TypeOK
    /\ \A t \in Tasks : kpc[t] \in FifoInside => lock = t
    /\ K!Fill <= FifoSize
    /\ \A t \in Tasks : /\ kpc[t] = "move out" => moved[t] <= K!Fill
                        /\ kpc[t] = "move in" => K!Fill + moved[t] <= FifoSize
    /\ ~opened => \A t \in Tasks : kpc[t] \in {"out", "oops"}
    /\ nodes # 0 => lock \in Tasks /\ kpc[lock] \notin FifoInside \ {"node"}
    /\ \A i \in DOMAIN kgot : kgot[i] \in 1..sent
    /\ \A i, j \in DOMAIN kgot : i < j => kgot[i] < kgot[j]
    /\ OnlyUsers => InLine(buf, out, CopiedOut, K!Fill + CopiedIn, sent, kgot)

\* From the invariant follow the three properties of the kfifo demo: each byte is
\* read once and in order, no more is in it than fits, and unloading takes all nodes.
LEMMA KfifoSound == ASSUME DataParameters, KfifoInv
                    PROVE  K!ReadOnceInOrder /\ K!NeverOverfull /\ K!NodesFreed
<1>1. K!NodesFreed
  BY DEF KfifoInv, K!NodesFreed, DataParameters
<1>2. FifoBytes \in Nat
  BY DEF DataParameters, K!KfifoAssumption
<1>3. sent \in Nat
  <2>1. sent \in 0..FifoBytes
    BY DEF KfifoInv, K!TypeOK
  <2> QED  BY <1>2, <2>1
<1>4. \A i \in DOMAIN kgot : kgot[i] \in 1..sent
  BY DEF KfifoInv
<1>5. \A i \in DOMAIN kgot : kgot[i] # 0
  BY <1>3, <1>4
<1> QED  BY <1>1, <1>5 DEF KfifoInv, K!ReadOnceInOrder, K!NeverOverfull, K!Demo

(* The arithmetic of the indices.                                          *)
LEMMA FifoFill ==
    ASSUME DataParameters, NEW a \in 0..FifoModulus-1, NEW b \in 0..FifoModulus-1
    PROVE  ((a + FifoModulus - b) % FifoModulus) = IF b <= a THEN a - b ELSE a - b + FifoModulus
<1>1. FifoModulus \in Nat \ {0}
  BY DEF DataParameters, K!KfifoAssumption
<1>2. CASE b <= a
  <2>1. a + FifoModulus - b \in Nat /\ FifoModulus <= a + FifoModulus - b
        /\ a + FifoModulus - b < 2 * FifoModulus
    BY <1>1, <1>2
  <2> QED  BY <1>1, <1>2, <2>1
<1>3. CASE a < b
  <2>1. a + FifoModulus - b \in Nat /\ a + FifoModulus - b < FifoModulus
    BY <1>1, <1>3
  <2> QED  BY <1>1, <1>3, <2>1
<1> QED  BY <1>2, <1>3

\* An index that moves on by q ends in its range, and at the slot that the sum
\* of both would lead to.
LEMMA FifoAdvance ==
    ASSUME DataParameters, NEW a \in 0..FifoModulus-1, NEW q \in 0..FifoSize
    PROVE  /\ K!Advance(a, q) = IF a + q < FifoModulus THEN a + q ELSE a + q - FifoModulus
           /\ K!Advance(a, q) \in 0..FifoModulus-1
           /\ \A i \in Nat : ((K!Advance(a, q) + i) % FifoSize) = ((a + q + i) % FifoSize)
<1>1. /\ FifoModulus \in Nat \ {0} /\ FifoSize \in Nat \ {0}
      /\ FifoSize < FifoModulus /\ (FifoModulus % FifoSize) = 0
  BY DEF DataParameters, K!KfifoAssumption
<1>2. a + q \in Nat /\ a + q < 2 * FifoModulus
  BY <1>1
<1>3. ((a + q) % FifoModulus) = IF a + q < FifoModulus THEN a + q ELSE a + q - FifoModulus
  BY <1>1, <1>2
<1>4. \A i \in Nat : ((((a + q) % FifoModulus) + i) % FifoSize) = ((a + q + i) % FifoSize)
  <2>1. PICK c \in Nat : c = a + q
    BY <1>2
  <2>2. c < 2 * FifoModulus
    BY <1>2, <2>1
  <2>3. \A i \in Nat : WrapsAround(FifoModulus, FifoSize, c, i)
    BY <1>1, <2>2, ModWrap
  <2> QED  BY <2>1, <2>3 DEF WrapsAround
<1>5. K!Advance(a, q) = ((a + q) % FifoModulus)
  BY DEF K!Advance
<1>6. ((a + q) % FifoModulus) \in 0..FifoModulus-1
  BY <1>1, <1>2
<1>7. K!Advance(a, q) \in 0..FifoModulus-1
  BY <1>5, <1>6
<1>8. K!Advance(a, q) = IF a + q < FifoModulus THEN a + q ELSE a + q - FifoModulus
  BY <1>3, <1>5
<1>9. \A i \in Nat : ((K!Advance(a, q) + i) % FifoSize) = ((a + q + i) % FifoSize)
  BY <1>4, <1>5
<1> QED  BY <1>7, <1>8, <1>9
\* Byte i from in on is behind the bytes that wait.
LEMMA FifoBehind ==
    ASSUME DataParameters, NEW a \in 0..FifoModulus-1, NEW b \in 0..FifoModulus-1, NEW i \in Nat
    PROVE  ((a + i) % FifoSize) = ((b + ((a + FifoModulus - b) % FifoModulus) + i) % FifoSize)
<1>1. /\ FifoModulus \in Nat \ {0} /\ FifoSize \in Nat \ {0}
      /\ FifoSize < FifoModulus /\ (FifoModulus % FifoSize) = 0
  BY DEF DataParameters, K!KfifoAssumption
<1>2. PICK f \in Int : f = ((a + FifoModulus - b) % FifoModulus)
  <2>1. a + FifoModulus - b \in Nat
    BY <1>1
  <2> QED  BY <1>1, <2>1
<1>3. f = IF b <= a THEN a - b ELSE a - b + FifoModulus
  BY <1>2, FifoFill
<1>4. b + f \in Nat /\ b + f < 2 * FifoModulus /\ ((b + f) % FifoModulus) = a
  <2>1. CASE b <= a
    BY <1>1, <1>3, <2>1
  <2>2. CASE a < b
    <3>1. b + f = a + FifoModulus
      BY <1>1, <1>3, <2>2
    <3> QED  BY <1>1, <3>1
  <2> QED  BY <2>1, <2>2
<1>5. ((((b + f) % FifoModulus) + i) % FifoSize) = ((b + f + i) % FifoSize)
  <2>1. PICK c \in Nat : c = b + f
    BY <1>4
  <2>2. c < 2 * FifoModulus
    BY <1>4, <2>1
  <2>3. WrapsAround(FifoModulus, FifoSize, c, i)
    BY <1>1, <2>2, ModWrap
  <2> QED  BY <2>1, <2>3 DEF WrapsAround
<1>6. ((a + i) % FifoSize) = ((b + f + i) % FifoSize)
  BY <1>4, <1>5, Zenon
<1> QED  BY <1>2, <1>6

\* What Store does: what waits stays, the new bytes are behind it.
StoredBehind(Set, q, bs) ==
    /\ buf' \in [0..FifoSize-1 -> Set]
    /\ \A i \in 1..K!Fill : buf'[(out + i - 1) % FifoSize] = buf[(out + i - 1) % FifoSize]
    /\ \A i \in 1..q : buf'[(out + (K!Fill + i) - 1) % FifoSize] = bs[i]

\* kfifo_in puts q bytes behind what is in the buffer, and disturbs none of it.
LEMMA FifoStore ==
    ASSUME DataParameters, in \in 0..FifoModulus-1, out \in 0..FifoModulus-1,
           NEW Set, buf \in [0..FifoSize-1 -> Set],
           K!Fill <= FifoSize, NEW q \in Nat, K!Fill + q <= FifoSize,
           NEW bs \in [1..q -> Set], K!Store(bs)
    PROVE  StoredBehind(Set, q, bs)
<1>1. /\ FifoModulus \in Nat \ {0} /\ FifoSize \in Nat \ {0}
      /\ FifoSize < FifoModulus /\ (FifoModulus % FifoSize) = 0
  BY DEF DataParameters, K!KfifoAssumption
<1>2. PICK f \in 0..FifoSize : f = K!Fill
  <2>1. K!Fill = IF out <= in THEN in - out ELSE in - out + FifoModulus
    BY FifoFill DEF K!Fill
  <2>2. K!Fill \in Nat
    BY <1>1, <2>1
  <2> QED  BY <1>1, <2>2
<1>3. \A x \in Nat : ((in + x) % FifoSize) = ((out + f + x) % FifoSize)
  BY <1>2, FifoBehind DEF K!Fill
<1> DEFINE Place(i) == (out + i - 1) % FifoSize
<1>4. \A i \in 1..q : K!Slot(in + i - 1) = Place(f + i)
  <2> TAKE i \in 1..q
  <2>1. i - 1 \in Nat
    OBVIOUS
  <2>2. ((in + (i - 1)) % FifoSize) = ((out + f + (i - 1)) % FifoSize)
    BY <2>1, <1>3
  <2>3. in + (i - 1) = in + i - 1 /\ out + f + (i - 1) = out + (f + i) - 1
    BY <1>2
  <2> QED  BY <2>2, <2>3 DEF K!Slot
<1>5. \A i, j \in 1..FifoSize : Place(i) = Place(j) => i = j
  <2>1. ASSUME NEW i \in 1..FifoSize, NEW j \in 1..FifoSize, i <= j, Place(i) = Place(j) PROVE i = j
    <3>1. out + i - 1 \in Nat /\ out + j - 1 \in Nat /\ out + i - 1 <= out + j - 1
          /\ (out + j - 1) - (out + i - 1) < FifoSize
      BY <2>1, <1>1
    <3>2. out + i - 1 = out + j - 1
      BY <3>1, <2>1, <1>1, ModSame
    <3> QED  BY <3>2
  <2>2. \A i, j \in 1..FifoSize : i <= j \/ j <= i
    BY <1>1
  <2> QED  BY <2>1, <2>2
<1>6. \A i \in 1..FifoSize : Place(i) \in 0..FifoSize-1
  <2> TAKE i \in 1..FifoSize
  <2>1. out + i - 1 \in Nat
    BY <1>1
  <2> QED  BY <2>1, <1>1
<1> HIDE DEF Place
<1>7. buf' = [s \in 0..FifoSize-1 |->
                IF \E i \in 1..q : Place(f + i) = s
                THEN bs[CHOOSE i \in 1..q : Place(f + i) = s] ELSE buf[s]]
  <2>1. DOMAIN bs = 1..q
    OBVIOUS
  <2> QED  BY <1>4, <2>1 DEF K!Store
<1>8. ASSUME NEW s \in 0..FifoSize-1, NEW i \in 1..q, Place(f + i) = s PROVE buf'[s] = bs[i]
  <2> DEFINE c == CHOOSE x \in 1..q : Place(f + x) = s
  <2>1. c \in 1..q /\ Place(f + c) = s
    BY <1>8
  <2>2. buf'[s] = bs[c]
    BY <1>7, <1>8
  <2> HIDE DEF c
  <2>3. f + c \in 1..FifoSize /\ f + i \in 1..FifoSize
    BY <2>1, <1>2, <1>1
  <2>4. f + c = f + i
    BY <2>1, <2>3, <1>5, <1>8
  <2>5. c = i
    BY <2>1, <2>4, <1>2
  <2> QED  BY <2>2, <2>5
<1>9. ASSUME NEW s \in 0..FifoSize-1, \A i \in 1..q : Place(f + i) # s PROVE buf'[s] = buf[s]
  BY <1>7, <1>9
<1>10. buf' \in [0..FifoSize-1 -> Set]
  <2>1. \A s \in 0..FifoSize-1 : buf'[s] \in Set
    BY <1>8, <1>9
  <2> QED  BY <1>7, <2>1
<1>11. ASSUME NEW i \in 1..f PROVE buf'[Place(i)] = buf[Place(i)]
  <2>1. i \in 1..FifoSize /\ \A j \in 1..q : f + j \in 1..FifoSize /\ f + j # i
    BY <1>1, <1>2
  <2>2. Place(i) \in 0..FifoSize-1 /\ \A j \in 1..q : Place(f + j) # Place(i)
    BY <2>1, <1>5, <1>6
  <2> QED  BY <2>2, <1>9
<1>12. ASSUME NEW i \in 1..q PROVE buf'[Place(f + i)] = bs[i]
  <2>1. f + i \in 1..FifoSize
    BY <1>1, <1>2
  <2> QED  BY <2>1, <1>6, <1>8
<1> QED  BY <1>2, <1>10, <1>11, <1>12 DEF Place, StoredBehind
(* What copying and moving do to the line of waiting bytes.                *)
TakenInOrder(bf, o, q, f, s, h) ==
    /\ h \in Seq(1..FifoBytes)
    /\ \A i \in DOMAIN h : h[i] \in 1..s
    /\ \A i, j \in DOMAIN h : i < j => h[i] < h[j]
    /\ InLine(bf, o, q, f, s, h)

\* What a reader copies, the first q bytes in the buffer, goes behind what it has
\* got, in order, and all that stays in the buffer was sent later.
LEMMA FifoTaken ==
    ASSUME NEW bf, NEW o, NEW f \in Nat, NEW s \in Nat, NEW g \in Seq(1..FifoBytes),
           NEW q \in 0..f, InLine(bf, o, 0, f, s, g), s <= FifoBytes, FifoBytes \in Nat,
           \A i \in DOMAIN g : g[i] \in 1..s,
           \A i, j \in DOMAIN g : i < j => g[i] < g[j],
           NEW h, h = g \o [i \in 1..q |-> bf[(o + i - 1) % FifoSize]]
    PROVE  TakenInOrder(bf, o, q, f, s, h)
<1> DEFINE w(i) == bf[(o + i - 1) % FifoSize]
           b == [i \in 1..q |-> w(i)]
<1>1. \A i \in 1..f : w(i) \in 1..s /\ \A j \in DOMAIN g : g[j] < w(i)
  BY DEF InLine
<1>2. \A i, j \in 1..f : i < j => w(i) < w(j)
  BY DEF InLine
<1>3. q + 1 \in Nat /\ \A i \in q+1..f : i \in 1..f /\ \A j \in 1..q : j \in 1..f /\ j < i
  OBVIOUS
<1> HIDE DEF w
<1>4. b \in Seq(1..FifoBytes) /\ Len(b) = q
  <2>1. \A i \in 1..q : w(i) \in 1..FifoBytes
    BY <1>1
  <2> QED  BY <2>1
<1>5. h = g \o b
  BY DEF w
<1>6. PICK l \in Nat : l = Len(g)
  OBVIOUS
<1>b. \A i \in 1..q : b[i] = w(i)
  OBVIOUS
<1> HIDE DEF b
<1>c. /\ h \in Seq(1..FifoBytes) /\ Len(h) = Len(g) + Len(b)
      /\ \A i \in 1..(Len(g) + Len(b)) : h[i] = IF i <= Len(g) THEN g[i] ELSE b[i - Len(g)]
  <2>1. b \in Seq(1..FifoBytes) /\ g \in Seq(1..FifoBytes)
    BY <1>4
  <2>2. /\ g \o b \in Seq(1..FifoBytes) /\ Len(g \o b) = Len(g) + Len(b)
        /\ \A i \in 1..(Len(g) + Len(b)) :
              (g \o b)[i] = IF i <= Len(g) THEN g[i] ELSE b[i - Len(g)]
    BY <2>1, ConcatProperties
  <2> QED  BY <1>5, <2>2, Zenon
<1>d. \A i \in 1..(l + q) : h[i] = IF i <= l THEN g[i] ELSE b[i - l]
  BY <1>4, <1>6, <1>c
<1>7. h \in Seq(1..FifoBytes) /\ DOMAIN h = 1..(l + q) /\ DOMAIN g = 1..l
  BY <1>4, <1>6, <1>c
<1>8. ASSUME NEW i \in 1..l PROVE h[i] = g[i]
  <2>1. i \in 1..(l + q) /\ i <= l
    OBVIOUS
  <2> QED  BY <1>d, <2>1
<1>9. ASSUME NEW i \in l+1..(l + q) PROVE h[i] = w(i - l) /\ i - l \in 1..q /\ i - l \in 1..f
  <2>1. i \in 1..(l + q) /\ ~(i <= l) /\ i - l \in 1..q /\ i - l \in 1..f
    OBVIOUS
  <2>2. h[i] = b[i - l]
    BY <1>d, <2>1
  <2> QED  BY <1>b, <2>1, <2>2
<1>10. \A i \in 1..(l + q) : i \in 1..l \/ i \in l+1..(l + q)
  OBVIOUS
<1>11. \A i \in 1..(l + q) : h[i] \in 1..s
  BY <1>1, <1>7, <1>8, <1>9, <1>10
<1>12. ASSUME NEW i \in 1..(l + q), NEW j \in 1..(l + q), i < j PROVE h[i] < h[j]
  <2>1. CASE j \in 1..l
    <3>1. i \in 1..l
      BY <1>12, <2>1
    <3> QED  BY <3>1, <2>1, <1>7, <1>8, <1>12
  <2>2. CASE j \in l+1..(l + q) /\ i \in 1..l
    <3>1. g[i] < w(j - l)
      BY <2>2, <1>1, <1>7, <1>9
    <3> QED  BY <3>1, <2>2, <1>8, <1>9
  <2>3. CASE j \in l+1..(l + q) /\ i \in l+1..(l + q)
    <3>1. i - l < j - l
      BY <1>12, <2>3
    <3>2. w(i - l) < w(j - l)
      BY <3>1, <2>3, <1>2, <1>9
    <3> QED  BY <3>2, <2>3, <1>9
  <2> QED  BY <2>1, <2>2, <2>3, <1>10
<1>13. ASSUME NEW i \in q+1..f, NEW j \in 1..(l + q) PROVE h[j] < w(i)
  <2>1. CASE j \in 1..l
    BY <2>1, <1>1, <1>3, <1>7, <1>8
  <2>2. CASE j \in l+1..(l + q)
    <3>1. j - l < i /\ i \in 1..f /\ j - l \in 1..f
      BY <2>2, <1>3, <1>9
    <3>2. w(j - l) < w(i)
      BY <3>1, <1>2
    <3> QED  BY <3>2, <2>2, <1>9
  <2> QED  BY <2>1, <2>2, <1>10
<1>14. InLine(bf, o, q, f, s, h)
  <2>1. \A i \in q+1..f : w(i) \in 1..s /\ \A j \in DOMAIN h : h[j] < w(i)
    BY <1>1, <1>3, <1>7, <1>13
  <2>2. \A i, j \in q+1..f : i < j => w(i) < w(j)
    BY <1>2, <1>3
  <2> QED  BY <2>1, <2>2 DEF InLine, w
<1> QED  BY <1>7, <1>11, <1>12, <1>14 DEF TakenInOrder

\* Once out has moved over what was copied, the rest is in line from its start.
LEMMA FifoMovedOut ==
    ASSUME DataParameters, NEW bf, NEW o \in 0..FifoModulus-1, NEW f \in 0..FifoSize, NEW q \in 0..f,
           NEW s \in Nat, NEW g, InLine(bf, o, q, f, s, g), NEW o2, o2 = K!Advance(o, q)
    PROVE  InLine(bf, o2, 0, f - q, s, g)
<1>1. FifoSize \in Nat /\ q \in 0..FifoSize
  BY DEF DataParameters, K!KfifoAssumption
<1>2. o2 \in 0..FifoModulus-1 /\ \A i \in Nat : ((o2 + i) % FifoSize) = ((o + q + i) % FifoSize)
  BY <1>1, FifoAdvance
<1>3. ASSUME NEW i \in 1..(f - q)
      PROVE  ((o2 + i - 1) % FifoSize) = ((o + (q + i) - 1) % FifoSize) /\ q + i \in q+1..f
  <2>1. i - 1 \in Nat
    OBVIOUS
  <2>2. ((o2 + (i - 1)) % FifoSize) = ((o + q + (i - 1)) % FifoSize)
    BY <2>1, <1>2
  <2>3. o2 + (i - 1) = o2 + i - 1 /\ o + q + (i - 1) = o + (q + i) - 1 /\ q + i \in q+1..f
    BY <1>2
  <2> QED  BY <2>2, <2>3
<1> DEFINE v(i) == bf[(o + i - 1) % FifoSize]
           w(i) == bf[(o2 + i - 1) % FifoSize]
<1>4. /\ \A i \in q+1..f : v(i) \in 1..s /\ \A j \in DOMAIN g : g[j] < v(i)
      /\ \A i, j \in q+1..f : i < j => v(i) < v(j)
  BY DEF InLine
<1>5. \A i \in 1..(f - q) : w(i) = v(q + i) /\ q + i \in q+1..f
  BY <1>3
<1> HIDE DEF v, w
<1>6. /\ \A i \in 1..(f - q) : w(i) \in 1..s /\ \A j \in DOMAIN g : g[j] < w(i)
      /\ \A i, j \in 1..(f - q) : i < j => w(i) < w(j)
  <2>1. \A i, j \in 1..(f - q) : i < j => q + i < q + j
    OBVIOUS
  <2> QED  BY <1>4, <1>5, <2>1
<1>7. 0 + 1 = 1
  OBVIOUS
<1> QED  BY <1>6, <1>7 DEF InLine, w

\* Bytes sent later than all others keep the buffer in line when put at its end.
LEMMA FifoPutBehind ==
    ASSUME NEW bf, NEW bf2, NEW o, NEW f \in Nat, NEW q \in Nat, NEW s \in Nat, NEW g,
           InLine(bf, o, 0, f, s, g), \A i \in DOMAIN g : g[i] \in 1..s,
           \A i \in 1..f : bf2[(o + i - 1) % FifoSize] = bf[(o + i - 1) % FifoSize],
           \A i \in 1..q : bf2[(o + (f + i) - 1) % FifoSize] = s + i
    PROVE  InLine(bf2, o, 0, f + q, s + q, g)
<1> DEFINE v(i) == bf[(o + i - 1) % FifoSize]
           w(i) == bf2[(o + i - 1) % FifoSize]
<1>1. 0 + 1 = 1
  OBVIOUS
<1>2. /\ \A i \in 1..f : v(i) \in 1..s /\ \A j \in DOMAIN g : g[j] < v(i)
      /\ \A i, j \in 1..f : i < j => v(i) < v(j)
  BY <1>1 DEF InLine
<1>3. /\ \A i \in 1..f : w(i) = v(i)
      /\ \A i \in 1..q : w(f + i) = s + i
  OBVIOUS
<1> HIDE DEF v, w
<1>4. \A i \in 1..(f + q) : i \in 1..f \/ (i - f \in 1..q /\ i = f + (i - f))
  OBVIOUS
<1>5. ASSUME NEW i \in 1..(f + q)
      PROVE  \/ i \in 1..f /\ w(i) = v(i)
             \/ i \notin 1..f /\ w(i) = s + (i - f) /\ i - f \in 1..q
  BY <1>3, <1>4
<1>6. ASSUME NEW i \in 1..(f + q) PROVE w(i) \in 1..(s + q) /\ \A j \in DOMAIN g : g[j] < w(i)
  <2>1. CASE i \in 1..f
    BY <2>1, <1>2, <1>3
  <2>2. CASE w(i) = s + (i - f) /\ i - f \in 1..q
    BY <2>2
  <2> QED  BY <2>1, <2>2, <1>5
<1>7. ASSUME NEW i \in 1..(f + q), NEW j \in 1..(f + q), i < j PROVE w(i) < w(j)
  <2>1. CASE j \in 1..f
    <3>1. i \in 1..f
      BY <1>7, <2>1
    <3> QED  BY <3>1, <2>1, <1>2, <1>3, <1>7
  <2>2. CASE j \notin 1..f /\ i \in 1..f
    <3>1. w(j) = s + (j - f) /\ j - f \in 1..q /\ w(i) \in 1..s
      BY <2>2, <1>2, <1>3, <1>5
    <3> QED  BY <3>1
  <2>3. CASE j \notin 1..f /\ i \notin 1..f
    <3>1. w(j) = s + (j - f) /\ w(i) = s + (i - f)
      BY <2>3, <1>5
    <3> QED  BY <3>1, <1>7
  <2> QED  BY <2>1, <2>2, <2>3
<1> QED  BY <1>1, <1>6, <1>7 DEF InLine, w
FifoPlaces == {"out", "read", "to user", "move out", "write", "from user", "move in", "ioctl",
               "reset", "put", "get", "put again", "get again", "node", "oops", "unlock"}

\* The empty buffer, in front of which nobody stands, is where the demo starts.
LEMMA KfifoStart == ASSUME DataParameters, K!Init PROVE KfifoInv
<1> USE DEF K!Init
<1>1. /\ FifoModulus \in Nat \ {0} /\ FifoSize \in Nat \ {0} /\ FifoBytes \in Nat
      /\ FifoSize < FifoModulus
  BY DEF DataParameters, K!KfifoAssumption
<1>2. in = 0 /\ out = 0 /\ 0 \in 0..FifoModulus-1 /\ 0 \in 0..FifoBytes /\ 0 \in 0..FifoSize
      /\ 0 \in 0..3
  BY <1>1
<1>3. K!Fill = 0
  <2>1. ((0 + FifoModulus - 0) % FifoModulus) = 0
    BY <1>2, FifoFill
  <2> QED  BY <1>2, <2>1 DEF K!Fill
<1>4. /\ buf \in [0..FifoSize-1 -> 0..FifoBytes] /\ moved \in [Tasks -> 0..FifoSize]
      /\ nodes = 0 /\ sent = 0 /\ kgot = <<>> /\ lock = NULL
  BY <1>2 DEF K!Demo
<1>5. kpc \in [Tasks -> FifoPlaces] /\ \A t \in Tasks : kpc[t] = "out"
  BY DEF FifoPlaces
<1>6. opened \in BOOLEAN /\ ring \in BOOLEAN
  OBVIOUS
<1>7. nodes \in 0..3 /\ sent \in 0..FifoBytes /\ kgot \in Seq(1..FifoBytes) /\ lock \in Tasks \cup {NULL}
  BY <1>2, <1>4
<1>8. kmod \in {"register", "loaded", "gone"}
  OBVIOUS
<1>9. K!TypeOK
  BY <1>2, <1>4, <1>5, <1>6, <1>7, <1>8, Zenon DEF K!TypeOK, FifoPlaces, K!NodeCount
<1>10. CopiedOut = 0 /\ CopiedIn = 0
  BY <1>4 DEF CopiedOut, CopiedIn, DataParameters
<1>11. InLine(buf, out, 0, 0, sent, kgot)
  BY DEF InLine
<1>12. 0 <= FifoSize /\ 0 + 0 = 0
  BY <1>1
<1>13. \A t \in Tasks : kpc[t] \notin FifoInside /\ kpc[t] \notin {"move in", "move out"}
  BY <1>5 DEF FifoInside
<1>14. DOMAIN kgot = {}
  BY <1>4
<1> QED  BY <1>3, <1>4, <1>5, <1>9, <1>10, <1>11, <1>12, <1>13, <1>14 DEF KfifoInv

\* What KfifoInv says of single variables, as the steps need it.
LEMMA KfifoTypes ==
    ASSUME DataParameters, KfifoInv
    PROVE  /\ FifoModulus \in Nat \ {0} /\ FifoSize \in Nat \ {0} /\ FifoBytes \in Nat
           /\ FifoSize < FifoModulus /\ DemoBytes \in 1..FifoSize
           /\ in \in 0..FifoModulus-1 /\ out \in 0..FifoModulus-1
           /\ buf \in [0..FifoSize-1 -> 0..FifoBytes]
           /\ nodes \in 0..3 /\ lock \in Tasks \cup {NULL} /\ kpc \in [Tasks -> FifoPlaces]
           /\ moved \in [Tasks -> 0..FifoSize] /\ sent \in 0..FifoBytes
           /\ kgot \in Seq(1..FifoBytes) /\ kmod \in {"register", "loaded", "gone"}
           /\ NULL \notin Tasks
           /\ K!Fill \in 0..FifoSize
           /\ K!Fill = IF out <= in THEN in - out ELSE in - out + FifoModulus
<1>1. /\ FifoModulus \in Nat \ {0} /\ FifoSize \in Nat \ {0} /\ FifoBytes \in Nat
      /\ FifoSize < FifoModulus /\ DemoBytes \in 1..FifoSize /\ NULL \notin Tasks
  BY DEF DataParameters, K!KfifoAssumption
<1>2. /\ in \in 0..FifoModulus-1 /\ out \in 0..FifoModulus-1
      /\ buf \in [0..FifoSize-1 -> 0..FifoBytes]
      /\ nodes \in 0..3 /\ lock \in Tasks \cup {NULL} /\ kpc \in [Tasks -> FifoPlaces]
      /\ moved \in [Tasks -> 0..FifoSize] /\ sent \in 0..FifoBytes
      /\ kgot \in Seq(1..FifoBytes) /\ kmod \in {"register", "loaded", "gone"}
  BY Zenon DEF KfifoInv, K!TypeOK, FifoPlaces, K!NodeCount
<1>3. K!Fill = IF out <= in THEN in - out ELSE in - out + FifoModulus
  BY <1>2, FifoFill DEF K!Fill
<1>4. K!Fill <= FifoSize
  BY DEF KfifoInv
<1>5. K!Fill \in 0..FifoSize
  BY <1>1, <1>2, <1>3, <1>4
<1> QED  BY <1>1, <1>2, <1>3, <1>5

\* A step of the task that holds the lock and keeps it.
LEMMA FifoHolderSteps ==
    ASSUME DataParameters, KfifoInv, NEW t \in Tasks, NEW to \in FifoInside,
           kpc[t] \in FifoInside, kpc' = [kpc EXCEPT ![t] = to],
           UNCHANGED <<kmod, opened, ring, lock>>,
           in' \in 0..FifoModulus-1, out' \in 0..FifoModulus-1,
           buf' \in [0..FifoSize-1 -> 0..FifoBytes], nodes' \in 0..3,
           moved' \in [Tasks -> 0..FifoSize], sent' \in 0..FifoBytes,
           kgot' \in Seq(1..FifoBytes),
           K!Fill' <= FifoSize,
           to = "move out" => moved'[t] <= K!Fill',
           to = "move in" => K!Fill' + moved'[t] <= FifoSize,
           nodes' # 0 => to = "node",
           \A i \in DOMAIN kgot' : kgot'[i] \in 1..sent',
           \A i, j \in DOMAIN kgot' : i < j => kgot'[i] < kgot'[j],
           to \notin {"get", "get again"} =>
               InLine(buf', out', IF to = "move out" THEN moved'[t] ELSE 0,
                      K!Fill' + (IF to = "move in" THEN moved'[t] ELSE 0), sent', kgot')
    PROVE  KfifoInv'
<1>1. lock = t /\ \A u \in Tasks \ {t} : kpc[u] \notin FifoInside
  BY DEF KfifoInv
<1>2. /\ kpc \in [Tasks -> FifoPlaces] /\ kmod \in {"register", "loaded", "gone"}
      /\ lock \in Tasks \cup {NULL}
  BY KfifoTypes
<1>3. opened \in BOOLEAN /\ ring \in BOOLEAN
  BY DEF KfifoInv, K!TypeOK
<1>4. kpc' \in [Tasks -> FifoPlaces] /\ kpc'[t] = to
      /\ \A u \in Tasks \ {t} : kpc'[u] = kpc[u] /\ kpc'[u] \notin FifoInside
  <2>1. to \in FifoPlaces
    BY DEF FifoInside, FifoPlaces
  <2> QED  BY <1>1, <1>2, <2>1
<1>5. lock' = t /\ kmod' = kmod
  BY <1>1
<1>6. opened' \in BOOLEAN /\ ring' \in BOOLEAN
  BY <1>3
<1>7. kmod' \in {"register", "loaded", "gone"} /\ lock' \in Tasks \cup {NULL}
  BY <1>2
<1>8. K!TypeOK'
  BY <1>4, <1>6, <1>7, Zenon DEF K!TypeOK, FifoPlaces, K!NodeCount
<1>9. \A u \in Tasks : kpc'[u] \in FifoInside => lock' = u
  BY <1>4, <1>5
<1>10. \A u \in Tasks : /\ kpc'[u] = "move out" => moved'[u] <= K!Fill'
                        /\ kpc'[u] = "move in" => K!Fill' + moved'[u] <= FifoSize
  BY <1>4 DEF FifoInside
<1>11. opened
  BY DEF KfifoInv, FifoInside
<1>12. opened'
  BY <1>11
<1>13. nodes' # 0 => lock' \in Tasks /\ kpc'[lock'] \notin FifoInside \ {"node"}
  BY <1>4, <1>5
<1>14. /\ CopiedOut' = IF to = "move out" THEN moved'[t] ELSE 0
       /\ CopiedIn' = IF to = "move in" THEN moved'[t] ELSE 0
       /\ OnlyUsers' <=> to \notin {"get", "get again"}
  BY <1>4, <1>5 DEF CopiedOut, CopiedIn, OnlyUsers
<1>15. OnlyUsers' => InLine(buf', out', CopiedOut', K!Fill' + CopiedIn', sent', kgot')
  BY <1>14
<1>16. ~opened' => \A u \in Tasks : kpc'[u] \in {"out", "oops"}
  BY <1>12
<1> QED  BY <1>8, <1>9, <1>10, <1>13, <1>15, <1>16, Zenon DEF KfifoInv, InLine
\* A step of a task that leaves the fifo alone.
LEMMA FifoQuietSteps ==
    ASSUME DataParameters, KfifoInv, NEW t \in Tasks, NEW to \in FifoPlaces,
           kpc' = [kpc EXCEPT ![t] = to], kpc[t] \notin {"move out", "move in", "get", "get again"},
           UNCHANGED <<kmod, opened, ring, in, out, buf, moved, sent, kgot>>,
           lock' \in {lock, t, NULL}, nodes' \in 0..3,
           to \notin {"move out", "move in", "get", "get again"},
           lock' # lock => lock \in {NULL, t},
           to \in FifoInside => lock' = t,
           to \notin {"out", "oops"} => opened,
           nodes' # 0 => lock' \in Tasks /\ (IF lock' = t THEN to ELSE kpc[lock']) \notin FifoInside \ {"node"}
    PROVE  KfifoInv'
<1>1. /\ kpc \in [Tasks -> FifoPlaces] /\ kmod \in {"register", "loaded", "gone"}
      /\ lock \in Tasks \cup {NULL} /\ NULL \notin Tasks
  BY KfifoTypes
<1>2. \A u \in Tasks : kpc[u] \in FifoInside => lock = u
  BY DEF KfifoInv
<1>3. kpc' \in [Tasks -> FifoPlaces] /\ kpc'[t] = to /\ \A u \in Tasks \ {t} : kpc'[u] = kpc[u]
  BY <1>1
<1>4. lock' \in Tasks \cup {NULL}
  BY <1>1
<1>5. opened' \in BOOLEAN /\ ring' \in BOOLEAN
  BY Zenon DEF KfifoInv, K!TypeOK
<1>u. /\ kmod' = kmod /\ opened' = opened /\ ring' = ring /\ in' = in /\ out' = out
      /\ buf' = buf /\ moved' = moved /\ sent' = sent /\ kgot' = kgot
  OBVIOUS
<1>v. kpc' \in [Tasks -> FifoPlaces] /\ lock' \in Tasks \cup {NULL} /\ nodes' \in 0..K!NodeCount
  BY <1>3, <1>4 DEF K!NodeCount
<1>6. K!TypeOK'
  BY <1>u, <1>v, Zenon DEF KfifoInv, K!TypeOK, FifoPlaces
<1>7. ASSUME NEW u \in Tasks, kpc'[u] \in FifoInside PROVE lock' = u
  <2>1. CASE u = t
    BY <1>3, <1>7, <2>1
  <2>2. CASE u # t
    <3>1. lock = u
      BY <1>2, <1>3, <1>7, <2>2
    <3>2. lock' = lock
      BY <1>1, <2>2, <3>1
    <3> QED  BY <3>1, <3>2
  <2> QED  BY <2>1, <2>2
<1>8. K!Fill' = K!Fill
  BY DEF K!Fill
<1>9. \A u \in Tasks : /\ kpc'[u] = "move out" => moved'[u] <= K!Fill'
                       /\ kpc'[u] = "move in" => K!Fill' + moved'[u] <= FifoSize
  BY <1>3, <1>8 DEF KfifoInv
<1>10. ~opened' => \A u \in Tasks : kpc'[u] \in {"out", "oops"}
  <2>1. CASE opened
    BY <1>u, <2>1
  <2>2. CASE ~opened
    BY <1>3, <2>2 DEF KfifoInv
  <2> QED  BY <2>1, <2>2
<1>11. nodes' # 0 => lock' \in Tasks /\ kpc'[lock'] \notin FifoInside \ {"node"}
  BY <1>3
<1>12. CopiedOut' = CopiedOut /\ CopiedIn' = CopiedIn
  BY <1>1, <1>3 DEF CopiedOut, CopiedIn
<1>13. OnlyUsers' => OnlyUsers
  BY <1>1, <1>3 DEF OnlyUsers
<1>14. OnlyUsers' => InLine(buf', out', CopiedOut', K!Fill' + CopiedIn', sent', kgot')
  <2>1. OnlyUsers' => InLine(buf, out, CopiedOut, K!Fill + CopiedIn, sent, kgot)
    BY <1>13 DEF KfifoInv
  <2> QED  BY <2>1, <1>8, <1>12
<1>15. /\ \A i \in DOMAIN kgot' : kgot'[i] \in 1..sent'
       /\ \A i, j \in DOMAIN kgot' : i < j => kgot'[i] < kgot'[j]
       /\ K!Fill' <= FifoSize
  BY <1>8 DEF KfifoInv
<1> QED  BY <1>6, <1>7, <1>9, <1>10, <1>11, <1>14, <1>15, Zenon DEF KfifoInv, InLine

\* Loading, opening and closing, when no call is under way.
LEMMA FifoFileSteps ==
    ASSUME DataParameters, KfifoInv, K!Register \/ K!Open \/ K!Release \/ K!Unregister
    PROVE  KfifoInv'
<1>1. /\ kmod' \in {"register", "loaded", "gone"} /\ opened' \in BOOLEAN /\ ring' \in BOOLEAN
      /\ UNCHANGED <<buf, nodes, lock, kpc, moved, sent, kgot>>
  <2>1. opened' \in BOOLEAN /\ ring' \in BOOLEAN
    BY Zenon DEF KfifoInv, K!TypeOK, K!Register, K!Open, K!Release, K!Unregister
  <2>2. kmod' \in {"register", "loaded", "gone"}
    BY KfifoTypes DEF K!Register, K!Open, K!Release, K!Unregister
  <2>3. UNCHANGED <<buf, nodes, lock, kpc, moved, sent, kgot>>
    BY DEF K!Register, K!Open, K!Release, K!Unregister
  <2> QED  BY <2>1, <2>2, <2>3
<1>2. ~opened' => \A u \in Tasks : kpc'[u] \in {"out", "oops"}
  <2>1. ~opened => \A u \in Tasks : kpc[u] \in {"out", "oops"}
    BY DEF KfifoInv
  <2>2. opened' # opened => opened' \/ \A u \in Tasks : kpc[u] \in {"out", "oops"}
    BY Zenon DEF K!Register, K!Open, K!Release, K!Unregister, K!Idle
  <2>3. kpc' = kpc
    BY <1>1
  <2> QED  BY <1>1, <2>1, <2>2, <2>3, Zenon
<1>3. CASE UNCHANGED <<in, out>>
  <2>1. K!TypeOK'
    BY <1>1, <1>3, Zenon DEF KfifoInv, K!TypeOK
  <2>2. K!Fill' = K!Fill
    BY <1>3 DEF K!Fill
  <2>3. CopiedOut' = CopiedOut /\ CopiedIn' = CopiedIn /\ (OnlyUsers' <=> OnlyUsers)
    BY <1>1 DEF CopiedOut, CopiedIn, OnlyUsers
  <2>4. OnlyUsers' => InLine(buf', out', CopiedOut', K!Fill' + CopiedIn', sent', kgot')
    <3>1. OnlyUsers' => InLine(buf, out, CopiedOut, K!Fill + CopiedIn, sent, kgot)
      BY <2>3 DEF KfifoInv
    <3> QED  BY <3>1, <2>2, <2>3, <1>1, <1>3
  <2>5. /\ \A u \in Tasks : kpc'[u] \in FifoInside => lock' = u
        /\ nodes' # 0 => lock' \in Tasks /\ kpc'[lock'] \notin FifoInside \ {"node"}
        /\ \A i \in DOMAIN kgot' : kgot'[i] \in 1..sent'
        /\ \A i, j \in DOMAIN kgot' : i < j => kgot'[i] < kgot'[j]
    BY <1>1 DEF KfifoInv
  <2>6. /\ K!Fill' <= FifoSize
        /\ \A u \in Tasks : /\ kpc'[u] = "move out" => moved'[u] <= K!Fill'
                            /\ kpc'[u] = "move in" => K!Fill' + moved'[u] <= FifoSize
    BY <1>1, <2>2 DEF KfifoInv
  <2> QED  BY <1>2, <2>1, <2>4, <2>5, <2>6, Zenon DEF KfifoInv, InLine
<1>4. CASE K!Open
  <2>1. in' = 0 /\ out' = 0 /\ \A u \in Tasks : kpc[u] \in {"out", "oops"}
    BY <1>4 DEF K!Open, KfifoInv
  <2>2. FifoModulus \in Nat \ {0} /\ FifoSize \in Nat
    BY KfifoTypes
  <2>3. in' \in 0..FifoModulus-1 /\ out' \in 0..FifoModulus-1
    BY <2>1, <2>2
  <2>4. K!TypeOK'
    BY <1>1, <2>3, Zenon DEF KfifoInv, K!TypeOK
  <2>5. K!Fill' = 0
    <3>1. 0 \in 0..FifoModulus-1
      BY <2>2
    <3>2. ((0 + FifoModulus - 0) % FifoModulus) = 0
      BY <3>1, FifoFill
    <3> QED  BY <2>1, <3>2 DEF K!Fill
  <2>6. \A u \in Tasks : kpc'[u] \notin FifoInside /\ kpc'[u] \notin {"move out", "move in"}
    BY <1>1, <2>1 DEF FifoInside
  <2>7. CopiedOut' = 0 /\ CopiedIn' = 0
    BY <2>6 DEF CopiedOut, CopiedIn
  <2>8. InLine(buf', out', CopiedOut', K!Fill' + CopiedIn', sent', kgot')
    <3>1. InLine(buf', out', 0, 0, sent', kgot')
      BY DEF InLine
    <3>2. 0 + 0 = 0
      OBVIOUS
    <3> QED  BY <2>5, <2>7, <3>1, <3>2
  <2>9. /\ nodes' # 0 => lock' \in Tasks /\ kpc'[lock'] \notin FifoInside \ {"node"}
        /\ \A i \in DOMAIN kgot' : kgot'[i] \in 1..sent'
        /\ \A i, j \in DOMAIN kgot' : i < j => kgot'[i] < kgot'[j]
    BY <1>1 DEF KfifoInv
  <2>10. K!Fill' <= FifoSize
    BY <2>2, <2>5
  <2> QED  BY <1>2, <2>4, <2>6, <2>8, <2>9, <2>10 DEF KfifoInv
<1> QED  BY <1>3, <1>4 DEF K!Register, K!Release, K!Unregister
\* Each step of the module, of a user or of the holder of the lock keeps it.
LEMMA KfifoStep == ASSUME DataParameters, KfifoInv, K!Next PROVE KfifoInv'
<1>0. /\ FifoModulus \in Nat \ {0} /\ FifoSize \in Nat \ {0} /\ FifoBytes \in Nat
      /\ FifoSize < FifoModulus /\ DemoBytes \in 1..FifoSize
      /\ in \in 0..FifoModulus-1 /\ out \in 0..FifoModulus-1
      /\ buf \in [0..FifoSize-1 -> 0..FifoBytes]
      /\ nodes \in 0..3 /\ lock \in Tasks \cup {NULL} /\ kpc \in [Tasks -> FifoPlaces]
      /\ moved \in [Tasks -> 0..FifoSize] /\ sent \in 0..FifoBytes
      /\ kgot \in Seq(1..FifoBytes) /\ kmod \in {"register", "loaded", "gone"}
      /\ NULL \notin Tasks
      /\ K!Fill \in 0..FifoSize
  BY KfifoTypes
<1>a. /\ \A i \in DOMAIN kgot : kgot[i] \in 1..sent
      /\ \A i, j \in DOMAIN kgot : i < j => kgot[i] < kgot[j]
      /\ K!Fill <= FifoSize
      /\ \A t \in Tasks : kpc[t] \in FifoInside => lock = t
  BY DEF KfifoInv
<1>b. ASSUME NEW t \in Tasks, kpc[t] \in FifoInside, nodes # 0 PROVE kpc[t] = "node"
  BY <1>a, <1>b DEF KfifoInv
<1>c. ASSUME NEW t \in Tasks, kpc[t] \in FifoInside, kpc[t] \notin {"get", "get again"}
      PROVE  InLine(buf, out, IF kpc[t] = "move out" THEN moved[t] ELSE 0,
                    K!Fill + (IF kpc[t] = "move in" THEN moved[t] ELSE 0), sent, kgot)
  <2>1. lock = t
    BY <1>a, <1>c
  <2>2. OnlyUsers /\ CopiedOut = (IF kpc[t] = "move out" THEN moved[t] ELSE 0)
        /\ CopiedIn = (IF kpc[t] = "move in" THEN moved[t] ELSE 0)
    BY <2>1, <1>c DEF OnlyUsers, CopiedOut, CopiedIn
  <2> QED  BY <2>2 DEF KfifoInv
<1>1. CASE K!Register \/ K!Open \/ K!Release \/ K!Unregister
  BY <1>1, FifoFileSteps
<1>2. ASSUME NEW t \in Tasks, NEW to \in {"read", "write", "ioctl"}, K!Enter(t, to) PROVE KfifoInv'
  <2>1. /\ opened /\ kpc[t] = "out" /\ kpc' = [kpc EXCEPT ![t] = to]
        /\ UNCHANGED <<kmod, opened, in, out, buf, ring, nodes, lock, moved, sent, kgot>>
    BY <1>2 DEF K!Enter, K!Goto
  <2>2. nodes # 0 => lock \in Tasks /\ (IF lock = t THEN to ELSE kpc[lock]) \notin FifoInside \ {"node"}
    BY DEF KfifoInv, FifoInside
  <2>3. to \in FifoPlaces /\ to \notin FifoInside /\ lock' \in {lock, t, NULL} /\ nodes' \in 0..3
        /\ to \notin {"move out", "move in", "get", "get again", "out", "oops"}
    BY <1>0, <2>1 DEF FifoPlaces, FifoInside
  <2> QED  BY <2>1, <2>2, <2>3, FifoQuietSteps
<1>3. ASSUME NEW t \in Tasks, NEW from \in {"read", "write", "ioctl"},
             NEW to \in {"to user", "from user", "reset"}, K!Lock(t, from, to)
      PROVE  KfifoInv'
  <2>1. /\ kpc[t] = from /\ kpc' = [kpc EXCEPT ![t] = to] /\ lock = NULL /\ lock' = t
        /\ UNCHANGED <<kmod, opened, in, out, buf, ring, nodes, moved, sent, kgot>>
    BY <1>3 DEF K!Lock, K!Goto
  <2>2. nodes = 0
    BY <1>0, <2>1 DEF KfifoInv
  <2>3. opened
    BY <2>1 DEF KfifoInv
  <2>4. to \in FifoPlaces /\ lock' \in {lock, t, NULL} /\ nodes' \in 0..3 /\ nodes' = 0
        /\ to \notin {"move out", "move in", "get", "get again", "out", "oops"}
    BY <1>0, <2>1, <2>2 DEF FifoPlaces
  <2>5. kpc[t] \notin {"move out", "move in", "get", "get again"}
    BY <2>1
  <2> QED  BY <2>1, <2>3, <2>4, <2>5, FifoQuietSteps
<1>4. ASSUME NEW t \in Tasks, K!Unlock(t) PROVE KfifoInv'
  <2>1. /\ kpc[t] = "unlock" /\ kpc' = [kpc EXCEPT ![t] = "out"] /\ lock' = NULL
        /\ UNCHANGED <<kmod, opened, in, out, buf, ring, nodes, moved, sent, kgot>>
    BY <1>4 DEF K!Unlock, K!Goto
  <2>2. nodes = 0 /\ lock = t
    BY <1>a, <1>b, <2>1 DEF FifoInside
  <2>3. "out" \in FifoPlaces /\ "out" \notin FifoInside /\ nodes' \in 0..3
    BY <1>0, <2>1 DEF FifoPlaces, FifoInside
  <2> QED  BY <2>1, <2>2, <2>3, FifoQuietSteps
<1>5. ASSUME NEW t \in Tasks, K!KfifoToUser(t) PROVE KfifoInv'
  <2>3. PICK f \in 0..FifoSize : f = K!Fill
    BY <1>0
  <2>1. /\ kpc[t] = "to user" /\ kpc' = [kpc EXCEPT ![t] = "move out"]
        /\ UNCHANGED <<kmod, opened, in, out, buf, ring, nodes, lock, sent>>
    BY <1>5 DEF K!KfifoToUser, K!Goto
  <2>2. PICK q \in 0..f : moved' = [moved EXCEPT ![t] = q] /\ kgot' = kgot \o K!FirstBytes(q)
    <3>1. PICK c \in 1..FifoSize : \E q \in 0..K!Lesser(c, K!Fill) :
             moved' = [moved EXCEPT ![t] = q] /\ kgot' = kgot \o K!FirstBytes(q)
      BY <1>5 DEF K!KfifoToUser
    <3>2. K!Lesser(c, K!Fill) \in 0..K!Fill
      BY <1>0 DEF K!Lesser
    <3>3. \A q \in 0..K!Lesser(c, K!Fill) : q \in 0..K!Fill
      BY <1>0, <3>2
    <3>4. PICK q \in 0..K!Fill : moved' = [moved EXCEPT ![t] = q] /\ kgot' = kgot \o K!FirstBytes(q)
      BY <3>1, <3>3
    <3> QED  BY <3>4, <2>3
  <2>4. kpc[t] \in FifoInside /\ kpc[t] \notin {"get", "get again", "move out", "move in"}
        /\ "move out" \in FifoInside
    BY <2>1 DEF FifoInside
  <2>5. InLine(buf, out, 0, f, sent, kgot)
    <3>1. InLine(buf, out, 0, K!Fill + 0, sent, kgot)
      BY <1>c, <2>4
    <3>2. K!Fill + 0 = f
      BY <2>3
    <3> QED  BY <3>1, <3>2
  <2>6. kgot' = kgot \o [i \in 1..q |-> buf[(out + i - 1) % FifoSize]]
    BY <2>2 DEF K!FirstBytes, K!Slot
  <2>7. PICK s \in Nat : s = sent /\ s <= FifoBytes /\ FifoBytes \in Nat /\ f \in Nat
    BY <1>0
  <2>8. /\ kgot' \in Seq(1..FifoBytes)
        /\ \A i \in DOMAIN kgot' : kgot'[i] \in 1..sent
        /\ \A i, j \in DOMAIN kgot' : i < j => kgot'[i] < kgot'[j]
        /\ InLine(buf, out, q, f, sent, kgot')
    <3>1. InLine(buf, out, 0, f, s, kgot) /\ \A i \in DOMAIN kgot : kgot[i] \in 1..s
      BY <1>a, <2>5, <2>7
    <3>2. /\ kgot' \in Seq(1..FifoBytes)
          /\ \A i \in DOMAIN kgot' : kgot'[i] \in 1..s
          /\ \A i, j \in DOMAIN kgot' : i < j => kgot'[i] < kgot'[j]
          /\ InLine(buf, out, q, f, s, kgot')
      <4>1. kgot \in Seq(1..FifoBytes) /\ \A i, j \in DOMAIN kgot : i < j => kgot[i] < kgot[j]
        BY <1>0, <1>a
      <4>2. s <= FifoBytes /\ FifoBytes \in Nat /\ f \in Nat
        BY <2>7
      <4>3. TakenInOrder(buf, out, q, f, s, kgot')
        BY <2>6, <3>1, <4>1, <4>2, FifoTaken
      <4> QED  BY <4>3, Zenon DEF TakenInOrder
    <3> QED  BY <2>7, <3>2
  <2>9. K!Fill' = f /\ f + 0 = f
    <3>1. K!Fill' = K!Fill
      BY <2>1 DEF K!Fill
    <3> QED  BY <2>3, <3>1
  <2>10. moved' \in [Tasks -> 0..FifoSize] /\ moved'[t] = q /\ moved'[t] <= K!Fill'
    <3>1. q \in 0..FifoSize /\ q <= f
      BY <1>0
    <3>2. moved' \in [Tasks -> 0..FifoSize] /\ moved'[t] = q
      BY <1>0, <2>2, <3>1
    <3> QED  BY <2>9, <3>1, <3>2
  <2>11. nodes' = 0
    BY <1>b, <2>1, <2>4
  <2>12. /\ in' \in 0..FifoModulus-1 /\ out' \in 0..FifoModulus-1 /\ nodes' \in 0..3
         /\ buf' \in [0..FifoSize-1 -> 0..FifoBytes] /\ sent' \in 0..FifoBytes
    BY <1>0, <2>1
  <2>13. InLine(buf', out', moved'[t], K!Fill' + 0, sent', kgot')
    BY <2>1, <2>8, <2>9, <2>10
  <2>14. K!Fill' <= FifoSize
    BY <2>3, <2>9
  <2>15. /\ \A i \in DOMAIN kgot' : kgot'[i] \in 1..sent'
         /\ \A i, j \in DOMAIN kgot' : i < j => kgot'[i] < kgot'[j]
    BY <2>1, <2>8
  <2> QED  BY <2>1, <2>4, <2>8, <2>10, <2>11, <2>12, <2>13, <2>14, <2>15, FifoHolderSteps
<1>6. ASSUME NEW t \in Tasks, K!MoveOut(t) PROVE KfifoInv'
  <2>1. /\ kpc[t] = "move out" /\ kpc' = [kpc EXCEPT ![t] = "unlock"]
        /\ out' = K!Advance(out, moved[t]) /\ moved' = [moved EXCEPT ![t] = 0]
        /\ UNCHANGED <<kmod, opened, in, buf, ring, nodes, lock, sent, kgot>>
    BY <1>6 DEF K!MoveOut, K!Goto
  <2>2. kpc[t] \in FifoInside /\ kpc[t] \notin {"get", "get again", "move in"}
        /\ "unlock" \in FifoInside
    BY <2>1 DEF FifoInside
  <2>3. PICK q \in 0..FifoSize : q = moved[t]
    BY <1>0
  <2>4. PICK f \in 0..FifoSize : f = K!Fill
    BY <1>0
  <2>5. q <= f /\ q \in 0..f
    <3>1. moved[t] <= K!Fill
      BY <2>1 DEF KfifoInv
    <3>2. q <= f
      BY <2>3, <2>4, <3>1
    <3> QED  BY <1>0, <3>2
  <2>6. InLine(buf, out, q, f, sent, kgot)
    <3>1. InLine(buf, out, moved[t], K!Fill + 0, sent, kgot)
      BY <1>c, <2>1, <2>2
    <3>2. K!Fill + 0 = f
      BY <2>4
    <3> QED  BY <3>1, <3>2, <2>3
  <2>7. out' = K!Advance(out, q) /\ sent \in Nat
    <3>1. sent \in Nat
      BY <1>0
    <3> QED  BY <2>1, <2>3, <3>1, Zenon
  <2>8. InLine(buf, out', 0, f - q, sent, kgot)
    BY <1>0, <2>5, <2>6, <2>7, FifoMovedOut
  <2>9. out' \in 0..FifoModulus-1
        /\ out' = IF out + q < FifoModulus THEN out + q ELSE out + q - FifoModulus
    BY <1>0, <2>7, FifoAdvance
  <2>10. K!Fill' = f - q
    <3>1. K!Fill' = IF out' <= in THEN in - out' ELSE in - out' + FifoModulus
      <4>1. ((in + FifoModulus - out') % FifoModulus) = IF out' <= in THEN in - out' ELSE in - out' + FifoModulus
        BY <1>0, <2>9, FifoFill
      <4> QED  BY <2>1, <4>1 DEF K!Fill
    <3>2. f = IF out <= in THEN in - out ELSE in - out + FifoModulus
      BY <2>4, KfifoTypes
    <3>3. in \in 0..FifoModulus-1 /\ out \in 0..FifoModulus-1 /\ FifoModulus \in Nat
      BY <1>0
    <3> QED  BY <3>1, <3>2, <3>3, <2>5, <2>9
  <2>11. InLine(buf', out', 0, K!Fill' + 0, sent', kgot')
    <3>1. f - q + 0 = f - q
      BY <2>5
    <3> QED  BY <3>1, <2>1, <2>8, <2>10
  <2>12. moved' \in [Tasks -> 0..FifoSize] /\ nodes' = 0
    <3>1. 0 \in 0..FifoSize
      BY <1>0
    <3> QED  BY <1>0, <1>b, <2>1, <2>2, <3>1
  <2>13. /\ in' \in 0..FifoModulus-1 /\ nodes' \in 0..3 /\ kgot' \in Seq(1..FifoBytes)
         /\ buf' \in [0..FifoSize-1 -> 0..FifoBytes] /\ sent' \in 0..FifoBytes
         /\ \A i \in DOMAIN kgot' : kgot'[i] \in 1..sent'
         /\ \A i, j \in DOMAIN kgot' : i < j => kgot'[i] < kgot'[j]
    BY <1>0, <1>a, <2>1
  <2>14. K!Fill' <= FifoSize
    BY <1>0, <2>5, <2>10
  <2> QED  BY <2>1, <2>2, <2>9, <2>11, <2>12, <2>13, <2>14, FifoHolderSteps
<1>7. ASSUME NEW t \in Tasks, K!KfifoFromUser(t) PROVE KfifoInv'
  <2>1. /\ kpc[t] = "from user" /\ kpc' = [kpc EXCEPT ![t] = "move in"]
        /\ UNCHANGED <<kmod, opened, in, out, ring, nodes, lock, kgot>>
    BY <1>7 DEF K!KfifoFromUser, K!Goto
  <2>2. kpc[t] \in FifoInside /\ kpc[t] \notin {"get", "get again", "move out", "move in"}
        /\ "move in" \in FifoInside
    BY <2>1 DEF FifoInside
  <2>3. PICK q \in Nat : /\ K!Fill + q <= FifoSize /\ sent + q <= FifoBytes
                         /\ moved' = [moved EXCEPT ![t] = q]
                         /\ K!Store([i \in 1..q |-> sent + i]) /\ sent' = sent + q
    <3>1. PICK c \in 1..FifoSize : \E q \in 0..K!Lesser(c, K!Room) :
             /\ sent + q <= FifoBytes /\ moved' = [moved EXCEPT ![t] = q]
             /\ K!Store([i \in 1..q |-> sent + i]) /\ sent' = sent + q
      BY <1>7 DEF K!KfifoFromUser
    <3>2. K!Lesser(c, K!Room) \in Int /\ K!Lesser(c, K!Room) <= FifoSize - K!Fill
      BY <1>0 DEF K!Lesser, K!Room
    <3>3. \A q \in 0..K!Lesser(c, K!Room) : q \in Nat /\ K!Fill + q <= FifoSize
      BY <1>0, <3>2
    <3> QED  BY <3>1, <3>3
  <2>4. PICK f \in 0..FifoSize : f = K!Fill
    BY <1>0
  <2>5. PICK s \in Nat : s = sent
    BY <1>0
  <2>6. f + q <= FifoSize /\ q \in 0..FifoSize /\ s + q <= FifoBytes /\ s + q \in 0..FifoBytes
    BY <1>0, <2>3, <2>4, <2>5
  <2> DEFINE bs == [i \in 1..q |-> s + i]
  <2>7. bs \in [1..q -> 0..FifoBytes] /\ \A i \in 1..q : bs[i] = s + i
    BY <1>0, <2>6
  <2>8. K!Store(bs) /\ sent' = s + q
    BY <2>3, <2>5
  <2> HIDE DEF bs
  <2>9. /\ buf' \in [0..FifoSize-1 -> 0..FifoBytes]
        /\ \A i \in 1..K!Fill : buf'[(out + i - 1) % FifoSize] = buf[(out + i - 1) % FifoSize]
        /\ \A i \in 1..q : buf'[(out + (K!Fill + i) - 1) % FifoSize] = bs[i]
    <3>1. K!Fill + q <= FifoSize
      BY <2>4, <2>6
    <3>2. /\ in \in 0..FifoModulus-1 /\ out \in 0..FifoModulus-1
          /\ buf \in [0..FifoSize-1 -> 0..FifoBytes] /\ K!Fill <= FifoSize
      BY <1>0, <1>a
    <3>3. bs \in [1..q -> 0..FifoBytes] /\ K!Store(bs)
      BY <2>7, <2>8
    <3>4. StoredBehind(0..FifoBytes, q, bs)
      BY <3>1, <3>2, <3>3, FifoStore
    <3> QED  BY <3>4, Zenon DEF StoredBehind
  <2>10. InLine(buf, out, 0, f, s, kgot)
    <3>1. InLine(buf, out, 0, K!Fill + 0, sent, kgot)
      BY <1>c, <2>2
    <3>2. K!Fill + 0 = f
      BY <2>4
    <3> QED  BY <3>1, <3>2, <2>5
  <2>11. InLine(buf', out, 0, f + q, s + q, kgot)
    <3>1. /\ \A i \in 1..f : buf'[(out + i - 1) % FifoSize] = buf[(out + i - 1) % FifoSize]
          /\ \A i \in 1..q : buf'[(out + (f + i) - 1) % FifoSize] = s + i
          /\ \A i \in DOMAIN kgot : kgot[i] \in 1..s
      BY <1>a, <2>4, <2>5, <2>7, <2>9
    <3>2. PICK g : g = f /\ g \in Nat
      BY <1>0
    <3>3. InLine(buf', out, 0, g + q, s + q, kgot)
      BY <2>10, <3>1, <3>2, FifoPutBehind
    <3> QED  BY <3>2, <3>3
  <2>12. K!Fill' = f
    BY <2>1, <2>4 DEF K!Fill
  <2>13. moved' \in [Tasks -> 0..FifoSize] /\ moved'[t] = q
    BY <1>0, <2>3, <2>6
  <2>14. InLine(buf', out', 0, K!Fill' + moved'[t], sent', kgot')
    BY <2>1, <2>8, <2>11, <2>12, <2>13
  <2>15. /\ \A i \in DOMAIN kgot' : kgot'[i] \in 1..sent'
         /\ \A i, j \in DOMAIN kgot' : i < j => kgot'[i] < kgot'[j]
    <3>1. \A i \in DOMAIN kgot : kgot[i] \in 1..(s + q)
      <4>1. \A i \in DOMAIN kgot : kgot[i] \in 1..s
        BY <1>a, <2>5
      <4>2. \A x \in 1..s : x \in 1..(s + q)
        OBVIOUS
      <4> QED  BY <4>1, <4>2
    <3> QED  BY <1>a, <2>1, <2>8, <3>1
  <2>16. nodes' = 0
    BY <1>b, <2>1, <2>2
  <2>17. /\ in' \in 0..FifoModulus-1 /\ out' \in 0..FifoModulus-1 /\ nodes' \in 0..3
         /\ kgot' \in Seq(1..FifoBytes) /\ sent' \in 0..FifoBytes
    BY <1>0, <2>1, <2>6, <2>8
  <2>18. K!Fill' <= FifoSize /\ K!Fill' + moved'[t] <= FifoSize
    BY <2>4, <2>6, <2>12, <2>13
  <2> QED  BY <2>1, <2>2, <2>9, <2>13, <2>14, <2>15, <2>16, <2>17, <2>18, FifoHolderSteps
<1>8. ASSUME NEW t \in Tasks, K!MoveIn(t) PROVE KfifoInv'
  <2>1. /\ kpc[t] = "move in" /\ kpc' = [kpc EXCEPT ![t] = "unlock"]
        /\ in' = K!Advance(in, moved[t]) /\ moved' = [moved EXCEPT ![t] = 0]
        /\ UNCHANGED <<kmod, opened, out, buf, ring, nodes, lock, sent, kgot>>
    BY <1>8 DEF K!MoveIn, K!Goto
  <2>2. kpc[t] \in FifoInside /\ kpc[t] \notin {"get", "get again", "move out"}
        /\ "unlock" \in FifoInside
    BY <2>1 DEF FifoInside
  <2>3. PICK q \in 0..FifoSize : q = moved[t]
    BY <1>0
  <2>4. PICK f \in 0..FifoSize : f = K!Fill
    BY <1>0
  <2>5. f + q <= FifoSize
    BY <2>1, <2>3, <2>4 DEF KfifoInv
  <2>6. InLine(buf, out, 0, f + q, sent, kgot)
    <3>1. InLine(buf, out, 0, K!Fill + moved[t], sent, kgot)
      BY <1>c, <2>1, <2>2
    <3> QED  BY <3>1, <2>3, <2>4
  <2>7. in' = K!Advance(in, q)
    BY <2>1, <2>3
  <2>9. in' \in 0..FifoModulus-1
        /\ in' = IF in + q < FifoModulus THEN in + q ELSE in + q - FifoModulus
    BY <1>0, <2>7, FifoAdvance
  <2>10. K!Fill' = f + q
    <3>1. K!Fill' = IF out <= in' THEN in' - out ELSE in' - out + FifoModulus
      <4>1. ((in' + FifoModulus - out) % FifoModulus) = IF out <= in' THEN in' - out ELSE in' - out + FifoModulus
        BY <1>0, <2>9, FifoFill
      <4> QED  BY <2>1, <4>1 DEF K!Fill
    <3>2. f = IF out <= in THEN in - out ELSE in - out + FifoModulus
      BY <2>4, KfifoTypes
    <3>3. in \in 0..FifoModulus-1 /\ out \in 0..FifoModulus-1 /\ FifoModulus \in Nat
          /\ FifoSize < FifoModulus /\ FifoSize \in Nat
      BY <1>0
    <3> QED  BY <3>1, <3>2, <3>3, <2>5, <2>9
  <2>11. InLine(buf', out', 0, K!Fill' + 0, sent', kgot')
    <3>1. f + q + 0 = f + q
      OBVIOUS
    <3> QED  BY <3>1, <2>1, <2>6, <2>10
  <2>12. moved' \in [Tasks -> 0..FifoSize] /\ nodes' = 0
    <3>1. 0 \in 0..FifoSize
      BY <1>0
    <3> QED  BY <1>0, <1>b, <2>1, <2>2, <3>1
  <2>13. /\ out' \in 0..FifoModulus-1 /\ nodes' \in 0..3 /\ kgot' \in Seq(1..FifoBytes)
         /\ buf' \in [0..FifoSize-1 -> 0..FifoBytes] /\ sent' \in 0..FifoBytes
         /\ \A i \in DOMAIN kgot' : kgot'[i] \in 1..sent'
         /\ \A i, j \in DOMAIN kgot' : i < j => kgot'[i] < kgot'[j]
    BY <1>0, <1>a, <2>1
  <2>14. K!Fill' <= FifoSize
    BY <2>5, <2>10
  <2> QED  BY <2>1, <2>2, <2>9, <2>11, <2>12, <2>13, <2>14, FifoHolderSteps
<1>9. ASSUME NEW t \in Tasks, K!DemoReset(t) PROVE KfifoInv'
  <2>1. /\ kpc[t] = "reset" /\ kpc' = [kpc EXCEPT ![t] = "put"] /\ in' = 0 /\ out' = 0
        /\ UNCHANGED <<kmod, opened, buf, ring, nodes, lock, moved, sent, kgot>>
    BY <1>9 DEF K!DemoReset, K!Goto
  <2>2. kpc[t] \in FifoInside /\ kpc[t] # "node" /\ "put" \in FifoInside
    BY <2>1 DEF FifoInside
  <2>3. 0 \in 0..FifoModulus-1 /\ 0 <= FifoSize /\ 0 + 0 = 0
    BY <1>0
  <2>4. K!Fill' = 0
    <3>1. ((0 + FifoModulus - 0) % FifoModulus) = 0
      BY <2>3, FifoFill
    <3> QED  BY <2>1, <3>1 DEF K!Fill
  <2>5. InLine(buf', out', 0, K!Fill' + 0, sent', kgot')
    <3>1. InLine(buf', out', 0, 0, sent', kgot')
      BY DEF InLine
    <3> QED  BY <2>3, <2>4, <3>1
  <2>6. /\ moved' \in [Tasks -> 0..FifoSize] /\ nodes' = 0 /\ nodes' \in 0..3
        /\ kgot' \in Seq(1..FifoBytes)
        /\ buf' \in [0..FifoSize-1 -> 0..FifoBytes] /\ sent' \in 0..FifoBytes
        /\ \A i \in DOMAIN kgot' : kgot'[i] \in 1..sent'
        /\ \A i, j \in DOMAIN kgot' : i < j => kgot'[i] < kgot'[j]
    BY <1>0, <1>a, <1>b, <2>1, <2>2
  <2>7. in' \in 0..FifoModulus-1 /\ out' \in 0..FifoModulus-1 /\ K!Fill' <= FifoSize
    BY <2>1, <2>3, <2>4
  <2> QED  BY <2>1, <2>2, <2>5, <2>6, <2>7, FifoHolderSteps
<1>10. ASSUME NEW t \in Tasks, NEW from \in FifoPutting, NEW to \in FifoGetting,
             K!DemoPut(t, from, to) PROVE KfifoInv'
  <2>1. /\ kpc[t] = from /\ kpc' = [kpc EXCEPT ![t] = to]
        /\ UNCHANGED <<kmod, opened, out, ring, nodes, lock, moved, sent, kgot>>
    BY <1>10 DEF K!DemoPut, K!Goto
  <2>2. kpc[t] \in FifoInside /\ kpc[t] # "node" /\ to \in FifoInside
        /\ to \notin {"move in", "move out"} /\ to \in {"get", "get again"}
    BY <1>10, <2>1 DEF FifoInside, FifoPutting, FifoGetting
  <2>4. PICK f \in 0..FifoSize : f = K!Fill
    BY <1>0
  <2>3. PICK q \in 0..FifoSize : /\ f + q <= FifoSize
                                 /\ K!Store([i \in 1..q |-> K!Demo]) /\ in' = K!Advance(in, q)
    <3>1. /\ K!Store([i \in 1..K!Lesser(DemoBytes, K!Room) |-> K!Demo])
          /\ in' = K!Advance(in, K!Lesser(DemoBytes, K!Room))
      BY <1>10 DEF K!DemoPut
    <3>2. PICK d \in Int, r \in Int : d = DemoBytes /\ d > 0 /\ r = FifoSize - f /\ r = K!Room
      BY <1>0, <2>4 DEF K!Room
    <3>3. K!Lesser(DemoBytes, K!Room) = IF d < r THEN d ELSE r
      BY <3>2 DEF K!Lesser
    <3>4. PICK q \in Int : q = (IF d < r THEN d ELSE r)
      OBVIOUS
    <3>5. q \in 0..FifoSize /\ f + q <= FifoSize
      BY <1>0, <3>2, <3>4
    <3>6. q = K!Lesser(DemoBytes, K!Room)
      BY <3>3, <3>4
    <3> QED  BY <3>1, <3>5, <3>6
  <2> DEFINE bs == [i \in 1..q |-> K!Demo]
  <2>5. bs \in [1..q -> 0..FifoBytes] /\ K!Store(bs)
    <3>1. K!Demo \in 0..FifoBytes
      BY <1>0 DEF K!Demo
    <3> QED  BY <2>3, <3>1
  <2> HIDE DEF bs
  <2>6. buf' \in [0..FifoSize-1 -> 0..FifoBytes]
    <3>1. K!Fill + q <= FifoSize
      BY <2>3, <2>4
    <3>2. /\ in \in 0..FifoModulus-1 /\ out \in 0..FifoModulus-1 /\ q \in Nat
          /\ buf \in [0..FifoSize-1 -> 0..FifoBytes] /\ K!Fill <= FifoSize
      BY <1>0, <1>a
    <3>3. StoredBehind(0..FifoBytes, q, bs)
      BY <2>5, <3>1, <3>2, FifoStore
    <3> QED  BY <3>3, Zenon DEF StoredBehind
  <2>9. in' \in 0..FifoModulus-1
        /\ in' = IF in + q < FifoModulus THEN in + q ELSE in + q - FifoModulus
    BY <1>0, <2>3, FifoAdvance
  <2>10. K!Fill' = f + q
    <3>1. K!Fill' = IF out <= in' THEN in' - out ELSE in' - out + FifoModulus
      <4>1. ((in' + FifoModulus - out) % FifoModulus) = IF out <= in' THEN in' - out ELSE in' - out + FifoModulus
        BY <1>0, <2>9, FifoFill
      <4> QED  BY <2>1, <4>1 DEF K!Fill
    <3>2. f = IF out <= in THEN in - out ELSE in - out + FifoModulus
      BY <2>4, KfifoTypes
    <3>3. in \in 0..FifoModulus-1 /\ out \in 0..FifoModulus-1 /\ FifoModulus \in Nat
          /\ FifoSize < FifoModulus /\ FifoSize \in Nat
      BY <1>0
    <3> QED  BY <3>1, <3>2, <3>3, <2>3, <2>9
  <2>11. /\ moved' \in [Tasks -> 0..FifoSize] /\ nodes' = 0 /\ nodes' \in 0..3
         /\ kgot' \in Seq(1..FifoBytes) /\ out' \in 0..FifoModulus-1 /\ sent' \in 0..FifoBytes
         /\ \A i \in DOMAIN kgot' : kgot'[i] \in 1..sent'
         /\ \A i, j \in DOMAIN kgot' : i < j => kgot'[i] < kgot'[j]
    BY <1>0, <1>a, <1>b, <2>1, <2>2
  <2>12. K!Fill' <= FifoSize
    BY <2>3, <2>10
  <2> QED  BY <2>1, <2>2, <2>6, <2>9, <2>11, <2>12, FifoHolderSteps
<1>11. ASSUME NEW t \in Tasks, NEW from \in FifoGetting, NEW to \in FifoGot,
             K!DemoGet(t, from, to) PROVE KfifoInv'
  <2>1. /\ kpc[t] = from /\ kpc' = [kpc EXCEPT ![t] = to] /\ out' = K!Advance(out, K!Fill)
        /\ UNCHANGED <<kmod, opened, in, buf, ring, nodes, lock, moved, sent, kgot>>
    BY <1>11 DEF K!DemoGet, K!Goto
  <2>2. kpc[t] \in FifoInside /\ kpc[t] # "node" /\ to \in FifoInside
        /\ to \notin {"move in", "move out"}
    BY <1>11, <2>1 DEF FifoInside, FifoGetting, FifoGot
  <2>3. PICK f \in 0..FifoSize : f = K!Fill
    BY <1>0
  <2>4. out' = K!Advance(out, f)
    BY <2>1, <2>3, Zenon
  <2>5. out' \in 0..FifoModulus-1
        /\ out' = IF out + f < FifoModulus THEN out + f ELSE out + f - FifoModulus
    BY <1>0, <2>4, FifoAdvance
  <2>6. K!Fill' = 0
    <3>1. K!Fill' = IF out' <= in THEN in - out' ELSE in - out' + FifoModulus
      <4>1. ((in + FifoModulus - out') % FifoModulus) = IF out' <= in THEN in - out' ELSE in - out' + FifoModulus
        BY <1>0, <2>5, FifoFill
      <4> QED  BY <2>1, <4>1 DEF K!Fill
    <3>2. f = IF out <= in THEN in - out ELSE in - out + FifoModulus
      BY <2>3, KfifoTypes
    <3>3. in \in 0..FifoModulus-1 /\ out \in 0..FifoModulus-1 /\ FifoModulus \in Nat
      BY <1>0
    <3> QED  BY <3>1, <3>2, <3>3, <2>5
  <2>7. InLine(buf', out', 0, K!Fill' + 0, sent', kgot')
    <3>1. InLine(buf', out', 0, 0, sent', kgot')
      BY DEF InLine
    <3>2. 0 + 0 = 0
      OBVIOUS
    <3> QED  BY <2>6, <3>1, <3>2
  <2>8. /\ moved' \in [Tasks -> 0..FifoSize] /\ nodes' = 0 /\ nodes' \in 0..3
        /\ kgot' \in Seq(1..FifoBytes) /\ in' \in 0..FifoModulus-1
        /\ buf' \in [0..FifoSize-1 -> 0..FifoBytes] /\ sent' \in 0..FifoBytes
        /\ \A i \in DOMAIN kgot' : kgot'[i] \in 1..sent'
        /\ \A i, j \in DOMAIN kgot' : i < j => kgot'[i] < kgot'[j]
    BY <1>0, <1>a, <1>b, <2>1, <2>2
  <2>9. K!Fill' <= FifoSize
    BY <1>0, <2>6
  <2> QED  BY <2>1, <2>2, <2>5, <2>7, <2>8, <2>9, FifoHolderSteps
<1>12. ASSUME NEW t \in Tasks, K!PutNode(t) PROVE KfifoInv'
  <2>1. /\ kpc[t] = "node" /\ kpc' = [kpc EXCEPT ![t] = IF ring THEN "node" ELSE "oops"]
        /\ nodes < 3 /\ nodes' = nodes + 1
        /\ UNCHANGED <<kmod, opened, in, out, buf, ring, lock, moved, sent, kgot>>
    BY <1>12 DEF K!PutNode, K!Goto, K!NodeCount
  <2>2. PICK to : to = IF ring THEN "node" ELSE "oops"
    OBVIOUS
  <2>3. to \in {"node", "oops"}
    BY <2>2, Zenon
  <2>4. kpc' = [kpc EXCEPT ![t] = to]
    BY <2>1, <2>2, Zenon
  <2>5. lock = t /\ opened
    BY <1>a, <2>1 DEF KfifoInv, FifoInside
  <2>6. nodes' \in 0..3
    BY <1>0, <2>1
  <2>7. to \in FifoPlaces /\ to \notin FifoInside \ {"node"}
        /\ to \notin {"move out", "move in", "get", "get again"}
    BY <2>3 DEF FifoPlaces, FifoInside
  <2>8. kpc[t] \notin {"move out", "move in", "get", "get again"}
    BY <2>1
  <2> QED  BY <2>1, <2>4, <2>5, <2>6, <2>7, <2>8, FifoQuietSteps
<1>13. ASSUME NEW t \in Tasks, K!NodeFails(t) PROVE KfifoInv'
  <2>1. /\ kpc[t] = "node" /\ kpc' = [kpc EXCEPT ![t] = "out"]
        /\ UNCHANGED <<kmod, opened, in, out, buf, ring, nodes, lock, moved, sent, kgot>>
    BY <1>13 DEF K!NodeFails, K!Goto
  <2>2. lock = t
    BY <1>a, <2>1 DEF FifoInside
  <2>3. "out" \in FifoPlaces /\ "out" \notin FifoInside /\ nodes' \in 0..3
    BY <1>0, <2>1 DEF FifoPlaces, FifoInside
  <2> QED  BY <2>1, <2>2, <2>3, FifoQuietSteps
<1>14. ASSUME NEW t \in Tasks, K!GetNodes(t) PROVE KfifoInv'
  <2>1. /\ kpc[t] = "node" /\ kpc' = [kpc EXCEPT ![t] = "unlock"] /\ nodes' = 0
        /\ UNCHANGED <<kmod, opened, in, out, buf, ring, lock, moved, sent, kgot>>
    BY <1>14 DEF K!GetNodes, K!Goto
  <2>2. lock = t /\ opened
    BY <1>a, <2>1 DEF KfifoInv, FifoInside
  <2>3. "unlock" \in FifoPlaces /\ nodes' \in 0..3
    BY <2>1 DEF FifoPlaces
  <2> QED  BY <2>1, <2>2, <2>3, FifoQuietSteps
<1>15. ASSUME NEW t \in Tasks, K!Read(t) PROVE KfifoInv'
  <2>1. CASE K!ReadCheck(t)
    <3>1. K!Enter(t, "read") /\ "read" \in {"read", "write", "ioctl"}
      BY <2>1 DEF K!ReadCheck
    <3> QED  BY <3>1, <1>2
  <2>2. CASE K!ReadLock(t)
    <3>1. K!Lock(t, "read", "to user") /\ "read" \in {"read", "write", "ioctl"}
          /\ "to user" \in {"to user", "from user", "reset"}
      BY <2>2 DEF K!ReadLock
    <3> QED  BY <3>1, <1>3
  <2> QED  BY <1>5, <1>6, <1>15, <2>1, <2>2 DEF K!Read
<1>16. ASSUME NEW t \in Tasks, K!Write(t) PROVE KfifoInv'
  <2>1. CASE K!WriteCheck(t)
    <3>1. K!Enter(t, "write") /\ "write" \in {"read", "write", "ioctl"}
      BY <2>1 DEF K!WriteCheck
    <3> QED  BY <3>1, <1>2
  <2>2. CASE K!WriteLock(t)
    <3>1. K!Lock(t, "write", "from user") /\ "write" \in {"read", "write", "ioctl"}
          /\ "from user" \in {"to user", "from user", "reset"}
      BY <2>2 DEF K!WriteLock
    <3> QED  BY <3>1, <1>3
  <2> QED  BY <1>7, <1>8, <1>16, <2>1, <2>2 DEF K!Write
<1>17. ASSUME NEW t \in Tasks, K!FifoDemo(t) PROVE KfifoInv'
  <2>1. CASE K!Ioctl(t)
    <3>1. K!Enter(t, "ioctl") /\ "ioctl" \in {"read", "write", "ioctl"}
      BY <2>1 DEF K!Ioctl
    <3> QED  BY <3>1, <1>2
  <2>2. CASE K!DemoLock(t)
    <3>1. K!Lock(t, "ioctl", "reset") /\ "ioctl" \in {"read", "write", "ioctl"}
          /\ "reset" \in {"to user", "from user", "reset"}
      BY <2>2 DEF K!DemoLock
    <3> QED  BY <3>1, <1>3
  <2>3. CASE K!DemoPut(t, "put", "get") \/ K!DemoPut(t, "put again", "get again")
    <3>1. /\ "put" \in FifoPutting /\ "put again" \in FifoPutting
          /\ "get" \in FifoGetting /\ "get again" \in FifoGetting
      BY DEF FifoPutting, FifoGetting
    <3>2. CASE K!DemoPut(t, "put", "get")
      BY <3>1, <3>2, <1>10
    <3>3. CASE K!DemoPut(t, "put again", "get again")
      BY <3>1, <3>3, <1>10
    <3> QED  BY <2>3, <3>2, <3>3
  <2>4. CASE K!DemoGet(t, "get", "put again") \/ K!DemoGet(t, "get again", "node")
    <3>1. /\ "get" \in FifoGetting /\ "get again" \in FifoGetting
          /\ "put again" \in FifoGot /\ "node" \in FifoGot
      BY DEF FifoGetting, FifoGot
    <3>2. CASE K!DemoGet(t, "get", "put again")
      BY <3>1, <3>2, <1>11
    <3>3. CASE K!DemoGet(t, "get again", "node")
      BY <3>1, <3>3, <1>11
    <3> QED  BY <2>4, <3>2, <3>3
  <2> QED  BY <1>9, <1>12, <1>13, <1>14, <1>17, <2>1, <2>2, <2>3, <2>4 DEF K!FifoDemo
<1> QED  BY <1>1, <1>4, <1>15, <1>16, <1>17 DEF K!Next

-----------------------------------------------------------------------------
(* The allocation demo: what the file holds of its own.                    *)
BufPlaces == 1..Len(B!Order)
HasBuf(n) ==
    \/ bat = "opening" /\ n < k
    \/ bat = "open"
    \/ bat = "releasing" /\ n <= k

AllocInv ==
    /\ B!TypeOK
    /\ bat \in {"opening", "releasing"} => k >= 1
    /\ \A n \in BufPlaces : HasBuf(n) => ptr[B!Order[n]] = "live"
    /\ \A n \in BufPlaces : live[B!Order[n]] <= lost + (IF HasBuf(n) THEN 1 ELSE 0)

\* The places of a concatenation are those of the first, then those of the second.
LEMMA ConcatPlaces ==
    ASSUME NEW U, NEW s \in Seq(U), NEW t \in Seq(U)
    PROVE  /\ s \o t \in Seq(U) /\ Len(s \o t) = Len(s) + Len(t)
           /\ \A i \in 1..Len(s) : (s \o t)[i] = s[i]
           /\ \A i \in 1..Len(t) : (s \o t)[Len(s) + i] = t[i]
<1>1. /\ s \o t \in Seq(U) /\ Len(s \o t) = Len(s) + Len(t)
      /\ \A i \in 1..(Len(s) + Len(t)) : (s \o t)[i] = IF i <= Len(s) THEN s[i] ELSE t[i - Len(s)]
  BY ConcatProperties
<1>2. ASSUME NEW i \in 1..Len(s) PROVE (s \o t)[i] = s[i]
  <2>1. i \in 1..(Len(s) + Len(t)) /\ i <= Len(s)
    OBVIOUS
  <2> QED  BY <1>1, <2>1
<1>3. ASSUME NEW i \in 1..Len(t) PROVE (s \o t)[Len(s) + i] = t[i]
  <2>1. Len(s) + i \in 1..(Len(s) + Len(t)) /\ ~(Len(s) + i <= Len(s)) /\ (Len(s) + i) - Len(s) = i
    OBVIOUS
  <2> QED  BY <1>1, <2>1
<1> QED  BY <1>1, <1>2, <1>3

\* Each kind of memory is allocated at one place.
LEMMA OrderOnce ==
    /\ Len(B!Order) \in Nat /\ Len(B!Order) >= 8 /\ DOMAIN B!Order = 1..Len(B!Order)
    /\ \A i, j \in 1..Len(B!Order) : B!Order[i] = B!Order[j] => i = j
    /\ B!Order[1] = "kmalloc_mem" /\ B!Order[3] = "vmalloc_mem" /\ B!Order[5] = "page_mem"
<1> DEFINE Plain == <<"kmalloc_mem", "kzalloc_mem", "vmalloc_mem", "vzalloc_mem", "page_mem", "free_pages_mem">>
           High == IF HighMem THEN <<"highmem_page", "mapped_high_mem">> ELSE <<>>
           Slab == <<"my_cache", "slab_obj">>
           Names == {"kmalloc_mem", "kzalloc_mem", "vmalloc_mem", "vzalloc_mem", "page_mem",
                     "free_pages_mem", "highmem_page", "mapped_high_mem", "my_cache", "slab_obj"}
<1>1. PICK n \in {0, 2} :
        /\ High \in Seq(Names) /\ Len(High) = n
        /\ n = 2 => High[1] = "highmem_page" /\ High[2] = "mapped_high_mem"
  <2>1. CASE HighMem
    BY <2>1
  <2>2. CASE ~HighMem
    BY <2>2
  <2> QED  BY <2>1, <2>2
<1>2. /\ Plain \in Seq(Names) /\ Len(Plain) = 6
      /\ Slab \in Seq(Names) /\ Len(Slab) = 2
  OBVIOUS
<1>3. /\ Plain \o High \in Seq(Names) /\ Len(Plain \o High) = 6 + n
      /\ \A i \in 1..6 : (Plain \o High)[i] = Plain[i]
      /\ \A i \in 1..n : (Plain \o High)[6 + i] = High[i]
  <2> HIDE DEF Plain, High, Slab, Names
  <2>1. /\ Plain \o High \in Seq(Names) /\ Len(Plain \o High) = Len(Plain) + Len(High)
        /\ \A i \in 1..Len(Plain) : (Plain \o High)[i] = Plain[i]
        /\ \A i \in 1..Len(High) : (Plain \o High)[Len(Plain) + i] = High[i]
    <3>1. Plain \in Seq(Names) /\ High \in Seq(Names)
      BY <1>1, <1>2
    <3> QED  BY <3>1, ConcatPlaces
  <2>2. ASSUME NEW i \in 1..6 PROVE (Plain \o High)[i] = Plain[i]
    BY <1>2, <2>1
  <2>3. ASSUME NEW i \in 1..n PROVE (Plain \o High)[6 + i] = High[i]
    BY <1>1, <1>2, <2>1
  <2>4. Len(Plain \o High) = 6 + n
    BY <1>1, <1>2, <2>1
  <2> QED  BY <2>1, <2>2, <2>3, <2>4
<1> DEFINE Front == Plain \o High
<1>4. B!Order = Front \o Slab
  BY DEF B!Order
<1>5. /\ Front \o Slab \in Seq(Names) /\ Len(Front \o Slab) = (6 + n) + 2
      /\ \A i \in 1..(6 + n) : (Front \o Slab)[i] = Front[i]
      /\ \A i \in 1..2 : (Front \o Slab)[(6 + n) + i] = Slab[i]
  <2>1. Front \in Seq(Names) /\ Len(Front) = 6 + n /\ 6 + n \in Nat
    BY <1>1, <1>3
  <2> HIDE DEF Front, Slab, Names
  <2>2. /\ Front \o Slab \in Seq(Names) /\ Len(Front \o Slab) = Len(Front) + Len(Slab)
        /\ \A i \in 1..Len(Front) : (Front \o Slab)[i] = Front[i]
        /\ \A i \in 1..Len(Slab) : (Front \o Slab)[Len(Front) + i] = Slab[i]
    <3>1. Front \in Seq(Names) /\ Slab \in Seq(Names)
      BY <1>2, <2>1
    <3> QED  BY <3>1, ConcatPlaces
  <2>3. ASSUME NEW i \in 1..(6 + n) PROVE (Front \o Slab)[i] = Front[i]
    BY <2>1, <2>2
  <2>4. ASSUME NEW i \in 1..2 PROVE (Front \o Slab)[(6 + n) + i] = Slab[i]
    BY <1>2, <2>1, <2>2
  <2>5. Len(Front \o Slab) = (6 + n) + 2
    BY <1>2, <2>1, <2>2
  <2> QED  BY <2>2, <2>3, <2>4, <2>5
<1>6. /\ B!Order[1] = "kmalloc_mem" /\ B!Order[2] = "kzalloc_mem" /\ B!Order[3] = "vmalloc_mem"
      /\ B!Order[4] = "vzalloc_mem" /\ B!Order[5] = "page_mem" /\ B!Order[6] = "free_pages_mem"
      /\ n = 2 => B!Order[7] = "highmem_page" /\ B!Order[8] = "mapped_high_mem"
      /\ B!Order[7 + n] = "my_cache" /\ B!Order[8 + n] = "slab_obj"
      /\ Len(B!Order) = 8 + n /\ B!Order \in Seq(Names)
  <2>1. \A i \in 1..6 : B!Order[i] = Plain[i]
    <3> HIDE DEF Plain, High, Slab, Names
    <3> QED  BY <1>1, <1>3, <1>4, <1>5, SMTT(30)
  <2>2. \A i \in 1..n : B!Order[6 + i] = High[i]
    <3> HIDE DEF Plain, High, Slab, Names
    <3> QED  BY <1>1, <1>3, <1>4, <1>5, SMTT(30)
  <2>3. \A i \in 1..2 : B!Order[(6 + n) + i] = Slab[i]
    <3> HIDE DEF Plain, High, Slab, Names
    <3> QED  BY <1>1, <1>4, <1>5
  <2>4. Len(B!Order) = 8 + n /\ B!Order \in Seq(Names)
    <3> HIDE DEF Plain, High, Slab, Names
    <3> QED  BY <1>1, <1>4, <1>5
  <2>5. /\ B!Order[1] = "kmalloc_mem" /\ B!Order[2] = "kzalloc_mem" /\ B!Order[3] = "vmalloc_mem"
        /\ B!Order[4] = "vzalloc_mem" /\ B!Order[5] = "page_mem" /\ B!Order[6] = "free_pages_mem"
    BY <2>1
  <2>6. n = 2 => B!Order[7] = "highmem_page" /\ B!Order[8] = "mapped_high_mem"
    <3> HIDE DEF High
    <3> QED  BY <1>1, <2>2
  <2>7. B!Order[7 + n] = "my_cache" /\ B!Order[8 + n] = "slab_obj"
    BY <1>1, <2>3
  <2> HIDE DEF Names
  <2> QED  BY <2>4, <2>5, <2>6, <2>7
<1> HIDE DEF Plain, High, Slab, Front, Names
<1>7. \A i, j \in 1..Len(B!Order) : B!Order[i] = B!Order[j] => i = j
  <2>1. CASE n = 0
    <3>1. \A i \in 1..Len(B!Order) : i \in {1, 2, 3, 4, 5, 6, 7, 8}
      BY <1>6, <2>1
    <3> QED  BY <1>6, <2>1, <3>1
  <2>2. CASE n = 2
    <3>1. \A i \in 1..Len(B!Order) : i \in {1, 2, 3, 4, 5, 6, 7, 8, 9, 10}
      BY <1>6, <2>2
    <3> QED  BY <1>6, <2>2, <3>1
  <2> QED  BY <1>1, <2>1, <2>2
<1>8. Len(B!Order) \in Nat /\ Len(B!Order) >= 8 /\ DOMAIN B!Order = 1..Len(B!Order)
  BY <1>1, <1>6
<1> QED  BY <1>6, <1>7, <1>8

\* Each pointer of the structure has a place in the order of allocation.
LEMMA PointersPlaced ==
    /\ \A n \in BufPlaces : B!Order[n] \in B!Pointers
    /\ \A p \in B!Pointers : \E n \in BufPlaces : p = B!Order[n]
  BY OrderOnce DEF B!Pointers, BufPlaces

\* A file that is closed holds nothing.
LEMMA AllocStart == ASSUME DataParameters, B!Init PROVE AllocInv
<1>1. /\ bat = "closed" /\ k = 0 /\ lost = 0
      /\ ptr = [p \in B!Pointers |-> "NULL"] /\ live = [p \in B!Pointers |-> 0]
  BY DEF B!Init
<1>2. k \in 0..Len(B!Order) /\ lost \in 0..MaxLost
  BY <1>1, OrderOnce DEF DataParameters
<1>3. \A n \in BufPlaces : live[B!Order[n]] = 0
  BY <1>1, PointersPlaced
<1> QED  BY <1>1, <1>2, <1>3 DEF AllocInv, B!TypeOK, HasBuf

\* Each allocation, each failure and each free keeps the invariant.
LEMMA AllocStep == ASSUME DataParameters, AllocInv, B!Next PROVE AllocInv'
<1>0. /\ k \in 0..Len(B!Order) /\ lost \in 0..MaxLost
      /\ ptr \in [B!Pointers -> {"NULL", "live", "freed"}] /\ live \in [B!Pointers -> Int]
      /\ \A n \in BufPlaces : HasBuf(n) => ptr[B!Order[n]] = "live"
      /\ \A n \in BufPlaces : live[B!Order[n]] <= lost + (IF HasBuf(n) THEN 1 ELSE 0)
  BY DEF AllocInv, B!TypeOK
<1>1. CASE B!Open
  <2>1. /\ bat = "closed" /\ bat' = "opening" /\ k' = 1 /\ UNCHANGED <<ptr, live, lost>>
    BY <1>1 DEF B!Open
  <2>2. k' \in 0..Len(B!Order)
    BY <2>1, OrderOnce
  <2>3. \A n \in BufPlaces : ~HasBuf(n) /\ ~HasBuf(n)'
    BY <2>1, OrderOnce DEF HasBuf, BufPlaces
  <2> QED  BY <1>0, <2>1, <2>2, <2>3 DEF AllocInv, B!TypeOK
<1>2. CASE B!Alloc
  <2>1. /\ bat = "opening" /\ UNCHANGED lost
        /\ ptr' = [ptr EXCEPT ![B!Order[k]] = "live"]
        /\ live' = [live EXCEPT ![B!Order[k]] = @ + 1]
        /\ \/ k < Len(B!Order) /\ k' = k + 1 /\ bat' = "opening"
           \/ k >= Len(B!Order) /\ k' = k /\ bat' = "open"
    BY <1>0, <1>2, OrderOnce DEF B!Alloc
  <2>2. k \in BufPlaces /\ B!Order[k] \in B!Pointers
    BY <1>0, <2>1, OrderOnce, PointersPlaced DEF AllocInv, BufPlaces
  <2>3. k' \in 0..Len(B!Order) /\ k' >= 1 /\ bat' \in {"opening", "open"}
    BY <2>1, <2>2, OrderOnce DEF BufPlaces
  <2>4. \A n \in BufPlaces : HasBuf(n)' <=> HasBuf(n) \/ n = k
    BY <2>1, <2>2, OrderOnce DEF HasBuf, BufPlaces
  <2>5. ptr' \in [B!Pointers -> {"NULL", "live", "freed"}] /\ live' \in [B!Pointers -> Int]
    BY <1>0, <2>1, <2>2
  <2>6. ~HasBuf(k)
    BY <2>1, <2>2, OrderOnce DEF HasBuf, BufPlaces
  <2>7. ASSUME NEW n \in BufPlaces
        PROVE  /\ HasBuf(n)' => ptr'[B!Order[n]] = "live"
               /\ live'[B!Order[n]] <= lost' + (IF HasBuf(n)' THEN 1 ELSE 0)
    <3>1. B!Order[n] \in B!Pointers
      BY PointersPlaced
    <3>2. CASE n = k
      <4>1. ptr'[B!Order[n]] = "live" /\ live'[B!Order[n]] = live[B!Order[n]] + 1
        BY <1>0, <2>1, <3>1, <3>2
      <4>2. live[B!Order[n]] <= lost
        BY <1>0, <2>6, <3>2
      <4> QED  BY <1>0, <2>1, <2>4, <3>1, <3>2, <4>1, <4>2
    <3>3. CASE n # k
      <4>1. B!Order[n] # B!Order[k]
        BY <2>2, <3>3, OrderOnce DEF BufPlaces
      <4>2. ptr'[B!Order[n]] = ptr[B!Order[n]] /\ live'[B!Order[n]] = live[B!Order[n]]
        BY <1>0, <2>1, <3>1, <4>1
      <4> QED  BY <1>0, <2>1, <2>4, <3>3, <4>2
    <3> QED  BY <3>2, <3>3
  <2> QED  BY <1>0, <2>1, <2>3, <2>5, <2>7 DEF AllocInv, B!TypeOK
<1>3. CASE B!AllocFails
  <2> DEFINE undone == B!Undone(B!Order[k])
  <2>1. /\ bat = "opening" /\ bat' = "closed" /\ k' = 0 /\ lost < MaxLost /\ lost' = lost + 1
        /\ live' = [p \in B!Pointers |-> IF p \in undone THEN live[p] - 1 ELSE live[p]]
        /\ ptr' = [p \in B!Pointers |-> IF p \in undone THEN "freed"
                                        ELSE IF p = B!Order[k] /\ p # "page_mem" THEN "NULL"
                                        ELSE ptr[p]]
    BY <1>3 DEF B!AllocFails
  <2> HIDE DEF undone
  <2>2. /\ live' \in [B!Pointers -> Int] /\ ptr' \in [B!Pointers -> {"NULL", "live", "freed"}]
        /\ \A p \in B!Pointers : live'[p] <= live[p]
    BY <1>0, <2>1
  <2>3. k' \in 0..Len(B!Order) /\ lost' \in 0..MaxLost
    BY <1>0, <2>1, OrderOnce DEF DataParameters
  <2>4. ASSUME NEW n \in BufPlaces PROVE ~HasBuf(n)' /\ live'[B!Order[n]] <= lost'
    <3>1. live[B!Order[n]] \in Int /\ live'[B!Order[n]] \in Int /\ live'[B!Order[n]] <= live[B!Order[n]]
      BY <1>0, <2>2, PointersPlaced
    <3>2. live[B!Order[n]] <= lost + 1
      BY <1>0, <3>1
    <3>3. ~HasBuf(n)'
      BY <2>1 DEF HasBuf
    <3> QED  BY <1>0, <2>1, <3>1, <3>2, <3>3
  <2> QED  BY <2>1, <2>2, <2>3, <2>4 DEF AllocInv, B!TypeOK
<1>4. CASE B!Release
  <2>1. /\ bat = "open" /\ bat' = "releasing" /\ k' = Len(B!Order) /\ UNCHANGED <<ptr, live, lost>>
    BY <1>4 DEF B!Release
  <2>2. k' \in 0..Len(B!Order) /\ k' >= 1
    BY <2>1, OrderOnce
  <2>3. \A n \in BufPlaces : HasBuf(n) /\ HasBuf(n)'
    BY <2>1, OrderOnce DEF HasBuf, BufPlaces
  <2> QED  BY <1>0, <2>1, <2>2, <2>3 DEF AllocInv, B!TypeOK
<1>5. CASE B!Free
  <2>2. k \in BufPlaces /\ B!Order[k] \in B!Pointers /\ bat = "releasing"
    BY <1>0, <1>5, OrderOnce, PointersPlaced DEF AllocInv, BufPlaces, B!Free
  <2>3. HasBuf(k) /\ ptr[B!Order[k]] = "live"
    <3>1. HasBuf(k)
      BY <1>0, <2>2 DEF HasBuf
    <3> QED  BY <1>0, <2>2, <3>1
  <2>1. /\ UNCHANGED lost
        /\ ptr' = [ptr EXCEPT ![B!Order[k]] = "freed"]
        /\ live' = [live EXCEPT ![B!Order[k]] = @ - 1]
        /\ k' = k - 1 /\ bat' = IF k = 1 THEN "closed" ELSE "releasing"
    BY <1>5, <2>3 DEF B!Free
  <2>4. k' \in 0..Len(B!Order) /\ (bat' = "releasing" => k' >= 1) /\ bat' \in {"closed", "releasing"}
    BY <2>1, <2>2, OrderOnce DEF BufPlaces
  <2>5. \A n \in BufPlaces : HasBuf(n)' <=> HasBuf(n) /\ n # k
    BY <2>1, <2>2, OrderOnce DEF HasBuf, BufPlaces
  <2>6. ptr' \in [B!Pointers -> {"NULL", "live", "freed"}] /\ live' \in [B!Pointers -> Int]
    BY <1>0, <2>1, <2>2
  <2>7. ASSUME NEW n \in BufPlaces
        PROVE  /\ HasBuf(n)' => ptr'[B!Order[n]] = "live"
               /\ live'[B!Order[n]] <= lost' + (IF HasBuf(n)' THEN 1 ELSE 0)
    <3>1. B!Order[n] \in B!Pointers
      BY PointersPlaced
    <3>2. CASE n = k
      <4>1. live'[B!Order[n]] = live[B!Order[n]] - 1 /\ live[B!Order[n]] \in Int
        BY <1>0, <2>1, <3>1, <3>2
      <4>2. live[B!Order[n]] <= lost + 1
        BY <1>0, <2>3, <3>2
      <4> QED  BY <1>0, <2>1, <2>5, <3>1, <3>2, <4>1, <4>2
    <3>3. CASE n # k
      <4>1. B!Order[n] # B!Order[k]
        BY <2>2, <3>3, OrderOnce DEF BufPlaces
      <4>2. ptr'[B!Order[n]] = ptr[B!Order[n]] /\ live'[B!Order[n]] = live[B!Order[n]]
        BY <1>0, <2>1, <3>1, <4>1
      <4> QED  BY <1>0, <2>1, <2>5, <3>3, <4>2
    <3> QED  BY <3>2, <3>3
  <2> QED  BY <1>0, <2>1, <2>4, <2>6, <2>7 DEF AllocInv, B!TypeOK
<1> QED  BY <1>1, <1>2, <1>3, <1>4, <1>5 DEF B!Next

\* What release frees is live, and only what open has dropped is lost.
LEMMA AllocSound == AllocInv => B!FreesLive /\ B!LostAtMost
<1> SUFFICES ASSUME AllocInv PROVE B!FreesLive /\ B!LostAtMost
  OBVIOUS
<1>1. ASSUME bat = "releasing", NEW n \in 1..k PROVE ptr[B!Order[n]] = "live"
  <2>1. n \in BufPlaces /\ HasBuf(n)
    BY <1>1, OrderOnce DEF BufPlaces, HasBuf, AllocInv, B!TypeOK
  <2> QED  BY <2>1 DEF AllocInv
<1>2. ASSUME bat = "closed", NEW p \in B!Pointers PROVE live[p] <= lost
  <2>1. PICK n \in BufPlaces : p = B!Order[n]
    BY PointersPlaced
  <2>2. ~HasBuf(n)
    BY <1>2 DEF HasBuf
  <2> QED  BY <2>1, <2>2 DEF AllocInv, B!TypeOK
<1> QED  BY <1>1, <1>2 DEF B!FreesLive, B!LostAtMost

-----------------------------------------------------------------------------
(* 2.atomic_ops.  The units that tasks have added to counter are counted   *)
(* as a set; a step of one task adds some or takes some away.              *)
Tally(u) == UNION {{t} \X (1..u[t]) : t \in Tasks}

\* When one number grows by n, n are added to the tally.
LEMMA TallyGrows ==
    ASSUME NEW u \in [Tasks -> Int], NEW t \in Tasks, NEW v \in Int, u[t] <= v, 0 <= u[t],
           NEW u2, u2 = [u EXCEPT ![t] = v], IsFiniteSet(Tally(u))
    PROVE  /\ IsFiniteSet(Tally(u2))
           /\ Cardinality(Tally(u2)) = Cardinality(Tally(u)) + (v - u[t])
<1> DEFINE new == (u[t] + 1)..v
           T == {t} \X new
<1>0. u[t] \in Int /\ u[t] + 1 \in Int /\ v - u[t] \in Nat
  OBVIOUS
<1>1. IsFiniteSet(new) /\ Cardinality(new) = v - u[t]
  <2>1. /\ IsFiniteSet((u[t] + 1)..v)
        /\ Cardinality((u[t] + 1)..v) = IF u[t] + 1 > v THEN 0 ELSE v - (u[t] + 1) + 1
    BY <1>0, FS_Interval
  <2> QED  BY <1>0, <2>1
<1>2. IsFiniteSet({t}) /\ Cardinality({t}) = 1
  BY FS_Singleton
<1>3. IsFiniteSet(T) /\ Cardinality(T) = v - u[t]
  <2> HIDE DEF new
  <2>1. IsFiniteSet(T) /\ Cardinality(T) = 1 * Cardinality(new)
    BY <1>1, <1>2, FS_Product
  <2> QED  BY <1>1, <2>1
<1>4. Tally(u2) = Tally(u) \cup T
  <2>1. ASSUME NEW x PROVE x \in Tally(u2) <=> x \in Tally(u) \cup T
    <3>1. x \in Tally(u2) <=> \E s \in Tasks : x \in {s} \X (1..u2[s])
      BY DEF Tally
    <3>2. x \in Tally(u) <=> \E s \in Tasks : x \in {s} \X (1..u[s])
      BY DEF Tally
    <3>3. \A s \in Tasks : s # t => u2[s] = u[s]
      OBVIOUS
    <3>4. x \in {t} \X (1..u2[t]) <=> x \in {t} \X (1..u[t]) \/ x \in T
      <4>1. u2[t] = v /\ u[t] \in Int
        OBVIOUS
      <4>2. 1..v = (1..u[t]) \cup new
        BY <4>1
      <4> HIDE DEF new
      <4> QED  BY <4>1, <4>2
    <3> HIDE DEF T
    <3> QED  BY <3>1, <3>2, <3>3, <3>4
  <2> QED  BY <2>1
<1>5. Tally(u) \cap T = {}
  <2>1. ASSUME NEW s \in Tasks PROVE ({s} \X (1..u[s])) \cap T = {}
    <3>1. SUFFICES ASSUME NEW x, x \in {s} \X (1..u[s]), x \in T PROVE FALSE
      OBVIOUS
    <3>2. x[1] = s /\ x[2] \in 1..u[s]
      BY <3>1
    <3>3. x[1] = t /\ x[2] \in new
      <4> HIDE DEF new
      <4> QED  BY <3>1
    <3> QED  BY <1>0, <3>2, <3>3
  <2> QED  BY <2>1 DEF Tally
<1>6. Cardinality(Tally(u)) \in Nat
  BY FS_CardinalityType
<1> HIDE DEF T
<1>7. Cardinality(Tally(u) \cap T) = 0
  BY <1>5, FS_EmptySet
<1>8. Cardinality(Tally(u) \cup T) = Cardinality(Tally(u)) + Cardinality(T) - Cardinality(Tally(u) \cap T)
      /\ IsFiniteSet(Tally(u) \cup T)
  BY <1>3, FS_Union
<1>9. IsFiniteSet(Tally(u2)) /\ Cardinality(Tally(u2)) = Cardinality(Tally(u) \cup T)
  BY <1>4, <1>8, Zenon
<1>10. Cardinality(Tally(u2)) = Cardinality(Tally(u)) + (v - u[t])
  <2>1. Cardinality(Tally(u) \cup T) = Cardinality(Tally(u)) + (v - u[t]) - 0
    BY <1>3, <1>7, <1>8, Zenon
  <2> QED  BY <1>0, <1>6, <1>9, <2>1
<1> QED  BY <1>9, <1>10

\* When it becomes less, as many are taken from it.
LEMMA TallyShrinks ==
    ASSUME NEW u \in [Tasks -> Int], NEW t \in Tasks, NEW v \in Int, v <= u[t], 0 <= v,
           NEW u2, u2 = [u EXCEPT ![t] = v], IsFiniteSet(Tally(u))
    PROVE  /\ IsFiniteSet(Tally(u2))
           /\ Cardinality(Tally(u2)) = Cardinality(Tally(u)) + (v - u[t])
<1>1. u2 \in [Tasks -> Int] /\ u2[t] = v /\ u = [u2 EXCEPT ![t] = u[t]] /\ u[t] \in Int
  OBVIOUS
<1>2. Tally(u2) \subseteq Tally(u)
  <2>1. \A s \in Tasks : {s} \X (1..u2[s]) \subseteq {s} \X (1..u[s])
    BY <1>1
  <2> QED  BY <2>1 DEF Tally
<1>3. IsFiniteSet(Tally(u2))
  BY <1>2, FS_Subset
<1>4. Cardinality(Tally(u)) = Cardinality(Tally(u2)) + (u[t] - v)
  <2>1. u2[t] <= u[t] /\ 0 <= u2[t]
    BY <1>1
  <2>2. Cardinality(Tally(u)) = Cardinality(Tally(u2)) + (u[t] - u2[t])
    BY <1>1, <1>3, <2>1, TallyGrows, Zenon
  <2> QED  BY <1>1, <2>2
<1>5. Cardinality(Tally(u2)) \in Nat
  BY <1>3, FS_CardinalityType
<1>6. Cardinality(Tally(u)) \in Nat
  BY FS_CardinalityType
<1> QED  BY <1>1, <1>3, <1>4, <1>5, <1>6

\* Nobody has added anything at first.
LEMMA TallyEmpty == ASSUME NEW u, \A t \in Tasks : u[t] = 0
                    PROVE  IsFiniteSet(Tally(u)) /\ Cardinality(Tally(u)) = 0
<1>1. Tally(u) = {}
  BY DEF Tally
<1> QED  BY <1>1, FS_EmptySet

\* A task that has added something is in the tally.
LEMMA TallyPositive ==
    ASSUME NEW u, IsFiniteSet(Tally(u)), NEW t \in Tasks, u[t] \in Int, u[t] > 0
    PROVE  Cardinality(Tally(u)) # 0
<1>1. <<t, 1>> \in {t} \X (1..u[t])
  OBVIOUS
<1>2. Tally(u) # {}
  BY <1>1 DEF Tally
<1> QED  BY <1>2, FS_EmptySet

-----------------------------------------------------------------------------
Operations == {"idle", "add", "sub", "inc", "dec", "or", "and", "xor", "cas",
               "lock", "inside", "unlock"}
Locked == {"inside", "unlock"}
\* What each task has added.
Added == [t \in Tasks |-> 3 * calls[t] - A!Owed[apc[t]]]
AtomicTyped ==
    /\ apc \in [Tasks -> Operations] /\ calls \in [Tasks -> 0..MaxCalls]
    /\ bitflags \subseteq 0..3 /\ spinlock \in {0, 1}
\* Who is between the operations has begun an ioctl.
Begun == \A t \in Tasks : apc[t] # "idle" => calls[t] > 0
\* The tally is what counter holds, so that the compare-and-swap fails.
CounterIsTally ==
    /\ IsFiniteSet(Tally(Added)) /\ acounter = Cardinality(Tally(Added)) /\ swapped = 0
\* The lock is held by the one who is inside.
Holder ==
    /\ \A t, s \in Tasks : apc[t] \in Locked /\ apc[s] \in Locked => t = s
    /\ (spinlock = 1) <=> (\E t \in Tasks : apc[t] \in Locked)
AtomicInv == AtomicTyped /\ Begun /\ CounterIsTally /\ Holder

\* What an operation still owes.
LEMMA Owes ==
    /\ A!Owed["idle"] = 0 /\ A!Owed["add"] = 3 /\ A!Owed["sub"] = -2 /\ A!Owed["inc"] = 1
    /\ A!Owed["dec"] = 0 /\ A!Owed["or"] = 1 /\ A!Owed["and"] = 1 /\ A!Owed["xor"] = 1
    /\ A!Owed["cas"] = 1 /\ A!Owed["lock"] = 1 /\ A!Owed["inside"] = 1 /\ A!Owed["unlock"] = 0
BY DEF A!Owed

\* So that nobody has added less than nothing, and whoever is at the
\* compare-and-swap has added something.
LEMMA AddedSoFar ==
    ASSUME DataParameters, AtomicTyped, Begun
    PROVE  /\ Added \in [Tasks -> Int]
           /\ \A t \in Tasks : /\ Added[t] = 3 * calls[t] - A!Owed[apc[t]] /\ 0 <= Added[t]
                               /\ apc[t] = "cas" => 0 < Added[t]
<1>1. ASSUME NEW t \in Tasks
      PROVE  /\ 3 * calls[t] - A!Owed[apc[t]] \in Int /\ 0 <= 3 * calls[t] - A!Owed[apc[t]]
             /\ apc[t] = "cas" => 0 < 3 * calls[t] - A!Owed[apc[t]]
  <2>1. calls[t] \in Int /\ 0 <= calls[t] /\ (apc[t] # "idle" => calls[t] > 0)
    BY DEF AtomicTyped, Begun, DataParameters
  <2>2. apc[t] \in Operations
    BY DEF AtomicTyped
  <2>3. A!Owed[apc[t]] \in Int /\ A!Owed[apc[t]] <= 3 /\ (apc[t] = "idle" => A!Owed[apc[t]] = 0)
        /\ (apc[t] = "cas" => A!Owed[apc[t]] = 1)
    BY <2>2, Owes DEF Operations
  <2> QED  BY <2>1, <2>3
<1> QED  BY <1>1 DEF Added

\* At the start nobody is in an ioctl, and nothing is added.
LEMMA AtomicStart == ASSUME DataParameters, A!Init PROVE AtomicInv
<1>1. /\ apc = [t \in Tasks |-> "idle"] /\ calls = [t \in Tasks |-> 0]
      /\ acounter = 0 /\ bitflags = {3, 2} /\ spinlock = 0 /\ swapped = 0
  BY DEF A!Init
<1>2. AtomicTyped /\ Begun /\ Holder
  <2>1. AtomicTyped
    BY <1>1 DEF AtomicTyped, Operations, DataParameters
  <2>2. \A t \in Tasks : apc[t] = "idle"
    BY <1>1
  <2>3. spinlock # 1 /\ "idle" \notin Locked
    BY <1>1 DEF Locked
  <2> QED  BY <2>1, <2>2, <2>3, Zenon DEF Begun, Holder
<1>3. ASSUME NEW t \in Tasks PROVE Added[t] = 0
  <2>1. apc[t] = "idle" /\ calls[t] = 0 /\ Added[t] = 3 * calls[t] - A!Owed[apc[t]]
    BY <1>1 DEF Added
  <2>2. A!Owed[apc[t]] = 0
    BY <2>1, Owes, Zenon
  <2> QED  BY <2>1, <2>2
<1>4. CounterIsTally
  BY <1>1, <1>3, TallyEmpty DEF CounterIsTally
<1> QED  BY <1>2, <1>4 DEF AtomicInv

\* A task goes on to its next operation, adds n to counter, and by that pays
\* what it no longer owes.
LEMMA AtomicMoves ==
    ASSUME DataParameters, AtomicInv, NEW t \in Tasks,
           NEW to \in Operations, apc' = [apc EXCEPT ![t] = to],
           NEW c \in 0..MaxCalls, calls' = [calls EXCEPT ![t] = c], to # "idle" => c > 0,
           NEW n \in Int, acounter' = acounter + n,
           3 * c - A!Owed[to] = Added[t] + n,
           swapped' = swapped
    PROVE  CounterIsTally' /\ Begun'
<1>1. AtomicTyped /\ Begun /\ CounterIsTally
  BY DEF AtomicInv
<1>2. Added \in [Tasks -> Int] /\ Added[t] \in Int /\ 0 <= Added[t]
  BY <1>1, AddedSoFar
<1>3. 3 * c - A!Owed[to] \in Int /\ 0 <= 3 * c - A!Owed[to]
  <2>1. A!Owed[to] \in Int /\ A!Owed[to] <= 3 /\ (to = "idle" => A!Owed[to] = 0)
    BY Owes DEF Operations
  <2> QED  BY <2>1 DEF DataParameters
<1>4. Added' = [Added EXCEPT ![t] = 3 * c - A!Owed[to]]
  BY <1>1 DEF Added, AtomicTyped
<1>5. /\ IsFiniteSet(Tally(Added'))
      /\ Cardinality(Tally(Added')) = Cardinality(Tally(Added)) + n
  <2> DEFINE v == 3 * c - A!Owed[to]
  <2>1. v \in Int /\ 0 <= v /\ v = Added[t] + n /\ v - Added[t] = n
    BY <1>2, <1>3
  <2> HIDE DEF v
  <2>2. Added' = [Added EXCEPT ![t] = v]
    BY <1>4 DEF v
  <2>0. IsFiniteSet(Tally(Added))
    BY <1>1 DEF CounterIsTally
  <2>3. CASE Added[t] <= v
    <3>1. /\ IsFiniteSet(Tally(Added'))
          /\ Cardinality(Tally(Added')) = Cardinality(Tally(Added)) + (v - Added[t])
      BY <1>2, <2>0, <2>1, <2>2, <2>3, TallyGrows, Zenon
    <3> QED  BY <2>1, <3>1, Zenon
  <2>4. CASE v <= Added[t]
    <3>1. /\ IsFiniteSet(Tally(Added'))
          /\ Cardinality(Tally(Added')) = Cardinality(Tally(Added)) + (v - Added[t])
      BY <1>2, <2>0, <2>1, <2>2, <2>4, TallyShrinks, Zenon
    <3> QED  BY <2>1, <3>1, Zenon
  <2> QED  BY <1>2, <2>1, <2>3, <2>4
<1>6. Tally(Added)' = Tally(Added')
  BY DEF Tally
<1>7. CounterIsTally'
  BY <1>1, <1>5, <1>6 DEF CounterIsTally
<1>8. Begun'
  BY <1>1 DEF Begun, AtomicTyped
<1> QED  BY <1>7, <1>8

\* Who is not at the lock leaves it as it is.
LEMMA HolderKept ==
    ASSUME AtomicTyped, Holder, NEW t \in Tasks, NEW to \in Operations \ Locked,
           apc' = [apc EXCEPT ![t] = to], apc[t] \notin Locked, spinlock' = spinlock
    PROVE  Holder'
<1>1. \A s \in Tasks : apc'[s] \in Locked <=> apc[s] \in Locked
  BY DEF AtomicTyped
<1> QED  BY <1>1, Zenon DEF Holder

\* Each operation keeps the invariant.
LEMMA AtomicStep == ASSUME DataParameters, AtomicInv, A!Next PROVE AtomicInv'
<1>1. PICK t \in Tasks : \/ A!Ioctl(t) \/ A!Arithmetic(t) \/ A!Bitwise(t) \/ A!Cas(t)
                         \/ A!Lock(t) \/ A!Inside(t) \/ A!Unlock(t)
  BY Zenon DEF A!Next
<1>2. /\ AtomicTyped /\ Begun /\ CounterIsTally /\ Holder
      /\ apc \in [Tasks -> Operations] /\ calls \in [Tasks -> 0..MaxCalls]
      /\ bitflags \subseteq 0..3 /\ spinlock \in {0, 1}
      /\ acounter \in Nat /\ calls[t] \in 0..MaxCalls /\ MaxCalls \in Nat
  BY FS_CardinalityType DEF AtomicInv, AtomicTyped, CounterIsTally, DataParameters
<1>3. Added[t] = 3 * calls[t] - A!Owed[apc[t]] /\ Added[t] \in Int
      /\ (apc[t] = "cas" => 0 < Added[t])
  BY <1>2, AddedSoFar
<1>4. apc[t] # "idle" => calls[t] > 0
  BY <1>2 DEF Begun
<1>5. calls = [calls EXCEPT ![t] = calls[t]]
  BY <1>2
<1>6. /\ Operations \ Locked = {"idle", "add", "sub", "inc", "dec", "or", "and", "xor", "cas", "lock"}
      /\ Locked = {"inside", "unlock"} /\ Locked \subseteq Operations
  BY DEF Operations, Locked
\* Operations outside the lock.
<1>a. ASSUME NEW from \in Operations \ Locked, NEW to \in Operations \ Locked,
             from # "idle", to # "idle", A!Go(t, from, to),
             NEW n \in Int, acounter' = acounter + n, A!Owed[from] - A!Owed[to] = n,
             A!Owed[from] \in Int, A!Owed[to] \in Int,
             bitflags' \subseteq 0..3, UNCHANGED <<calls, spinlock, swapped>>
      PROVE  AtomicInv'
  <2>1. apc[t] = from /\ apc' = [apc EXCEPT ![t] = to] /\ calls' = calls /\ spinlock' = spinlock
        /\ swapped' = swapped
    BY <1>a, Zenon DEF A!Go
  <2>2. 3 * calls[t] - A!Owed[to] = Added[t] + n
    BY <1>a, <1>2, <1>3, <2>1
  <2>3. calls' = [calls EXCEPT ![t] = calls[t]] /\ calls[t] > 0
    BY <1>a, <1>4, <1>5, <2>1
  <2>4. CounterIsTally' /\ Begun'
    <3>1. to \in Operations /\ calls[t] \in 0..MaxCalls /\ n \in Int /\ acounter' = acounter + n
      BY <1>a, <1>2
    <3> QED  BY <2>1, <2>2, <2>3, <3>1, AtomicMoves, Zenon
  <2>5. Holder'
    BY <1>a, <1>2, <2>1, HolderKept, Zenon
  <2>6. AtomicTyped'
    BY <1>a, <1>2, <2>1 DEF AtomicTyped
  <2> QED  BY <2>4, <2>5, <2>6 DEF AtomicInv
<1>7. CASE A!Ioctl(t)
  <2>1. /\ apc[t] = "idle" /\ apc' = [apc EXCEPT ![t] = "add"] /\ calls[t] < MaxCalls
        /\ calls' = [calls EXCEPT ![t] = calls[t] + 1] /\ calls[t] + 1 \in 0..MaxCalls
        /\ calls[t] + 1 > 0
        /\ acounter' = acounter + 0 /\ bitflags' = bitflags /\ spinlock' = spinlock
        /\ swapped' = swapped
    BY <1>2, <1>7 DEF A!Ioctl, A!Go
  <2>2. 3 * (calls[t] + 1) - A!Owed["add"] = Added[t] + 0 /\ 0 \in Int
    BY <1>2, <1>3, <2>1, Owes
  <2>3. "add" \in Operations \ Locked /\ "add" \in Operations /\ apc[t] \notin Locked
    BY <1>6, <2>1
  <2>4. CounterIsTally' /\ Begun'
    BY <1>2, <2>1, <2>2, <2>3, AtomicMoves, Zenon
  <2>5. Holder'
    BY <1>2, <2>1, <2>3, HolderKept, Zenon
  <2>6. AtomicTyped'
    BY <1>2, <2>1, <2>3 DEF AtomicTyped
  <2> QED  BY <2>4, <2>5, <2>6 DEF AtomicInv
<1>8. CASE A!Arithmetic(t)
  <2>1. /\ "add" \in Operations \ Locked /\ "sub" \in Operations \ Locked
        /\ "inc" \in Operations \ Locked /\ "dec" \in Operations \ Locked
        /\ "or" \in Operations \ Locked
        /\ "add" # "idle" /\ "sub" # "idle" /\ "inc" # "idle" /\ "dec" # "idle" /\ "or" # "idle"
    BY <1>6
  <2>2. /\ A!Owed["add"] - A!Owed["sub"] = 5 /\ A!Owed["sub"] - A!Owed["inc"] = -3
        /\ A!Owed["inc"] - A!Owed["dec"] = 1 /\ A!Owed["dec"] - A!Owed["or"] = -1
        /\ 5 \in Int /\ -3 \in Int /\ 1 \in Int /\ -1 \in Int
        /\ A!Owed["add"] \in Int /\ A!Owed["sub"] \in Int /\ A!Owed["inc"] \in Int
        /\ A!Owed["dec"] \in Int /\ A!Owed["or"] \in Int
    BY Owes
  <2>3. ASSUME NEW from, NEW to, NEW n, A!Add(t, from, to, n)
        PROVE  /\ A!Go(t, from, to) /\ acounter' = acounter + n /\ bitflags' \subseteq 0..3
               /\ UNCHANGED <<calls, spinlock, swapped>>
    BY <1>2, <2>3 DEF A!Add
  <2>4. CASE A!Add(t, "add", "sub", 5)
    BY <1>a, <2>1, <2>2, <2>3, <2>4, ZenonT(30)
  <2>5. CASE A!Add(t, "sub", "inc", -3)
    BY <1>a, <2>1, <2>2, <2>3, <2>5, ZenonT(30)
  <2>6. CASE A!Add(t, "inc", "dec", 1)
    BY <1>a, <2>1, <2>2, <2>3, <2>6, ZenonT(30)
  <2>7. CASE A!Add(t, "dec", "or", -1)
    BY <1>a, <2>1, <2>2, <2>3, <2>7, ZenonT(30)
  <2> QED  BY <1>8, <2>4, <2>5, <2>6, <2>7, Zenon DEF A!Arithmetic
<1>9. CASE A!Bitwise(t)
  <2>1. /\ "or" \in Operations \ Locked /\ "and" \in Operations \ Locked
        /\ "xor" \in Operations \ Locked /\ "cas" \in Operations \ Locked
        /\ "or" # "idle" /\ "and" # "idle" /\ "xor" # "idle" /\ "cas" # "idle"
    BY <1>6
  <2>2. /\ A!Owed["or"] - A!Owed["and"] = 0 /\ A!Owed["and"] - A!Owed["xor"] = 0
        /\ A!Owed["xor"] - A!Owed["cas"] = 0 /\ 0 \in Int
        /\ A!Owed["or"] \in Int /\ A!Owed["and"] \in Int /\ A!Owed["xor"] \in Int
        /\ A!Owed["cas"] \in Int
    BY Owes
  <2>3. acounter' = acounter + 0 /\ UNCHANGED <<calls, spinlock, swapped>>
    BY <1>2, <1>9 DEF A!Bitwise
  <2>4. CASE A!Go(t, "or", "and") /\ bitflags' = bitflags \cup {1, 0}
    <3>1. bitflags' \subseteq 0..3
      BY <1>2, <2>4
    <3> QED  BY <1>a, <2>1, <2>2, <2>3, <2>4, <3>1, ZenonT(30)
  <2>5. CASE A!Go(t, "and", "xor") /\ bitflags' = bitflags \cap {3, 2, 1}
    <3>1. bitflags' \subseteq 0..3
      BY <1>2, <2>5
    <3> QED  BY <1>a, <2>1, <2>2, <2>3, <2>5, <3>1, ZenonT(30)
  <2>6. CASE A!Go(t, "xor", "cas") /\ bitflags' = A!SymDiff(bitflags, {2, 0})
    <3>1. bitflags' \subseteq 0..3
      BY <1>2, <2>6 DEF A!SymDiff
    <3> QED  BY <1>a, <2>1, <2>2, <2>3, <2>6, <3>1, ZenonT(30)
  <2> QED  BY <1>9, <2>4, <2>5, <2>6, Zenon DEF A!Bitwise
<1>10. CASE A!Cas(t)
  <2>1. acounter # 0
    <3>1. A!Go(t, "cas", "lock")
      BY <1>10, Zenon DEF A!Cas
    <3>2. 0 < Added[t]
      BY <1>3, <3>1 DEF A!Go
    <3>3. IsFiniteSet(Tally(Added)) /\ acounter = Cardinality(Tally(Added))
      BY <1>2 DEF CounterIsTally
    <3>4. Added[t] > 0
      BY <1>3, <3>2
    <3> QED  BY <1>3, <3>3, <3>4, TallyPositive, Zenon
  <2>2. A!Go(t, "cas", "lock") /\ UNCHANGED <<calls, bitflags, spinlock, acounter, swapped>>
    BY <1>10, <2>1, Zenon DEF A!Cas
  <2>3. acounter' = acounter + 0 /\ bitflags' \subseteq 0..3
    BY <1>2, <2>2
  <2>4. /\ A!Owed["cas"] - A!Owed["lock"] = 0 /\ 0 \in Int
        /\ A!Owed["cas"] \in Int /\ A!Owed["lock"] \in Int
    BY Owes
  <2>5. /\ "cas" \in Operations \ Locked /\ "lock" \in Operations \ Locked
        /\ "cas" # "idle" /\ "lock" # "idle"
    BY <1>6
  <2> QED  BY <1>a, <2>2, <2>3, <2>4, <2>5, ZenonT(30)
<1>11. CASE A!Lock(t)
  <2>1. /\ apc[t] = "lock" /\ apc' = [apc EXCEPT ![t] = "inside"] /\ spinlock = 0 /\ spinlock' = 1
        /\ acounter' = acounter + 0 /\ calls' = calls /\ bitflags' = bitflags /\ swapped' = swapped
    BY <1>2, <1>11 DEF A!Lock, A!Go
  <2>2. 3 * calls[t] - A!Owed["inside"] = Added[t] + 0 /\ 0 \in Int
    BY <1>2, <1>3, <2>1, Owes
  <2>3. "inside" \in Locked /\ "inside" \in Operations /\ calls' = [calls EXCEPT ![t] = calls[t]]
        /\ calls[t] > 0
    BY <1>4, <1>5, <1>6, <2>1
  <2>4. CounterIsTally' /\ Begun'
    BY <1>2, <2>1, <2>2, <2>3, AtomicMoves, Zenon
  <2>5. \A s \in Tasks : apc[s] \notin Locked
    BY <1>2, <2>1 DEF Holder
  <2>6. \A s \in Tasks : apc'[s] \in Locked <=> s = t
    BY <1>2, <2>1, <2>3, <2>5
  <2>7. Holder'
    BY <2>1, <2>6, Zenon DEF Holder
  <2>8. AtomicTyped'
    BY <1>2, <2>1, <2>3 DEF AtomicTyped
  <2> QED  BY <2>4, <2>7, <2>8 DEF AtomicInv
<1>12. CASE A!Inside(t)
  <2>1. /\ apc[t] = "inside" /\ apc' = [apc EXCEPT ![t] = "unlock"] /\ spinlock' = spinlock
        /\ acounter' = acounter + 1 /\ calls' = calls /\ bitflags' = bitflags /\ swapped' = swapped
    BY <1>12 DEF A!Inside, A!Add, A!Go
  <2>2. 3 * calls[t] - A!Owed["unlock"] = Added[t] + 1 /\ 1 \in Int
    BY <1>2, <1>3, <2>1, Owes
  <2>3. /\ "inside" \in Locked /\ "unlock" \in Locked /\ "unlock" \in Operations
        /\ calls' = [calls EXCEPT ![t] = calls[t]] /\ calls[t] > 0
    BY <1>4, <1>5, <1>6, <2>1
  <2>4. CounterIsTally' /\ Begun'
    BY <1>2, <2>1, <2>2, <2>3, AtomicMoves, Zenon
  <2>5. \A s \in Tasks : apc'[s] \in Locked <=> apc[s] \in Locked
    BY <1>2, <2>1, <2>3
  <2>6. Holder'
    BY <1>2, <2>1, <2>5, Zenon DEF Holder
  <2>7. AtomicTyped'
    BY <1>2, <2>1, <2>3 DEF AtomicTyped
  <2> QED  BY <2>4, <2>6, <2>7 DEF AtomicInv
<1>13. CASE A!Unlock(t)
  <2>1. /\ apc[t] = "unlock" /\ apc' = [apc EXCEPT ![t] = "idle"] /\ spinlock' = 0
        /\ acounter' = acounter + 0 /\ calls' = calls /\ bitflags' = bitflags /\ swapped' = swapped
    BY <1>2, <1>13 DEF A!Unlock, A!Go
  <2>2. 3 * calls[t] - A!Owed["idle"] = Added[t] + 0 /\ 0 \in Int
    BY <1>2, <1>3, <2>1, Owes
  <2>3. /\ "unlock" \in Locked /\ "idle" \notin Locked /\ "idle" \in Operations
        /\ calls' = [calls EXCEPT ![t] = calls[t]]
    BY <1>4, <1>5, <1>6, <2>1
  <2>4. CounterIsTally' /\ Begun'
    BY <1>2, <2>1, <2>2, <2>3, AtomicMoves, Zenon
  <2>5. \A s \in Tasks : apc[s] \in Locked => s = t
    BY <1>2, <2>1, <2>3, Zenon DEF Holder
  <2>6. \A s \in Tasks : apc'[s] \notin Locked
    BY <1>2, <2>1, <2>3, <2>5
  <2>7. spinlock' # 1
    BY <2>1
  <2>8. Holder'
    BY <2>6, <2>7, Zenon DEF Holder
  <2>9. AtomicTyped'
    BY <1>2, <2>1, <2>3 DEF AtomicTyped
  <2> QED  BY <2>4, <2>8, <2>9 DEF AtomicInv
<1> QED  BY <1>1, <1>7, <1>8, <1>9, <1>10, <1>11, <1>12, <1>13

\* From the invariant: at most one task is inside, and the lock says so; the
\* tally is counter.
LEMMA AtomicSound ==
    ASSUME DataParameters, AtomicInv PROVE A!TypeOK /\ A!OneInside /\ A!CounterExact
<1>1. AtomicTyped /\ Begun /\ CounterIsTally /\ Holder
  BY DEF AtomicInv
<1>2. A!OneInside
  <2> DEFINE In == {t \in Tasks : apc[t] \in {"inside", "unlock"}}
  <2>1. Locked = {"inside", "unlock"}
    BY DEF Locked
  <2>2. CASE spinlock = 1
    <3>1. PICK t \in Tasks : apc[t] \in Locked
      BY <1>1, <2>2, Zenon DEF Holder
    <3>2. In = {t}
      BY <1>1, <2>1, <3>1 DEF Holder
    <3>3. Cardinality(In) = 1
      BY <3>2, FS_Singleton, Zenon
    <3> QED  BY <2>2, <3>3, Zenon DEF A!OneInside, A!Cardinality, Cardinality
  <2>3. CASE spinlock # 1
    <3>1. In = {}
      BY <1>1, <2>1, <2>3 DEF Holder
    <3>2. spinlock = 0
      BY <1>1, <2>3 DEF AtomicTyped
    <3>3. Cardinality(In) = 0
      BY <3>1, FS_EmptySet, Zenon
    <3> QED  BY <3>2, <3>3, Zenon DEF A!OneInside, A!Cardinality, Cardinality
  <2> QED  BY <2>2, <2>3
<1>3. A!CounterExact
  <2>1. \A t \in Tasks : A!Units(t) = {t} \X (1..Added[t])
    BY DEF A!Units, Added
  <2>2. UNION {A!Units(t) : t \in Tasks} = Tally(Added)
    BY <2>1 DEF Tally
  <2> QED  BY <1>1, <2>2, Zenon DEF CounterIsTally, A!CounterExact, A!Cardinality, Cardinality
<1>4. A!TypeOK
  <2>1. apc \in [Tasks -> Operations] /\ calls \in [Tasks -> 0..MaxCalls]
    BY <1>1 DEF AtomicTyped
  <2>2. acounter \in Nat /\ swapped \in Nat
    BY <1>1, FS_CardinalityType DEF CounterIsTally
  <2> QED  BY <1>1, <2>1, <2>2 DEF AtomicTyped, Operations, A!TypeOK
<1> QED  BY <1>2, <1>3, <1>4
=============================================================================
