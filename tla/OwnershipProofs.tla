-------------------------- MODULE OwnershipProofs --------------------------
(***************************************************************************)
(* Theorems about Ownership for every reference graph, every evidence and  *)
(* every order of visits: Tarjan's algorithm as the module runs it answers *)
(* each file with the languages that reach it.                             *)
(***************************************************************************)
EXTENDS Ownership, FiniteSetTheorems, SequenceTheorems, TLAPS

(* Expanded wherever a step has to be shown to leave a variable alone. *)
USE DEF inputs, search

Elems(q) == {q[i] : i \in 1..Len(q)}
OnWork == Elems(work)

(* The edges of the search: the undecided referrers of a file. *)
Succ(p) == referrers[p] \cap Undecided

(* Stack and chain are in the order of the visits; the chain is part of    *)
(* the stack and starts at its bottom.                                     *)
Ordered(q) == \A i, j \in 1..Len(q) : i < j => index[q[i]] < index[q[j]]

OrderInv ==
  /\ \A p \in Shared : index[p] <= Visited
  /\ Ordered(stack) /\ Ordered(work)
  /\ OnWork \subseteq Open /\ Open \subseteq Undecided
  /\ \A x \in Open : index[x] > 0
  /\ Open # {} => \E w \in OnWork : \A x \in Open : index[w] <= index[x]

(* An open file reaches those opened after it, the file its low number     *)
(* belongs to, and, once left, a file of the chain below it.               *)
ReachInv ==
  /\ \A x, y \in Open : index[x] < index[y] => y \in Upstream(x)
  /\ \A x \in Open \ OnWork : \E w \in OnWork : index[w] < index[x] /\ w \in Upstream(x)
  /\ \A x \in Open : \E z \in Open :
       index[z] = low[x] /\ index[z] <= index[x] /\ z \in Upstream(x)

(* w is the file of the chain whose visit x belongs to. *)
Heads(w, x) ==
  index[w] <= index[x] /\ \A v \in OnWork : index[v] <= index[x] => index[v] <= index[w]

(* Referrers looked at have been visited, and the low number of the visit  *)
(* they were looked at in knows of those still open.                       *)
LookedInv ==
  /\ \A x \in Open :
       /\ pending[x] \subseteq Succ(x)
       /\ x \notin OnWork => pending[x] = {}
       /\ \A y \in Succ(x) \ pending[x] : index[y] > 0
  /\ \A w \in OnWork, x \in Open : Heads(w, x) =>
       \A y \in (Succ(x) \ pending[x]) \cap Open : low[w] <= index[y]

SearchInv == OrderInv /\ ReachInv /\ LookedInv /\ AnswersAreReach

-----------------------------------------------------------------------------
(* Types                                                                   *)

LEMMA SoleMember ==
  ASSUME NEW S, IsFiniteSet(S), Sole(S) # None
  PROVE  Sole(S) \in S
<1>1. Cardinality(S) = 1
  BY DEF Sole
<1>2. S # {}
  BY <1>1, FS_EmptySet
<1>3. QED
  BY <1>1, <1>2 DEF Sole

LEMMA SoleType ==
  ASSUME NEW S \in SUBSET Langs
  PROVE  Sole(S) \in Langs \cup {None}
BY SoleMember, FS_Subset, OwnershipAssumption

LEMMA ContentType ==
  ASSUME TypeOK, NEW p \in Shared
  PROVE  ByContent(p) \in Langs \cup {None}
<1>1. proves[p] \in SUBSET Langs
  BY OwnershipAssumption DEF TypeOK
<1>2. QED
  BY <1>1, SoleType DEF ByContent

LEMMA VisitedBound ==
  ASSUME TypeOK
  PROVE  /\ Visited \in 0..Cardinality(Shared) /\ Cardinality(Shared) \in Nat
         /\ \A p \in Shared : index[p] = 0 => Visited + 1 \in 0..Cardinality(Shared)
<1> DEFINE seen == {p \in Shared : index[p] > 0}
<1>1. Cardinality(Shared) \in Nat /\ IsFiniteSet(Shared)
  BY FS_CardinalityType, OwnershipAssumption
<1>2. Visited \in Nat /\ Visited <= Cardinality(Shared)
  BY <1>1, FS_Subset, FS_CardinalityType DEF Visited
<1>3. ASSUME NEW p \in Shared, index[p] = 0
      PROVE  Visited + 1 <= Cardinality(Shared)
  <2>1. seen \subseteq Shared \ {p}
    BY <1>3
  <2>2. IsFiniteSet(Shared \ {p}) /\ Cardinality(Shared \ {p}) = Cardinality(Shared) - 1
    BY <1>1, FS_RemoveElement
  <2>3. Cardinality(seen) <= Cardinality(Shared \ {p})
    BY <2>1, <2>2, FS_Subset
  <2>4. QED
    BY <1>1, <1>2, <2>2, <2>3 DEF Visited
<1>4. QED
  BY <1>1, <1>2, <1>3

LEMMA TopType ==
  ASSUME TypeOK, work # <<>>
  PROVE  Top \in Shared /\ Len(work) \in Nat \ {0}
BY DEF TypeOK, Top

LEMMA ReferencedByType ==
  ASSUME TypeOK, NEW component \in SUBSET Shared
  PROVE  ReferencedBy(component) \subseteq Langs
<1> DEFINE outside == (UNION {referrers[p] : p \in component}) \ component
           said(q) == IF q \in Known THEN {Language[q]}
                      ELSE IF q \in Undecided THEN answer[q] ELSE {ByContent(q)}
<1>1. ASSUME NEW q \in outside
      PROVE  said(q) \subseteq Langs
  <2>1. q \in Shared \cup Known
    BY <1>1 DEF TypeOK, Files
  <2>2. CASE q \in Known
    BY <2>2, OwnershipAssumption
  <2>3. CASE q \in Undecided
    BY <2>1, <2>2, <2>3 DEF TypeOK, Undecided
  <2>4. CASE q \notin Known /\ q \notin Undecided
    BY <2>1, <2>4, ContentType DEF Undecided
  <2>5. QED
    BY <2>2, <2>3, <2>4
<1>2. QED
  BY <1>1 DEF ReferencedBy

LEMMA InitTyped == Init => TypeOK
<1> SUFFICES ASSUME Init PROVE TypeOK
  OBVIOUS
<1>1. 0 \in 0..Cardinality(Shared)
  BY FS_CardinalityType, OwnershipAssumption
<1>2. referrers \in [Shared -> SUBSET Files] /\ proves \in [Shared -> SUBSET Provers]
  BY DEF Init
<1>3. stack \in Seq(Shared) /\ work \in Seq(Shared)
  BY DEF Init
<1>4. QED
  BY <1>1, <1>2, <1>3 DEF Init, TypeOK

LEMMA VisitTyped ==
  ASSUME TypeOK, NEW p \in Shared, VisitRoot(p) \/ Descend(p)
  PROVE  TypeOK'
<1>1. Visit(p) /\ index[p] = 0
  BY DEF VisitRoot, Descend
<1>2. Visited + 1 \in 0..Cardinality(Shared)
  BY <1>1, VisitedBound
<1>3. /\ index' \in [Shared -> 0..Cardinality(Shared)] /\ low' \in [Shared -> 0..Cardinality(Shared)]
      /\ stack' \in Seq(Shared) /\ work' \in Seq(Shared)
      /\ UNCHANGED <<inputs, phase, decided, settled, answer>>
  BY <1>1, <1>2 DEF Visit, TypeOK
<1>4. pending' \in [Shared -> SUBSET Shared]
  <2>1. referrers[p] \cap Undecided \in SUBSET Shared /\ pending \in [Shared -> SUBSET Shared]
    BY DEF TypeOK, Undecided
  <2>2. CASE VisitRoot(p)
    BY <2>1, <2>2 DEF VisitRoot
  <2>3. CASE Descend(p)
    <3>1. pending' = [pending EXCEPT ![Top] = @ \ {p}, ![p] = referrers[p] \cap Undecided]
      BY <2>3 DEF Descend
    <3>2. pending[Top] \ {p} \in SUBSET Shared
      BY <2>1, <2>3, TopType DEF Descend
    <3>3. QED
      BY <2>1, <3>1, <3>2
  <2>4. QED
    BY <2>2, <2>3
<1>5. QED
  BY <1>3, <1>4 DEF TypeOK

LEMMA LookTyped ==
  ASSUME TypeOK, NEW p \in Shared, LookBack(p)
  PROVE  TypeOK'
<1>1. low' \in [Shared -> 0..Cardinality(Shared)]
  BY DEF LookBack, TypeOK, Least
<1>2. QED
  BY <1>1 DEF LookBack, TypeOK

(* What a Leave cuts off: the chain loses its last file, and the component *)
(* is what has been opened since that file.                                *)
Rest == SubSeq(work, 1, Len(work) - 1)
From == CHOOSE i \in 1..Len(stack) : stack[i] = Top
Component == {stack[i] : i \in From..Len(stack)}

LEMMA RestIs ==
  ASSUME TypeOK, work # <<>>
  PROVE  /\ Rest \in Seq(Shared) /\ Len(Rest) = Len(work) - 1
         /\ \A i \in 1..(Len(work) - 1) : Rest[i] = work[i]
<1>1. work \in Seq(Shared) /\ Len(work) \in Nat \ {0}
  BY DEF TypeOK
<1> DEFINE n == Len(work) - 1
<1>2. 1 \in 1..Len(work) + 1 /\ n \in 0..Len(work)
  BY <1>1
<1>3. \A i \in 1..n : work[i] \in Shared /\ 1 + i - 1 = i
  BY <1>1, <1>2
<1>4. /\ SubSeq(work, 1, n) \in Seq(Shared)
      /\ Len(SubSeq(work, 1, n)) = IF 1 <= n THEN n - 1 + 1 ELSE 0
      /\ \A i \in 1..n - 1 + 1 : SubSeq(work, 1, n)[i] = work[1 + i - 1]
  BY <1>2, <1>3, SubSeqProperties
<1> HIDE DEF n
<1>5. n \in Nat /\ (IF 1 <= n THEN n - 1 + 1 ELSE 0) = n /\ n - 1 + 1 = n
  BY <1>2
<1>6. /\ SubSeq(work, 1, n) \in Seq(Shared) /\ Len(SubSeq(work, 1, n)) = n
      /\ \A i \in 1..n : SubSeq(work, 1, n)[i] = work[i]
  BY <1>3, <1>4, <1>5
<1>7. QED
  BY <1>6 DEF Rest, n

LEMMA RestOfChain ==
  ASSUME TypeOK, OrderInv, work # <<>>
  PROVE  /\ Rest \in Seq(Shared) /\ Ordered(Rest) /\ Elems(Rest) = OnWork \ {Top}
         /\ Top \in OnWork /\ \A w \in OnWork : index[w] <= index[Top]
         /\ Rest # <<>> => Rest[Len(Rest)] \in OnWork \ {Top}
         /\ Rest = <<>> => OnWork = {Top}
<1>1. work \in Seq(Shared) /\ Len(work) \in Nat \ {0}
  BY DEF TypeOK
<1>2. /\ Rest \in Seq(Shared) /\ Len(Rest) = Len(work) - 1
      /\ \A i \in 1..(Len(work) - 1) : Rest[i] = work[i]
  BY RestIs
<1>3. \A i \in 1..Len(work) : work[i] \in Shared /\ index[work[i]] \in Nat
  BY <1>1 DEF TypeOK
<1>4. \A i \in 1..(Len(work) - 1) : index[work[i]] < index[Top] /\ work[i] # Top
  BY <1>1, <1>3 DEF Top, OrderInv, Ordered
<1>5. Ordered(Rest)
  BY <1>1, <1>2 DEF OrderInv, Ordered
<1>6. Top \in OnWork
  BY <1>1 DEF Top, OnWork, Elems
<1>7. Elems(Rest) = OnWork \ {Top}
  <2>1. Elems(Rest) = {work[i] : i \in 1..(Len(work) - 1)}
    BY <1>1, <1>2 DEF Elems
  <2>2. ASSUME NEW x \in OnWork, x # Top
        PROVE  x \in {work[i] : i \in 1..(Len(work) - 1)}
    <3>1. PICK i \in 1..Len(work) : x = work[i]
      BY DEF OnWork, Elems
    <3>2. i # Len(work)
      BY <2>2, <3>1 DEF Top
    <3>3. i \in 1..(Len(work) - 1)
      BY <1>1, <3>1, <3>2
    <3>4. QED
      BY <3>1, <3>3
  <2>3. {work[i] : i \in 1..(Len(work) - 1)} \subseteq OnWork \ {Top}
    BY <1>1, <1>4 DEF OnWork, Elems
  <2>4. QED
    BY <2>1, <2>2, <2>3
<1>8. \A w \in OnWork : index[w] <= index[Top]
  <2>1. ASSUME NEW w \in OnWork
        PROVE  index[w] <= index[Top]
    <3>1. CASE w = Top
      BY <1>1, <1>3, <3>1 DEF Top
    <3>2. CASE w # Top
      <4>1. PICK i \in 1..(Len(work) - 1) : w = Rest[i]
        BY <1>1, <1>2, <1>7, <2>1, <3>2 DEF Elems
      <4>2. w = work[i] /\ i \in 1..Len(work) /\ Len(work) \in 1..Len(work)
        BY <1>1, <1>2, <4>1
      <4>3. index[w] < index[Top] /\ index[w] \in Nat /\ index[Top] \in Nat
        BY <1>3, <1>4, <4>1, <4>2 DEF Top
      <4>4. QED
        BY <4>3
    <3>3. QED
      BY <3>1, <3>2
  <2>2. QED
    BY <2>1
<1>9. Rest # <<>> => Rest[Len(Rest)] \in OnWork \ {Top}
  <2>1. ASSUME Rest # <<>> PROVE Rest[Len(Rest)] \in Elems(Rest)
    BY <1>2, <2>1 DEF Elems
  <2>2. QED
    BY <1>7, <2>1
<1>10. Rest = <<>> => OnWork = {Top}
  <2>1. ASSUME Rest = <<>> PROVE Elems(Rest) = {}
    BY <2>1 DEF Elems
  <2>2. QED
    BY <1>6, <1>7, <2>1
<1>11. QED
  BY <1>2, <1>5, <1>6, <1>7, <1>8, <1>9, <1>10

LEMMA ComponentIsTail ==
  ASSUME TypeOK, OrderInv, work # <<>>
  PROVE  /\ SubSeq(stack, 1, From - 1) \in Seq(Shared) /\ Ordered(SubSeq(stack, 1, From - 1))
         /\ Elems(SubSeq(stack, 1, From - 1)) = Open \ Component
         /\ Component = {x \in Open : index[x] >= index[Top]}
<1>1. stack \in Seq(Shared) /\ Len(stack) \in Nat
  BY DEF TypeOK
<1>2. Top \in Open
  BY RestOfChain DEF OrderInv
<1>3. From \in 1..Len(stack) /\ stack[From] = Top
  BY <1>2 DEF From, Open
<1>4. \A i \in 1..Len(stack) : stack[i] \in Shared /\ index[stack[i]] \in Nat
  BY <1>1 DEF TypeOK
<1>5. \A i, j \in 1..Len(stack) : i < j => index[stack[i]] < index[stack[j]]
  BY DEF OrderInv, Ordered
<1>6. \A i \in 1..Len(stack) : index[stack[i]] >= index[Top] <=> i \in From..Len(stack)
  <2>1. ASSUME NEW i \in 1..Len(stack)
        PROVE  index[stack[i]] >= index[Top] <=> i \in From..Len(stack)
    <3>1. i < From \/ i = From \/ From < i
      BY <1>1, <1>3
    <3>2. i < From => index[stack[i]] < index[Top]
      BY <1>3, <1>5
    <3>3. From < i => index[Top] < index[stack[i]]
      BY <1>3, <1>5
    <3>4. QED
      BY <1>1, <1>3, <1>4, <3>1, <3>2, <3>3
  <2>2. QED
    BY <2>1
<1>7. Component = {x \in Open : index[x] >= index[Top]}
  <2>1. From..Len(stack) \subseteq 1..Len(stack)
    BY <1>1, <1>3
  <2>2. QED
    BY <1>6, <2>1 DEF Component, Open
<1>8. /\ SubSeq(stack, 1, From - 1) \in Seq(Shared) /\ Len(SubSeq(stack, 1, From - 1)) = From - 1
      /\ \A i \in 1..(From - 1) : SubSeq(stack, 1, From - 1)[i] = stack[i] /\ i \in 1..Len(stack)
  BY <1>1, <1>3
<1>9. Ordered(SubSeq(stack, 1, From - 1))
  BY <1>3, <1>5, <1>8 DEF Ordered
<1>10. Elems(SubSeq(stack, 1, From - 1)) = Open \ Component
  <2>1. Elems(SubSeq(stack, 1, From - 1)) = {stack[i] : i \in 1..(From - 1)}
    BY <1>8 DEF Elems
  <2>2. \A i \in 1..Len(stack) : stack[i] \in Component <=> i \in From..Len(stack)
    BY <1>6, <1>7 DEF Open
  <2>3. \A i \in 1..Len(stack) : i \in 1..(From - 1) <=> i \notin From..Len(stack)
    BY <1>1, <1>3
  <2>4. 1..(From - 1) \subseteq 1..Len(stack)
    BY <1>1, <1>3
  <2>5. QED
    BY <2>1, <2>2, <2>3, <2>4 DEF Open
<1>11. QED
  BY <1>7, <1>8, <1>9, <1>10

(* One Leave, in terms of the above. *)
LEMMA LeaveEffect ==
  ASSUME Leave
  PROVE  /\ work # <<>> /\ pending[Top] = {} /\ phase = "visit" /\ work' = Rest
         /\ low' = IF Rest = <<>> THEN low
                   ELSE [low EXCEPT ![Rest[Len(Rest)]] = Least(@, low[Top])]
         /\ IF low[Top] = index[Top]
            THEN /\ stack' = SubSeq(stack, 1, From - 1)
                 /\ answer' = [p \in Shared |->
                      IF p \in Component THEN ReferencedBy(Component) ELSE answer[p]]
            ELSE UNCHANGED <<stack, answer>>
         /\ UNCHANGED <<inputs, phase, decided, settled, index, pending>>
BY DEF Leave, Rest, From, Component

LEMMA LeaveTyped ==
  ASSUME TypeOK, OrderInv, Leave
  PROVE  TypeOK'
<1>1. work' \in Seq(Shared)
  BY LeaveEffect, RestOfChain
<1>2. low' \in [Shared -> 0..Cardinality(Shared)]
  <2>1. Rest # <<>> => Rest[Len(Rest)] \in Shared
    BY LeaveEffect, RestOfChain DEF OrderInv, Undecided
  <2>2. Top \in Shared
    BY LeaveEffect, TopType
  <2>3. QED
    BY <2>1, <2>2, LeaveEffect DEF TypeOK, Least
<1>3. stack' \in Seq(Shared)
  BY LeaveEffect, ComponentIsTail DEF TypeOK
<1>4. answer' \in [Shared -> SUBSET Langs]
  <2>1. Component \in SUBSET Shared
    BY LeaveEffect, ComponentIsTail DEF OrderInv, Undecided
  <2>2. ReferencedBy(Component) \subseteq Langs
    BY <2>1, ReferencedByType
  <2>3. QED
    BY <2>2, LeaveEffect DEF TypeOK
<1>5. QED
  BY <1>1, <1>2, <1>3, <1>4, LeaveEffect DEF TypeOK

-----------------------------------------------------------------------------
(* What is upstream of what                                                *)

LEMMA UpstreamSelf ==
  ASSUME NEW p \in Undecided
  PROVE  p \in Upstream(p)
BY DEF Upstream

LEMMA UpstreamStep ==
  ASSUME NEW p, NEW q \in Upstream(p), NEW r \in Succ(q)
  PROVE  r \in Upstream(p)
BY DEF Upstream, Succ

(* Upstream(p) is in every set that holds p and the successors of its      *)
(* members.                                                                *)
LEMMA UpstreamLeast ==
  ASSUME NEW p, NEW S \in SUBSET Undecided, p \in S, \A s \in S : Succ(s) \subseteq S
  PROVE  Upstream(p) \subseteq S
BY DEF Upstream, Succ

LEMMA UpstreamTransitive ==
  ASSUME NEW p, NEW q \in Upstream(p)
  PROVE  Upstream(q) \subseteq Upstream(p)
<1>1. Upstream(p) \in SUBSET Undecided
  BY DEF Upstream
<1>2. \A s \in Upstream(p) : Succ(s) \subseteq Upstream(p)
  BY UpstreamStep
<1>3. QED
  BY <1>1, <1>2, UpstreamLeast

LEMMA InputsStay ==
  ASSUME UNCHANGED inputs
  PROVE  /\ Undecided' = Undecided
         /\ \A p : Succ(p)' = Succ(p) /\ Upstream(p)' = Upstream(p) /\ Referring(p)' = Referring(p)
<1>1. proves' = proves /\ referrers' = referrers
  OBVIOUS
<1>2. Undecided' = Undecided
  BY <1>1 DEF Undecided, ByContent
<1>3. \A p : Succ(p)' = Succ(p)
  BY <1>1, <1>2 DEF Succ
<1>4. \A p : Upstream(p)' = Upstream(p)
  BY <1>1, <1>2 DEF Upstream
<1>5. \A p : Referring(p)' = Referring(p)
  BY <1>1, <1>2, <1>4 DEF Referring, ByContent
<1>6. QED
  BY <1>2, <1>3, <1>4, <1>5

(* The language a settled file speaks. *)
Says(q) == IF q \in Known THEN Language[q] ELSE ByContent(q)

LEMMA ReferringIs ==
  ASSUME TypeOK, NEW p, NEW l
  PROVE  l \in Referring(p) <=>
           \E u \in Upstream(p) : \E q \in referrers[u] \ Undecided : l = Says(q)
<1> DEFINE through == (UNION {referrers[q] : q \in Upstream(p)}) \ Undecided
<1>1. through \subseteq Shared \cup Known /\ Shared \cap Known = {}
  BY OwnershipAssumption DEF TypeOK, Upstream, Undecided, Files
<1>2. l \in Referring(p) <=>
        \/ \E q \in through \cap Known : l = Language[q]
        \/ \E q \in through \cap Shared : l = ByContent(q)
  BY DEF Referring
<1>3. l \in Referring(p) <=> \E q \in through : l = Says(q)
  BY <1>1, <1>2 DEF Says
<1>4. \A q : q \in through <=> \E u \in Upstream(p) : q \in referrers[u] \ Undecided
  OBVIOUS
<1>5. QED
  BY <1>3, <1>4

LEMMA ReferencedByIs ==
  ASSUME TypeOK, NEW C \in SUBSET Shared, NEW l
  PROVE  l \in ReferencedBy(C) <=>
           \E x \in C : \E q \in referrers[x] \ C :
             \/ q \notin Undecided /\ l = Says(q)
             \/ q \in Undecided /\ l \in answer[q]
<1> DEFINE outside == (UNION {referrers[p] : p \in C}) \ C
           said(q) == IF q \in Known THEN {Language[q]}
                      ELSE IF q \in Undecided THEN answer[q] ELSE {ByContent(q)}
<1>1. l \in ReferencedBy(C) <=> \E q \in outside : l \in said(q)
  BY DEF ReferencedBy
<1>2. ASSUME NEW q
      PROVE  l \in said(q) <=> \/ q \notin Undecided /\ l = Says(q)
                               \/ q \in Undecided /\ l \in answer[q]
  <2>1. ~(q \in Known /\ q \in Undecided)
    BY OwnershipAssumption DEF Undecided
  <2>2. QED
    BY <2>1 DEF Says
<1>3. QED
  BY <1>1, <1>2

-----------------------------------------------------------------------------
(* The search                                                              *)

LEMMA IndexType ==
  ASSUME TypeOK
  PROVE  \A x \in Shared : index[x] \in Nat /\ low[x] \in Nat
BY DEF TypeOK

LEMMA OpenIsTyped ==
  ASSUME TypeOK
  PROVE  Open \subseteq Shared /\ OnWork \subseteq Shared
BY DEF TypeOK, Open, OnWork, Elems

LEMMA OpenDistinct ==
  ASSUME TypeOK, OrderInv, NEW x \in Open, NEW y \in Open, index[x] = index[y]
  PROVE  x = y
<1>1. PICK i \in 1..Len(stack) : x = stack[i]
  BY DEF Open
<1>2. PICK j \in 1..Len(stack) : y = stack[j]
  BY DEF Open
<1>3. ~(i < j) /\ ~(j < i)
  BY <1>1, <1>2, OpenIsTyped, IndexType DEF OrderInv, Ordered
<1>4. QED
  BY <1>1, <1>2, <1>3

(* Everything open leads to the file being visited, and that leads to what *)
(* has been opened since.                                                  *)
LEMMA TopReached ==
  ASSUME TypeOK, OrderInv, ReachInv, work # <<>>
  PROVE  /\ Top \in OnWork /\ Top \in Open /\ \A w \in OnWork : index[w] <= index[Top]
         /\ \A x \in Open : Top \in Upstream(x)
         /\ \A x \in Open : index[x] >= index[Top] => x \in Upstream(Top)
<1>1. Top \in OnWork /\ Top \in Open /\ \A w \in OnWork : index[w] <= index[Top]
  BY RestOfChain DEF OrderInv
<1>2. ASSUME NEW w \in OnWork
      PROVE  Top \in Upstream(w)
  <2>1. w \in Open
    BY DEF OrderInv
  <2>2. CASE index[w] = index[Top]
    BY <1>1, <2>1, <2>2, OpenDistinct, UpstreamSelf DEF OrderInv
  <2>3. CASE index[w] # index[Top]
    <3>1. index[w] < index[Top]
      BY <1>1, <2>1, <2>3, OpenIsTyped, IndexType
    <3>2. QED
      BY <1>1, <2>1, <3>1 DEF ReachInv
  <2>4. QED
    BY <2>2, <2>3
<1>3. ASSUME NEW x \in Open
      PROVE  Top \in Upstream(x)
  <2>1. CASE x \in OnWork
    BY <1>2, <2>1
  <2>2. CASE x \notin OnWork
    <3>1. PICK w \in OnWork : w \in Upstream(x)
      BY <2>2 DEF ReachInv
    <3>2. QED
      BY <1>2, <3>1, UpstreamTransitive
  <2>3. QED
    BY <2>1, <2>2
<1>4. ASSUME NEW x \in Open, index[x] >= index[Top]
      PROVE  x \in Upstream(Top)
  <2>1. index[x] = index[Top] \/ index[Top] < index[x]
    BY <1>1, <1>4, OpenIsTyped, IndexType
  <2>2. CASE index[x] = index[Top]
    BY <1>1, <2>2, OpenDistinct, UpstreamSelf DEF OrderInv
  <2>3. CASE index[Top] < index[x]
    BY <1>1, <2>3 DEF ReachInv
  <2>4. QED
    BY <2>1, <2>2, <2>3
<1>5. QED
  BY <1>1, <1>3, <1>4

LEMMA VisitEffect ==
  ASSUME TypeOK, SearchInv, NEW p \in Shared, VisitRoot(p) \/ Descend(p)
  PROVE  /\ p \in Undecided /\ p \notin Open /\ \A x \in Open : p \in Upstream(x)
         /\ Ordered(stack)' /\ Ordered(work)'
         /\ Open' = Open \cup {p} /\ OnWork' = OnWork \cup {p}
         /\ Visited' = Visited + 1 /\ index'[p] = Visited + 1 /\ low'[p] = Visited + 1
         /\ \A x \in Shared \ {p} : index'[x] = index[x] /\ low'[x] = low[x]
         /\ index[p] = 0 /\ Visited \in Nat /\ \A x \in Shared : index[x] <= Visited
         /\ pending'[p] = Succ(p)
         /\ \A x \in Open : \/ pending'[x] = pending[x]
                             \/ pending'[x] = pending[x] \ {p}
         /\ UNCHANGED <<inputs, answer>>
<1>1. Visit(p) /\ index[p] = 0 /\ UNCHANGED <<inputs, answer>>
  BY DEF VisitRoot, Descend, Visit
<1>2. \A x \in Shared : index[x] \in Nat /\ index[x] <= Visited
  BY IndexType DEF SearchInv, OrderInv
<1>3. Visited \in Nat /\ IsFiniteSet(Shared)
  BY VisitedBound, OwnershipAssumption
<1>4. p \notin Open
  BY <1>1 DEF SearchInv, OrderInv
<1>5. /\ index'[p] = Visited + 1 /\ low'[p] = Visited + 1
      /\ \A x \in Shared \ {p} : index'[x] = index[x] /\ low'[x] = low[x]
  BY <1>1 DEF Visit, TypeOK
<1>6. Visited' = Visited + 1
  <2> DEFINE seen == {x \in Shared : index[x] > 0}
  <2>1. {x \in Shared : index'[x] > 0} = seen \cup {p}
    BY <1>3, <1>5
  <2>2. IsFiniteSet(seen) /\ p \notin seen
    BY <1>1, <1>3, FS_Subset
  <2>3. Cardinality(seen \cup {p}) = Cardinality(seen) + 1
    BY <2>2, FS_AddElement
  <2>4. QED
    BY <2>1, <2>3 DEF Visited
<1>7. ASSUME NEW q \in Seq(Shared), Ordered(q), p \notin Elems(q)
      PROVE  /\ Elems(Append(q, p)) = Elems(q) \cup {p}
             /\ \A i, j \in 1..Len(Append(q, p)) :
                  i < j => index'[Append(q, p)[i]] < index'[Append(q, p)[j]]
  <2>1. /\ Len(q) \in Nat /\ Len(Append(q, p)) = Len(q) + 1
        /\ \A i \in 1..Len(q) : Append(q, p)[i] = q[i] /\ q[i] \in Shared /\ q[i] # p
        /\ Append(q, p)[Len(q) + 1] = p
    BY <1>7 DEF Elems
  <2>2. \A i \in 1..Len(q) : index'[Append(q, p)[i]] = index[q[i]]
    BY <1>5, <2>1
  <2>3. Elems(Append(q, p)) = Elems(q) \cup {p}
    <3>1. 1..(Len(q) + 1) = (1..Len(q)) \cup {Len(q) + 1}
      BY <2>1
    <3>2. QED
      BY <2>1, <3>1 DEF Elems
  <2>4. ASSUME NEW i \in 1..Len(Append(q, p)), NEW j \in 1..Len(Append(q, p)), i < j
        PROVE  index'[Append(q, p)[i]] < index'[Append(q, p)[j]]
    <3>1. i \in 1..Len(q) /\ (j \in 1..Len(q) \/ j = Len(q) + 1)
      BY <2>1, <2>4
    <3>2. CASE j \in 1..Len(q)
      BY <1>7, <2>2, <2>4, <3>1, <3>2 DEF Ordered
    <3>3. CASE j = Len(q) + 1
      <4>1. index[q[i]] \in Nat /\ index[q[i]] <= Visited
        BY <1>2, <2>1, <3>1
      <4>2. index'[Append(q, p)[j]] = Visited + 1 /\ index'[Append(q, p)[i]] = index[q[i]]
        BY <1>5, <2>1, <2>2, <3>1, <3>3
      <4>3. QED
        BY <1>3, <4>1, <4>2
    <3>4. QED
      BY <3>1, <3>2, <3>3
  <2>5. QED
    BY <2>3, <2>4
<1>8. stack' = Append(stack, p) /\ work' = Append(work, p)
  BY <1>1 DEF Visit
<1>9. Open = Elems(stack) /\ OnWork = Elems(work) /\ OnWork \subseteq Open
  BY DEF Open, OnWork, Elems, SearchInv, OrderInv
<1>10. Open' = Open \cup {p} /\ OnWork' = OnWork \cup {p}
  <2>1. Elems(Append(stack, p)) = Open \cup {p} /\ Elems(Append(work, p)) = OnWork \cup {p}
    BY <1>4, <1>7, <1>9 DEF TypeOK, SearchInv, OrderInv
  <2>2. Open' = Elems(Append(stack, p)) /\ OnWork' = Elems(Append(work, p))
    BY <1>8 DEF Open, OnWork, Elems
  <2>3. QED
    BY <2>1, <2>2
<1>11. Ordered(stack)' /\ Ordered(work)'
  BY <1>4, <1>7, <1>8, <1>9 DEF TypeOK, SearchInv, OrderInv, Ordered
<1>12. p \in Undecided /\ \A x \in Open : p \in Upstream(x)
  <2>1. CASE VisitRoot(p)
    <3>1. OnWork = {}
      BY <2>1 DEF VisitRoot, OnWork, Elems
    <3>2. Open = {}
      BY <3>1 DEF SearchInv, OrderInv
    <3>3. QED
      BY <2>1, <3>2 DEF VisitRoot
  <2>2. CASE Descend(p)
    <3>1. work # <<>> /\ p \in pending[Top]
      BY <2>2 DEF Descend
    <3>2. Top \in Open /\ \A x \in Open : Top \in Upstream(x)
      BY <3>1, TopReached DEF SearchInv
    <3>3. p \in Succ(Top)
      BY <3>1, <3>2 DEF SearchInv, LookedInv
    <3>4. QED
      BY <3>2, <3>3, UpstreamStep DEF Succ
  <2>3. QED
    BY <2>1, <2>2
<1>13. /\ pending'[p] = Succ(p)
       /\ \A x \in Open : pending'[x] = pending[x] \/ pending'[x] = pending[x] \ {p}
  <2>1. pending \in [Shared -> SUBSET Shared] /\ Open \subseteq Shared
    BY OpenIsTyped DEF TypeOK
  <2>2. CASE VisitRoot(p)
    BY <1>4, <2>1, <2>2 DEF VisitRoot, Succ
  <2>3. CASE Descend(p)
    <3>1. pending' = [pending EXCEPT ![Top] = @ \ {p}, ![p] = referrers[p] \cap Undecided]
      BY <2>3 DEF Descend
    <3>2. QED
      BY <1>4, <2>1, <3>1 DEF Succ
  <2>4. QED
    BY <2>2, <2>3
<1>14. QED
  BY <1>1, <1>2, <1>3, <1>4, <1>5, <1>6, <1>10, <1>11, <1>12, <1>13

LEMMA VisitKeeps ==
  ASSUME TypeOK, SearchInv, NEW p \in Shared, VisitRoot(p) \/ Descend(p)
  PROVE  SearchInv'
<1> DEFINE top == Visited + 1
<1>1. /\ p \in Undecided /\ p \notin Open /\ \A x \in Open : p \in Upstream(x)
      /\ Ordered(stack)' /\ Ordered(work)'
      /\ Open' = Open \cup {p} /\ OnWork' = OnWork \cup {p}
      /\ Visited' = top /\ index'[p] = top /\ low'[p] = top /\ index[p] = 0
      /\ pending'[p] = Succ(p) /\ answer' = answer
      /\ \A x \in Open : pending'[x] = pending[x] \/ pending'[x] = pending[x] \ {p}
  BY VisitEffect
<1>2. \A x \in Shared \ {p} : index'[x] = index[x] /\ low'[x] = low[x]
  BY VisitEffect
<1>3. \A x \in Open : /\ x \in Shared /\ x # p /\ index[x] \in Nat /\ low[x] \in Nat
                      /\ index'[x] = index[x] /\ low'[x] = low[x] /\ index[x] < top
  <2>1. Visited \in Nat /\ \A x \in Shared : index[x] <= Visited
    BY VisitEffect
  <2>2. Open \subseteq Shared /\ \A x \in Shared : index[x] \in Nat /\ low[x] \in Nat
    BY OpenIsTyped, IndexType
  <2>3. QED
    BY <1>1, <1>2, <2>1, <2>2
<1>4. top \in Nat /\ top > 0 /\ OnWork \subseteq Open /\ Open \subseteq Undecided
  BY VisitEffect DEF SearchInv, OrderInv
<1>5. Undecided' = Undecided
  BY VisitEffect, InputsStay
<1>6. \A x : Succ(x)' = Succ(x) /\ Upstream(x)' = Upstream(x) /\ Referring(x)' = Referring(x)
  BY VisitEffect, InputsStay
<1>7. OrderInv'
  <2>1. \A x \in Shared : index'[x] <= Visited'
    BY <1>1, <1>2, <1>4, VisitEffect, IndexType
  <2>2. \A x \in Open' : index'[x] > 0
    BY <1>1, <1>3, <1>4 DEF SearchInv, OrderInv
  <2>3. \E w \in OnWork' : \A x \in Open' : index'[w] <= index'[x]
    <3>1. CASE Open = {}
      BY <1>1, <1>4, <3>1
    <3>2. CASE Open # {}
      <4>1. PICK w \in OnWork : \A x \in Open : index[w] <= index[x]
        BY <3>2 DEF SearchInv, OrderInv
      <4>2. \A x \in Open' : index'[w] <= index'[x]
        BY <1>1, <1>3, <1>4, <4>1
      <4>3. QED
        BY <1>1, <4>2
    <3>3. QED
      BY <3>1, <3>2
  <2>4. QED
    BY <1>1, <1>4, <1>5, <2>1, <2>2, <2>3 DEF OrderInv
<1>8. ReachInv'
  <2>1. ASSUME NEW x \in Open', NEW y \in Open', index'[x] < index'[y]
        PROVE  y \in Upstream(x)
    <3>1. x \in Open
      BY <1>1, <1>3, <1>4, <2>1
    <3>2. CASE y = p
      BY <1>1, <3>1, <3>2
    <3>3. CASE y \in Open
      BY <1>3, <2>1, <3>1, <3>3 DEF SearchInv, ReachInv
    <3>4. QED
      BY <1>1, <3>2, <3>3
  <2>2. ASSUME NEW x \in Open' \ OnWork'
        PROVE  \E w \in OnWork' : index'[w] < index'[x] /\ w \in Upstream(x)
    <3>1. x \in Open \ OnWork
      BY <1>1
    <3>2. PICK w \in OnWork : index[w] < index[x] /\ w \in Upstream(x)
      BY <3>1 DEF SearchInv, ReachInv
    <3>3. QED
      BY <1>1, <1>3, <1>4, <3>1, <3>2
  <2>3. ASSUME NEW x \in Open'
        PROVE  \E z \in Open' : index'[z] = low'[x] /\ index'[z] <= index'[x] /\ z \in Upstream(x)
    <3>1. CASE x = p
      BY <1>1, <1>4, <3>1, UpstreamSelf
    <3>2. CASE x \in Open
      <4>1. PICK z \in Open : index[z] = low[x] /\ index[z] <= index[x] /\ z \in Upstream(x)
        BY <3>2 DEF SearchInv, ReachInv
      <4>2. QED
        BY <1>1, <1>3, <3>2, <4>1
    <3>3. QED
      BY <1>1, <3>1, <3>2
  <2>4. QED
    BY <1>6, <2>1, <2>2, <2>3 DEF ReachInv
<1>9. LookedInv'
  <2>1. ASSUME NEW x \in Open'
        PROVE  /\ pending'[x] \subseteq Succ(x)
               /\ x \notin OnWork' => pending'[x] = {}
               /\ \A y \in Succ(x) \ pending'[x] : index'[y] > 0
    <3>1. CASE x = p
      BY <1>1, <3>1
    <3>2. CASE x \in Open
      <4>1. /\ pending[x] \subseteq Succ(x)
            /\ x \notin OnWork => pending[x] = {}
            /\ \A y \in Succ(x) \ pending[x] : index[y] > 0
        BY <3>2 DEF SearchInv, LookedInv
      <4>2. pending'[x] = pending[x] \/ pending'[x] = pending[x] \ {p}
        BY <1>1, <3>2
      <4>3. ASSUME NEW y \in Succ(x) \ pending'[x]
            PROVE  index'[y] > 0
        <5>1. y \in Shared /\ (y = p \/ y \notin pending[x])
          BY <4>2, <4>3 DEF Succ, Undecided
        <5>2. CASE y = p
          BY <1>1, <1>4, <5>2
        <5>3. CASE y # p
          BY <1>2, <4>1, <4>3, <5>1, <5>3
        <5>4. QED
          BY <5>2, <5>3
      <4>4. QED
        BY <1>1, <4>1, <4>2, <4>3
    <3>3. QED
      BY <1>1, <3>1, <3>2
  <2>2. ASSUME NEW w \in OnWork', NEW x \in Open',
               index'[w] <= index'[x],
               \A v \in OnWork' : index'[v] <= index'[x] => index'[v] <= index'[w],
               NEW y \in (Succ(x) \ pending'[x]) \cap Open'
        PROVE  low'[w] <= index'[y]
    <3>1. x \in Open
      BY <1>1, <2>2
    <3>2. w \in OnWork
      BY <1>1, <1>3, <1>4, <2>2, <3>1
    <3>3. Heads(w, x)
      BY <1>1, <1>3, <1>4, <2>2, <3>1, <3>2 DEF Heads
    <3>4. CASE y = p
      <4>1. PICK z \in Open : index[z] = low[w] /\ index[z] <= index[w]
        BY <1>4, <3>2 DEF SearchInv, ReachInv
      <4>2. QED
        BY <1>1, <1>3, <1>4, <3>2, <3>4, <4>1
    <3>5. CASE y # p
      <4>1. y \in (Succ(x) \ pending[x]) \cap Open
        BY <1>1, <2>2, <3>1, <3>5
      <4>2. low[w] <= index[y]
        BY <3>1, <3>2, <3>3, <4>1 DEF SearchInv, LookedInv
      <4>3. QED
        BY <1>3, <1>4, <3>2, <4>1, <4>2
    <3>6. QED
      BY <3>4, <3>5
  <2>3. QED
    BY <1>6, <2>1, <2>2 DEF LookedInv, Heads
<1>10. AnswersAreReach'
  <2>1. Answered' \subseteq Answered
    BY <1>1, <1>2 DEF Answered
  <2>2. QED
    BY <1>1, <1>6, <2>1 DEF SearchInv, AnswersAreReach
<1>11. QED
  BY <1>7, <1>8, <1>9, <1>10 DEF SearchInv

LEMMA LookKeeps ==
  ASSUME TypeOK, SearchInv, NEW p \in Shared, LookBack(p)
  PROVE  SearchInv'
<1>1. /\ work # <<>> /\ p \in pending[Top] /\ index[p] > 0
      /\ low' = [low EXCEPT ![Top] = IF p \in Open THEN Least(@, index[p]) ELSE @]
      /\ pending' = [pending EXCEPT ![Top] = @ \ {p}]
      /\ UNCHANGED <<inputs, index, stack, work, answer>>
  BY DEF LookBack
<1>2. Open' = Open /\ OnWork' = OnWork /\ Visited' = Visited /\ Answered' = Answered
  BY <1>1 DEF Open, OnWork, Elems, Visited, Answered
<1>3. Undecided' = Undecided
  BY <1>1, InputsStay
<1>4. \A x : Succ(x)' = Succ(x) /\ Upstream(x)' = Upstream(x) /\ Referring(x)' = Referring(x)
  BY <1>1, InputsStay
<1>5. Top \in OnWork /\ Top \in Open /\ \A w \in OnWork : index[w] <= index[Top]
  BY <1>1, TopReached DEF SearchInv
<1>6. OnWork \subseteq Open /\ \A x \in Open : x \in Shared /\ index[x] \in Nat /\ low[x] \in Nat
  BY OpenIsTyped, IndexType DEF SearchInv, OrderInv
<1>7. \A x \in Open \ {Top} : low'[x] = low[x] /\ pending'[x] = pending[x]
  BY <1>1, <1>6 DEF TypeOK
<1>8. /\ pending'[Top] = pending[Top] \ {p}
      /\ low'[Top] = IF p \in Open THEN Least(low[Top], index[p]) ELSE low[Top]
  BY <1>1, <1>5, <1>6 DEF TypeOK
<1>9. p \in Succ(Top)
  BY <1>1, <1>5 DEF SearchInv, LookedInv
<1>10. \A x \in Open : low'[x] <= low[x] /\ low'[x] \in Nat
  BY <1>5, <1>6, <1>7, <1>8 DEF Least
<1>11. OrderInv'
  BY <1>1, <1>2, <1>3 DEF SearchInv, OrderInv, Ordered
<1>12. ReachInv'
  <2>1. ASSUME NEW x \in Open
        PROVE  \E z \in Open : index[z] = low'[x] /\ index[z] <= index[x] /\ z \in Upstream(x)
    <3>1. PICK z \in Open : index[z] = low[x] /\ index[z] <= index[x] /\ z \in Upstream(x)
      BY DEF SearchInv, ReachInv
    <3>2. CASE low'[x] = low[x]
      BY <3>1, <3>2
    <3>3. CASE low'[x] # low[x]
      <4>1. x = Top /\ p \in Open
        BY <1>7, <1>8, <3>3
      <4>2. low'[x] = index[p] /\ index[p] <= low[x]
        BY <1>6, <1>8, <3>3, <4>1 DEF Least
      <4>3. p \in Upstream(x)
        BY <1>5, <1>9, <4>1, UpstreamSelf, UpstreamStep DEF SearchInv, OrderInv
      <4>4. QED
        BY <1>6, <3>1, <4>1, <4>2, <4>3
    <3>4. QED
      BY <3>2, <3>3
  <2>2. QED
    BY <1>1, <1>2, <1>4, <2>1 DEF SearchInv, ReachInv
<1>13. LookedInv'
  <2>1. ASSUME NEW x \in Open
        PROVE  /\ pending'[x] \subseteq Succ(x)
               /\ x \notin OnWork => pending'[x] = {}
               /\ \A y \in Succ(x) \ pending'[x] : index[y] > 0
    <3>1. /\ pending[x] \subseteq Succ(x)
          /\ x \notin OnWork => pending[x] = {}
          /\ \A y \in Succ(x) \ pending[x] : index[y] > 0
      BY DEF SearchInv, LookedInv
    <3>2. CASE x = Top
      BY <1>1, <1>5, <1>8, <3>1, <3>2
    <3>3. CASE x # Top
      BY <1>7, <3>1, <3>3
    <3>4. QED
      BY <3>2, <3>3
  <2>2. ASSUME NEW w \in OnWork, NEW x \in Open, Heads(w, x),
               NEW y \in (Succ(x) \ pending'[x]) \cap Open
        PROVE  low'[w] <= index[y]
    <3>1. CASE y \notin pending[x]
      <4>1. low[w] <= index[y]
        BY <2>2, <3>1 DEF SearchInv, LookedInv
      <4>2. QED
        BY <1>6, <1>10, <4>1
    <3>2. CASE y \in pending[x]
      <4>1. x = Top /\ y = p
        BY <1>7, <1>8, <2>2, <3>2
      <4>2. index[w] = index[Top]
        BY <1>5, <1>6, <2>2, <4>1 DEF Heads
      <4>3. w = Top
        BY <1>5, <1>6, <4>2, OpenDistinct DEF SearchInv
      <4>4. QED
        BY <1>5, <1>6, <1>8, <4>1, <4>3 DEF Least
    <3>3. QED
      BY <3>1, <3>2
  <2>3. \A w, x : Heads(w, x)' <=> index[w] <= index[x]
                    /\ \A v \in OnWork : index[v] <= index[x] => index[v] <= index[w]
    BY <1>1, <1>2 DEF Heads
  <2>4. QED
    BY <1>1, <1>2, <1>4, <2>1, <2>2 DEF LookedInv, Heads
<1>14. AnswersAreReach'
  BY <1>1, <1>2, <1>4 DEF SearchInv, AnswersAreReach
<1>15. QED
  BY <1>11, <1>12, <1>13, <1>14 DEF SearchInv

LEMMA LastIsGreatest ==
  ASSUME TypeOK, NEW q \in Seq(Shared), Ordered(q), q # <<>>
  PROVE  \A w \in Elems(q) : index[w] <= index[q[Len(q)]]
<1>1. Len(q) \in Nat \ {0} /\ \A i \in 1..Len(q) : index[q[i]] \in Nat
  BY IndexType
<1>2. ASSUME NEW i \in 1..Len(q)
      PROVE  index[q[i]] <= index[q[Len(q)]]
  <2>1. i = Len(q) \/ i < Len(q)
    BY <1>1
  <2>2. QED
    BY <1>1, <2>1 DEF Ordered
<1>3. QED
  BY <1>2 DEF Elems

(* The file below on the chain takes over what the left one knows.         *)
LEMMA LeaveLow ==
  ASSUME TypeOK, SearchInv, Leave
  PROVE  /\ \A x \in Open : low'[x] \in Nat /\ low'[x] <= low[x]
         /\ \A x \in Open : low'[x] # low[x] => low'[x] = low[Top] /\ x \in OnWork \ {Top}
         /\ OnWork' = OnWork \ {Top}
         /\ OnWork' # {} => \E P \in OnWork' : /\ \A w \in OnWork' : index[w] <= index[P]
                                               /\ low'[P] <= low[Top]
<1>1. /\ work # <<>> /\ work' = Rest
      /\ low' = IF Rest = <<>> THEN low ELSE [low EXCEPT ![Rest[Len(Rest)]] = Least(@, low[Top])]
  BY LeaveEffect
<1>2. /\ Rest \in Seq(Shared) /\ Ordered(Rest) /\ Elems(Rest) = OnWork \ {Top} /\ Top \in OnWork
      /\ Rest # <<>> => Rest[Len(Rest)] \in OnWork \ {Top}
      /\ Rest = <<>> => OnWork = {Top}
  BY <1>1, RestOfChain DEF SearchInv
<1>3. OnWork' = OnWork \ {Top}
  BY <1>1, <1>2 DEF OnWork, Elems
<1>4. /\ OnWork \subseteq Open /\ \A x \in Open : x \in Shared /\ low[x] \in Nat
      /\ low \in [Shared -> 0..Cardinality(Shared)]
  BY OpenIsTyped, IndexType DEF SearchInv, OrderInv, TypeOK
<1>5. CASE Rest = <<>>
  BY <1>1, <1>2, <1>3, <1>4, <1>5
<1>6. CASE Rest # <<>>
  <2> DEFINE P == Rest[Len(Rest)]
  <2>1. P \in OnWork' /\ P \in Shared /\ P \in OnWork \ {Top}
    BY <1>2, <1>3, <1>4, <1>6
  <2>2. \A w \in OnWork' : index[w] <= index[P]
    BY <1>2, <1>3, <1>6, LastIsGreatest
  <2> HIDE DEF P
  <2>3. low' = [low EXCEPT ![P] = Least(@, low[Top])]
    BY <1>1, <1>6 DEF P
  <2>4. low'[P] = Least(low[P], low[Top]) /\ \A x \in Shared \ {P} : low'[x] = low[x]
    BY <1>4, <2>1, <2>3
  <2>5. low[Top] \in Nat /\ low[P] \in Nat
    BY <1>2, <1>4, <2>1
  <2>6. /\ low'[P] \in Nat /\ low'[P] <= low[P] /\ low'[P] <= low[Top]
        /\ low'[P] # low[P] => low'[P] = low[Top]
    BY <2>4, <2>5 DEF Least
  <2>7. QED
    BY <1>3, <1>4, <2>1, <2>2, <2>4, <2>6
<1>7. QED
  BY <1>5, <1>6

(* The last file of the chain can go back further: it stays open. *)
LEMMA LeaveOpenKeeps ==
  ASSUME TypeOK, SearchInv, Leave, low[Top] # index[Top]
  PROVE  SearchInv'
<1>1. /\ work # <<>> /\ pending[Top] = {} /\ work' = Rest
      /\ UNCHANGED <<inputs, index, stack, pending, answer>>
  BY LeaveEffect
<1>2. Open' = Open /\ Visited' = Visited /\ Answered' = Answered
  BY <1>1 DEF Open, Visited, Answered
<1>3. Undecided' = Undecided
  BY <1>1, InputsStay
<1>4. \A x : Succ(x)' = Succ(x) /\ Upstream(x)' = Upstream(x) /\ Referring(x)' = Referring(x)
  BY <1>1, InputsStay
<1>5. /\ Top \in OnWork /\ Top \in Open /\ \A w \in OnWork : index[w] <= index[Top]
      /\ \A x \in Open : Top \in Upstream(x)
  BY <1>1, TopReached DEF SearchInv
<1>6. OnWork \subseteq Open /\ \A x \in Open : x \in Shared /\ index[x] \in Nat /\ low[x] \in Nat
  BY OpenIsTyped, IndexType DEF SearchInv, OrderInv
<1>7. OnWork' = OnWork \ {Top}
  BY LeaveLow
<1>8. /\ \A x \in Open : low'[x] \in Nat /\ low'[x] <= low[x]
      /\ \A x \in Open : low'[x] # low[x] => low'[x] = low[Top] /\ x \in OnWork \ {Top}
  BY LeaveLow
<1>9. PICK z \in Open : index[z] = low[Top] /\ index[z] < index[Top] /\ z \in Upstream(Top)
  <2>1. PICK z \in Open : index[z] = low[Top] /\ index[z] <= index[Top] /\ z \in Upstream(Top)
    BY <1>5 DEF SearchInv, ReachInv
  <2>2. QED
    BY <1>5, <1>6, <2>1
<1>10. PICK b \in OnWork' : index[b] < index[Top] /\ b \in Upstream(Top)
  <2>1. CASE z \in OnWork
    BY <1>7, <1>6, <1>9, <2>1
  <2>2. CASE z \notin OnWork
    <3>1. PICK w \in OnWork : index[w] < index[z] /\ w \in Upstream(z)
      BY <2>2 DEF SearchInv, ReachInv
    <3>2. index[w] < index[Top] /\ w # Top
      BY <1>5, <1>6, <1>9, <3>1
    <3>3. w \in Upstream(Top)
      BY <1>9, <3>1, UpstreamTransitive
    <3>4. QED
      BY <1>7, <3>1, <3>2, <3>3
  <2>3. QED
    BY <2>1, <2>2
<1>11. OrderInv'
  <2>1. Ordered(work)'
    BY <1>1, RestOfChain DEF SearchInv, Ordered
  <2>2. PICK w \in OnWork : \A x \in Open : index[w] <= index[x]
    BY <1>5 DEF SearchInv, OrderInv
  <2>3. w # Top
    BY <1>5, <1>6, <1>9, <2>2
  <2>4. QED
    BY <1>1, <1>2, <1>3, <1>6, <1>7, <2>1, <2>2, <2>3 DEF SearchInv, OrderInv, Ordered
<1>12. ReachInv'
  <2>1. ASSUME NEW x \in Open \ OnWork'
        PROVE  \E w \in OnWork' : index[w] < index[x] /\ w \in Upstream(x)
    <3>1. CASE x = Top
      BY <1>10, <3>1
    <3>2. CASE x # Top
      <4>1. PICK w \in OnWork : index[w] < index[x] /\ w \in Upstream(x)
        BY <1>7, <2>1, <3>2 DEF SearchInv, ReachInv
      <4>2. CASE w # Top
        BY <1>7, <4>1, <4>2
      <4>3. CASE w = Top
        <5>1. b \in Upstream(x)
          BY <1>10, <4>1, <4>3, UpstreamTransitive
        <5>2. index[b] < index[x]
          BY <1>6, <1>7, <1>10, <4>1, <4>3
        <5>3. QED
          BY <5>1, <5>2
      <4>4. QED
        BY <4>2, <4>3
    <3>3. QED
      BY <3>1, <3>2
  <2>2. ASSUME NEW x \in Open
        PROVE  \E y \in Open : index[y] = low'[x] /\ index[y] <= index[x] /\ y \in Upstream(x)
    <3>1. PICK y \in Open : index[y] = low[x] /\ index[y] <= index[x] /\ y \in Upstream(x)
      BY DEF SearchInv, ReachInv
    <3>2. CASE low'[x] = low[x]
      BY <3>1, <3>2
    <3>3. CASE low'[x] # low[x]
      <4>1. low'[x] = index[z] /\ low'[x] <= low[x]
        BY <1>8, <1>9, <3>3
      <4>2. z \in Upstream(x)
        BY <1>5, <1>9, UpstreamTransitive
      <4>3. QED
        BY <1>6, <3>1, <4>1, <4>2
    <3>4. QED
      BY <3>2, <3>3
  <2>3. QED
    BY <1>1, <1>2, <1>4, <2>1, <2>2 DEF SearchInv, ReachInv
<1>13. LookedInv'
  <2>1. ASSUME NEW x \in Open
        PROVE  /\ pending[x] \subseteq Succ(x)
               /\ x \notin OnWork' => pending[x] = {}
               /\ \A y \in Succ(x) \ pending[x] : index[y] > 0
    BY <1>1, <1>7 DEF SearchInv, LookedInv
  <2>2. ASSUME NEW w \in OnWork', NEW x \in Open,
               index[w] <= index[x],
               \A v \in OnWork' : index[v] <= index[x] => index[v] <= index[w],
               NEW y \in (Succ(x) \ pending[x]) \cap Open
        PROVE  low'[w] <= index[y]
    <3>1. w \in OnWork /\ w \in Open /\ low'[w] \in Nat /\ low'[w] <= low[w]
      BY <1>6, <1>7, <1>8
    <3>2. CASE index[Top] <= index[x]
      <4>1. Heads(Top, x)
        BY <1>5, <3>2 DEF Heads
      <4>2. low[Top] <= index[y]
        BY <1>5, <4>1 DEF SearchInv, LookedInv
      <4>3. PICK P \in OnWork' : /\ \A v \in OnWork' : index[v] <= index[P]
                                 /\ low'[P] <= low[Top]
        BY LeaveLow
      <4>4. index[P] <= index[x]
        BY <1>5, <1>6, <1>7, <3>2
      <4>5. index[P] = index[w]
        BY <1>6, <1>7, <2>2, <4>3, <4>4
      <4>6. P = w
        BY <1>6, <1>7, <4>5, OpenDistinct DEF SearchInv
      <4>7. QED
        BY <1>5, <1>6, <3>1, <4>2, <4>3, <4>6
    <3>3. CASE ~(index[Top] <= index[x])
      <4>1. Heads(w, x)
        BY <1>7, <2>2, <3>3 DEF Heads
      <4>2. low[w] <= index[y]
        BY <3>1, <4>1 DEF SearchInv, LookedInv
      <4>3. QED
        BY <1>6, <3>1, <4>2
    <3>4. QED
      BY <3>2, <3>3
  <2>3. QED
    BY <1>1, <1>2, <1>4, <2>1, <2>2 DEF LookedInv, Heads
<1>14. AnswersAreReach'
  BY <1>1, <1>2, <1>4 DEF SearchInv, AnswersAreReach
<1>15. QED
  BY <1>11, <1>12, <1>13, <1>14 DEF SearchInv

(* The files cut off lead to each other, and everything that references    *)
(* one of them from outside has its answer.                                *)
LEMMA ComponentIsStrong ==
  ASSUME TypeOK, SearchInv, Leave, low[Top] = index[Top]
  PROVE  /\ Component \subseteq Open /\ Component = {x \in Open : index[x] >= index[Top]}
         /\ \A x \in Component : Component \subseteq Upstream(x)
         /\ \A x \in Component : \A y \in Succ(x) : y \in Component \/ y \in Answered
<1>1. work # <<>> /\ pending[Top] = {}
  BY LeaveEffect
<1>2. /\ Top \in OnWork /\ Top \in Open /\ \A w \in OnWork : index[w] <= index[Top]
      /\ \A x \in Open : Top \in Upstream(x)
      /\ \A x \in Open : index[x] >= index[Top] => x \in Upstream(Top)
  BY <1>1, TopReached DEF SearchInv
<1>3. Component = {x \in Open : index[x] >= index[Top]}
  BY <1>1, ComponentIsTail DEF SearchInv
<1>4. \A x \in Open : x \in Shared /\ index[x] \in Nat
  BY OpenIsTyped, IndexType
<1>5. ASSUME NEW x \in Component
      PROVE  Component \subseteq Upstream(x)
  <2>1. Component \subseteq Upstream(Top) /\ Top \in Upstream(x)
    BY <1>2, <1>3
  <2>2. QED
    BY <2>1, UpstreamTransitive
<1>6. ASSUME NEW x \in Component, NEW y \in Succ(x)
      PROVE  y \in Component \/ y \in Answered
  <2>1. x \in Open /\ index[Top] <= index[x]
    BY <1>2, <1>3, <1>4
  <2>2. pending[x] = {}
    <3>1. CASE x \in OnWork
      <4>1. x = Top
        BY <1>2, <1>4, <2>1, <3>1, OpenDistinct DEF SearchInv
      <4>2. QED
        BY <1>1, <4>1
    <3>2. CASE x \notin OnWork
      BY <2>1, <3>2 DEF SearchInv, LookedInv
    <3>3. QED
      BY <3>1, <3>2
  <2>3. index[y] > 0 /\ y \in Shared
    BY <2>1, <2>2 DEF SearchInv, LookedInv, Succ, Undecided
  <2>4. CASE y \in Open
    <3>1. Heads(Top, x)
      BY <1>2, <2>1 DEF Heads
    <3>2. low[Top] <= index[y]
      BY <1>2, <2>1, <2>2, <2>4, <3>1 DEF SearchInv, LookedInv
    <3>3. QED
      BY <1>2, <1>3, <1>4, <2>4, <3>2
  <2>5. CASE y \notin Open
    BY <2>3, <2>5 DEF Answered
  <2>6. QED
    BY <2>4, <2>5
<1>7. QED
  BY <1>3, <1>5, <1>6

(* So the answer computed for them is the right one for each.              *)
LEMMA ComponentAnswer ==
  ASSUME TypeOK, AnswersAreReach,
         NEW C \in SUBSET Undecided, NEW p \in C, C \subseteq Upstream(p),
         \A x \in C : \A y \in Succ(x) : y \in C \/ y \in Answered
  PROVE  ReferencedBy(C) = Referring(p)
<1>1. C \in SUBSET Shared
  BY DEF Undecided
<1>2. ASSUME NEW l \in ReferencedBy(C)
      PROVE  l \in Referring(p)
  <2>1. PICK x \in C : \E q \in referrers[x] \ C :
               \/ q \notin Undecided /\ l = Says(q)
               \/ q \in Undecided /\ l \in answer[q]
    BY <1>1, <1>2, ReferencedByIs
  <2>2. PICK q \in referrers[x] \ C : \/ q \notin Undecided /\ l = Says(q)
                                      \/ q \in Undecided /\ l \in answer[q]
    BY <2>1
  <2>3. x \in Upstream(p)
    OBVIOUS
  <2>4. CASE q \notin Undecided /\ l = Says(q)
    BY <2>2, <2>3, <2>4, ReferringIs
  <2>5. CASE q \in Undecided /\ l \in answer[q]
    <3>1. q \in Succ(x) /\ q \in Answered
      BY <2>2, <2>5 DEF Succ
    <3>2. l \in Referring(q)
      BY <2>5, <3>1 DEF AnswersAreReach
    <3>3. q \in Upstream(p)
      BY <2>3, <3>1, UpstreamStep
    <3>4. PICK u \in Upstream(q) : \E r \in referrers[u] \ Undecided : l = Says(r)
      BY <3>2, ReferringIs
    <3>5. u \in Upstream(p)
      BY <3>3, <3>4, UpstreamTransitive
    <3>6. QED
      BY <3>4, <3>5, ReferringIs
  <2>6. QED
    BY <2>2, <2>4, <2>5
<1>3. ASSUME NEW l \in Referring(p)
      PROVE  l \in ReferencedBy(C)
  <2>1. PICK u \in Upstream(p) : \E q \in referrers[u] \ Undecided : l = Says(q)
    BY <1>3, ReferringIs
  <2>2. CASE u \in C
    <3>1. PICK q \in referrers[u] \ Undecided : l = Says(q)
      BY <2>1
    <3>2. q \in referrers[u] \ C
      BY <3>1
    <3>3. QED
      BY <1>1, <2>2, <3>1, <3>2, ReferencedByIs
  <2>3. CASE u \notin C
    <3> DEFINE beyond == {v \in Undecided : \E x \in C : \E y \in Succ(x) \ C : v \in Upstream(y)}
    <3>1. C \cup beyond \in SUBSET Undecided /\ p \in C \cup beyond
      OBVIOUS
    <3>2. ASSUME NEW s \in C \cup beyond, NEW r \in Succ(s)
          PROVE  r \in C \cup beyond
      <4>1. r \in Undecided
        BY DEF Succ
      <4>2. CASE s \in C
        BY <4>1, <4>2, UpstreamSelf
      <4>3. CASE s \in beyond
        <5>1. PICK x \in C : \E y \in Succ(x) \ C : s \in Upstream(y)
          BY <4>3
        <5>2. PICK y \in Succ(x) \ C : s \in Upstream(y)
          BY <5>1
        <5>3. r \in Upstream(y)
          BY <3>2, <5>2, UpstreamStep
        <5>4. QED
          BY <4>1, <5>2, <5>3
      <4>4. QED
        BY <4>2, <4>3
    <3>3. Upstream(p) \subseteq C \cup beyond
      <4> DEFINE S == C \cup beyond
      <4>1. S \in SUBSET Undecided /\ p \in S /\ \A s \in S : Succ(s) \subseteq S
        BY <3>1, <3>2
      <4> HIDE DEF S
      <4>2. Upstream(p) \subseteq S
        BY <4>1, UpstreamLeast
      <4>3. QED
        BY <4>2 DEF S
    <3>4. PICK x \in C : \E y \in Succ(x) \ C : u \in Upstream(y)
      BY <2>3, <3>3
    <3>5. PICK y \in Succ(x) \ C : u \in Upstream(y)
      BY <3>4
    <3>6. y \in Answered /\ y \in Undecided /\ y \in referrers[x] \ C
      BY <3>5 DEF Succ
    <3>7. l \in Referring(y)
      BY <2>1, <3>5, ReferringIs
    <3>8. l \in answer[y]
      BY <3>6, <3>7 DEF AnswersAreReach
    <3>9. QED
      BY <1>1, <3>6, <3>8, ReferencedByIs
  <2>4. QED
    BY <2>2, <2>3
<1>4. QED
  BY <1>2, <1>3

(* The last file of the chain is the root of its component.                *)
LEMMA LeaveClosedKeeps ==
  ASSUME TypeOK, SearchInv, Leave, low[Top] = index[Top]
  PROVE  SearchInv'
<1>1. /\ work # <<>> /\ pending[Top] = {} /\ work' = Rest
      /\ stack' = SubSeq(stack, 1, From - 1)
      /\ answer' = [p \in Shared |-> IF p \in Component THEN ReferencedBy(Component) ELSE answer[p]]
      /\ UNCHANGED <<inputs, index, pending>>
  BY LeaveEffect
<1>2. Visited' = Visited
  BY <1>1 DEF Visited
<1>3. Undecided' = Undecided
  BY <1>1, InputsStay
<1>4. \A x : Succ(x)' = Succ(x) /\ Upstream(x)' = Upstream(x) /\ Referring(x)' = Referring(x)
  BY <1>1, InputsStay
<1>5. Top \in OnWork /\ Top \in Open /\ \A w \in OnWork : index[w] <= index[Top]
  BY <1>1, TopReached DEF SearchInv
<1>6. OnWork \subseteq Open /\ \A x \in Open : x \in Shared /\ index[x] \in Nat /\ low[x] \in Nat
  BY OpenIsTyped, IndexType DEF SearchInv, OrderInv
<1>7. OnWork' = OnWork \ {Top}
  BY LeaveLow
<1>8. Component \subseteq Open /\ Component = {x \in Open : index[x] >= index[Top]}
  BY ComponentIsStrong
<1>9. Open' = Open \ Component /\ \A x \in Open' : index[x] < index[Top]
  <2>1. Open' = Elems(SubSeq(stack, 1, From - 1))
    BY <1>1 DEF Open, Elems
  <2>2. Open' = Open \ Component
    BY <1>1, <2>1, ComponentIsTail DEF SearchInv
  <2>3. QED
    BY <1>5, <1>6, <1>8, <2>2
<1>10. OnWork' \subseteq Open' /\ Top \notin Open'
  <2>1. ASSUME NEW w \in OnWork \ {Top}
        PROVE  w \notin Component
    <3>1. index[w] # index[Top]
      BY <1>5, <1>6, OpenDistinct DEF SearchInv
    <3>2. QED
      BY <1>5, <1>6, <1>8, <3>1
  <2>2. QED
    BY <1>5, <1>6, <1>7, <1>9, <2>1
<1>11. \A x \in Open' : low'[x] = low[x]
  <2>1. ASSUME NEW x \in Open', low'[x] # low[x]
        PROVE  FALSE
    <3>1. x \in Open /\ low'[x] = index[Top] /\ low'[x] <= low[x]
      BY <1>9, <2>1, LeaveLow
    <3>2. low[x] <= index[x]
      BY <1>6, <3>1 DEF SearchInv, ReachInv
    <3>3. QED
      BY <1>5, <1>6, <1>9, <3>1, <3>2
  <2>2. QED
    BY <2>1
<1>12. OrderInv'
  <2>1. Ordered(work)'
    BY <1>1, RestOfChain DEF SearchInv, Ordered
  <2>2. Ordered(stack)'
    BY <1>1, ComponentIsTail DEF SearchInv, Ordered
  <2>3. ASSUME Open' # {}
        PROVE  \E w \in OnWork' : \A x \in Open' : index[w] <= index[x]
    <3>1. PICK w \in OnWork : \A x \in Open : index[w] <= index[x]
      BY <1>5 DEF SearchInv, OrderInv
    <3>2. w # Top
      BY <1>5, <1>6, <1>9, <2>3, <3>1
    <3>3. QED
      BY <1>7, <1>9, <3>1, <3>2
  <2>4. QED
    BY <1>1, <1>2, <1>3, <1>9, <1>10, <2>1, <2>2, <2>3 DEF SearchInv, OrderInv
<1>13. ReachInv'
  <2>1. ASSUME NEW x \in Open' \ OnWork'
        PROVE  \E w \in OnWork' : index[w] < index[x] /\ w \in Upstream(x)
    <3>1. x \in Open \ OnWork
      BY <1>7, <1>9, <1>10, <2>1
    <3>2. PICK w \in OnWork : index[w] < index[x] /\ w \in Upstream(x)
      BY <3>1 DEF SearchInv, ReachInv
    <3>3. w # Top
      BY <1>5, <1>6, <1>9, <2>1, <3>1, <3>2
    <3>4. QED
      BY <1>7, <3>2, <3>3
  <2>2. ASSUME NEW x \in Open'
        PROVE  \E z \in Open' : index[z] = low'[x] /\ index[z] <= index[x] /\ z \in Upstream(x)
    <3>1. x \in Open /\ index[x] < index[Top]
      BY <1>9
    <3>2. PICK z \in Open : index[z] = low[x] /\ index[z] <= index[x] /\ z \in Upstream(x)
      BY <3>1 DEF SearchInv, ReachInv
    <3>3. z \in Open'
      BY <1>5, <1>6, <1>8, <1>9, <3>1, <3>2
    <3>4. QED
      BY <1>11, <3>2, <3>3
  <2>3. \A x, y \in Open' : index[x] < index[y] => y \in Upstream(x)
    BY <1>9 DEF SearchInv, ReachInv
  <2>4. QED
    BY <1>1, <1>4, <2>1, <2>2, <2>3 DEF ReachInv
<1>14. LookedInv'
  <2>1. ASSUME NEW x \in Open'
        PROVE  /\ pending[x] \subseteq Succ(x)
               /\ x \notin OnWork' => pending[x] = {}
               /\ \A y \in Succ(x) \ pending[x] : index[y] > 0
    BY <1>7, <1>9, <1>10 DEF SearchInv, LookedInv
  <2>2. ASSUME NEW w \in OnWork', NEW x \in Open',
               index[w] <= index[x],
               \A v \in OnWork' : index[v] <= index[x] => index[v] <= index[w],
               NEW y \in (Succ(x) \ pending[x]) \cap Open'
        PROVE  low'[w] <= index[y]
    <3>1. w \in OnWork /\ x \in Open /\ y \in Open /\ w \in Open'
      BY <1>7, <1>9, <1>10
    <3>2. ~(index[Top] <= index[x])
      BY <1>5, <1>6, <1>9, <3>1
    <3>3. Heads(w, x)
      BY <1>7, <2>2, <3>2 DEF Heads
    <3>4. low[w] <= index[y]
      BY <3>1, <3>3 DEF SearchInv, LookedInv
    <3>5. QED
      BY <1>11, <3>1, <3>4
  <2>3. QED
    BY <1>1, <1>4, <2>1, <2>2 DEF LookedInv, Heads
<1>15. AnswersAreReach'
  <2>1. ASSUME NEW p \in Answered'
        PROVE  answer'[p] = Referring(p)
    <3>1. p \in Shared /\ index[p] > 0 /\ p \notin Open'
      BY <1>1 DEF Answered
    <3>2. CASE p \in Component
      <4>1. Component \in SUBSET Undecided
        BY <1>8 DEF SearchInv, OrderInv
      <4>2. ReferencedBy(Component) = Referring(p)
        BY <3>2, <4>1, ComponentIsStrong, ComponentAnswer DEF SearchInv
      <4>3. QED
        BY <1>1, <3>1, <3>2, <4>2
    <3>3. CASE p \notin Component
      <4>1. p \in Answered
        BY <1>9, <3>1, <3>3 DEF Answered
      <4>2. QED
        BY <1>1, <3>1, <3>3, <4>1 DEF SearchInv, AnswersAreReach
    <3>4. QED
      BY <3>2, <3>3
  <2>2. QED
    BY <1>4, <2>1 DEF AnswersAreReach
<1>16. QED
  BY <1>12, <1>13, <1>14, <1>15 DEF SearchInv

-----------------------------------------------------------------------------
(* The four rules                                                          *)

LEMMA ByReferencesType ==
  ASSUME NEW referring \in SUBSET Langs
  PROVE  ByReferences(referring) \in Langs \cup {None}
<1>1. {c \in Langs : \A l \in referring : c = l \/ c \in Includes[l]} \in SUBSET Langs
  OBVIOUS
<1>2. QED
  BY <1>1, SoleType DEF ByReferences

LEMMA ByRestType ==
  ASSUME NEW p, NEW by
  PROVE  ByRest(p, by) \in Langs
<1> DEFINE near == Spoken({q \in Files : Folder[q] = Folder[p]}, by) \cap Langs
           anywhere == Spoken(Files, by) \cap Langs
<1>1. near \in SUBSET Langs /\ anywhere \in SUBSET Langs /\ DefaultFor \in SUBSET Langs
  BY OwnershipAssumption
<1>2. \A S \in SUBSET Langs : Sole(S) # None => Sole(S) \in Langs
  BY SoleMember, FS_Subset, OwnershipAssumption
<1>3. ByRest(p, by) \in {Sole(near), Sole(anywhere), Sole(DefaultFor), First}
  BY DEF ByRest
<1>4. QED
  BY <1>1, <1>2, OwnershipAssumption DEF ByRest

LEMMA RulesTyped ==
  ASSUME TypeOK, RuleContent \/ RuleReferences \/ Return \/ \E p \in Shared : RuleRest(p)
  PROVE  TypeOK'
<1>1. CASE RuleContent
  BY <1>1, ContentType DEF RuleContent, TypeOK
<1>2. CASE RuleReferences
  <2>1. decided' \in [Shared -> Langs \cup {None}]
    <3>1. \A p \in Shared : ByReferences(answer[p]) \in Langs \cup {None}
      BY ByReferencesType DEF TypeOK
    <3>2. decided' = [p \in Shared |-> IF decided[p] # None THEN decided[p] ELSE ByReferences(answer[p])]
      BY <1>2 DEF RuleReferences
    <3>3. QED
      BY <3>1, <3>2 DEF TypeOK
  <2>2. QED
    BY <1>2, <2>1 DEF RuleReferences, TypeOK
<1>3. CASE Return
  BY <1>3 DEF Return, TypeOK
<1>4. ASSUME NEW p \in Shared, RuleRest(p)
      PROVE  TypeOK'
  BY <1>4, ByRestType DEF RuleRest, TypeOK
<1>5. QED
  BY <1>1, <1>2, <1>3, <1>4

(* What the decisions are worth in each phase.                             *)
RuleInv ==
  /\ phase = "visit" => decided = [p \in Shared |-> ByContent(p)]
  /\ phase \in {"settle", "done"} =>
       /\ settled = Rules12
       /\ \A p \in Shared : IF Rules12[p] # None THEN decided[p] = Rules12[p]
                            ELSE decided[p] \in {None, ByRest(p, Rules12)}
  /\ phase = "done" => \A p \in Shared : decided[p] # None

LEMMA RulesStay ==
  ASSUME UNCHANGED inputs
  PROVE  Rules12' = Rules12 /\ \A p : ByContent(p)' = ByContent(p)
<1>1. \A p : ByContent(p)' = ByContent(p) /\ Referring(p)' = Referring(p)
  BY InputsStay DEF ByContent
<1>2. QED
  BY <1>1 DEF Rules12

LEMMA RuleStep ==
  ASSUME TypeOK, SearchInv, RuleInv, Next
  PROVE  RuleInv'
<1>1. UNCHANGED inputs
  BY DEF Next, RuleContent, VisitRoot, Descend, Visit, LookBack, RuleRest, Leave, RuleReferences, Return
<1>2. Rules12' = Rules12 /\ \A p : ByContent(p)' = ByContent(p)
  BY <1>1, RulesStay
<1>3. CASE RuleContent
  BY <1>2, <1>3 DEF RuleContent, RuleInv
<1>4. ASSUME NEW p \in Shared, VisitRoot(p) \/ Descend(p) \/ LookBack(p)
      PROVE  RuleInv'
  BY <1>2, <1>4 DEF VisitRoot, Descend, Visit, LookBack, RuleInv
<1>5. CASE Leave
  BY <1>2, <1>5 DEF Leave, RuleInv
<1>6. CASE RuleReferences
  <2>1. /\ phase = "visit" /\ work = <<>> /\ \A p \in Undecided : index[p] > 0
        /\ decided' = [p \in Shared |-> IF decided[p] # None THEN decided[p] ELSE ByReferences(answer[p])]
        /\ settled' = decided' /\ phase' = "settle"
    BY <1>6 DEF RuleReferences
  <2>2. decided = [p \in Shared |-> ByContent(p)]
    BY <2>1 DEF RuleInv
  <2>3. Open = {}
    <3>1. OnWork = {}
      BY <2>1 DEF OnWork, Elems
    <3>2. QED
      BY <3>1 DEF SearchInv, OrderInv
  <2>4. ASSUME NEW p \in Shared, ByContent(p) = None
        PROVE  answer[p] = Referring(p)
    <3>1. p \in Answered
      BY <2>1, <2>3, <2>4 DEF Answered, Undecided
    <3>2. QED
      BY <3>1 DEF SearchInv, AnswersAreReach
  <2>5. decided' = Rules12
    BY <2>1, <2>2, <2>4 DEF Rules12
  <2>6. QED
    BY <1>2, <2>1, <2>5 DEF RuleInv
<1>7. ASSUME NEW p \in Shared, RuleRest(p)
      PROVE  RuleInv'
  <2>1. /\ phase = "settle" /\ phase' = "settle" /\ decided[p] = None /\ settled' = settled
        /\ decided' = [decided EXCEPT ![p] = ByRest(p, settled)]
    BY <1>7 DEF RuleRest
  <2>2. /\ settled = Rules12
        /\ \A q \in Shared : IF Rules12[q] # None THEN decided[q] = Rules12[q]
                             ELSE decided[q] \in {None, ByRest(q, Rules12)}
    BY <2>1 DEF RuleInv
  <2>3. \A q \in Shared : IF Rules12[q] # None THEN decided'[q] = Rules12[q]
                          ELSE decided'[q] \in {None, ByRest(q, Rules12)}
    BY <2>1, <2>2 DEF TypeOK
  <2>4. QED
    BY <1>2, <2>1, <2>2, <2>3 DEF RuleInv
<1>8. CASE Return
  BY <1>2, <1>8 DEF Return, RuleInv
<1>9. QED
  BY <1>3, <1>4, <1>5, <1>6, <1>7, <1>8 DEF Next

-----------------------------------------------------------------------------
(* All of it                                                               *)

IInv == TypeOK /\ SearchInv /\ RuleInv

LEMMA InitInvariant == Init => IInv
<1> SUFFICES ASSUME Init PROVE IInv
  OBVIOUS
<1>1. Open = {} /\ OnWork = {} /\ \A x \in Shared : index[x] = 0
  BY DEF Init, Open, OnWork, Elems
<1>2. TypeOK
  BY InitTyped
<1>3. OrderInv
  <2>1. \A x \in Shared : index[x] <= Visited
    BY <1>1, <1>2, VisitedBound
  <2>2. Ordered(stack) /\ Ordered(work)
    BY DEF Init, Ordered
  <2>3. QED
    BY <1>1, <2>1, <2>2 DEF OrderInv
<1>4. ReachInv /\ LookedInv
  BY <1>1 DEF ReachInv, LookedInv
<1>5. AnswersAreReach
  BY <1>1 DEF AnswersAreReach, Answered
<1>6. RuleInv
  BY DEF Init, RuleInv
<1>7. QED
  BY <1>2, <1>3, <1>4, <1>5, <1>6 DEF IInv, SearchInv

LEMMA SearchStays ==
  ASSUME SearchInv, UNCHANGED <<inputs, search>>
  PROVE  SearchInv'
<1>1. UNCHANGED inputs /\ UNCHANGED <<index, low, stack, work, pending, answer>>
  OBVIOUS
<1>2. Open' = Open /\ OnWork' = OnWork /\ Visited' = Visited /\ Answered' = Answered
  BY <1>1 DEF Open, OnWork, Elems, Visited, Answered
<1>3. Undecided' = Undecided
  BY <1>1, InputsStay
<1>4. \A x : Succ(x)' = Succ(x) /\ Upstream(x)' = Upstream(x) /\ Referring(x)' = Referring(x)
  BY <1>1, InputsStay
<1>5. OrderInv'
  BY <1>1, <1>2, <1>3 DEF SearchInv, OrderInv, Ordered
<1>6. ReachInv'
  BY <1>1, <1>2, <1>4 DEF SearchInv, ReachInv
<1>7. LookedInv'
  BY <1>1, <1>2, <1>4 DEF SearchInv, LookedInv, Heads
<1>8. AnswersAreReach'
  BY <1>1, <1>2, <1>4 DEF SearchInv, AnswersAreReach
<1>9. QED
  BY <1>5, <1>6, <1>7, <1>8 DEF SearchInv

LEMMA NextInvariant == IInv /\ [Next]_vars => IInv'
<1> SUFFICES ASSUME IInv, [Next]_vars PROVE IInv'
  OBVIOUS
<1>1. TypeOK /\ SearchInv /\ RuleInv
  BY DEF IInv
<1>2. ASSUME NEW p \in Shared, VisitRoot(p) \/ Descend(p)
      PROVE  TypeOK' /\ SearchInv'
  BY <1>1, <1>2, VisitTyped, VisitKeeps
<1>3. ASSUME NEW p \in Shared, LookBack(p)
      PROVE  TypeOK' /\ SearchInv'
  BY <1>1, <1>3, LookTyped, LookKeeps
<1>4. CASE Leave
  <2>1. TypeOK'
    BY <1>1, <1>4, LeaveTyped DEF SearchInv
  <2>2. SearchInv'
    BY <1>1, <1>4, LeaveOpenKeeps, LeaveClosedKeeps
  <2>3. QED
    BY <1>1, <1>4, <2>1, <2>2, RuleStep DEF IInv, Next
<1>5. CASE RuleContent \/ RuleReferences \/ Return \/ \E p \in Shared : RuleRest(p)
  <2>1. UNCHANGED <<inputs, search>>
    BY <1>5 DEF RuleContent, RuleReferences, Return, RuleRest
  <2>2. TypeOK' /\ SearchInv'
    BY <1>1, <1>5, <2>1, RulesTyped, SearchStays
  <2>3. QED
    BY <1>1, <1>5, <2>2, RuleStep DEF IInv, Next
<1>6. CASE UNCHANGED vars
  <2>1. UNCHANGED <<inputs, search>> /\ UNCHANGED <<phase, decided, settled>>
    BY <1>6 DEF vars
  <2>2. TypeOK' /\ SearchInv'
    BY <1>1, <2>1, SearchStays DEF TypeOK
  <2>3. RuleInv'
    BY <1>1, <2>1, RulesStay DEF RuleInv
  <2>4. QED
    BY <2>2, <2>3 DEF IInv
<1>7. CASE Next
  BY <1>1, <1>2, <1>3, <1>4, <1>5, <1>7, RuleStep DEF Next, IInv
<1>8. QED
  BY <1>6, <1>7

LEMMA Invariant == Spec => []IInv
<1>1. QED
  BY InitInvariant, NextInvariant, PTL DEF Spec

(* Every variable keeps its type: in particular no number exceeds the      *)
(* count of files and every decision is a candidate language or none.      *)
THEOREM TypeCorrect == Spec => []TypeOK
<1>1. IInv => TypeOK
  BY DEF IInv
<1>2. QED
  BY <1>1, Invariant, PTL

(* For every graph of references, cycles included, and in whatever order   *)
(* _all_referrer_languages visits the files: as soon as a component is     *)
(* finished each of its files has exactly the languages of the settled     *)
(* files that reach it.                                                    *)
THEOREM ReachIsAnswered == Spec => []AnswersAreReach
<1>1. IInv => AnswersAreReach
  BY DEF IInv, SearchInv
<1>2. QED
  BY <1>1, Invariant, PTL

(* resolve_owners ends with the same decisions whatever the order in which *)
(* files are visited and in which the last two rules take them.            *)
THEOREM OrderDoesNotMatter == Spec => []DecisionsIgnoreOrder
<1>1. IInv => DecisionsIgnoreOrder
  <2> SUFFICES ASSUME IInv, phase = "done"
               PROVE  decided = [p \in Shared |-> IF Rules12[p] # None THEN Rules12[p]
                                                  ELSE ByRest(p, Rules12)]
    BY DEF DecisionsIgnoreOrder
  <2>1. \A p \in Shared : decided[p] = IF Rules12[p] # None THEN Rules12[p] ELSE ByRest(p, Rules12)
    BY DEF IInv, RuleInv
  <2>2. QED
    BY <2>1 DEF IInv, TypeOK
<1>2. QED
  BY <1>1, Invariant, PTL

-----------------------------------------------------------------------------
(* How many steps the decision can take.                                   *)

Ahead == [content |-> 3, visit |-> 2, settle |-> 1, done |-> 0]

ToVisit == Cardinality({p \in Shared : index[p] = 0})
ToDecide == Cardinality({p \in Shared : decided[p] = None})
ToLook == IF work = <<>> THEN 0 ELSE Cardinality(pending[Top])

(* Every step brings the end nearer in the lexicographic order of five     *)
(* counts of what is left: phases, files to visit, files of the chain,     *)
(* referrers the last of them has still to look at, files to decide.  A    *)
(* cycle of references can lead the search back, never on for ever.        *)
SearchRunsOut ==
  [][/\ {Ahead[phase'], ToVisit', Len(work'), ToLook', ToDecide'} \subseteq Nat
     /\ \/ Ahead[phase'] < Ahead[phase]
        \/ /\ phase' = phase
           /\ \/ ToVisit' < ToVisit
              \/ /\ ToVisit' = ToVisit
                 /\ \/ Len(work') < Len(work)
                    \/ work' = work /\ ToLook' < ToLook
                    \/ work' = work /\ ToLook' = ToLook /\ ToDecide' < ToDecide]_vars

LEMMA CountsAreNatural ==
  ASSUME TypeOK
  PROVE  {Ahead[phase], ToVisit, Len(work), ToLook, ToDecide} \subseteq Nat
<1>1. \A S \in SUBSET Shared : Cardinality(S) \in Nat
  BY FS_Subset, FS_CardinalityType, OwnershipAssumption
<1>2. Ahead[phase] \in Nat
  BY DEF TypeOK, Ahead
<1>3. ToVisit \in Nat /\ ToDecide \in Nat
  BY <1>1 DEF ToVisit, ToDecide
<1>4. ToLook \in Nat
  <2>1. CASE work = <<>>
    BY <2>1 DEF ToLook
  <2>2. CASE work # <<>>
    <3>1. pending[Top] \in SUBSET Shared
      BY <2>2, TopType DEF TypeOK
    <3>2. QED
      BY <1>1, <2>2, <3>1 DEF ToLook
  <2>3. QED
    BY <2>1, <2>2
<1>5. Len(work) \in Nat
  BY DEF TypeOK
<1>6. QED
  BY <1>2, <1>3, <1>4, <1>5

LEMMA VisitTakesOne ==
  ASSUME TypeOK, SearchInv, NEW p \in Shared, VisitRoot(p) \/ Descend(p)
  PROVE  phase' = phase /\ ToVisit' < ToVisit
<1> DEFINE unseen == {x \in Shared : index[x] = 0}
<1>1. /\ index[p] = 0 /\ index'[p] = Visited + 1 /\ Visited \in Nat
      /\ \A x \in Shared \ {p} : index'[x] = index[x]
  BY VisitEffect
<1>2. {x \in Shared : index'[x] = 0} = unseen \ {p} /\ p \in unseen
  BY <1>1
<1>3. IsFiniteSet(unseen)
  BY FS_Subset, OwnershipAssumption
<1>4. Cardinality(unseen \ {p}) = Cardinality(unseen) - 1 /\ Cardinality(unseen) \in Nat
  BY <1>2, <1>3, FS_RemoveElement, FS_CardinalityType
<1>5. phase' = phase
  BY DEF VisitRoot, Descend, Visit
<1>6. QED
  BY <1>2, <1>4, <1>5 DEF ToVisit

LEMMA LookTakesOne ==
  ASSUME TypeOK, NEW p \in Shared, LookBack(p)
  PROVE  phase' = phase /\ ToVisit' = ToVisit /\ work' = work /\ ToLook' < ToLook
<1>1. /\ work # <<>> /\ p \in pending[Top] /\ pending' = [pending EXCEPT ![Top] = @ \ {p}]
      /\ UNCHANGED <<phase, index, work>>
  BY DEF LookBack
<1>2. Top \in Shared /\ Top' = Top
  BY <1>1, TopType DEF Top
<1>3. pending'[Top] = pending[Top] \ {p} /\ IsFiniteSet(pending[Top])
  BY <1>1, <1>2, FS_Subset, OwnershipAssumption DEF TypeOK
<1>4. Cardinality(pending[Top] \ {p}) = Cardinality(pending[Top]) - 1 /\ Cardinality(pending[Top]) \in Nat
  BY <1>1, <1>3, FS_RemoveElement, FS_CardinalityType
<1>5. ToLook' = Cardinality(pending[Top] \ {p}) /\ ToLook = Cardinality(pending[Top])
  BY <1>1, <1>2, <1>3 DEF ToLook
<1>6. QED
  BY <1>1, <1>4, <1>5 DEF ToVisit

LEMMA LeaveTakesOne ==
  ASSUME TypeOK, Leave
  PROVE  phase' = phase /\ ToVisit' = ToVisit /\ Len(work') < Len(work)
<1>1. work # <<>> /\ work' = SubSeq(work, 1, Len(work) - 1) /\ UNCHANGED <<phase, index>>
  BY DEF Leave
<1>2. work \in Seq(Shared) /\ Len(work) \in Nat \ {0}
  BY <1>1, TopType DEF TypeOK
<1>3. Len(work') = Len(work) - 1
  BY <1>1, RestIs DEF Rest
<1>4. QED
  BY <1>1, <1>2, <1>3 DEF ToVisit

LEMMA RestTakesOne ==
  ASSUME None \notin Langs, TypeOK, NEW p \in Shared, RuleRest(p)
  PROVE  /\ phase' = phase /\ ToVisit' = ToVisit /\ work' = work /\ ToLook' = ToLook
         /\ ToDecide' < ToDecide
<1> DEFINE open == {x \in Shared : decided[x] = None}
<1>1. /\ decided[p] = None /\ decided' = [decided EXCEPT ![p] = ByRest(p, settled)]
      /\ UNCHANGED <<phase, index, work, pending>>
  BY DEF RuleRest
<1>2. ByRest(p, settled) # None
  BY ByRestType
<1>3. {x \in Shared : decided'[x] = None} = open \ {p} /\ p \in open
  BY <1>1, <1>2 DEF TypeOK
<1>4. IsFiniteSet(open)
  BY FS_Subset, OwnershipAssumption
<1>5. Cardinality(open \ {p}) = Cardinality(open) - 1 /\ Cardinality(open) \in Nat
  BY <1>3, <1>4, FS_RemoveElement, FS_CardinalityType
<1>6. QED
  BY <1>1, <1>3, <1>5 DEF ToVisit, ToLook, ToDecide, Top

(* The safety half of OwnersAreDecided, for every graph of references and  *)
(* every order of visits: no run of the search and the rules goes on for   *)
(* ever.                                                                   *)
THEOREM SearchEnds ==
  ASSUME None \notin Langs
  PROVE  Spec => SearchRunsOut
<1>1. ASSUME IInv, IInv', Next
      PROVE  /\ {Ahead[phase'], ToVisit', Len(work'), ToLook', ToDecide'} \subseteq Nat
             /\ \/ Ahead[phase'] < Ahead[phase]
                \/ /\ phase' = phase
                   /\ \/ ToVisit' < ToVisit
                      \/ /\ ToVisit' = ToVisit
                         /\ \/ Len(work') < Len(work)
                            \/ work' = work /\ ToLook' < ToLook
                            \/ work' = work /\ ToLook' = ToLook /\ ToDecide' < ToDecide
  <2>1. TypeOK /\ SearchInv /\ TypeOK'
    BY <1>1 DEF IInv
  <2>2. {Ahead[phase'], ToVisit', Len(work'), ToLook', ToDecide'} \subseteq Nat
    <3>1. TypeOK => {Ahead[phase], ToVisit, Len(work), ToLook, ToDecide} \subseteq Nat
      BY CountsAreNatural
    <3>2. (TypeOK => {Ahead[phase], ToVisit, Len(work), ToLook, ToDecide} \subseteq Nat)'
      BY <3>1, CountsAreNatural, PTL
    <3>3. QED
      BY <2>1, <3>2
  <2>3. CASE RuleContent \/ RuleReferences \/ Return
    BY <2>2, <2>3 DEF RuleContent, RuleReferences, Return, Ahead
  <2>4. QED
    BY <1>1, <2>1, <2>2, <2>3, VisitTakesOne, LookTakesOne, LeaveTakesOne, RestTakesOne DEF Next
<1>2. QED
  BY <1>1, Invariant, PTL DEF SearchRunsOut, Spec
=============================================================================
