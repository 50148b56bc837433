------------------------- MODULE FileSelectionProofs -------------------------
(***************************************************************************)
(* Theorems about FileSelection for trees of any size and shape, any ignore *)
(* and include lines in their layers, and runs on any languages.            *)
(***************************************************************************)
EXTENDS FileSelection, FiniteSetTheorems, SequenceTheorems, WellFoundedInduction, TLAPS

-----------------------------------------------------------------------------
(* The directories above a node                                            *)

\* Every non-empty set of natural numbers has a least element.
LEMMA LeastNatural ==
  ASSUME NEW S \in SUBSET Nat, S # {}
  PROVE  \E m \in S : \A n \in S : m <= n
<1>1. PICK m \in S : \A n \in S : ~ (<<n, m>> \in OpToRel(<, Nat))
  BY WFMin, NatLessThanWellFounded
<1>2. \A n \in S : ~ (n < m)
  BY <1>1 DEF OpToRel
<1>3. QED
  BY <1>2

Places == Nodes \cup {0}

LEMMA TreeIs ==
  /\ Places \subseteq Nat /\ Dirs \subseteq Places /\ Files \subseteq Nodes /\ 0 \notin Nodes
  /\ 0 \in Dirs /\ Dirs \ {0} \subseteq Nodes /\ Files \cap Dirs = {}
  /\ \A n \in Nodes : Parent[n] \in Dirs /\ Parent[n] \in Places /\ Parent[n] < n
BY TreeAssumption DEF Places, Dirs

\* What holds of the root and goes from a directory to its entries holds of
\* the whole tree.
LEMMA TreeInduction ==
  ASSUME NEW S \in SUBSET Places, 0 \in S, \A n \in Nodes : Parent[n] \in S => n \in S
  PROVE  S = Places
<1>1. SUFFICES ASSUME Places \ S # {} PROVE FALSE
  OBVIOUS
<1>2. Places \ S \in SUBSET Nat
  BY TreeIs
<1>3. PICK n \in Places \ S : \A m \in Places \ S : n <= m
  BY <1>1, <1>2, LeastNatural
<1>4. n \in Nodes
  BY <1>3 DEF Places
<1>5. Parent[n] \in Places /\ Parent[n] < n /\ Parent[n] \in Nat /\ n \in Nat
  BY <1>4, TreeIs
<1>6. Parent[n] \in S
  BY <1>3, <1>5
<1>7. QED
  BY <1>3, <1>4, <1>6

\* The recursion of Up has a solution: the places in every set of directories
\* that holds the parent and is closed under parents.
LEMMA UpIs ==
  /\ Up[0] = {}
  /\ \A n \in Nodes : Up[n] = {Parent[n]} \cup Up[Parent[n]]
<1> DEFINE closed(S) == \A k \in S \ {0} : Parent[k] \in S
           above(n) == {m \in Dirs : \A S \in SUBSET Dirs : Parent[n] \in S /\ closed(S) => m \in S}
           f == [n \in Nodes \cup {0} |-> IF n = 0 THEN {} ELSE above(n)]
<1>1. ASSUME NEW n \in Nodes, Parent[n] # 0
      PROVE  above(n) = {Parent[n]} \cup above(Parent[n])
  <2> DEFINE p == Parent[n]
             T == {p} \cup above(p)
  <2>1. p \in Dirs /\ p \in Nodes /\ Parent[p] \in Dirs
    BY <1>1, TreeIs
  <2>2. \A m \in above(p) : m \in above(n)
    <3>1. ASSUME NEW m \in above(p), NEW S \in SUBSET Dirs, p \in S, closed(S)
          PROVE  m \in S
      <4>1. Parent[p] \in S
        BY <1>1, <3>1
      <4>2. QED
        BY <3>1, <4>1
    <3>2. QED
      BY <3>1
  <2>3. p \in above(n)
    BY <2>1
  <2>4. T \in SUBSET Dirs
    BY <2>1
  <2>5. closed(T)
    <3>1. ASSUME NEW k \in T \ {0}
          PROVE  Parent[k] \in T
      <4>1. k \in Dirs \ {0} /\ Parent[k] \in Dirs
        BY <2>4, <3>1, TreeIs
      <4>2. CASE k = p
        <5>1. Parent[p] \in above(p)
          BY <2>1
        <5>2. QED
          BY <4>2, <5>1
      <4>3. CASE k \in above(p)
        <5>1. ASSUME NEW S \in SUBSET Dirs, Parent[p] \in S, closed(S)
              PROVE  Parent[k] \in S
          <6>1. k \in S
            BY <4>3, <5>1
          <6>2. QED
            BY <4>1, <5>1, <6>1
        <5>2. Parent[k] \in above(p)
          BY <4>1, <5>1
        <5>3. QED
          BY <5>2
      <4>4. QED
        BY <3>1, <4>2, <4>3
    <3>2. QED
      BY <3>1
  <2>6. above(n) \subseteq T
    BY <2>4, <2>5
  <2>7. QED
    BY <2>2, <2>3, <2>6
<1>2. ASSUME NEW n \in Nodes, Parent[n] = 0
      PROVE  above(n) = {0}
  <2>1. {0} \in SUBSET Dirs /\ closed({0})
    BY TreeIs
  <2>2. above(n) \subseteq {0}
    BY <1>2, <2>1
  <2>3. 0 \in above(n)
    BY <1>2, TreeIs
  <2>4. QED
    BY <2>2, <2>3
<1> HIDE DEF above, closed
<1>3. f = [n \in Nodes \cup {0} |-> IF n = 0 THEN {} ELSE {Parent[n]} \cup f[Parent[n]]]
  <2>1. ASSUME NEW n \in Nodes
        PROVE  f[n] = {Parent[n]} \cup f[Parent[n]]
    <3>1. n # 0 /\ Parent[n] \in Nodes \cup {0}
      BY TreeIs DEF Places
    <3>2. CASE Parent[n] = 0
      BY <1>2, <3>1, <3>2
    <3>3. CASE Parent[n] # 0
      BY <1>1, <3>1, <3>3
    <3>4. QED
      BY <3>2, <3>3
  <2>2. f[0] = {}
    OBVIOUS
  <2>3. 0 \notin Nodes /\ DOMAIN f = Nodes \cup {0} /\ f = [n \in Nodes \cup {0} |-> f[n]]
    BY TreeIs
  <2> HIDE DEF f
  <2>4. \A n \in Nodes \cup {0} : f[n] = IF n = 0 THEN {} ELSE {Parent[n]} \cup f[Parent[n]]
    BY <2>1, <2>2, <2>3
  <2>5. QED
    BY <2>3, <2>4
<1> HIDE DEF f
<1>4. Up = [n \in Nodes \cup {0} |-> IF n = 0 THEN {} ELSE {Parent[n]} \cup Up[Parent[n]]]
  BY <1>3 DEF Up
<1>5. QED
  BY <1>4, TreeIs

LEMMA UpFacts ==
  /\ \A n \in Places : Up[n] \subseteq Dirs
  /\ \A n \in Places : \A m \in Up[n] : m < n
  /\ \A n \in Nodes : 0 \in Up[n] /\ Parent[n] \in Up[n] /\ Up[Parent[n]] \subseteq Up[n]
  /\ \A n \in Places : \A m \in Up[n] : Up[m] \subseteq Up[n]
  /\ \A n \in Places : \A m \in Up[n] : \E c \in {n} \cup Up[n] : c \in Nodes /\ Parent[c] = m
  /\ \A n \in Places : \A m, d \in Up[n] : m = d \/ m \in Up[d] \/ d \in Up[m]
<1> DEFINE A == {n \in Places : Up[n] \subseteq Dirs}
           B == {n \in Places : \A m \in Up[n] : m < n}
           C == {n \in Places : n = 0 \/ 0 \in Up[n]}
           D == {n \in Places : \A m \in Up[n] : Up[m] \subseteq Up[n]}
           E == {n \in Places : \A m \in Up[n] : \E c \in {n} \cup Up[n] : c \in Nodes /\ Parent[c] = m}
           F == {n \in Places : \A m, d \in Up[n] : m = d \/ m \in Up[d] \/ d \in Up[m]}
<1>0. 0 \in Places /\ Up[0] = {} /\ \A n \in Nodes : n \in Places /\ Up[n] = {Parent[n]} \cup Up[Parent[n]]
  BY UpIs DEF Places
<1>1. A = Places
  <2>1. 0 \in A /\ \A n \in Nodes : Parent[n] \in A => n \in A
    BY <1>0, TreeIs
  <2>2. QED
    BY <2>1, TreeInduction
<1>2. B = Places
  <2>1. ASSUME NEW n \in Nodes, Parent[n] \in B
        PROVE  n \in B
    <3>1. n \in Nat /\ Parent[n] \in Nat /\ Parent[n] < n /\ Parent[n] \in Places
      BY <1>0, TreeIs
    <3>2. \A m \in Up[Parent[n]] : m \in Nat /\ m < Parent[n]
      BY <1>1, <2>1, <3>1, TreeIs
    <3>3. \A m \in Up[Parent[n]] : m < n
      BY <3>1, <3>2
    <3>4. QED
      BY <1>0, <3>1, <3>3
  <2>2. 0 \in B
    BY <1>0
  <2>3. QED
    BY <2>1, <2>2, TreeInduction
<1>3. C = Places
  <2>1. 0 \in C /\ \A n \in Nodes : Parent[n] \in C => n \in C
    BY <1>0
  <2>2. QED
    BY <2>1, TreeInduction
<1>4. D = Places
  <2>1. 0 \in D /\ \A n \in Nodes : Parent[n] \in D => n \in D
    BY <1>0
  <2>2. QED
    BY <2>1, TreeInduction
<1>5. E = Places
  <2>1. ASSUME NEW n \in Nodes, Parent[n] \in E
        PROVE  n \in E
    <3>1. ASSUME NEW m \in Up[n]
          PROVE  \E c \in {n} \cup Up[n] : c \in Nodes /\ Parent[c] = m
      <4>1. CASE m = Parent[n]
        BY <4>1
      <4>2. CASE m \in Up[Parent[n]]
        <5>1. PICK c \in {Parent[n]} \cup Up[Parent[n]] : c \in Nodes /\ Parent[c] = m
          BY <2>1, <4>2
        <5>2. QED
          BY <1>0, <5>1
      <4>3. QED
        BY <1>0, <4>1, <4>2
    <3>2. QED
      BY <1>0, <3>1
  <2>2. 0 \in E
    BY <1>0
  <2>3. QED
    BY <2>1, <2>2, TreeInduction
<1>6. F = Places
  <2>1. 0 \in F /\ \A n \in Nodes : Parent[n] \in F => n \in F
    BY <1>0
  <2>2. QED
    BY <2>1, TreeInduction
<1>7. \A n \in Nodes : 0 \in Up[n] /\ Parent[n] \in Up[n] /\ Up[Parent[n]] \subseteq Up[n]
  BY <1>0, <1>3, TreeIs
<1> HIDE DEF A, B, C, D, E, F
<1>8. /\ \A n \in Places : Up[n] \subseteq Dirs
      /\ \A n \in Places : \A m \in Up[n] : m < n
  BY <1>1, <1>2 DEF A, B
<1>9. \A n \in Places : \A m \in Up[n] : Up[m] \subseteq Up[n]
  BY <1>4 DEF D
<1>10. \A n \in Places : \A m \in Up[n] : \E c \in {n} \cup Up[n] : c \in Nodes /\ Parent[c] = m
  BY <1>5 DEF E
<1>11. \A n \in Places : \A m, d \in Up[n] : m = d \/ m \in Up[d] \/ d \in Up[m]
  BY <1>6 DEF F
<1>12. QED
  BY <1>7, <1>8, <1>9, <1>10, <1>11

-----------------------------------------------------------------------------
(* The invariant: what the walk has left, and what became of the rest      *)

TodoOf(w) == UNION {w[i].todo : i \in DOMAIN w}
Todo == TodoOf(walk)
LeftOf(n, T) == ({n} \cup Up[n]) \cap T # {}
Left(n) == LeftOf(n, Todo)
Open(n) == \A m \in Up[n] \ {0} : Kept(m)

\* Why a file is dropped, from the layers alone.
Reason(n) ==
  IF ~Kept(n) THEN "ignored"
  ELSE IF kind[n] = "html" /\ ~mode.templates THEN "template"
  ELSE IF ~Classified(n) THEN "unsupported"
  ELSE IF kind[n] = "gone" THEN "gone"
  ELSE IF kind[n] = "big" THEN "oversized"
  ELSE IF \A i \in DOMAIN Candidates(n) : LangIgnored(n, Candidates(n)[i]) THEN "ignored"
  ELSE "no"

\* What the walk reports of a node in the end.
Outcome(n) ==
  IF ~Open(n) THEN <<>>
  ELSE IF n \in Dirs THEN IF Kept(n) THEN <<>> ELSE <<"ignored">>
  ELSE IF Reason(n) \in Unreported THEN <<>> ELSE <<Reason(n)>>

FrameSet == [todo : SUBSET Nodes, ignore : SUBSET rules, include : SUBSET rules]

InputInv ==
  /\ kind \in [Files -> Kinds] /\ mode \in Modes /\ rules \subseteq Rules
  /\ walk \in Seq(FrameSet) /\ DOMAIN skips = Nodes /\ phase \in {"walk", "done"}

\* The frames are over disjoint parts of the tree, every entry left has the
\* lines of the directories above it in scope, and none of those is left.
FramesOk(w) ==
  /\ \A i \in DOMAIN w : \A n \in w[i].todo :
       /\ w[i].ignore = InScope("ignore", n) /\ w[i].include = InScope("include", n)
       /\ Open(n) /\ Up[n] \cap TodoOf(w) = {}
  /\ \A i, j \in DOMAIN w : i # j => w[i].todo \cap w[j].todo = {}
WalkInv == FramesOk(walk)

VisitInv ==
  /\ scanned = {n \in Files : ~Left(n) /\ Open(n) /\ Reason(n) = "no"}
  /\ phase = "walk" => \A n \in Nodes : skips[n] = IF Left(n) THEN <<>> ELSE Outcome(n)

DoneInv == phase = "done" =>
  /\ walk = <<>>
  /\ \A n \in Nodes : skips[n] = IF n \in scanned THEN Late(n) ELSE Outcome(n)
  /\ entries = {[file |-> n, language |-> LanguageOf(n, scanned)] : n \in {m \in scanned : Late(m) = <<>>}}

SelectInv == InputInv /\ WalkInv /\ VisitInv /\ DoneInv

\* What the layers say depends on the inputs only.
LEMMA SameInputs ==
  ASSUME UNCHANGED <<kind, rules, mode>>
  PROVE  /\ \A layer, n : InScope(layer, n)' = InScope(layer, n)
         /\ \A n : Kept(n)' <=> Kept(n)
         /\ \A n : Open(n)' <=> Open(n)
         /\ \A n : Reason(n)' = Reason(n)
         /\ \A n : Outcome(n)' = Outcome(n)
         /\ FrameSet' = FrameSet
<1>1. \A layer, n : InScope(layer, n)' = InScope(layer, n)
  BY DEF InScope
<1>2. \A n : Kept(n)' <=> Kept(n)
  BY <1>1 DEF Kept
<1>3. \A n : Open(n)' <=> Open(n)
  BY <1>2 DEF Open
<1>4. \A n : Reason(n)' = Reason(n)
  <2>1. ASSUME NEW n
        PROVE  Reason(n)' = Reason(n)
    <3>1. /\ kind'[n] = kind[n] /\ mode' = mode /\ Candidates(n)' = Candidates(n)
          /\ \A l : LangIgnored(n, l)' <=> LangIgnored(n, l)
      BY DEF Candidates, LangIgnored, LangRules
    <3>2. Classified(n)' <=> Classified(n)
      BY <3>1 DEF Classified
    <3>3. (\A i \in DOMAIN Candidates(n) : LangIgnored(n, Candidates(n)[i]))'
            <=> (\A i \in DOMAIN Candidates(n) : LangIgnored(n, Candidates(n)[i]))
      BY <3>1
    <3>4. QED
      BY <1>2, <3>1, <3>2, <3>3 DEF Reason
  <2>2. QED
    BY <2>1
<1>5. \A n : Outcome(n)' = Outcome(n)
  BY <1>2, <1>3, <1>4 DEF Outcome
<1>6. QED
  BY <1>1, <1>2, <1>3, <1>4, <1>5 DEF FrameSet

\* How the shared files are decided depends on the inputs and the evidence.
LEMMA SameDecision ==
  ASSUME UNCHANGED <<kind, rules, mode, scanned>>
  PROVE  \A n : Late(n)' = Late(n) /\ LanguageOf(n, scanned)' = LanguageOf(n, scanned)
<1>1. \A n : Candidates(n)' = Candidates(n)
  BY DEF Candidates
<1>2. \A n : Shared(n)' <=> Shared(n)
  BY <1>1 DEF Shared
<1>3. ASSUME NEW n
      PROVE  Owner(n, scanned)' = Owner(n, scanned)
  <2> DEFINE near == {Candidates(m)[1] : m \in {x \in {m \in scanned : Parent[m] = Parent[n]} : ~Shared(x)}} \cap {"c", "cpp"}
             all == {Candidates(m)[1] : m \in {x \in scanned : ~Shared(x)}} \cap {"c", "cpp"}
             pick(N, A) == IF Cardinality(N) = 1 THEN CHOOSE l \in N : TRUE
                           ELSE IF Cardinality(A) = 1 THEN CHOOSE l \in A : TRUE ELSE "cpp"
  <2>1. near' = near
    <3>1. {x \in {m \in scanned : Parent[m] = Parent[n]} : ~Shared(x)}'
            = {x \in {m \in scanned : Parent[m] = Parent[n]} : ~Shared(x)}
      BY <1>2
    <3>2. QED
      BY <1>1, <3>1
  <2>2. all' = all
    <3>1. {x \in scanned : ~Shared(x)}' = {x \in scanned : ~Shared(x)}
      BY <1>2
    <3>2. QED
      BY <1>1, <3>1
  <2>3. Owner(n, scanned) = pick(near, all) /\ Owner(n, scanned)' = pick(near', all')
    BY DEF Owner
  <2> HIDE DEF near, all
  <2>4. QED
    BY <2>1, <2>2, <2>3
<1>4. \A n : LanguageOf(n, scanned)' = LanguageOf(n, scanned)
  BY <1>1, <1>2, <1>3 DEF LanguageOf
<1>5. \A n, l : LangIgnored(n, l)' <=> LangIgnored(n, l)
  BY DEF LangIgnored, LangRules
<1>6. QED
  BY <1>2, <1>4, <1>5 DEF Late

\* A built-in line is in scope everywhere.
LEMMA BuiltinInScope ==
  ASSUME InputInv, NEW n \in Nodes
  PROVE  At(0, "builtin") = InScope("builtin", n)
<1>1. \A r \in rules : r.layer = "builtin" => r.at = 0
  BY DEF InputInv, Rules
<1>2. 0 \in Up[n]
  BY UpFacts
<1>3. QED
  BY <1>1, <1>2 DEF At, InScope

\* The entry visited next, and what is left after it.
LEMMA Visited ==
  ASSUME InputInv, WalkInv, Step
  PROVE  /\ Len(walk) \in DOMAIN walk /\ Inner \in FrameSet /\ Current \in Inner.todo /\ Current \in Nodes
         /\ Inner.ignore = InScope("ignore", Current) /\ Inner.include = InScope("include", Current)
         /\ Open(Current) /\ Current \in Todo /\ Up[Current] \cap Todo = {}
         /\ Keep(Current) <=> Kept(Current)
         /\ Dropped(Current) = Reason(Current)
         /\ Past \in Seq(FrameSet) /\ DOMAIN Past = DOMAIN walk
         /\ TodoOf(Past) = Todo \ {Current} /\ FramesOk(Past)
<1> DEFINE k == Len(walk)
           c == Current
<1>1. walk \in Seq(FrameSet) /\ walk # <<>> /\ Inner.todo # {}
  BY DEF InputInv, Step
<1>2. k \in Nat /\ DOMAIN walk = 1..k /\ k \in DOMAIN walk /\ \A i \in DOMAIN walk : walk[i] \in FrameSet
  BY <1>1
<1>3. Inner = walk[k] /\ Inner \in FrameSet
  BY <1>2 DEF Inner
<1>4. Inner.todo \in SUBSET Nodes
  BY <1>3 DEF FrameSet
<1>5. c \in Inner.todo
  <2>1. \E n \in Inner.todo : \A m \in Inner.todo : n <= m
    <3>1. Inner.todo \in SUBSET Nat
      BY <1>4, TreeIs DEF Places
    <3>2. QED
      BY <1>1, <3>1, LeastNatural
  <2>2. QED
    BY <2>1 DEF Current
<1> HIDE DEF c
<1>6. c \in Nodes /\ c \in Todo
  BY <1>2, <1>3, <1>4, <1>5 DEF Todo, TodoOf
<1>7. /\ Inner.ignore = InScope("ignore", c) /\ Inner.include = InScope("include", c)
      /\ Open(c) /\ Up[c] \cap Todo = {}
  BY <1>2, <1>3, <1>5 DEF WalkInv, FramesOk, Todo
<1>8. Keep(c) <=> Kept(c)
  BY <1>6, <1>7, BuiltinInScope DEF Keep, Kept
<1>9. Dropped(c) = Reason(c)
  BY <1>8 DEF Dropped, Reason
<1> DEFINE last == [Inner EXCEPT !.todo = @ \ {c}]
<1>10. Past = [walk EXCEPT ![k] = last]
  BY <1>3 DEF Past, c
<1>11. /\ last \in FrameSet /\ last.todo = Inner.todo \ {c}
       /\ last.ignore = Inner.ignore /\ last.include = Inner.include
  BY <1>3 DEF FrameSet
<1> HIDE DEF last
<1>12. /\ Past \in Seq(FrameSet) /\ DOMAIN Past = DOMAIN walk /\ Past[k] = last
       /\ \A i \in DOMAIN walk : i # k => Past[i] = walk[i]
  BY <1>1, <1>2, <1>10, <1>11
<1>13. \A i \in DOMAIN walk : /\ Past[i].todo = walk[i].todo \ {c}
                              /\ Past[i].ignore = walk[i].ignore /\ Past[i].include = walk[i].include
  <2>1. \A i \in DOMAIN walk : i # k => c \notin walk[i].todo
    BY <1>2, <1>3, <1>5 DEF WalkInv, FramesOk
  <2>2. \A i \in DOMAIN walk : i # k => walk[i].todo \ {c} = walk[i].todo
    BY <2>1
  <2>3. QED
    BY <1>3, <1>11, <1>12, <2>2
<1>14. TodoOf(Past) = Todo \ {c}
  BY <1>12, <1>13 DEF Todo, TodoOf
<1>15. FramesOk(Past)
  BY <1>12, <1>13, <1>14 DEF FramesOk, WalkInv, Todo
<1>16. QED
  BY <1>2, <1>3, <1>5, <1>6, <1>7, <1>8, <1>9, <1>12, <1>14, <1>15 DEF c

-----------------------------------------------------------------------------
(* The steps of the walk                                                   *)

\* What one visit must establish, in terms of what is left after it.
LEMMA VisitKeeps ==
  ASSUME SelectInv, phase = "walk", UNCHANGED <<kind, rules, mode, entries, phase>>,
         walk' \in Seq(FrameSet), FramesOk(walk'), DOMAIN skips' = Nodes,
         \A n \in Files : n \in scanned' <=> ~LeftOf(n, TodoOf(walk')) /\ Open(n) /\ Reason(n) = "no",
         scanned' \subseteq Files,
         \A n \in Nodes : skips'[n] = IF LeftOf(n, TodoOf(walk')) THEN <<>> ELSE Outcome(n)
  PROVE  SelectInv'
<1>1. /\ \A layer, n : InScope(layer, n)' = InScope(layer, n)
      /\ \A n : Open(n)' <=> Open(n)
      /\ \A n : Reason(n)' = Reason(n)
      /\ \A n : Outcome(n)' = Outcome(n)
      /\ FrameSet' = FrameSet
  BY SameInputs
<1>2. \A n : Left(n)' <=> LeftOf(n, TodoOf(walk'))
  BY DEF Left, LeftOf, Todo
<1>3. InputInv'
  BY <1>1 DEF SelectInv, InputInv
<1>4. WalkInv'
  BY <1>1 DEF WalkInv, FramesOk
<1>5. VisitInv'
  BY <1>1, <1>2 DEF VisitInv
<1>6. DoneInv'
  BY DEF DoneInv
<1>7. QED
  BY <1>3, <1>4, <1>5, <1>6 DEF SelectInv

\* A node that is left is neither reported nor kept yet.
LEMMA LeftAlone ==
  ASSUME SelectInv, phase = "walk", NEW n \in Nodes
  PROVE  /\ skips[n] = IF Left(n) THEN <<>> ELSE Outcome(n)
         /\ n \in Files => (n \in scanned <=> ~Left(n) /\ Open(n) /\ Reason(n) = "no")
BY DEF SelectInv, VisitInv

LEMMA VisitFileKeeps ==
  ASSUME SelectInv, VisitFile
  PROVE  SelectInv'
<1> DEFINE c == Current
           T == Todo \ {c}
<1>1. /\ InputInv /\ WalkInv /\ Step /\ phase = "walk" /\ c \in Files /\ walk' = Past
      /\ UNCHANGED <<kind, rules, mode, entries, phase>>
  BY DEF SelectInv, VisitFile, Step
<1>2. /\ c \in Nodes /\ Open(c) /\ c \in Todo /\ Up[c] \cap Todo = {} /\ Dropped(c) = Reason(c)
      /\ Past \in Seq(FrameSet) /\ TodoOf(Past) = T /\ FramesOk(Past)
  BY <1>1, Visited
<1>3. /\ scanned' = IF Dropped(c) = "no" THEN scanned \cup {c} ELSE scanned
      /\ skips' = IF Dropped(c) \in Unreported THEN skips ELSE [skips EXCEPT ![c] = Append(@, Dropped(c))]
  BY DEF VisitFile
<1> HIDE DEF c
<1>4. Left(c) /\ ~LeftOf(c, T) /\ c \notin Dirs
  BY <1>1, <1>2, TreeIs DEF Left, LeftOf
<1>5. \A n \in Nodes \ {c} : LeftOf(n, T) <=> Left(n)
  <2>1. \A n \in Nodes : c \notin Up[n]
    BY <1>4, UpFacts DEF Places
  <2>2. QED
    BY <2>1 DEF Left, LeftOf
<1>6. skips[c] = <<>> /\ c \notin scanned
  BY <1>1, <1>2, <1>4, LeftAlone
<1>7. DOMAIN skips = Nodes /\ scanned \subseteq Files
  BY DEF SelectInv, InputInv, VisitInv
<1>8. \A n \in Nodes : skips'[n] = IF LeftOf(n, T) THEN <<>> ELSE Outcome(n)
  <2>1. ASSUME NEW n \in Nodes \ {c}
        PROVE  skips'[n] = IF LeftOf(n, T) THEN <<>> ELSE Outcome(n)
    BY <1>1, <1>3, <1>5, <1>7, LeftAlone
  <2>2. skips'[c] = Outcome(c)
    <3>1. Append(<<>>, Dropped(c)) = <<Dropped(c)>>
      OBVIOUS
    <3>2. skips'[c] = IF Dropped(c) \in Unreported THEN <<>> ELSE <<Dropped(c)>>
      BY <1>2, <1>3, <1>6, <1>7, <3>1
    <3>3. QED
      BY <1>2, <1>4, <3>2 DEF Outcome
  <2>3. QED
    BY <1>4, <2>1, <2>2
<1>9. \A n \in Files : n \in scanned' <=> ~LeftOf(n, T) /\ Open(n) /\ Reason(n) = "no"
  <2>1. ASSUME NEW n \in Files, n # c
        PROVE  n \in scanned' <=> ~LeftOf(n, T) /\ Open(n) /\ Reason(n) = "no"
    <3>1. n \in Nodes
      BY TreeIs
    <3>2. n \in scanned' <=> n \in scanned
      BY <1>3, <2>1
    <3>3. QED
      BY <1>1, <1>5, <2>1, <3>1, <3>2, LeftAlone
  <2>2. c \in scanned' <=> Reason(c) = "no"
    BY <1>2, <1>3, <1>6
  <2>3. QED
    BY <1>2, <1>4, <2>1, <2>2
<1>10. DOMAIN skips' = Nodes /\ scanned' \subseteq Files
  BY <1>1, <1>3, <1>7
<1>11. QED
  BY <1>1, <1>2, <1>8, <1>9, <1>10, VisitKeeps

\* A pruned directory settles everything below it: its entries are behind a
\* directory that is not kept.
LEMMA PruneKeeps ==
  ASSUME SelectInv, VisitDir, ~Keep(Current)
  PROVE  SelectInv'
<1> DEFINE c == Current
           T == Todo \ {c}
<1>1. /\ InputInv /\ WalkInv /\ Step /\ phase = "walk" /\ c \in Dirs /\ walk' = Past /\ scanned' = scanned
      /\ UNCHANGED <<kind, rules, mode, entries, phase>>
      /\ skips' = [skips EXCEPT ![c] = Append(@, "ignored")]
  BY DEF SelectInv, VisitDir, Step
<1>2. /\ c \in Nodes /\ Open(c) /\ c \in Todo /\ Up[c] \cap Todo = {} /\ ~Kept(c)
      /\ Past \in Seq(FrameSet) /\ TodoOf(Past) = T /\ FramesOk(Past)
  BY <1>1, Visited
<1> HIDE DEF c
<1>3. Left(c) /\ ~LeftOf(c, T) /\ c \notin Files /\ c # 0
  BY <1>1, <1>2, TreeIs DEF Left, LeftOf
<1>4. \A n \in Nodes \ {c} : /\ c \notin Up[n] => (LeftOf(n, T) <=> Left(n))
                             /\ c \in Up[n] => Left(n) /\ ~Open(n)
  BY <1>2, <1>3 DEF Left, LeftOf, Open
<1>5. skips[c] = <<>> /\ DOMAIN skips = Nodes /\ scanned \subseteq Files
  BY <1>1, <1>2, <1>3, LeftAlone DEF InputInv, SelectInv, VisitInv
<1>6. \A n \in Nodes : skips'[n] = IF LeftOf(n, T) THEN <<>> ELSE Outcome(n)
  <2>1. ASSUME NEW n \in Nodes \ {c}
        PROVE  skips'[n] = IF LeftOf(n, T) THEN <<>> ELSE Outcome(n)
    <3>1. skips'[n] = IF Left(n) THEN <<>> ELSE Outcome(n)
      BY <1>1, <1>5, LeftAlone
    <3>2. CASE c \in Up[n]
      <4>1. Outcome(n) = <<>>
        BY <1>4, <3>2 DEF Outcome
      <4>2. QED
        BY <3>1, <4>1
    <3>3. CASE c \notin Up[n]
      BY <1>4, <3>1, <3>3
    <3>4. QED
      BY <3>2, <3>3
  <2>2. skips'[c] = <<"ignored">>
    <3>1. Append(<<>>, "ignored") = <<"ignored">>
      OBVIOUS
    <3>2. QED
      BY <1>1, <1>2, <1>5, <3>1
  <2>3. Outcome(c) = <<"ignored">>
    BY <1>1, <1>2 DEF Outcome
  <2>4. QED
    BY <1>3, <2>1, <2>2, <2>3
<1>7. ASSUME NEW n \in Files
      PROVE  n \in scanned' <=> ~LeftOf(n, T) /\ Open(n) /\ Reason(n) = "no"
  <2>1. n \in Nodes \ {c}
    BY <1>3, TreeIs
  <2>2. n \in scanned' <=> ~Left(n) /\ Open(n) /\ Reason(n) = "no"
    BY <1>1, <2>1, LeftAlone
  <2>3. QED
    BY <1>4, <2>1, <2>2
<1>8. DOMAIN skips' = Nodes
  BY <1>1, <1>5
<1>9. QED
  BY <1>1, <1>2, <1>5, <1>6, <1>7, <1>8, VisitKeeps

\* A directory entered is replaced by its entries.
LEMMA EnterKeeps ==
  ASSUME SelectInv, VisitDir, Keep(Current)
  PROVE  SelectInv'
<1> DEFINE c == Current
           F == Frame(c, Inner.ignore, Inner.include)
           W == Append(Past, F)
           children == {n \in Nodes : Parent[n] = c}
           T == (Todo \ {c}) \cup children
<1>1. /\ InputInv /\ WalkInv /\ Step /\ phase = "walk" /\ c \in Dirs /\ walk' = W
      /\ UNCHANGED <<kind, rules, mode, entries, phase, skips, scanned>>
  BY DEF SelectInv, VisitDir, Step
<1>2. /\ c \in Nodes /\ Open(c) /\ c \in Todo /\ Up[c] \cap Todo = {} /\ Kept(c)
      /\ Inner \in FrameSet /\ Inner.ignore = InScope("ignore", c) /\ Inner.include = InScope("include", c)
      /\ Past \in Seq(FrameSet) /\ TodoOf(Past) = Todo \ {c} /\ FramesOk(Past)
  BY <1>1, Visited
<1> HIDE DEF c
<1>3. /\ F \in FrameSet /\ F.todo = children
      /\ F.ignore = InScope("ignore", c) \cup At(c, "ignore")
      /\ F.include = InScope("include", c) \cup At(c, "include")
  <2>1. /\ InScope("ignore", c) \subseteq rules /\ At(c, "ignore") \subseteq rules
        /\ InScope("include", c) \subseteq rules /\ At(c, "include") \subseteq rules
    BY DEF InScope, At
  <2>2. QED
    BY <1>2, <2>1 DEF Frame, FrameSet
<1> HIDE DEF F
<1>4. \A n \in children : /\ n \in Nodes /\ Up[n] = {c} \cup Up[c] /\ c \in Up[n]
                          /\ F.ignore = InScope("ignore", n) /\ F.include = InScope("include", n)
                          /\ Open(n)
  <2>1. ASSUME NEW n \in children
        PROVE  /\ n \in Nodes /\ Up[n] = {c} \cup Up[c] /\ c \in Up[n]
               /\ F.ignore = InScope("ignore", n) /\ F.include = InScope("include", n)
               /\ Open(n)
    <3>1. n \in Nodes /\ Up[n] = {c} \cup Up[c]
      BY UpIs
    <3>2. QED
      BY <1>2, <1>3, <3>1 DEF InScope, At, Open
  <2>2. QED
    BY <2>1
<1>5. \A n \in children : n \notin {c} \cup Up[c]
  <2>1. ASSUME NEW n \in children, n \in {c} \cup Up[c]
        PROVE  FALSE
    <3>1. n \in Nat /\ c \in Nat /\ c < n
      BY <1>2, TreeIs DEF Places
    <3>2. n = c \/ n < c
      BY <1>2, <2>1, UpFacts DEF Places
    <3>3. QED
      BY <3>1, <3>2
  <2>2. QED
    BY <2>1
<1>6. ASSUME NEW n \in Nodes, NEW e \in children, e \in {n} \cup Up[n]
      PROVE  c \in Up[n]
  <2>1. c \in Up[e]
    BY <1>4
  <2>2. e \in Up[n] => Up[e] \subseteq Up[n]
    BY UpFacts DEF Places
  <2>3. QED
    BY <1>6, <2>1, <2>2
<1>7. children \cap Todo = {}
  <2>1. ASSUME NEW e \in children, e \in Todo
        PROVE  FALSE
    <3>1. PICK i \in DOMAIN walk : e \in walk[i].todo
      BY <2>1 DEF Todo, TodoOf
    <3>2. Up[e] \cap Todo = {}
      BY <1>1, <3>1 DEF WalkInv, FramesOk, Todo
    <3>3. QED
      BY <1>2, <1>4, <3>2
  <2>2. QED
    BY <2>1
<1>8. /\ W \in Seq(FrameSet) /\ DOMAIN W = DOMAIN Past \cup {Len(Past) + 1}
      /\ Len(Past) + 1 \notin DOMAIN Past /\ W[Len(Past) + 1] = F
      /\ \A i \in DOMAIN Past : W[i] = Past[i]
  <2>1. Len(Past) \in Nat /\ DOMAIN Past = 1..Len(Past)
    BY <1>2
  <2>2. /\ W \in Seq(FrameSet) /\ Len(W) = Len(Past) + 1 /\ W[Len(Past) + 1] = F
        /\ \A i \in 1..Len(Past) : W[i] = Past[i]
    BY <1>2, <1>3, AppendProperties
  <2> HIDE DEF W
  <2>3. DOMAIN W = 1..Len(W)
    BY <2>2
  <2>4. 1..(Len(Past) + 1) = (1..Len(Past)) \cup {Len(Past) + 1} /\ Len(Past) + 1 \notin 1..Len(Past)
    BY <2>1
  <2>5. QED
    BY <2>1, <2>2, <2>3, <2>4
<1> HIDE DEF W
<1>9. TodoOf(W) = T
  BY <1>2, <1>3, <1>8 DEF TodoOf
<1>10. FramesOk(W)
  <2>1. ASSUME NEW i \in DOMAIN Past, NEW n \in Past[i].todo
        PROVE  /\ Past[i].ignore = InScope("ignore", n) /\ Past[i].include = InScope("include", n)
               /\ Open(n) /\ Up[n] \cap T = {}
    <3>1. /\ Past[i].ignore = InScope("ignore", n) /\ Past[i].include = InScope("include", n) /\ Open(n)
      BY <1>2 DEF FramesOk
    <3>2. n \in Todo \ {c}
      BY <1>2 DEF TodoOf
    <3>3. PICK j \in DOMAIN walk : n \in walk[j].todo
      BY <3>2 DEF Todo, TodoOf
    <3>4. Up[n] \cap Todo = {}
      BY <1>1, <3>3 DEF WalkInv, FramesOk, Todo
    <3>5. walk[j] \in FrameSet
      BY <1>1 DEF InputInv
    <3>6. n \in Nodes
      BY <3>3, <3>5 DEF FrameSet
    <3>7. Up[n] \cap children = {}
      BY <1>2, <1>6, <3>4, <3>6
    <3>8. QED
      BY <3>1, <3>4, <3>7
  <2>2. \A n \in children : Up[n] \cap T = {}
    BY <1>2, <1>4, <1>5
  <2>3. \A i \in DOMAIN Past : Past[i].todo \cap children = {}
    BY <1>2, <1>7 DEF TodoOf
  <2>4. \A i, j \in DOMAIN Past : i # j => Past[i].todo \cap Past[j].todo = {}
    BY <1>2 DEF FramesOk
  <2> DEFINE z == Len(Past) + 1
  <2> HIDE DEF z, children
  <2>5. /\ DOMAIN W = DOMAIN Past \cup {z} /\ z \notin DOMAIN Past /\ W[z] = F
        /\ \A i \in DOMAIN Past : W[i] = Past[i]
    BY <1>8 DEF z
  <2>6. \A i \in DOMAIN W : \A n \in W[i].todo :
          /\ W[i].ignore = InScope("ignore", n) /\ W[i].include = InScope("include", n)
          /\ Open(n) /\ Up[n] \cap T = {}
    <3> HIDE DEF T
    <3>1. ASSUME NEW i \in DOMAIN W, NEW n \in W[i].todo
          PROVE  /\ W[i].ignore = InScope("ignore", n) /\ W[i].include = InScope("include", n)
                 /\ Open(n) /\ Up[n] \cap T = {}
      <4>1. CASE i \in DOMAIN Past
        BY <2>1, <2>5, <3>1, <4>1
      <4>2. CASE i = z
        <5>1. W[i] = F /\ n \in children
          BY <1>3, <2>5, <3>1, <4>2
        <5>2. QED
          BY <1>4, <2>2, <5>1
      <4>3. QED
        BY <2>5, <3>1, <4>1, <4>2
    <3>2. QED
      BY <3>1
  <2>7. \A i, j \in DOMAIN W : i # j => W[i].todo \cap W[j].todo = {}
    BY <1>3, <2>3, <2>4, <2>5
  <2>8. QED
    BY <1>9, <2>6, <2>7 DEF FramesOk
<1>11. ~LeftOf(c, T) /\ Left(c) /\ Outcome(c) = <<>> /\ c \notin Files
  BY <1>1, <1>2, <1>5, TreeIs DEF LeftOf, Left, Outcome
<1>12. \A n \in Nodes \ {c} : LeftOf(n, T) <=> Left(n)
  <2>1. ASSUME NEW n \in Nodes \ {c}, c \in Up[n]
        PROVE  LeftOf(n, T) /\ Left(n)
    <3>1. PICK e \in {n} \cup Up[n] : e \in Nodes /\ Parent[e] = c
      BY <2>1, UpFacts DEF Places
    <3>2. QED
      BY <1>2, <2>1, <3>1 DEF LeftOf, Left
  <2>2. ASSUME NEW n \in Nodes \ {c}, c \notin Up[n]
        PROVE  LeftOf(n, T) <=> Left(n)
    <3>1. ({n} \cup Up[n]) \cap children = {}
      BY <1>6, <2>2
    <3>2. QED
      BY <2>2, <3>1 DEF LeftOf, Left
  <2>3. QED
    BY <2>1, <2>2
<1>13. skips[c] = <<>> /\ DOMAIN skips = Nodes /\ scanned \subseteq Files
  BY <1>1, <1>2, <1>11, LeftAlone DEF InputInv, SelectInv, VisitInv
<1> HIDE DEF T
<1>14. \A n \in Nodes : skips'[n] = IF LeftOf(n, T) THEN <<>> ELSE Outcome(n)
  BY <1>1, <1>11, <1>12, <1>13, LeftAlone
<1>15. \A n \in Files : n \in scanned' <=> ~LeftOf(n, T) /\ Open(n) /\ Reason(n) = "no"
  <2>1. Files \subseteq Nodes \ {c}
    BY <1>11, TreeIs
  <2>2. QED
    BY <1>1, <1>12, <2>1, LeftAlone
<1>16. QED
  BY <1>1, <1>8, <1>9, <1>10, <1>13, <1>14, <1>15, VisitKeeps

LEMMA LeaveKeeps ==
  ASSUME SelectInv, Leave
  PROVE  SelectInv'
<1> DEFINE k == Len(walk)
           W == SubSeq(walk, 1, k - 1)
<1>1. /\ InputInv /\ WalkInv /\ phase = "walk" /\ walk # <<>> /\ Inner.todo = {} /\ walk' = W
      /\ UNCHANGED <<kind, rules, mode, skips, scanned, entries, phase>>
  BY DEF SelectInv, Leave
<1>2. walk \in Seq(FrameSet) /\ k \in Nat /\ k # 0 /\ DOMAIN walk = 1..k /\ walk[k].todo = {}
  BY <1>1 DEF InputInv, Inner
<1>3. W \in Seq(FrameSet) /\ DOMAIN W = 1..(k - 1) /\ \A i \in 1..(k - 1) : W[i] = walk[i]
  <2>1. 1 \in 1..(k + 1) /\ k - 1 \in 0..k
    BY <1>2
  <2>2. /\ W \in Seq(FrameSet) /\ Len(W) = k - 1
        /\ \A i \in 1..(k - 1) : W[i] = walk[i]
    BY <1>2, <2>1, SubSeqProperties
  <2> HIDE DEF W
  <2>3. QED
    BY <2>2
<1> HIDE DEF W
<1>4. 1..k = (1..(k - 1)) \cup {k}
  BY <1>2
<1>5. TodoOf(W) = Todo
  BY <1>2, <1>3, <1>4 DEF TodoOf, Todo
<1>6. FramesOk(W)
  BY <1>1, <1>2, <1>3, <1>4, <1>5 DEF WalkInv, FramesOk, Todo
<1>7. \A n \in Nodes : skips'[n] = IF LeftOf(n, TodoOf(W)) THEN <<>> ELSE Outcome(n)
  BY <1>1, <1>5, LeftAlone DEF Left
<1>8. \A n \in Files : n \in scanned' <=> ~LeftOf(n, TodoOf(W)) /\ Open(n) /\ Reason(n) = "no"
  BY <1>1, <1>5, LeftAlone, TreeIs DEF Left
<1>9. DOMAIN skips' = Nodes /\ scanned' \subseteq Files
  BY <1>1 DEF SelectInv, InputInv, VisitInv
<1>10. QED
  BY <1>1, <1>3, <1>6, <1>7, <1>8, <1>9, VisitKeeps

\* Nothing is left when the shared files are decided, and what the walk kept
\* had no report.
LEMMA DecideKeeps ==
  ASSUME SelectInv, Decide
  PROVE  SelectInv'
<1>1. /\ InputInv /\ VisitInv /\ phase = "walk" /\ walk = <<>> /\ phase' = "done"
      /\ UNCHANGED <<kind, rules, mode, walk, scanned>>
  BY DEF SelectInv, Decide
<1>2. /\ \A layer, n : InScope(layer, n)' = InScope(layer, n)
      /\ \A n : Open(n)' <=> Open(n)
      /\ \A n : Reason(n)' = Reason(n)
      /\ \A n : Outcome(n)' = Outcome(n)
      /\ FrameSet' = FrameSet
  BY <1>1, SameInputs
<1>3. Todo = {} /\ Todo' = {}
  BY <1>1 DEF Todo, TodoOf
<1>4. \A n : ~Left(n) /\ ~Left(n)'
  BY <1>3 DEF Left, LeftOf
<1>5. /\ skips' = [n \in Nodes |-> IF n \in scanned THEN skips[n] \o Late(n) ELSE skips[n]]
      /\ entries' = {[file |-> n, language |-> LanguageOf(n, scanned)] : n \in {m \in scanned : Late(m) = <<>>}}
  BY DEF Decide
<1>6. \A n : Late(n)' = Late(n) /\ LanguageOf(n, scanned)' = LanguageOf(n, scanned)
  BY <1>1, SameDecision
<1>7. InputInv'
  BY <1>1, <1>2, <1>5 DEF InputInv
<1>8. WalkInv'
  BY <1>1 DEF WalkInv, FramesOk
<1>9. VisitInv'
  BY <1>1, <1>2, <1>4 DEF VisitInv
<1>10. \A n \in Nodes : skips'[n] = IF n \in scanned THEN Late(n) ELSE Outcome(n)
  <2>1. ASSUME NEW n \in Nodes, n \in scanned
        PROVE  skips'[n] = Late(n)
    <3>1. n \in Files /\ Open(n) /\ Reason(n) = "no" /\ n \notin Dirs
      BY <1>1, <2>1, TreeIs DEF VisitInv
    <3>2. skips[n] = <<>>
      BY <1>1, <1>4, <3>1 DEF VisitInv, Outcome, Unreported
    <3>3. <<>> \o Late(n) = Late(n)
      BY DEF Late
    <3>4. QED
      BY <1>5, <2>1, <3>2, <3>3
  <2>2. ASSUME NEW n \in Nodes, n \notin scanned
        PROVE  skips'[n] = Outcome(n)
    BY <1>1, <1>4, <1>5, <2>2 DEF VisitInv
  <2>3. QED
    BY <2>1, <2>2
<1>11. DoneInv'
  BY <1>1, <1>2, <1>5, <1>6, <1>10 DEF DoneInv
<1>12. QED
  BY <1>7, <1>8, <1>9, <1>11 DEF SelectInv

\* At first everything is left: the walk starts with the root's entries, and
\* one of them is on the way to every node.
LEMMA InitHolds == Init => SelectInv
<1> SUFFICES ASSUME Init PROVE SelectInv
  OBVIOUS
<1> DEFINE F == Frame(0, {}, {})
<1>1. /\ kind \in [Files -> Kinds] /\ mode \in Modes /\ rules \in {{}} \cup {{f[i] : i \in 1..MaxLines} : f \in [1..MaxLines -> Rules]}
      /\ walk = <<F>> /\ skips = [n \in Nodes |-> <<>>] /\ scanned = {} /\ phase = "walk"
  BY DEF Init
<1>2. rules \subseteq Rules
  <2>1. CASE rules # {}
    <3>1. PICK f \in [1..MaxLines -> Rules] : rules = {f[i] : i \in 1..MaxLines}
      BY <1>1, <2>1
    <3>2. QED
      BY <3>1
  <2>2. QED
    BY <2>1
<1>3. /\ F.todo = {n \in Nodes : Parent[n] = 0} /\ F.ignore = At(0, "ignore") /\ F.include = At(0, "include")
      /\ F \in FrameSet
  BY DEF Frame, FrameSet, At
<1> HIDE DEF F
<1>4. walk \in Seq(FrameSet) /\ DOMAIN walk = {1} /\ walk[1] = F
  BY <1>1, <1>3
<1>5. Todo = {n \in Nodes : Parent[n] = 0}
  BY <1>3, <1>4 DEF Todo, TodoOf
<1>6. \A n \in Nodes : Left(n)
  <2>1. ASSUME NEW n \in Nodes
        PROVE  Left(n)
    <3>1. n \in Places /\ 0 \in Up[n]
      BY UpFacts DEF Places
    <3>2. PICK e \in {n} \cup Up[n] : e \in Nodes /\ Parent[e] = 0
      BY <3>1, UpFacts
    <3>3. QED
      BY <1>5, <3>2 DEF Left, LeftOf
  <2>2. QED
    BY <2>1
<1>7. \A n \in Todo : Up[n] = {0}
  BY <1>5, UpIs
<1>8. InputInv
  BY <1>1, <1>2, <1>4 DEF InputInv
<1>9. WalkInv
  <2>1. ASSUME NEW n \in Todo
        PROVE  /\ F.ignore = InScope("ignore", n) /\ F.include = InScope("include", n)
               /\ Open(n) /\ Up[n] \cap Todo = {}
    BY <1>3, <1>5, <1>7, <2>1, TreeIs DEF InScope, At, Open
  <2>2. \A i \in DOMAIN walk : walk[i] = F /\ walk[i].todo = Todo
    BY <1>3, <1>4, <1>5
  <2>3. QED
    BY <1>4, <2>1, <2>2 DEF WalkInv, FramesOk, Todo
<1>10. VisitInv
  BY <1>1, <1>6, TreeIs DEF VisitInv
<1>11. DoneInv
  BY <1>1 DEF DoneInv
<1>12. QED
  BY <1>8, <1>9, <1>10, <1>11 DEF SelectInv

LEMMA StutterKeeps ==
  ASSUME SelectInv, UNCHANGED vars
  PROVE  SelectInv'
<1>1. UNCHANGED <<kind, rules, mode, walk, skips, scanned, entries, phase>>
  BY DEF vars
<1>2. /\ \A layer, n : InScope(layer, n)' = InScope(layer, n)
      /\ \A n : Open(n)' <=> Open(n)
      /\ \A n : Reason(n)' = Reason(n)
      /\ \A n : Outcome(n)' = Outcome(n)
      /\ FrameSet' = FrameSet
  BY <1>1, SameInputs
<1>3. \A n : Left(n)' <=> Left(n)
  BY <1>1 DEF Left, LeftOf, Todo, TodoOf
<1>4. \A n : Late(n)' = Late(n) /\ LanguageOf(n, scanned)' = LanguageOf(n, scanned)
  BY <1>1, SameDecision
<1>5. InputInv'
  BY <1>1, <1>2 DEF InputInv, SelectInv
<1>6. WalkInv'
  BY <1>1, <1>2 DEF WalkInv, FramesOk, TodoOf, SelectInv
<1>7. VisitInv'
  BY <1>1, <1>2, <1>3 DEF VisitInv, SelectInv
<1>8. DoneInv'
  BY <1>1, <1>2, <1>4 DEF DoneInv, SelectInv
<1>9. QED
  BY <1>5, <1>6, <1>7, <1>8 DEF SelectInv

LEMMA SelectInvHolds == Spec => []SelectInv
<1>1. SelectInv /\ [Next]_vars => SelectInv'
  <2> SUFFICES ASSUME SelectInv, [Next]_vars PROVE SelectInv'
    OBVIOUS
  <2>1. CASE VisitDir
    BY <2>1, PruneKeeps, EnterKeeps
  <2>2. CASE VisitFile
    BY <2>2, VisitFileKeeps
  <2>3. CASE Leave
    BY <2>3, LeaveKeeps
  <2>4. CASE Decide
    BY <2>4, DecideKeeps
  <2>5. CASE UNCHANGED vars
    BY <2>5, StutterKeeps
  <2>6. QED
    BY <2>1, <2>2, <2>3, <2>4, <2>5 DEF Next
<1>2. QED
  BY <1>1, InitHolds, PTL DEF Spec

-----------------------------------------------------------------------------
(* Every file is accounted for                                             *)

\* What the walk kept, in terms of the layers.
LEMMA ScannedIs ==
  ASSUME SelectInv, phase = "done"
  PROVE  /\ scanned = {n \in Files : Open(n) /\ Reason(n) = "no"}
         /\ \A n \in Nodes : skips[n] = IF n \in scanned THEN Late(n) ELSE Outcome(n)
         /\ entries = {[file |-> n, language |-> LanguageOf(n, scanned)] :
                         n \in {m \in scanned : Late(m) = <<>>}}
<1>1. Todo = {}
  BY DEF SelectInv, DoneInv, Todo, TodoOf
<1>2. \A n : ~Left(n)
  BY <1>1 DEF Left, LeftOf
<1>3. QED
  BY <1>2 DEF SelectInv, VisitInv, DoneInv

\* A file behind a directory that is not kept is behind exactly one that was
\* reported: the highest.
LEMMA OneAbove ==
  ASSUME SelectInv, phase = "done", NEW n \in Files
  PROVE  Cardinality({d \in Up[n] \ {0} : skips[d] # <<>>}) = IF Open(n) THEN 0 ELSE 1
<1> DEFINE above == {d \in Up[n] \ {0} : skips[d] # <<>>}
<1>1. n \in Places /\ Up[n] \subseteq Dirs /\ Up[n] \ {0} \subseteq Nodes /\ Up[n] \ {0} \in SUBSET Nat
  BY TreeIs, UpFacts DEF Places
<1>2. \A d \in Up[n] \ {0} : d \in above <=> Open(d) /\ ~Kept(d)
  <2>1. ASSUME NEW d \in Up[n] \ {0}
        PROVE  skips[d] # <<>> <=> Open(d) /\ ~Kept(d)
    <3>1. d \in Dirs /\ d \in Nodes /\ d \notin scanned
      BY <1>1, TreeIs, ScannedIs
    <3>2. skips[d] = Outcome(d)
      BY <3>1, ScannedIs
    <3>3. QED
      BY <3>1, <3>2 DEF Outcome
  <2>2. QED
    BY <2>1
<1>3. CASE Open(n)
  <2>1. above = {}
    BY <1>2, <1>3 DEF Open
  <2>2. QED
    BY <1>3, <2>1, FS_EmptySet
<1>4. CASE ~Open(n)
  <2> DEFINE dropped == {d \in Up[n] \ {0} : ~Kept(d)}
  <2>1. dropped # {} /\ dropped \in SUBSET Nat
    BY <1>1, <1>4 DEF Open
  <2>2. PICK d \in dropped : \A m \in dropped : d <= m
    BY <2>1, LeastNatural
  <2>3. d \in Places /\ d \in Up[n] /\ d # 0 /\ ~Kept(d) /\ d \in Nat
    BY <1>1, <2>2 DEF Places
  <2>4. Open(d)
    <3>1. ASSUME NEW m \in Up[d] \ {0}
          PROVE  Kept(m)
      <4>1. m \in Up[n] /\ m < d /\ m \in Nat
        BY <1>1, <2>3, <3>1, UpFacts
      <4>2. QED
        BY <2>2, <2>3, <3>1, <4>1
    <3>2. QED
      BY <3>1 DEF Open
  <2>5. ASSUME NEW e \in above
        PROVE  e = d
    <3>1. Open(e) /\ ~Kept(e) /\ e \in Up[n] /\ e # 0
      BY <1>2, <2>5
    <3>2. e = d \/ e \in Up[d] \/ d \in Up[e]
      BY <1>1, <2>3, <3>1, UpFacts
    <3>3. QED
      BY <2>3, <2>4, <3>1, <3>2 DEF Open
  <2>6. d \in above
    BY <1>2, <2>3, <2>4
  <2>7. above = {d}
    BY <2>5, <2>6
  <2>8. QED
    BY <1>4, <2>7, FS_Singleton
<1>5. QED
  BY <1>3, <1>4

\* Every file is parsed, or reported once with its reason, or below the one
\* directory reported for it, or could not be read, in trees of any shape and
\* with any number of ignore and include lines: no filter's early exit leaves a
\* file unaccounted for and none is reported by two of them.
THEOREM FilesAreAccounted == Spec => []AccountedOnce
<1>1. ASSUME SelectInv
      PROVE  AccountedOnce
  <2> SUFFICES ASSUME phase = "done", NEW n \in Files, kind[n] # "gone"
               PROVE  LET above == {d \in Up[n] \ {0} : skips[d] # <<>>}
                          parsed == {e \in entries : e.file = n}
                      IN  Cardinality(parsed) + Cardinality(above) + Len(skips[n]) = 1
    BY DEF AccountedOnce
  <2> DEFINE above == {d \in Up[n] \ {0} : skips[d] # <<>>}
             parsed == {e \in entries : e.file = n}
  <2>1. Cardinality(above) = IF Open(n) THEN 0 ELSE 1
    BY <1>1, OneAbove
  <2>2. n \in scanned <=> Open(n) /\ Reason(n) = "no"
    BY <1>1, ScannedIs
  <2>3. n \in Nodes /\ n \notin Dirs
    BY TreeIs
  <2>4. skips[n] = IF n \in scanned THEN Late(n) ELSE Outcome(n)
    BY <1>1, <2>3, ScannedIs
  <2>5. Cardinality(parsed) = IF n \in scanned /\ Late(n) = <<>> THEN 1 ELSE 0
    <3>1. entries = {[file |-> m, language |-> LanguageOf(m, scanned)] : m \in {m \in scanned : Late(m) = <<>>}}
      BY <1>1, ScannedIs
    <3>2. CASE n \in scanned /\ Late(n) = <<>>
      <4>1. parsed = {[file |-> n, language |-> LanguageOf(n, scanned)]}
        BY <3>1, <3>2
      <4>2. QED
        BY <3>2, <4>1, FS_Singleton
    <3>3. CASE ~ (n \in scanned /\ Late(n) = <<>>)
      <4>1. parsed = {}
        BY <3>1, <3>3
      <4>2. QED
        BY <3>3, <4>1, FS_EmptySet
    <3>4. QED
      BY <3>2, <3>3
  <2>6. Len(Late(n)) = IF Late(n) = <<>> THEN 0 ELSE 1
    BY DEF Late
  <2>7. Len(Outcome(n)) = IF Open(n) /\ Reason(n) # "no" THEN 1 ELSE 0
    <3>1. Reason(n) # "gone"
      BY DEF Reason
    <3>2. QED
      BY <2>3, <3>1 DEF Outcome, Unreported
  <2> HIDE DEF above, parsed
  <2>8. Cardinality(parsed) + Cardinality(above) + Len(skips[n]) = 1
    <3>1. Len(skips[n]) = IF n \in scanned THEN Len(Late(n)) ELSE Len(Outcome(n))
      BY <2>4
    <3>2. CASE n \in scanned
      BY <2>1, <2>2, <2>5, <2>6, <3>1, <3>2
    <3>3. CASE n \notin scanned
      BY <2>1, <2>2, <2>5, <2>7, <3>1, <3>3
    <3>4. QED
      BY <3>2, <3>3
  <2>9. QED
    BY <2>8 DEF above, parsed
<1>2. QED
  BY <1>1, SelectInvHolds, PTL

-----------------------------------------------------------------------------
(* What is parsed follows from the layers                                  *)

LEMMA CandidatesAre ==
  ASSUME InputInv, NEW n \in Files
  PROVE  /\ kind[n] \in {"c", "cpp", "h", "html", "txt", "big", "gone"}
         /\ Candidates(n) = <<>> <=> kind[n] = "txt"
         /\ Shared(n) <=> kind[n] = "h"
         /\ kind[n] # "txt" => Candidates(n)[1] \in {"c", "cpp", "html"}
         /\ kind[n] # "txt" => (Candidates(n)[1] = "html" <=> kind[n] = "html")
         /\ kind[n] # "txt" /\ ~Shared(n) => DOMAIN Candidates(n) = {1}
<1>1. kind[n] \in {"c", "cpp", "h", "html", "txt", "big", "gone"}
  BY TreeAssumption DEF InputInv
<1>2. CASE kind[n] = "h"
  <2>1. Candidates(n) = <<"c", "cpp">>
    BY <1>2 DEF Candidates
  <2>2. QED
    BY <1>2, <2>1 DEF Shared
<1>3. CASE kind[n] = "txt"
  <2>1. Candidates(n) = <<>>
    BY <1>3 DEF Candidates
  <2>2. QED
    BY <1>3, <2>1 DEF Shared
<1>4. CASE kind[n] \notin {"h", "txt"}
  <2>1. Candidates(n) = CASE kind[n] = "cpp" -> <<"cpp">> [] kind[n] = "html" -> <<"html">> [] OTHER -> <<"c">>
    BY <1>1, <1>4 DEF Candidates
  <2>2. PICK l \in {"c", "cpp", "html"} : Candidates(n) = <<l>> /\ (l = "html" <=> kind[n] = "html")
    BY <2>1
  <2>3. Len(<<l>>) = 1 /\ DOMAIN <<l>> = {1} /\ <<l>>[1] = l /\ <<l>> # <<>>
    OBVIOUS
  <2>4. QED
    BY <1>1, <1>4, <2>2, <2>3 DEF Shared
<1>5. QED
  BY <1>2, <1>3, <1>4

\* The unshared files' C or C++ languages in a set of files.
Spoken(S) == {Candidates(m)[1] : m \in {x \in S : ~Shared(x)}} \cap {"c", "cpp"}

LEMMA OwnerIs ==
  ASSUME NEW n, NEW S
  PROVE  /\ Owner(n, S) = LET near == Spoken({m \in S : Parent[m] = Parent[n]})
                          IN  IF Cardinality(near) = 1 THEN CHOOSE l \in near : TRUE
                              ELSE IF Cardinality(Spoken(S)) = 1 THEN CHOOSE l \in Spoken(S) : TRUE ELSE "cpp"
         /\ Owner(n, S) \in {"c", "cpp"}
<1> DEFINE near == Spoken({m \in S : Parent[m] = Parent[n]})
           all == Spoken(S)
           owner == IF Cardinality(near) = 1 THEN CHOOSE l \in near : TRUE
                    ELSE IF Cardinality(all) = 1 THEN CHOOSE l \in all : TRUE ELSE "cpp"
<1>1. Owner(n, S) = owner
  BY DEF Owner, Spoken
<1>2. near \subseteq {"c", "cpp"} /\ all \subseteq {"c", "cpp"}
  BY DEF Spoken
<1> HIDE DEF near, all
<1>3. Cardinality({}) # 1
  BY FS_EmptySet
<1>4. owner \in {"c", "cpp"}
  <2>1. \A N : Cardinality(N) = 1 => (CHOOSE l \in N : TRUE) \in N
    <3>1. ASSUME NEW N, Cardinality(N) = 1
          PROVE  (CHOOSE l \in N : TRUE) \in N
      <4>1. \E l \in N : TRUE
        BY <1>3, <3>1
      <4>2. QED
        BY <4>1
    <3>2. QED
      BY <3>1
  <2>2. QED
    BY <1>2, <2>1
<1>5. QED
  BY <1>1, <1>4 DEF near, all

\* Two bodies of evidence with the same C and C++ files give the same owners.
LEMMA SameEvidence ==
  ASSUME NEW S, NEW T, T \subseteq S,
         \A m \in S : ~Shared(m) /\ Candidates(m)[1] \in {"c", "cpp"} => m \in T
  PROVE  \A n : LanguageOf(n, T) = LanguageOf(n, S)
<1>1. ASSUME NEW P, NEW Q, P \subseteq Q, \A m \in Q : ~Shared(m) /\ Candidates(m)[1] \in {"c", "cpp"} => m \in P
      PROVE  Spoken(P) = Spoken(Q)
  <2>1. \A l : l \in Spoken(P) <=> l \in {"c", "cpp"} /\ \E m \in P : ~Shared(m) /\ Candidates(m)[1] = l
    BY DEF Spoken
  <2>2. \A l : l \in Spoken(Q) <=> l \in {"c", "cpp"} /\ \E m \in Q : ~Shared(m) /\ Candidates(m)[1] = l
    BY DEF Spoken
  <2>3. \A l : l \in Spoken(P) <=> l \in Spoken(Q)
    BY <1>1, <2>1, <2>2
  <2>4. QED
    BY <2>3 DEF Spoken
<1>2. ASSUME NEW n
      PROVE  Owner(n, T) = Owner(n, S)
  <2> DEFINE nearT == {m \in T : Parent[m] = Parent[n]}
             nearS == {m \in S : Parent[m] = Parent[n]}
  <2>1. nearT \subseteq nearS /\ \A m \in nearS : ~Shared(m) /\ Candidates(m)[1] \in {"c", "cpp"} => m \in nearT
    OBVIOUS
  <2>2. Spoken(T) = Spoken(S)
    BY <1>1
  <2> HIDE DEF nearT, nearS
  <2>3. Spoken(nearT) = Spoken(nearS)
    BY <1>1, <2>1
  <2>4. /\ Owner(n, T) = IF Cardinality(Spoken(nearT)) = 1 THEN CHOOSE l \in Spoken(nearT) : TRUE
                         ELSE IF Cardinality(Spoken(T)) = 1 THEN CHOOSE l \in Spoken(T) : TRUE ELSE "cpp"
        /\ Owner(n, S) = IF Cardinality(Spoken(nearS)) = 1 THEN CHOOSE l \in Spoken(nearS) : TRUE
                         ELSE IF Cardinality(Spoken(S)) = 1 THEN CHOOSE l \in Spoken(S) : TRUE ELSE "cpp"
    BY OwnerIs DEF nearT, nearS
  <2>5. QED
    BY <2>2, <2>3, <2>4
<1>3. QED
  BY <1>2 DEF LanguageOf

\* What the walk kept is what the layers allow of the run's languages.
LEMMA ScannedIsClassified ==
  ASSUME SelectInv, phase = "done"
  PROVE  scanned = {n \in Eligible : Classified(n)}
<1>1. ASSUME NEW n \in Files
      PROVE  Open(n) /\ Reason(n) = "no" <=> n \in Eligible /\ Classified(n)
  <2>1. n \in Nodes /\ n # 0 /\ (Reached(n) <=> Open(n) /\ Kept(n))
    BY TreeIs DEF Reached, Open
  <2>2. Classified(n) => kind[n] # "txt"
    BY CandidatesAre DEF Classified, SelectInv
  <2>3. n \in Eligible <=> /\ Reached(n) /\ (kind[n] = "html" => mode.templates)
                           /\ kind[n] \notin {"txt", "big", "gone"}
                           /\ \E i \in DOMAIN Candidates(n) : ~LangIgnored(n, Candidates(n)[i])
    BY DEF Eligible
  <2>4. Reason(n) = "no" <=> /\ Kept(n) /\ (kind[n] = "html" => mode.templates) /\ Classified(n)
                             /\ kind[n] \notin {"big", "gone"}
                             /\ \E i \in DOMAIN Candidates(n) : ~LangIgnored(n, Candidates(n)[i])
    BY DEF Reason
  <2>5. QED
    BY <2>1, <2>2, <2>3, <2>4
<1>2. Eligible \subseteq Files
  BY DEF Eligible
<1>3. QED
  BY <1>1, <1>2, ScannedIs

\* A language that may be parsed: its rules do not drop the file, and the run
\* asks for it.
Wanted(n, l) == ~LangIgnored(n, l) /\ (mode.languages = {} \/ l \in mode.languages)

LEMMA LateIs ==
  ASSUME SelectInv, phase = "done", NEW n \in scanned
  PROVE  Late(n) = <<>> <=> Wanted(n, LanguageOf(n, scanned))
<1>1. n \in Eligible /\ n \in Files /\ kind[n] # "txt"
  BY ScannedIsClassified DEF Eligible
<1>2. CASE Shared(n)
  BY <1>2 DEF Late, Wanted
<1>3. CASE ~Shared(n)
  <2>1. DOMAIN Candidates(n) = {1}
    BY <1>1, <1>3, CandidatesAre DEF SelectInv
  <2>2. ~LangIgnored(n, Candidates(n)[1])
    BY <1>1, <2>1 DEF Eligible
  <2>3. LanguageOf(n, scanned) = Candidates(n)[1]
    BY <1>3 DEF LanguageOf
  <2>4. QED
    BY <1>3, <2>2, <2>3 DEF Late, Wanted
<1>4. QED
  BY <1>2, <1>3

\* The files of a run, from the evidence of the whole repository.
LEMMA EvidenceIsComplete ==
  ASSUME SelectInv, phase = "done", NEW n \in Eligible
  PROVE  /\ n \in scanned /\ Wanted(n, LanguageOf(n, scanned)) <=> Wanted(n, LanguageOf(n, Eligible))
         /\ n \in scanned /\ Wanted(n, LanguageOf(n, scanned)) => LanguageOf(n, scanned) = LanguageOf(n, Eligible)
<1> DEFINE L == mode.languages
<1>1. L \subseteq {"c", "cpp", "html"}
  BY TreeAssumption DEF SelectInv, InputInv
<1>2. scanned = {m \in Eligible : Classified(m)}
  BY ScannedIsClassified
<1>3. \A m \in Eligible : /\ m \in Files /\ kind[m] # "txt" /\ Candidates(m) # <<>>
                          /\ Candidates(m)[1] \in {"c", "cpp", "html"}
                          /\ Candidates(m)[1] = "html" => kind[m] = "html" /\ ~Shared(m)
                          /\ kind[m] = "html" => Candidates(m)[1] = "html"
  BY CandidatesAre DEF Eligible, SelectInv
<1>4. \A m, S : Shared(m) => LanguageOf(m, S) \in {"c", "cpp"}
  BY OwnerIs DEF LanguageOf
<1>5. \A m, S : ~Shared(m) => LanguageOf(m, S) = Candidates(m)[1]
  BY DEF LanguageOf
<1>6. CASE L = {}
  <2>1. scanned = Eligible
    BY <1>2, <1>3, <1>6 DEF Classified
  <2>2. QED
    BY <2>1
<1>7. CASE L \cap {"c", "cpp"} # {}
  <2>1. L \cup Competing(L) = L \cup {"c", "cpp"}
    BY <1>7 DEF Competing
  <2>2. \A m \in Eligible : m \in scanned <=> Candidates(m)[1] \in L \cup {"c", "cpp"}
    BY <1>2, <1>3, <1>7, <2>1 DEF Classified
  <2>3. scanned \subseteq Eligible
    BY <1>2
  <2>4. LanguageOf(n, scanned) = LanguageOf(n, Eligible)
    BY <2>2, <2>3, SameEvidence
  <2>5. ASSUME n \notin scanned
        PROVE  ~Wanted(n, LanguageOf(n, Eligible))
    <3>1. Candidates(n)[1] = "html" /\ "html" \notin L /\ ~Shared(n)
      BY <1>3, <2>2, <2>5
    <3>2. QED
      BY <1>5, <1>7, <3>1 DEF Wanted
  <2>6. QED
    BY <2>4, <2>5
<1>8. CASE L = {"html"}
  <2>1. Competing(L) = {}
    BY <1>8 DEF Competing
  <2>2. n \in scanned <=> Candidates(n)[1] = "html"
    BY <1>2, <1>3, <1>8, <2>1 DEF Classified
  <2>3. CASE n \in scanned
    BY <1>3, <1>5, <2>2, <2>3
  <2>4. CASE n \notin scanned
    <3>1. LanguageOf(n, Eligible) # "html"
      BY <1>4, <1>5, <2>2, <2>4
    <3>2. QED
      BY <1>8, <2>4, <3>1 DEF Wanted
  <2>5. QED
    BY <2>3, <2>4
<1>9. QED
  BY <1>1, <1>6, <1>7, <1>8

\* What is parsed follows from the layers, whatever the walk did before, and a
\* run limited to some languages parses the files of the unlimited run in these
\* languages, as the same languages, in trees of any shape with any lines.
THEOREM SelectionIsFaithful == Spec => []SelectionIsDeclared
<1>1. ASSUME SelectInv
      PROVE  SelectionIsDeclared
  <2> SUFFICES ASSUME phase = "done"
               PROVE  entries = {[file |-> n, language |-> LanguageOf(n, Eligible)] :
                                   n \in {m \in Eligible : Wanted(m, LanguageOf(m, Eligible))}}
    BY DEF SelectionIsDeclared, Wanted
  <2> DEFINE kept == {m \in scanned : Late(m) = <<>>}
             declared == {m \in Eligible : Wanted(m, LanguageOf(m, Eligible))}
  <2>1. scanned \subseteq Eligible
    BY <1>1, ScannedIsClassified
  <2>2. \A m \in scanned : Late(m) = <<>> <=> Wanted(m, LanguageOf(m, scanned))
    BY <1>1, LateIs
  <2>3. kept = declared
    BY <1>1, <2>1, <2>2, EvidenceIsComplete
  <2>4. \A m \in kept : LanguageOf(m, scanned) = LanguageOf(m, Eligible)
    BY <1>1, <2>1, <2>2, EvidenceIsComplete
  <2>5. entries = {[file |-> n, language |-> LanguageOf(n, scanned)] : n \in kept}
    BY <1>1, ScannedIs
  <2> HIDE DEF kept, declared
  <2>6. entries = {[file |-> n, language |-> LanguageOf(n, Eligible)] : n \in declared}
    BY <2>3, <2>4, <2>5
  <2>7. QED
    BY <2>6 DEF declared
<1>2. QED
  BY <1>1, SelectInvHolds, PTL

-----------------------------------------------------------------------------
(* What a .repoinclude is worth                                            *)

\* A file that a .repoinclude above it names is skipped as ignored only when
\* the rules of a language cover it: no built-in, .gitignore or .repoignore
\* line overrides it, on any directory above it.
IncludedButForLanguages == \A n \in Files :
  Covers(InScope("include", n), n) =>
    \A i \in DOMAIN skips[n] : skips[n][i] = "ignored" => \E l \in {"c", "cpp"} : LangIgnored(n, l)

\* The rules of languages are the one cause of the run that violates
\* IncludedIsKept: wherever it is violated one of them covers the file.
THEOREM LanguagesAloneOverride == Spec => []IncludedButForLanguages
<1>1. ASSUME SelectInv
      PROVE  IncludedButForLanguages
  <2> SUFFICES ASSUME NEW n \in Files, Covers(InScope("include", n), n),
                      NEW i \in DOMAIN skips[n], skips[n][i] = "ignored"
               PROVE  \E l \in {"c", "cpp"} : LangIgnored(n, l)
    BY DEF IncludedButForLanguages
  <2>1. Kept(n) /\ n \in Nodes /\ n \notin Dirs
    BY TreeIs DEF Kept
  <2>2. \A l : LangIgnored(n, l) => l \in {"c", "cpp"}
    <3>1. ASSUME NEW l, LangIgnored(n, l)
          PROVE  l \in {"c", "cpp"}
      <4>1. PICK r \in rules : r.layer = "lang ignore" /\ r.lang = l
        BY <3>1 DEF LangIgnored, Covers, LangRules
      <4>2. r \in Rules
        BY <1>1 DEF SelectInv, InputInv
      <4>3. QED
        BY <4>1, <4>2 DEF Rules
    <3>2. QED
      BY <3>1
  <2>3. skips[n] \in {<<>>, Late(n), Outcome(n)}
    BY <1>1, <2>1 DEF SelectInv, InputInv, VisitInv, DoneInv
  <2>4. CASE skips[n] = <<>>
    BY <2>4
  <2>5. CASE skips[n] = Late(n)
    <3>1. LangIgnored(n, LanguageOf(n, scanned))
      BY <2>5 DEF Late
    <3>2. QED
      BY <2>2, <3>1
  <2>6. CASE skips[n] = Outcome(n)
    <3>1. Reason(n) = "ignored"
      BY <2>1, <2>6 DEF Outcome
    <3>2. Classified(n) /\ \A j \in DOMAIN Candidates(n) : LangIgnored(n, Candidates(n)[j])
      BY <2>1, <3>1 DEF Reason
    <3>3. 1 \in DOMAIN Candidates(n)
      BY <3>2 DEF Classified, Candidates
    <3>4. QED
      BY <2>2, <3>2, <3>3
  <2>7. QED
    BY <2>3, <2>4, <2>5, <2>6
<1>2. QED
  BY <1>1, SelectInvHolds, PTL

-----------------------------------------------------------------------------
(* How many steps the walk can take                                        *)

Unwalked == Cardinality({n \in Nodes : Left(n)})

\* Every step of the walk leaves fewer nodes to walk, or fewer directories to
\* return to, and the decision is the last step.
WalkRunsOut ==
  [][\/ phase = "walk" /\ phase' = "done"
     \/ /\ phase' = phase /\ {Unwalked, Unwalked', Len(walk), Len(walk')} \subseteq Nat
        /\ \/ Unwalked' < Unwalked
           \/ Unwalked' = Unwalked /\ Len(walk') < Len(walk)]_vars

\* A visit takes its entry from what is left and adds nothing that was not.
LEMMA VisitLeaves ==
  ASSUME SelectInv, VisitDir \/ VisitFile
  PROVE  /\ Current \in Nodes /\ Left(Current) /\ ~LeftOf(Current, Todo')
         /\ \A n \in Nodes : Left(n)' => Left(n)
<1> DEFINE c == Current
           children == {n \in Nodes : Parent[n] = c}
<1>1. InputInv /\ WalkInv /\ Step
  BY DEF SelectInv, VisitDir, VisitFile, Step
<1>2. /\ c \in Nodes /\ c \in Todo /\ Up[c] \cap Todo = {} /\ Inner \in FrameSet
      /\ Past \in Seq(FrameSet) /\ TodoOf(Past) = Todo \ {c}
  BY <1>1, Visited
<1>3. walk' \in {Past, Append(Past, Frame(c, Inner.ignore, Inner.include))}
  BY DEF VisitDir, VisitFile
<1> HIDE DEF c
<1>4. Todo' \subseteq (Todo \ {c}) \cup children
  <2>1. CASE walk' = Past
    BY <1>2, <2>1 DEF Todo
  <2>2. CASE walk' = Append(Past, Frame(c, Inner.ignore, Inner.include))
    <3> DEFINE F == Frame(c, Inner.ignore, Inner.include)
    <3>1. F.todo = children
      BY DEF Frame
    <3> HIDE DEF F
    <3>2. /\ DOMAIN walk' = 1..(Len(Past) + 1) /\ walk'[Len(Past) + 1] = F
          /\ DOMAIN Past = 1..Len(Past) /\ Len(Past) \in Nat
          /\ \A i \in 1..Len(Past) : walk'[i] = Past[i]
      BY <1>2, <2>2 DEF F
    <3>3. \A i \in DOMAIN walk' : i \in DOMAIN Past \/ i = Len(Past) + 1
      BY <3>2
    <3>4. \A i \in DOMAIN walk' : walk'[i].todo \subseteq TodoOf(Past) \cup children
      BY <3>1, <3>2, <3>3 DEF TodoOf
    <3>5. Todo' \subseteq TodoOf(Past) \cup children
      BY <3>4 DEF Todo, TodoOf
    <3>6. QED
      BY <1>2, <3>5
  <2>3. QED
    BY <1>3, <2>1, <2>2
<1>5. \A e \in children : e \notin {c} \cup Up[c]
  <2>1. ASSUME NEW e \in children, e \in {c} \cup Up[c]
        PROVE  FALSE
    <3>1. e \in Nat /\ c \in Nat /\ c < e
      BY <1>2, TreeIs DEF Places
    <3>2. e = c \/ e < c
      BY <1>2, <2>1, UpFacts DEF Places
    <3>3. QED
      BY <3>1, <3>2
  <2>2. QED
    BY <2>1
<1>6. Left(c) /\ ~LeftOf(c, Todo')
  BY <1>2, <1>4, <1>5 DEF Left, LeftOf
<1>7. ASSUME NEW n \in Nodes, Left(n)'
      PROVE  Left(n)
  <2>1. PICK e \in {n} \cup Up[n] : e \in Todo'
    BY <1>7 DEF Left, LeftOf
  <2>2. CASE e \in Todo
    BY <2>1, <2>2 DEF Left, LeftOf
  <2>3. CASE e \in children
    <3>1. c \in Up[e] /\ (e \in Up[n] => Up[e] \subseteq Up[n])
      BY <2>1, <2>3, UpFacts DEF Places
    <3>2. QED
      BY <1>2, <2>1, <3>1 DEF Left, LeftOf
  <2>4. QED
    BY <1>4, <2>1, <2>2, <2>3
<1>8. QED
  BY <1>2, <1>6, <1>7 DEF c

LEMMA ReturnLeaves ==
  ASSUME SelectInv, Leave
  PROVE  /\ Len(walk') = Len(walk) - 1 /\ Len(walk) \in Nat \ {0}
         /\ \A n \in Nodes : Left(n)' <=> Left(n)
<1> DEFINE k == Len(walk)
           W == SubSeq(walk, 1, k - 1)
<1>1. InputInv /\ walk # <<>> /\ Inner.todo = {} /\ walk' = W
  BY DEF SelectInv, Leave
<1>2. walk \in Seq(FrameSet) /\ k \in Nat /\ k # 0 /\ DOMAIN walk = 1..k /\ walk[k].todo = {}
  BY <1>1 DEF InputInv, Inner
<1>3. W \in Seq(FrameSet) /\ Len(W) = k - 1 /\ DOMAIN W = 1..(k - 1) /\ \A i \in 1..(k - 1) : W[i] = walk[i]
  <2>1. 1 \in 1..(k + 1) /\ k - 1 \in 0..k
    BY <1>2
  <2>2. W \in Seq(FrameSet) /\ Len(W) = k - 1 /\ \A i \in 1..(k - 1) : W[i] = walk[i]
    BY <1>2, <2>1, SubSeqProperties
  <2> HIDE DEF W
  <2>3. QED
    BY <2>2
<1> HIDE DEF W
<1>4. 1..k = (1..(k - 1)) \cup {k}
  BY <1>2
<1>5. Todo' = Todo
  BY <1>1, <1>2, <1>3, <1>4 DEF TodoOf, Todo
<1>6. QED
  BY <1>1, <1>2, <1>3, <1>5 DEF Left

\* The walk of a finite tree ends, whatever the lines include or ignore: a
\* directory that is pruned, entered or left is never come back to.
THEOREM WalkEnds ==
  ASSUME IsFiniteSet(Nodes)
  PROVE  Spec => WalkRunsOut
<1>1. ASSUME SelectInv, SelectInv', Next
      PROVE  \/ phase = "walk" /\ phase' = "done"
             \/ /\ phase' = phase /\ {Unwalked, Unwalked', Len(walk), Len(walk')} \subseteq Nat
                /\ \/ Unwalked' < Unwalked
                   \/ Unwalked' = Unwalked /\ Len(walk') < Len(walk)
  <2> DEFINE before == {n \in Nodes : Left(n)}
             after == {n \in Nodes : Left(n)'}
  <2>1. IsFiniteSet(before) /\ IsFiniteSet(after) /\ Cardinality(before) \in Nat /\ Cardinality(after) \in Nat
    BY FS_Subset, FS_CardinalityType
  <2>2. Unwalked = Cardinality(before) /\ Unwalked' = Cardinality(after)
    BY DEF Unwalked
  <2>3. Len(walk) \in Nat /\ Len(walk') \in Nat
    BY <1>1 DEF SelectInv, InputInv
  <2>4. CASE VisitDir \/ VisitFile
    <3>1. phase' = phase
      BY <2>4 DEF VisitDir, VisitFile, Step
    <3>2. after \subseteq before \ {Current} /\ Current \in before
      <4>1. \A n : Left(n)' <=> LeftOf(n, Todo')
        BY DEF Left
      <4>2. QED
        BY <1>1, <2>4, <4>1, VisitLeaves
    <3>3. Cardinality(before \ {Current}) = Cardinality(before) - 1 /\ IsFiniteSet(before \ {Current})
      BY <2>1, <3>2, FS_RemoveElement
    <3>4. Cardinality(after) <= Cardinality(before \ {Current})
      BY <3>2, <3>3, FS_Subset
    <3> HIDE DEF before, after
    <3>5. QED
      BY <2>1, <2>2, <2>3, <3>1, <3>3, <3>4
  <2>5. CASE Leave
    <3>1. phase' = phase /\ after = before /\ Len(walk') < Len(walk)
      BY <1>1, <2>5, <2>3, ReturnLeaves DEF Leave
    <3>2. QED
      BY <2>1, <2>2, <2>3, <3>1
  <2>6. CASE Decide
    BY <2>6 DEF Decide
  <2>7. QED
    BY <1>1, <2>4, <2>5, <2>6 DEF Next
<1>2. QED
  BY <1>1, SelectInvHolds, PTL DEF Spec, WalkRunsOut
=============================================================================
