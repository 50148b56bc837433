-------------------------- MODULE OracleSchemaProofs --------------------------
(***************************************************************************)
(* Theorems about OracleSchema for scripts of any length over any schemas, *)
(* columns and constraint names.  Types hold of every script; what the     *)
(* reader reports of the structure, the key flags and the annotations is   *)
(* right for every script that keeps from the forms of statement that each *)
(* theorem names.                                                          *)
(***************************************************************************)
EXTENDS OracleSchema, FiniteSetTheorems, SequenceTheorems, WellFoundedInduction, TLAPS

-----------------------------------------------------------------------------
(* Types                                                                   *)

Texts == 0..MaxNotes
ReadColumn == [name : Columns, nullable : BOOLEAN, pk : BOOLEAN, fk : BOOLEAN]
HeldColumn == [name : Columns, nullable : BOOLEAN]
Record == [schema : Written, cols : Seq(ReadColumn), cons : SUBSET Constraint, hasPk : BOOLEAN]
HeldConstraint == [name : ConNames \cup {Anonymous}, type : {"PK", "FK"},
                   cols : SUBSET Columns, ref : Schemas, refCols : SUBSET Columns]
HeldTable == [live : BOOLEAN, cols : Seq(HeldColumn), cons : SUBSET HeldConstraint,
              idx : SUBSET SUBSET Columns, notes : [Columns \cup {Table} -> Texts]]
Remark == [on : Written, col : Columns \cup {Table}, text : Texts]

TypeInv ==
  /\ tables \in Seq(Record) /\ comments \in Seq(Remark) /\ db \in [Schemas -> HeldTable]
  /\ indexes \subseteq [on : Written, cols : SUBSET Columns] /\ IsFiniteSet(indexes)
  /\ length \in 0..MaxStatements

-----------------------------------------------------------------------------
(* What the reader holds of a table is what the database has               *)

\* A table record against a table of the database.
Read(cols) == [k \in DOMAIN cols |-> [name |-> cols[k].name, nullable |-> cols[k].nullable]]
Mirrors(t, h) == Read(t.cols) = h.cols /\ {Held(c) : c \in t.cons} = h.cons

\* The key flags of a table record say what its constraint list says.
Keyed(cons, x, type) == \E d \in cons : d.type = type /\ x \in d.cols

Flagged(t) ==
  /\ \A k \in DOMAIN t.cols : /\ t.cols[k].pk = Keyed(t.cons, t.cols[k].name, "PK")
                              /\ t.cols[k].fk = Keyed(t.cons, t.cols[k].name, "FK")
  /\ t.hasPk = (\E d \in t.cons : d.type = "PK")

\* Constraints are on columns of their table.
OnColumns(t) == \A c \in t.cons : c.cols \subseteq Names(t.cols)

Of(s) == {i \in DOMAIN tables : Denotes(tables[i].schema) = s}

\* The records of one table are written with the same schema.
SameWriting == \A i, j \in DOMAIN tables :
  Denotes(tables[i].schema) = Denotes(tables[j].schema) => tables[i].schema = tables[j].schema

\* What holds of every script: a live table has records, and the database's
\* own constraints are on its columns.
Placed ==
  /\ SameWriting
  /\ \A s \in Schemas : db[s].live => Of(s) # {} /\ OnColumns(db[s])

BaseInv == TypeInv /\ Placed

\* The last record of a table mirrors it while it lives.
StructInv == \A s \in Schemas : db[s].live => Mirrors(tables[Last(Of(s))], db[s])

\* Flags are those of the constraint list, which is on the columns, and the
\* last record of a live table has the names of its columns.
FlagInv ==
  /\ \A i \in DOMAIN tables : Flagged(tables[i]) /\ OnColumns(tables[i])
  /\ \A s \in Schemas : db[s].live => Names(tables[Last(Of(s))].cols) = Names(db[s].cols)

-----------------------------------------------------------------------------
(* What is noted of a table                                                *)

Remarks(s, col) == {k \in DOMAIN comments : Denotes(comments[k].on) = s /\ comments[k].col = col}
Remarked(s, col) == IF Remarks(s, col) = {} THEN NoText ELSE comments[Last(Remarks(s, col))].text
Indexed(s) == {x.cols : x \in {y \in indexes : Denotes(y.on) = s}}

\* Comments and indexes are on tables the script declared; the database has
\* them as long as it is the first table of its schema.
NoteInv ==
  /\ \A k \in DOMAIN comments : Of(Denotes(comments[k].on)) # {} /\ comments[k].text # NoText
  /\ \A x \in indexes : Of(Denotes(x.on)) # {}
  /\ Resolved
  /\ \A s \in Schemas : db[s].live =>
       \A c \in Columns \ Names(db[s].cols) : db[s].notes[c] = NoText
  /\ \A s \in Schemas : db[s].live /\ Cardinality(Of(s)) = 1 =>
       /\ \A c \in Names(db[s].cols) \cup {Table} : Remarked(s, c) = db[s].notes[c]
       /\ Indexed(s) = db[s].idx

-----------------------------------------------------------------------------
(* Numbers and places                                                      *)
\* Every non-empty set of natural numbers has a least element.
LEMMA LeastNatural ==
  ASSUME NEW S \in SUBSET Nat, S # {}
  PROVE  \E m \in S : \A n \in S : m <= n
<1>1. PICK m \in S : \A n \in S : ~ (<<n, m>> \in OpToRel(<, Nat))
  BY WFMin, NatLessThanWellFounded
<1>2. \A n \in S : ~ (n < m)
  BY <1>1 DEF OpToRel
<1>3. QED
  BY <1>2

LEMMA LastIsGreatest ==
  ASSUME NEW n \in Nat, NEW S \in SUBSET (1..n)
  PROVE  /\ S = {} => Last(S) = 0
         /\ S # {} => Last(S) \in S /\ \A j \in S : j <= Last(S)
<1>1. CASE S = {}
  BY <1>1 DEF Last
<1>2. CASE S # {}
  <2> DEFINE gaps == {n - j : j \in S}
  <2>1. gaps \in SUBSET Nat /\ gaps # {}
    BY <1>2
  <2>2. PICK gap \in gaps : \A g \in gaps : gap <= g
    BY <2>1, LeastNatural
  <2>3. PICK i \in S : gap = n - i
    BY <2>2
  <2>4. \A j \in S : j <= i
    <3>1. ASSUME NEW j \in S PROVE j <= i
      <4>1. n - i <= n - j
        BY <2>2, <2>3
      <4>2. QED
        BY <4>1
    <3>2. QED
      BY <3>1
  <2>5. \E m \in S \cup {0} : \A j \in S : j <= m
    BY <2>4
  <2>6. Last(S) \in S \cup {0} /\ \A j \in S : j <= Last(S)
    BY <2>5 DEF Last
  <2>7. QED
    BY <1>2, <2>6
<1>3. QED
  BY <1>1, <1>2

Upto(K, i) == {j \in K : j <= i}

\* The k-th member of a set of places exists, and every member is a k-th one.
LEMMA Enumerated ==
  ASSUME NEW n \in Nat, NEW K \in SUBSET (1..n)
  PROVE  /\ IsFiniteSet(K) /\ Cardinality(K) \in Nat
         /\ \A k \in 1..Cardinality(K) : \E i \in K : Cardinality(Upto(K, i)) = k
         /\ \A i \in K : Cardinality(Upto(K, i)) \in 1..Cardinality(K)
         /\ \A i, j \in K : Cardinality(Upto(K, i)) = Cardinality(Upto(K, j)) => i = j
<1>1. IsFiniteSet(K) /\ Cardinality(K) \in Nat
  <2>1. IsFiniteSet(1..n)
    BY FS_Interval
  <2>2. QED
    BY <2>1, FS_Subset, FS_CardinalityType
<1>0. \A j \in K : j \in Int /\ j >= 1 /\ j <= n
  OBVIOUS
<1>2. \A i : IsFiniteSet(Upto(K, i)) /\ Cardinality(Upto(K, i)) \in Nat
             /\ Cardinality(Upto(K, i)) <= Cardinality(K)
  <2>1. \A i : Upto(K, i) \subseteq K
    BY DEF Upto
  <2>2. QED
    BY <1>1, <2>1, FS_Subset, FS_CardinalityType
<1>3. ASSUME NEW i \in K
      PROVE  Cardinality(Upto(K, i)) = Cardinality(Upto(K, i - 1)) + 1
  <2>1. Upto(K, i) = Upto(K, i - 1) \cup {i} /\ i \notin Upto(K, i - 1)
    <3>1. \A j \in K : j <= i <=> (j <= i - 1 \/ j = i)
      BY <1>0
    <3>2. ~(i <= i - 1)
      BY <1>0
    <3>3. QED
      BY <3>1, <3>2 DEF Upto
  <2>2. QED
    BY <1>2, <2>1, FS_AddElement
<1>4. ASSUME NEW i \in Int, i \notin K
      PROVE  Upto(K, i) = Upto(K, i - 1)
  <2>1. \A j \in K : j <= i <=> j <= i - 1
    BY <1>0, <1>4
  <2>2. QED
    BY <2>1 DEF Upto
<1>5. ASSUME NEW k \in 1..Cardinality(K)
      PROVE  \E i \in K : Cardinality(Upto(K, i)) = k
  <2> DEFINE big == {i \in 0..n : Cardinality(Upto(K, i)) >= k}
  <2>1. Upto(K, n) = K /\ Upto(K, 0) = {}
    <3>1. \A j \in K : j <= n /\ ~(j <= 0)
      BY <1>0
    <3>2. QED
      BY <3>1 DEF Upto
  <2>2. n \in big /\ big \in SUBSET Nat
    BY <1>1, <2>1
  <2>3. PICK m \in big : \A i \in big : m <= i
    BY <2>2, LeastNatural
  <2>4. Cardinality(Upto(K, 0)) = 0
    BY <2>1, FS_EmptySet
  <2>5. m \in 1..n /\ Cardinality(Upto(K, m)) >= k
    BY <2>3, <2>4
  <2>6. Cardinality(Upto(K, m - 1)) < k
    <3>1. m - 1 \in 0..n /\ ~(m <= m - 1)
      BY <2>5
    <3>2. QED
      BY <1>1, <1>2, <2>3, <3>1
  <2>7. m \in K
    BY <1>2, <1>4, <2>5, <2>6
  <2>8. QED
    BY <1>2, <1>3, <2>5, <2>6, <2>7
<1>6. ASSUME NEW i \in K
      PROVE  Cardinality(Upto(K, i)) \in 1..Cardinality(K)
  BY <1>1, <1>2, <1>3
<1>7. ASSUME NEW i \in K, NEW j \in K, i < j
      PROVE  Cardinality(Upto(K, i)) < Cardinality(Upto(K, j))
  <2>1. Upto(K, i) \subseteq Upto(K, j - 1)
    <3>1. \A k \in K : k <= i => k <= j - 1
      BY <1>0, <1>7
    <3>2. QED
      BY <3>1 DEF Upto
  <2>2. Cardinality(Upto(K, i)) <= Cardinality(Upto(K, j - 1))
    BY <1>2, <2>1, FS_Subset
  <2>3. QED
    BY <1>2, <1>3, <2>2
<1>8. ASSUME NEW i \in K, NEW j \in K, Cardinality(Upto(K, i)) = Cardinality(Upto(K, j))
      PROVE  i = j
  <2>1. ~(i < j) /\ ~(j < i)
    BY <1>2, <1>7, <1>8
  <2>2. QED
    BY <2>1
<1>9. QED
  BY <1>1, <1>5, <1>6, <1>8

\* Dropping the columns of a name drops that name and no other, and what is
\* read of the columns does not depend on their flags.
LEMMA WithoutIs ==
  ASSUME NEW S, NEW cols \in Seq(S), NEW name
  PROVE  /\ Without(cols, name) \in Seq(S)
         /\ Names(Without(cols, name)) = Names(cols) \ {name}
         /\ Read(Without(cols, name)) = Without(Read(cols), name)
<1> DEFINE K(q) == {i \in DOMAIN q : q[i].name # name}
           nth(k, q) == CHOOSE i \in K(q) : Cardinality(Upto(K(q), i)) = k
<1>1. /\ Len(cols) \in Nat /\ DOMAIN cols = 1..Len(cols) /\ K(cols) \in SUBSET (1..Len(cols))
      /\ \A i \in DOMAIN cols : i \in K(cols) <=> cols[i].name # name
  OBVIOUS
<1>2. \A q : Without(q, name) = [k \in 1..Cardinality(K(q)) |-> q[nth(k, q)]]
  BY DEF Without, Upto
<1>3. DOMAIN Read(cols) = DOMAIN cols /\ \A i \in DOMAIN cols : Read(cols)[i].name = cols[i].name
  BY DEF Read
<1>4. K(Read(cols)) = K(cols)
  BY <1>3
<1> HIDE DEF K
<1>5. Cardinality(K(cols)) \in Nat
  BY <1>1, Enumerated
<1>6. ASSUME NEW k \in 1..Cardinality(K(cols))
      PROVE  nth(k, cols) \in K(cols) /\ Cardinality(Upto(K(cols), nth(k, cols))) = k
  <2>1. \E i \in K(cols) : Cardinality(Upto(K(cols), i)) = k
    BY <1>1, Enumerated
  <2>2. QED
    BY <2>1
<1>7. ASSUME NEW i \in K(cols)
      PROVE  \E k \in 1..Cardinality(K(cols)) : nth(k, cols) = i
  <2> DEFINE k == Cardinality(Upto(K(cols), i))
  <2>1. k \in 1..Cardinality(K(cols))
    BY <1>1, Enumerated
  <2>2. nth(k, cols) \in K(cols) /\ Cardinality(Upto(K(cols), nth(k, cols))) = k
    BY <1>6, <2>1
  <2>3. nth(k, cols) = i
    BY <1>1, <2>2, Enumerated
  <2>4. QED
    BY <2>1, <2>3
<1> HIDE DEF nth
<1>8. Without(cols, name) \in Seq(S)
  <2>1. \A k \in 1..Cardinality(K(cols)) : cols[nth(k, cols)] \in S
    BY <1>1, <1>6
  <2>2. QED
    BY <1>2, <1>5, <2>1
<1>9. Names(Without(cols, name)) = Names(cols) \ {name}
  <2>1. DOMAIN Without(cols, name) = 1..Cardinality(K(cols))
    BY <1>2
  <2>2. \A k \in 1..Cardinality(K(cols)) : Without(cols, name)[k] = cols[nth(k, cols)]
    BY <1>2
  <2>3. Names(Without(cols, name)) \subseteq Names(cols) \ {name}
    BY <1>1, <1>6, <2>1, <2>2 DEF Names
  <2>4. ASSUME NEW c \in Names(cols), c # name
        PROVE  c \in Names(Without(cols, name))
    <3>1. PICK i \in DOMAIN cols : cols[i].name = c
      BY DEF Names
    <3>2. PICK k \in 1..Cardinality(K(cols)) : nth(k, cols) = i
      BY <1>1, <1>7, <2>4, <3>1
    <3>3. QED
      BY <2>1, <2>2, <3>1, <3>2 DEF Names
  <2>5. QED
    BY <2>3, <2>4
<1>10. Read(Without(cols, name)) = Without(Read(cols), name)
  <2>1. \A k : nth(k, Read(cols)) = nth(k, cols)
    BY <1>4 DEF nth
  <2>2. Without(Read(cols), name) = [k \in 1..Cardinality(K(cols)) |-> Read(cols)[nth(k, cols)]]
    BY <1>2, <1>4, <2>1
  <2>3. \A k \in 1..Cardinality(K(cols)) :
           Read(cols)[nth(k, cols)] = [name |-> cols[nth(k, cols)].name, nullable |-> cols[nth(k, cols)].nullable]
    BY <1>1, <1>6 DEF Read
  <2>4. Read(Without(cols, name)) =
          [k \in 1..Cardinality(K(cols)) |->
             [name |-> cols[nth(k, cols)].name, nullable |-> cols[nth(k, cols)].nullable]]
    BY <1>2 DEF Read
  <2>5. QED
    BY <2>2, <2>3, <2>4
<1>11. QED
  BY <1>8, <1>9, <1>10

-----------------------------------------------------------------------------
(* The lookup                                                              *)

LEMMA DenotesType == \A w \in Written : Denotes(w) \in Schemas
BY SchemaAssumption DEF Written, Denotes

LEMMA OfIsPlaces ==
  ASSUME TypeInv, NEW s
  PROVE  /\ Len(tables) \in Nat /\ DOMAIN tables = 1..Len(tables) /\ Of(s) \in SUBSET (1..Len(tables))
         /\ \A i \in DOMAIN tables : tables[i] \in Record
         /\ Of(s) # {} => Last(Of(s)) \in Of(s) /\ \A j \in Of(s) : j <= Last(Of(s))
<1>1. Len(tables) \in Nat /\ DOMAIN tables = 1..Len(tables) /\ \A i \in DOMAIN tables : tables[i] \in Record
  BY DEF TypeInv
<1>2. Of(s) \in SUBSET (1..Len(tables))
  BY <1>1 DEF Of
<1>3. QED
  BY <1>1, <1>2, LastIsGreatest

\* Of a table that is declared the reader finds the last record, however it
\* is named, or nothing.
LEMMA FindsLast ==
  ASSUME TypeInv, SameWriting, NEW w \in Written, Of(Denotes(w)) # {}
  PROVE  w # Unqualified \/ Find(w) # 0 => Find(w) = Last(Of(Denotes(w)))
<1> DEFINE in(s) == {i \in DOMAIN tables : tables[i].schema = s}
<1>1. PICK e \in DOMAIN tables : Denotes(tables[e].schema) = Denotes(w)
  BY DEF Of
<1>2. \A i \in DOMAIN tables : tables[i].schema \in Written
  BY OfIsPlaces DEF Record
<1>3. \A i \in DOMAIN tables : i \in Of(Denotes(w)) <=> tables[i].schema = tables[e].schema
  BY <1>1 DEF Of, SameWriting
<1>4. Of(Denotes(w)) = in(tables[e].schema)
  BY <1>3 DEF Of
<1>5. CASE w # Unqualified
  <2>1. Denotes(w) = w /\ w \in Schemas
    BY <1>5 DEF Denotes, Written
  <2>2. Find(w) = Last(IF in(w) # {} THEN in(w) ELSE in(Unqualified))
    BY <1>5 DEF Find
  <2>3. CASE in(w) # {}
    <3>1. PICK i \in DOMAIN tables : tables[i].schema = w
      BY <2>3
    <3>2. tables[e].schema = w
      BY <1>3, <2>1, <3>1 DEF Of
    <3>3. QED
      BY <1>4, <2>2, <2>3, <3>2
  <2>4. CASE in(w) = {}
    <3>1. tables[e].schema # w
      BY <2>4
    <3>2. tables[e].schema = Unqualified
      BY <1>1, <2>1, <3>1 DEF Denotes
    <3>3. QED
      BY <1>4, <2>2, <2>4, <3>2
  <2>5. QED
    BY <2>3, <2>4
<1>6. CASE w = Unqualified /\ Find(w) # 0
  <2> DEFINE oneSchema == \A i, j \in DOMAIN tables : tables[i].schema = tables[j].schema
  <2>1. Find(w) = IF oneSchema THEN Last(DOMAIN tables) ELSE Last(in(Unqualified))
    BY <1>6 DEF Find
  <2>2. CASE oneSchema
    <3>1. in(tables[e].schema) = DOMAIN tables
      BY <2>2
    <3>2. QED
      BY <1>4, <2>1, <2>2, <3>1
  <2>3. CASE ~oneSchema
    <3>1. in(Unqualified) # {}
      <4>1. Last({}) = 0
        BY LastIsGreatest
      <4>2. QED
        BY <1>6, <2>1, <2>3, <4>1
    <3>2. PICK i \in DOMAIN tables : tables[i].schema = Unqualified
      BY <3>1
    <3>3. i \in Of(Denotes(w))
      BY <1>6, <3>2 DEF Of
    <3>4. tables[e].schema = Unqualified
      BY <1>3, <3>2, <3>3
    <3>5. QED
      BY <1>4, <2>1, <2>3, <3>4
  <2>4. QED
    BY <2>2, <2>3
<1>7. QED
  BY <1>5, <1>6

\* Find only reads the schemas the records are written with.
SchemasStay ==
  /\ DOMAIN tables' = DOMAIN tables
  /\ \A i \in DOMAIN tables : tables'[i].schema = tables[i].schema

LEMMA SameSchemas ==
  ASSUME SchemasStay
  PROVE  /\ \A s : Of(s)' = Of(s)
         /\ \A w : Find(w)' = Find(w)
         /\ SameWriting => SameWriting'
<1> USE DEF SchemasStay
<1>1. \A s : Of(s)' = Of(s)
  BY DEF Of
<1>2. ASSUME NEW w
      PROVE  Find(w)' = Find(w)
  <2> DEFINE in(s) == {i \in DOMAIN tables : tables[i].schema = s}
             oneSchema == \A i, j \in DOMAIN tables : tables[i].schema = tables[j].schema
  <2>1. (\A s : in(s)' = in(s)) /\ (oneSchema' <=> oneSchema)
    OBVIOUS
  <2>2. Find(w) = IF w # Unqualified THEN Last(IF in(w) # {} THEN in(w) ELSE in(Unqualified))
                  ELSE IF oneSchema THEN Last(DOMAIN tables) ELSE Last(in(Unqualified))
    BY DEF Find
  <2>3. Find(w)' = IF w # Unqualified THEN Last(IF in(w)' # {} THEN in(w)' ELSE in(Unqualified)')
                   ELSE IF oneSchema' THEN Last(DOMAIN tables') ELSE Last(in(Unqualified)')
    BY DEF Find
  <2> HIDE DEF in, oneSchema
  <2>4. QED
    BY <2>1, <2>2, <2>3
<1>3. SameWriting => SameWriting'
  BY DEF SameWriting
<1>4. QED
  BY <1>1, <1>2, <1>3

-----------------------------------------------------------------------------
(* Table records                                                           *)

LEMMA HeldIs ==
  ASSUME NEW c \in Constraint
  PROVE  /\ Held(c) \in HeldConstraint /\ Held(c).ref = Denotes(c.ref)
         /\ Held(c).name = c.name /\ Held(c).type = c.type /\ Held(c).cols = c.cols
         /\ c.name \in ConNames \cup {Anonymous} /\ c.type \in {"PK", "FK"}
         /\ c.cols \in SUBSET Columns /\ c.ref \in Written
         /\ c.refCols \in SUBSET Columns /\ Held(c).refCols = c.refCols
<1>1. c.ref \in Written
  BY DEF Constraint, Written
<1>2. Denotes(c.ref) \in Schemas
  BY <1>1, DenotesType
<1>3. QED
  BY <1>1, <1>2 DEF Held, HeldConstraint, Constraint

LEMMA KeyedColumns ==
  ASSUME NEW cons, NEW x, NEW type
  PROVE  (x \in ColsOf(cons, type)) = Keyed(cons, x, type)
<1> DEFINE A == x \in ColsOf(cons, type)
<1>1. A <=> Keyed(cons, x, type)
  BY DEF ColsOf, Keyed
<1>2. A \in BOOLEAN /\ Keyed(cons, x, type) \in BOOLEAN
  BY DEF Keyed
<1> HIDE DEF A
<1>3. A = Keyed(cons, x, type)
  BY <1>1, <1>2
<1>4. QED
  BY <1>3 DEF A

LEMMA RecomputeIs ==
  ASSUME NEW t \in Record
  PROVE  /\ Recompute(t) \in Record /\ Recompute(t).schema = t.schema /\ Recompute(t).cons = t.cons
         /\ Read(Recompute(t).cols) = Read(t.cols) /\ Flagged(Recompute(t))
<1> DEFINE f(c) == [c EXCEPT !.pk = c.name \in ColsOf(t.cons, "PK"), !.fk = c.name \in ColsOf(t.cons, "FK")]
           new == [i \in DOMAIN t.cols |-> f(t.cols[i])]
           has == \E c \in t.cons : c.type = "PK"
<1>1. Recompute(t) = [t EXCEPT !.cols = new, !.hasPk = has]
  BY DEF Recompute
<1>2. t.cols \in Seq(ReadColumn) /\ Len(t.cols) \in Nat /\ DOMAIN t.cols = 1..Len(t.cols)
  BY DEF Record
<1>3. ASSUME NEW c \in ReadColumn
      PROVE  /\ f(c) \in ReadColumn /\ f(c).name = c.name /\ f(c).nullable = c.nullable
             /\ f(c).pk = (c.name \in ColsOf(t.cons, "PK")) /\ f(c).fk = (c.name \in ColsOf(t.cons, "FK"))
  <2> DEFINE p == c.name \in ColsOf(t.cons, "PK")
             q == c.name \in ColsOf(t.cons, "FK")
  <2>1. p \in BOOLEAN /\ q \in BOOLEAN /\ f(c) = [c EXCEPT !.pk = p, !.fk = q]
    OBVIOUS
  <2> HIDE DEF p, q, f
  <2>2. f(c) \in ReadColumn /\ f(c).name = c.name /\ f(c).nullable = c.nullable /\ f(c).pk = p /\ f(c).fk = q
    BY <2>1 DEF ReadColumn
  <2>3. QED
    BY <2>2 DEF p, q
<1> HIDE DEF f
<1>4. new \in Seq(ReadColumn) /\ DOMAIN new = DOMAIN t.cols
  BY <1>2, <1>3
<1>5. /\ Recompute(t).cols = new /\ Recompute(t).hasPk = has
      /\ Recompute(t).schema = t.schema /\ Recompute(t).cons = t.cons /\ Recompute(t) \in Record
  BY <1>1, <1>4 DEF Record
<1>6. Read(new) = Read(t.cols)
  BY <1>2, <1>3 DEF Read
<1>7. Flagged(Recompute(t))
  <2>1. ASSUME NEW k \in DOMAIN new
        PROVE  /\ new[k].pk = Keyed(t.cons, new[k].name, "PK")
               /\ new[k].fk = Keyed(t.cons, new[k].name, "FK")
    <3>1. /\ new[k].pk = (t.cols[k].name \in ColsOf(t.cons, "PK"))
          /\ new[k].fk = (t.cols[k].name \in ColsOf(t.cons, "FK")) /\ new[k].name = t.cols[k].name
      BY <1>2, <1>3
    <3>2. QED
      BY <3>1, KeyedColumns
  <2> HIDE DEF new
  <2>2. QED
    BY <1>5, <2>1 DEF Flagged
<1>8. QED
  BY <1>5, <1>6, <1>7

LEMMA NamesType ==
  ASSUME NEW q \in Seq(HeldColumn)
  PROVE  Names(q) \subseteq Columns
<1>1. \A i \in DOMAIN q : q[i] \in HeldColumn
  OBVIOUS
<1>2. QED
  BY <1>1 DEF Names, HeldColumn

LEMMA AppendedName ==
  ASSUME NEW S, NEW q \in Seq(S), NEW e \in S
  PROVE  Append(q, e) \in Seq(S) /\ Names(Append(q, e)) = Names(q) \cup {e.name}
<1> DEFINE r == Append(q, e)
<1>1. /\ Len(q) \in Nat /\ Len(r) = Len(q) + 1 /\ r \in Seq(S)
      /\ \A i \in 1..Len(q) : r[i] = q[i]
      /\ r[Len(q) + 1] = e
  BY AppendProperties
<1> HIDE DEF r
<1>2. DOMAIN r = (1..Len(q)) \cup {Len(q) + 1} /\ DOMAIN q = 1..Len(q)
  BY <1>1
<1>3. Names(r) = Names(q) \cup {e.name}
  BY <1>1, <1>2 DEF Names
<1>4. QED
  BY <1>1, <1>3 DEF r

LEMMA AppendedColumn ==
  ASSUME NEW q \in Seq(ReadColumn), NEW e \in ReadColumn
  PROVE  /\ Append(q, e) \in Seq(ReadColumn)
         /\ Read(Append(q, e)) = Append(Read(q), [name |-> e.name, nullable |-> e.nullable])
<1> DEFINE v(c) == [name |-> c.name, nullable |-> c.nullable]
           r == Append(q, e)
           p == Append(Read(q), v(e))
<1>1. /\ Len(q) \in Nat /\ Len(r) = Len(q) + 1 /\ r \in Seq(ReadColumn)
      /\ \A i \in 1..Len(q) : r[i] = q[i]
      /\ r[Len(q) + 1] = e
  BY AppendProperties
<1>2. \A c \in ReadColumn : v(c) \in HeldColumn
  BY DEF ReadColumn, HeldColumn
<1> HIDE DEF v
<1>3. Read(q) = [k \in 1..Len(q) |-> v(q[k])] /\ Read(q) \in Seq(HeldColumn) /\ Len(Read(q)) = Len(q)
  <2>1. Read(q) = [k \in 1..Len(q) |-> v(q[k])]
    BY DEF Read, v
  <2>2. \A k \in 1..Len(q) : q[k] \in ReadColumn
    OBVIOUS
  <2>3. QED
    BY <1>1, <1>2, <2>1, <2>2
<1>4. /\ p \in Seq(HeldColumn) /\ Len(p) = Len(q) + 1
      /\ \A i \in 1..Len(q) : p[i] = Read(q)[i]
      /\ p[Len(q) + 1] = v(e)
  BY <1>2, <1>3, AppendProperties
<1> HIDE DEF r, p
<1>5. \A k \in 1..(Len(q) + 1) : v(r[k]) = p[k]
  <2>1. \A k \in 1..(Len(q) + 1) : k \in 1..Len(q) \/ k = Len(q) + 1
    BY <1>1
  <2>2. QED
    BY <1>1, <1>3, <1>4, <2>1
<1>6. p = [k \in 1..(Len(q) + 1) |-> p[k]]
  BY <1>4
<1>7. Read(r) = [k \in 1..(Len(q) + 1) |-> v(r[k])]
  BY <1>1 DEF Read, v
<1>8. Read(r) = p
  BY <1>5, <1>6, <1>7
<1>9. QED
  BY <1>1, <1>8 DEF r, p, v

\* What the reader drops or finds by name, type or columns of constraints,
\* it drops or finds of the database's.
LEMMA MirrorNames ==
  ASSUME NEW t \in Record, NEW h, Mirrors(t, h)
  PROVE  Names(t.cols) = Names(h.cols) /\ h.cons = {Held(c) : c \in t.cons}
BY DEF Mirrors, Read, Names, Record

-----------------------------------------------------------------------------
(* Statements that change one table                                        *)

SetNullable(q, name, v) ==
  [i \in DOMAIN q |-> [q[i] EXCEPT !.nullable = IF q[i].name = name THEN v ELSE @]]

LEMMA SetNullableIs ==
  ASSUME NEW q \in Seq(ReadColumn), NEW name, NEW v \in BOOLEAN
  PROVE  /\ SetNullable(q, name, v) \in Seq(ReadColumn) /\ DOMAIN SetNullable(q, name, v) = DOMAIN q
         /\ \A k \in DOMAIN q : /\ SetNullable(q, name, v)[k].name = q[k].name
                                /\ SetNullable(q, name, v)[k].pk = q[k].pk
                                /\ SetNullable(q, name, v)[k].fk = q[k].fk
         /\ Read(SetNullable(q, name, v)) = SetNullable(Read(q), name, v)
         /\ Read(SetNullable(q, name, v)) \in Seq(HeldColumn)
         /\ Names(Read(SetNullable(q, name, v))) = Names(Read(q))
<1> DEFINE f(c) == [c EXCEPT !.nullable = IF c.name = name THEN v ELSE @]
           view(c) == [name |-> c.name, nullable |-> c.nullable]
           new == SetNullable(q, name, v)
<1>1. ASSUME NEW c \in ReadColumn
      PROVE  /\ f(c) \in ReadColumn /\ f(c).name = c.name /\ f(c).pk = c.pk /\ f(c).fk = c.fk
             /\ view(f(c)) = f(view(c)) /\ view(f(c)) \in HeldColumn /\ view(c).name = c.name
  BY DEF ReadColumn, HeldColumn
<1>2. /\ SetNullable(q, name, v) = [i \in DOMAIN q |-> f(q[i])]
      /\ SetNullable(Read(q), name, v) = [i \in DOMAIN q |-> f(view(q[i]))]
      /\ Read(q) = [i \in DOMAIN q |-> view(q[i])]
      /\ Read(new) = [i \in DOMAIN new |-> view(new[i])]
  BY DEF SetNullable, Read
<1> HIDE DEF f, view
<1>3. \A i \in DOMAIN q : q[i] \in ReadColumn
  OBVIOUS
<1>4. new = [i \in DOMAIN q |-> f(q[i])]
  BY <1>2
<1> HIDE DEF new
<1>5. new \in Seq(ReadColumn) /\ DOMAIN new = DOMAIN q
  BY <1>1, <1>3, <1>4
<1>6. Read(new) = [i \in DOMAIN q |-> view(f(q[i]))]
  BY <1>2, <1>4
<1>7. Read(new) = SetNullable(Read(q), name, v) /\ Read(new) \in Seq(HeldColumn)
  BY <1>1, <1>2, <1>3, <1>6
<1>8. Names(Read(new)) = Names(Read(q))
  <2>1. \A i \in DOMAIN q : Read(new)[i].name = Read(q)[i].name
    <3>1. ASSUME NEW i \in DOMAIN q
          PROVE  view(f(q[i])).name = view(q[i]).name
      BY <1>1, <1>3 DEF view
    <3>2. QED
      BY <1>2, <1>6, <3>1
  <2>2. DOMAIN Read(new) = DOMAIN q /\ DOMAIN Read(q) = DOMAIN q
    BY <1>2, <1>6
  <2>3. QED
    BY <2>1, <2>2 DEF Names
<1>9. \A k \in DOMAIN q : new[k].name = q[k].name /\ new[k].pk = q[k].pk /\ new[k].fk = q[k].fk
  BY <1>1, <1>3, <1>4
<1>10. QED
  BY <1>5, <1>7, <1>8, <1>9 DEF new

Moved(set, old, new) == {Swap(c, old, new) : c \in set}
MovedColumns(q, old, new) == [i \in DOMAIN q |-> [q[i] EXCEPT !.name = Swap(@, old, new)]]
MovedConstraints(set, old, new) == {[c EXCEPT !.cols = Moved(@, old, new)] : c \in set}

LEMMA MovedIs ==
  ASSUME NEW set \in SUBSET Columns, NEW old \in Columns, NEW new \in Columns
  PROVE  /\ Moved(set, old, new) \in SUBSET Columns
         /\ old \in set /\ new \notin set => Moved(set, old, new) = (set \ {old}) \cup {new}
         /\ old \notin set => Moved(set, old, new) = set
         /\ new \notin set => \A x \in Columns \ {new} :
              x \in set <=> Swap(x, old, new) \in Moved(set, old, new)
BY DEF Moved, Swap

LEMMA MovedColumnsIs ==
  ASSUME NEW q \in Seq(ReadColumn), NEW old \in Columns, NEW new \in Columns
  PROVE  /\ MovedColumns(q, old, new) \in Seq(ReadColumn) /\ DOMAIN MovedColumns(q, old, new) = DOMAIN q
         /\ \A k \in DOMAIN q : /\ MovedColumns(q, old, new)[k].name = Swap(q[k].name, old, new)
                                /\ MovedColumns(q, old, new)[k].pk = q[k].pk
                                /\ MovedColumns(q, old, new)[k].fk = q[k].fk
         /\ Read(MovedColumns(q, old, new)) = MovedColumns(Read(q), old, new)
         /\ Read(MovedColumns(q, old, new)) \in Seq(HeldColumn)
         /\ Names(Read(MovedColumns(q, old, new))) = Moved(Names(Read(q)), old, new)
<1> DEFINE f(c) == [c EXCEPT !.name = Swap(@, old, new)]
           view(c) == [name |-> c.name, nullable |-> c.nullable]
           moved == MovedColumns(q, old, new)
<1>1. ASSUME NEW c \in ReadColumn
      PROVE  /\ f(c) \in ReadColumn /\ f(c).name = Swap(c.name, old, new) /\ f(c).pk = c.pk /\ f(c).fk = c.fk
             /\ view(f(c)) = f(view(c)) /\ view(f(c)) \in HeldColumn /\ view(c).name = c.name
  <2>1. Swap(c.name, old, new) \in Columns
    BY DEF Swap, ReadColumn
  <2>2. QED
    BY <2>1 DEF ReadColumn, HeldColumn
<1>2. /\ MovedColumns(q, old, new) = [i \in DOMAIN q |-> f(q[i])]
      /\ MovedColumns(Read(q), old, new) = [i \in DOMAIN q |-> f(view(q[i]))]
      /\ Read(q) = [i \in DOMAIN q |-> view(q[i])]
      /\ Read(moved) = [i \in DOMAIN moved |-> view(moved[i])]
  BY DEF MovedColumns, Read
<1> HIDE DEF f, view
<1>3. \A i \in DOMAIN q : q[i] \in ReadColumn
  OBVIOUS
<1>4. moved = [i \in DOMAIN q |-> f(q[i])]
  BY <1>2
<1> HIDE DEF moved
<1>5. moved \in Seq(ReadColumn) /\ DOMAIN moved = DOMAIN q
  BY <1>1, <1>3, <1>4
<1>6. Read(moved) = [i \in DOMAIN q |-> view(f(q[i]))]
  BY <1>2, <1>4
<1>7. Read(moved) = MovedColumns(Read(q), old, new) /\ Read(moved) \in Seq(HeldColumn)
  BY <1>1, <1>2, <1>3, <1>6
<1>8. Names(Read(moved)) = Moved(Names(Read(q)), old, new)
  <2>1. \A i \in DOMAIN q : Read(moved)[i].name = Swap(Read(q)[i].name, old, new)
    <3>1. ASSUME NEW i \in DOMAIN q
          PROVE  view(f(q[i])).name = Swap(view(q[i]).name, old, new)
      BY <1>1, <1>3 DEF view
    <3>2. QED
      BY <1>2, <1>6, <3>1
  <2>2. DOMAIN Read(moved) = DOMAIN q /\ DOMAIN Read(q) = DOMAIN q
    BY <1>2, <1>6
  <2>3. QED
    BY <2>1, <2>2 DEF Names, Moved
<1>9. \A k \in DOMAIN q : /\ moved[k].name = Swap(q[k].name, old, new)
                          /\ moved[k].pk = q[k].pk /\ moved[k].fk = q[k].fk
  BY <1>1, <1>3, <1>4
<1>10. QED
  BY <1>5, <1>7, <1>8, <1>9 DEF moved

LEMMA MovedConstraintIs ==
  ASSUME NEW c \in Constraint, NEW old \in Columns, NEW new \in Columns
  PROVE  LET d == [c EXCEPT !.cols = Moved(@, old, new)]
         IN  /\ d \in Constraint /\ d.type = c.type /\ d.cols = Moved(c.cols, old, new)
             /\ Held(d) = [Held(c) EXCEPT !.cols = Moved(@, old, new)]
             /\ Held(d) \in HeldConstraint /\ Held(d).cols = Moved(c.cols, old, new)
<1> DEFINE m == Moved(c.cols, old, new)
           d == [c EXCEPT !.cols = m]
<1>1. m \in SUBSET Columns
  BY HeldIs, MovedIs
<1> HIDE DEF m
<1>2. d \in Constraint /\ d.type = c.type /\ d.cols = m /\ d.ref = c.ref
  BY <1>1 DEF Constraint
<1>3. Held(d) = [d EXCEPT !.ref = Denotes(c.ref)] /\ Held(c) = [c EXCEPT !.ref = Denotes(c.ref)]
  BY <1>2 DEF Held
<1>4. Held(d) = [Held(c) EXCEPT !.cols = m]
  BY <1>3 DEF Constraint
<1> HIDE DEF d
<1>5. Held(d) \in HeldConstraint /\ Held(d).cols = m
  BY <1>2, HeldIs
<1>6. [Held(c) EXCEPT !.cols = Moved(@, old, new)] = [Held(c) EXCEPT !.cols = m]
  BY HeldIs DEF m
<1>7. QED
  BY <1>2, <1>4, <1>5, <1>6 DEF m, d

HeldOf(cons) == {Held(c) : c \in cons}
HasType(cons, type) == \E d \in cons : d.type = type

LEMMA MovedConstraintsIs ==
  ASSUME NEW cons \in SUBSET Constraint, NEW old \in Columns, NEW new \in Columns,
         \A c \in cons : new \notin c.cols, NEW held, held = HeldOf(cons)
  PROVE  /\ MovedConstraints(cons, old, new) \in SUBSET Constraint
         /\ HeldOf(MovedConstraints(cons, old, new)) = MovedConstraints(held, old, new)
         /\ MovedConstraints(held, old, new) \in SUBSET HeldConstraint
         /\ \A d \in MovedConstraints(held, old, new) : \E c \in cons : d.cols = Moved(c.cols, old, new)
         /\ \A type : \A x \in Columns \ {new} :
              Keyed(MovedConstraints(cons, old, new), Swap(x, old, new), type) = Keyed(cons, x, type)
         /\ \A type : HasType(MovedConstraints(cons, old, new), type) <=> HasType(cons, type)
<1> DEFINE f(c) == [c EXCEPT !.cols = Moved(@, old, new)]
           moved == MovedConstraints(cons, old, new)
<1>1. \A c \in cons : /\ f(c) \in Constraint /\ f(c).type = c.type /\ f(c).cols = Moved(c.cols, old, new)
                      /\ Held(f(c)) = f(Held(c)) /\ Held(f(c)) \in HeldConstraint
                      /\ Held(f(c)).cols = Moved(c.cols, old, new)
  BY MovedConstraintIs
<1>2. moved = {f(c) : c \in cons}
  BY DEF MovedConstraints
<1>3. MovedConstraints(held, old, new) = {f(Held(c)) : c \in cons}
  BY DEF MovedConstraints, HeldOf
<1> HIDE DEF f, moved
<1>4. HeldOf(moved) = {f(Held(c)) : c \in cons}
  BY <1>1, <1>2 DEF HeldOf
<1>5. ASSUME NEW type, NEW x \in Columns \ {new}
      PROVE  Keyed(moved, Swap(x, old, new), type) = Keyed(cons, x, type)
  <2>1. \A c \in cons : x \in c.cols <=> Swap(x, old, new) \in f(c).cols
    <3>1. ASSUME NEW c \in cons
          PROVE  x \in c.cols <=> Swap(x, old, new) \in f(c).cols
      <4>1. c.cols \in SUBSET Columns /\ new \notin c.cols
        BY HeldIs
      <4>2. QED
        BY <1>1, <4>1, MovedIs
    <3>2. QED
      BY <3>1
  <2>2. Keyed(moved, Swap(x, old, new), type) <=> Keyed(cons, x, type)
    BY <1>1, <1>2, <2>1 DEF Keyed
  <2>3. Keyed(moved, Swap(x, old, new), type) \in BOOLEAN /\ Keyed(cons, x, type) \in BOOLEAN
    BY DEF Keyed
  <2>4. QED
    BY <2>2, <2>3
<1>6. \A type : HasType(moved, type) <=> HasType(cons, type)
  BY <1>1, <1>2 DEF HasType
<1>7. QED
  BY <1>1, <1>2, <1>3, <1>4, <1>5, <1>6 DEF moved

LEMMA MovedHeldOf ==
  ASSUME NEW cons \in SUBSET Constraint, NEW old \in Columns, NEW new \in Columns,
         \A c \in cons : new \notin c.cols
  PROVE  HeldOf(MovedConstraints(cons, old, new)) = MovedConstraints(HeldOf(cons), old, new)
<1> DEFINE held == HeldOf(cons)
<1>1. held = HeldOf(cons)
  OBVIOUS
<1> HIDE DEF held
<1>2. HeldOf(MovedConstraints(cons, old, new)) = MovedConstraints(held, old, new)
  BY <1>1, MovedConstraintsIs
<1>3. QED
  BY <1>1, <1>2

\* The same of the columns and constraints of the database.
LEMMA SetHeldIs ==
  ASSUME NEW q \in Seq(HeldColumn), NEW name, NEW v \in BOOLEAN
  PROVE  SetNullable(q, name, v) \in Seq(HeldColumn) /\ Names(SetNullable(q, name, v)) = Names(q)
<1> DEFINE f(c) == [c EXCEPT !.nullable = IF c.name = name THEN v ELSE @]
           new == SetNullable(q, name, v)
<1>1. \A c \in HeldColumn : f(c) \in HeldColumn /\ f(c).name = c.name
  BY DEF HeldColumn
<1>2. new = [i \in DOMAIN q |-> f(q[i])] /\ \A i \in DOMAIN q : q[i] \in HeldColumn
  BY DEF SetNullable
<1> HIDE DEF f, new
<1>3. new \in Seq(HeldColumn) /\ DOMAIN new = DOMAIN q /\ \A i \in DOMAIN q : new[i].name = q[i].name
  BY <1>1, <1>2
<1>4. QED
  BY <1>3 DEF Names, new

LEMMA MovedHeldIs ==
  ASSUME NEW q \in Seq(HeldColumn), NEW old \in Columns, NEW new \in Columns
  PROVE  /\ MovedColumns(q, old, new) \in Seq(HeldColumn)
         /\ Names(MovedColumns(q, old, new)) = Moved(Names(q), old, new)
<1> DEFINE f(c) == [c EXCEPT !.name = Swap(@, old, new)]
           moved == MovedColumns(q, old, new)
<1>1. ASSUME NEW c \in HeldColumn PROVE f(c) \in HeldColumn /\ f(c).name = Swap(c.name, old, new)
  <2>1. Swap(c.name, old, new) \in Columns
    BY DEF Swap, HeldColumn
  <2>2. QED
    BY <2>1 DEF HeldColumn
<1>2. moved = [i \in DOMAIN q |-> f(q[i])] /\ \A i \in DOMAIN q : q[i] \in HeldColumn
  BY DEF MovedColumns
<1> HIDE DEF f, moved
<1>3. /\ moved \in Seq(HeldColumn) /\ DOMAIN moved = DOMAIN q
      /\ \A i \in DOMAIN q : moved[i].name = Swap(q[i].name, old, new)
  BY <1>1, <1>2
<1>4. QED
  BY <1>3 DEF Names, Moved, moved

LEMMA MovedHeldConstraintsIs ==
  ASSUME NEW cons \in SUBSET HeldConstraint, NEW old \in Columns, NEW new \in Columns
  PROVE  /\ MovedConstraints(cons, old, new) \in SUBSET HeldConstraint
         /\ \A d \in MovedConstraints(cons, old, new) : \E c \in cons : d.cols = Moved(c.cols, old, new)
<1>1. ASSUME NEW c \in cons
      PROVE  LET d == [c EXCEPT !.cols = Moved(@, old, new)]
             IN  d \in HeldConstraint /\ d.cols = Moved(c.cols, old, new)
  <2>1. c.cols \in SUBSET Columns
    BY DEF HeldConstraint
  <2>2. Moved(c.cols, old, new) \in SUBSET Columns
    BY <2>1, MovedIs
  <2>3. QED
    BY <2>2 DEF HeldConstraint
<1>2. QED
  BY <1>1 DEF MovedConstraints

Listed(cols) == [i \in DOMAIN cols |-> [name |-> cols[i], nullable |-> TRUE]]
OwnKey(pk) == [name |-> Anonymous, type |-> "PK", cols |-> pk,
                ref |-> Unqualified, refCols |-> {}]
NewRecord(w, cols, pk) ==
  Recompute([schema |-> w, cols |-> [i \in DOMAIN cols |-> Column(cols[i], TRUE)],
             cons |-> IF pk = {} THEN {} ELSE {OwnKey(pk)}, hasPk |-> FALSE])
NewTable(cols, t) ==
  [NoTable EXCEPT !.live = TRUE, !.cols = Listed(cols), !.cons = {Held(c) : c \in t.cons}]

LEMMA BlankTable ==
  /\ NoText \in Texts /\ NoTable \in HeldTable /\ ~NoTable.live /\ NoTable.idx = {}
  /\ \A c \in Columns \cup {Table} : NoTable.notes[c] = NoText
<1>0. MaxNotes \in Nat
  BY SchemaAssumption
<1>1. NoText \in Texts
  BY <1>0 DEF NoText, Texts
<1>2. QED
  BY <1>1 DEF NoTable, HeldTable

\* What the reader and the database make of the statement.
LEMMA CreatedIs ==
  ASSUME NEW w \in Written, NEW cols \in Seq(Columns), NEW pk \in SUBSET Columns,
         \A c \in pk : \E i \in DOMAIN cols : cols[i] = c,
         NEW t, t = NewRecord(w, cols, pk), NEW h, h = NewTable(cols, t)
  PROVE  /\ t \in Record /\ t.schema = w /\ Flagged(t)
         /\ h \in HeldTable /\ h.live /\ h.idx = {} /\ \A c \in Columns \cup {Table} : h.notes[c] = NoText
         /\ Mirrors(t, h) /\ OnColumns(h)
<1> DEFINE rcols == [i \in DOMAIN cols |-> Column(cols[i], TRUE)]
           cons == IF pk = {} THEN {} ELSE {OwnKey(pk)}
           r == [schema |-> w, cols |-> rcols, cons |-> cons, hasPk |-> FALSE]
           hcons == {Held(c) : c \in t.cons}
<1>1. cons \in SUBSET Constraint /\ \A c \in cons : c.cols = pk
  BY DEF Constraint, OwnKey
<1>2. \A i \in DOMAIN cols : cols[i] \in Columns
  OBVIOUS
<1>3. \A c \in Columns : /\ Column(c, TRUE) \in ReadColumn /\ Column(c, TRUE).name = c
                         /\ Column(c, TRUE).nullable = TRUE /\ [name |-> c, nullable |-> TRUE] \in HeldColumn
  BY DEF Column, ReadColumn, HeldColumn
<1>4. rcols \in Seq(ReadColumn) /\ Listed(cols) \in Seq(HeldColumn)
  <2>1. Len(cols) \in Nat /\ DOMAIN cols = 1..Len(cols)
    OBVIOUS
  <2>2. \A i \in 1..Len(cols) : Column(cols[i], TRUE) \in ReadColumn
    BY <1>2, <1>3, <2>1
  <2>3. \A i \in 1..Len(cols) : [name |-> cols[i], nullable |-> TRUE] \in HeldColumn
    BY <1>2, <1>3, <2>1
  <2>4. rcols \in Seq(ReadColumn)
    <3> DEFINE e(i) == Column(cols[i], TRUE)
    <3>1. (\A i \in 1..Len(cols) : e(i) \in ReadColumn) /\ rcols = [i \in 1..Len(cols) |-> e(i)]
      BY <2>1, <2>2
    <3> HIDE DEF e, rcols
    <3>2. QED
      BY <2>1, <3>1
  <2>5. Listed(cols) \in Seq(HeldColumn)
    BY <2>1, <2>3 DEF Listed
  <2>6. QED
    BY <2>4, <2>5
<1>5. Read(rcols) = Listed(cols)
  BY <1>2, <1>3 DEF Read, Listed
<1>6. Names(Listed(cols)) = {cols[i] : i \in DOMAIN cols}
  BY DEF Names, Listed
<1> HIDE DEF rcols
<1>7. r \in Record /\ r.schema = w /\ r.cols = rcols /\ r.cons = cons
  BY <1>1, <1>4 DEF Record
<1>8. t = Recompute(r)
  BY DEF NewRecord, rcols
<1> HIDE DEF r
<1>9. t \in Record /\ t.schema = w /\ Flagged(t) /\ t.cons = cons /\ Read(t.cols) = Listed(cols)
  BY <1>5, <1>7, <1>8, RecomputeIs
<1>10. hcons \in SUBSET HeldConstraint /\ \A d \in hcons : d.cols = pk
  <2>1. \A c \in t.cons : c \in Constraint /\ c.cols = pk
    BY <1>1, <1>9
  <2>2. QED
    BY <2>1, HeldIs
<1>11. \A d \in hcons : d.cols \subseteq Names(Listed(cols))
  BY <1>6, <1>10
<1>12. /\ NoTable \in HeldTable /\ NoTable.idx = {}
       /\ \A c \in Columns \cup {Table} : NoTable.notes[c] = NoText
  BY BlankTable
<1>13. h = [NoTable EXCEPT !.live = TRUE, !.cols = Listed(cols), !.cons = hcons]
  BY DEF NewTable
<1>14. hcons = {Held(c) : c \in t.cons}
  OBVIOUS
<1> HIDE DEF hcons
<1>15. /\ h \in HeldTable /\ h.live /\ h.idx = {} /\ h.cols = Listed(cols) /\ h.cons = hcons
       /\ h.notes = NoTable.notes
  BY <1>4, <1>10, <1>12, <1>13 DEF HeldTable
<1>16. Mirrors(t, h) /\ OnColumns(h)
  BY <1>9, <1>11, <1>14, <1>15 DEF Mirrors, OnColumns
<1>17. QED
  BY <1>9, <1>12, <1>15, <1>16

\* The column lists of CREATE TABLE, and a key on the first column of one.
LEMMA ListedKey ==
  ASSUME NEW cols \in Lists, NEW pk \in {{}, {cols[1]}}
  PROVE  /\ cols \in Seq(Columns) /\ pk \in SUBSET Columns
         /\ \A c \in pk : \E i \in DOMAIN cols : cols[i] = c
<1>1. cols \in Seq(Columns) /\ 1 \in DOMAIN cols
  BY DEF Lists
<1>2. cols[1] \in Columns
  BY <1>1
<1>3. QED
  BY <1>1, <1>2

\* Two references find one table exactly when they mean one table.
LEMMA FindsSame ==
  ASSUME TypeInv, SameWriting, NEW v \in Written, NEW w \in Written, Find(v) # 0, Find(w) # 0,
         Of(Denotes(v)) # {}, Of(Denotes(w)) # {}
  PROVE  Find(v) = Find(w) <=> Denotes(v) = Denotes(w)
<1>1. Find(v) = Last(Of(Denotes(v))) /\ Find(w) = Last(Of(Denotes(w)))
  BY FindsLast
<1>2. Find(v) \in Of(Denotes(v)) /\ Find(w) \in Of(Denotes(w))
  BY <1>1, OfIsPlaces
<1>3. Denotes(tables[Find(v)].schema) = Denotes(v) /\ Denotes(tables[Find(w)].schema) = Denotes(w)
  BY <1>2 DEF Of
<1>4. QED
  BY <1>1, <1>3


-----------------------------------------------------------------------------
(* What the reader keeps is well formed, whatever the script does          *)

Kept ==
  /\ tables \in Seq(Record) /\ comments \in Seq(Remark)
  /\ indexes \subseteq [on : Written, cols : SUBSET Columns] /\ IsFiniteSet(indexes)
  /\ length \in 0..MaxStatements

LEMMA TypesInit == Init => TypeInv
<1> SUFFICES ASSUME Init PROVE TypeInv
  OBVIOUS
<1>1. tables = <<>> /\ comments = <<>> /\ indexes = {} /\ length = 0 /\ db = [s \in Schemas |-> NoTable]
  BY DEF Init
<1>2. tables \in Seq(Record) /\ comments \in Seq(Remark)
  BY <1>1
<1>3. db \in [Schemas -> HeldTable]
  BY <1>1, BlankTable
<1>4. length \in 0..MaxStatements
  <2>1. MaxStatements \in Nat
    BY SchemaAssumption
  <2>2. QED
    BY <1>1, <2>1
<1>5. QED
  BY <1>1, <1>2, <1>3, <1>4, FS_EmptySet DEF TypeInv

LEMMA KeptInit == Init => Kept
BY TypesInit DEF TypeInv, Kept

LEMMA FindsPlace ==
  ASSUME Kept, NEW w, Find(w) # 0
  PROVE  Find(w) \in DOMAIN tables /\ tables[Find(w)] \in Record
<1> DEFINE in(s) == {i \in DOMAIN tables : tables[i].schema = s}
<1>1. Len(tables) \in Nat /\ DOMAIN tables = 1..Len(tables) /\ \A i \in DOMAIN tables : tables[i] \in Record
  BY DEF Kept
<1>2. \A S \in SUBSET (1..Len(tables)) : Last(S) = 0 \/ Last(S) \in 1..Len(tables)
  BY <1>1, LastIsGreatest
<1>3. \A s : in(s) \in SUBSET (1..Len(tables))
  BY <1>1
<1>4. \E S : Find(w) = Last(S) /\ (S = DOMAIN tables \/ \E s : S = in(s))
  BY DEF Find
<1> HIDE DEF in
<1>5. Find(w) \in 1..Len(tables)
  BY <1>1, <1>2, <1>3, <1>4
<1>6. QED
  BY <1>1, <1>5

\* An ALTER keeps the records well formed if what it makes of one is.
LEMMA AlterTypes ==
  ASSUME Kept, NEW w, NEW u, Find(w) # 0 => u \in Record /\ u.schema = tables[Find(w)].schema,
         tables' = IF Find(w) = 0 THEN tables ELSE [tables EXCEPT ![Find(w)] = u]
  PROVE  tables' \in Seq(Record) /\ SchemasStay
<1>1. CASE Find(w) = 0
  BY <1>1 DEF Kept, SchemasStay
<1>2. CASE Find(w) # 0
  <2>1. /\ Find(w) \in DOMAIN tables /\ u \in Record /\ u.schema = tables[Find(w)].schema
        /\ tables \in Seq(Record)
    BY <1>2, FindsPlace DEF Kept
  <2>2. tables' = [tables EXCEPT ![Find(w)] = u]
    BY <1>2
  <2>3. tables' \in Seq(Record)
    BY <2>1, <2>2
  <2>4. SchemasStay
    BY <2>1, <2>2 DEF SchemasStay
  <2>5. QED
    BY <2>3, <2>4
<1>3. QED
  BY <1>1, <1>2

LEMMA AddColumnTypes ==
  ASSUME Kept, NEW w, NEW name \in Columns, NEW cons \in SUBSET Constraint, AddColumn(w, name, cons)
  PROVE  tables' \in Seq(Record) /\ SchemasStay
<1> DEFINE t == tables[Find(w)]
           cols == IF name \in Names(t.cols) THEN t.cols ELSE Append(t.cols, Column(name, TRUE))
           r == [t EXCEPT !.cols = cols, !.cons = @ \cup cons]
<1>1. tables' = IF Find(w) = 0 THEN tables ELSE [tables EXCEPT ![Find(w)] = Recompute(r)]
  BY DEF AddColumn, Alter
<1>2. ASSUME Find(w) # 0
      PROVE  Recompute(r) \in Record /\ Recompute(r).schema = tables[Find(w)].schema
  <2>1. t \in Record
    BY <1>2, FindsPlace
  <2>2. t.cols \in Seq(ReadColumn) /\ Column(name, TRUE) \in ReadColumn
    BY <2>1 DEF Record, Column, ReadColumn
  <2>3. cols \in Seq(ReadColumn)
    BY <2>2, AppendedColumn
  <2> HIDE DEF t, cols
  <2>4. r \in Record /\ r.schema = t.schema
    BY <2>1, <2>3 DEF Record
  <2> HIDE DEF r
  <2>5. QED
    BY <2>4, RecomputeIs DEF t
<1> HIDE DEF r
<1>3. QED
  BY <1>1, <1>2, AlterTypes

LEMMA DropColumnTypes ==
  ASSUME Kept, NEW w, NEW name, DropColumn(w, name)
  PROVE  tables' \in Seq(Record) /\ SchemasStay
<1> DEFINE t == tables[Find(w)]
           gone(cons) == {c \in cons : name \in c.cols}
           r == [t EXCEPT !.cols = Without(@, name), !.cons = @ \ gone(@)]
<1>1. tables' = IF Find(w) = 0 THEN tables ELSE [tables EXCEPT ![Find(w)] = Recompute(r)]
  BY DEF DropColumn, Alter
<1>2. ASSUME Find(w) # 0
      PROVE  Recompute(r) \in Record /\ Recompute(r).schema = t.schema
  <2>1. t \in Record
    BY <1>2, FindsPlace
  <2>2. t.cols \in Seq(ReadColumn)
    BY <2>1 DEF Record
  <2>3. Without(t.cols, name) \in Seq(ReadColumn)
    BY <2>2, WithoutIs
  <2>4. r \in Record /\ r.schema = t.schema
    BY <2>1, <2>3 DEF Record
  <2> HIDE DEF r
  <2>5. QED
    BY <2>4, RecomputeIs
<1> HIDE DEF r
<1>3. QED
  BY <1>1, <1>2, AlterTypes

LEMMA RenameColumnTypes ==
  ASSUME Kept, NEW w, NEW old \in Columns, NEW new \in Columns, RenameColumn(w, old, new)
  PROVE  tables' \in Seq(Record) /\ SchemasStay /\ comments' \in Seq(Remark)
<1> DEFINE t == tables[Find(w)]
           cols == MovedColumns(t.cols, old, new)
           cons == MovedConstraints(t.cons, old, new)
           u == [t EXCEPT !.cols = cols, !.cons = cons]
<1>1. tables' = IF Find(w) = 0 THEN tables ELSE [tables EXCEPT ![Find(w)] = u]
  BY DEF RenameColumn, Alter, MovedColumns, MovedConstraints, Moved
<1>2. ASSUME Find(w) # 0
      PROVE  u \in Record /\ u.schema = t.schema
  <2>1. t \in Record
    BY <1>2, FindsPlace
  <2>2. t.cols \in Seq(ReadColumn) /\ t.cons \in SUBSET Constraint
    BY <2>1 DEF Record
  <2>3. cols \in Seq(ReadColumn)
    BY <2>2, MovedColumnsIs
  <2>4. cons \in SUBSET Constraint
    <3>1. \A c \in t.cons : [c EXCEPT !.cols = Moved(@, old, new)] \in Constraint
      BY <2>2, MovedConstraintIs
    <3>2. QED
      BY <3>1 DEF MovedConstraints
  <2> HIDE DEF cols, cons
  <2>5. QED
    BY <2>1, <2>3, <2>4 DEF Record
<1> HIDE DEF u
<1>3. tables' \in Seq(Record) /\ SchemasStay
  BY <1>1, <1>2, AlterTypes
<1>4. RenameComments(w, old, new) \in Seq(Remark)
  <2> DEFINE e(k) == IF Find(comments[k].on) = Find(w) /\ comments[k].col = old
                     THEN [comments[k] EXCEPT !.col = new] ELSE comments[k]
  <2>1. Len(comments) \in Nat /\ DOMAIN comments = 1..Len(comments)
        /\ \A k \in DOMAIN comments : comments[k] \in Remark
    BY DEF Kept
  <2>2. \A k \in DOMAIN comments : e(k) \in Remark
    BY <2>1 DEF Remark
  <2>3. RenameComments(w, old, new) = [k \in DOMAIN comments |-> e(k)]
    BY DEF RenameComments
  <2> HIDE DEF e
  <2>4. QED
    BY <2>1, <2>2, <2>3
<1>5. comments' \in Seq(Remark)
  BY <1>4 DEF RenameColumn, Kept
<1>6. QED
  BY <1>3, <1>5

LEMMA ModifyColumnTypes ==
  ASSUME Kept, NEW w, NEW name, NEW nullable \in BOOLEAN, NEW bare \in BOOLEAN,
         ModifyColumn(w, name, nullable, bare)
  PROVE  tables' \in Seq(Record) /\ SchemasStay
<1> DEFINE t == tables[Find(w)]
           v == bare \/ nullable
           u == [t EXCEPT !.cols = SetNullable(@, name, v)]
<1>1. tables' = IF Find(w) = 0 THEN tables ELSE [tables EXCEPT ![Find(w)] = u]
  BY DEF ModifyColumn, Alter, SetNullable
<1>2. v \in BOOLEAN
  OBVIOUS
<1> HIDE DEF v
<1>3. ASSUME Find(w) # 0
      PROVE  u \in Record /\ u.schema = t.schema
  <2>1. t \in Record
    BY <1>3, FindsPlace
  <2>2. t.cols \in Seq(ReadColumn)
    BY <2>1 DEF Record
  <2>3. SetNullable(t.cols, name, v) \in Seq(ReadColumn)
    BY <1>2, <2>2, SetNullableIs
  <2>4. QED
    BY <2>1, <2>3 DEF Record
<1> HIDE DEF u
<1>4. QED
  BY <1>1, <1>3, AlterTypes

LEMMA ConstraintTypes ==
  ASSUME Kept, NEW w, \/ \E con \in Constraint : AddConstraint(w, con)
                      \/ \E name : DropConstraint(w, name)
  PROVE  tables' \in Seq(Record) /\ SchemasStay
<1> DEFINE t == tables[Find(w)]
<1>1. Find(w) # 0 => t \in Record
  BY FindsPlace
<1>2. ASSUME NEW con \in Constraint, AddConstraint(w, con)
      PROVE  tables' \in Seq(Record) /\ SchemasStay
  <2> DEFINE r == [t EXCEPT !.cons = @ \cup {con}]
             u == IF \E c \in t.cons : Equivalent(c, con) THEN t ELSE Recompute(r)
  <2>1. tables' = IF Find(w) = 0 THEN tables ELSE [tables EXCEPT ![Find(w)] = u]
    BY <1>2 DEF AddConstraint, Alter
  <2>2. Find(w) # 0 => r \in Record /\ r.schema = t.schema
    BY <1>1 DEF Record
  <2> HIDE DEF r, t
  <2>3. Find(w) # 0 => u \in Record /\ u.schema = t.schema
    BY <1>1, <2>2, RecomputeIs
  <2> HIDE DEF u
  <2>4. QED
    BY <2>1, <2>3, AlterTypes DEF t
<1>3. ASSUME NEW name, DropConstraint(w, name)
      PROVE  tables' \in Seq(Record) /\ SchemasStay
  <2> DEFINE r == [t EXCEPT !.cons = @ \ {c \in @ : c.name = name}]
  <2>1. tables' = IF Find(w) = 0 THEN tables ELSE [tables EXCEPT ![Find(w)] = Recompute(r)]
    BY <1>3 DEF DropConstraint, Alter
  <2>2. Find(w) # 0 => r \in Record /\ r.schema = t.schema
    BY <1>1 DEF Record
  <2> HIDE DEF r, t
  <2>3. Find(w) # 0 => Recompute(r) \in Record /\ Recompute(r).schema = t.schema
    BY <2>2, RecomputeIs
  <2>4. QED
    BY <2>1, <2>3, AlterTypes DEF t
<1>4. QED
  BY <1>2, <1>3

LEMMA CommentTypes ==
  ASSUME Kept, NEW w \in Written, NEW col \in Columns \cup {Table},
         NEW text \in {NoText, Len(comments) + 1}, Comment(w, col, text)
  PROVE  comments' \in Seq(Remark)
<1> DEFINE m == [on |-> w, col |-> col, text |-> text]
<1>1. Len(comments) \in Nat /\ Cardinality(indexes) \in Nat /\ MaxNotes \in Nat
  <2>1. MaxNotes \in Nat
    BY SchemaAssumption
  <2>2. Cardinality(indexes) \in Nat
    BY FS_CardinalityType DEF Kept
  <2>3. QED
    BY <2>1, <2>2 DEF Kept
<1>2. text \in Texts
  BY <1>1 DEF Comment, Notes, Texts, NoText
<1>3. m \in Remark
  BY <1>2 DEF Remark
<1>4. comments' = Append(comments, m)
  BY DEF Comment
<1> HIDE DEF m
<1>5. QED
  BY <1>3, <1>4, AppendProperties DEF Kept

LEMMA KeptStep ==
  ASSUME Kept, [Next]_vars
  PROVE  Kept'
<1>1. ASSUME NEW w \in Written, NEW cols \in Lists, NEW pk \in {{}, {cols[1]}}, CreateTable(w, cols, pk)
      PROVE  tables' \in Seq(Record) /\ UNCHANGED <<comments, indexes>> /\ Reads
  <2> DEFINE t == NewRecord(w, cols, pk)
  <2>1. tables' = Append(tables, t) /\ UNCHANGED <<comments, indexes>> /\ Reads
    BY <1>1 DEF CreateTable, NewRecord, OwnKey
  <2>2. t \in Record
    BY ListedKey, CreatedIs
  <2> HIDE DEF t
  <2>3. QED
    BY <2>1, <2>2, AppendProperties DEF Kept
<1>2. ASSUME NEW w \in Written, NEW c \in Columns,
             NEW cons \in {{}} \cup {{k} : k \in {x \in Constraint : x.cols = {c} /\ x.name = Anonymous}},
             AddColumn(w, c, cons)
      PROVE  tables' \in Seq(Record) /\ UNCHANGED <<comments, indexes>> /\ Reads
  <2>1. cons \in SUBSET Constraint
    OBVIOUS
  <2>2. tables' \in Seq(Record)
    BY <1>2, <2>1, AddColumnTypes
  <2>3. QED
    BY <1>2, <2>2 DEF AddColumn, ReadsOn
<1>3. ASSUME NEW w \in Written, NEW c \in Columns, DropColumn(w, c)
      PROVE  tables' \in Seq(Record) /\ UNCHANGED <<comments, indexes>> /\ Reads
  <2>1. tables' \in Seq(Record)
    BY <1>3, DropColumnTypes
  <2>2. QED
    BY <1>3, <2>1 DEF DropColumn, ReadsOn
<1>4. ASSUME NEW w \in Written, NEW old \in Columns, NEW new \in Columns, RenameColumn(w, old, new)
      PROVE  tables' \in Seq(Record) /\ comments' \in Seq(Remark) /\ UNCHANGED indexes /\ Reads
  <2>1. tables' \in Seq(Record) /\ comments' \in Seq(Remark)
    BY <1>4, RenameColumnTypes
  <2>2. QED
    BY <1>4, <2>1 DEF RenameColumn, ReadsOn
<1>5. ASSUME NEW w \in Written, NEW c \in Columns, NEW nullable \in BOOLEAN, NEW bare \in BOOLEAN,
             ModifyColumn(w, c, nullable, bare)
      PROVE  tables' \in Seq(Record) /\ UNCHANGED <<comments, indexes>> /\ Reads
  <2>1. tables' \in Seq(Record)
    BY <1>5, ModifyColumnTypes
  <2>2. QED
    BY <1>5, <2>1 DEF ModifyColumn, ReadsOn
<1>6. ASSUME NEW w \in Written, NEW con \in Constraint, AddConstraint(w, con)
      PROVE  tables' \in Seq(Record) /\ UNCHANGED <<comments, indexes>> /\ Reads
  <2>1. tables' \in Seq(Record)
    BY <1>6, ConstraintTypes
  <2>2. QED
    BY <1>6, <2>1 DEF AddConstraint, ReadsOn
<1>7. ASSUME NEW w \in Written, NEW n \in ConNames, DropConstraint(w, n)
      PROVE  tables' \in Seq(Record) /\ UNCHANGED <<comments, indexes>> /\ Reads
  <2>1. tables' \in Seq(Record)
    BY <1>7, ConstraintTypes
  <2>2. QED
    BY <1>7, <2>1 DEF DropConstraint, ReadsOn
<1>8. ASSUME NEW w \in Written, NEW cols \in SUBSET Columns, CreateIndex(w, cols)
      PROVE  /\ UNCHANGED <<tables, comments>> /\ Reads
             /\ indexes' \subseteq [on : Written, cols : SUBSET Columns] /\ IsFiniteSet(indexes')
  <2> DEFINE e == [on |-> w, cols |-> cols]
  <2>1. e \in [on : Written, cols : SUBSET Columns]
    OBVIOUS
  <2>2. indexes' = indexes \cup {e} /\ UNCHANGED <<tables, comments>> /\ Reads
    BY <1>8 DEF CreateIndex, ReadsOn
  <2> HIDE DEF e
  <2>3. QED
    BY <2>1, <2>2, FS_AddElement DEF Kept
<1>9. ASSUME NEW w \in Written, NEW col \in Columns \cup {Table}, NEW text \in {NoText, Len(comments) + 1},
             Comment(w, col, text)
      PROVE  comments' \in Seq(Remark) /\ UNCHANGED <<tables, indexes>> /\ Reads
  <2>1. comments' \in Seq(Remark)
    BY <1>9, CommentTypes
  <2>2. QED
    BY <1>9, <2>1 DEF Comment, ReadsOn
<1>10. ASSUME NEW w \in Written, DropTable(w)
       PROVE  UNCHANGED <<tables, comments, indexes>> /\ Reads
  BY <1>10 DEF DropTable, ReadsOn
<1>11. Reads => length' \in 0..MaxStatements
  <2>1. length \in 0..MaxStatements /\ MaxStatements \in Nat
    BY SchemaAssumption DEF Kept
  <2>2. QED
    BY <2>1 DEF Reads
<1>12. CASE UNCHANGED vars
  BY <1>12 DEF vars, Kept
<1>13. CASE Next
  <2>1. PICK w \in Written :
          \/ \E cols \in Lists : \E pk \in {{}, {cols[1]}} : CreateTable(w, cols, pk)
          \/ DropTable(w)
          \/ \E c \in Columns :
                \E cons \in {{}} \cup {{k} : k \in {x \in Constraint : x.cols = {c} /\ x.name = Anonymous}} :
                   AddColumn(w, c, cons)
          \/ \E c \in Columns : DropColumn(w, c)
          \/ \E old, new \in Columns : RenameColumn(w, old, new)
          \/ \E c \in Columns, nullable, bare \in BOOLEAN : ModifyColumn(w, c, nullable, bare)
          \/ \E con \in Constraint : AddConstraint(w, con)
          \/ \E n \in ConNames : DropConstraint(w, n)
          \/ \E cols \in SUBSET Columns : CreateIndex(w, cols)
          \/ \E col \in Columns \cup {Table}, text \in {NoText, Len(comments) + 1} : Comment(w, col, text)
    BY <1>13 DEF Next
  <2>2. Reads /\ tables' \in Seq(Record) /\ comments' \in Seq(Remark)
        /\ indexes' \subseteq [on : Written, cols : SUBSET Columns] /\ IsFiniteSet(indexes')
    BY <1>1, <1>2, <1>3, <1>4, <1>5, <1>6, <1>7, <1>8, <1>9, <1>10, <2>1 DEF Kept
  <2>3. QED
    BY <1>11, <2>2 DEF Kept
<1>14. QED
  BY <1>12, <1>13

LEMMA KeptTypes == Kept => TypeOK
<1> SUFFICES ASSUME Kept PROVE TypeOK
  OBVIOUS
<1>1. /\ \A i \in DOMAIN tables : tables[i] \in Record
      /\ \A i \in DOMAIN comments : comments[i] \in Remark
      /\ indexes \subseteq [on : Written, cols : SUBSET Columns] /\ length \in 0..MaxStatements
  BY DEF Kept
<1>2. ASSUME NEW i \in DOMAIN tables
      PROVE  /\ tables[i].schema \in Written /\ tables[i].hasPk \in BOOLEAN /\ tables[i].cons \subseteq Constraint
             /\ \A k \in DOMAIN tables[i].cols : tables[i].cols[k] \in ReadColumn
  <2>1. /\ tables[i].schema \in Written /\ tables[i].hasPk \in BOOLEAN /\ tables[i].cons \subseteq Constraint
        /\ tables[i].cols \in Seq(ReadColumn)
    BY <1>1 DEF Record
  <2>2. QED
    BY <2>1
<1>3. QED
  BY <1>1, <1>2 DEF TypeOK, Remark, ReadColumn, Texts

-----------------------------------------------------------------------------
(* What a statement does to the database                                   *)

Noted(notes, col, text) == [notes EXCEPT ![col] = text]
Renoted(notes, old, new) == [notes EXCEPT ![new] = notes[old], ![old] = NoText]
MovedSets(set, old, new) == {Moved(x, old, new) : x \in set}

\* The other tables stay, but for foreign keys dropped with the key they
\* need, or following the columns they refer to.
OthersStay(s) == \A q \in Schemas \ {s} :
  /\ db'[q].live = db[q].live /\ db'[q].cols = db[q].cols
  /\ db'[q].notes = db[q].notes /\ db'[q].idx = db[q].idx
  /\ \A d \in db'[q].cons : \E c \in db[q].cons : d.cols = c.cols

LEMMA LiveTable ==
  ASSUME BaseInv, NEW w \in Written, Live(w)
  PROVE  /\ Denotes(w) \in Schemas /\ db[Denotes(w)] \in HeldTable /\ db[Denotes(w)].live
         /\ Of(Denotes(w)) # {} /\ OnColumns(db[Denotes(w)]) /\ db \in [Schemas -> HeldTable]
BY DenotesType DEF BaseInv, Placed, TypeInv, Live

\* A change of one table.
LEMMA OneTable ==
  ASSUME db \in [Schemas -> HeldTable], NEW s \in Schemas, NEW h \in HeldTable, db' = [db EXCEPT ![s] = h]
  PROVE  db' \in [Schemas -> HeldTable] /\ db'[s] = h /\ OthersStay(s) /\ \A q \in Schemas \ {s} : db'[q] = db[q]
BY DEF OthersStay

LEMMA CascadeIs ==
  ASSUME db \in [Schemas -> HeldTable], NEW s \in Schemas, NEW cons, cons \subseteq db[s].cons, MayDrop(s, cons),
         NEW W, W = WithoutCons(s, cons)
  PROVE  /\ W \in [Schemas -> HeldTable]
         /\ \A q \in Schemas : /\ W[q].live = db[q].live /\ W[q].cols = db[q].cols
                               /\ W[q].notes = db[q].notes /\ W[q].idx = db[q].idx
                               /\ W[q].cons \subseteq db[q].cons
         /\ W[s].cons \subseteq db[s].cons \ cons
         /\ "cascade" \notin Forms => /\ W[s].cons = db[s].cons \ cons
                                      /\ \A q \in Schemas \ {s} : W[q].cons = db[q].cons
<1> DEFINE onIt == {c \in UNION {db[t].cons : t \in Schemas} : c.type = "FK" /\ c.ref = s}
           gone == IF \E c \in cons : c.type = "PK" THEN onIt ELSE {}
<1>1. "cascade" \notin Forms => gone = {}
  <2>1. CASE \E c \in cons : c.type = "PK"
    <3>1. "cascade" \notin Forms => ~Referenced(s)
      BY <2>1 DEF MayDrop
    <3>2. "cascade" \notin Forms => onIt = {}
      BY <3>1 DEF Referenced
    <3>3. QED
      BY <3>2
  <2>2. CASE ~ \E c \in cons : c.type = "PK"
    BY <2>2
  <2>3. QED
    BY <2>1, <2>2
<1> HIDE DEF gone
<1>2. W = [t \in Schemas |-> [db[t] EXCEPT !.cons = (db[t].cons \ gone) \ (IF t = s THEN cons ELSE {})]]
  BY DEF WithoutCons, gone
<1>3. ASSUME NEW q \in Schemas
      PROVE  /\ W[q] \in HeldTable
             /\ W[q].live = db[q].live /\ W[q].cols = db[q].cols
             /\ W[q].notes = db[q].notes /\ W[q].idx = db[q].idx
             /\ W[q].cons = (db[q].cons \ gone) \ (IF q = s THEN cons ELSE {})
  <2> DEFINE left == (db[q].cons \ gone) \ (IF q = s THEN cons ELSE {})
  <2>1. db[q] \in HeldTable /\ left \subseteq db[q].cons
    OBVIOUS
  <2>2. W[q] = [db[q] EXCEPT !.cons = left]
    BY <1>2
  <2> HIDE DEF left
  <2>3. /\ W[q] \in HeldTable /\ W[q].live = db[q].live /\ W[q].cols = db[q].cols
        /\ W[q].notes = db[q].notes /\ W[q].idx = db[q].idx /\ W[q].cons = left
    BY <2>1, <2>2 DEF HeldTable
  <2>4. QED
    BY <2>3 DEF left
<1>4. W \in [Schemas -> HeldTable]
  BY <1>2, <1>3
<1>5. W[s].cons = (db[s].cons \ gone) \ cons /\ \A q \in Schemas \ {s} : W[q].cons = db[q].cons \ gone
  BY <1>3
<1>6. \A q \in Schemas : /\ W[q].live = db[q].live /\ W[q].cols = db[q].cols
                          /\ W[q].notes = db[q].notes /\ W[q].idx = db[q].idx
                          /\ W[q].cons \subseteq db[q].cons
  BY <1>3
<1>7. W[s].cons \subseteq db[s].cons \ cons
  BY <1>5
<1>8. "cascade" \notin Forms => /\ W[s].cons = db[s].cons \ cons
                               /\ \A q \in Schemas \ {s} : W[q].cons = db[q].cons
  BY <1>1, <1>5
<1>9. QED
  BY <1>4, <1>6, <1>7, <1>8

LEMMA DropTableDb ==
  ASSUME BaseInv, NEW w \in Written, DropTable(w)
  PROVE  /\ db' \in [Schemas -> HeldTable] /\ OthersStay(Denotes(w)) /\ ~db'[Denotes(w)].live
         /\ "cascade" \notin Forms => \A q \in Schemas \ {Denotes(w)} : db'[q].cons = db[q].cons
<1> DEFINE s == Denotes(w)
           W == WithoutCons(s, db[s].cons)
<1>1. Live(w) /\ MayDrop(s, db[s].cons) /\ db' = [W EXCEPT ![s] = NoTable]
  BY DEF DropTable, ReadsOn
<1>2. s \in Schemas /\ db \in [Schemas -> HeldTable]
  BY <1>1, LiveTable
<1>3. /\ W \in [Schemas -> HeldTable]
      /\ \A q \in Schemas : /\ W[q].live = db[q].live /\ W[q].cols = db[q].cols
                            /\ W[q].notes = db[q].notes /\ W[q].idx = db[q].idx
                            /\ W[q].cons \subseteq db[q].cons
      /\ "cascade" \notin Forms => \A q \in Schemas \ {s} : W[q].cons = db[q].cons
  BY <1>1, <1>2, CascadeIs
<1> HIDE DEF W
<1>4. NoTable \in HeldTable /\ ~NoTable.live
  BY BlankTable
<1>5. /\ db' \in [Schemas -> HeldTable] /\ db'[s] = NoTable
      /\ \A q \in Schemas \ {s} : db'[q] = W[q]
  BY <1>1, <1>2, <1>3, <1>4
<1>6. QED
  BY <1>3, <1>4, <1>5 DEF OthersStay

LEMMA AddColumnDb ==
  ASSUME BaseInv, NEW w \in Written, NEW name \in Columns,
         NEW cons \in SUBSET Constraint, \A c \in cons : c.cols = {name}, AddColumn(w, name, cons)
  PROVE  LET s == Denotes(w)
             h == db[s] IN
       /\ db' \in [Schemas -> HeldTable] /\ OthersStay(s) /\ \A q \in Schemas \ {s} : db'[q] = db[q]
       /\ db'[s].live /\ db'[s].notes = h.notes /\ db'[s].idx = h.idx /\ OnColumns(db'[s])
       /\ HasColumn(w, name) => "recolumn" \in Forms /\ db'[s] = h
       /\ ~HasColumn(w, name) => /\ db'[s].cols = Append(h.cols, [name |-> name, nullable |-> TRUE])
                                 /\ Names(db'[s].cols) = Names(h.cols) \cup {name}
                                 /\ db'[s].cons = h.cons \cup {Held(c) : c \in cons}
<1> DEFINE s == Denotes(w)
           h == db[s]
           more == {Held(c) : c \in cons}
           e == [name |-> name, nullable |-> TRUE]
           hcols == Append(h.cols, e)
           new == [h EXCEPT !.cols = hcols, !.cons = h.cons \cup more]
<1>1. /\ HasColumn(w, name) => "recolumn" \in Forms /\ db' = db
      /\ ~HasColumn(w, name) => db' = [db EXCEPT ![s].cols = hcols, ![s].cons = h.cons \cup more]
  BY DEF AddColumn, ReadsOn
<1>2. /\ s \in Schemas /\ h \in HeldTable /\ h.live /\ OnColumns(h) /\ db \in [Schemas -> HeldTable]
  BY LiveTable DEF AddColumn, ReadsOn
<1>3. CASE HasColumn(w, name)
  <2>1. db' = db /\ "recolumn" \in Forms
    BY <1>1, <1>3
  <2>2. OthersStay(s)
    BY <2>1 DEF OthersStay
  <2>3. QED
    BY <1>2, <1>3, <2>1, <2>2
<1>4. CASE ~HasColumn(w, name)
  <2>1. h.cols \in Seq(HeldColumn) /\ e \in HeldColumn /\ e.name = name
    BY <1>2 DEF HeldTable, HeldColumn
  <2> HIDE DEF e
  <2>2. hcols \in Seq(HeldColumn) /\ Names(hcols) = Names(h.cols) \cup {name}
    BY <2>1, AppendedName
  <2>3. more \in SUBSET HeldConstraint /\ \A d \in more : d.cols = {name}
    BY HeldIs
  <2>4. db' = [db EXCEPT ![s] = new]
    BY <1>1, <1>2, <1>4 DEF HeldTable
  <2> HIDE DEF hcols, more
  <2>5. /\ new \in HeldTable /\ new.live /\ new.cols = hcols /\ new.cons = h.cons \cup more
        /\ new.notes = h.notes /\ new.idx = h.idx
    BY <1>2, <2>2, <2>3 DEF HeldTable
  <2>6. OnColumns(new)
    BY <1>2, <2>2, <2>3, <2>5 DEF OnColumns
  <2> HIDE DEF new
  <2>7. /\ db' \in [Schemas -> HeldTable] /\ db'[s] = new /\ OthersStay(s)
        /\ \A q \in Schemas \ {s} : db'[q] = db[q]
    BY <1>2, <2>4, <2>5, OneTable
  <2>8. QED
    BY <1>4, <2>2, <2>5, <2>6, <2>7 DEF hcols, more, e
<1>5. QED
  BY <1>3, <1>4

LEMMA DropColumnDb ==
  ASSUME BaseInv, NEW w \in Written, NEW name \in Columns, DropColumn(w, name)
  PROVE  LET s == Denotes(w)
             h == db[s] IN
       /\ db' \in [Schemas -> HeldTable] /\ OthersStay(s)
       /\ db'[s].live /\ db'[s].notes = Noted(h.notes, name, NoText)
       /\ db'[s].idx = {x \in h.idx : name \notin x} /\ OnColumns(db'[s])
       /\ db'[s].cols = Without(h.cols, name) /\ Names(db'[s].cols) = Names(h.cols) \ {name}
       /\ "cascade" \notin Forms => /\ db'[s].cons = {c \in h.cons : name \notin c.cols}
                                    /\ \A q \in Schemas \ {s} : db'[q].cons = db[q].cons
<1> DEFINE s == Denotes(w)
           h == db[s]
           gone == {c \in h.cons : name \in c.cols}
           W == WithoutCons(s, gone)
           hcols == Without(h.cols, name)
           idx == {x \in h.idx : name \notin x}
           notes == [h.notes EXCEPT ![name] = NoText]
           new == [W[s] EXCEPT !.cols = hcols, !.idx = idx, !.notes = notes]
<1>1. /\ Live(w) /\ MayDrop(s, gone)
      /\ db' = [W EXCEPT ![s].cols = Without(@, name), ![s].idx = {x \in @ : name \notin x},
                         ![s].notes[name] = NoText]
  BY DEF DropColumn, ReadsOn
<1>2. s \in Schemas /\ h \in HeldTable /\ h.live /\ OnColumns(h) /\ db \in [Schemas -> HeldTable]
  BY LiveTable DEF DropColumn, ReadsOn
<1>3. /\ W \in [Schemas -> HeldTable]
      /\ \A q \in Schemas : /\ W[q].live = db[q].live /\ W[q].cols = db[q].cols
                            /\ W[q].notes = db[q].notes /\ W[q].idx = db[q].idx
                            /\ W[q].cons \subseteq db[q].cons
      /\ W[s].cons \subseteq h.cons \ gone
      /\ "cascade" \notin Forms => /\ W[s].cons = h.cons \ gone
                                   /\ \A q \in Schemas \ {s} : W[q].cons = db[q].cons
  <2>1. gone \subseteq db[s].cons /\ MayDrop(s, gone)
    BY <1>1
  <2> HIDE DEF gone
  <2>2. QED
    BY <1>2, <2>1, CascadeIs
<1> HIDE DEF W
<1>4. /\ hcols \in Seq(HeldColumn) /\ Names(hcols) = Names(h.cols) \ {name}
      /\ notes \in [Columns \cup {Table} -> Texts] /\ idx \in SUBSET SUBSET Columns
  <2>1. /\ h.cols \in Seq(HeldColumn) /\ h.notes \in [Columns \cup {Table} -> Texts]
        /\ h.idx \in SUBSET SUBSET Columns
    BY <1>2 DEF HeldTable
  <2>2. QED
    BY <2>1, WithoutIs, BlankTable
<1>5. W[s] \in HeldTable /\ W[s].cols = h.cols /\ W[s].idx = h.idx /\ W[s].notes = h.notes
  BY <1>2, <1>3
<1>6. db' = [W EXCEPT ![s] = new]
  <2>1. db' = [W EXCEPT ![s] = [W[s] EXCEPT !.cols = Without(@, name), !.idx = {x \in @ : name \notin x},
                                            !.notes[name] = NoText]]
    BY <1>1, <1>2, <1>3 DEF HeldTable
  <2>2. [W[s] EXCEPT !.cols = Without(@, name), !.idx = {x \in @ : name \notin x}, !.notes[name] = NoText] = new
    BY <1>5 DEF HeldTable
  <2>3. QED
    BY <2>1, <2>2
<1> HIDE DEF hcols, idx, notes
<1>7. /\ new \in HeldTable /\ new.live = h.live /\ new.cols = hcols /\ new.cons = W[s].cons
      /\ new.notes = notes /\ new.idx = idx
  BY <1>2, <1>3, <1>4, <1>5 DEF HeldTable
<1> HIDE DEF new
<1>8. db' \in [Schemas -> HeldTable] /\ db'[s] = new /\ \A q \in Schemas \ {s} : db'[q] = W[q]
  BY <1>2, <1>3, <1>6, <1>7
<1>9. OthersStay(s)
  BY <1>3, <1>8 DEF OthersStay
<1>10. OnColumns(new)
  <2>1. \A c \in new.cons : c \in h.cons /\ name \notin c.cols
    BY <1>3, <1>7
  <2>2. QED
    BY <1>2, <1>4, <1>7, <2>1 DEF OnColumns
<1>11. h.cons \ gone = {c \in h.cons : name \notin c.cols}
  OBVIOUS
<1> HIDE DEF gone
<1>12. QED
  BY <1>2, <1>3, <1>4, <1>7, <1>8, <1>9, <1>10, <1>11 DEF hcols, idx, notes, Noted

\* The tables of W are those of the database but for the columns its foreign
\* keys refer to, which are the same where none refers to old of table s.
SameButTargets(W, s, old) ==
  /\ W \in [Schemas -> HeldTable]
  /\ \A q \in Schemas : /\ W[q].live = db[q].live /\ W[q].cols = db[q].cols
                        /\ W[q].notes = db[q].notes /\ W[q].idx = db[q].idx
                        /\ \A d \in W[q].cons : \E c \in db[q].cons : d.cols = c.cols
  /\ (\A t \in Schemas : \A c \in db[t].cons : c.ref = s => old \notin c.refCols)
       => \A q \in Schemas : W[q].cons = db[q].cons

\* What the database does to foreign keys on a table whose column is renamed.
LEMMA RepointedIs ==
  ASSUME db \in [Schemas -> HeldTable], NEW s \in Schemas, NEW old \in Columns, NEW new \in Columns,
         NEW W, W = Repointed(s, old, new)
  PROVE  SameButTargets(W, s, old)
<1> DEFINE moved(c) == [c EXCEPT !.refCols = Moved(@, old, new)]
           point(c) == IF c.ref = s THEN moved(c) ELSE c
           cons(q) == {point(c) : c \in db[q].cons}
<1>1. W = [q \in Schemas |-> [db[q] EXCEPT !.cons = cons(q)]]
  BY DEF Repointed, Moved
<1>2. ASSUME NEW c \in HeldConstraint
      PROVE  /\ point(c) \in HeldConstraint /\ point(c).cols = c.cols
             /\ (c.ref = s => old \notin c.refCols) => point(c) = c
  <2> DEFINE m == Moved(c.refCols, old, new)
  <2>1. m \in SUBSET Columns /\ (old \notin c.refCols => m = c.refCols)
    <3>1. c.refCols \in SUBSET Columns
      BY DEF HeldConstraint
    <3>2. QED
      BY <3>1 DEF Moved, Swap
  <2> HIDE DEF m
  <2>2. LET d == [c EXCEPT !.refCols = m] IN d \in HeldConstraint /\ d.cols = c.cols /\ (m = c.refCols => d = c)
    BY <2>1 DEF HeldConstraint
  <2>3. moved(c) = [c EXCEPT !.refCols = m]
    BY DEF m
  <2> HIDE DEF moved
  <2>4. QED
    BY <2>1, <2>2, <2>3
<1> HIDE DEF point
<1>3. ASSUME NEW q \in Schemas
      PROVE  /\ W[q] \in HeldTable
             /\ W[q].live = db[q].live /\ W[q].cols = db[q].cols
             /\ W[q].notes = db[q].notes /\ W[q].idx = db[q].idx
             /\ W[q].cons = cons(q)
  <2> DEFINE k == cons(q)
  <2>1. db[q] \in HeldTable /\ db[q].cons \in SUBSET HeldConstraint
    BY DEF HeldTable
  <2>2. k \in SUBSET HeldConstraint /\ W[q] = [db[q] EXCEPT !.cons = k]
    BY <1>1, <1>2, <2>1
  <2> HIDE DEF k
  <2>3. /\ W[q] \in HeldTable /\ W[q].live = db[q].live /\ W[q].cols = db[q].cols
        /\ W[q].notes = db[q].notes /\ W[q].idx = db[q].idx /\ W[q].cons = k
    BY <2>1, <2>2 DEF HeldTable
  <2>4. QED
    BY <2>3 DEF k
<1>4. W \in [Schemas -> HeldTable]
  BY <1>1, <1>3
<1>5. ASSUME NEW q \in Schemas
      PROVE  /\ \A d \in W[q].cons : \E c \in db[q].cons : d.cols = c.cols
             /\ (\A c \in db[q].cons : c.ref = s => old \notin c.refCols) => W[q].cons = db[q].cons
  <2>1. db[q].cons \in SUBSET HeldConstraint
    BY DEF HeldTable
  <2>2. W[q].cons = {point(c) : c \in db[q].cons}
    BY <1>3
  <2>3. \A c \in db[q].cons : point(c).cols = c.cols /\ ((c.ref = s => old \notin c.refCols) => point(c) = c)
    BY <1>2, <2>1
  <2>4. \A d \in W[q].cons : \E c \in db[q].cons : d.cols = c.cols
    BY <2>2, <2>3
  <2>5. ASSUME \A c \in db[q].cons : c.ref = s => old \notin c.refCols
        PROVE  W[q].cons = db[q].cons
    <3>1. \A c \in db[q].cons : point(c) = c
      BY <2>3, <2>5
    <3>2. QED
      BY <2>2, <3>1
  <2>6. QED
    BY <2>4, <2>5
<1>6. QED
  BY <1>3, <1>4, <1>5 DEF SameButTargets

LEMMA RenameColumnDb ==
  ASSUME BaseInv, NEW w \in Written, NEW old \in Columns, NEW new \in Columns, RenameColumn(w, old, new)
  PROVE  LET s == Denotes(w)
             h == db[s] IN
       /\ db' \in [Schemas -> HeldTable] /\ OthersStay(s)
       /\ db'[s].live /\ OnColumns(db'[s])
       /\ db'[s].cols = MovedColumns(h.cols, old, new)
       /\ Names(db'[s].cols) = Moved(Names(h.cols), old, new)
       /\ "rename referenced" \notin Forms =>
            /\ db'[s].cons = MovedConstraints(h.cons, old, new)
            /\ \A q \in Schemas \ {s} : db'[q].cons = db[q].cons
       /\ db'[s].idx = MovedSets(h.idx, old, new)
       /\ db'[s].notes = Renoted(h.notes, old, new)
<1> DEFINE s == Denotes(w)
           h == db[s]
           hcols == MovedColumns(h.cols, old, new)
           W == Repointed(s, old, new)
           hcons == MovedConstraints(W[s].cons, old, new)
           idx == {Moved(x, old, new) : x \in h.idx}
           notes == [h.notes EXCEPT ![new] = h.notes[old], ![old] = NoText]
           kept == [W[s] EXCEPT !.cols = hcols, !.cons = hcons, !.idx = idx, !.notes = notes]
<1>1. /\ HasColumn(w, old) /\ ~HasColumn(w, new)
      /\ (\E t \in Schemas : \E c \in db[t].cons : c.ref = s /\ old \in c.refCols) =>
            "rename referenced" \in Forms
      /\ db' = [W EXCEPT ![s].cols = MovedColumns(@, old, new), ![s].cons = MovedConstraints(@, old, new),
                         ![s].idx = {Moved(x, old, new) : x \in @}, ![s].notes = [@ EXCEPT ![new] = h.notes[old], ![old] = NoText]]
  BY DEF RenameColumn, MovedColumns, MovedConstraints, Moved
<1>2. s \in Schemas /\ h \in HeldTable /\ h.live /\ OnColumns(h) /\ db \in [Schemas -> HeldTable]
  BY LiveTable DEF RenameColumn, ReadsOn
<1>0. /\ W \in [Schemas -> HeldTable]
      /\ \A q \in Schemas : /\ W[q].live = db[q].live /\ W[q].cols = db[q].cols
                            /\ W[q].notes = db[q].notes /\ W[q].idx = db[q].idx
                            /\ \A d \in W[q].cons : \E c \in db[q].cons : d.cols = c.cols
      /\ "rename referenced" \notin Forms => \A q \in Schemas : W[q].cons = db[q].cons
  <2>1. "rename referenced" \notin Forms =>
          \A t \in Schemas : \A c \in db[t].cons : c.ref = s => old \notin c.refCols
    BY <1>1
  <2>2. QED
    <3>1. SameButTargets(W, s, old)
      BY <1>2, RepointedIs
    <3> HIDE DEF s, W
    <3>2. QED
      BY <2>1, <3>1 DEF SameButTargets
<1> HIDE DEF W
<1>3. /\ h.cols \in Seq(HeldColumn) /\ W[s] \in HeldTable /\ W[s].cons \in SUBSET HeldConstraint
      /\ h.notes \in [Columns \cup {Table} -> Texts] /\ h.idx \in SUBSET SUBSET Columns
  BY <1>2, <1>0 DEF HeldTable
<1>4. old \in Names(h.cols) /\ new \notin Names(h.cols) /\ Names(h.cols) \subseteq Columns
  BY <1>1, <1>3, NamesType DEF HasColumn
<1>5. /\ hcols \in Seq(HeldColumn) /\ Names(hcols) = Moved(Names(h.cols), old, new)
      /\ hcons \in SUBSET HeldConstraint
      /\ \A d \in hcons : \E c \in W[s].cons : d.cols = Moved(c.cols, old, new)
      /\ notes \in [Columns \cup {Table} -> Texts] /\ idx \in SUBSET SUBSET Columns
  <2>1. hcols \in Seq(HeldColumn) /\ Names(hcols) = Moved(Names(h.cols), old, new)
    BY <1>3, MovedHeldIs
  <2>2. /\ hcons \in SUBSET HeldConstraint
        /\ \A d \in hcons : \E c \in W[s].cons : d.cols = Moved(c.cols, old, new)
    BY <1>3, MovedHeldConstraintsIs
  <2>3. notes \in [Columns \cup {Table} -> Texts]
    BY <1>3, BlankTable
  <2>4. idx \in SUBSET SUBSET Columns
    <3>1. ASSUME NEW x \in h.idx PROVE Moved(x, old, new) \in SUBSET Columns
      <4>1. x \in SUBSET Columns
        BY <1>3
      <4>2. QED
        BY <4>1, MovedIs
    <3>2. QED
      BY <3>1
  <2>5. QED
    BY <2>1, <2>2, <2>3, <2>4
<1>6. db' = [W EXCEPT ![s] = kept]
  BY <1>1, <1>2, <1>3, <1>0 DEF HeldTable
<1> HIDE DEF hcols, hcons, idx, notes
<1>7. /\ kept \in HeldTable /\ kept.live /\ kept.cols = hcols /\ kept.cons = hcons
      /\ kept.notes = notes /\ kept.idx = idx
  BY <1>2, <1>3, <1>5, <1>0 DEF HeldTable
<1>8. OnColumns(kept)
  <2>1. ASSUME NEW d \in hcons PROVE d.cols \subseteq Names(hcols)
    <3>1. PICK c \in W[s].cons : d.cols = Moved(c.cols, old, new)
      BY <1>5
    <3>2. c.cols \subseteq Names(h.cols)
      <4>1. PICK e \in h.cons : c.cols = e.cols
        BY <1>2, <1>0
      <4>2. QED
        BY <1>2, <4>1 DEF OnColumns
    <3>3. QED
      BY <1>5, <3>1, <3>2 DEF Moved
  <2>2. QED
    BY <1>7, <2>1 DEF OnColumns
<1> HIDE DEF kept
<1>9. db' \in [Schemas -> HeldTable] /\ db'[s] = kept /\ \A q \in Schemas \ {s} : db'[q] = W[q]
  BY <1>2, <1>6, <1>7, <1>0
<1>10. OthersStay(s)
  <2>1. ASSUME NEW q \in Schemas \ {s}
        PROVE  /\ db'[q].live = db[q].live /\ db'[q].cols = db[q].cols
               /\ db'[q].notes = db[q].notes /\ db'[q].idx = db[q].idx
               /\ \A d \in db'[q].cons : \E c \in db[q].cons : d.cols = c.cols
    <3>1. db'[q] = W[q]
      BY <1>9
    <3>2. QED
      BY <1>0, <3>1
  <2>2. QED
    BY <2>1 DEF OthersStay
<1>11. "rename referenced" \notin Forms =>
         hcons = MovedConstraints(h.cons, old, new) /\ \A q \in Schemas \ {s} : db'[q].cons = db[q].cons
  BY <1>2, <1>9, <1>0 DEF hcons
<1>12. QED
  BY <1>5, <1>7, <1>8, <1>9, <1>10, <1>11 DEF hcols, idx, notes, Renoted, MovedSets

LEMMA ModifyColumnDb ==
  ASSUME BaseInv, NEW w \in Written, NEW name \in Columns, NEW nullable \in BOOLEAN, NEW bare \in BOOLEAN,
         ModifyColumn(w, name, nullable, bare)
  PROVE  LET s == Denotes(w)
             h == db[s] IN
       /\ db' \in [Schemas -> HeldTable] /\ OthersStay(s) /\ \A q \in Schemas \ {s} : db'[q] = db[q]
       /\ db'[s].live /\ db'[s].cons = h.cons /\ db'[s].notes = h.notes /\ db'[s].idx = h.idx
       /\ Names(db'[s].cols) = Names(h.cols) /\ OnColumns(db'[s])
       /\ ~bare => db'[s].cols = SetNullable(h.cols, name, nullable)
<1> DEFINE s == Denotes(w)
           h == db[s]
           hcols == SetNullable(h.cols, name, nullable)
           new == [h EXCEPT !.cols = IF bare THEN @ ELSE hcols]
<1>1. s \in Schemas /\ h \in HeldTable /\ h.live /\ OnColumns(h) /\ db \in [Schemas -> HeldTable]
  BY LiveTable DEF ModifyColumn, ReadsOn
<1>2. h.cols \in Seq(HeldColumn)
  BY <1>1 DEF HeldTable
<1>3. hcols \in Seq(HeldColumn) /\ Names(hcols) = Names(h.cols)
  BY <1>2, SetHeldIs
<1>4. db' = IF bare THEN db ELSE [db EXCEPT ![s].cols = SetNullable(@, name, nullable)]
  BY DEF ModifyColumn, SetNullable
<1>5. db' = [db EXCEPT ![s] = new]
  <2>1. CASE bare
    <3>1. new = h
      BY <1>1, <2>1 DEF HeldTable
    <3>2. QED
      BY <1>1, <1>4, <2>1, <3>1
  <2>2. CASE ~bare
    BY <1>1, <1>4, <2>2 DEF HeldTable
  <2>3. QED
    BY <2>1, <2>2
<1> HIDE DEF hcols
<1>6. /\ new \in HeldTable /\ new.live /\ new.cons = h.cons /\ new.notes = h.notes /\ new.idx = h.idx
      /\ new.cols = IF bare THEN h.cols ELSE hcols
  BY <1>1, <1>2, <1>3 DEF HeldTable
<1>7. Names(new.cols) = Names(h.cols) /\ OnColumns(new)
  BY <1>1, <1>3, <1>6 DEF OnColumns
<1> HIDE DEF new
<1>8. /\ db' \in [Schemas -> HeldTable] /\ db'[s] = new /\ OthersStay(s)
      /\ \A q \in Schemas \ {s} : db'[q] = db[q]
  BY <1>1, <1>5, <1>6, OneTable
<1>9. QED
  BY <1>6, <1>7, <1>8 DEF hcols

LEMMA AddConstraintDb ==
  ASSUME BaseInv, NEW w \in Written, NEW con \in Constraint, AddConstraint(w, con)
  PROVE  LET s == Denotes(w)
             h == db[s] IN
       /\ db' \in [Schemas -> HeldTable] /\ OthersStay(s) /\ \A q \in Schemas \ {s} : db'[q] = db[q]
       /\ db'[s].live /\ db'[s].cols = h.cols /\ db'[s].notes = h.notes /\ db'[s].idx = h.idx
       /\ db'[s].cons = IF Declared(w, con) THEN h.cons ELSE h.cons \cup {Held(con)}
       /\ OnColumns(db'[s]) /\ con.cols \subseteq Names(h.cols)
<1> DEFINE s == Denotes(w)
           h == db[s]
           hcons == IF Declared(w, con) THEN h.cons ELSE h.cons \cup {Held(con)}
           new == [h EXCEPT !.cons = hcons]
<1>1. s \in Schemas /\ h \in HeldTable /\ h.live /\ OnColumns(h) /\ db \in [Schemas -> HeldTable]
  BY LiveTable DEF AddConstraint, ReadsOn
<1>2. /\ Declared(w, con) \/ Accepts(s, con)
      /\ db' = IF Declared(w, con) THEN db ELSE [db EXCEPT ![s].cons = @ \cup {Held(con)}]
  BY DEF AddConstraint
<1>3. con.cols \subseteq Names(h.cols)
  <2>1. CASE Declared(w, con)
    <3>1. PICK d \in h.cons : d.cols = con.cols
      BY <2>1 DEF Declared
    <3>2. QED
      BY <1>1, <3>1 DEF OnColumns
  <2>2. CASE Accepts(s, con)
    BY <2>2 DEF Accepts
  <2>3. QED
    BY <1>2, <2>1, <2>2
<1>4. hcons \in SUBSET HeldConstraint /\ \A d \in hcons : d.cols \subseteq Names(h.cols)
  <2>1. /\ h.cons \in SUBSET HeldConstraint /\ Held(con) \in HeldConstraint
        /\ Held(con).cols \subseteq Names(h.cols)
    BY <1>1, <1>3, HeldIs DEF HeldTable
  <2>2. QED
    BY <1>1, <2>1 DEF OnColumns
<1>5. db' = [db EXCEPT ![s] = new]
  <2>1. CASE Declared(w, con)
    <3>1. new = h
      BY <1>1, <2>1 DEF HeldTable
    <3>2. QED
      BY <1>1, <1>2, <2>1, <3>1
  <2>2. CASE ~Declared(w, con)
    BY <1>1, <1>2, <2>2 DEF HeldTable
  <2>3. QED
    BY <2>1, <2>2
<1> HIDE DEF hcons
<1>6. /\ new \in HeldTable /\ new.live /\ new.cols = h.cols /\ new.cons = hcons
      /\ new.notes = h.notes /\ new.idx = h.idx
  BY <1>1, <1>4 DEF HeldTable
<1>7. OnColumns(new)
  BY <1>4, <1>6 DEF OnColumns
<1> HIDE DEF new
<1>8. /\ db' \in [Schemas -> HeldTable] /\ db'[s] = new /\ OthersStay(s)
      /\ \A q \in Schemas \ {s} : db'[q] = db[q]
  BY <1>1, <1>5, <1>6, OneTable
<1>9. QED
  BY <1>3, <1>6, <1>7, <1>8 DEF hcons

LEMMA DropConstraintDb ==
  ASSUME BaseInv, NEW w \in Written, NEW name, DropConstraint(w, name)
  PROVE  LET s == Denotes(w)
             h == db[s] IN
       /\ db' \in [Schemas -> HeldTable] /\ OthersStay(s)
       /\ db'[s].live /\ db'[s].cols = h.cols /\ db'[s].notes = h.notes /\ db'[s].idx = h.idx
       /\ OnColumns(db'[s])
       /\ "cascade" \notin Forms => /\ db'[s].cons = {c \in h.cons : c.name # name}
                                    /\ \A q \in Schemas \ {s} : db'[q].cons = db[q].cons
<1> DEFINE s == Denotes(w)
           h == db[s]
           named == {c \in h.cons : c.name = name}
<1>1. MayDrop(s, named) /\ db' = WithoutCons(s, named) /\ named \subseteq db[s].cons
  BY DEF DropConstraint
<1>2. s \in Schemas /\ h \in HeldTable /\ h.live /\ OnColumns(h) /\ db \in [Schemas -> HeldTable]
  BY LiveTable DEF DropConstraint, ReadsOn
<1>3. h.cons \ named = {c \in h.cons : c.name # name}
  OBVIOUS
<1> HIDE DEF named
<1>4. /\ db' \in [Schemas -> HeldTable]
      /\ \A q \in Schemas : /\ db'[q].live = db[q].live /\ db'[q].cols = db[q].cols
                            /\ db'[q].notes = db[q].notes /\ db'[q].idx = db[q].idx
                            /\ db'[q].cons \subseteq db[q].cons
      /\ "cascade" \notin Forms => /\ db'[s].cons = h.cons \ named
                                   /\ \A q \in Schemas \ {s} : db'[q].cons = db[q].cons
  BY <1>1, <1>2, CascadeIs
<1>5. OthersStay(s) /\ OnColumns(db'[s])
  BY <1>2, <1>4 DEF OthersStay, OnColumns
<1>6. QED
  BY <1>2, <1>3, <1>4, <1>5

LEMMA CreateIndexDb ==
  ASSUME BaseInv, NEW w \in Written, NEW cols \in SUBSET Columns, CreateIndex(w, cols)
  PROVE  LET s == Denotes(w)
             h == db[s] IN
       /\ db' \in [Schemas -> HeldTable] /\ OthersStay(s) /\ \A q \in Schemas \ {s} : db'[q] = db[q]
       /\ db'[s].live /\ db'[s].cols = h.cols /\ db'[s].cons = h.cons /\ db'[s].notes = h.notes
       /\ db'[s].idx = h.idx \cup {cols} /\ OnColumns(db'[s])
<1> DEFINE s == Denotes(w)
           h == db[s]
           new == [h EXCEPT !.idx = h.idx \cup {cols}]
<1>1. s \in Schemas /\ h \in HeldTable /\ h.live /\ OnColumns(h) /\ db \in [Schemas -> HeldTable]
  BY LiveTable DEF CreateIndex, ReadsOn
<1>2. db' = [db EXCEPT ![s] = new]
  BY <1>1 DEF CreateIndex, HeldTable
<1>3. /\ new \in HeldTable /\ new.live /\ new.cols = h.cols /\ new.cons = h.cons
      /\ new.notes = h.notes /\ new.idx = h.idx \cup {cols}
  BY <1>1 DEF HeldTable
<1>4. OnColumns(new)
  BY <1>1, <1>3 DEF OnColumns
<1> HIDE DEF new
<1>5. /\ db' \in [Schemas -> HeldTable] /\ db'[s] = new /\ OthersStay(s)
      /\ \A q \in Schemas \ {s} : db'[q] = db[q]
  BY <1>1, <1>2, <1>3, OneTable
<1>6. QED
  BY <1>3, <1>4, <1>5

LEMMA CommentDb ==
  ASSUME BaseInv, NEW w \in Written, NEW col \in Columns \cup {Table},
         NEW text \in {NoText, Len(comments) + 1}, Comment(w, col, text)
  PROVE  LET s == Denotes(w)
             h == db[s] IN
       /\ db' \in [Schemas -> HeldTable] /\ OthersStay(s) /\ \A q \in Schemas \ {s} : db'[q] = db[q]
       /\ db'[s].live /\ db'[s].cols = h.cols /\ db'[s].cons = h.cons /\ db'[s].idx = h.idx
       /\ db'[s].notes = Noted(h.notes, col, text) /\ OnColumns(db'[s]) /\ text \in Texts
<1> DEFINE s == Denotes(w)
           h == db[s]
           notes == [h.notes EXCEPT ![col] = text]
           new == [h EXCEPT !.notes = notes]
<1>1. s \in Schemas /\ h \in HeldTable /\ h.live /\ OnColumns(h) /\ db \in [Schemas -> HeldTable]
  BY LiveTable DEF Comment, ReadsOn
<1>2. text \in Texts
  <2>1. Len(comments) \in Nat /\ Cardinality(indexes) \in Nat /\ MaxNotes \in Nat
    <3>1. MaxNotes \in Nat
      BY SchemaAssumption
    <3>2. comments \in Seq(Remark) /\ IsFiniteSet(indexes)
      BY DEF BaseInv, TypeInv
    <3>3. QED
      BY <3>1, <3>2, FS_CardinalityType
  <2>2. Len(comments) + Cardinality(indexes) < MaxNotes
    BY DEF Comment, Notes
  <2>3. QED
    BY <2>1, <2>2, BlankTable DEF Texts
<1>3. notes \in [Columns \cup {Table} -> Texts]
  BY <1>1, <1>2 DEF HeldTable
<1>4. db' = [db EXCEPT ![s] = new]
  BY <1>1 DEF Comment, HeldTable
<1> HIDE DEF notes
<1>5. /\ new \in HeldTable /\ new.live /\ new.cols = h.cols /\ new.cons = h.cons
      /\ new.notes = notes /\ new.idx = h.idx
  BY <1>1, <1>3 DEF HeldTable
<1>6. OnColumns(new)
  BY <1>1, <1>5 DEF OnColumns
<1> HIDE DEF new
<1>7. /\ db' \in [Schemas -> HeldTable] /\ db'[s] = new /\ OthersStay(s)
      /\ \A q \in Schemas \ {s} : db'[q] = db[q]
  BY <1>1, <1>4, <1>5, OneTable
<1>8. QED
  BY <1>2, <1>5, <1>6, <1>7 DEF notes, Noted

-----------------------------------------------------------------------------
(* What holds of every script                                              *)

LEMMA TypesAreKept == TypeInv => Kept
BY DEF TypeInv, Kept

\* CREATE TABLE: the record t and the table h it makes.
Created(w, t, h) == LET s == Denotes(w)
                        n == Len(tables) IN
  /\ t.schema = w /\ Flagged(t) /\ OnColumns(t) /\ Mirrors(t, h) /\ Names(t.cols) = Names(h.cols)
  /\ h.live /\ h.idx = {} /\ OnColumns(h) /\ \A c \in Columns \cup {Table} : h.notes[c] = NoText
  /\ db' \in [Schemas -> HeldTable] /\ db'[s] = h /\ \A q \in Schemas \ {s} : db'[q] = db[q]
  /\ n \in Nat /\ DOMAIN tables = 1..n /\ DOMAIN tables' = (1..n) \cup {n + 1} /\ n + 1 \notin 1..n
  /\ tables' \in Seq(Record) /\ tables'[n + 1] = t /\ \A k \in 1..n : tables'[k] = tables[k]
  /\ \A q : Of(q)' = IF q = s THEN Of(q) \cup {n + 1} ELSE Of(q)

LEMMA CreateTableIs ==
  ASSUME BaseInv, NEW w \in Written, NEW cols \in Seq(Columns), NEW pk \in SUBSET Columns,
         \A c \in pk : \E i \in DOMAIN cols : cols[i] = c,
         CreateTable(w, cols, pk)
  PROVE  \E t \in Record, h \in HeldTable : Created(w, t, h)
<1> DEFINE s == Denotes(w)
           n == Len(tables)
           t == NewRecord(w, cols, pk)
           h == NewTable(cols, t)
<1>1. TypeInv /\ tables' = Append(tables, t) /\ db' = [db EXCEPT ![s] = h]
  BY DEF BaseInv, CreateTable, NewRecord, NewTable, OwnKey, Listed
<1>2. /\ t \in Record /\ t.schema = w /\ Flagged(t)
      /\ h \in HeldTable /\ h.live /\ h.idx = {} /\ \A c \in Columns \cup {Table} : h.notes[c] = NoText
      /\ Mirrors(t, h) /\ OnColumns(h)
  BY CreatedIs
<1> HIDE DEF t, h
<1>3. s \in Schemas
  BY DenotesType
<1>4. db' \in [Schemas -> HeldTable] /\ db'[s] = h /\ \A q \in Schemas \ {s} : db'[q] = db[q]
  BY <1>1, <1>2, <1>3 DEF TypeInv
<1>5. /\ n \in Nat /\ tables' \in Seq(Record) /\ Len(tables') = n + 1 /\ tables'[n + 1] = t
      /\ \A k \in 1..n : tables'[k] = tables[k]
  BY <1>1, <1>2, AppendProperties DEF TypeInv
<1>6. DOMAIN tables = 1..n /\ DOMAIN tables' = (1..n) \cup {n + 1} /\ n + 1 \notin 1..n
  BY <1>1, <1>5 DEF TypeInv
<1>7. \A q : Of(q)' = IF q = s THEN Of(q) \cup {n + 1} ELSE Of(q)
  BY <1>2, <1>5, <1>6 DEF Of
<1>8. Names(t.cols) = Names(h.cols)
  BY <1>2, MirrorNames
<1>9. OnColumns(t)
  <2>1. \A c \in t.cons : c \in Constraint /\ Held(c) \in h.cons
    BY <1>2 DEF Record, Mirrors
  <2>2. QED
    BY <1>2, <1>8, <2>1, HeldIs DEF OnColumns
<1>10. Created(w, t, h)
  BY <1>2, <1>4, <1>5, <1>6, <1>7, <1>8, <1>9 DEF Created
<1>11. QED
  BY <1>2, <1>10

\* The record appended is the last one of its table.
LEMMA AppendedIsLast ==
  ASSUME TypeInv, NEW s, NEW n \in Nat, n = Len(tables)
  PROVE  Last(Of(s) \cup {n + 1}) = n + 1
<1> DEFINE R == Of(s) \cup {n + 1}
<1>1. R \in SUBSET (1..(n + 1)) /\ n + 1 \in R /\ n + 1 \in Nat
  <2>1. (1..n) \cup {n + 1} \subseteq 1..(n + 1)
    OBVIOUS
  <2>2. Of(s) \in SUBSET (1..n)
    BY OfIsPlaces
  <2>3. QED
    BY <2>1, <2>2
<1> HIDE DEF R
<1>2. Last(R) \in R /\ \A j \in R : j <= Last(R)
  BY <1>1, LastIsGreatest
<1>3. Last(R) \in 1..(n + 1) /\ n + 1 <= Last(R)
  BY <1>1, <1>2
<1>4. Last(R) = n + 1
  BY <1>3
<1>5. QED
  BY <1>4 DEF R

\* Every other statement leaves the schemas of the records and changes one
\* live table.
LEMMA BaseStays ==
  ASSUME BaseInv, Kept', SchemasStay, NEW s, db' \in [Schemas -> HeldTable], OthersStay(s),
         s \in Schemas /\ db'[s].live => db[s].live /\ OnColumns(db'[s])
  PROVE  BaseInv'
<1>1. TypeInv'
  BY DEF Kept, TypeInv
<1>2. SameWriting' /\ \A q : Of(q)' = Of(q)
  BY SameSchemas DEF BaseInv, Placed
<1>3. ASSUME NEW q \in Schemas, db'[q].live
      PROVE  Of(q)' # {} /\ OnColumns(db'[q])
  <2>1. CASE q = s
    BY <1>2, <1>3, <2>1 DEF BaseInv, Placed
  <2>2. CASE q # s
    <3>1. /\ db[q].live /\ db'[q].cols = db[q].cols
          /\ \A d \in db'[q].cons : \E c \in db[q].cons : d.cols = c.cols
      BY <1>3, <2>2 DEF OthersStay
    <3>2. Of(q) # {} /\ OnColumns(db[q])
      BY <3>1 DEF BaseInv, Placed
    <3>3. QED
      BY <1>2, <3>1, <3>2 DEF OnColumns
  <2>3. QED
    BY <2>1, <2>2
<1>4. QED
  BY <1>1, <1>2, <1>3 DEF BaseInv, Placed

LEMMA CreateTableBase ==
  ASSUME BaseInv, Kept', NEW w \in Written, NEW cols \in Seq(Columns), NEW pk \in SUBSET Columns,
         \A c \in pk : \E i \in DOMAIN cols : cols[i] = c,
         CreateTable(w, cols, pk)
  PROVE  BaseInv'
<1> DEFINE s == Denotes(w)
           n == Len(tables)
<1>0. PICK t \in Record, h \in HeldTable : Created(w, t, h)
  BY CreateTableIs
<1>1. /\ t.schema = w /\ OnColumns(h)
      /\ db' \in [Schemas -> HeldTable] /\ db'[s] = h /\ \A q \in Schemas \ {s} : db'[q] = db[q]
      /\ n \in Nat /\ DOMAIN tables = 1..n /\ DOMAIN tables' = (1..n) \cup {n + 1}
      /\ tables'[n + 1] = t /\ \A k \in 1..n : tables'[k] = tables[k]
      /\ \A q : Of(q)' = IF q = s THEN Of(q) \cup {n + 1} ELSE Of(q)
  BY <1>0 DEF Created
<1>2. \A i \in DOMAIN tables : Denotes(tables[i].schema) = s => tables[i].schema = w
  BY DEF CreateTable
<1>3. Placed /\ TypeInv'
  BY <1>1 DEF BaseInv, TypeInv, Kept
<1>4. SameWriting'
  <2>1. ASSUME NEW i \in DOMAIN tables', NEW j \in DOMAIN tables',
               Denotes(tables'[i].schema) = Denotes(tables'[j].schema)
        PROVE  tables'[i].schema = tables'[j].schema
    <3>1. CASE i \in 1..n /\ j \in 1..n
      BY <1>1, <1>3, <2>1, <3>1 DEF Placed, SameWriting
    <3>2. CASE i = n + 1 /\ j \in 1..n
      BY <1>1, <1>2, <2>1, <3>2
    <3>3. CASE i \in 1..n /\ j = n + 1
      BY <1>1, <1>2, <2>1, <3>3
    <3>4. CASE i = n + 1 /\ j = n + 1
      BY <3>4
    <3>5. QED
      BY <1>1, <3>1, <3>2, <3>3, <3>4
  <2>2. QED
    BY <2>1 DEF SameWriting
<1>5. \A q \in Schemas : db'[q].live => Of(q)' # {} /\ OnColumns(db'[q])
  BY <1>1, <1>3 DEF Placed
<1>6. QED
  BY <1>3, <1>4, <1>5 DEF BaseInv, Placed

LEMMA BaseStep ==
  ASSUME BaseInv, [Next]_vars
  PROVE  BaseInv'
<1>1. Kept /\ Kept'
  BY TypesAreKept, KeptStep DEF BaseInv
<1> DEFINE Goal == BaseInv'
<1>2. ASSUME NEW w \in Written, NEW cols \in {q \in Lists : Len(q) = Cardinality({q[i] : i \in DOMAIN q})},
             NEW pk \in {{}, {cols[1]}}, CreateTable(w, cols, pk)
      PROVE  Goal
  BY <1>1, <1>2, ListedKey, CreateTableBase
<1>3. ASSUME NEW w \in Written, DropTable(w)
      PROVE  Goal
  <2>1. SchemasStay
    BY <1>3 DEF DropTable, SchemasStay
  <2>2. QED
    BY <1>1, <1>3, <2>1, DropTableDb, BaseStays
<1>4. ASSUME NEW w \in Written, NEW c \in Columns,
             NEW cons \in {{}} \cup {{k} : k \in {x \in Constraint : x.cols = {c} /\ x.name = Anonymous}},
             AddColumn(w, c, cons)
      PROVE  Goal
  <2>1. cons \in SUBSET Constraint /\ \A k \in cons : k.cols = {c}
    OBVIOUS
  <2>2. SchemasStay /\ db[Denotes(w)].live
    <3>1. SchemasStay
      BY <1>1, <1>4, <2>1, AddColumnTypes
    <3>2. QED
      BY <1>4, <3>1 DEF AddColumn, ReadsOn, Live
  <2>3. QED
    BY <1>1, <1>4, <2>1, <2>2, AddColumnDb, BaseStays
<1>5. ASSUME NEW w \in Written, NEW c \in Columns, DropColumn(w, c)
      PROVE  Goal
  <2>1. SchemasStay /\ db[Denotes(w)].live
    <3>1. SchemasStay
      BY <1>1, <1>5, DropColumnTypes
    <3>2. QED
      BY <1>5, <3>1 DEF DropColumn, ReadsOn, Live
  <2>2. QED
    BY <1>1, <1>5, <2>1, DropColumnDb, BaseStays
<1>6. ASSUME NEW w \in Written, NEW old \in Columns, NEW new \in Columns, RenameColumn(w, old, new)
      PROVE  Goal
  <2>1. SchemasStay /\ db[Denotes(w)].live
    <3>1. SchemasStay
      BY <1>1, <1>6, RenameColumnTypes
    <3>2. QED
      BY <1>6, <3>1 DEF RenameColumn, ReadsOn, Live
  <2>2. QED
    BY <1>1, <1>6, <2>1, RenameColumnDb, BaseStays
<1>7. ASSUME NEW w \in Written, NEW c \in Columns, NEW nullable \in BOOLEAN, NEW bare \in BOOLEAN,
             ModifyColumn(w, c, nullable, bare)
      PROVE  Goal
  <2>1. SchemasStay /\ db[Denotes(w)].live
    <3>1. SchemasStay
      BY <1>1, <1>7, ModifyColumnTypes
    <3>2. QED
      BY <1>7, <3>1 DEF ModifyColumn, ReadsOn, Live
  <2>2. QED
    BY <1>1, <1>7, <2>1, ModifyColumnDb, BaseStays
<1>8. ASSUME NEW w \in Written, NEW con \in Constraint, AddConstraint(w, con)
      PROVE  Goal
  <2>1. SchemasStay /\ db[Denotes(w)].live
    <3>1. SchemasStay
      BY <1>1, <1>8, ConstraintTypes
    <3>2. QED
      BY <1>8, <3>1 DEF AddConstraint, ReadsOn, Live
  <2>2. QED
    BY <1>1, <1>8, <2>1, AddConstraintDb, BaseStays
<1>9. ASSUME NEW w \in Written, NEW n \in ConNames, DropConstraint(w, n)
      PROVE  Goal
  <2>1. SchemasStay /\ db[Denotes(w)].live
    <3>1. SchemasStay
      BY <1>1, <1>9, ConstraintTypes
    <3>2. QED
      BY <1>9, <3>1 DEF DropConstraint, ReadsOn, Live
  <2>2. QED
    BY <1>1, <1>9, <2>1, DropConstraintDb, BaseStays
<1>10. ASSUME NEW w \in Written, NEW cols \in SUBSET Columns, CreateIndex(w, cols)
       PROVE  Goal
  <2>1. SchemasStay /\ db[Denotes(w)].live
    BY <1>10 DEF CreateIndex, ReadsOn, Live, SchemasStay
  <2>2. QED
    BY <1>1, <1>10, <2>1, CreateIndexDb, BaseStays
<1>11. ASSUME NEW w \in Written, NEW col \in Columns \cup {Table}, NEW text \in {NoText, Len(comments) + 1},
              Comment(w, col, text)
       PROVE  Goal
  <2>1. SchemasStay /\ db[Denotes(w)].live
    BY <1>11 DEF Comment, ReadsOn, Live, SchemasStay
  <2>2. QED
    BY <1>1, <1>11, <2>1, CommentDb, BaseStays
<1>12. CASE UNCHANGED vars
  <2>1. UNCHANGED <<tables, db>> /\ SchemasStay
    BY <1>12 DEF vars, SchemasStay
  <2>2. \A q : Of(q)' = Of(q)
    BY <2>1, SameSchemas
  <2>3. TypeInv'
    BY <1>12 DEF BaseInv, TypeInv, vars
  <2>4. QED
    BY <2>1, <2>2, <2>3 DEF BaseInv, Placed, SameWriting
<1>13. CASE Next
  BY <1>2, <1>3, <1>4, <1>5, <1>6, <1>7, <1>8, <1>9, <1>10, <1>11, <1>13 DEF Next
<1>14. QED
  BY <1>12, <1>13

LEMMA BaseAlways == Spec => []BaseInv
<1>1. Init => BaseInv
  <2> SUFFICES ASSUME Init PROVE BaseInv
    OBVIOUS
  <2>1. TypeInv /\ tables = <<>> /\ \A s \in Schemas : ~db[s].live
    BY TypesInit, BlankTable DEF Init
  <2>2. QED
    BY <2>1 DEF BaseInv, Placed, SameWriting
<1>2. BaseInv /\ [Next]_vars => BaseInv'
  BY BaseStep
<1>3. QED
  BY <1>1, <1>2, PTL DEF Spec

\* The record the reader finds for a live table.
LEMMA Target ==
  ASSUME BaseInv, NEW w \in Written, Live(w), Find(w) # 0
  PROVE  /\ Find(w) = Last(Of(Denotes(w))) /\ Find(w) \in Of(Denotes(w)) /\ Find(w) \in DOMAIN tables
         /\ tables[Find(w)] \in Record
<1>1. Of(Denotes(w)) # {} /\ TypeInv /\ SameWriting
  BY LiveTable DEF BaseInv, Placed
<1>2. Find(w) = Last(Of(Denotes(w)))
  BY <1>1, FindsLast
<1>3. Find(w) \in Of(Denotes(w))
  BY <1>1, <1>2, OfIsPlaces
<1>4. QED
  BY <1>1, <1>2, <1>3, OfIsPlaces DEF Of

-----------------------------------------------------------------------------
(* Comments and indexes                                                    *)

\* The forms that leave a comment or an index at the wrong place.
NoteForms == {"rename indexed", "drop indexed", "readd", "uncomment", "ambiguous"}

\* The notes of the other tables stay as they are.
LEMMA AlterNotes ==
  ASSUME NoteInv, SchemasStay, NEW s, UNCHANGED <<comments, indexes>>, OthersStay(s),
         db'[s].live => \A c \in Columns \ Names(db'[s].cols) : db'[s].notes[c] = NoText,
         db'[s].live /\ Cardinality(Of(s)) = 1 =>
           /\ \A c \in Names(db'[s].cols) \cup {Table} : Remarked(s, c) = db'[s].notes[c]
           /\ Indexed(s) = db'[s].idx
  PROVE  NoteInv'
<1>1. (\A t : Of(t)' = Of(t)) /\ \A v : Find(v)' = Find(v)
  BY SameSchemas
<1>2. (\A t, c : Remarked(t, c)' = Remarked(t, c)) /\ (\A t : Indexed(t)' = Indexed(t))
  BY DEF Remarked, Remarks, Indexed
<1>3. Resolved'
  BY <1>1 DEF NoteInv, Resolved
<1>4. \A t \in Schemas : db'[t].live =>
        \A c \in Columns \ Names(db'[t].cols) : db'[t].notes[c] = NoText
  BY DEF NoteInv, OthersStay
<1>5. ASSUME NEW t \in Schemas, db'[t].live, Cardinality(Of(t)) = 1
      PROVE  /\ \A c \in Names(db'[t].cols) \cup {Table} : Remarked(t, c) = db'[t].notes[c]
             /\ Indexed(t) = db'[t].idx
  <2>1. CASE t = s
    BY <1>5, <2>1
  <2>2. CASE t # s
    <3>1. /\ db'[t].live = db[t].live /\ db'[t].cols = db[t].cols
          /\ db'[t].notes = db[t].notes /\ db'[t].idx = db[t].idx
      BY <2>2 DEF OthersStay
    <3>2. /\ \A c \in Names(db[t].cols) \cup {Table} : Remarked(t, c) = db[t].notes[c]
          /\ Indexed(t) = db[t].idx
      BY <1>5, <3>1 DEF NoteInv
    <3>3. QED
      BY <3>1, <3>2
  <2>3. QED
    BY <2>1, <2>2
<1>6. /\ \A k \in DOMAIN comments : Of(Denotes(comments[k].on)) # {} /\ comments[k].text # NoText
      /\ \A x \in indexes : Of(Denotes(x.on)) # {}
  BY DEF NoteInv
<1>7. QED
  BY <1>1, <1>2, <1>3, <1>4, <1>5, <1>6 DEF NoteInv

\* A statement that keeps the names of the columns of its table keeps what is
\* noted of them.
LEMMA NotesStay ==
  ASSUME NoteInv, SchemasStay, NEW s \in Schemas, UNCHANGED <<comments, indexes>>, OthersStay(s),
         db'[s].live => /\ db[s].live /\ Names(db'[s].cols) = Names(db[s].cols)
                        /\ db'[s].notes = db[s].notes /\ db'[s].idx = db[s].idx
  PROVE  NoteInv'
<1>1. db'[s].live => \A c \in Columns \ Names(db'[s].cols) : db'[s].notes[c] = NoText
  BY DEF NoteInv
<1>2. db'[s].live /\ Cardinality(Of(s)) = 1 =>
        /\ \A c \in Names(db'[s].cols) \cup {Table} : Remarked(s, c) = db'[s].notes[c]
        /\ Indexed(s) = db'[s].idx
  BY DEF NoteInv
<1>3. QED
  BY <1>1, <1>2, AlterNotes

LEMMA CreateTableNotes ==
  ASSUME BaseInv, NoteInv, "ambiguous" \notin Forms,
         NEW w \in Written, NEW cols \in Seq(Columns), NEW pk \in SUBSET Columns,
         \A c \in pk : \E i \in DOMAIN cols : cols[i] = c,
         CreateTable(w, cols, pk)
  PROVE  NoteInv'
<1> DEFINE s == Denotes(w)
           n == Len(tables)
<1>0. PICK t \in Record, h \in HeldTable : Created(w, t, h)
  BY CreateTableIs
<1>1. /\ h.idx = {} /\ \A c \in Columns \cup {Table} : h.notes[c] = NoText
      /\ db' \in [Schemas -> HeldTable] /\ db'[s] = h /\ \A q \in Schemas \ {s} : db'[q] = db[q]
      /\ n \in Nat /\ n + 1 \notin 1..n
      /\ \A q : Of(q)' = IF q = s THEN Of(q) \cup {n + 1} ELSE Of(q)
  BY <1>0 DEF Created
<1>2. UNCHANGED <<comments, indexes>> /\ Resolved'
  BY DEF CreateTable
<1>3. /\ \A k \in DOMAIN comments : Of(Denotes(comments[k].on)) # {} /\ comments[k].text # NoText
      /\ \A x \in indexes : Of(Denotes(x.on)) # {}
  BY DEF NoteInv
<1>4. \A q : Of(q) # {} => Of(q)' # {}
  BY <1>1
<1>5. (\A q, c : Remarked(q, c)' = Remarked(q, c)) /\ \A q : Indexed(q)' = Indexed(q)
  BY <1>2 DEF Remarked, Remarks, Indexed
<1>6. \A q \in Schemas : db'[q].live => \A c \in Columns \ Names(db'[q].cols) : db'[q].notes[c] = NoText
  BY <1>1 DEF NoteInv
<1>7. ASSUME NEW q \in Schemas, db'[q].live, Cardinality(Of(q)') = 1
      PROVE  /\ \A c \in Names(db'[q].cols) \cup {Table} : Remarked(q, c) = db'[q].notes[c]
             /\ Indexed(q) = db'[q].idx
  <2>1. CASE q = s
    <3>1. IsFiniteSet(Of(s)) /\ n + 1 \notin Of(s)
      <4>1. IsFiniteSet(1..n) /\ Of(s) \in SUBSET (1..n)
        BY <1>1, FS_Interval, OfIsPlaces DEF BaseInv
      <4>2. QED
        BY <1>1, <4>1, FS_Subset
    <3>2. Cardinality(Of(s)) \in Nat /\ Cardinality(Of(s)) + 1 = 1
      BY <1>1, <1>7, <2>1, <3>1, FS_AddElement, FS_CardinalityType
    <3>3. Of(s) = {}
      BY <3>1, <3>2, FS_EmptySet
    <3>4. (\A c : Remarks(s, c) = {}) /\ Indexed(s) = {}
      BY <1>3, <3>3 DEF Remarks, Indexed
    <3>5. Names(h.cols) \subseteq Columns
      BY NamesType DEF HeldTable
    <3>6. QED
      BY <1>1, <2>1, <3>4, <3>5 DEF Remarked
  <2>2. CASE q # s
    BY <1>1, <1>7, <2>2 DEF NoteInv
  <2>3. QED
    BY <2>1, <2>2
<1>8. QED
  BY <1>2, <1>3, <1>4, <1>5, <1>6, <1>7 DEF NoteInv

LEMMA AddColumnNotes ==
  ASSUME BaseInv, NoteInv, SchemasStay, "readd" \notin Forms, NEW w \in Written, NEW name \in Columns,
         NEW cons \in SUBSET Constraint, \A c \in cons : c.cols = {name}, AddColumn(w, name, cons)
  PROVE  NoteInv'
<1> DEFINE s == Denotes(w)
           h == db[s]
<1>1. UNCHANGED <<comments, indexes>> /\ (~HasColumn(w, name) => ~Commented(w, name)) /\ Live(w)
  BY DEF AddColumn, ReadsOn
<1>2. s \in Schemas /\ h.live
  BY <1>1, LiveTable
<1>3. /\ OthersStay(s) /\ db'[s].live /\ db'[s].notes = h.notes /\ db'[s].idx = h.idx
      /\ HasColumn(w, name) => db'[s] = h
      /\ ~HasColumn(w, name) => Names(db'[s].cols) = Names(h.cols) \cup {name}
  BY AddColumnDb
<1>4. CASE HasColumn(w, name)
  BY <1>1, <1>2, <1>3, <1>4, NotesStay
<1>5. CASE ~HasColumn(w, name)
  <2>1. Remarked(s, name) = NoText
    BY <1>1, <1>5 DEF Commented, Remarks, Remarked
  <2>2. h.notes[name] = NoText
    BY <1>2, <1>5 DEF NoteInv, HasColumn
  <2>3. Cardinality(Of(s)) = 1 => /\ \A c \in Names(h.cols) \cup {Table} : Remarked(s, c) = h.notes[c]
                                  /\ Indexed(s) = h.idx
    BY <1>2 DEF NoteInv
  <2>4. \A c \in Columns \ Names(h.cols) : h.notes[c] = NoText
    BY <1>2 DEF NoteInv
  <2>5. Names(db'[s].cols) = Names(h.cols) \cup {name}
    BY <1>3, <1>5
  <2>6. QED
    BY <1>1, <1>3, <2>1, <2>2, <2>3, <2>4, <2>5, AlterNotes
<1>6. QED
  BY <1>4, <1>5

LEMMA DropColumnNotes ==
  ASSUME BaseInv, NoteInv, SchemasStay, "drop indexed" \notin Forms, NEW w \in Written, NEW name \in Columns,
         DropColumn(w, name)
  PROVE  NoteInv'
<1> DEFINE s == Denotes(w)
           h == db[s]
           notes == Noted(h.notes, name, NoText)
<1>1. UNCHANGED <<comments, indexes>> /\ Live(w) /\ \A x \in h.idx : name \notin x
  BY DEF DropColumn, ReadsOn
<1>2. s \in Schemas /\ h.live /\ h \in HeldTable
  BY <1>1, LiveTable
<1>3. /\ OthersStay(s) /\ db'[s].notes = notes
      /\ db'[s].idx = {x \in h.idx : name \notin x} /\ Names(db'[s].cols) = Names(h.cols) \ {name}
  BY DropColumnDb
<1>4. db'[s].idx = h.idx
  BY <1>1, <1>3
<1>5. /\ Cardinality(Of(s)) = 1 => /\ \A c \in Names(h.cols) \cup {Table} : Remarked(s, c) = h.notes[c]
                                   /\ Indexed(s) = h.idx
      /\ \A c \in Columns \ Names(h.cols) : h.notes[c] = NoText
  BY <1>2 DEF NoteInv
<1>6. /\ notes[name] = NoText /\ name # Table
      /\ \A c \in (Columns \cup {Table}) \ {name} : notes[c] = h.notes[c]
  <2>1. h.notes \in [Columns \cup {Table} -> Texts]
    BY <1>2 DEF HeldTable
  <2>2. QED
    BY <2>1, SchemaAssumption DEF Noted
<1>7. Names(h.cols) \subseteq Columns
  BY <1>2, NamesType DEF HeldTable
<1> HIDE DEF notes
<1>8. \A c \in Columns \ Names(db'[s].cols) : db'[s].notes[c] = NoText
  BY <1>3, <1>5, <1>6
<1>9. \A c \in Names(db'[s].cols) \cup {Table} : c \in Names(h.cols) \cup {Table} /\ db'[s].notes[c] = h.notes[c]
  BY <1>3, <1>6, <1>7
<1>10. Cardinality(Of(s)) = 1 =>
         /\ \A c \in Names(db'[s].cols) \cup {Table} : Remarked(s, c) = db'[s].notes[c]
         /\ Indexed(s) = db'[s].idx
  BY <1>4, <1>5, <1>9
<1>11. QED
  BY <1>1, <1>3, <1>8, <1>10, AlterNotes

\* The comments on the column follow it to its new name, the others stay.
LEMMA RenamedComments ==
  ASSUME BaseInv, NoteInv, NEW w \in Written, Live(w), Find(w) # 0, NEW old \in Columns, NEW new \in Columns,
         old # new, ~Commented(w, new), comments' = RenameComments(w, old, new)
  PROVE  /\ comments' \in Seq(Remark) /\ DOMAIN comments' = DOMAIN comments
         /\ \A k \in DOMAIN comments : comments'[k].on = comments[k].on /\ comments'[k].text = comments[k].text
         /\ Remarked(Denotes(w), new)' = Remarked(Denotes(w), old)
         /\ \A q, c : ~(q = Denotes(w) /\ c \in {old, new}) => Remarked(q, c)' = Remarked(q, c)
<1> DEFINE s == Denotes(w)
           f(m) == IF Denotes(m.on) = s /\ m.col = old THEN [m EXCEPT !.col = new] ELSE m
<1>1. TypeInv /\ SameWriting /\ NoteInv /\ comments \in Seq(Remark)
  BY DEF BaseInv, Placed, TypeInv
<1>2. Len(comments) \in Nat /\ DOMAIN comments = 1..Len(comments)
      /\ \A k \in DOMAIN comments : comments[k] \in Remark
  BY <1>1
<1>3. ASSUME NEW k \in DOMAIN comments
      PROVE  Find(comments[k].on) = Find(w) <=> Denotes(comments[k].on) = s
  <2>1. comments[k].on \in Written /\ Of(Denotes(comments[k].on)) # {} /\ Find(comments[k].on) # 0
    BY <1>1, <1>2 DEF Remark, NoteInv, Resolved
  <2>2. Of(s) # {}
    BY LiveTable
  <2>3. QED
    BY <1>1, <2>1, <2>2, FindsSame
<1>4. comments' = [k \in DOMAIN comments |-> f(comments[k])]
  BY <1>3 DEF RenameComments
<1>5. \A m \in Remark : /\ f(m) \in Remark /\ f(m).on = m.on /\ f(m).text = m.text
                        /\ f(m).col = IF Denotes(m.on) = s /\ m.col = old THEN new ELSE m.col
  BY DEF Remark
<1> HIDE DEF f
<1>6. /\ comments' \in Seq(Remark) /\ DOMAIN comments' = DOMAIN comments
      /\ \A k \in DOMAIN comments :
           /\ comments'[k].on = comments[k].on /\ comments'[k].text = comments[k].text
           /\ comments'[k].col = IF Denotes(comments[k].on) = s /\ comments[k].col = old
                                 THEN new ELSE comments[k].col
  BY <1>2, <1>4, <1>5
<1>7. \A k \in DOMAIN comments : ~(Denotes(comments[k].on) = s /\ comments[k].col = new)
  BY DEF Commented
<1>8. Remarks(s, new)' = Remarks(s, old)
  BY <1>6, <1>7 DEF Remarks
<1>9. \A q, c : ~(q = s /\ c \in {old, new}) => Remarks(q, c)' = Remarks(q, c)
  BY <1>6 DEF Remarks
<1>10. \A q, c : Remarks(q, c) # {} => Last(Remarks(q, c)) \in DOMAIN comments
  <2>1. ASSUME NEW q, NEW c, Remarks(q, c) # {}
        PROVE  Last(Remarks(q, c)) \in DOMAIN comments
    <3>1. Remarks(q, c) \in SUBSET (1..Len(comments))
      BY <1>2 DEF Remarks
    <3>2. QED
      BY <1>2, <2>1, <3>1, LastIsGreatest
  <2>2. QED
    BY <2>1
<1>11. Remarked(s, new)' = Remarked(s, old)
  <2>1. Remarked(s, new)' = IF Remarks(s, old) = {} THEN NoText ELSE comments'[Last(Remarks(s, old))].text
    BY <1>8 DEF Remarked
  <2>2. QED
    BY <1>6, <1>10, <2>1 DEF Remarked
<1>12. ASSUME NEW q, NEW c, ~(q = s /\ c \in {old, new})
       PROVE  Remarked(q, c)' = Remarked(q, c)
  <2>1. Remarked(q, c)' = IF Remarks(q, c) = {} THEN NoText ELSE comments'[Last(Remarks(q, c))].text
    BY <1>9, <1>12 DEF Remarked
  <2>2. QED
    BY <1>6, <1>10, <2>1 DEF Remarked
<1>13. QED
  BY <1>6, <1>11, <1>12

LEMMA RenameColumnNotes ==
  ASSUME BaseInv, NoteInv, SchemasStay, "rename indexed" \notin Forms, "readd" \notin Forms, "ambiguous" \notin Forms,
         NEW w \in Written, NEW old \in Columns, NEW new \in Columns, RenameColumn(w, old, new)
  PROVE  NoteInv'
<1> DEFINE s == Denotes(w)
           h == db[s]
           hcols == MovedColumns(h.cols, old, new)
           notes == Renoted(h.notes, old, new)
<1>1. /\ Live(w) /\ Find(w) # 0 /\ HasColumn(w, old) /\ ~HasColumn(w, new) /\ ~Commented(w, new)
      /\ \A x \in h.idx : old \notin x
      /\ comments' = RenameComments(w, old, new) /\ indexes' = indexes
  BY DEF RenameColumn, ReadsOn
<1>2. s \in Schemas /\ h \in HeldTable /\ h.live
  BY <1>1, LiveTable
<1>3. /\ h.cols \in Seq(HeldColumn) /\ h.idx \in SUBSET SUBSET Columns
      /\ h.notes \in [Columns \cup {Table} -> Texts]
  BY <1>2 DEF HeldTable
<1>4. old \in Names(h.cols) /\ new \notin Names(h.cols) /\ old # new /\ Names(h.cols) \subseteq Columns
  BY <1>1, <1>3, NamesType DEF HasColumn
<1>5. MovedSets(h.idx, old, new) = h.idx
  <2>1. ASSUME NEW x \in h.idx
        PROVE  Moved(x, old, new) = x
    <3>1. x \in SUBSET Columns /\ old \notin x
      BY <1>1, <1>3
    <3>2. QED
      BY <3>1 DEF Moved, Swap
  <2>2. QED
    BY <2>1 DEF MovedSets
<1>6. /\ notes[new] = h.notes[old] /\ notes[old] = NoText
      /\ \A c \in (Columns \cup {Table}) \ {old, new} : notes[c] = h.notes[c]
      /\ old # Table /\ new # Table
  BY <1>3, <1>4, SchemaAssumption DEF Renoted
<1>7. /\ db' \in [Schemas -> HeldTable]
      /\ \A q \in Schemas \ {s} : /\ db'[q].live = db[q].live /\ db'[q].cols = db[q].cols
                                  /\ db'[q].notes = db[q].notes /\ db'[q].idx = db[q].idx
      /\ db'[s].cols = hcols /\ Names(hcols) = (Names(h.cols) \ {old}) \cup {new}
      /\ db'[s].notes = notes /\ db'[s].idx = MovedSets(h.idx, old, new)
  <2>0. OthersStay(s)
    BY RenameColumnDb
  <2>1. /\ db' \in [Schemas -> HeldTable]
        /\ db'[s].cols = hcols /\ Names(db'[s].cols) = Moved(Names(h.cols), old, new)
    BY RenameColumnDb
  <2>2. db'[s].notes = notes /\ db'[s].idx = MovedSets(h.idx, old, new)
    BY RenameColumnDb
  <2>3. Moved(Names(h.cols), old, new) = (Names(h.cols) \ {old}) \cup {new}
    <3> DEFINE N == Names(h.cols)
    <3>1. N \in SUBSET Columns /\ old \in N /\ new \notin N
      BY <1>4
    <3> HIDE DEF N
    <3>2. Moved(N, old, new) = (N \ {old}) \cup {new}
      BY <3>1, MovedIs
    <3>3. QED
      BY <3>2 DEF N
  <2>4. QED
    BY <2>0, <2>1, <2>2, <2>3 DEF OthersStay
<1>8. db'[s].idx = h.idx
  BY <1>5, <1>7
<1> HIDE DEF hcols, notes
<1>9. (\A q : Of(q)' = Of(q)) /\ \A v : Find(v)' = Find(v)
  BY SameSchemas
<1>10. /\ DOMAIN comments' = DOMAIN comments
       /\ \A k \in DOMAIN comments : comments'[k].on = comments[k].on /\ comments'[k].text = comments[k].text
       /\ Remarked(s, new)' = Remarked(s, old)
       /\ \A q, c : ~(q = s /\ c \in {old, new}) => Remarked(q, c)' = Remarked(q, c)
  BY <1>1, <1>4, RenamedComments
<1>11. /\ \A k \in DOMAIN comments' : Of(Denotes(comments'[k].on)) # {} /\ comments'[k].text # NoText
      /\ \A x \in indexes' : Of(Denotes(x.on)) # {}
  BY <1>1, <1>10 DEF NoteInv
<1>12. Resolved'
  <2>0. Resolved
    BY DEF NoteInv
  <2>1. \A r \in {comments'[i].on : i \in DOMAIN comments'} \cup {x.on : x \in indexes} : Find(r) # 0
    <3>1. \A i \in DOMAIN comments : Find(comments[i].on) # 0
      BY <2>0 DEF Resolved
    <3>2. \A x \in indexes : Find(x.on) # 0
      BY <2>0 DEF Resolved
    <3>3. \A i \in DOMAIN comments' : Find(comments'[i].on) # 0
      BY <1>10, <3>1
    <3>4. QED
      BY <3>2, <3>3
  <2>2. QED
    BY <1>1, <1>9, <2>1 DEF Resolved
<1>13. \A q : Indexed(q)' = Indexed(q)
  BY <1>1 DEF Indexed
<1>14. \A q \in Schemas : db'[q].live => \A c \in Columns \ Names(db'[q].cols) : db'[q].notes[c] = NoText
  <2>1. ASSUME NEW c \in Columns \ Names(hcols)
        PROVE  notes[c] = NoText
    <3>1. CASE c = old
      BY <1>6, <3>1
    <3>2. CASE c # old
      <4>1. c # new /\ c \in Columns \ Names(h.cols)
        BY <1>7, <2>1, <3>2
      <4>2. h.notes[c] = NoText
        BY <1>2, <4>1 DEF NoteInv
      <4>3. QED
        BY <1>6, <3>2, <4>1, <4>2
    <3>3. QED
      BY <3>1, <3>2
  <2>2. QED
    <3>1. \A q \in Schemas \ {s} : db[q].live => \A c \in Columns \ Names(db[q].cols) : db[q].notes[c] = NoText
      BY DEF NoteInv
    <3>2. ASSUME NEW q \in Schemas, db'[q].live, NEW c \in Columns \ Names(db'[q].cols)
          PROVE  db'[q].notes[c] = NoText
      <4>1. CASE q = s
        BY <1>7, <2>1, <3>2, <4>1
      <4>2. CASE q # s
        <5>1. /\ db'[q].live = db[q].live /\ db'[q].cols = db[q].cols
              /\ db'[q].notes = db[q].notes
          BY <1>7, <4>2
        <5>2. QED
          BY <3>1, <3>2, <4>2, <5>1
      <4>3. QED
        BY <4>1, <4>2
    <3>3. QED
      BY <3>2
<1>15. ASSUME NEW q \in Schemas, db'[q].live, Cardinality(Of(q)) = 1
      PROVE  /\ \A c \in Names(db'[q].cols) \cup {Table} : Remarked(q, c)' = db'[q].notes[c]
             /\ Indexed(q) = db'[q].idx
  <2>1. db[q].live
    BY <1>2, <1>7, <1>15
  <2>2. /\ \A c \in Names(db[q].cols) \cup {Table} : Remarked(q, c) = db[q].notes[c]
        /\ Indexed(q) = db[q].idx
    BY <1>15, <2>1 DEF NoteInv
  <2>3. CASE q = s
    <3>1. ASSUME NEW c \in Names(hcols) \cup {Table}
          PROVE  Remarked(s, c)' = notes[c]
      <4>1. CASE c = new
        BY <1>4, <1>6, <1>10, <2>2, <2>3, <4>1
      <4>2. CASE c # new
        <5>1. c # old /\ c \in Names(h.cols) \cup {Table} /\ c \in (Columns \cup {Table}) \ {old, new}
          BY <1>4, <1>7, <1>6, <3>1, <4>2
        <5>2. QED
          BY <1>6, <1>10, <2>2, <2>3, <5>1
      <4>3. QED
        BY <4>1, <4>2
    <3>2. QED
      BY <1>7, <1>8, <2>2, <2>3, <3>1
  <2>4. CASE q # s
    BY <1>7, <1>10, <2>2, <2>4
  <2>5. QED
    BY <2>3, <2>4
<1>16. QED
  BY <1>9, <1>11, <1>12, <1>13, <1>14, <1>15 DEF NoteInv

LEMMA CreateIndexNotes ==
  ASSUME BaseInv, NoteInv, "ambiguous" \notin Forms, NEW w \in Written, NEW cols \in SUBSET Columns,
         CreateIndex(w, cols)
  PROVE  NoteInv'
<1> DEFINE s == Denotes(w)
           h == db[s]
           e == [on |-> w, cols |-> cols]
<1>1. Live(w) /\ Find(w) # 0 /\ UNCHANGED <<tables, comments>> /\ indexes' = indexes \cup {e}
  BY DEF CreateIndex, ReadsOn
<1>2. s \in Schemas /\ h.live /\ Of(s) # {}
  BY <1>1, LiveTable
<1>3. /\ \A q \in Schemas \ {s} : db'[q] = db[q]
      /\ db'[s].cols = h.cols /\ db'[s].notes = h.notes /\ db'[s].idx = h.idx \cup {cols}
  BY CreateIndexDb
<1>4. (\A q : Of(q)' = Of(q)) /\ \A v : Find(v)' = Find(v)
  BY <1>1, SameSchemas DEF SchemasStay
<1>5. \A q, c : Remarked(q, c)' = Remarked(q, c)
  BY <1>1 DEF Remarked, Remarks
<1>6. e.on = w /\ e.cols = cols
  OBVIOUS
<1> HIDE DEF e
<1>7. Resolved'
  <2>1. \A r \in {comments[i].on : i \in DOMAIN comments} \cup {x.on : x \in indexes'} : Find(r) # 0
    BY <1>1, <1>6 DEF NoteInv, Resolved
  <2>2. QED
    BY <1>1, <1>4, <2>1 DEF Resolved
<1>8. \A x \in indexes' : Of(Denotes(x.on)) # {}
  BY <1>1, <1>2, <1>6 DEF NoteInv
<1>9. /\ \A q : q # s => Indexed(q)' = Indexed(q)
      /\ Indexed(s)' = Indexed(s) \cup {cols}
  BY <1>1, <1>6 DEF Indexed
<1>10. \A q \in Schemas : db'[q].live => \A c \in Columns \ Names(db'[q].cols) : db'[q].notes[c] = NoText
  BY <1>2, <1>3 DEF NoteInv
<1>11. ASSUME NEW q \in Schemas, db'[q].live, Cardinality(Of(q)) = 1
      PROVE  /\ \A c \in Names(db'[q].cols) \cup {Table} : Remarked(q, c) = db'[q].notes[c]
             /\ Indexed(q)' = db'[q].idx
  <2>1. db[q].live
    BY <1>2, <1>3, <1>11
  <2>2. /\ \A c \in Names(db[q].cols) \cup {Table} : Remarked(q, c) = db[q].notes[c]
        /\ Indexed(q) = db[q].idx
    BY <1>11, <2>1 DEF NoteInv
  <2>3. QED
    BY <1>3, <1>9, <2>2
<1>12. \A k \in DOMAIN comments : Of(Denotes(comments[k].on)) # {} /\ comments[k].text # NoText
  BY DEF NoteInv
<1>13. QED
  BY <1>1, <1>4, <1>5, <1>7, <1>8, <1>10, <1>11, <1>12 DEF NoteInv

\* A comment appended is the one that counts for its object.
LEMMA CommentAppended ==
  ASSUME comments \in Seq(Remark), NEW m \in Remark, comments' = Append(comments, m)
  PROVE  /\ comments' \in Seq(Remark) /\ Remarked(Denotes(m.on), m.col)' = m.text
         /\ \A q, c : ~(q = Denotes(m.on) /\ c = m.col) => Remarked(q, c)' = Remarked(q, c)
         /\ \A k \in DOMAIN comments' : comments'[k] = m \/ (k \in DOMAIN comments /\ comments'[k] = comments[k])
<1> DEFINE n == Len(comments)
<1>1. /\ n \in Nat /\ comments' \in Seq(Remark) /\ Len(comments') = n + 1 /\ comments'[n + 1] = m
      /\ \A k \in 1..n : comments'[k] = comments[k]
  BY AppendProperties
<1>2. DOMAIN comments = 1..n /\ DOMAIN comments' = (1..n) \cup {n + 1}
  BY <1>1
<1>3. ASSUME NEW q, NEW c
      PROVE  /\ Remarks(q, c) \in SUBSET (1..n)
             /\ Remarks(q, c)' = IF q = Denotes(m.on) /\ c = m.col THEN Remarks(q, c) \cup {n + 1}
                                 ELSE Remarks(q, c)
  BY <1>1, <1>2 DEF Remarks
<1>4. ASSUME NEW q, NEW c, ~(q = Denotes(m.on) /\ c = m.col)
      PROVE  Remarked(q, c)' = Remarked(q, c)
  <2>1. Remarks(q, c)' = Remarks(q, c) /\ Remarks(q, c) \in SUBSET (1..n)
    BY <1>3, <1>4
  <2>2. Remarks(q, c) # {} => Last(Remarks(q, c)) \in 1..n
    BY <1>1, <2>1, LastIsGreatest
  <2>3. QED
    BY <1>1, <2>1, <2>2 DEF Remarked
<1>5. Remarked(Denotes(m.on), m.col)' = m.text
  <2> DEFINE R == Remarks(Denotes(m.on), m.col) \cup {n + 1}
  <2>1. Remarks(Denotes(m.on), m.col)' = R /\ R \in SUBSET (1..(n + 1)) /\ n + 1 \in R
    <3>1. Remarks(Denotes(m.on), m.col) \in SUBSET (1..n)
      BY <1>3
    <3>2. (1..n) \cup {n + 1} \subseteq 1..(n + 1)
      BY <1>1
    <3>3. QED
      BY <1>3, <3>1, <3>2
  <2> HIDE DEF R
  <2>2. Last(R) \in R /\ \A j \in R : j <= Last(R)
    <3>1. n + 1 \in Nat /\ R # {}
      BY <1>1, <2>1
    <3>2. QED
      BY <2>1, <3>1, LastIsGreatest
  <2>3. Last(R) = n + 1
    <3>1. Last(R) \in 1..(n + 1) /\ n + 1 <= Last(R)
      BY <2>1, <2>2
    <3>2. QED
      BY <1>1, <3>1
  <2>4. QED
    BY <1>1, <2>1, <2>3 DEF Remarked
<1>6. \A k \in DOMAIN comments' : comments'[k] = m \/ (k \in DOMAIN comments /\ comments'[k] = comments[k])
  BY <1>1, <1>2
<1>7. QED
  BY <1>1, <1>4, <1>5, <1>6

LEMMA CommentNotes ==
  ASSUME BaseInv, NoteInv, "uncomment" \notin Forms, "ambiguous" \notin Forms,
         NEW w \in Written, NEW col \in Columns \cup {Table},
         NEW text \in {NoText, Len(comments) + 1}, Comment(w, col, text)
  PROVE  NoteInv'
<1> DEFINE s == Denotes(w)
           h == db[s]
           m == [on |-> w, col |-> col, text |-> text]
           notes == Noted(h.notes, col, text)
<1>1. /\ Live(w) /\ Find(w) # 0 /\ text # NoText /\ UNCHANGED <<tables, indexes>>
      /\ col \in Names(h.cols) \cup {Table} /\ comments' = Append(comments, m)
  BY DEF Comment, ReadsOn
<1>2. s \in Schemas /\ h \in HeldTable /\ h.live /\ Of(s) # {}
  BY <1>1, LiveTable
<1>3. /\ \A q \in Schemas \ {s} : db'[q] = db[q]
      /\ db'[s].cols = h.cols /\ db'[s].idx = h.idx /\ db'[s].notes = notes /\ text \in Texts
  BY CommentDb
<1>4. m \in Remark /\ m.on = w /\ m.col = col /\ m.text = text
  BY <1>3 DEF Remark
<1> HIDE DEF m
<1>5. notes[col] = text /\ \A c \in (Columns \cup {Table}) \ {col} : notes[c] = h.notes[c]
  BY <1>2, <1>3 DEF HeldTable, Noted
<1> HIDE DEF notes
<1>6. (\A q : Of(q)' = Of(q)) /\ \A v : Find(v)' = Find(v)
  BY <1>1, SameSchemas DEF SchemasStay
<1>7. /\ Remarked(s, col)' = text
      /\ \A q, c : ~(q = s /\ c = col) => Remarked(q, c)' = Remarked(q, c)
      /\ \A k \in DOMAIN comments' : comments'[k] = m \/ (k \in DOMAIN comments /\ comments'[k] = comments[k])
  BY <1>1, <1>4, CommentAppended DEF BaseInv, TypeInv
<1>8. Resolved'
  <2>1. \A r \in {comments'[i].on : i \in DOMAIN comments'} \cup {x.on : x \in indexes} : Find(r) # 0
    BY <1>1, <1>4, <1>7 DEF NoteInv, Resolved
  <2>2. QED
    BY <1>1, <1>6, <2>1 DEF Resolved
<1>9. \A k \in DOMAIN comments' : Of(Denotes(comments'[k].on)) # {} /\ comments'[k].text # NoText
  BY <1>1, <1>2, <1>4, <1>7 DEF NoteInv
<1>10. \A q : Indexed(q)' = Indexed(q)
  BY <1>1 DEF Indexed
<1>11. Names(h.cols) \subseteq Columns
  BY <1>2, NamesType DEF HeldTable
<1>12. \A q \in Schemas : db'[q].live => \A c \in Columns \ Names(db'[q].cols) : db'[q].notes[c] = NoText
  <2>1. ASSUME NEW c \in Columns \ Names(h.cols)
        PROVE  notes[c] = NoText
    <3>1. c # col
      BY <1>1, <2>1, SchemaAssumption
    <3>2. h.notes[c] = NoText
      BY <1>2, <2>1 DEF NoteInv
    <3>3. QED
      BY <1>5, <3>1, <3>2
  <2>2. QED
    BY <1>3, <2>1 DEF NoteInv
<1>13. ASSUME NEW q \in Schemas, db'[q].live, Cardinality(Of(q)) = 1
      PROVE  /\ \A c \in Names(db'[q].cols) \cup {Table} : Remarked(q, c)' = db'[q].notes[c]
             /\ Indexed(q) = db'[q].idx
  <2>1. db[q].live
    BY <1>2, <1>3, <1>13
  <2>2. /\ \A c \in Names(db[q].cols) \cup {Table} : Remarked(q, c) = db[q].notes[c]
        /\ Indexed(q) = db[q].idx
    BY <1>13, <2>1 DEF NoteInv
  <2>3. CASE q = s
    BY <1>5, <1>3, <1>7, <1>11, <2>2, <2>3
  <2>4. CASE q # s
    BY <1>3, <1>7, <2>2, <2>4
  <2>5. QED
    BY <2>3, <2>4
<1>14. \A x \in indexes : Of(Denotes(x.on)) # {}
  BY DEF NoteInv
<1>15. QED
  BY <1>1, <1>6, <1>8, <1>9, <1>10, <1>12, <1>13, <1>14 DEF NoteInv


LEMMA NoteStep ==
  ASSUME BaseInv, NoteInv, Forms \cap NoteForms = {}, [Next]_vars
  PROVE  NoteInv'
<1>1. Kept /\ Kept'
  BY TypesAreKept, KeptStep DEF BaseInv
<1>2. /\ "rename indexed" \notin Forms /\ "drop indexed" \notin Forms /\ "readd" \notin Forms
      /\ "uncomment" \notin Forms /\ "ambiguous" \notin Forms
  BY DEF NoteForms
<1> DEFINE Goal == NoteInv'
<1>3. ASSUME NEW w \in Written, NEW cols \in {q \in Lists : Len(q) = Cardinality({q[i] : i \in DOMAIN q})},
             NEW pk \in {{}, {cols[1]}}, CreateTable(w, cols, pk)
      PROVE  Goal
  BY <1>2, <1>3, ListedKey, CreateTableNotes
<1>4. ASSUME NEW w \in Written, DropTable(w)
      PROVE  Goal
  <2>1. SchemasStay /\ Denotes(w) \in Schemas /\ UNCHANGED <<comments, indexes>>
    BY <1>4, DenotesType DEF DropTable, SchemasStay
  <2>2. OthersStay(Denotes(w)) /\ ~db'[Denotes(w)].live
    BY <1>4, DropTableDb
  <2>3. QED
    BY <2>1, <2>2, NotesStay
<1>5. ASSUME NEW w \in Written, NEW c \in Columns,
             NEW cons \in {{}} \cup {{k} : k \in {x \in Constraint : x.cols = {c} /\ x.name = Anonymous}},
             AddColumn(w, c, cons)
      PROVE  Goal
  <2>1. cons \in SUBSET Constraint /\ \A k \in cons : k.cols = {c}
    OBVIOUS
  <2>2. SchemasStay
    BY <1>1, <1>5, <2>1, AddColumnTypes
  <2>3. QED
    BY <1>2, <1>5, <2>1, <2>2, AddColumnNotes
<1>6. ASSUME NEW w \in Written, NEW c \in Columns, DropColumn(w, c)
      PROVE  Goal
  <2>1. SchemasStay
    BY <1>1, <1>6, DropColumnTypes
  <2>2. QED
    BY <1>2, <1>6, <2>1, DropColumnNotes
<1>7. ASSUME NEW w \in Written, NEW old \in Columns, NEW new \in Columns, RenameColumn(w, old, new)
      PROVE  Goal
  <2>1. SchemasStay
    BY <1>1, <1>7, RenameColumnTypes
  <2>2. QED
    BY <1>2, <1>7, <2>1, RenameColumnNotes
<1>8. ASSUME NEW w \in Written, NEW c \in Columns, NEW nullable \in BOOLEAN, NEW bare \in BOOLEAN,
             ModifyColumn(w, c, nullable, bare)
      PROVE  Goal
  <2>1. SchemasStay
    BY <1>1, <1>8, ModifyColumnTypes
  <2>2. Denotes(w) \in Schemas /\ db[Denotes(w)].live /\ UNCHANGED <<comments, indexes>>
    BY <1>8, DenotesType DEF ModifyColumn, ReadsOn, Live
  <2>3. /\ OthersStay(Denotes(w)) /\ Names(db'[Denotes(w)].cols) = Names(db[Denotes(w)].cols)
        /\ db'[Denotes(w)].notes = db[Denotes(w)].notes /\ db'[Denotes(w)].idx = db[Denotes(w)].idx
    BY <1>8, ModifyColumnDb
  <2>4. QED
    BY <2>1, <2>2, <2>3, NotesStay
<1>9. ASSUME NEW w \in Written, NEW con \in Constraint, AddConstraint(w, con)
      PROVE  Goal
  <2>1. SchemasStay
    BY <1>1, <1>9, ConstraintTypes
  <2>2. Denotes(w) \in Schemas /\ db[Denotes(w)].live /\ UNCHANGED <<comments, indexes>>
    BY <1>9, DenotesType DEF AddConstraint, ReadsOn, Live
  <2>3. /\ OthersStay(Denotes(w)) /\ db'[Denotes(w)].cols = db[Denotes(w)].cols
        /\ db'[Denotes(w)].notes = db[Denotes(w)].notes /\ db'[Denotes(w)].idx = db[Denotes(w)].idx
    BY <1>9, AddConstraintDb
  <2>4. QED
    BY <2>1, <2>2, <2>3, NotesStay
<1>10. ASSUME NEW w \in Written, NEW n \in ConNames, DropConstraint(w, n)
       PROVE  Goal
  <2>1. SchemasStay
    BY <1>1, <1>10, ConstraintTypes
  <2>2. Denotes(w) \in Schemas /\ db[Denotes(w)].live /\ UNCHANGED <<comments, indexes>>
    BY <1>10, DenotesType DEF DropConstraint, ReadsOn, Live
  <2>3. /\ OthersStay(Denotes(w)) /\ db'[Denotes(w)].cols = db[Denotes(w)].cols
        /\ db'[Denotes(w)].notes = db[Denotes(w)].notes /\ db'[Denotes(w)].idx = db[Denotes(w)].idx
    BY <1>10, DropConstraintDb
  <2>4. QED
    BY <2>1, <2>2, <2>3, NotesStay
<1>11. ASSUME NEW w \in Written, NEW cols \in SUBSET Columns, CreateIndex(w, cols)
       PROVE  Goal
  BY <1>2, <1>11, CreateIndexNotes
<1>12. ASSUME NEW w \in Written, NEW col \in Columns \cup {Table}, NEW text \in {NoText, Len(comments) + 1},
              Comment(w, col, text)
       PROVE  Goal
  BY <1>2, <1>12, CommentNotes
<1>13. CASE UNCHANGED vars
  <2>1. /\ UNCHANGED <<tables, comments, indexes, length, db>>
        /\ \A s : Of(s)' = Of(s) /\ Indexed(s)' = Indexed(s)
        /\ \A s, c : Remarked(s, c)' = Remarked(s, c)
        /\ Resolved' = Resolved
    BY <1>13 DEF vars, Of, Indexed, Remarked, Remarks, Resolved, Find
  <2>2. QED
    BY <2>1 DEF NoteInv
<1>14. CASE Next
  BY <1>3, <1>4, <1>5, <1>6, <1>7, <1>8, <1>9, <1>10, <1>11, <1>12, <1>14 DEF Next
<1>15. QED
  BY <1>13, <1>14

\* A live table is found by its own schema.
LEMMA FindsLive ==
  ASSUME BaseInv, NEW s \in Schemas, db[s].live
  PROVE  /\ s \in Written /\ Denotes(s) = s /\ Of(s) # {}
         /\ Find(s) = Last(Of(s)) /\ Find(s) \in Of(s) /\ Find(s) # 0
<1>1. s \in Written /\ Denotes(s) = s /\ s # Unqualified
  BY SchemaAssumption DEF Written, Denotes
<1>2. Of(s) # {} /\ TypeInv /\ SameWriting
  BY DEF BaseInv, Placed
<1>3. Find(s) = Last(Of(s))
  BY <1>1, <1>2, FindsLast
<1>4. Find(s) \in Of(s) /\ Of(s) \in SUBSET (1..Len(tables)) /\ Len(tables) \in Nat
  BY <1>2, <1>3, OfIsPlaces
<1>5. QED
  BY <1>1, <1>2, <1>3, <1>4

LEMMA NotesAreRead == BaseInv /\ NoteInv => AnnotationsAreRead
<1> SUFFICES ASSUME BaseInv, NoteInv, NEW s \in Schemas, db[s].live, Cardinality(Of(s)) = 1
             PROVE  /\ \A c \in Names(db[s].cols) \cup {Table} : NoteOf(Find(s), c) = db[s].notes[c]
                    /\ IndexesOf(Find(s)) = db[s].idx
  BY DEF AnnotationsAreRead, Of
<1>1. TypeInv /\ SameWriting
  BY DEF BaseInv, Placed
<1>2. s \in Written /\ Denotes(s) = s /\ Of(s) # {} /\ Find(s) # 0
  BY FindsLive
<1>3. \A v \in Written : Find(v) # 0 /\ Of(Denotes(v)) # {} => (Find(v) = Find(s) <=> Denotes(v) = s)
  BY <1>1, <1>2, FindsSame
<1>4. \A k \in DOMAIN comments : /\ Find(comments[k].on) = Find(s) <=> Denotes(comments[k].on) = s
                                 /\ comments[k].text # NoText
  <2>1. ASSUME NEW k \in DOMAIN comments
        PROVE  /\ comments[k].on \in Written /\ Of(Denotes(comments[k].on)) # {}
               /\ Find(comments[k].on) # 0 /\ comments[k].text # NoText
    <3>1. comments[k] \in Remark
      BY <1>1 DEF TypeInv
    <3>2. QED
      BY <3>1 DEF NoteInv, Resolved, Remark
  <2>2. QED
    BY <1>3, <2>1
<1>5. \A x \in indexes : Find(x.on) = Find(s) <=> Denotes(x.on) = s
  <2>1. \A x \in indexes : x.on \in Written /\ Of(Denotes(x.on)) # {} /\ Find(x.on) # 0
    BY <1>1 DEF TypeInv, NoteInv, Resolved
  <2>2. QED
    BY <1>3, <2>1
<1>6. ASSUME NEW c
      PROVE  NoteOf(Find(s), c) = Remarked(s, c)
  <2>1. {k \in DOMAIN comments : /\ Find(comments[k].on) = Find(s) /\ comments[k].col = c
                                 /\ comments[k].text # NoText} = Remarks(s, c)
    BY <1>4 DEF Remarks
  <2>2. QED
    BY <2>1 DEF NoteOf, Remarked
<1>7. IndexesOf(Find(s)) = Indexed(s)
  <2>1. {y \in indexes : Find(y.on) = Find(s)} = {y \in indexes : Denotes(y.on) = s}
    BY <1>5
  <2>2. QED
    BY <2>1 DEF IndexesOf, Indexed
<1>8. QED
  BY <1>6, <1>7 DEF NoteInv

-----------------------------------------------------------------------------
(* The structure of tables                                                 *)

\* The forms that make the reader take the structure of a table otherwise
\* than the database.
StructForms == {"cascade", "recolumn", "bare modify", "twin foreign", "bare reference",
                "rename referenced", "ambiguous"}

\* What the reader finds of a live table.
Mirrored(w) == tables[Find(w)] \in Record /\ Mirrors(tables[Find(w)], db[Denotes(w)])

LEMMA TargetMirrors ==
  ASSUME BaseInv, StructInv, NEW w \in Written, Live(w), Find(w) # 0
  PROVE  Mirrored(w)
<1>1. Denotes(w) \in Schemas /\ db[Denotes(w)].live
  BY LiveTable
<1>2. Find(w) = Last(Of(Denotes(w))) /\ tables[Find(w)] \in Record
  BY Target
<1>3. QED
  BY <1>1, <1>2 DEF StructInv, Mirrored

\* The record found is changed as the table is, the other tables stay.
LEMMA AlterMirrors ==
  ASSUME BaseInv, StructInv, SchemasStay, NEW w \in Written, Live(w), Find(w) # 0,
         NEW u, tables' = [tables EXCEPT ![Find(w)] = u], Mirrors(u, db'[Denotes(w)]),
         OthersStay(Denotes(w)), \A q \in Schemas \ {Denotes(w)} : db'[q].cons = db[q].cons
  PROVE  StructInv'
<1>1. /\ Find(w) = Last(Of(Denotes(w))) /\ Find(w) \in Of(Denotes(w)) /\ Find(w) \in DOMAIN tables
      /\ TypeInv
  BY Target DEF BaseInv
<1>2. /\ tables'[Find(w)] = u
      /\ \A i \in DOMAIN tables : i # Find(w) => tables'[i] = tables[i]
  BY <1>1 DEF TypeInv
<1>3. \A s : Of(s)' = Of(s)
  BY SameSchemas
<1>4. ASSUME NEW s \in Schemas, db'[s].live
      PROVE  Mirrors(tables'[Last(Of(s))], db'[s])
  <2>1. CASE s = Denotes(w)
    BY <1>1, <1>2, <2>1
  <2>2. CASE s # Denotes(w)
    <3>1. db'[s].cols = db[s].cols /\ db'[s].cons = db[s].cons /\ db[s].live
      BY <1>4, <2>2 DEF OthersStay
    <3>2. Of(s) # {} /\ Mirrors(tables[Last(Of(s))], db[s])
      BY <3>1 DEF StructInv, BaseInv, Placed
    <3>3. Last(Of(s)) \in Of(s)
      BY <1>1, <3>2, OfIsPlaces
    <3>4. Last(Of(s)) \in DOMAIN tables /\ Last(Of(s)) # Find(w)
      BY <1>1, <2>2, <3>3 DEF Of
    <3>5. QED
      BY <1>2, <3>1, <3>2, <3>4 DEF Mirrors
  <2>3. QED
    BY <2>1, <2>2
<1>5. QED
  BY <1>3, <1>4 DEF StructInv

\* Statements that leave the records, the columns and the constraints alone.
LEMMA MirrorsStay ==
  ASSUME StructInv, UNCHANGED tables,
         \A s \in Schemas : db'[s].live => /\ db[s].live /\ db'[s].cols = db[s].cols
                                           /\ db'[s].cons = db[s].cons
  PROVE  StructInv'
<1>1. \A s : Of(s)' = Of(s)
  BY SameSchemas DEF SchemasStay
<1>2. \A s \in Schemas : db'[s].live => Mirrors(tables[Last(Of(s))], db'[s])
  BY DEF StructInv, Mirrors
<1>3. QED
  BY <1>1, <1>2 DEF StructInv

LEMMA CreateTableMirrors ==
  ASSUME BaseInv, StructInv, NEW w \in Written, NEW cols \in Seq(Columns), NEW pk \in SUBSET Columns,
         \A c \in pk : \E i \in DOMAIN cols : cols[i] = c,
         CreateTable(w, cols, pk)
  PROVE  StructInv'
<1> DEFINE s == Denotes(w)
           n == Len(tables)
<1>0. PICK t \in Record, h \in HeldTable : Created(w, t, h)
  BY CreateTableIs
<1>1. /\ Mirrors(t, h) /\ db'[s] = h /\ \A q \in Schemas \ {s} : db'[q] = db[q]
      /\ n \in Nat /\ tables'[n + 1] = t /\ \A k \in 1..n : tables'[k] = tables[k]
      /\ \A q : Of(q)' = IF q = s THEN Of(q) \cup {n + 1} ELSE Of(q)
  BY <1>0 DEF Created
<1>2. TypeInv /\ \A q \in Schemas : db[q].live => Of(q) # {}
  BY DEF BaseInv, Placed
<1>3. ASSUME NEW q \in Schemas, db'[q].live
      PROVE  Mirrors(tables'[Last(Of(q)')], db'[q])
  <2>1. CASE q = s
    <3>1. Last(Of(s) \cup {n + 1}) = n + 1
      BY <1>1, <1>2, AppendedIsLast
    <3>2. QED
      BY <1>1, <2>1, <3>1
  <2>2. CASE q # s
    <3>1. db'[q] = db[q] /\ Of(q)' = Of(q) /\ Of(q) # {}
      BY <1>1, <1>2, <1>3, <2>2
    <3>2. Last(Of(q)) \in 1..n
      BY <1>2, <3>1, OfIsPlaces
    <3>3. Mirrors(tables[Last(Of(q))], db[q])
      BY <1>3, <3>1 DEF StructInv
    <3>4. QED
      BY <1>1, <3>1, <3>2, <3>3
  <2>3. QED
    BY <2>1, <2>2
<1>4. QED
  BY <1>3 DEF StructInv

LEMMA AddColumnMirrors ==
  ASSUME BaseInv, StructInv, SchemasStay, "recolumn" \notin Forms, "ambiguous" \notin Forms,
         NEW w \in Written, NEW name \in Columns,
         NEW cons \in SUBSET Constraint, \A c \in cons : c.cols = {name}, AddColumn(w, name, cons)
  PROVE  StructInv'
<1> DEFINE s == Denotes(w)
           h == db[s]
           t == tables[Find(w)]
           cols == Append(t.cols, Column(name, TRUE))
           r == [t EXCEPT !.cols = cols, !.cons = @ \cup cons]
           e == [name |-> name, nullable |-> TRUE]
<1>1. Live(w) /\ Find(w) # 0 /\ ~HasColumn(w, name)
  BY DEF AddColumn, ReadsOn
<1>2. t \in Record /\ Mirrors(t, h)
  BY <1>1, TargetMirrors DEF Mirrored
<1>3. name \notin Names(t.cols)
  BY <1>1, <1>2, MirrorNames DEF HasColumn
<1>4. tables' = [tables EXCEPT ![Find(w)] = Recompute(r)]
  BY <1>1, <1>3 DEF AddColumn, Alter
<1>5. Column(name, TRUE) \in ReadColumn /\ Column(name, TRUE).name = name /\ Column(name, TRUE).nullable = TRUE
  BY DEF Column, ReadColumn
<1>6. cols \in Seq(ReadColumn) /\ Read(cols) = Append(h.cols, e) /\ t.cons \in SUBSET Constraint
  <2>1. t.cols \in Seq(ReadColumn) /\ Read(t.cols) = h.cols /\ t.cons \in SUBSET Constraint
    BY <1>2 DEF Record, Mirrors
  <2>2. QED
    BY <1>5, <2>1, AppendedColumn
<1> HIDE DEF cols, e
<1>7. r \in Record /\ r.cols = cols /\ r.cons = t.cons \cup cons
  BY <1>2, <1>6 DEF Record
<1> HIDE DEF r
<1>8. Recompute(r).cons = t.cons \cup cons /\ Read(Recompute(r).cols) = Append(h.cols, e)
  BY <1>6, <1>7, RecomputeIs
<1>9. /\ OthersStay(s) /\ \A q \in Schemas \ {s} : db'[q] = db[q]
      /\ db'[s].cols = Append(h.cols, e) /\ db'[s].cons = h.cons \cup {Held(c) : c \in cons}
  BY <1>1, AddColumnDb DEF e
<1>10. Mirrors(Recompute(r), db'[s])
  BY <1>2, <1>8, <1>9 DEF Mirrors
<1>11. QED
  BY <1>1, <1>4, <1>9, <1>10, AlterMirrors

LEMMA DropColumnMirrors ==
  ASSUME BaseInv, StructInv, SchemasStay, "cascade" \notin Forms, "ambiguous" \notin Forms,
         NEW w \in Written, NEW name \in Columns, DropColumn(w, name)
  PROVE  StructInv'
<1> DEFINE s == Denotes(w)
           h == db[s]
           t == tables[Find(w)]
           gone(cons) == {c \in cons : name \in c.cols}
           r == [t EXCEPT !.cols = Without(@, name), !.cons = @ \ gone(@)]
           hcons == {c \in h.cons : name \notin c.cols}
<1>1. Live(w) /\ Find(w) # 0
  BY DEF DropColumn, ReadsOn
<1>2. t \in Record /\ Mirrors(t, h)
  BY <1>1, TargetMirrors DEF Mirrored
<1>3. tables' = [tables EXCEPT ![Find(w)] = Recompute(r)]
  BY <1>1 DEF DropColumn, Alter
<1>4. /\ t.cols \in Seq(ReadColumn) /\ Read(t.cols) = h.cols
      /\ t.cons \in SUBSET Constraint /\ h.cons = {Held(c) : c \in t.cons}
  BY <1>2 DEF Record, Mirrors
<1>5. Without(t.cols, name) \in Seq(ReadColumn) /\ Read(Without(t.cols, name)) = Without(h.cols, name)
  BY <1>4, WithoutIs
<1>6. r \in Record /\ r.cols = Without(t.cols, name) /\ r.cons = t.cons \ gone(t.cons)
  BY <1>2, <1>4, <1>5 DEF Record
<1>7. {Held(c) : c \in t.cons \ gone(t.cons)} = hcons
  <2>1. \A c \in t.cons : Held(c).cols = c.cols
    BY <1>4, HeldIs
  <2>2. QED
    BY <1>4, <2>1
<1> HIDE DEF r, hcons
<1>8. Recompute(r).cons = t.cons \ gone(t.cons) /\ Read(Recompute(r).cols) = Without(h.cols, name)
  BY <1>5, <1>6, RecomputeIs
<1>9. /\ OthersStay(s) /\ \A q \in Schemas \ {s} : db'[q].cons = db[q].cons
      /\ db'[s].cols = Without(h.cols, name) /\ db'[s].cons = hcons
  BY DropColumnDb DEF hcons
<1>10. Mirrors(Recompute(r), db'[s])
  BY <1>7, <1>8, <1>9 DEF Mirrors
<1>11. QED
  BY <1>1, <1>3, <1>9, <1>10, AlterMirrors

LEMMA RenameColumnMirrors ==
  ASSUME BaseInv, StructInv, SchemasStay, "rename referenced" \notin Forms, "ambiguous" \notin Forms,
         NEW w \in Written, NEW old \in Columns, NEW new \in Columns, RenameColumn(w, old, new)
  PROVE  StructInv'
<1> DEFINE s == Denotes(w)
           h == db[s]
           t == tables[Find(w)]
           cols == MovedColumns(t.cols, old, new)
           cons == MovedConstraints(t.cons, old, new)
           u == [t EXCEPT !.cols = cols, !.cons = cons]
<1>1. Live(w) /\ Find(w) # 0 /\ ~HasColumn(w, new)
  BY DEF RenameColumn, ReadsOn
<1>2. t \in Record /\ Mirrors(t, h) /\ OnColumns(h)
  BY <1>1, TargetMirrors, LiveTable DEF Mirrored
<1>3. tables' = [tables EXCEPT ![Find(w)] = u]
  BY <1>1 DEF RenameColumn, Alter, MovedColumns, MovedConstraints, Moved
<1>4. /\ t.cols \in Seq(ReadColumn) /\ Read(t.cols) = h.cols
      /\ t.cons \in SUBSET Constraint /\ h.cons = HeldOf(t.cons)
  BY <1>2 DEF Record, Mirrors, HeldOf
<1>5. \A c \in t.cons : new \notin c.cols
  <2>1. \A c \in t.cons : Held(c) \in h.cons /\ Held(c).cols = c.cols
    BY <1>4, HeldIs DEF HeldOf
  <2>2. QED
    BY <1>1, <1>2, <2>1 DEF OnColumns, HasColumn
<1>6. Read(cols) = MovedColumns(h.cols, old, new)
  <2> DEFINE q == t.cols
  <2>1. q \in Seq(ReadColumn) /\ Read(q) = h.cols /\ cols = MovedColumns(q, old, new)
    BY <1>4
  <2> HIDE DEF q, cols
  <2>2. Read(MovedColumns(q, old, new)) = MovedColumns(Read(q), old, new)
    BY <2>1, MovedColumnsIs
  <2>3. QED
    BY <2>1, <2>2
<1>7. HeldOf(cons) = MovedConstraints(h.cons, old, new)
  <2> DEFINE T == t.cons
             H == h.cons
  <2>1. /\ T \in SUBSET Constraint /\ (\A c \in T : new \notin c.cols) /\ H = HeldOf(T)
        /\ cons = MovedConstraints(T, old, new)
    BY <1>4, <1>5
  <2> HIDE DEF T, H, cons
  <2>2. HeldOf(MovedConstraints(T, old, new)) = MovedConstraints(H, old, new)
    BY <2>1, MovedHeldOf
  <2>3. QED
    BY <2>1, <2>2 DEF H
<1> HIDE DEF cols, cons
<1>8. u.cols = cols /\ u.cons = cons
  BY <1>2 DEF Record
<1> HIDE DEF u
<1>9. /\ OthersStay(s) /\ \A q \in Schemas \ {s} : db'[q].cons = db[q].cons
      /\ db'[s].cols = MovedColumns(h.cols, old, new) /\ db'[s].cons = MovedConstraints(h.cons, old, new)
  BY RenameColumnDb
<1>10. Mirrors(u, db'[s])
  BY <1>6, <1>7, <1>8, <1>9 DEF Mirrors, HeldOf
<1>11. QED
  BY <1>1, <1>3, <1>9, <1>10, AlterMirrors

LEMMA ModifyColumnMirrors ==
  ASSUME BaseInv, StructInv, SchemasStay, "bare modify" \notin Forms, "ambiguous" \notin Forms,
         NEW w \in Written, NEW name \in Columns, NEW nullable \in BOOLEAN, NEW bare \in BOOLEAN,
         ModifyColumn(w, name, nullable, bare)
  PROVE  StructInv'
<1> DEFINE s == Denotes(w)
           h == db[s]
           t == tables[Find(w)]
           cols == SetNullable(t.cols, name, nullable)
           u == [t EXCEPT !.cols = cols]
<1>1. Live(w) /\ Find(w) # 0 /\ ~bare
  BY DEF ModifyColumn, ReadsOn
<1>2. t \in Record /\ Mirrors(t, h)
  BY <1>1, TargetMirrors DEF Mirrored
<1>3. tables' = [tables EXCEPT ![Find(w)] = u]
  <2>1. (bare \/ nullable) = nullable
    BY <1>1
  <2>2. tables' = [tables EXCEPT ![Find(w)] = [t EXCEPT !.cols = SetNullable(@, name, bare \/ nullable)]]
    BY <1>1 DEF ModifyColumn, Alter, SetNullable
  <2>3. QED
    BY <2>1, <2>2
<1>4. t.cols \in Seq(ReadColumn) /\ Read(t.cols) = h.cols /\ h.cons = {Held(c) : c \in t.cons}
  BY <1>2 DEF Record, Mirrors
<1>5. Read(cols) = SetNullable(h.cols, name, nullable)
  <2>1. Read(cols) = SetNullable(Read(t.cols), name, nullable)
    BY <1>4, SetNullableIs
  <2>2. QED
    BY <1>4, <2>1
<1> HIDE DEF cols
<1>6. u.cols = cols /\ u.cons = t.cons
  BY <1>2 DEF Record
<1> HIDE DEF u
<1>7. /\ OthersStay(s) /\ \A q \in Schemas \ {s} : db'[q] = db[q]
      /\ db'[s].cols = SetNullable(h.cols, name, nullable) /\ db'[s].cons = h.cons
  BY <1>1, ModifyColumnDb
<1>8. Mirrors(u, db'[s])
  BY <1>4, <1>5, <1>6, <1>7 DEF Mirrors
<1>9. QED
  BY <1>1, <1>3, <1>7, <1>8, AlterMirrors

LEMMA AddConstraintMirrors ==
  ASSUME BaseInv, StructInv, SchemasStay, "twin foreign" \notin Forms, "bare reference" \notin Forms,
         "ambiguous" \notin Forms,
         NEW w \in Written, NEW con \in Constraint, AddConstraint(w, con)
  PROVE  StructInv'
<1> DEFINE s == Denotes(w)
           h == db[s]
           t == tables[Find(w)]
           r == [t EXCEPT !.cons = @ \cup {con}]
           u == IF \E c \in t.cons : Equivalent(c, con) THEN t ELSE Recompute(r)
<1>1. /\ Live(w) /\ Find(w) # 0
      /\ Declared(w, con) \/ Accepts(s, con)
      /\ tables' = [tables EXCEPT ![Find(w)] = u]
  BY DEF AddConstraint, ReadsOn, Alter
<1>2. t \in Record /\ Mirrors(t, h)
  BY <1>1, TargetMirrors DEF Mirrored
<1>3. t.cons \in SUBSET Constraint /\ h.cons = {Held(c) : c \in t.cons}
  BY <1>2 DEF Record, Mirrors
<1>4. \A c \in t.cons : /\ Held(c) \in h.cons /\ Held(c).type = c.type /\ Held(c).cols = c.cols
                        /\ Held(c).refCols = c.refCols
  BY <1>3, HeldIs
<1>5. /\ OthersStay(s) /\ \A q \in Schemas \ {s} : db'[q] = db[q]
      /\ db'[s].cols = h.cols
      /\ db'[s].cons = IF Declared(w, con) THEN h.cons ELSE h.cons \cup {Held(con)}
  BY AddConstraintDb
<1>6. Mirrors(u, db'[s])
  <2>1. CASE Declared(w, con)
    <3>1. PICK d \in h.cons : d.type = con.type /\ d.cols = con.cols /\ d.refCols = con.refCols
      BY <2>1 DEF Declared
    <3>2. \E c \in t.cons : Equivalent(c, con)
      <4>1. PICK c \in t.cons : Held(c) = d
        BY <1>3
      <4>2. c.type = con.type /\ c.cols = con.cols /\ c.refCols = con.refCols
        BY <1>4, <3>1, <4>1
      <4>3. QED
        BY <4>2 DEF Equivalent
    <3>3. QED
      BY <1>2, <1>5, <2>1, <3>2 DEF Mirrors
  <2>2. CASE ~Declared(w, con)
    <3>1. Accepts(s, con) /\ con.type \in {"PK", "FK"}
      BY <1>1, <2>2, HeldIs
    <3>2. ASSUME NEW c \in t.cons, Equivalent(c, con)
          PROVE  FALSE
      <4>1. Held(c) \in h.cons /\ Held(c).type = con.type /\ Held(c).cols = con.cols
        BY <1>4, <3>2 DEF Equivalent
      <4>2. CASE con.type = "PK"
        BY <3>1, <4>1, <4>2 DEF Accepts
      <4>3. CASE con.type = "FK"
        BY <3>1, <4>1, <4>3 DEF Accepts
      <4>4. QED
        BY <3>1, <4>2, <4>3
    <3>3. u = Recompute(r)
      BY <3>2
    <3>4. r \in Record /\ r.cols = t.cols /\ r.cons = t.cons \cup {con}
      BY <1>2 DEF Record
    <3> HIDE DEF r, u
    <3>5. u.cons = t.cons \cup {con} /\ Read(u.cols) = Read(t.cols)
      BY <3>3, <3>4, RecomputeIs
    <3>6. QED
      BY <1>2, <1>3, <1>5, <2>2, <3>5 DEF Mirrors
  <2>3. QED
    BY <2>1, <2>2
<1> HIDE DEF u
<1>7. QED
  BY <1>1, <1>5, <1>6, AlterMirrors

LEMMA DropConstraintMirrors ==
  ASSUME BaseInv, StructInv, SchemasStay, "cascade" \notin Forms, "ambiguous" \notin Forms,
         NEW w \in Written, NEW name, DropConstraint(w, name)
  PROVE  StructInv'
<1> DEFINE s == Denotes(w)
           h == db[s]
           t == tables[Find(w)]
           r == [t EXCEPT !.cons = @ \ {c \in @ : c.name = name}]
           left == {c \in t.cons : c.name # name}
           hcons == {c \in h.cons : c.name # name}
<1>1. Live(w) /\ Find(w) # 0
  BY DEF DropConstraint, ReadsOn
<1>2. t \in Record /\ Mirrors(t, h)
  BY <1>1, TargetMirrors DEF Mirrored
<1>3. tables' = [tables EXCEPT ![Find(w)] = Recompute(r)]
  BY <1>1 DEF DropConstraint, Alter
<1>4. t.cons \in SUBSET Constraint /\ h.cons = {Held(c) : c \in t.cons} /\ Read(t.cols) = h.cols
  BY <1>2 DEF Record, Mirrors
<1>5. {Held(c) : c \in left} = hcons
  <2>1. \A c \in t.cons : Held(c).name = c.name
    BY <1>4, HeldIs
  <2>2. QED
    BY <1>4, <2>1
<1>6. r \in Record /\ r.cols = t.cols /\ r.cons = left
  BY <1>2 DEF Record
<1> HIDE DEF r, left, hcons
<1>7. Recompute(r).cons = left /\ Read(Recompute(r).cols) = Read(t.cols)
  BY <1>6, RecomputeIs
<1>8. /\ OthersStay(s) /\ \A q \in Schemas \ {s} : db'[q].cons = db[q].cons
      /\ db'[s].cols = h.cols /\ db'[s].cons = hcons
  BY DropConstraintDb DEF hcons
<1>9. Mirrors(Recompute(r), db'[s])
  BY <1>4, <1>5, <1>7, <1>8 DEF Mirrors
<1>10. QED
  BY <1>1, <1>3, <1>8, <1>9, AlterMirrors

LEMMA StructStep ==
  ASSUME BaseInv, StructInv, Forms \cap StructForms = {}, [Next]_vars
  PROVE  StructInv'
<1>1. Kept /\ Kept'
  BY TypesAreKept, KeptStep DEF BaseInv
<1>2. /\ "cascade" \notin Forms /\ "recolumn" \notin Forms /\ "bare modify" \notin Forms
      /\ "twin foreign" \notin Forms /\ "bare reference" \notin Forms
      /\ "rename referenced" \notin Forms /\ "ambiguous" \notin Forms
  BY DEF StructForms
<1> DEFINE Goal == StructInv'
<1>3. ASSUME NEW w \in Written, NEW cols \in {q \in Lists : Len(q) = Cardinality({q[i] : i \in DOMAIN q})},
             NEW pk \in {{}, {cols[1]}}, CreateTable(w, cols, pk)
      PROVE  Goal
  BY <1>3, ListedKey, CreateTableMirrors
<1>4. ASSUME NEW w \in Written, DropTable(w)
      PROVE  Goal
  <2>1. UNCHANGED tables
    BY <1>4 DEF DropTable
  <2>2. /\ OthersStay(Denotes(w)) /\ ~db'[Denotes(w)].live
        /\ \A q \in Schemas \ {Denotes(w)} : db'[q].cons = db[q].cons
    BY <1>2, <1>4, DropTableDb
  <2>3. QED
    BY <2>1, <2>2, MirrorsStay DEF OthersStay
<1>5. ASSUME NEW w \in Written, NEW c \in Columns,
             NEW cons \in {{}} \cup {{k} : k \in {x \in Constraint : x.cols = {c} /\ x.name = Anonymous}},
             AddColumn(w, c, cons)
      PROVE  Goal
  <2>1. cons \in SUBSET Constraint /\ \A k \in cons : k.cols = {c}
    OBVIOUS
  <2>2. SchemasStay
    BY <1>1, <1>5, <2>1, AddColumnTypes
  <2>3. QED
    BY <1>2, <1>5, <2>1, <2>2, AddColumnMirrors
<1>6. ASSUME NEW w \in Written, NEW c \in Columns, DropColumn(w, c)
      PROVE  Goal
  <2>1. SchemasStay
    BY <1>1, <1>6, DropColumnTypes
  <2>2. QED
    BY <1>2, <1>6, <2>1, DropColumnMirrors
<1>7. ASSUME NEW w \in Written, NEW old \in Columns, NEW new \in Columns, RenameColumn(w, old, new)
      PROVE  Goal
  <2>1. SchemasStay
    BY <1>1, <1>7, RenameColumnTypes
  <2>2. QED
    BY <1>2, <1>7, <2>1, RenameColumnMirrors
<1>8. ASSUME NEW w \in Written, NEW c \in Columns, NEW nullable \in BOOLEAN, NEW bare \in BOOLEAN,
             ModifyColumn(w, c, nullable, bare)
      PROVE  Goal
  <2>1. SchemasStay
    BY <1>1, <1>8, ModifyColumnTypes
  <2>2. QED
    BY <1>2, <1>8, <2>1, ModifyColumnMirrors
<1>9. ASSUME NEW w \in Written, NEW con \in Constraint, AddConstraint(w, con)
      PROVE  Goal
  <2>1. SchemasStay
    BY <1>1, <1>9, ConstraintTypes
  <2>2. QED
    BY <1>2, <1>9, <2>1, AddConstraintMirrors
<1>10. ASSUME NEW w \in Written, NEW n \in ConNames, DropConstraint(w, n)
       PROVE  Goal
  <2>1. SchemasStay
    BY <1>1, <1>10, ConstraintTypes
  <2>2. QED
    BY <1>2, <1>10, <2>1, DropConstraintMirrors
<1>11. ASSUME NEW w \in Written, NEW cols \in SUBSET Columns, CreateIndex(w, cols)
       PROVE  Goal
  <2>1. UNCHANGED tables /\ Denotes(w) \in Schemas /\ db[Denotes(w)].live
    BY <1>11, DenotesType DEF CreateIndex, ReadsOn, Live
  <2>2. /\ \A q \in Schemas \ {Denotes(w)} : db'[q] = db[q]
        /\ db'[Denotes(w)].cols = db[Denotes(w)].cols /\ db'[Denotes(w)].cons = db[Denotes(w)].cons
    BY <1>11, CreateIndexDb
  <2>3. QED
    BY <2>1, <2>2, MirrorsStay
<1>12. ASSUME NEW w \in Written, NEW col \in Columns \cup {Table}, NEW text \in {NoText, Len(comments) + 1},
              Comment(w, col, text)
       PROVE  Goal
  <2>1. UNCHANGED tables /\ Denotes(w) \in Schemas /\ db[Denotes(w)].live
    BY <1>12, DenotesType DEF Comment, ReadsOn, Live
  <2>2. /\ \A q \in Schemas \ {Denotes(w)} : db'[q] = db[q]
        /\ db'[Denotes(w)].cols = db[Denotes(w)].cols /\ db'[Denotes(w)].cons = db[Denotes(w)].cons
    BY <1>12, CommentDb
  <2>3. QED
    BY <2>1, <2>2, MirrorsStay
<1>13. CASE UNCHANGED vars
  BY <1>13, MirrorsStay DEF vars
<1>14. CASE Next
  BY <1>3, <1>4, <1>5, <1>6, <1>7, <1>8, <1>9, <1>10, <1>11, <1>12, <1>14 DEF Next
<1>15. QED
  BY <1>13, <1>14

LEMMA MirrorsAreRead == BaseInv /\ StructInv => StructureIsRead
<1> SUFFICES ASSUME BaseInv, StructInv, NEW s \in Schemas, db[s].live
             PROVE  /\ Find(s) # 0 /\ Denotes(tables[Find(s)].schema) = s
                    /\ Read(tables[Find(s)].cols) = db[s].cols
                    /\ {Held(c) : c \in tables[Find(s)].cons} = db[s].cons
  BY DEF StructureIsRead, Read
<1>1. Find(s) = Last(Of(s)) /\ Find(s) \in Of(s) /\ Find(s) # 0
  BY FindsLive
<1>2. QED
  BY <1>1 DEF StructInv, Of, Mirrors

-----------------------------------------------------------------------------
(* The key flags                                                           *)

LEMMA ReadNames == \A q : Names(Read(q)) = Names(q)
BY DEF Names, Read

\* What the reader finds of a live table, for its flags.
FlagsKept(t, h) == t \in Record /\ Flagged(t) /\ OnColumns(t) /\ Names(t.cols) = Names(h.cols)

LEMMA TargetFlags ==
  ASSUME BaseInv, FlagInv, NEW w \in Written, Live(w), Find(w) # 0
  PROVE  FlagsKept(tables[Find(w)], db[Denotes(w)])
<1>1. Denotes(w) \in Schemas /\ db[Denotes(w)].live
  BY LiveTable
<1>2. Find(w) = Last(Of(Denotes(w))) /\ Find(w) \in DOMAIN tables /\ tables[Find(w)] \in Record
  BY Target
<1>3. QED
  BY <1>1, <1>2 DEF FlagInv, FlagsKept

\* The record found keeps its flags and follows the columns of the table.
LEMMA AlterFlags ==
  ASSUME BaseInv, FlagInv, SchemasStay, NEW w \in Written, Live(w), Find(w) # 0,
         NEW u, tables' = [tables EXCEPT ![Find(w)] = u], FlagsKept(u, db'[Denotes(w)]),
         OthersStay(Denotes(w))
  PROVE  FlagInv'
<1>1. /\ Find(w) = Last(Of(Denotes(w))) /\ Find(w) \in Of(Denotes(w)) /\ Find(w) \in DOMAIN tables
      /\ TypeInv
  BY Target DEF BaseInv
<1>2. /\ tables'[Find(w)] = u /\ DOMAIN tables' = DOMAIN tables
      /\ \A i \in DOMAIN tables : i # Find(w) => tables'[i] = tables[i]
  BY <1>1 DEF TypeInv
<1>3. \A s : Of(s)' = Of(s)
  BY SameSchemas
<1>4. Flagged(u) /\ OnColumns(u) /\ Names(u.cols) = Names(db'[Denotes(w)].cols)
  BY DEF FlagsKept
<1>5. \A i \in DOMAIN tables' : Flagged(tables'[i]) /\ OnColumns(tables'[i])
  BY <1>2, <1>4 DEF FlagInv
<1>6. ASSUME NEW s \in Schemas, db'[s].live
      PROVE  Names(tables'[Last(Of(s))].cols) = Names(db'[s].cols)
  <2>1. CASE s = Denotes(w)
    BY <1>1, <1>2, <1>4, <2>1
  <2>2. CASE s # Denotes(w)
    <3>1. db'[s].cols = db[s].cols /\ db[s].live
      BY <1>6, <2>2 DEF OthersStay
    <3>2. Of(s) # {} /\ Names(tables[Last(Of(s))].cols) = Names(db[s].cols)
      BY <3>1 DEF FlagInv, BaseInv, Placed
    <3>3. Last(Of(s)) \in Of(s)
      BY <1>1, <3>2, OfIsPlaces
    <3>4. Last(Of(s)) \in DOMAIN tables /\ Last(Of(s)) # Find(w)
      BY <1>1, <2>2, <3>3 DEF Of
    <3>5. QED
      BY <1>2, <3>1, <3>2, <3>4
  <2>3. QED
    BY <2>1, <2>2
<1>7. QED
  BY <1>3, <1>5, <1>6 DEF FlagInv

LEMMA FlagsStay ==
  ASSUME FlagInv, UNCHANGED tables,
         \A s \in Schemas : db'[s].live => db[s].live /\ db'[s].cols = db[s].cols
  PROVE  FlagInv'
<1>1. \A s : Of(s)' = Of(s)
  BY SameSchemas DEF SchemasStay
<1>2. \A s \in Schemas : db'[s].live => Names(tables[Last(Of(s))].cols) = Names(db'[s].cols)
  BY DEF FlagInv
<1>3. QED
  BY <1>1, <1>2 DEF FlagInv

\* A record computed anew from its constraints.
LEMMA RecomputedFlags ==
  ASSUME NEW r \in Record, OnColumns(r), NEW h, Names(r.cols) = Names(h.cols)
  PROVE  FlagsKept(Recompute(r), h)
<1>1. /\ Recompute(r) \in Record /\ Flagged(Recompute(r)) /\ Recompute(r).cons = r.cons
      /\ Read(Recompute(r).cols) = Read(r.cols)
  BY RecomputeIs
<1>2. Names(Recompute(r).cols) = Names(r.cols)
  BY <1>1, ReadNames
<1>3. QED
  BY <1>1, <1>2 DEF FlagsKept, OnColumns

LEMMA CreateTableFlags ==
  ASSUME BaseInv, FlagInv, NEW w \in Written, NEW cols \in Seq(Columns), NEW pk \in SUBSET Columns,
         \A c \in pk : \E i \in DOMAIN cols : cols[i] = c,
         CreateTable(w, cols, pk)
  PROVE  FlagInv'
<1> DEFINE s == Denotes(w)
           n == Len(tables)
<1>0. PICK t \in Record, h \in HeldTable : Created(w, t, h)
  BY CreateTableIs
<1>1. /\ Flagged(t) /\ OnColumns(t) /\ Names(t.cols) = Names(h.cols)
      /\ db'[s] = h /\ \A q \in Schemas \ {s} : db'[q] = db[q]
      /\ n \in Nat /\ tables'[n + 1] = t /\ \A k \in 1..n : tables'[k] = tables[k]
      /\ DOMAIN tables = 1..n /\ DOMAIN tables' = (1..n) \cup {n + 1}
      /\ \A q : Of(q)' = IF q = s THEN Of(q) \cup {n + 1} ELSE Of(q)
  BY <1>0 DEF Created
<1>2. TypeInv /\ \A q \in Schemas : db[q].live => Of(q) # {}
  BY DEF BaseInv, Placed
<1>3. \A i \in DOMAIN tables' : Flagged(tables'[i]) /\ OnColumns(tables'[i])
  BY <1>1 DEF FlagInv
<1>4. ASSUME NEW q \in Schemas, db'[q].live
      PROVE  Names(tables'[Last(Of(q)')].cols) = Names(db'[q].cols)
  <2>1. CASE q = s
    <3>1. Last(Of(s) \cup {n + 1}) = n + 1
      BY <1>1, <1>2, AppendedIsLast
    <3>2. QED
      BY <1>1, <2>1, <3>1
  <2>2. CASE q # s
    <3>1. db'[q] = db[q] /\ Of(q)' = Of(q) /\ Of(q) # {}
      BY <1>1, <1>2, <1>4, <2>2
    <3>2. Last(Of(q)) \in 1..n
      BY <1>2, <3>1, OfIsPlaces
    <3>3. Names(tables[Last(Of(q))].cols) = Names(db[q].cols)
      BY <1>4, <3>1 DEF FlagInv
    <3>4. QED
      BY <1>1, <3>1, <3>2, <3>3
  <2>3. QED
    BY <2>1, <2>2
<1>5. QED
  BY <1>3, <1>4 DEF FlagInv

LEMMA AddColumnFlags ==
  ASSUME BaseInv, FlagInv, SchemasStay, "ambiguous" \notin Forms,
         NEW w \in Written, NEW name \in Columns,
         NEW cons \in SUBSET Constraint, \A c \in cons : c.cols = {name}, AddColumn(w, name, cons)
  PROVE  FlagInv'
<1> DEFINE s == Denotes(w)
           h == db[s]
           t == tables[Find(w)]
           cols == IF name \in Names(t.cols) THEN t.cols ELSE Append(t.cols, Column(name, TRUE))
           r == [t EXCEPT !.cols = cols, !.cons = @ \cup cons]
<1>1. Live(w) /\ Find(w) # 0 /\ tables' = [tables EXCEPT ![Find(w)] = Recompute(r)]
  BY DEF AddColumn, ReadsOn, Alter
<1>2. t \in Record /\ OnColumns(t) /\ Names(t.cols) = Names(h.cols)
  BY <1>1, TargetFlags DEF FlagsKept
<1>3. /\ OthersStay(s)
      /\ HasColumn(w, name) => db'[s] = h
      /\ ~HasColumn(w, name) => Names(db'[s].cols) = Names(h.cols) \cup {name}
  BY AddColumnDb
<1>4. Column(name, TRUE) \in ReadColumn /\ Column(name, TRUE).name = name
  BY DEF Column, ReadColumn
<1>5. t.cols \in Seq(ReadColumn) /\ t.cons \in SUBSET Constraint
  BY <1>2 DEF Record
<1>6. cols \in Seq(ReadColumn) /\ Names(cols) = Names(t.cols) \cup {name}
  <2> DEFINE q == t.cols
             e == Column(name, TRUE)
  <2>1. q \in Seq(ReadColumn) /\ e \in ReadColumn /\ e.name = name
    BY <1>4, <1>5
  <2>2. cols = IF name \in Names(q) THEN q ELSE Append(q, e)
    OBVIOUS
  <2> HIDE DEF q, e, cols
  <2>3. Append(q, e) \in Seq(ReadColumn)
    BY <2>1, AppendedName
  <2>4. Names(Append(q, e)) = Names(q) \cup {e.name}
    BY <2>1, AppendedName
  <2>5. cols \in Seq(ReadColumn) /\ Names(cols) = Names(q) \cup {name}
    BY <2>1, <2>2, <2>3, <2>4
  <2>6. QED
    BY <2>5 DEF q
<1>7. Names(cols) = Names(db'[s].cols)
  BY <1>2, <1>3, <1>6 DEF HasColumn
<1> HIDE DEF cols
<1>8. r \in Record /\ r.cols = cols /\ r.cons = t.cons \cup cons
  BY <1>2, <1>5, <1>6 DEF Record
<1> HIDE DEF r
<1>9. OnColumns(r)
  BY <1>2, <1>6, <1>8 DEF OnColumns
<1>10. FlagsKept(Recompute(r), db'[s])
  BY <1>7, <1>8, <1>9, RecomputedFlags
<1>11. QED
  BY <1>1, <1>3, <1>10, AlterFlags

LEMMA DropColumnFlags ==
  ASSUME BaseInv, FlagInv, SchemasStay, "ambiguous" \notin Forms,
         NEW w \in Written, NEW name \in Columns, DropColumn(w, name)
  PROVE  FlagInv'
<1> DEFINE s == Denotes(w)
           h == db[s]
           t == tables[Find(w)]
           left == {c \in t.cons : name \notin c.cols}
           r == [t EXCEPT !.cols = Without(@, name), !.cons = @ \ {c \in @ : name \in c.cols}]
<1>1. Live(w) /\ Find(w) # 0 /\ tables' = [tables EXCEPT ![Find(w)] = Recompute(r)]
  BY DEF DropColumn, ReadsOn, Alter
<1>2. t \in Record /\ OnColumns(t) /\ Names(t.cols) = Names(h.cols)
  BY <1>1, TargetFlags DEF FlagsKept
<1>3. OthersStay(s) /\ Names(db'[s].cols) = Names(h.cols) \ {name}
  BY DropColumnDb
<1>4. t.cols \in Seq(ReadColumn) /\ t.cons \in SUBSET Constraint
  BY <1>2 DEF Record
<1>5. Without(t.cols, name) \in Seq(ReadColumn) /\ Names(Without(t.cols, name)) = Names(t.cols) \ {name}
  BY <1>4, WithoutIs
<1>6. r \in Record /\ r.cols = Without(t.cols, name) /\ r.cons = left
  BY <1>2, <1>4, <1>5 DEF Record
<1> HIDE DEF r
<1>7. OnColumns(r)
  BY <1>2, <1>5, <1>6 DEF OnColumns
<1>8. FlagsKept(Recompute(r), db'[s])
  BY <1>2, <1>3, <1>5, <1>6, <1>7, RecomputedFlags
<1>9. QED
  BY <1>1, <1>3, <1>8, AlterFlags

LEMMA RenameColumnFlags ==
  ASSUME BaseInv, FlagInv, SchemasStay, "ambiguous" \notin Forms,
         NEW w \in Written, NEW old \in Columns, NEW new \in Columns, RenameColumn(w, old, new)
  PROVE  FlagInv'
<1> DEFINE s == Denotes(w)
           h == db[s]
           t == tables[Find(w)]
           cols == MovedColumns(t.cols, old, new)
           cons == MovedConstraints(t.cons, old, new)
           u == [t EXCEPT !.cols = cols, !.cons = cons]
<1>1. Live(w) /\ Find(w) # 0 /\ ~HasColumn(w, new)
  BY DEF RenameColumn, ReadsOn
<1>2. t \in Record /\ Flagged(t) /\ OnColumns(t) /\ Names(t.cols) = Names(h.cols)
  BY <1>1, TargetFlags DEF FlagsKept
<1>3. tables' = [tables EXCEPT ![Find(w)] = u]
  BY <1>1 DEF RenameColumn, Alter, MovedColumns, MovedConstraints, Moved
<1>4. OthersStay(s) /\ Names(db'[s].cols) = Moved(Names(h.cols), old, new)
  BY RenameColumnDb
<1>5. t.cols \in Seq(ReadColumn) /\ t.cons \in SUBSET Constraint
  BY <1>2 DEF Record
<1>6. new \notin Names(t.cols) /\ \A c \in t.cons : new \notin c.cols
  BY <1>1, <1>2 DEF OnColumns, HasColumn
<1>7. /\ cols \in Seq(ReadColumn) /\ DOMAIN cols = DOMAIN t.cols
      /\ \A k \in DOMAIN t.cols : /\ cols[k].name = Swap(t.cols[k].name, old, new)
                                  /\ cols[k].pk = t.cols[k].pk /\ cols[k].fk = t.cols[k].fk
  <2> DEFINE q == t.cols
  <2>1. q \in Seq(ReadColumn) /\ cols = MovedColumns(q, old, new)
    BY <1>5
  <2> HIDE DEF q, cols
  <2>2. MovedColumns(q, old, new) \in Seq(ReadColumn) /\ DOMAIN MovedColumns(q, old, new) = DOMAIN q
    BY <2>1, MovedColumnsIs
  <2>3. \A k \in DOMAIN q : /\ MovedColumns(q, old, new)[k].name = Swap(q[k].name, old, new)
                             /\ MovedColumns(q, old, new)[k].pk = q[k].pk
                             /\ MovedColumns(q, old, new)[k].fk = q[k].fk
    BY <2>1, MovedColumnsIs
  <2>4. QED
    BY <2>1, <2>2, <2>3 DEF q
<1>8. Names(cols) = Moved(Names(t.cols), old, new)
  BY <1>7 DEF Names, Moved
<1>9. /\ cons \in SUBSET Constraint
      /\ \A type : \A x \in Columns \ {new} : Keyed(cons, Swap(x, old, new), type) = Keyed(t.cons, x, type)
      /\ \A type : HasType(cons, type) <=> HasType(t.cons, type)
  <2> DEFINE T == t.cons
             H == HeldOf(T)
  <2>1. /\ T \in SUBSET Constraint /\ (\A c \in T : new \notin c.cols) /\ H = HeldOf(T)
        /\ cons = MovedConstraints(T, old, new)
    BY <1>5, <1>6
  <2> HIDE DEF T, H, cons
  <2>2. MovedConstraints(T, old, new) \in SUBSET Constraint
    BY <2>1, MovedConstraintsIs
  <2>3. \A type : \A x \in Columns \ {new} :
           Keyed(MovedConstraints(T, old, new), Swap(x, old, new), type) = Keyed(T, x, type)
    BY <2>1, MovedConstraintsIs
  <2>4. \A type : HasType(MovedConstraints(T, old, new), type) <=> HasType(T, type)
    BY <2>1, MovedConstraintsIs
  <2>5. QED
    BY <2>1, <2>2, <2>3, <2>4 DEF T
<1>10. \A d \in cons : \E c \in t.cons : d.cols = Moved(c.cols, old, new)
  <2>1. \A c \in t.cons : [c EXCEPT !.cols = Moved(@, old, new)].cols = Moved(c.cols, old, new)
    BY <1>5, MovedConstraintIs
  <2>2. QED
    BY <2>1 DEF MovedConstraints
<1> HIDE DEF cols, cons
<1>11. u \in Record /\ u.cols = cols /\ u.cons = cons /\ u.hasPk = t.hasPk
  BY <1>2, <1>7, <1>9 DEF Record
<1> HIDE DEF u
<1>12. OnColumns(u)
  <2>1. ASSUME NEW d \in cons
        PROVE  d.cols \subseteq Names(cols)
    <3>1. PICK c \in t.cons : d.cols = Moved(c.cols, old, new)
      BY <1>10
    <3>2. c.cols \subseteq Names(t.cols)
      BY <1>2 DEF OnColumns
    <3>3. QED
      BY <1>8, <3>1, <3>2 DEF Moved
  <2>2. QED
    BY <1>11, <2>1 DEF OnColumns
<1>13. Flagged(u)
  <2>1. ASSUME NEW k \in DOMAIN t.cols
        PROVE  /\ cols[k].pk = Keyed(cons, cols[k].name, "PK")
               /\ cols[k].fk = Keyed(cons, cols[k].name, "FK")
    <3>1. t.cols[k].name \in Columns \ {new}
      <4>1. t.cols[k] \in ReadColumn
        BY <1>5
      <4>2. t.cols[k].name \in Columns
        BY <4>1 DEF ReadColumn
      <4>3. QED
        BY <1>6, <4>2 DEF Names
    <3>2. /\ t.cols[k].pk = Keyed(t.cons, t.cols[k].name, "PK")
          /\ t.cols[k].fk = Keyed(t.cons, t.cols[k].name, "FK")
      BY <1>2 DEF Flagged
    <3>3. QED
      BY <1>7, <1>9, <3>1, <3>2
  <2>2. u.hasPk = HasType(cons, "PK")
    <3>1. HasType(cons, "PK") \in BOOLEAN /\ HasType(t.cons, "PK") \in BOOLEAN
      BY DEF HasType
    <3>2. t.hasPk = HasType(t.cons, "PK")
      BY <1>2 DEF Flagged, HasType
    <3>3. QED
      BY <1>9, <1>11, <3>1, <3>2
  <2>3. QED
    BY <1>7, <1>11, <2>1, <2>2 DEF Flagged, HasType
<1>14. FlagsKept(u, db'[s])
  BY <1>2, <1>4, <1>8, <1>11, <1>12, <1>13 DEF FlagsKept
<1>15. QED
  BY <1>1, <1>3, <1>4, <1>14, AlterFlags

LEMMA ModifyColumnFlags ==
  ASSUME BaseInv, FlagInv, SchemasStay, "ambiguous" \notin Forms,
         NEW w \in Written, NEW name \in Columns, NEW nullable \in BOOLEAN, NEW bare \in BOOLEAN,
         ModifyColumn(w, name, nullable, bare)
  PROVE  FlagInv'
<1> DEFINE s == Denotes(w)
           h == db[s]
           t == tables[Find(w)]
           v == bare \/ nullable
           cols == SetNullable(t.cols, name, v)
           u == [t EXCEPT !.cols = cols]
<1>1. Live(w) /\ Find(w) # 0
  BY DEF ModifyColumn, ReadsOn
<1>2. t \in Record /\ Flagged(t) /\ OnColumns(t) /\ Names(t.cols) = Names(h.cols)
  BY <1>1, TargetFlags DEF FlagsKept
<1>3. tables' = [tables EXCEPT ![Find(w)] = u]
  BY <1>1 DEF ModifyColumn, Alter, SetNullable
<1>4. OthersStay(s) /\ Names(db'[s].cols) = Names(h.cols)
  BY ModifyColumnDb
<1>5. v \in BOOLEAN /\ t.cols \in Seq(ReadColumn)
  BY <1>2 DEF Record
<1> HIDE DEF v
<1>6. /\ cols \in Seq(ReadColumn) /\ DOMAIN cols = DOMAIN t.cols
      /\ \A k \in DOMAIN t.cols : /\ cols[k].name = t.cols[k].name /\ cols[k].pk = t.cols[k].pk
                                  /\ cols[k].fk = t.cols[k].fk
  BY <1>5, SetNullableIs
<1> HIDE DEF cols
<1>7. Names(cols) = Names(t.cols)
  BY <1>6 DEF Names
<1>8. u \in Record /\ u.cols = cols /\ u.cons = t.cons /\ u.hasPk = t.hasPk
  BY <1>2, <1>6 DEF Record
<1> HIDE DEF u
<1>9. Flagged(u)
  BY <1>2, <1>6, <1>8 DEF Flagged
<1>10. FlagsKept(u, db'[s])
  BY <1>2, <1>4, <1>7, <1>8, <1>9 DEF FlagsKept, OnColumns
<1>11. QED
  BY <1>1, <1>3, <1>4, <1>10, AlterFlags

LEMMA AddConstraintFlags ==
  ASSUME BaseInv, FlagInv, SchemasStay, "ambiguous" \notin Forms,
         NEW w \in Written, NEW con \in Constraint, AddConstraint(w, con)
  PROVE  FlagInv'
<1> DEFINE s == Denotes(w)
           h == db[s]
           t == tables[Find(w)]
           r == [t EXCEPT !.cons = @ \cup {con}]
           u == IF \E c \in t.cons : Equivalent(c, con) THEN t ELSE Recompute(r)
<1>1. Live(w) /\ Find(w) # 0 /\ tables' = [tables EXCEPT ![Find(w)] = u]
  BY DEF AddConstraint, ReadsOn, Alter
<1>2. FlagsKept(t, h)
  BY <1>1, TargetFlags
<1>3. OthersStay(s) /\ db'[s].cols = h.cols /\ con.cols \subseteq Names(h.cols)
  BY AddConstraintDb
<1>4. t \in Record /\ OnColumns(t) /\ Names(t.cols) = Names(h.cols)
  BY <1>2 DEF FlagsKept
<1>5. r \in Record /\ r.cols = t.cols /\ r.cons = t.cons \cup {con}
  BY <1>4 DEF Record
<1> HIDE DEF r
<1>6. OnColumns(r)
  BY <1>3, <1>4, <1>5 DEF OnColumns
<1>7. FlagsKept(Recompute(r), db'[s])
  BY <1>3, <1>4, <1>5, <1>6, RecomputedFlags
<1>8. FlagsKept(t, db'[s])
  BY <1>2, <1>3 DEF FlagsKept
<1>9. FlagsKept(u, db'[s])
  BY <1>7, <1>8
<1> HIDE DEF u
<1>10. QED
  BY <1>1, <1>3, <1>9, AlterFlags

LEMMA DropConstraintFlags ==
  ASSUME BaseInv, FlagInv, SchemasStay, "ambiguous" \notin Forms,
         NEW w \in Written, NEW name, DropConstraint(w, name)
  PROVE  FlagInv'
<1> DEFINE s == Denotes(w)
           h == db[s]
           t == tables[Find(w)]
           r == [t EXCEPT !.cons = @ \ {c \in @ : c.name = name}]
<1>1. Live(w) /\ Find(w) # 0 /\ tables' = [tables EXCEPT ![Find(w)] = Recompute(r)]
  BY DEF DropConstraint, ReadsOn, Alter
<1>2. t \in Record /\ OnColumns(t) /\ Names(t.cols) = Names(h.cols)
  BY <1>1, TargetFlags DEF FlagsKept
<1>3. OthersStay(s) /\ db'[s].cols = h.cols
  BY DropConstraintDb
<1>4. r \in Record /\ r.cols = t.cols /\ r.cons \subseteq t.cons
  BY <1>2 DEF Record
<1> HIDE DEF r
<1>5. OnColumns(r)
  BY <1>2, <1>4 DEF OnColumns
<1>6. FlagsKept(Recompute(r), db'[s])
  BY <1>2, <1>3, <1>4, <1>5, RecomputedFlags
<1>7. QED
  BY <1>1, <1>3, <1>6, AlterFlags

LEMMA FlagStep ==
  ASSUME BaseInv, FlagInv, "ambiguous" \notin Forms, [Next]_vars
  PROVE  FlagInv'
<1>1. Kept /\ Kept'
  BY TypesAreKept, KeptStep DEF BaseInv
<1> DEFINE Goal == FlagInv'
<1>2. ASSUME NEW w \in Written, NEW cols \in {q \in Lists : Len(q) = Cardinality({q[i] : i \in DOMAIN q})},
             NEW pk \in {{}, {cols[1]}}, CreateTable(w, cols, pk)
      PROVE  Goal
  BY <1>2, ListedKey, CreateTableFlags
<1>3. ASSUME NEW w \in Written, DropTable(w)
      PROVE  Goal
  <2>1. UNCHANGED tables
    BY <1>3 DEF DropTable
  <2>2. OthersStay(Denotes(w)) /\ ~db'[Denotes(w)].live
    BY <1>3, DropTableDb
  <2>3. QED
    BY <2>1, <2>2, FlagsStay DEF OthersStay
<1>4. ASSUME NEW w \in Written, NEW c \in Columns,
             NEW cons \in {{}} \cup {{k} : k \in {x \in Constraint : x.cols = {c} /\ x.name = Anonymous}},
             AddColumn(w, c, cons)
      PROVE  Goal
  <2>1. cons \in SUBSET Constraint /\ \A k \in cons : k.cols = {c}
    OBVIOUS
  <2>2. SchemasStay
    BY <1>1, <1>4, <2>1, AddColumnTypes
  <2>3. QED
    BY <1>4, <2>1, <2>2, AddColumnFlags
<1>5. ASSUME NEW w \in Written, NEW c \in Columns, DropColumn(w, c)
      PROVE  Goal
  <2>1. SchemasStay
    BY <1>1, <1>5, DropColumnTypes
  <2>2. QED
    BY <1>5, <2>1, DropColumnFlags
<1>6. ASSUME NEW w \in Written, NEW old \in Columns, NEW new \in Columns, RenameColumn(w, old, new)
      PROVE  Goal
  <2>1. SchemasStay
    BY <1>1, <1>6, RenameColumnTypes
  <2>2. QED
    BY <1>6, <2>1, RenameColumnFlags
<1>7. ASSUME NEW w \in Written, NEW c \in Columns, NEW nullable \in BOOLEAN, NEW bare \in BOOLEAN,
             ModifyColumn(w, c, nullable, bare)
      PROVE  Goal
  <2>1. SchemasStay
    BY <1>1, <1>7, ModifyColumnTypes
  <2>2. QED
    BY <1>7, <2>1, ModifyColumnFlags
<1>8. ASSUME NEW w \in Written, NEW con \in Constraint, AddConstraint(w, con)
      PROVE  Goal
  <2>1. SchemasStay
    BY <1>1, <1>8, ConstraintTypes
  <2>2. QED
    BY <1>8, <2>1, AddConstraintFlags
<1>9. ASSUME NEW w \in Written, NEW n \in ConNames, DropConstraint(w, n)
       PROVE  Goal
  <2>1. SchemasStay
    BY <1>1, <1>9, ConstraintTypes
  <2>2. QED
    BY <1>9, <2>1, DropConstraintFlags
<1>10. ASSUME NEW w \in Written, NEW cols \in SUBSET Columns, CreateIndex(w, cols)
       PROVE  Goal
  <2>1. UNCHANGED tables /\ Denotes(w) \in Schemas /\ db[Denotes(w)].live
    BY <1>10, DenotesType DEF CreateIndex, ReadsOn, Live
  <2>2. /\ \A q \in Schemas \ {Denotes(w)} : db'[q] = db[q]
        /\ db'[Denotes(w)].cols = db[Denotes(w)].cols
    BY <1>10, CreateIndexDb
  <2>3. QED
    BY <2>1, <2>2, FlagsStay
<1>11. ASSUME NEW w \in Written, NEW col \in Columns \cup {Table}, NEW text \in {NoText, Len(comments) + 1},
              Comment(w, col, text)
       PROVE  Goal
  <2>1. UNCHANGED tables /\ Denotes(w) \in Schemas /\ db[Denotes(w)].live
    BY <1>11, DenotesType DEF Comment, ReadsOn, Live
  <2>2. /\ \A q \in Schemas \ {Denotes(w)} : db'[q] = db[q]
        /\ db'[Denotes(w)].cols = db[Denotes(w)].cols
    BY <1>11, CommentDb
  <2>3. QED
    BY <2>1, <2>2, FlagsStay
<1>12. CASE UNCHANGED vars
  BY <1>12, FlagsStay DEF vars
<1>13. CASE Next
  BY <1>2, <1>3, <1>4, <1>5, <1>6, <1>7, <1>8, <1>9, <1>10, <1>11, <1>13 DEF Next
<1>14. QED
  BY <1>12, <1>13

LEMMA FlagsAreRead == FlagInv => FlagsFollowConstraints
BY DEF FlagInv, Flagged, Keyed, FlagsFollowConstraints

-----------------------------------------------------------------------------
(* The theorems                                                            *)

\* The reader keeps well-formed table, comment and index records, whatever
\* the script does: schemas as written, columns and constraints of known names.
THEOREM TypeCorrect == Spec => []TypeOK
<1>1. Init => Kept
  BY KeptInit
<1>2. Kept /\ [Next]_vars => Kept'
  BY KeptStep
<1>3. Kept => TypeOK
  BY KeptTypes
<1>4. QED
  BY <1>1, <1>2, <1>3, PTL DEF Spec

LEMMA InitiallyNone ==
  ASSUME Init
  PROVE  /\ tables = <<>> /\ comments = <<>> /\ indexes = {}
         /\ DOMAIN tables = {} /\ DOMAIN comments = {} /\ \A s \in Schemas : ~db[s].live
BY BlankTable DEF Init

\* After every statement the record the reader finds for a live table has its
\* columns in order, their nullability and its constraints as the database has
\* them, for scripts of any length.  Indexes and comments may be renamed,
\* dropped or emptied as they like; what must not occur is a key dropped with
\* the keys on it, a column added twice, a MODIFY without a NULL clause, two
\* foreign keys of a column to equal names in two schemas, a foreign key
\* declared again with its referenced columns left out or filled in, a renamed
\* column that foreign keys name as their target, or an unqualified name the
\* reader cannot place (StructForms).
THEOREM StructureIsFaithful ==
  ASSUME Forms \cap StructForms = {}
  PROVE  Spec => []StructureIsRead
<1>1. Init => StructInv
  BY InitiallyNone DEF StructInv
<1>2. BaseInv /\ StructInv /\ [Next]_vars => StructInv'
  BY StructStep
<1>3. Spec => []BaseInv
  BY BaseAlways
<1>4. BaseInv /\ StructInv => StructureIsRead
  BY MirrorsAreRead
<1>5. QED
  BY <1>1, <1>2, <1>3, <1>4, PTL DEF Spec

\* The key flags of columns and tables always agree with the constraint list
\* they are computed from, through every ALTER that changes either, even where
\* the constraint list itself is not the database's; only an unqualified name
\* the reader cannot place must not occur.
THEOREM FlagsAreFaithful ==
  ASSUME "ambiguous" \notin Forms
  PROVE  Spec => []FlagsFollowConstraints
<1>1. Init => FlagInv
  BY InitiallyNone DEF FlagInv
<1>2. BaseInv /\ FlagInv /\ [Next]_vars => FlagInv'
  BY FlagStep
<1>3. Spec => []BaseInv
  BY BaseAlways
<1>4. FlagInv => FlagsFollowConstraints
  BY FlagsAreRead
<1>5. QED
  BY <1>1, <1>2, <1>3, <1>4, PTL DEF Spec

\* What the report says of comments and indexes, attached when the script has
\* been read, is what the database has, for a table the script declares once.
\* The structure may be misread as it may; what must not occur is an indexed
\* column renamed or dropped, a commented name taken again, a comment emptied,
\* or a name the reader cannot place (NoteForms).
THEOREM AnnotationsAreFaithful ==
  ASSUME Forms \cap NoteForms = {}
  PROVE  Spec => []AnnotationsAreRead
<1>1. Init => NoteInv
  BY InitiallyNone DEF NoteInv, Resolved
<1>2. BaseInv /\ NoteInv /\ [Next]_vars => NoteInv'
  BY NoteStep
<1>3. Spec => []BaseInv
  BY BaseAlways
<1>4. BaseInv /\ NoteInv => AnnotationsAreRead
  BY NotesAreRead
<1>5. QED
  BY <1>1, <1>2, <1>3, <1>4, PTL DEF Spec
=============================================================================
