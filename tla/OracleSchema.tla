---------------------------- MODULE OracleSchema ----------------------------
(***************************************************************************)
(* The Oracle script reader of analyzers/sql.py (_parse_oracle_ddl): it    *)
(* goes through a migration script statement by statement and keeps the    *)
(* tables declared so far, the COMMENT records and the CREATE INDEX        *)
(* records; ALTERs change the table they find at once, comments and        *)
(* indexes are resolved against the tables when the script ends.           *)
(*                                                                         *)
(* Beside it runs db, the database the script was written for: every       *)
(* statement of the script is one that database accepted, or a constraint  *)
(* declared again.  The properties say that what the reader reports of a   *)
(* table is what the database has.                                         *)
(*                                                                         *)
(* All tables share one name and differ by schema, the case the lookup is  *)
(* about; a reference writes a schema or Unqualified.  A column is a name  *)
(* with the nullability it declares (not the one a primary key implies);   *)
(* types, defaults and text are left out.                                  *)
(***************************************************************************)
EXTENDS Naturals, Sequences, FiniteSets

CONSTANTS
    Schemas,        \* the schemas that own a table
    Current,        \* the schema an unqualified name means to the database
    Columns,        \* column names
    ConNames,       \* names of constraints
    MaxStatements,  \* bound on the length of a script
    MaxNotes,       \* bound on its COMMENT and CREATE INDEX statements
    Forms           \* what this script does that the reader is known to misread

Unqualified == ""
Anonymous == ""
Table == "*"        \* a comment on the table itself
NoText == 0

ASSUME SchemaAssumption ==
    /\ Current \in Schemas /\ Unqualified \notin Schemas /\ Table \notin Columns
    /\ MaxStatements \in Nat /\ MaxNotes \in Nat
    /\ Forms \subseteq {"cascade", "recolumn", "rename indexed", "drop indexed",
                        "readd", "bare modify", "twin foreign", "bare reference",
                        "rename referenced", "uncomment", "ambiguous"}

Written == Schemas \cup {Unqualified}
Denotes(w) == IF w = Unqualified THEN Current ELSE w

VARIABLES
    tables,     \* the table records in file order, each with its written schema
    comments,   \* the COMMENT records in file order
    indexes,    \* the CREATE INDEX records
    length,     \* statements read
    db          \* the database: its table of each schema, or none

vars == <<tables, comments, indexes, length, db>>

\* A foreign key writes the columns it refers to, or none: the primary key.
Constraint == [name : ConNames \cup {Anonymous}, type : {"PK"},
               cols : SUBSET Columns, ref : {Unqualified}, refCols : {{}}]
    \cup [name : ConNames \cup {Anonymous}, type : {"FK"},
          cols : SUBSET Columns, ref : Written, refCols : SUBSET Columns]

NoTable == [live |-> FALSE, cols |-> <<>>, cons |-> {}, idx |-> {},
            notes |-> [c \in Columns \cup {Table} |-> NoText]]

-----------------------------------------------------------------------------
(* The lookup                                                              *)

Last(S) == CHOOSE i \in S \cup {0} : \A j \in S : j <= i

\* Mutant of Find: a qualified reference only means a qualified table.
MutFind(w) == Last({i \in DOMAIN tables : tables[i].schema = w})

\* The place of the table a reference means, 0 for none.  Oracle has no
\* default schema known to the reader.
Find(w) ==
    LET in(s) == {i \in DOMAIN tables : tables[i].schema = s}
        oneSchema == \A i, j \in DOMAIN tables : tables[i].schema = tables[j].schema
    IN  IF w # Unqualified
        THEN Last(IF in(w) # {} THEN in(w) ELSE in(Unqualified))
        ELSE IF oneSchema THEN Last(DOMAIN tables) ELSE Last(in(Unqualified))

-----------------------------------------------------------------------------
(* Table records                                                           *)

Names(cols) == {cols[i].name : i \in DOMAIN cols}

ColsOf(cons, type) == UNION {c.cols : c \in {d \in cons : d.type = type}}

\* Mutant of Recompute: the flags stay as the columns were read.
MutRecompute(t) == t

\* The column flags are computed from the whole constraint list.
Recompute(t) ==
    [t EXCEPT !.cols = [i \in DOMAIN t.cols |->
                          [t.cols[i] EXCEPT !.pk = t.cols[i].name \in ColsOf(t.cons, "PK"),
                                            !.fk = t.cols[i].name \in ColsOf(t.cons, "FK")]],
              !.hasPk = \E c \in t.cons : c.type = "PK"]

\* Mutant of Equivalent: a constraint with and without its name differ.
MutEquivalent(c, d) == c = d

\* Same constraint whatever its name; the referenced columns are compared as
\* they are written, the schema of the referenced table is not compared.
Equivalent(c, d) == c.type = d.type /\ c.cols = d.cols /\ c.refCols = d.refCols

Column(name, nullable) == [name |-> name, nullable |-> nullable, pk |-> FALSE, fk |-> FALSE]

\* An ALTER of a table that is not found is recognized and changes nothing.
Alter(w, Op(_)) ==
    tables' = IF Find(w) = 0 THEN tables ELSE [tables EXCEPT ![Find(w)] = Op(@)]

Swap(c, old, new) == IF c = old THEN new ELSE c

Init ==
    /\ tables = <<>> /\ comments = <<>> /\ indexes = {} /\ length = 0
    /\ db = [s \in Schemas |-> NoTable]

-----------------------------------------------------------------------------
(* The database: what each accepted statement does to it                   *)

Live(w) == db[Denotes(w)].live

HasColumn(w, c) == c \in Names(db[Denotes(w)].cols)

\* What the database holds of a constraint: the referenced table itself, and
\* the referenced columns as they are written.
Held(c) == [c EXCEPT !.ref = Denotes(@)]

\* A foreign key needs the referenced table's primary key.
Referenced(s) == \E t \in Schemas : \E c \in db[t].cons : c.type = "FK" /\ c.ref = s

Accepts(s, c) ==
    /\ c.cols \subseteq Names(db[s].cols)
    /\ c.name # Anonymous => \A d \in db[s].cons : d.name # c.name
    /\ IF c.type = "PK"
       THEN \A d \in db[s].cons : d.type # "PK"
       ELSE /\ \E d \in db[Denotes(c.ref)].cons : d.type = "PK" /\ c.refCols \in {{}, d.cols}
            /\ \A d \in db[s].cons : d.type = "FK" /\ d.cols = c.cols =>
                 "twin foreign" \in Forms /\ d.ref # Denotes(c.ref)

\* The columns a foreign key refers to: written, or those of the primary key.
PointsAt(c) == IF c.refCols = {} THEN ColsOf(db[c.ref].cons, "PK") ELSE c.refCols

\* The same constraint is there, under some name.
Declared(w, con) ==
    \E d \in db[Denotes(w)].cons :
        /\ d.type = con.type /\ d.cols = con.cols /\ d.ref = Denotes(con.ref)
        /\ \/ d.refCols = con.refCols
           \/ "bare reference" \in Forms /\ con.type = "FK" /\ PointsAt(d) = PointsAt(Held(con))

\* Dropping a referenced primary key takes CASCADE CONSTRAINTS, which drops
\* the foreign keys on it with it.
MayDrop(s, cons) ==
    (\E c \in cons : c.type = "PK") /\ Referenced(s) => "cascade" \in Forms

WithoutCons(s, cons) ==
    LET onIt == {c \in UNION {db[t].cons : t \in Schemas} : c.type = "FK" /\ c.ref = s}
        gone == IF \E c \in cons : c.type = "PK" THEN onIt ELSE {}
    IN  [t \in Schemas |-> [db[t] EXCEPT !.cons = (@ \ gone) \ (IF t = s THEN cons ELSE {})]]

-----------------------------------------------------------------------------
(* The statements, each as the reader and the database take it             *)

Reads == length < MaxStatements /\ length' = length + 1

\* A statement on a table of the database.
ReadsOn(w) == Reads /\ Live(w) /\ (Find(w) = 0 => "ambiguous" \in Forms)

\* Every comment and index read so far finds its table.
Resolved == \A r \in {comments[i].on : i \in DOMAIN comments} \cup {x.on : x \in indexes} :
    Find(r) # 0

\* A comment read earlier names this column of this table.
Commented(w, name) ==
    \E i \in DOMAIN comments :
        Denotes(comments[i].on) = Denotes(w) /\ comments[i].col = name

\* CREATE TABLE appends a record and makes it visible to the statements
\* below.  A table dropped and created again keeps its written schema.
CreateTable(w, cols, pk) ==
    LET con == [name |-> Anonymous, type |-> "PK", cols |-> pk,
                ref |-> Unqualified, refCols |-> {}]
        t == Recompute([schema |-> w, cols |-> [i \in DOMAIN cols |-> Column(cols[i], TRUE)],
                        cons |-> IF pk = {} THEN {} ELSE {con}, hasPk |-> FALSE])
    IN  /\ Reads
        /\ ~Live(w)
        /\ \A i \in DOMAIN tables : Denotes(tables[i].schema) = Denotes(w) => tables[i].schema = w
        /\ tables' = Append(tables, t)
        /\ db' = [db EXCEPT ![Denotes(w)] =
                    [NoTable EXCEPT !.live = TRUE,
                                    !.cols = [i \in DOMAIN cols |-> [name |-> cols[i], nullable |-> TRUE]],
                                    !.cons = {Held(c) : c \in t.cons}]]
        /\ UNCHANGED <<comments, indexes>>
        /\ "ambiguous" \in Forms \/ Resolved'

\* DROP TABLE is not recognized: the reader skips it.
DropTable(w) ==
    /\ ReadsOn(w) /\ MayDrop(Denotes(w), db[Denotes(w)].cons)
    /\ db' = [WithoutCons(Denotes(w), db[Denotes(w)].cons) EXCEPT ![Denotes(w)] = NoTable]
    /\ UNCHANGED <<tables, comments, indexes>>

\* ALTER TABLE ADD column, with what the column declares inline.  A column
\* that is there already is left alone, its constraints are taken.
AddColumn(w, name, cons) ==
    LET s == Denotes(w)
        op(t) == LET new == IF name \in Names(t.cols) THEN t.cols
                            ELSE Append(t.cols, Column(name, TRUE))
                 IN  Recompute([t EXCEPT !.cols = new, !.cons = @ \cup cons])
        again == HasColumn(w, name)
    IN  /\ ReadsOn(w)
        /\ again => "recolumn" \in Forms
        /\ ~again /\ Commented(w, name) => "readd" \in Forms
        /\ \A c \in cons : again \/ Accepts(s, [c EXCEPT !.cols = {}])
        /\ Alter(w, op)
        /\ db' = IF again THEN db
                 ELSE [db EXCEPT ![s].cols = Append(@, [name |-> name, nullable |-> TRUE]),
                                 ![s].cons = @ \cup {Held(c) : c \in cons}]
        /\ UNCHANGED <<comments, indexes>>

\* The columns of another name, in order: the k-th of them has k of them up
\* to its place.
Without(cols, name) ==
    LET keep == {i \in DOMAIN cols : cols[i].name # name}
        nth(k) == CHOOSE i \in keep : Cardinality({j \in keep : j <= i}) = k
    IN  [k \in 1..Cardinality(keep) |-> cols[nth(k)]]

\* ALTER TABLE DROP COLUMN takes the constraints that mention it.
DropColumn(w, name) ==
    LET s == Denotes(w)
        gone(cons) == {c \in cons : name \in c.cols}
        op(t) == Recompute([t EXCEPT !.cols = Without(@, name), !.cons = @ \ gone(@)])
    IN  /\ ReadsOn(w)
        /\ HasColumn(w, name) /\ Len(db[s].cols) > 1
        /\ MayDrop(s, gone(db[s].cons))
        /\ (\E x \in db[s].idx : name \in x) => "drop indexed" \in Forms
        /\ Alter(w, op)
        /\ db' = [WithoutCons(s, gone(db[s].cons)) EXCEPT
                    ![s].cols = Without(@, name),
                    ![s].idx = {x \in @ : name \notin x},
                    ![s].notes[name] = NoText]
        /\ UNCHANGED <<comments, indexes>>

\* Mutant of RenameComments: the comments keep the old name.
MutRenameComments(w, old, new) == comments

\* ALTER TABLE RENAME COLUMN: columns, the columns of the table's constraints
\* and the comments made before it follow; the indexes and the columns that
\* foreign keys refer to do not.
RenameComments(w, old, new) ==
    [i \in DOMAIN comments |->
        IF Find(comments[i].on) = Find(w) /\ comments[i].col = old
        THEN [comments[i] EXCEPT !.col = new] ELSE comments[i]]

\* To the database the foreign keys on a table follow its columns.
Repointed(s, old, new) ==
    LET moved(c) == [c EXCEPT !.refCols = {Swap(x, old, new) : x \in @}]
    IN  [t \in Schemas |->
            [db[t] EXCEPT !.cons = {IF c.ref = s THEN moved(c) ELSE c : c \in @}]]

RenameColumn(w, old, new) ==
    LET s == Denotes(w)
        move(set) == {Swap(c, old, new) : c \in set}
        cols(q) == [i \in DOMAIN q |-> [q[i] EXCEPT !.name = Swap(@, old, new)]]
        cons(set) == {[c EXCEPT !.cols = move(@)] : c \in set}
        op(t) == [t EXCEPT !.cols = cols(@), !.cons = cons(@)]
    IN  /\ ReadsOn(w)
        /\ HasColumn(w, old) /\ ~HasColumn(w, new)
        /\ Commented(w, new) => "readd" \in Forms
        /\ (\E x \in db[s].idx : old \in x) => "rename indexed" \in Forms
        /\ (\E t \in Schemas : \E c \in db[t].cons : c.ref = s /\ old \in c.refCols) =>
              "rename referenced" \in Forms
        /\ Alter(w, op)
        /\ comments' = IF Find(w) = 0 THEN comments ELSE RenameComments(w, old, new)
        /\ db' = [Repointed(s, old, new) EXCEPT
                            ![s].cols = cols(@), ![s].cons = cons(@),
                            ![s].idx = {move(x) : x \in @},
                            ![s].notes = [@ EXCEPT ![new] = db[s].notes[old], ![old] = NoText]]
        /\ UNCHANGED indexes

\* ALTER TABLE MODIFY writes the nullability whether or not the statement
\* has a NULL clause; without one the column reads as nullable.
ModifyColumn(w, name, nullable, bare) ==
    LET s == Denotes(w)
        set(q, v) == [i \in DOMAIN q |-> [q[i] EXCEPT !.nullable = IF q[i].name = name THEN v ELSE @]]
        op(t) == [t EXCEPT !.cols = set(@, bare \/ nullable)]
    IN  /\ ReadsOn(w)
        /\ HasColumn(w, name)
        /\ IF bare THEN "bare modify" \in Forms
           ELSE [name |-> name, nullable |-> ~nullable] \in {db[s].cols[i] : i \in DOMAIN db[s].cols}
        /\ Alter(w, op)
        /\ db' = IF bare THEN db ELSE [db EXCEPT ![s].cols = set(@, nullable)]
        /\ UNCHANGED <<comments, indexes>>

\* ALTER TABLE ADD CONSTRAINT: the database has it already under some name,
\* or accepts it.  The reader tells a repetition by Equivalent.
AddConstraint(w, con) ==
    LET op(t) == IF \E c \in t.cons : Equivalent(c, con) THEN t
                 ELSE Recompute([t EXCEPT !.cons = @ \cup {con}])
    IN  /\ ReadsOn(w)
        /\ Declared(w, con) \/ Accepts(Denotes(w), con)
        /\ Alter(w, op)
        /\ db' = IF Declared(w, con) THEN db
                 ELSE [db EXCEPT ![Denotes(w)].cons = @ \cup {Held(con)}]
        /\ UNCHANGED <<comments, indexes>>

\* ALTER TABLE DROP CONSTRAINT, by name.
DropConstraint(w, name) ==
    LET s == Denotes(w)
        named(cons) == {c \in cons : c.name = name}
        op(t) == Recompute([t EXCEPT !.cons = @ \ named(@)])
    IN  /\ ReadsOn(w)
        /\ named(db[s].cons) # {}
        /\ MayDrop(s, named(db[s].cons))
        /\ Alter(w, op)
        /\ db' = WithoutCons(s, named(db[s].cons))
        /\ UNCHANGED <<comments, indexes>>

Notes == Len(comments) + Cardinality(indexes) < MaxNotes

\* CREATE INDEX is recorded with the table as written.
CreateIndex(w, cols) ==
    /\ ReadsOn(w)
    /\ Notes /\ cols \subseteq Names(db[Denotes(w)].cols)
    /\ indexes' = indexes \cup {[on |-> w, cols |-> cols]}
    /\ db' = [db EXCEPT ![Denotes(w)].idx = @ \cup {cols}]
    /\ UNCHANGED <<tables, comments>>

\* COMMENT ON TABLE or COLUMN is recorded with the table as written.
Comment(w, col, text) ==
    /\ ReadsOn(w)
    /\ Notes /\ col \in Names(db[Denotes(w)].cols) \cup {Table}
    /\ text = NoText => "uncomment" \in Forms
    /\ comments' = Append(comments, [on |-> w, col |-> col, text |-> text])
    /\ db' = [db EXCEPT ![Denotes(w)].notes[col] = text]
    /\ UNCHANGED <<tables, indexes>>

-----------------------------------------------------------------------------
(* The report, made when the script ends                                   *)

\* A later comment on the same object wins; an empty one is dropped.
NoteOf(i, col) ==
    LET on == {k \in DOMAIN comments :
                  /\ Find(comments[k].on) = i
                  /\ comments[k].col = col
                  /\ comments[k].text # NoText}
    IN  IF on = {} THEN NoText ELSE comments[Last(on)].text

\* The indexes attached to table i.
IndexesOf(i) == {x.cols : x \in {y \in indexes : Find(y.on) = i}}

Lists == {<<c>> : c \in Columns} \cup {<<c, d>> : c, d \in Columns}

Next == \E w \in Written :
    \/ \E cols \in {q \in Lists : Len(q) = Cardinality({q[i] : i \in DOMAIN q})} :
          \E pk \in {{}, {cols[1]}} : CreateTable(w, cols, pk)
    \/ DropTable(w)
    \/ \E c \in Columns :
          \E cons \in {{}} \cup {{k} : k \in {x \in Constraint : x.cols = {c} /\ x.name = Anonymous}} :
             AddColumn(w, c, cons)
    \/ \E c \in Columns : DropColumn(w, c)
    \/ \E old, new \in Columns : RenameColumn(w, old, new)
    \/ \E c \in Columns, nullable, bare \in BOOLEAN : ModifyColumn(w, c, nullable, bare)
    \/ \E con \in {c \in Constraint : /\ c.name # Anonymous /\ c.cols # {}
                                      /\ c.type = "FK" => Cardinality(c.cols) = 1} :
          AddConstraint(w, con)
    \/ \E n \in ConNames : DropConstraint(w, n)
    \/ \E cols \in (SUBSET Columns) \ {{}} : CreateIndex(w, cols)
    \/ \E col \in Columns \cup {Table}, text \in {NoText, Len(comments) + 1} : Comment(w, col, text)

Spec == Init /\ [][Next]_vars

-----------------------------------------------------------------------------
(* Properties                                                              *)

\* Type invariant.
TypeOK ==
    /\ length \in 0..MaxStatements
    /\ \A i \in DOMAIN tables :
          /\ tables[i].schema \in Written /\ tables[i].hasPk \in BOOLEAN
          /\ tables[i].cons \subseteq Constraint
          /\ \A k \in DOMAIN tables[i].cols :
                tables[i].cols[k] \in [name : Columns, nullable : BOOLEAN, pk : BOOLEAN, fk : BOOLEAN]
    /\ \A i \in DOMAIN comments :
          comments[i] \in [on : Written, col : Columns \cup {Table}, text : 0..MaxNotes]
    /\ indexes \subseteq [on : Written, cols : SUBSET Columns]

\* What the reader holds of every table of the database is its columns in
\* order, their nullability and its constraints with the table and the columns
\* they refer to, however the statements named the table and whatever was
\* dropped, added, renamed or declared twice.
StructureIsRead == \A s \in Schemas : db[s].live =>
    LET i == Find(s)
    IN  /\ i # 0 /\ Denotes(tables[i].schema) = s
        /\ [k \in DOMAIN tables[i].cols |->
              [name |-> tables[i].cols[k].name, nullable |-> tables[i].cols[k].nullable]] = db[s].cols
        /\ {Held(c) : c \in tables[i].cons} = db[s].cons

\* After every statement the key flags of a column, and of the table, say
\* what the table's constraint list says.
FlagsFollowConstraints == \A i \in DOMAIN tables :
    /\ \A k \in DOMAIN tables[i].cols : LET c == tables[i].cols[k] IN
          /\ c.pk = \E d \in tables[i].cons : d.type = "PK" /\ c.name \in d.cols
          /\ c.fk = \E d \in tables[i].cons : d.type = "FK" /\ c.name \in d.cols
    /\ tables[i].hasPk = \E d \in tables[i].cons : d.type = "PK"

\* Comments and indexes, resolved only when the script ends, are reported on
\* the table and the columns the database has them on, for a table the script
\* declares once.
AnnotationsAreRead == \A s \in Schemas :
    LET declared == {i \in DOMAIN tables : Denotes(tables[i].schema) = s}
    IN  db[s].live /\ Cardinality(declared) = 1 =>
          /\ \A c \in Names(db[s].cols) \cup {Table} : NoteOf(Find(s), c) = db[s].notes[c]
          /\ IndexesOf(Find(s)) = db[s].idx

=============================================================================
