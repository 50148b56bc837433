---------------------------- MODULE PrefixGraph ----------------------------
(***************************************************************************)
(* How the framework parsers find the address a group of routes is served  *)
(* at.  Files contribute registrations: a group (a router, a plugin, a     *)
(* module, a resource class) is registered under another one with a        *)
(* prefix, or at the root.  When all files are read, each framework folds  *)
(* the registrations to one prefix per group:                              *)
(*   go       parsers/go/routing.py               _resolve_prefixes        *)
(*   fastify  parsers/typescript_fastify/plugins.py  _resolve              *)
(*   angular  parsers/typescript_angular          _compose_route_mounts    *)
(*   nest     parsers/typescript_nestjs/prefixes.py  _nest_prefixes        *)
(*   fastapi  parsers/python_fastapi/wiring.py    wiring                   *)
(* An unresolved prefix is null: a missing address, never a wrong one.     *)
(*                                                                         *)
(* An address is the sequence of its segments; reading syntax, the string  *)
(* form of a path and guards are left out.                                 *)
(***************************************************************************)
EXTENDS Naturals, Sequences, FiniteSets, FiniteSetsExt, TLC

CONSTANTS
  Groups,
  Frameworks,     \* the frameworks of this instance
  Segments,
  MaxEdges,       \* bound on the registrations
  Shapes          \* what a program does that a resolver is known to misread:
                  \* "reparent": a NestJS module registered under two parents
                  \* "grouping": a NestJS entry without a module that only
                  \* gives its children a path
                  \* "loop": FastAPI routers that include each other
                  \* "receiver": a FastAPI router included by a name its file
                  \* does not make: a parameter, an imported router
                  \* "shared": an Angular module that two modules import, or
                  \* that one imports and a route mounts

Root == "root"
Dynamic == "dynamic"     \* a prefix or a receiver that cannot be read; in
                         \* FastAPI an application that may itself be mounted
Foreign == "foreign"     \* FastAPI: a receiver its file does not make
Blank == "blank"         \* no prefix
Import == "import"       \* Angular: an NgModule imports another
None == <<Dynamic>>      \* the null address

ASSUME GraphAssumption ==
  /\ Frameworks \subseteq {"go", "fastify", "angular", "nest", "fastapi"}
  /\ MaxEdges \in Nat
  /\ Shapes \subseteq {"reparent", "grouping", "loop", "receiver", "shared"}

Edge == [to : Groups, from : {Root}, label : Segments]
   \cup [to : Groups, from : {Dynamic}, label : {Blank}]
   \cup [to : Groups, from : {Foreign}, label : Segments \cup {Blank}]
   \cup [to : Groups, from : Groups, label : Segments \cup {Blank, Dynamic, Import}]

VARIABLES
  framework,
  local,       \* FastAPI: the routers made inside a function
  edges,       \* the registrations collected
  resolving,   \* all files are read
  todo,        \* groups the resolver's loop has not reached
  memo         \* the addresses found so far

vars == <<framework, local, edges, resolving, todo, memo>>

Join(base, label) ==
  IF base = None \/ label = Dynamic THEN None
  ELSE IF label \in {Blank, Import} THEN base ELSE Append(base, label)

In(n) == {e \in edges : e.to = n}

Froms(regs) == {e.from : e \in regs}
LabelsOf(regs) == {e.label : e \in regs}

-----------------------------------------------------------------------------
(* What is served where: the addresses over every chain of registrations   *)
(* that starts at a root, going around a loop at least once.               *)

RECURSIVE Chains(_, _)
Chains(n, k) ==
  IF k = 0 THEN {}
  ELSE IF In(n) = {} THEN {IF n \in local THEN None ELSE <<>>}
  ELSE UNION {IF e.from = Root THEN {Join(<<>>, e.label)}
              ELSE IF e.from \in {Dynamic, Foreign} THEN {None}
              ELSE {Join(a, e.label) : a \in Chains(e.from, k - 1)} : e \in In(n)}

Served(n) == Chains(n, 2 * Cardinality(Groups))

RECURSIVE Above(_, _)
Above(n, k) == IF k = 0 THEN {}
               ELSE UNION {{m} \cup Above(m, k - 1) : m \in Froms(In(n)) \cap Groups}

OnLoop(n) == n \in Above(n, Cardinality(Groups))
BelowLoop(n) == \E m \in {n} \cup Above(n, Cardinality(Groups)) : OnLoop(m)

-----------------------------------------------------------------------------
(* One value, or null: record_distinct, and the sets of one element.       *)

\* Mutant of Unregistered: what nothing registers has no address.
MutUnregistered == None

\* What a group nothing registers is served at.
Unregistered == <<>>

\* Mutant of Unfinished: a group on the stack counts as mounted at the root.
MutUnfinished == <<>>

\* What a group on the recursion's stack is until it is found.
Unfinished == None

\* Mutant of Agree: the first value seen stands.
MutAgree(values) == CHOOSE v \in values : v # None \/ values = {None}

Agree(values) == IF Cardinality(values) = 1 THEN CHOOSE v \in values : TRUE ELSE None

RECURSIVE Visit(_, _, _)

\* The prefix of every registration of n, with the memo threaded through.
Ways(n, seen, m) ==
  LET step(e, acc) ==
        IF e.from \in Groups
        THEN LET r == Visit(e.from, seen \cup {n}, acc.memo)
             IN  [found |-> acc.found \cup {Join(r.address, e.label)}, memo |-> r.memo]
        ELSE [acc EXCEPT !.found = @ \cup {IF e.from = Root THEN Join(<<>>, e.label) ELSE None}]
  IN  FoldSet(step, [found |-> {}, memo |-> m], In(n))

\* Go and Fastify: all callers agree.
AllAgree(n, seen, m) ==
  LET w == Ways(n, seen, m)
      address == IF In(n) = {} THEN Unregistered ELSE Agree(w.found)
  IN  [address |-> address, memo |-> (n :> address) @@ w.memo]

\* Where registrations that agree on it come from.
Mounter(regs) == IF Cardinality(Froms(regs)) = 1 THEN CHOOSE f \in Froms(regs) : TRUE ELSE Dynamic

\* Angular: what a module is mounted with: the lazy routes that load it or,
\* when there is none, what the first module to import it is mounted with.
RECURSIVE MountsOf(_, _)
MountsOf(n, k) ==
  LET lazy == {e \in In(n) : e.label # Import}
      taken == IF k = 0 THEN {} ELSE {MountsOf(e.from, k - 1) : e \in In(n) \ lazy} \ {{}}
  IN  IF lazy # {} \/ taken = {} THEN lazy ELSE CHOOSE mounts \in taken : TRUE

\* Angular: one own prefix and one mounting file, composed with that file's.
Mounted(n, seen, m) ==
  LET mounts == MountsOf(n, Cardinality(Groups))
      own == Agree({Join(<<>>, l) : l \in LabelsOf(mounts)})
      parent == Mounter(mounts)
      r == Visit(parent, seen \cup {n}, m)
      segment == CHOOSE l \in LabelsOf(mounts) : TRUE
      address == IF parent = Root THEN own ELSE Join(r.address, segment)
  IN  IF mounts = {} THEN [address |-> Unregistered, memo |-> m]
      ELSE IF own = None \/ parent = Dynamic THEN [address |-> None, memo |-> m]
      ELSE [address |-> address, memo |-> (n :> address) @@ (IF parent = Root THEN m ELSE r.memo)]

\* NestJS: a module registered under several parents has, like a top-level
\* one, no parent.  Nothing is remembered between modules.
Registered(n, seen, m) ==
  LET own == Agree({Join(<<>>, l) : l \in LabelsOf(In(n))})
      segment == CHOOSE l \in LabelsOf(In(n)) : TRUE
      parent == Mounter(In(n))
      base == Visit(parent, seen \cup {n}, <<>>).address
  IN  [memo |-> m,
       address |-> IF In(n) = {} THEN Unregistered
                   ELSE IF own = None THEN None
                   ELSE IF parent \in Groups THEN Join(base, segment) ELSE own]

\* FastAPI: one include; a receiver its file does not make counts as a root
\* without a prefix; a router made in a function and included nowhere is
\* unknown.  An address is kept only for the group asked for.
Included(n, seen, m) ==
  LET e == CHOOSE x \in In(n) : TRUE
      base == IF e.from \in {Root, Foreign} THEN <<>> ELSE IF e.from = Dynamic THEN None
              ELSE Visit(e.from, seen \cup {n}, m).address
      address == IF Cardinality(In(n)) > 1 \/ (In(n) = {} /\ n \in local) THEN None
                 ELSE IF In(n) = {} \/ n \in seen THEN <<>> ELSE Join(base, e.label)
  IN  [address |-> address, memo |-> IF seen = {} THEN (n :> address) @@ m ELSE m]

Visit(n, seen, m) ==
  IF n \in DOMAIN m THEN [address |-> m[n], memo |-> m]
  ELSE IF n \in seen /\ framework # "fastapi" THEN [address |-> Unfinished, memo |-> m]
  ELSE CASE framework \in {"go", "fastify"} -> AllAgree(n, seen, m)
         [] framework = "angular" -> Mounted(n, seen, m)
         [] framework = "nest" -> Registered(n, seen, m)
         [] framework = "fastapi" -> Included(n, seen, m)

-----------------------------------------------------------------------------
Init ==
  /\ framework \in Frameworks
  /\ local \in SUBSET Groups /\ (framework # "fastapi" => local = {})
  /\ edges = {} /\ resolving = FALSE /\ todo = Groups /\ memo = <<>>

\* A file's registration is read, in any order.
Collect(e) ==
  /\ ~resolving /\ e \notin edges /\ Cardinality(edges) < MaxEdges
  /\ edges' = edges \cup {e}
  /\ e.from = Dynamic => framework # "angular" /\ (framework = "nest" => "grouping" \in Shapes)
  /\ framework = "nest" /\ "reparent" \notin Shapes => \A x \in In(e.to) : x.from = e.from
  /\ framework = "fastapi" /\ "loop" \notin Shapes => ~OnLoop(e.to)'
  /\ e.from = Foreign => framework = "fastapi" /\ "receiver" \in Shapes
  /\ e.label = Import => framework = "angular" /\ ~OnLoop(e.to)'
  /\ Import \in LabelsOf(In(e.to) \cup {e}) /\ "shared" \notin Shapes => In(e.to) = {}
  /\ UNCHANGED <<framework, local, resolving, todo, memo>>

\* One turn of the resolver's loop over the groups, whatever their order.
Resolve(n) ==
  /\ n \in todo
  /\ resolving' = TRUE /\ todo' = todo \ {n}
  /\ LET r == Visit(n, {}, memo) IN memo' = (n :> r.address) @@ r.memo
  /\ UNCHANGED <<framework, local, edges>>

Next == (\E e \in Edge : Collect(e)) \/ (\E n \in Groups : Resolve(n))

Spec == Init /\ [][Next]_vars

-----------------------------------------------------------------------------
(* Properties                                                              *)

\* An address that is not null is where the group is served, and the only
\* place: never one of several, never one with a part missing.
ResolvedIsServed == \A n \in DOMAIN memo :
  memo[n] # None => Served(n) = {memo[n]}

\* A group served at one address that can be read gets it: null is kept for
\* groups with a loop above them and, in the frameworks that take one
\* registration, for groups with a second one on the way.
OnlyDoubtIsNull == \A n \in DOMAIN memo :
  LET way == {n} \cup Above(n, Cardinality(Groups))
      several == framework \notin {"go", "fastify"} /\ \E g \in way : Cardinality(In(g)) > 1
  IN  memo[n] = None /\ ~BelowLoop(n) /\ ~several =>
        None \in Served(n) \/ Cardinality(Served(n)) > 1

\* Neither the order of the loop nor what an earlier turn left in the memo,
\* in the middle of a recursion, decides an address.
OrderFree == \A n \in DOMAIN memo : memo[n] = Visit(n, {}, <<>>).address

=============================================================================
