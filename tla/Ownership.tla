----------------------------- MODULE Ownership -----------------------------
(***************************************************************************)
(* core/ownership.py: the language of a file whose extension several       *)
(* languages register (.h: C and C++), decided once for the whole          *)
(* repository.  The state machine follows _all_referrer_languages, an      *)
(* iterative form of Tarjan's algorithm over the shared files that their   *)
(* content does not decide, and the four rules of resolve_owners around    *)
(* it.  What a file's content proves and which file references which are   *)
(* inputs; finding and resolving references is not modelled.  The code     *)
(* visits files in the order of their names, which can be any order: here  *)
(* each choice is open.                                                    *)
(***************************************************************************)
EXTENDS Naturals, FiniteSets, Sequences

CONSTANTS
  Shared,        \* files with candidate languages Langs
  Known,         \* files of one candidate language, evidence only
  Langs,         \* the candidate languages
  Language,      \* language of each known file
  Folder,        \* folder of each file
  Provers,       \* languages with a "proves" hook
  Includes,      \* the languages each language can reference
  DefaultFor,    \* languages that declare the extension their default
  First          \* the candidate registered first

Files == Shared \cup Known

ASSUME OwnershipAssumption ==
  /\ IsFiniteSet(Shared) /\ Shared \cap Known = {} /\ IsFiniteSet(Langs)
  /\ Language \in [Known -> Langs] /\ First \in Langs
  /\ Provers \subseteq Langs /\ DefaultFor \subseteq Langs
  /\ Includes \in [Langs -> SUBSET Langs]
  /\ DOMAIN Folder = Files

VARIABLES
  proves,        \* input: the languages the content of each shared file proves
  referrers,     \* input: the files that reference each shared file
  phase,         \* content, visit, settle, done
  decided,       \* the decisions so far; a language not in Langs: none yet
  settled,       \* the decisions rules 3 and 4 may read
  index, low,    \* Tarjan's numbers (index 0: not visited)
  stack, work,   \* the open files; the chain of files being visited
  pending,       \* referrers the visit of each file has still to look at
  answer         \* languages that reference each file of a finished component

inputs == <<proves, referrers>>
search == <<index, low, stack, work, pending, answer>>
vars == <<inputs, phase, decided, settled, search>>

None == "undecided"
Sole(S) == IF Cardinality(S) = 1 THEN CHOOSE l \in S : TRUE ELSE None

(* Rule 1: one candidate is proved by the content. *)
ByContent(p) == Sole(proves[p])
Undecided == {p \in Shared : ByContent(p) = None}

Open == {stack[i] : i \in 1..Len(stack)}
Answered == {p \in Shared : index[p] > 0 /\ p \notin Open}
Visited == Cardinality({p \in Shared : index[p] > 0})

TypeOK ==
  /\ proves \in [Shared -> SUBSET Provers] /\ referrers \in [Shared -> SUBSET Files]
  /\ phase \in {"content", "visit", "settle", "done"}
  /\ decided \in [Shared -> Langs \cup {None}] /\ settled \in [Shared -> Langs \cup {None}]
  /\ index \in [Shared -> 0..Cardinality(Shared)] /\ low \in [Shared -> 0..Cardinality(Shared)]
  /\ stack \in Seq(Shared) /\ work \in Seq(Shared)
  /\ pending \in [Shared -> SUBSET Shared] /\ answer \in [Shared -> SUBSET Langs]

Init ==
  /\ proves \in [Shared -> SUBSET Provers]
  /\ referrers \in {g \in [Shared -> SUBSET Files] : \A p \in Shared : p \notin g[p]}
  /\ phase = "content"
  /\ decided = [p \in Shared |-> None] /\ settled = [p \in Shared |-> None]
  /\ index = [p \in Shared |-> 0] /\ low = [p \in Shared |-> 0]
  /\ stack = <<>> /\ work = <<>>
  /\ pending = [p \in Shared |-> {}] /\ answer = [p \in Shared |-> {}]

RuleContent ==
  /\ phase = "content"
  /\ decided' = [p \in Shared |-> ByContent(p)]
  /\ phase' = "visit"
  /\ UNCHANGED <<inputs, settled, search>>

-----------------------------------------------------------------------------
(* _all_referrer_languages                                                 *)

Least(a, b) == IF a < b THEN a ELSE b
Top == work[Len(work)]

(* visit(p), and its iterator over the undecided referrers *)
Visit(p) ==
  /\ index' = [index EXCEPT ![p] = Visited + 1]
  /\ low' = [low EXCEPT ![p] = Visited + 1]
  /\ stack' = Append(stack, p)
  /\ work' = Append(work, p)
  /\ UNCHANGED <<inputs, phase, decided, settled, answer>>

VisitRoot(p) ==
  /\ phase = "visit" /\ work = <<>>
  /\ p \in Undecided /\ index[p] = 0
  /\ Visit(p)
  /\ pending' = [pending EXCEPT ![p] = referrers[p] \cap Undecided]

(* The next referrer has not been visited: go there first. *)
Descend(p) ==
  /\ phase = "visit" /\ work # <<>> /\ p \in pending[Top] /\ index[p] = 0
  /\ Visit(p)
  /\ pending' = [pending EXCEPT ![Top] = @ \ {p}, ![p] = referrers[p] \cap Undecided]

(* Mutant of LookBack: the iterator starts over at every look. *)
MutLookBackRestarts(p) ==
  /\ phase = "visit" /\ work # <<>> /\ p \in pending[Top] /\ index[p] > 0
  /\ low' = [low EXCEPT ![Top] = IF p \in Open THEN Least(@, index[p]) ELSE @]
  /\ UNCHANGED <<inputs, phase, decided, settled, index, stack, work, pending, answer>>

(* Mutant of LookBack: files of finished components count as well. *)
MutLookBackAnywhere(p) ==
  /\ phase = "visit" /\ work # <<>> /\ p \in pending[Top] /\ index[p] > 0
  /\ low' = [low EXCEPT ![Top] = Least(@, index[p])]
  /\ pending' = [pending EXCEPT ![Top] = @ \ {p}]
  /\ UNCHANGED <<inputs, phase, decided, settled, index, stack, work, answer>>

(* It has been: only an open one is in the same component. *)
LookBack(p) ==
  /\ phase = "visit" /\ work # <<>> /\ p \in pending[Top] /\ index[p] > 0
  /\ low' = [low EXCEPT ![Top] = IF p \in Open THEN Least(@, index[p]) ELSE @]
  /\ pending' = [pending EXCEPT ![Top] = @ \ {p}]
  /\ UNCHANGED <<inputs, phase, decided, settled, index, stack, work, answer>>

(* What the files of a component are referenced by, seen from outside it. *)
ReferencedBy(component) ==
  LET outside == (UNION {referrers[p] : p \in component}) \ component IN
  UNION {IF q \in Known THEN {Language[q]}
         ELSE IF q \in Undecided THEN answer[q]
         ELSE {ByContent(q)} : q \in outside}

(* Mutant of Leave: the low number is not handed down. *)
MutLeaveKeepsLow ==
  /\ phase = "visit" /\ work # <<>> /\ pending[Top] = {}
  /\ LET rest == SubSeq(work, 1, Len(work) - 1)
         from == CHOOSE i \in 1..Len(stack) : stack[i] = Top
         component == {stack[i] : i \in from..Len(stack)}
     IN  /\ work' = rest
         /\ IF low[Top] = index[Top]
            THEN /\ stack' = SubSeq(stack, 1, from - 1)
                 /\ answer' = [p \in Shared |->
                      IF p \in component THEN ReferencedBy(component) ELSE answer[p]]
            ELSE UNCHANGED <<stack, answer>>
  /\ UNCHANGED <<inputs, phase, decided, settled, index, low, pending>>

(* No referrer is left: hand the low number down, and if the file is the   *)
(* root of its component take that off the stack and answer it.            *)
Leave ==
  /\ phase = "visit" /\ work # <<>> /\ pending[Top] = {}
  /\ LET rest == SubSeq(work, 1, Len(work) - 1)
         from == CHOOSE i \in 1..Len(stack) : stack[i] = Top
         component == {stack[i] : i \in from..Len(stack)}
     IN  /\ work' = rest
         /\ low' = IF rest = <<>> THEN low
                   ELSE [low EXCEPT ![rest[Len(rest)]] = Least(@, low[Top])]
         /\ IF low[Top] = index[Top]
            THEN /\ stack' = SubSeq(stack, 1, from - 1)
                 /\ answer' = [p \in Shared |->
                      IF p \in component THEN ReferencedBy(component) ELSE answer[p]]
            ELSE UNCHANGED <<stack, answer>>
  /\ UNCHANGED <<inputs, phase, decided, settled, index, pending>>

-----------------------------------------------------------------------------
(* Rules 2, 3 and 4.                                                       *)

(* _by_references *)
ByReferences(referring) ==
  IF referring = {} THEN None
  ELSE IF Sole(referring) # None THEN Sole(referring)
  ELSE Sole({c \in Langs : \A l \in referring : c = l \/ c \in Includes[l]})

RuleReferences ==
  /\ phase = "visit" /\ work = <<>> /\ \A p \in Undecided : index[p] > 0
  /\ decided' = [p \in Shared |->
       IF decided[p] # None THEN decided[p] ELSE ByReferences(answer[p])]
  /\ settled' = decided'
  /\ phase' = "settle"
  /\ UNCHANGED <<inputs, search>>

(* The languages of the files of a set, going by some decisions. *)
Spoken(files, by) ==
  {Language[q] : q \in files \cap Known} \cup ({by[q] : q \in files \cap Shared} \ {None})

(* _by_neighbours, then _by_default *)
ByRest(p, by) ==
  LET near == Spoken({q \in Files : Folder[q] = Folder[p]}, by) \cap Langs
      anywhere == Spoken(Files, by) \cap Langs
  IN  IF Sole(near) # None THEN Sole(near)
      ELSE IF Sole(anywhere) # None THEN Sole(anywhere)
      ELSE IF Sole(DefaultFor) # None THEN Sole(DefaultFor)
      ELSE First

RuleRest(p) ==
  /\ phase = "settle" /\ decided[p] = None
  /\ decided' = [decided EXCEPT ![p] = ByRest(p, settled)]
  /\ UNCHANGED <<inputs, phase, settled, search>>

Return ==
  /\ phase = "settle" /\ \A p \in Shared : decided[p] # None
  /\ phase' = "done"
  /\ UNCHANGED <<inputs, decided, settled, search>>

Next ==
  \/ RuleContent
  \/ \E p \in Shared : VisitRoot(p) \/ Descend(p) \/ LookBack(p) \/ RuleRest(p)
  \/ Leave \/ RuleReferences \/ Return

Spec == Init /\ [][Next]_vars

(* One process, which keeps running. *)
FairSpec == Spec /\ WF_vars(Next)

-----------------------------------------------------------------------------
(* What the module's docstring promises, without any order of visits.      *)

(* The undecided files from which p can be reached: in every set that      *)
(* holds p and the undecided referrers of its members.                     *)
Upstream(p) ==
  {q \in Undecided : \A S \in SUBSET Undecided :
     p \in S /\ (\A s \in S : referrers[s] \cap Undecided \subseteq S) => q \in S}

(* The languages of the settled files that reference p, directly or        *)
(* through undecided files.                                                *)
Referring(p) ==
  LET through == (UNION {referrers[q] : q \in Upstream(p)}) \ Undecided IN
  {Language[q] : q \in through \cap Known} \cup {ByContent(q) : q \in through \cap Shared}

Rules12 ==
  [p \in Shared |-> IF ByContent(p) # None THEN ByContent(p) ELSE ByReferences(Referring(p))]

(* "so each component's answer is the union of its members' settled        *)
(* referrers and the answers already computed": once a component is        *)
(* finished, whatever the order of visits, each of its files has the       *)
(* languages that reach it, through cycles included.                       *)
AnswersAreReach == \A p \in Answered : answer[p] = Referring(p)

(* "The rules depend only on the evidence, never on the order files are    *)
(* visited": every order ends with the decisions of the order-free rules.  *)
DecisionsIgnoreOrder ==
  phase = "done" =>
    decided = [p \in Shared |-> IF Rules12[p] # None THEN Rules12[p] ELSE ByRest(p, Rules12)]

(* The search ends: no cycle of references keeps it going. *)
OwnersAreDecided == <>(phase = "done")
=============================================================================
