--------------------------- MODULE FileSelection ----------------------------
(***************************************************************************)
(* Which files of a repository are parsed, and as what: the walk of        *)
(* core/scanner.py with the ignore layers of core/ignore.py, and           *)
(* _scan_entries of core/pipeline.py, which filters what the walk yields   *)
(* by language and has shared files decided.                               *)
(*                                                                         *)
(* The tree is fixed; what varies is the kind of every file, the rules and *)
(* what the run asks for.  A rule names a node and covers what is below    *)
(* it, as a gitignore pattern does; pattern syntax is left out.  Linked    *)
(* directories are neither walked nor reported, so there are none.  How a  *)
(* shared file is decided is Ownership's subject: here only its rules 3    *)
(* and 4 decide.                                                           *)
(***************************************************************************)
EXTENDS Naturals, Sequences, FiniteSets

CONSTANTS
  Files,       \* the files of the tree, numbered in the order of their names
  Parent,      \* the directory of every node but the root, 0
  Kinds,       \* kinds of files in this instance
  Modes,       \* what runs ask for: languages (none: all), templates
  MaxLines     \* bound on the ignore and include lines

Nodes == DOMAIN Parent
Dirs == {0} \cup (Nodes \ Files)

ASSUME TreeAssumption ==
  /\ Nodes \subseteq Nat \ {0} /\ Files \subseteq Nodes
  /\ \A n \in Nodes : Parent[n] \in Dirs /\ Parent[n] < n
  /\ Kinds \subseteq {"c", "cpp", "h", "html", "txt", "big", "gone"}
  /\ Modes \subseteq [languages : SUBSET {"c", "cpp", "html"}, templates : BOOLEAN]
  /\ MaxLines \in Nat

Up[n \in Nodes \cup {0}] == IF n = 0 THEN {} ELSE {Parent[n]} \cup Up[Parent[n]]

\* Every ignore or include line: built in, of a directory, of a language.
Rules == [layer : {"builtin"}, at : {0}, lang : {""}, on : Nodes]
  \cup {r \in [layer : {"ignore", "include"}, at : Dirs, lang : {""}, on : Nodes] : r.at \in Up[r.on]}
  \cup [layer : {"lang ignore", "lang include"}, at : {0}, lang : {"c", "cpp"}, on : Nodes]

VARIABLES
  kind, rules, mode,   \* the repository and the run
  walk,        \* the directories being walked, each with the entries left and
               \* the ignore and include lines in scope
  skips,       \* the reasons reported for every node
  scanned,     \* what the walk yielded and its language's rules kept
  entries,     \* the files to parse, with their languages
  phase

vars == <<kind, rules, mode, walk, skips, scanned, entries, phase>>

Covers(S, n) == \E r \in S : r.on \in {n} \cup Up[n]

-----------------------------------------------------------------------------
(* Languages                                                               *)

\* The base languages that register a file, in registration order.
Candidates(n) == CASE kind[n] \in {"c", "big", "gone"} -> <<"c">> [] kind[n] = "cpp" -> <<"cpp">>
                   [] kind[n] = "h" -> <<"c", "cpp">> [] kind[n] = "html" -> <<"html">>
                   [] OTHER -> <<>>

Shared(n) == Len(Candidates(n)) > 1

\* Mutant of Competing: a run on one language asks for no evidence.
MutCompeting(languages) == {}

\* The other languages that register an extension of one of these.
Competing(languages) ==
  IF languages \cap {"c", "cpp"} # {} THEN {"c", "cpp"} \ languages ELSE {}

\* A file has the language of its first candidate until it is decided.
Classified(n) ==
  /\ Candidates(n) # <<>>
  /\ mode.languages # {} => Candidates(n)[1] \in mode.languages \cup Competing(mode.languages)

LangRules(layer, l) == {r \in rules : r.layer = layer /\ r.lang = l}

LangIgnored(n, l) == Covers(LangRules("lang ignore", l), n) /\ ~Covers(LangRules("lang include", l), n)

\* The one language of the unshared files in the folder, else in the
\* repository; else the extension's default.
Owner(n, evidence) ==
  LET spoken(S) == {Candidates(m)[1] : m \in {x \in S : ~Shared(x)}} \cap {"c", "cpp"}
      near == spoken({m \in evidence : Parent[m] = Parent[n]})
      one(S) == CHOOSE l \in S : TRUE
  IN  IF Cardinality(near) = 1 THEN one(near)
      ELSE IF Cardinality(spoken(evidence)) = 1 THEN one(spoken(evidence)) ELSE "cpp"

LanguageOf(n, evidence) == IF Shared(n) THEN Owner(n, evidence) ELSE Candidates(n)[1]

-----------------------------------------------------------------------------
(* The walk                                                                *)

At(d, layer) == {r \in rules : r.layer = layer /\ r.at = d}

\* A directory is walked with the lines in scope and its own.
Frame(d, ignore, include) ==
  [todo |-> {n \in Nodes : Parent[n] = d},
   ignore |-> ignore \cup At(d, "ignore"), include |-> include \cup At(d, "include")]

Init ==
  /\ kind \in [Files -> Kinds] /\ mode \in Modes
  /\ rules \in {{}} \cup {{f[i] : i \in 1..MaxLines} : f \in [1..MaxLines -> Rules]}
  /\ walk = <<Frame(0, {}, {})>>
  /\ skips = [n \in Nodes |-> <<>>] /\ scanned = {} /\ entries = {} /\ phase = "walk"

Inner == walk[Len(walk)]
Current == CHOOSE n \in Inner.todo : \A m \in Inner.todo : n <= m
Past == [walk EXCEPT ![Len(walk)].todo = @ \ {Current}]

Keep(n) == Covers(At(0, "builtin") \cup Inner.ignore, n) => Covers(Inner.include, n)

\* Why a file is dropped, in the order of the filters.  A shared file goes
\* now only if every candidate drops it.
Dropped(n) ==
  IF ~Keep(n) THEN "ignored"
  ELSE IF kind[n] = "html" /\ ~mode.templates THEN "template"
  ELSE IF ~Classified(n) THEN "unsupported"
  ELSE IF kind[n] = "gone" THEN "gone"          \* its size cannot be read
  ELSE IF kind[n] = "big" THEN "oversized"
  ELSE IF \A i \in DOMAIN Candidates(n) : LangIgnored(n, Candidates(n)[i]) THEN "ignored"
  ELSE "no"

Step == phase = "walk" /\ walk # <<>> /\ Inner.todo # {} /\ UNCHANGED <<kind, rules, mode, entries, phase>>

\* An ignored directory is pruned with everything below it.
VisitDir ==
  /\ Step /\ Current \in Dirs
  /\ IF Keep(Current)
     THEN /\ walk' = Append(Past, Frame(Current, Inner.ignore, Inner.include))
          /\ UNCHANGED skips
     ELSE walk' = Past /\ skips' = [skips EXCEPT ![Current] = Append(@, "ignored")]
  /\ UNCHANGED scanned

\* Mutant of Unreported: a file in no language of the run goes without a word.
MutUnreported == {"no", "gone", "unsupported"}

\* A file whose size cannot be read goes without a word.
Unreported == {"no", "gone"}

VisitFile ==
  /\ Step /\ Current \in Files
  /\ walk' = Past
  /\ IF Dropped(Current) = "no" THEN scanned' = scanned \cup {Current} ELSE UNCHANGED scanned
  /\ IF Dropped(Current) \in Unreported THEN UNCHANGED skips
     ELSE skips' = [skips EXCEPT ![Current] = Append(@, Dropped(Current))]

Leave ==
  /\ phase = "walk" /\ walk # <<>> /\ Inner.todo = {}
  /\ walk' = SubSeq(walk, 1, Len(walk) - 1)
  /\ UNCHANGED <<kind, rules, mode, skips, scanned, entries, phase>>

\* Shared files are decided; the decided language's rules and the run's
\* languages drop files now that could not be dropped before.
Late(n) ==
  IF Shared(n) /\ LangIgnored(n, LanguageOf(n, scanned)) THEN <<"ignored">>
  ELSE IF mode.languages # {} /\ LanguageOf(n, scanned) \notin mode.languages THEN <<"unsupported">>
  ELSE <<>>

Decide ==
  /\ phase = "walk" /\ walk = <<>> /\ phase' = "done"
  /\ skips' = [n \in Nodes |-> IF n \in scanned THEN skips[n] \o Late(n) ELSE skips[n]]
  /\ entries' = {[file |-> n, language |-> LanguageOf(n, scanned)] :
                   n \in {m \in scanned : Late(m) = <<>>}}
  /\ UNCHANGED <<kind, rules, mode, walk, scanned>>

Next == VisitDir \/ VisitFile \/ Leave \/ Decide

Spec == Init /\ [][Next]_vars

-----------------------------------------------------------------------------
(* Properties                                                              *)

\* The layers, without a walk: a node is kept when the lines of
\* the directories above it include it, or none ignores it.
InScope(layer, n) == {r \in rules : r.layer = layer /\ r.at \in Up[n]}
Kept(n) == Covers(InScope("builtin", n) \cup InScope("ignore", n), n) => Covers(InScope("include", n), n)
Reached(n) == \A m \in {n} \cup (Up[n] \ {0}) : Kept(m)

Eligible == {n \in Files :
  /\ Reached(n) /\ (kind[n] = "html" => mode.templates) /\ kind[n] \notin {"txt", "big", "gone"}
  /\ \E i \in DOMAIN Candidates(n) : ~LangIgnored(n, Candidates(n)[i])}

\* What is parsed follows from the layers, whatever the walk did before; and a
\* run limited to some languages parses the files of the unlimited run in these
\* languages, as the same languages: limiting a run takes no evidence from a
\* shared file, and no language's rules drop a file of another one.
SelectionIsDeclared == phase = "done" =>
  entries = {[file |-> n, language |-> LanguageOf(n, Eligible)] :
    n \in {m \in Eligible :
      LET l == LanguageOf(m, Eligible)
      IN  ~LangIgnored(m, l) /\ (mode.languages = {} \/ l \in mode.languages)}}

\* Every file is parsed, or reported once with its reason, or below the one
\* directory reported for it, or could not be read.
AccountedOnce == phase = "done" => \A n \in Files :
  LET above == {d \in Up[n] \ {0} : skips[d] # <<>>}
      parsed == {e \in entries : e.file = n}
  IN  kind[n] # "gone" => Cardinality(parsed) + Cardinality(above) + Len(skips[n]) = 1

\* A file that a .repoinclude above it names is not skipped as ignored.
IncludedIsKept == \A n \in Files :
  Covers(InScope("include", n), n) => \A i \in DOMAIN skips[n] : skips[n][i] # "ignored"

=============================================================================
