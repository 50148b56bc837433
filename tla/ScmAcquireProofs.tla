------------------------- MODULE ScmAcquireProofs -------------------------
(***************************************************************************)
(* Theorems about ScmAcquire for every provider, every set of files, every *)
(* retry budget and every way a listing is cut into pages.                 *)
(***************************************************************************)
EXTENDS ScmAcquire, WellFoundedInduction, FiniteSetTheorems, TLAPS

-----------------------------------------------------------------------------
(* The last page.                                                          *)

\* Every non-empty set of natural numbers has a least element.
LEMMA LeastNatural ==
  ASSUME NEW S \in SUBSET Nat, S # {}
  PROVE  \E m \in S : \A n \in S : m <= n
<1>1. PICK m \in S : \A n \in S : ~ (<<n, m>> \in OpToRel(<, Nat))
  BY WFMin, NatLessThanWellFounded
<1>2. \A n \in S : ~ (n < m)
  BY <1>1 DEF OpToRel
<1>3. QED
  BY <1>2

\* LastPage is the greatest page that holds an entry.
LEMMA LastPageIsLast ==
  ASSUME at \in [Files -> 1..Listed]
  PROVE  /\ LastPage \in 1..Listed
         /\ \A f \in Files : at[f] <= LastPage
<1> DEFINE gaps == {Listed - at[f] : f \in Files}
<1>1. gaps \in SUBSET Nat /\ gaps # {}
  BY ScmAssumption
<1>2. PICK gap \in gaps : \A n \in gaps : gap <= n
  BY <1>1, LeastNatural
<1>3. PICK f \in Files : gap = Listed - at[f]
  BY <1>2
<1>4. \A g \in Files : at[g] <= at[f]
  BY <1>2, <1>3, ScmAssumption
<1>5. at[f] \in 1..Listed /\ \E g \in Files : at[g] = at[f] /\ \A h \in Files : at[h] <= at[g]
  BY <1>3, <1>4
<1>6. \E p \in 1..Listed : \E g \in Files : at[g] = p /\ \A h \in Files : at[h] <= p
  BY <1>5
<1>7. QED
  BY <1>6 DEF LastPage

-----------------------------------------------------------------------------
(* The inductive invariant.                                                *)

\* What the provider was at the start it is throughout.
ProvidedOK ==
  /\ provider \in Providers /\ job \in {"diff", "clone", "comment"} /\ loops \in BOOLEAN
  /\ kind \in [Files -> Kinds] /\ from \in [Files -> Files] /\ at \in [Files -> 1..Listed]
  /\ \A f \in Files : kind[f] = "renamed" => kind[from[f]] = "same"

\* Each phase belongs to one kind of job, and how a job ends.
JobInv ==
  /\ phase \in {"compare", "tree", "content"} => job = "diff"
  /\ phase \in {"clone", "checkout", "fetch", "recheck"} => job = "clone" /\ dir
  /\ phase = "post" => job = "comment" /\ attempt = 0
  /\ phase # "failed" => attempt <= MaxRetries
  /\ phase = "start" => attempt = 0
  /\ job = "clone" /\ phase = "ok" => dir /\ head = "incoming"
  /\ job = "clone" /\ phase = "failed" => ~dir
  /\ comments <= 1 /\ (~Done \/ job # "comment" => comments = 0)
  /\ job = "comment" /\ phase = "ok" => comments = 1

\* The page being fetched follows those fetched, until the cursor loops.
PageInv ==
  /\ phase = "start" => page = 1 /\ fetched = 0
  /\ phase \in {"compare", "tree"} =>
       /\ page <= LastPage /\ fetched < MaxPages
       /\ fetched < LastPage => page = fetched + 1

TypeInv == TypeOK /\ ProvidedOK /\ JobInv /\ PageInv

\* The paths of the pages already fetched.
Seen == {f \in Files : at[f] <= fetched}

Exact == out = Changed /\ deleted = Removed

\* Each list holds the entries of the pages fetched and nothing else.
ListInv ==
  /\ phase = "start" => out = {} /\ deleted = {} /\ present = {} /\ filter = {}
  /\ phase = "compare" =>
       /\ out \subseteq Changed /\ deleted \subseteq Removed /\ present = {} /\ filter = {}
       /\ \A f \in Entries \cap Seen :
            /\ kind[f] # "removed" => f \in out
            /\ kind[f] = "removed" => f \in deleted
            /\ kind[f] = "renamed" => from[f] \in deleted
  /\ phase = "tree" =>
       /\ Exact /\ dir /\ filter = {}
       /\ present \subseteq AtHead /\ AtHead \cap Seen \subseteq present
  /\ phase = "content" =>
       /\ Exact /\ dir /\ present = AtHead
       /\ todo \subseteq Changed /\ filter \subseteq Changed
  /\ phase = "ok" /\ job = "diff" =>
       /\ Exact /\ dir /\ filter \subseteq Changed /\ (Changed # {} => filter # {})
       /\ Changed \cup Removed # {} => present = AtHead

-----------------------------------------------------------------------------
(* Types, jobs and pages.                                                  *)

LEMMA InitTypes == Init => TypeInv
<1> SUFFICES ASSUME Init PROVE TypeInv
  OBVIOUS
<1>1. ProvidedOK
  BY DEF Init, ProvidedOK
<1>2. TypeOK
  <2>1. 0 \in 0..(MaxRetries + 1) /\ 1 \in 1..Listed /\ 0 \in 0..MaxPages
    BY ScmAssumption
  <2>2. /\ phase = "start" /\ attempt = 0 /\ page = 1 /\ fetched = 0
        /\ out = {} /\ deleted = {} /\ present = {} /\ todo = {} /\ filter = {}
        /\ dir = FALSE /\ head = "none" /\ comments = 0
    BY DEF Init
  <2>3. QED
    BY <1>1, <2>1, <2>2 DEF ProvidedOK, TypeOK, Phases, Ended
<1>3. JobInv /\ PageInv
  BY ScmAssumption DEF Init, JobInv, PageInv, Done, Ended
<1>4. QED
  BY <1>1, <1>2, <1>3 DEF TypeInv

\* The provider does not change while it is asked.
LEMMA NextProvided ==
  ASSUME [Next]_vars
  PROVE  UNCHANGED provided /\ (ProvidedOK => ProvidedOK') /\ LastPage' = LastPage
<1>1. UNCHANGED provided
  BY DEF Next, vars, Start, Retry, GetFails, GetCompare, GetTree, GetContent, FinishDiff, Git, GitStep,
       GitFails, Post, PostFails
<1>2. QED
  BY <1>1 DEF provided, ProvidedOK, LastPage

\* One answer of a list: its client goes to the next page, or on.
LEMMA TurnPages ==
  ASSUME TypeInv, phase \in {"compare", "tree"}, NEW then, Turn(then)
  PROVE  /\ attempt' = 0
         /\ \/ /\ Stops /\ phase' = then /\ page' = 1 /\ fetched' = 0
            \/ /\ ~Stops /\ Paged /\ phase' = phase
               /\ page' \in 1..LastPage /\ fetched' = fetched + 1 /\ fetched' < MaxPages
               /\ fetched' < LastPage => page' = fetched' + 1
<1>1. page \in 1..LastPage /\ fetched \in 0..(MaxPages - 1) /\ MaxPages \in Nat /\ LastPage \in 1..Listed
  BY LastPageIsLast, ScmAssumption DEF TypeInv, TypeOK, ProvidedOK, PageInv
<1>2. CASE Stops
  BY <1>2 DEF Turn
<1>3. CASE ~Stops
  <2>1. /\ page' = NextPage /\ fetched' = fetched + 1 /\ phase' = phase /\ attempt' = 0
        /\ NextPage # 0 /\ fetched + 1 < MaxPages
    BY <1>1, <1>3 DEF Turn, Stops
  <2>2. Paged /\ NextPage = IF page < LastPage THEN page + 1 ELSE 1
    BY <2>1 DEF NextPage
  <2>3. fetched < LastPage => page = fetched + 1
    BY DEF TypeInv, PageInv
  <2>4. QED
    BY <1>1, <1>3, <2>1, <2>2, <2>3, ScmAssumption
<1>4. QED
  BY <1>2, <1>3

LEMMA CompareTypes ==
  ASSUME TypeInv, GetCompare, ProvidedOK', LastPage' = LastPage
  PROVE  TypeInv'
<1> DEFINE then == IF out' \cup deleted' = {} THEN "ok" ELSE "tree"
<1>1. phase = "compare" /\ Turn(then) /\ dir' = (phase' # "compare")
      /\ UNCHANGED <<provided, present, todo, filter, head, comments>>
  BY DEF GetCompare
<1>2. out' \subseteq Files /\ deleted' \subseteq Files
  BY DEF GetCompare, Response, Entries, OldPaths, TypeInv, TypeOK, ProvidedOK
<1>3. then \in {"ok", "tree"}
  OBVIOUS
<1> HIDE DEF then
<1>4. /\ attempt' = 0 /\ LastPage \in 1..Listed
      /\ \/ phase' = then /\ page' = 1 /\ fetched' = 0
         \/ /\ phase' = phase /\ page' \in 1..LastPage /\ fetched' = fetched + 1
            /\ fetched' < MaxPages /\ (fetched' < LastPage => page' = fetched' + 1)
  BY <1>1, TurnPages, LastPageIsLast DEF TypeInv, ProvidedOK
<1>5. TypeOK'
  BY <1>1, <1>2, <1>3, <1>4, ScmAssumption DEF TypeInv, TypeOK, Phases, Ended, provided
<1>6. JobInv'
  BY <1>1, <1>3, <1>4, ScmAssumption DEF TypeInv, JobInv, Done, Ended, provided
<1>7. PageInv'
  BY <1>1, <1>3, <1>4, ScmAssumption DEF PageInv
<1>8. QED
  BY <1>5, <1>6, <1>7 DEF TypeInv

LEMMA TreeTypes ==
  ASSUME TypeInv, GetTree, ProvidedOK', LastPage' = LastPage
  PROVE  TypeInv'
<1>1. phase = "tree" /\ Turn("content") /\ todo' = out
      /\ UNCHANGED <<provided, out, deleted, filter, dir, head, comments>>
  BY DEF GetTree
<1>2. present' \subseteq Files
  BY DEF GetTree, Response, AtHead, TypeInv, TypeOK
<1>3. /\ attempt' = 0 /\ LastPage \in 1..Listed
      /\ \/ phase' = "content" /\ page' = 1 /\ fetched' = 0
         \/ /\ phase' = phase /\ page' \in 1..LastPage /\ fetched' = fetched + 1
            /\ fetched' < MaxPages /\ (fetched' < LastPage => page' = fetched' + 1)
  BY <1>1, TurnPages, LastPageIsLast DEF TypeInv, ProvidedOK
<1>4. TypeOK'
  BY <1>1, <1>2, <1>3, ScmAssumption DEF TypeInv, TypeOK, Phases, Ended, provided
<1>5. JobInv'
  BY <1>1, <1>3, ScmAssumption DEF TypeInv, JobInv, Done, Ended, provided
<1>6. PageInv'
  BY <1>1, <1>3, ScmAssumption DEF PageInv
<1>7. QED
  BY <1>4, <1>5, <1>6 DEF TypeInv

LEMMA RequestTypes ==
  ASSUME TypeInv, ProvidedOK', LastPage' = LastPage,
         Start \/ Retry \/ GetFails \/ (\E f \in Files, read \in BOOLEAN : GetContent(f, read)) \/ FinishDiff
  PROVE  TypeInv'
<1> USE DEF TypeInv, TypeOK, JobInv, PageInv, Phases, Ended, Done, provided
<1>0. MaxRetries \in Nat /\ LastPage \in 1..Listed /\ MaxPages \in Nat \ {0}
  BY LastPageIsLast, ScmAssumption DEF ProvidedOK
<1>1. CASE Start
  <2>1. phase' \in {"failed", "compare", "clone", "post"}
        /\ (phase' = "compare" => job = "diff")
        /\ (phase' = "clone" => job = "clone") /\ (phase' = "post" => job = "comment")
    BY <1>1 DEF Start
  <2>2. /\ phase = "start" /\ dir' = (phase' = "clone")
        /\ UNCHANGED <<provided, attempt, page, fetched, out, deleted, present, todo, filter,
                       head, comments>>
    BY <1>1 DEF Start
  <2>3. dir' \in BOOLEAN /\ (phase' = "clone" => dir') /\ (phase' = "failed" => ~dir')
    BY <2>2
  <2>4. TypeOK'
    BY <2>1, <2>2, <2>3
  <2>5. JobInv'
    BY <1>0, <2>1, <2>2, <2>3
  <2>6. PageInv'
    BY <1>0, <2>1, <2>2
  <2>7. QED
    BY <2>4, <2>5, <2>6
<1>2. CASE Retry
  BY <1>0, <1>2 DEF Retry
<1>3. CASE GetFails
  BY <1>0, <1>3 DEF GetFails
<1>4. ASSUME NEW f \in Files, NEW read \in BOOLEAN, GetContent(f, read) PROVE TypeInv'
  BY <1>0, <1>4 DEF GetContent
<1>5. CASE FinishDiff
  BY <1>0, <1>5 DEF FinishDiff, Finish
<1>6. QED
  BY <1>1, <1>2, <1>3, <1>4, <1>5

LEMMA GitTypes ==
  ASSUME TypeInv, ProvidedOK', LastPage' = LastPage, Git \/ GitFails
  PROVE  TypeInv'
<1> USE DEF TypeInv, TypeOK, JobInv, PageInv, Phases, Ended, Done, provided
<1>1. CASE Git
  BY <1>1 DEF Git, GitStep
<1>2. CASE GitFails
  BY <1>2 DEF GitFails, GitCleanup
<1>3. QED
  BY <1>1, <1>2

LEMMA CommentTypes ==
  ASSUME TypeInv, ProvidedOK', LastPage' = LastPage, Post \/ PostFails
  PROVE  TypeInv'
BY ScmAssumption DEF TypeInv, TypeOK, JobInv, PageInv, Phases, Ended, Done, provided, Post, PostFails,
     AfterPost

LEMMA NextTypes == TypeInv /\ [Next]_vars => TypeInv'
<1> SUFFICES ASSUME TypeInv, [Next]_vars PROVE TypeInv'
  OBVIOUS
<1>1. ProvidedOK' /\ LastPage' = LastPage
  BY NextProvided DEF TypeInv
<1>2. CASE Next
  BY <1>1, <1>2, CompareTypes, TreeTypes, RequestTypes, GitTypes, CommentTypes DEF Next
<1>3. CASE UNCHANGED vars
  BY <1>1, <1>3 DEF vars, provided, TypeInv, TypeOK, JobInv, PageInv, Done
<1>4. QED
  BY <1>2, <1>3

\* Every variable keeps its type: no client counts more attempts than its
\* budget or asks for a page beyond the last one.
THEOREM TypeCorrect == Spec => []TypeOK
<1>1. TypeInv => TypeOK
  BY DEF TypeInv
<1>2. QED
  BY <1>1, InitTypes, NextTypes, PTL DEF Spec

\* A comment is never posted twice, and a call that reports success has
\* posted it, for every retry budget.
THEOREM CommentsAreOnce == Spec => []CommentedOnce
<1>1. TypeInv => CommentedOnce
  BY DEF TypeInv, JobInv, CommentedOnce
<1>2. QED
  BY <1>1, InitTypes, NextTypes, PTL DEF Spec

-----------------------------------------------------------------------------
(* What the lists hold, when the page cap is not below the pages a listing *)
(* takes.                                                                  *)

LEMMA CommitSets ==
  ASSUME ProvidedOK
  PROVE  /\ Changed = {f \in Files : kind[f] \notin {"same", "removed"}}
         /\ Removed = {f \in Files : kind[f] = "removed" \/ f \in Sources}
         /\ Changed \subseteq AtHead
         /\ \A f \in Files : kind[f] = "renamed" => from[f] \in Sources
BY DEF ProvidedOK, Kinds, Changed, Removed, Entries, AtHead, Sources

LEMMA SetsUnchanged ==
  ASSUME UNCHANGED provided
  PROVE  /\ Changed' = Changed /\ Removed' = Removed /\ AtHead' = AtHead /\ Entries' = Entries
         /\ kind' = kind /\ from' = from /\ at' = at /\ job' = job
BY DEF provided, Changed, Removed, AtHead, Entries, Sources

\* The page just answered closes the gap to what is fetched now, and when
\* the client stops nothing is missing.
LEMMA PagesCollected ==
  ASSUME MaxPages >= Listed, TypeInv, phase \in {"compare", "tree"}, NEW then, Turn(then),
         UNCHANGED provided, NEW f \in Files, Stops \/ f \in Seen', Paged
  PROVE  f \in Seen \/ at[f] = page
<1>1. /\ page \in 1..LastPage /\ fetched \in 0..(MaxPages - 1) /\ MaxPages \in Nat
      /\ Listed \in Nat /\ LastPage \in 1..Listed
      /\ at[f] \in 1..Listed /\ at[f] <= LastPage
      /\ fetched < LastPage => page = fetched + 1
  BY LastPageIsLast, ScmAssumption DEF TypeInv, TypeOK, ProvidedOK, PageInv
<1>2. CASE NextPage = 0
  <2>1. page = LastPage
    BY <1>1, <1>2 DEF NextPage
  <2>2. QED
    BY <1>1, <2>1 DEF Seen
<1>3. CASE fetched + 1 >= MaxPages
  BY <1>1, <1>3 DEF Seen
<1>4. CASE ~Stops /\ f \in Seen'
  <2>1. fetched' = fetched + 1 /\ at' = at
    BY <1>4 DEF Turn, provided
  <2>2. QED
    BY <1>1, <1>4, <2>1 DEF Seen
<1>5. QED
  BY <1>2, <1>3, <1>4 DEF Stops

LEMMA InitLists == Init => ListInv
BY DEF Init, ListInv

LEMMA CompareLists ==
  ASSUME MaxPages >= Listed, TypeInv, ListInv, GetCompare, UNCHANGED provided
  PROVE  ListInv'
<1> DEFINE got == Response(Entries)
           gone == {f \in got : kind[f] = "removed"}
           then == IF out' \cup deleted' = {} THEN "ok" ELSE "tree"
<1>1. /\ phase = "compare" /\ Turn(then) /\ (phase' # "compare" => dir')
      /\ out' = out \cup (got \ gone) /\ deleted' = deleted \cup gone \cup OldPaths(got)
      /\ UNCHANGED <<present, todo, filter>>
  BY DEF GetCompare
<1>2. got \subseteq Entries
  BY DEF Response
<1>3. out' \subseteq Changed /\ deleted' \subseteq Removed
  <2>1. out \subseteq Changed /\ deleted \subseteq Removed
    BY <1>1 DEF ListInv
  <2>2. ASSUME NEW f \in got
        PROVE  /\ f \in Files /\ (kind[f] # "removed" => f \in Changed)
               /\ kind[f] = "removed" => f \in Removed
               /\ kind[f] = "renamed" => from[f] \in Removed
    BY <1>2, <2>2, CommitSets DEF TypeInv, ProvidedOK, Entries, Removed
  <2>3. OldPaths(got) \subseteq Removed
    BY <2>2 DEF OldPaths
  <2>4. QED
    BY <1>1, <2>1, <2>2, <2>3
<1>4. ASSUME NEW f \in Entries, Stops \/ f \in Seen'
      PROVE  /\ kind[f] # "removed" => f \in out'
             /\ kind[f] = "removed" => f \in deleted'
             /\ kind[f] = "renamed" => from[f] \in deleted'
  <2>1. f \in Files
    BY DEF Entries
  <2>2. CASE f \in Seen
    BY <1>1, <1>4, <2>2 DEF ListInv
  <2>3. CASE f \in got
    BY <1>1, <1>4, <2>3 DEF OldPaths
  <2>4. f \in Seen \/ f \in got
    BY <1>1, <1>4, <2>1, PagesCollected DEF Response
  <2>5. QED
    BY <2>2, <2>3, <2>4
<1>5. ASSUME Stops
      PROVE  out' = Changed /\ deleted' = Removed
  <2>1. Changed \subseteq out'
    BY <1>4, <1>5 DEF Changed, AtHead
  <2>2. \A f \in Files : kind[f] = "removed" => f \in deleted'
    BY <1>4, <1>5 DEF Entries
  <2>3. Sources \subseteq deleted'
    BY <1>4, <1>5 DEF Sources, Entries
  <2>4. QED
    BY <1>3, <2>1, <2>2, <2>3 DEF Removed
<1>6. /\ Changed' = Changed /\ Removed' = Removed /\ AtHead' = AtHead /\ Entries' = Entries
      /\ kind' = kind /\ from' = from /\ at' = at /\ job' = job
  BY SetsUnchanged
<1>7. present = {} /\ filter = {}
  BY <1>1 DEF ListInv
<1>8. then = "ok" \/ then = "tree"
  OBVIOUS
<1>9. CASE Stops
  <2>1. phase' = then /\ fetched' = 0
    BY <1>1, <1>9, TurnPages
  <2>2. CASE then = "ok"
    <3>1. Changed = {} /\ Removed = {}
      BY <1>5, <1>9, <2>2
    <3>2. QED
      BY <1>1, <1>5, <1>6, <1>7, <1>9, <2>1, <2>2, <3>1 DEF ListInv, Exact
  <2>3. CASE then = "tree"
    <3>1. Seen' = {}
      BY <1>6, <2>1 DEF Seen, TypeInv, ProvidedOK
    <3>2. QED
      BY <1>1, <1>5, <1>6, <1>7, <1>9, <2>1, <2>3, <3>1 DEF ListInv, Exact
  <2>4. QED
    BY <1>8, <2>2, <2>3
<1>10. CASE ~Stops
  <2>1. phase' = "compare"
    BY <1>1, <1>10, TurnPages
  <2>2. \A f \in Entries \cap Seen' :
          /\ kind[f] # "removed" => f \in out'
          /\ kind[f] = "removed" => f \in deleted'
          /\ kind[f] = "renamed" => from[f] \in deleted'
    BY <1>4
  <2>3. QED
    BY <1>1, <1>3, <1>6, <1>7, <2>1, <2>2 DEF ListInv
<1>11. QED
  BY <1>9, <1>10

LEMMA TreeLists ==
  ASSUME MaxPages >= Listed, TypeInv, ListInv, GetTree, UNCHANGED provided
  PROVE  ListInv'
<1>1. /\ phase = "tree" /\ Turn("content") /\ todo' = out
      /\ present' = present \cup Response(AtHead)
      /\ UNCHANGED <<out, deleted, filter, dir>>
  BY DEF GetTree
<1>2. Exact /\ dir /\ filter = {} /\ present \subseteq AtHead /\ AtHead \cap Seen \subseteq present
  BY <1>1 DEF ListInv
<1>3. present' \subseteq AtHead
  BY <1>1, <1>2 DEF Response
<1>4. ASSUME NEW f \in AtHead, Stops \/ f \in Seen'
      PROVE  f \in present'
  <2>1. f \in Files
    BY DEF AtHead
  <2>2. f \in Seen \/ f \in Response(AtHead)
    BY <1>1, <1>4, <2>1, PagesCollected DEF Response
  <2>3. QED
    BY <1>1, <1>2, <2>2
<1>5. /\ Changed' = Changed /\ Removed' = Removed /\ AtHead' = AtHead /\ job' = job
  BY SetsUnchanged
<1>6. CASE Stops
  <2>1. phase' = "content"
    BY <1>1, <1>6, TurnPages
  <2>2. present' = AtHead
    BY <1>3, <1>4, <1>6
  <2>3. QED
    BY <1>1, <1>2, <1>5, <2>1, <2>2 DEF ListInv, Exact
<1>7. CASE ~Stops
  <2>1. phase' = "tree"
    BY <1>1, <1>7, TurnPages
  <2>2. AtHead \cap Seen' \subseteq present'
    BY <1>4
  <2>3. QED
    BY <1>1, <1>2, <1>3, <1>5, <2>1, <2>2 DEF ListInv, Exact
<1>8. QED
  BY <1>6, <1>7

\* The steps that fetch no page.
LEMMA OtherLists ==
  ASSUME TypeInv, ListInv, UNCHANGED provided,
         \/ Start \/ Retry \/ GetFails \/ FinishDiff \/ Git \/ GitFails \/ Post \/ PostFails
         \/ \E f \in Files, read \in BOOLEAN : GetContent(f, read)
         \/ UNCHANGED vars
  PROVE  ListInv'
<1>1. /\ Changed' = Changed /\ Removed' = Removed /\ AtHead' = AtHead /\ Entries' = Entries
      /\ kind' = kind /\ from' = from /\ at' = at /\ job' = job
  BY SetsUnchanged
<1>2. ASSUME Retry \/ UNCHANGED vars PROVE ListInv'
  BY <1>1, <1>2 DEF Retry, vars, ListInv, Seen, Exact
<1>3. CASE Start
  <2>1. /\ out' = {} /\ deleted' = {} /\ present' = {} /\ filter' = {} /\ fetched' = 0
    BY <1>3 DEF Start, ListInv, TypeInv, PageInv
  <2>2. phase' \in {"failed", "compare", "clone", "post"}
    BY <1>3 DEF Start, TypeInv, ProvidedOK
  <2>3. Seen' = {}
    BY <1>1, <2>1 DEF Seen, TypeInv, ProvidedOK
  <2>4. QED
    BY <1>1, <2>1, <2>2, <2>3 DEF ListInv
<1>4. CASE GetFails
  BY <1>4 DEF GetFails, ListInv
<1>5. ASSUME NEW f \in Files, NEW read \in BOOLEAN, GetContent(f, read) PROVE ListInv'
  <2>1. f \in Changed /\ f \in AtHead /\ phase = "content" /\ present = AtHead
    BY <1>5, CommitSets DEF GetContent, ListInv, TypeInv
  <2>2. present' = AtHead /\ filter' \subseteq Changed /\ todo' \subseteq Changed
    BY <1>5, <2>1 DEF GetContent, ListInv
  <2>3. phase' = "content" /\ Exact' /\ dir'
    BY <1>1, <1>5 DEF GetContent, ListInv, Exact
  <2>4. QED
    BY <1>1, <2>2, <2>3 DEF ListInv
<1>6. CASE FinishDiff
  <2>1. /\ Exact /\ dir /\ present = AtHead /\ filter \subseteq Changed
        /\ UNCHANGED <<out, deleted, present, filter, dir>>
        /\ phase' = IF out # {} /\ filter = {} THEN "failed" ELSE "ok"
    BY <1>6 DEF FinishDiff, Finish, ListInv
  <2>2. QED
    BY <1>1, <2>1 DEF ListInv, Exact
<1>7. CASE Git \/ GitFails
  <2>1. job = "clone" /\ phase' \in {"checkout", "fetch", "recheck", "ok", "failed"}
    BY <1>7 DEF Git, GitStep, GitFails, TypeInv, JobInv
  <2>2. QED
    BY <1>1, <2>1 DEF ListInv
<1>8. CASE Post \/ PostFails
  <2>1. job = "comment" /\ phase' \in {"ok", "failed"}
    BY <1>8 DEF Post, PostFails, AfterPost, TypeInv, JobInv
  <2>2. QED
    BY <1>1, <2>1 DEF ListInv
<1>9. QED
  BY <1>2, <1>3, <1>4, <1>5, <1>6, <1>7, <1>8

LEMMA NextLists ==
  ASSUME MaxPages >= Listed
  PROVE  TypeInv /\ ListInv /\ [Next]_vars => ListInv'
<1> SUFFICES ASSUME TypeInv, ListInv, [Next]_vars PROVE ListInv'
  OBVIOUS
<1>1. UNCHANGED provided
  BY NextProvided
<1>2. QED
  BY <1>1, CompareLists, TreeLists, OtherLists DEF Next

\* When the page cap is not below the number of pages, a diff that is handed
\* over comes with exactly the paths of the head commit, whatever the
\* provider pages, however its pages are cut and also when its cursor loops;
\* a clone is at the commit asked for, and a failed one leaves no dir.
THEOREM HandedOverIsHead ==
  ASSUME MaxPages >= Listed
  PROVE  Spec => []DirIsHead
<1>1. TypeInv /\ ListInv => DirIsHead
  BY DEF TypeInv, JobInv, ListInv, DirIsHead
<1>2. QED
  BY <1>1, InitTypes, NextTypes, InitLists, NextLists, PTL DEF Spec

-----------------------------------------------------------------------------
(* The refinement.                                                         *)

\* A step of the client is one step of the acquisition it promises, taken
\* when the job ends, or changes nothing of it.
LEMMA StepKeepsPromise ==
  ASSUME TypeInv, TypeInv', ListInv, ListInv', [Next]_vars
  PROVE  [Promise!Next]_(Promise!vars)
<1>1. UNCHANGED provided
  BY NextProvided
<1>2. /\ Changed' = Changed /\ Removed' = Removed /\ job' = job
  BY <1>1, SetsUnchanged
<1>3. ASSUME Done PROVE UNCHANGED vars
  BY <1>3 DEF Done, Ended, Next, vars, Start, Retry, GetFails, GetCompare, GetTree, GetContent,
       FinishDiff, Git, GitStep, GitFails, Post, PostFails
<1>4. CASE UNCHANGED vars
  BY <1>2, <1>4 DEF vars, Promise!vars, Done
<1>5. CASE ~Done /\ ~Done'
  BY <1>2, <1>5 DEF Promise!vars, Done, Ended
<1>6. CASE ~Done /\ Done' /\ job = "comment"
  BY <1>2, <1>6 DEF Promise!vars, Done, Ended
<1>7. CASE ~Done /\ phase' = "failed" /\ job # "comment"
  BY <1>2, <1>7 DEF Promise!Next, Promise!Fail, Done, Ended
<1>8. CASE ~Done /\ phase' = "ok" /\ job = "diff"
  <2>1. filter' \subseteq Changed /\ (Changed # {} => filter' # {}) /\ deleted' = Removed
    BY <1>2, <1>8 DEF ListInv, Exact
  <2>2. Promise!FetchDiff
    BY <1>2, <1>8, <2>1 DEF Promise!FetchDiff, Done, Ended
  <2>3. QED
    BY <2>2 DEF Promise!Next
<1>9. CASE ~Done /\ phase' = "ok" /\ job = "clone"
  BY <1>2, <1>9 DEF Promise!Next, Promise!Clone, Done, Ended
<1>10. QED
  BY <1>3, <1>4, <1>5, <1>6, <1>7, <1>8, <1>9 DEF Done, Ended, TypeInv, TypeOK

\* Every provider client implements the acquisition the analyze-diff handler
\* is modelled with, when the page cap is not below the number of pages; what
\* is changed and deleted is counted from where its compare starts.
THEOREM ClientKeepsPromise ==
  ASSUME MaxPages >= Listed
  PROVE  Spec => KeepsPromise
<1>1. Init => Promise!Init
  BY DEF Init, Promise!Init, Done, Ended
<1>2. QED
  BY <1>1, InitTypes, NextTypes, InitLists, NextLists, StepKeepsPromise, PTL
     DEF Spec, KeepsPromise, Promise!Spec

-----------------------------------------------------------------------------
(* What the lists never hold, whatever the page cap.                       *)

\* A list may miss what is beyond the page cap; it never holds a path it
\* should not, and no path is both changed and deleted.
NothingInvented ==
  /\ out \subseteq Changed /\ deleted \subseteq Removed /\ out \cap deleted = {}
  /\ present \subseteq AtHead
  /\ todo \subseteq Changed /\ filter \subseteq Changed

LEMMA RemovedIsGone ==
  ASSUME ProvidedOK
  PROVE  Removed \cap AtHead = {} /\ Changed \subseteq AtHead
BY CommitSets DEF Removed, AtHead

LEMMA CompareInventsNothing ==
  ASSUME TypeInv, NothingInvented, GetCompare, UNCHANGED provided
  PROVE  NothingInvented'
<1> DEFINE got == Response(Entries)
           gone == {f \in got : kind[f] = "removed"}
<1>1. /\ out' = out \cup (got \ gone) /\ deleted' = deleted \cup gone \cup OldPaths(got)
      /\ UNCHANGED <<present, todo, filter>>
  BY DEF GetCompare
<1>2. ASSUME NEW f \in got
      PROVE  /\ f \in Files /\ (kind[f] # "removed" => f \in Changed)
             /\ kind[f] = "removed" => f \in Removed
             /\ kind[f] = "renamed" => from[f] \in Removed
  <2>1. f \in Entries
    BY DEF Response
  <2>2. QED
    BY <2>1, CommitSets DEF TypeInv, ProvidedOK, Entries, Removed
<1>3. OldPaths(got) \subseteq Removed
  BY <1>2 DEF OldPaths
<1>4. out' \subseteq Changed /\ deleted' \subseteq Removed
  BY <1>1, <1>2, <1>3 DEF NothingInvented
<1>5. QED
  BY <1>1, <1>4, SetsUnchanged, RemovedIsGone DEF NothingInvented, TypeInv

LEMMA NextInventsNothing == TypeInv /\ NothingInvented /\ [Next]_vars => NothingInvented'
<1> SUFFICES ASSUME TypeInv, NothingInvented, [Next]_vars PROVE NothingInvented'
  OBVIOUS
<1>1. UNCHANGED provided
  BY NextProvided
<1>2. Changed' = Changed /\ Removed' = Removed /\ AtHead' = AtHead
  BY <1>1, SetsUnchanged
<1>3. CASE GetTree
  BY <1>2, <1>3 DEF GetTree, Response, NothingInvented
<1>4. ASSUME NEW f \in Files, NEW read \in BOOLEAN, GetContent(f, read) PROVE NothingInvented'
  BY <1>2, <1>4, RemovedIsGone DEF GetContent, NothingInvented, TypeInv
<1>5. ASSUME \/ Start \/ Retry \/ GetFails \/ FinishDiff \/ Git \/ GitFails \/ Post \/ PostFails
             \/ UNCHANGED vars
      PROVE  NothingInvented'
  <2>1. UNCHANGED <<out, deleted, present, todo, filter>>
    BY <1>5 DEF Start, Retry, GetFails, FinishDiff, Git, GitStep, GitFails, Post, PostFails, vars
  <2>2. QED
    BY <1>2, <2>1 DEF NothingInvented
<1>6. QED
  BY <1>1, <1>3, <1>4, <1>5, CompareInventsNothing DEF Next

\* For every page cap, also one that cuts a listing short: the changed files,
\* the deleted paths and the files of the dir are among the right ones.  A
\* capped acquisition is incomplete, never wrong: it deletes no path of the
\* head commit and hands over no file that the compare does not list.
THEOREM CappedIsSound == Spec => []NothingInvented
<1>1. Init => NothingInvented
  BY DEF Init, NothingInvented
<1>2. QED
  BY <1>1, InitTypes, NextTypes, NextInventsNothing, PTL DEF Spec

-----------------------------------------------------------------------------
(* How many steps a call can take.                                         *)

\* The phases before a call, its pages, the files to read and its attempts.
Ahead == [start |-> 5, compare |-> 3, tree |-> 2, content |-> 1,
          clone |-> 4, checkout |-> 3, fetch |-> 2, recheck |-> 1, post |-> 1,
          ok |-> 0, failed |-> 0]
Left == <<Ahead[phase], MaxPages - fetched, Cardinality(todo), MaxRetries + 1 - attempt>>

\* The lexicographic order, in which no sequence of naturals falls for ever.
Below(a, b) == \E i \in 1..4 : a[i] < b[i] /\ \A j \in 1..(i - 1) : a[j] = b[j]

\* Every step leaves a call less to do.
CallsRunOut == [][Left' \in Nat \X Nat \X Nat \X Nat /\ Below(Left', Left)]_vars

LEMMA BelowCases ==
  ASSUME NEW a1 \in Nat, NEW a2 \in Nat, NEW a3 \in Nat, NEW a4 \in Nat,
         NEW b1 \in Nat, NEW b2 \in Nat, NEW b3 \in Nat, NEW b4 \in Nat,
         \/ a1 < b1
         \/ a1 = b1 /\ a2 < b2
         \/ a1 = b1 /\ a2 = b2 /\ a3 < b3
         \/ a1 = b1 /\ a2 = b2 /\ a3 = b3 /\ a4 < b4
  PROVE  Below(<<a1, a2, a3, a4>>, <<b1, b2, b3, b4>>)
<1> DEFINE a == <<a1, a2, a3, a4>>
           b == <<b1, b2, b3, b4>>
<1>1. /\ a[1] = a1 /\ a[2] = a2 /\ a[3] = a3 /\ a[4] = a4
      /\ b[1] = b1 /\ b[2] = b2 /\ b[3] = b3 /\ b[4] = b4
  OBVIOUS
<1> HIDE DEF a, b
<1>2. CASE a1 < b1
  BY <1>1, <1>2 DEF Below
<1>3. CASE a1 = b1 /\ a2 < b2
  <2>1. 2 \in 1..4 /\ \A j \in 1..(2 - 1) : a[j] = b[j]
    BY <1>1, <1>3
  <2>2. QED
    BY <1>1, <1>3, <2>1 DEF Below
<1>4. CASE a1 = b1 /\ a2 = b2 /\ a3 < b3
  <2>1. 3 \in 1..4 /\ \A j \in 1..(3 - 1) : a[j] = b[j]
    BY <1>1, <1>4
  <2>2. QED
    BY <1>1, <1>4, <2>1 DEF Below
<1>5. CASE a1 = b1 /\ a2 = b2 /\ a3 = b3 /\ a4 < b4
  <2>1. 4 \in 1..4 /\ \A j \in 1..(4 - 1) : a[j] = b[j]
    BY <1>1, <1>5
  <2>2. QED
    BY <1>1, <1>5, <2>1 DEF Below
<1>6. QED
  BY <1>2, <1>3, <1>4, <1>5

LEMMA LeftIsNatural ==
  ASSUME IsFiniteSet(Files), TypeOK
  PROVE  /\ Ahead[phase] \in Nat /\ MaxPages - fetched \in Nat /\ Cardinality(todo) \in Nat
         /\ MaxRetries + 1 - attempt \in Nat
<1>1. Ahead[phase] \in Nat
  BY DEF TypeOK, Phases, Ended, Ahead
<1>2. IsFiniteSet(todo)
  BY FS_Subset DEF TypeOK
<1>3. Cardinality(todo) \in Nat
  BY <1>2, FS_CardinalityType
<1>4. QED
  BY <1>1, <1>3, ScmAssumption DEF TypeOK

\* How a step of the client lowers what is left.
LEMMA StepTakesOne ==
  ASSUME IsFiniteSet(Files), TypeInv, Next
  PROVE  \/ Ahead[phase'] < Ahead[phase]
         \/ /\ phase' = phase
            /\ \/ fetched' = fetched + 1
               \/ fetched' = fetched /\ Cardinality(todo') < Cardinality(todo)
               \/ fetched' = fetched /\ todo' = todo /\ attempt' = attempt + 1
<1>1. CASE Start
  BY <1>1 DEF Start, TypeInv, ProvidedOK, Ahead
<1>2. CASE Retry
  BY <1>2 DEF Retry
<1>3. CASE GetFails
  BY <1>3 DEF GetFails, Ahead
<1>4. CASE GetCompare
  <2> DEFINE then == IF out' \cup deleted' = {} THEN "ok" ELSE "tree"
  <2>1. phase = "compare" /\ Turn(then)
    BY <1>4 DEF GetCompare
  <2>2. then \in {"ok", "tree"}
    OBVIOUS
  <2> HIDE DEF then
  <2>3. phase' = then \/ (phase' = phase /\ fetched' = fetched + 1)
    BY <2>1, TurnPages
  <2>4. QED
    BY <2>1, <2>2, <2>3 DEF Ahead
<1>5. CASE GetTree
  <2>1. phase = "tree" /\ Turn("content")
    BY <1>5 DEF GetTree
  <2>2. phase' = "content" \/ (phase' = phase /\ fetched' = fetched + 1)
    BY <2>1, TurnPages
  <2>3. QED
    BY <2>1, <2>2 DEF Ahead
<1>6. ASSUME NEW f \in Files, NEW read \in BOOLEAN, GetContent(f, read)
      PROVE  phase' = phase /\ fetched' = fetched /\ Cardinality(todo') < Cardinality(todo)
  <2>1. f \in todo /\ todo' = todo \ {f} /\ phase' = phase /\ fetched' = fetched
    BY <1>6 DEF GetContent
  <2>2. IsFiniteSet(todo)
    BY FS_Subset DEF TypeInv, TypeOK
  <2>3. Cardinality(todo \ {f}) = Cardinality(todo) - 1 /\ Cardinality(todo) \in Nat
    BY <2>1, <2>2, FS_RemoveElement, FS_CardinalityType
  <2>4. QED
    BY <2>1, <2>3
<1>7. CASE FinishDiff
  BY <1>7 DEF FinishDiff, Finish, Ahead
<1>8. CASE Git
  BY <1>8 DEF Git, GitStep, Ahead
<1>9. CASE GitFails
  BY <1>9 DEF GitFails, Ahead
<1>10. CASE Post \/ PostFails
  BY <1>10 DEF Post, PostFails, AfterPost, Ahead
<1>11. QED
  BY <1>1, <1>2, <1>3, <1>4, <1>5, <1>6, <1>7, <1>8, <1>9, <1>10 DEF Next

\* The safety half of CallEnds: no call goes on for ever, whatever fails or
\* is retried and wherever the cursor of a list leads; with fairness, that
\* every request is answered or fails, this is why a call ends.
THEOREM CallsEnd ==
  ASSUME IsFiniteSet(Files)
  PROVE  Spec => CallsRunOut
<1>1. ASSUME TypeInv, TypeInv', [Next]_vars
      PROVE  [Left' \in Nat \X Nat \X Nat \X Nat /\ Below(Left', Left)]_vars
  <2>1. SUFFICES ASSUME Next
                 PROVE  Left' \in Nat \X Nat \X Nat \X Nat /\ Below(Left', Left)
    BY <1>1
  <2>2. /\ Ahead[phase] \in Nat /\ MaxPages - fetched \in Nat /\ Cardinality(todo) \in Nat
        /\ MaxRetries + 1 - attempt \in Nat
    BY <1>1, LeftIsNatural DEF TypeInv
  <2>3. Ahead[phase'] \in Nat /\ MaxPages - fetched' \in Nat /\ MaxRetries + 1 - attempt' \in Nat
    <3>1. Ahead[phase'] \in Nat
      BY <1>1 DEF TypeInv, TypeOK, Phases, Ended, Ahead
    <3>2. /\ fetched' \in Nat /\ fetched' <= MaxPages /\ MaxPages \in Nat
          /\ attempt' \in Nat /\ attempt' <= MaxRetries + 1 /\ MaxRetries \in Nat
      BY <1>1, ScmAssumption DEF TypeInv, TypeOK
    <3>3. ASSUME NEW a \in Nat, NEW b \in Nat, b <= a PROVE a - b \in Nat
      BY <3>3
    <3>4. MaxPages - fetched' \in Nat
      BY <3>2, <3>3
    <3>5. ASSUME NEW a \in Nat, NEW b \in Nat, b <= a + 1 PROVE a + 1 - b \in Nat
      BY <3>5
    <3>6. MaxRetries + 1 - attempt' \in Nat
      BY <3>2, <3>3, <3>5
    <3>7. QED
      BY <3>1, <3>4, <3>6
  <2>4. Cardinality(todo') \in Nat
    BY <1>1, FS_Subset, FS_CardinalityType DEF TypeInv, TypeOK
  <2>5. /\ fetched \in Nat /\ fetched' \in Nat /\ attempt \in Nat /\ attempt' \in Nat
        /\ MaxPages \in Nat /\ MaxRetries \in Nat
    BY <1>1, ScmAssumption DEF TypeInv, TypeOK
  <2>6. \/ Ahead[phase'] < Ahead[phase]
        \/ /\ Ahead[phase'] = Ahead[phase]
           /\ \/ MaxPages - fetched' < MaxPages - fetched
              \/ fetched' = fetched /\ Cardinality(todo') < Cardinality(todo)
              \/ /\ fetched' = fetched /\ Cardinality(todo') = Cardinality(todo)
                 /\ MaxRetries + 1 - attempt' < MaxRetries + 1 - attempt
    <3>1. \/ Ahead[phase'] < Ahead[phase]
          \/ /\ phase' = phase
             /\ \/ fetched' = fetched + 1
                \/ fetched' = fetched /\ Cardinality(todo') < Cardinality(todo)
                \/ fetched' = fetched /\ todo' = todo /\ attempt' = attempt + 1
      BY <1>1, <2>1, StepTakesOne
    <3>2. fetched' = fetched + 1 => MaxPages - fetched' < MaxPages - fetched
      BY <2>5
    <3>3. attempt' = attempt + 1 => MaxRetries + 1 - attempt' < MaxRetries + 1 - attempt
      BY <2>5
    <3>4. QED
      BY <3>1, <3>2, <3>3
  <2>7. Below(<<Ahead[phase'], MaxPages - fetched', Cardinality(todo'), MaxRetries + 1 - attempt'>>,
              <<Ahead[phase], MaxPages - fetched, Cardinality(todo), MaxRetries + 1 - attempt>>)
    BY <2>2, <2>3, <2>4, <2>6, BelowCases
  <2>8. QED
    BY <2>3, <2>4, <2>7 DEF Left
<1>2. QED
  BY <1>1, InitTypes, NextTypes, PTL DEF Spec, CallsRunOut
=============================================================================
