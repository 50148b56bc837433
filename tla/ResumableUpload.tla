-------------------------- MODULE ResumableUpload --------------------------
(***************************************************************************)
(* What `repo-to-json-tree --batch --upload` promises its user, with no    *)
(* threads, files or HTTP in it: docs/USER_GUIDE.md, "Two phases + resume".*)
(*                                                                         *)
(*   - a ledger survives from run to run and only ever names repositories  *)
(*     the backend has confirmed;                                          *)
(*   - a run trusts (skips) nothing but what the ledger names;             *)
(*   - a run may end at any time, but it may say "complete" only when      *)
(*     everything it trusted and everything it set out to upload is        *)
(*     confirmed, and saying so closes the ledger.                         *)
(*                                                                         *)
(* BatchUpload implements this specification.                              *)
(***************************************************************************)
EXTENDS Naturals

CONSTANT Dirs          \* the repositories (subdirectories) of the workspace

VARIABLES
  confirmed,           \* repositories confirmed since the ledger was opened
  ledger,              \* repositories the persistent ledger names
  trusted,             \* repositories the last run skipped
  todo,                \* repositories the last run set out to upload
  verdict              \* what the last run has said

vars == <<confirmed, ledger, trusted, todo, verdict>>

TypeOK ==
  /\ confirmed \in SUBSET Dirs
  /\ ledger \in SUBSET Dirs
  /\ trusted \in SUBSET Dirs
  /\ todo \in SUBSET Dirs
  /\ verdict \in {"running", "complete", "incomplete"}

Init ==
  /\ confirmed = {} /\ ledger = {} /\ trusted = {} /\ todo = {}
  /\ verdict = "incomplete"

(* A run starts, trusting part of the ledger. *)
Begin(S) ==
  /\ verdict # "running" /\ S \subseteq ledger
  /\ verdict' = "running" /\ trusted' = S /\ todo' = {}
  /\ UNCHANGED <<confirmed, ledger>>

(* A run starts from scratch: the ledger is discarded. *)
BeginAfresh ==
  /\ verdict # "running"
  /\ verdict' = "running" /\ trusted' = {} /\ todo' = {}
  /\ confirmed' = {} /\ ledger' = {}

(* Everything asked for is in the ledger already: say so and close it. *)
NothingLeft(S) ==
  /\ verdict # "running" /\ S \subseteq ledger
  /\ verdict' = "complete" /\ trusted' = S /\ todo' = {}
  /\ confirmed' = {} /\ ledger' = {}

Plan(d) ==
  /\ verdict = "running"
  /\ todo' = todo \cup {d}
  /\ UNCHANGED <<confirmed, ledger, trusted, verdict>>

Confirm(d) ==
  /\ verdict = "running"
  /\ confirmed' = confirmed \cup {d}
  /\ UNCHANGED <<ledger, trusted, todo, verdict>>

(* The ledger is rewritten; it can only name what is confirmed. *)
Record(S) ==
  /\ verdict = "running" /\ S \subseteq confirmed
  /\ ledger' = S
  /\ UNCHANGED <<confirmed, trusted, todo, verdict>>

Succeed ==
  /\ verdict = "running"
  /\ trusted \cup todo \subseteq confirmed
  /\ verdict' = "complete" /\ confirmed' = {} /\ ledger' = {}
  /\ UNCHANGED <<trusted, todo>>

GiveUp ==
  /\ verdict = "running"
  /\ verdict' = "incomplete"
  /\ UNCHANGED <<confirmed, ledger, trusted, todo>>

Next ==
  \/ \E S \in SUBSET Dirs : Begin(S) \/ NothingLeft(S) \/ Record(S)
  \/ \E d \in Dirs : Plan(d) \/ Confirm(d)
  \/ BeginAfresh \/ Succeed \/ GiveUp

Spec == Init /\ [][Next]_vars

=============================================================================
