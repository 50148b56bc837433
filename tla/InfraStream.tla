---------------------------- MODULE InfraStream ----------------------------
(***************************************************************************)
(* The contract of infra/interface.py, without pipes, locks or threads:    *)
(* lines are taken one by one, the object is either whole or not, and      *)
(* close() returns the key only of a whole object.  Callers such as        *)
(* /api/analyze-diff rely on nothing else.  StreamUpload implements it.    *)
(***************************************************************************)
EXTENDS Naturals

CONSTANT Callers       \* calls of close()

VARIABLES
  taken,               \* lines write_line has taken
  whole,               \* the stored object holds every line taken
  answer               \* what each close() has answered

vars == <<taken, whole, answer>>

Init ==
  /\ taken = 0 /\ whole = FALSE
  /\ answer = [c \in Callers |-> "none"]

Take ==
  /\ ~ whole
  /\ taken' = taken + 1
  /\ UNCHANGED <<whole, answer>>

(* The provider has stored the object; nothing can be added to it. *)
Store ==
  /\ ~ whole
  /\ whole' = TRUE
  /\ UNCHANGED <<taken, answer>>

ReturnKey(c) ==
  /\ answer[c] = "none" /\ whole
  /\ answer' = [answer EXCEPT ![c] = "key"]
  /\ UNCHANGED <<taken, whole>>

Raise(c) ==
  /\ answer[c] = "none"
  /\ answer' = [answer EXCEPT ![c] = "error"]
  /\ UNCHANGED <<taken, whole>>

Next ==
  \/ Take \/ Store
  \/ \E c \in Callers : ReturnKey(c) \/ Raise(c)

Spec == Init /\ [][Next]_vars
=============================================================================
