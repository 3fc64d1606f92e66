--------------------------- MODULE ApprovalTokens ---------------------------
(***************************************************************************)
(* What reviewing and applying promise, without the rows, the keys and the *)
(* handlers: an approval of a plan is a token, granted by a review, lost   *)
(* when anything else happens to the plan, and spent by the one apply run  *)
(* it starts.  PlanApply implements it.                                    *)
(***************************************************************************)
EXTENDS Integers

CONSTANTS Plans, RunIds, MaxApprovals

VARIABLES
  token,     \* plan -> the approval it holds, 0 when it holds none
  spent,     \* pairs <<approval, run>>: the run each approval was spent on
  granted    \* approvals granted so far

vars == <<token, spent, granted>>

Init ==
  /\ token = [p \in Plans |-> 0]
  /\ spent = {}
  /\ granted = 0

Grant(p) ==
  /\ granted < MaxApprovals
  /\ granted' = granted + 1
  /\ token' = [token EXCEPT ![p] = granted + 1]
  /\ UNCHANGED spent

Revoke(p) ==
  /\ token' = [token EXCEPT ![p] = 0]
  /\ UNCHANGED <<spent, granted>>

Spend(p, r) ==
  /\ token[p] # 0
  /\ \A pair \in spent : pair[2] # r
  /\ spent' = spent \cup {<<token[p], r>>}
  /\ token' = [token EXCEPT ![p] = 0]
  /\ UNCHANGED granted

Next ==
  \E p \in Plans : Grant(p) \/ Revoke(p) \/ \E r \in RunIds : Spend(p, r)

Spec == Init /\ [][Next]_vars

-----------------------------------------------------------------------------
TypeOK ==
  /\ token \in [Plans -> 0..MaxApprovals]
  /\ spent \subseteq (1..MaxApprovals) \X RunIds
  /\ granted \in 0..MaxApprovals

(* An approval is spent at most once, on one run. *)
SpentOnce == \A x, y \in spent : x[1] = y[1] => x = y

(* A held token is not spent, is held by one plan, and was granted. *)
HeldUnspent ==
  /\ \A p \in Plans : token[p] <= granted
  /\ \A x \in spent : x[1] <= granted
  /\ \A p \in Plans : \A x \in spent : token[p] # x[1]
  /\ \A p, q \in Plans : token[p] = token[q] /\ token[p] # 0 => p = q
=============================================================================
