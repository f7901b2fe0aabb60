------------------------- MODULE AccountLifecycle -------------------------
(***************************************************************************)
(* What an evaluation account promises the rest of the firm, whatever its  *)
(* trades: the life cycle of its status, and that the total it has been    *)
(* paid only grows.  UserAccount implements this specification, and        *)
(* Treasury, which reads nothing else of an account, composes with it.     *)
(***************************************************************************)
EXTENDS Naturals

CONSTANTS
    AccountIds,     \* object ids an AccountCap may get
    PayoutAmounts,  \* the amounts a payout may record
    PAID_MAX        \* the largest total a payout can be added up to

VARIABLES
    status,         \* "Absent" until the account is opened
    total_paid

lifecycle_vars == <<status, total_paid>>

AccountStatus == {"Evaluating", "Passed", "Failed", "Suspended"}

\* The lifecycle's own types, for the components that compose with it.
LifecycleTypeOK ==
    /\ status \in [AccountIds -> AccountStatus \cup {"Absent"}]
    /\ total_paid \in [AccountIds -> 0 .. PAID_MAX]

LifecycleInit ==
    /\ status = [id \in AccountIds |-> "Absent"]
    /\ total_paid = [id \in AccountIds |-> 0]

trading_allowed(s) == s \in {"Evaluating", "Passed"}

Move(id, from, to) ==
    /\ status[id] \in from
    /\ status' = [status EXCEPT ![id] = to]
    /\ UNCHANGED total_paid

Open(id)       == Move(id, {"Absent"}, "Evaluating")
Pass(id)       == Move(id, {"Evaluating"}, "Passed")
Fail(id)       == Move(id, {"Evaluating"}, "Failed")
Suspend(id)    == Move(id, {"Evaluating", "Passed"}, "Suspended")
Reactivate(id) == Move(id, {"Failed", "Suspended"}, "Evaluating")
Promote(id)    == Move(id, {"Passed"}, "Evaluating")

RecordPayout(id, amount) ==
    /\ status[id] # "Absent"
    /\ amount > 0
    /\ total_paid[id] + amount <= PAID_MAX
    /\ total_paid' = [total_paid EXCEPT ![id] = @ + amount]
    /\ UNCHANGED status

LifecycleStep(id) ==
    \/ Open(id)
    \/ Pass(id)
    \/ Fail(id)
    \/ Suspend(id)
    \/ Reactivate(id)
    \/ Promote(id)
    \/ \E amount \in PayoutAmounts : RecordPayout(id, amount)

LifecycleNext == \E id \in AccountIds : LifecycleStep(id)

LifecycleSpec == LifecycleInit /\ [][LifecycleNext]_lifecycle_vars

=============================================================================
