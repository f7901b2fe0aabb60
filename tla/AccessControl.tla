--------------------------- MODULE AccessControl ---------------------------
(***************************************************************************)
(* The capability layer of the contracts (access.move): AdminCaps and      *)
(* ExecutorCaps are owned objects, minted by an admin, and a shared        *)
(* AccessRegistry holds the ids of the caps that are revoked.  Every gated *)
(* function of the package begins with assert_admin or assert_executor,    *)
(* which look the caller's cap up in that registry.                        *)
(*                                                                         *)
(* A cap is represented by its object id.  Who holds it is not modelled:   *)
(* an action that takes a cap may be taken with any cap that exists.       *)
(***************************************************************************)
CONSTANTS
    AdminCapIds,     \* object ids an AdminCap may get
    ExecutorCapIds,  \* object ids an ExecutorCap may get
    FirstAdmin,      \* the AdminCap init mints to the deployer
    FirstExecutor    \* the ExecutorCap init mints to the deployer

ASSUME CapAssumption ==
    /\ FirstAdmin \in AdminCapIds
    /\ FirstExecutor \in ExecutorCapIds

VARIABLES
    admin_caps,      \* AdminCaps minted so far (there is no way to burn one)
    executor_caps,   \* ExecutorCaps minted and not burned
    burned,          \* ExecutorCaps destroyed by their holder
    revoked,         \* AccessRegistry.revoked
    revoked_admins   \* AccessRegistry.revoked_admins

access_vars == <<admin_caps, executor_caps, burned, revoked, revoked_admins>>

AccessTypeOK ==
    /\ admin_caps \subseteq AdminCapIds
    /\ executor_caps \subseteq ExecutorCapIds
    /\ burned \subseteq ExecutorCapIds
    /\ revoked \subseteq ExecutorCapIds
    /\ revoked_admins \subseteq AdminCapIds

AccessInit ==
    /\ admin_caps = {FirstAdmin}
    /\ executor_caps = {FirstExecutor}
    /\ burned = {}
    /\ revoked = {}
    /\ revoked_admins = {}

\* The gates.  A cap must exist to be passed to a Move call at all.
assert_admin(cap) == cap \in admin_caps /\ cap \notin revoked_admins

assert_executor(cap) == cap \in executor_caps /\ cap \notin revoked

live_admins == {c \in AdminCapIds : assert_admin(c)}

live_executors == {c \in ExecutorCapIds : assert_executor(c)}

new_admin_cap(cap, new) ==
    /\ assert_admin(cap)
    /\ new \notin admin_caps
    /\ admin_caps' = admin_caps \cup {new}
    /\ UNCHANGED <<executor_caps, burned, revoked, revoked_admins>>

new_executor_cap(cap, new) ==
    /\ assert_admin(cap)
    /\ new \notin executor_caps \cup burned
    /\ executor_caps' = executor_caps \cup {new}
    /\ UNCHANGED <<admin_caps, burned, revoked, revoked_admins>>

\* Taken by the holder alone: no registry check, so a revoked cap can be burned.
burn_executor_cap(cap) ==
    /\ cap \in executor_caps
    /\ executor_caps' = executor_caps \ {cap}
    /\ burned' = burned \cup {cap}
    /\ UNCHANGED <<admin_caps, revoked, revoked_admins>>

\* Revoking and restoring are idempotent and take any id that was minted.
revoke_executor_cap(cap, id) ==
    /\ assert_admin(cap)
    /\ id \in executor_caps \cup burned
    /\ revoked' = revoked \cup {id}
    /\ UNCHANGED <<admin_caps, executor_caps, burned, revoked_admins>>

restore_executor_cap(cap, id) ==
    /\ assert_admin(cap)
    /\ id \in executor_caps \cup burned
    /\ revoked' = revoked \ {id}
    /\ UNCHANGED <<admin_caps, executor_caps, burned, revoked_admins>>

\* An admin may revoke any admin, itself and the last live one included.
revoke_admin_cap(cap, id) ==
    /\ assert_admin(cap)
    /\ id \in admin_caps
    /\ revoked_admins' = revoked_admins \cup {id}
    /\ UNCHANGED <<admin_caps, executor_caps, burned, revoked>>

\* A mutant of restore_admin_cap: the caller's own cap is not checked.
restore_admin_cap_ungated(cap, id) ==
    /\ cap \in admin_caps
    /\ id \in admin_caps
    /\ revoked_admins' = revoked_admins \ {id}
    /\ UNCHANGED <<admin_caps, executor_caps, burned, revoked>>

restore_admin_cap(cap, id) ==
    /\ assert_admin(cap)
    /\ id \in admin_caps
    /\ revoked_admins' = revoked_admins \ {id}
    /\ UNCHANGED <<admin_caps, executor_caps, burned, revoked>>

AccessNext ==
    \/ \E cap, id \in AdminCapIds :
        \/ new_admin_cap(cap, id)
        \/ revoke_admin_cap(cap, id)
        \/ restore_admin_cap(cap, id)
    \/ \E cap \in AdminCapIds, id \in ExecutorCapIds :
        \/ new_executor_cap(cap, id)
        \/ revoke_executor_cap(cap, id)
        \/ restore_executor_cap(cap, id)
    \/ \E cap \in ExecutorCapIds : burn_executor_cap(cap)

AccessSpec == AccessInit /\ [][AccessNext]_access_vars

=============================================================================
