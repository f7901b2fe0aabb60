---------------------------- MODULE AccessProofs ----------------------------
(***************************************************************************)
(* Lemmas about the capability registry, for the modules that compose with *)
(* it.                                                                     *)
(***************************************************************************)
EXTENDS AccessControl, TLAPS

LEMMA AccessInitType == AccessInit => AccessTypeOK
BY CapAssumption DEF AccessInit, AccessTypeOK

LEMMA AccessStepType ==
    ASSUME AccessTypeOK, AccessNext
    PROVE  AccessTypeOK'
<1> USE DEF AccessTypeOK
<1>1. ASSUME NEW cap \in AdminCapIds, NEW id \in AdminCapIds, new_admin_cap(cap, id)
      PROVE  AccessTypeOK'
  BY <1>1 DEF new_admin_cap
<1>2. ASSUME NEW cap \in AdminCapIds, NEW id \in AdminCapIds, revoke_admin_cap(cap, id)
      PROVE  AccessTypeOK'
  BY <1>2 DEF revoke_admin_cap
<1>3. ASSUME NEW cap \in AdminCapIds, NEW id \in AdminCapIds, restore_admin_cap(cap, id)
      PROVE  AccessTypeOK'
  BY <1>3 DEF restore_admin_cap
<1>4. ASSUME NEW cap \in AdminCapIds, NEW id \in ExecutorCapIds,
             new_executor_cap(cap, id)
      PROVE  AccessTypeOK'
  BY <1>4 DEF new_executor_cap
<1>5. ASSUME NEW cap \in AdminCapIds, NEW id \in ExecutorCapIds,
             revoke_executor_cap(cap, id)
      PROVE  AccessTypeOK'
  BY <1>5 DEF revoke_executor_cap
<1>6. ASSUME NEW cap \in AdminCapIds, NEW id \in ExecutorCapIds,
             restore_executor_cap(cap, id)
      PROVE  AccessTypeOK'
  BY <1>6 DEF restore_executor_cap
<1>7. ASSUME NEW cap \in ExecutorCapIds, burn_executor_cap(cap)
      PROVE  AccessTypeOK'
  BY <1>7 DEF burn_executor_cap
<1> QED BY <1>1, <1>2, <1>3, <1>4, <1>5, <1>6, <1>7 DEF AccessNext

\* No step of the registry makes a cap live when none is: every one of them but
\* the burning of an executor's cap needs a live admin.
LEMMA LockoutStep ==
    ASSUME live_admins = {}, AccessNext
    PROVE  live_admins' = {}
<1>1. \A cap \in AdminCapIds : ~ assert_admin(cap)
  BY DEF live_admins
<1>2. \E cap \in ExecutorCapIds : burn_executor_cap(cap)
  BY <1>1 DEF AccessNext, new_admin_cap, revoke_admin_cap, restore_admin_cap,
              new_executor_cap, revoke_executor_cap, restore_executor_cap
<1>3. UNCHANGED <<admin_caps, revoked_admins>>
  BY <1>2 DEF burn_executor_cap
<1> QED BY <1>3 DEF live_admins, assert_admin

=============================================================================
