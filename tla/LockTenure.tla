----------------------------- MODULE LockTenure -----------------------------
(***************************************************************************)
(* PayApp with a history of the handlers whose key has lapsed under them,  *)
(* to say what a callback key still promises when the 30 seconds of the    *)
(* lock (mq/lock.go) can be shorter than a handler's work.                 *)
(***************************************************************************)
EXTENDS PayApp

VARIABLE lapsed   \* the running handlers whose key Redis dropped too early

tenureVars == <<vars, lapsed>>

TenureInit == Init /\ lapsed = {}

\* A handler is in lapsed from the step that drops its key until it ends.
TenureNext ==
  /\ Next
  /\ lapsed' = {r \in Requests :
                  /\ pc'[r] \in Holding
                  /\ \/ r \in lapsed
                     \/ pc[r] \in Holding /\ LockExpires(KeyOf(call[r]))}

TenureSpec == TenureInit /\ [][TenureNext]_tenureVars

\* A key is taken from a running handler by time alone: whatever the other
\* handlers do, those whose own key has lapsed and who release it after a
\* successor took it included, a handler holds its key until it ends or the
\* key's time is over (Release deletes the key only if it still holds its
\* own value, and Acquire never overwrites one).
HolderKeepsKey ==
  \A r \in Requests :
    pc[r] \in Holding /\ r \notin lapsed => lock[KeyOf(call[r])] = r
=============================================================================
