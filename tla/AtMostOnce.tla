----------------------------- MODULE AtMostOnce -----------------------------
(***************************************************************************)
(* What the pre-invocation claim promises (app/selections/diagnosis.py):   *)
(* a failure is claimed at most once and for good, and only after that one *)
(* model invocation, and no more, may follow, by whoever holds the claim.  *)
(***************************************************************************)
CONSTANTS Failure, Agent

VARIABLES claimed,   \* failures with a durable claim
          invokers   \* for every failure, who invoked the model for it

absVars == <<claimed, invokers>>

AbsInit == claimed = {} /\ invokers = [f \in Failure |-> {}]

AbsClaim(f) == /\ f \notin claimed
               /\ claimed' = claimed \cup {f}
               /\ UNCHANGED invokers

AbsInvoke(f, a) == /\ f \in claimed /\ invokers[f] = {}
                   /\ invokers' = [invokers EXCEPT ![f] = {a}]
                   /\ UNCHANGED claimed

AbsNext == \E f \in Failure : AbsClaim(f) \/ \E a \in Agent : AbsInvoke(f, a)

AbsSpec == AbsInit /\ [][AbsNext]_absVars

=============================================================================
