----------------------------- MODULE LlmBudget -----------------------------
(***************************************************************************)
(* The hourly token budget of the in-cluster LLM: app/llm_budget.py and    *)
(* the calls fenced by it, _CappedClient.complete of app/chat/pipeline.py  *)
(* and ingest_source of app/ingest/service.py, on any number of replicas.  *)
(* Every change of the shared tally is one atomic upsert, committed alone. *)
(***************************************************************************)
EXTENDS Integers, FiniteSets, Functions

CONSTANTS
  Caller,     \* requests that call the LLM, on all replicas
  Cap,        \* llm_hourly_token_cap
  Estimate,   \* the worst cases that callers compute
  Overrun,    \* tokens a call may use beyond its estimate
  MaxHour,    \* bound: hours that pass
  MaxCalls,   \* bound: completed calls per hour
  MaxLost     \* bound: reserved tokens lost with killed replicas

ASSUME BudgetAssumption ==
  /\ IsFiniteSet(Caller) /\ Cap \in Nat /\ Estimate \subseteq Nat /\ Overrun \in Nat
  /\ MaxHour \in Nat /\ MaxCalls \in Nat /\ MaxLost \in Nat

VARIABLES
  hour,     \* _current_hour()
  tally,    \* llm_usage.tokens_used of every hour
  pc,       \* what every caller is doing
  held,     \* its Reservation
  actual,   \* the tokens its call used
  spent,    \* history: tokens the provider charged, by hour of reservation
  calls,    \* history: calls made, by hour of reservation
  leaked    \* history: what the tally keeps of reservations that died

vars == <<hour, tally, pc, held, actual, spent, calls, leaked>>

Hour == 0 .. MaxHour
Reservation == [hour : Hour, estimate : Estimate \cup {0}]
NoReservation == [hour |-> 0, estimate |-> 0]

Phase == {"idle", "refused", "calling", "answered", "failed"}

TypeOK ==
  /\ hour \in Hour
  /\ tally \in [Hour -> Nat]
  /\ pc \in [Caller -> Phase]
  /\ held \in [Caller -> Reservation]
  /\ actual \in [Caller -> Nat]
  /\ spent \in [Hour -> Nat] /\ calls \in [Hour -> Nat] /\ leaked \in [Hour -> Int]

Init ==
  /\ hour = 0
  /\ tally = [h \in Hour |-> 0]
  /\ pc = [c \in Caller |-> "idle"]
  /\ held = [c \in Caller |-> NoReservation]
  /\ actual = [c \in Caller |-> 0]
  /\ spent = [h \in Hour |-> 0]
  /\ calls = [h \in Hour |-> 0]
  /\ leaked = [h \in Hour |-> 0]

-----------------------------------------------------------------------------
(* Faulty variants of the operators below, for testing the properties.     *)

FitsAlone(total, e) == e <= Cap                  \* the request, not the hour's total
SettledHourNow(c) == hour                       \* the hour of the settlement

-----------------------------------------------------------------------------
(* _add: fold delta into the hour's row, never below zero.                 *)
Add(h, delta) == tally' = [tally EXCEPT ![h] = IF @ + delta < 0 THEN 0 ELSE @ + delta]

(* The post-reservation total decides.                                     *)
Fits(total, e) == total <= Cap

(* Settlements go to the hour of the reservation.                          *)
SettledHour(c) == held[c].hour

(* reconcile to the actual tokens, or release altogether.                  *)
Refund(c) == IF pc[c] = "answered" THEN actual[c] - held[c].estimate ELSE -held[c].estimate

(* reserve_tokens: the estimate is added first, and judged afterwards.     *)
Reserve(c, e) ==
  /\ pc[c] = "idle"
  /\ Add(hour, e)
  /\ pc' = [pc EXCEPT ![c] = IF Fits(tally[hour] + e, e) THEN "calling" ELSE "refused"]
  /\ held' = [held EXCEPT ![c] = [hour |-> hour, estimate |-> e]]
  /\ UNCHANGED <<hour, actual, spent, calls, leaked>>

(* The provider answers and charges.                                       *)
Complete(c, n) ==
  /\ pc[c] = "calling" /\ calls[held[c].hour] < MaxCalls
  /\ pc' = [pc EXCEPT ![c] = "answered"]
  /\ actual' = [actual EXCEPT ![c] = n]
  /\ spent' = [spent EXCEPT ![held[c].hour] = @ + n]
  /\ calls' = [calls EXCEPT ![held[c].hour] = @ + 1]
  /\ UNCHANGED <<hour, tally, held, leaked>>

(* A provider error, taken to cost nothing.                                *)
FailCall(c) ==
  /\ pc[c] = "calling"
  /\ pc' = [pc EXCEPT ![c] = "failed"]
  /\ UNCHANGED <<hour, tally, held, actual, spent, calls, leaked>>

EndCall(c) ==
  /\ pc' = [pc EXCEPT ![c] = "idle"]
  /\ held' = [held EXCEPT ![c] = NoReservation]
  /\ actual' = [actual EXCEPT ![c] = 0]

(* reconcile, release, or the release of a refused reservation.            *)
Settle(c) ==
  /\ pc[c] \in {"answered", "failed", "refused"}
  /\ Add(SettledHour(c), Refund(c))
  /\ EndCall(c)
  /\ UNCHANGED <<hour, spent, calls, leaked>>

(* The process is killed, or the settling statement fails.                 *)
Die(c) ==
  /\ pc[c] # "idle" /\ leaked[held[c].hour] < MaxLost
  /\ EndCall(c)
  /\ leaked' = [leaked EXCEPT ![held[c].hour] = @ - Refund(c)]
  /\ UNCHANGED <<hour, tally, spent, calls>>

NextHour ==
  /\ hour < MaxHour
  /\ hour' = hour + 1
  /\ UNCHANGED <<tally, pc, held, actual, spent, calls, leaked>>

Call(c) == \/ \E e \in Estimate : Reserve(c, e)
           \/ \E n \in 0 .. held[c].estimate + Overrun : Complete(c, n)
           \/ FailCall(c) \/ Settle(c) \/ Die(c)

Next == (\E c \in Caller : Call(c)) \/ NextHour

Spec == Init /\ [][Next]_vars

-----------------------------------------------------------------------------
(* Properties                                                              *)

Reserved(h) == {c \in Caller : pc[c] # "idle" /\ held[c].hour = h}
Unsettled(h) == SumFunctionOnSet([c \in Caller |-> -Refund(c)], Reserved(h))

(* The tally of an hour is what its calls cost plus what reservations      *)
(* still hold, nothing more and nothing less, in any interleaving of       *)
(* reservations, settlements and hours; only a reservation that dies with  *)
(* its replica stays in it.                                                *)
TallyIsExact ==
  \A h \in Hour : tally[h] = spent[h] + Unsettled(h) + leaked[h]

(* The calls that were made and the ones admitted fit in the hour's cap    *)
(* together, whatever replicas reserve at once (reserve_tokens judges the  *)
(* post-reservation total), but for what calls used beyond their           *)
(* estimates, which nothing takes back: the cap can be passed by that much *)
(* and no more, however replicas race or die.                              *)
AdmittedCallsFit ==
  \A h \in Hour :
    spent[h] + SumFunctionOnSet([c \in Caller |-> held[c].estimate],
                                {c \in Reserved(h) : pc[c] = "calling"})
      <= Cap + Overrun * calls[h]

(* A hard cap: the tokens used by the calls of an hour stay within it.     *)
HardCap == \A h \in Hour : spent[h] <= Cap

=============================================================================
