--------------------------- MODULE CircuitBreaker ---------------------------
(***************************************************************************)
(* One CircuitBreaker shared by the tasks of a process.  The lock makes    *)
(* admission (_acquire) and the handling of an outcome atomic; the         *)
(* protected call runs between the two, outside the lock, so the breaker   *)
(* may have changed state any number of times when an outcome arrives.     *)
(*                                                                         *)
(* A rejected call changes nothing but metrics and is a stuttering step.   *)
(* The rate test is on exact integers (the code divides floats).           *)
(***************************************************************************)
EXTENDS Integers, Sequences, FiniteSets

CONSTANTS
    Calls,              \* tasks that use the breaker, one call at a time each
    FailureThreshold,
    SuccessThreshold,
    MinimumCalls,
    RateThreshold,      \* failure_rate_threshold, percent
    HalfOpenMaxCalls,
    CallsBounded,       \* call_timeout <= timeout: a call admitted before the
                        \* last failure is over when recovery is next tested
    MaxWindow,          \* bound: outcomes kept in the window
    MaxFailures,        \* bound: failure_count
    MaxCancels          \* bound: calls cancelled by their task

ASSUME ThresholdsAssumption ==
    /\ FailureThreshold \in Nat \ {0}
    /\ SuccessThreshold \in Nat \ {0}
    /\ HalfOpenMaxCalls \in Nat \ {0}
    /\ MinimumCalls \in Nat
    /\ RateThreshold \in 0..100
ASSUME ModeAssumption == CallsBounded \in BOOLEAN
ASSUME CapsAssumption == MaxWindow \in Nat /\ MaxFailures \in Nat /\ MaxCancels \in Nat

VARIABLES
    state,         \* _state
    failureCount,  \* _failure_count
    successCount,  \* _success_count
    cooled,        \* _should_attempt_reset()
    window,        \* _window: the outcomes, TRUE for a failure
    inFlight,      \* _half_open_in_flight
    calls,         \* what each task is doing: a probe knows that it is one
    older,         \* the calls running since before the last failure
    cancels        \* cancelled calls so far

vars == <<state, failureCount, successCount, cooled, window, inFlight, calls,
          older, cancels>>

-----------------------------------------------------------------------------
Init ==
    /\ state = "closed"
    /\ failureCount = 0
    /\ successCount = 0
    /\ cooled = TRUE
    /\ window = <<>>
    /\ inFlight = 0
    /\ calls = [c \in Calls |-> "idle"]
    /\ older = {}
    /\ cancels = 0

Running == {c \in Calls : calls[c] # "idle"}

Probes == {c \in Calls : calls[c] = "probe"}

(* The window after an outcome: appended, then entries older than          *)
(* window_seconds are dropped from the front.                              *)
Recorded(outcome) ==
    {Append(SubSeq(window, n + 1, Len(window)), outcome) :
        n \in {k \in 0..Len(window) : Len(window) - k < MaxWindow}}

FailuresIn(w) == Cardinality({i \in 1..Len(w) : w[i]})

(* _window_failure_rate() >= failure_rate_threshold *)
RateTrips(w) ==
    /\ Len(w) >= MinimumCalls
    /\ FailuresIn(w) * 100 >= RateThreshold * Len(w)

KeepSlot(c) == inFlight

(* _release_probe *)
ReleaseProbe(c) ==
    IF calls[c] = "probe" /\ inFlight > 0 THEN inFlight - 1 ELSE inFlight

(* The call of c is over. *)
Completed(c) ==
    /\ calls' = [calls EXCEPT ![c] = "idle"]
    /\ older' = older \ {c}

-----------------------------------------------------------------------------
(* _acquire *)
AdmitCall(c) ==
    /\ calls[c] = "idle"
    /\ state = "closed"
    /\ calls' = [calls EXCEPT ![c] = "call"]
    /\ UNCHANGED <<state, failureCount, successCount, cooled, window, inFlight,
                   older, cancels>>

AdmitProbeEarly(c) ==
    /\ calls[c] = "idle"
    /\ state = "open"
    /\ state' = "half_open"
    /\ successCount' = 0
    /\ inFlight' = 1
    /\ calls' = [calls EXCEPT ![c] = "probe"]
    /\ UNCHANGED <<failureCount, cooled, window, older, cancels>>

(* The first call after the timeout opens the probation. *)
AdmitFirstProbe(c) ==
    /\ calls[c] = "idle"
    /\ state = "open"
    /\ cooled
    /\ state' = "half_open"
    /\ successCount' = 0
    /\ inFlight' = 1
    /\ calls' = [calls EXCEPT ![c] = "probe"]
    /\ UNCHANGED <<failureCount, cooled, window, older, cancels>>

AdmitUncounted(c) ==
    /\ calls[c] = "idle"
    /\ state = "half_open"
    /\ inFlight < HalfOpenMaxCalls
    /\ calls' = [calls EXCEPT ![c] = "probe"]
    /\ UNCHANGED <<state, failureCount, successCount, cooled, window, inFlight,
                   older, cancels>>

AdmitProbe(c) ==
    /\ calls[c] = "idle"
    /\ state = "half_open"
    /\ inFlight < HalfOpenMaxCalls
    /\ inFlight' = inFlight + 1
    /\ calls' = [calls EXCEPT ![c] = "probe"]
    /\ UNCHANGED <<state, failureCount, successCount, cooled, window, older,
                   cancels>>

(* _handle_success: _transition_to(CLOSED) and the fresh start. *)
CloseCircuit ==
    /\ state' = "closed"
    /\ window' = <<>>
    /\ inFlight' = 0
    /\ failureCount' = 0
    /\ successCount' = 0

Succeed(c) ==
    /\ c \in Running
    /\ Completed(c)
    /\ \/ /\ state = "half_open"
          /\ successCount + 1 >= SuccessThreshold
          /\ CloseCircuit
       \/ /\ state = "half_open"
          /\ successCount + 1 < SuccessThreshold
          /\ successCount' = successCount + 1
          /\ inFlight' = ReleaseProbe(c)
          /\ window' \in Recorded(FALSE)
          /\ UNCHANGED <<state, failureCount>>
       \/ /\ state # "half_open"
          /\ failureCount' = IF state = "closed" THEN 0 ELSE failureCount
          /\ inFlight' = ReleaseProbe(c)
          /\ window' \in Recorded(FALSE)
          /\ UNCHANGED <<state, successCount>>
    /\ UNCHANGED <<cooled, cancels>>

(* A counted failure opens the circuit. *)
Trips(w) ==
    \/ state = "half_open"
    \/ state = "closed" /\ (failureCount + 1 >= FailureThreshold \/ RateTrips(w))

(* _handle_failure; a timed out call fails too. *)
Fail(c) ==
    /\ c \in Running
    /\ failureCount < MaxFailures
    /\ calls' = [calls EXCEPT ![c] = "idle"]
    /\ older' = Running \ {c}
    /\ cooled' = FALSE
    /\ failureCount' = failureCount + 1
    /\ successCount' = IF state = "half_open" THEN 0 ELSE successCount
    /\ \E w \in Recorded(TRUE) :
         /\ window' = w
         /\ IF Trips(w)
            THEN state' = "open" /\ inFlight' = 0
            ELSE UNCHANGED state /\ inFlight' = ReleaseProbe(c)
    /\ UNCHANGED cancels

(* _handle_failure for an excluded exception. *)
FailExcluded(c) ==
    /\ c \in Running
    /\ Completed(c)
    /\ inFlight' = ReleaseProbe(c)
    /\ UNCHANGED <<state, failureCount, successCount, cooled, window, cancels>>

(* The task of c is cancelled inside execute: CancelledError passes by     *)
(* `except Exception` and nothing is accounted.                            *)
Cancel(c) ==
    /\ c \in Running
    /\ cancels < MaxCancels
    /\ cancels' = cancels + 1
    /\ Completed(c)
    /\ UNCHANGED <<state, failureCount, successCount, cooled, window, inFlight>>

(* reset *)
Reset ==
    /\ state' = "closed"
    /\ failureCount' = 0
    /\ successCount' = 0
    /\ cooled' = TRUE
    /\ window' = <<>>
    /\ inFlight' = 0
    /\ UNCHANGED <<calls, older, cancels>>

(* timeout seconds have passed since the last failure. *)
TimeoutElapses ==
    /\ ~cooled
    /\ CallsBounded => older = {}
    /\ cooled' = TRUE
    /\ UNCHANGED <<state, failureCount, successCount, window, inFlight, calls,
                   older, cancels>>

Complete(c) == Succeed(c) \/ Fail(c) \/ FailExcluded(c)

Next ==
    \/ \E c \in Calls : \/ AdmitCall(c) \/ AdmitFirstProbe(c) \/ AdmitProbe(c)
                        \/ Complete(c) \/ Cancel(c)
    \/ Reset
    \/ TimeoutElapses

Spec == Init /\ [][Next]_vars

(* A protected call ends: by its result, its call_timeout or the timeout   *)
(* of the transport.                                                       *)
FairSpec == Spec /\ \A c \in Calls : WF_vars(Complete(c))

-----------------------------------------------------------------------------
(* Properties *)

(* Every variable keeps its shape. *)
TypeOK ==
    /\ state \in {"closed", "open", "half_open"}
    /\ failureCount \in Nat
    /\ successCount \in Nat
    /\ cooled \in BOOLEAN
    /\ window \in Seq(BOOLEAN)
    /\ inFlight \in 0..HalfOpenMaxCalls
    /\ calls \in [Calls -> {"idle", "call", "probe"}]
    /\ older \subseteq Running
    /\ cancels \in Nat

(* A closed circuit has not yet seen failure_threshold consecutive         *)
(* failures, however it was closed; a circuit on probation is still short  *)
(* of the successes that close it.                                         *)
CountersBelowThresholds ==
    /\ state = "closed" => failureCount < FailureThreshold
    /\ state = "half_open" => successCount < SuccessThreshold

(* On probation at most half_open_max_calls probes are in progress at the  *)
(* downstream service.                                                     *)
ProbesBounded == state = "half_open" => Cardinality(Probes) <= HalfOpenMaxCalls

(* On probation only probes are running: no outcome of a call admitted     *)
(* before the outage can close or reopen the circuit.                      *)
ProbationIsExclusive == state = "half_open" => Running = Probes

(* A breaker whose probe slots are all taken gets one back as long as no   *)
(* task is cancelled in the middle of its call: every outcome of a probe   *)
(* that _handle_success and _handle_failure see, excluded exceptions       *)
(* included, gives its slot back.  A cancelled probe keeps its slot.       *)
SlotsFreeUpUncancelled ==
    (state = "half_open" /\ inFlight = HalfOpenMaxCalls)
       ~> (state # "half_open" \/ inFlight < HalfOpenMaxCalls \/ cancels > 0)
=============================================================================
