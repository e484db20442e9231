---------------------------- MODULE CircuitBreaker ----------------------------
(***************************************************************************)
(* The HTTP adapters of the Robot Framework listener: a circuit breaker    *)
(* (listener/circuit_breaker.py) under the renewal of the session          *)
(* (listener/session_renewal.py), under one call of the SDK at a time      *)
(* (client.py).                                                            *)
(*                                                                         *)
(* A call of the SDK makes one HTTP request, and two more if its session   *)
(* has expired: a login, and the call again.                               *)
(***************************************************************************)
EXTENDS Naturals

CONSTANT MaxFailures   \* MAX_CONSECUTIVE_NETWORK_FAILURES

ASSUME MaxFailuresAssumption == MaxFailures \in Nat \ {0}

\* What a call comes to: 2xx, a refusal, a failure of the server, or no answer
\* (the connection failed or timed out, or the breaker is open).
Outcomes == {"ok", "4xx", "5xx", "transport"}

VARIABLES
  failures,   \* consecutive requests without an answer, counted up to MaxFailures
  cooling,    \* the clock has not reached retry_at
  session,    \* "valid" or "expired": the token of the session
  phase,      \* the request the call is at: "call", "login" or "again"
  waited      \* timeouts the run has waited for since the last answer or cooldown

adapterVars == <<failures, cooling, session, phase, waited>>

AdapterTypeOK ==
  /\ failures \in 0 .. MaxFailures
  /\ cooling \in BOOLEAN
  /\ session \in {"valid", "expired"}
  /\ phase \in {"call", "login", "again"}
  /\ waited \in Nat

AdapterInit ==
  /\ failures = 0
  /\ cooling = FALSE
  /\ session = "valid"
  /\ phase = "call"
  /\ waited = 0

IsOpen == failures >= MaxFailures /\ cooling

\* Mutant: the cooldown is counted from the failure that opened the breaker.
CooldownOnce(answer) ==
  \/ IsOpen /\ answer = "transport" /\ UNCHANGED <<failures, cooling, waited>>
  \/ /\ ~IsOpen /\ answer = "transport"
     /\ failures' = IF failures < MaxFailures THEN failures + 1 ELSE failures
     /\ cooling' = (failures < MaxFailures)
     /\ waited' = waited + 1
  \/ /\ ~IsOpen /\ answer # "transport"
     /\ failures' = 0 /\ waited' = 0 /\ UNCHANGED cooling

\* One HTTP request.  An open breaker fails it at once.
Request(answer) ==
  \/ IsOpen /\ answer = "transport" /\ UNCHANGED <<failures, cooling, waited>>
  \/ /\ ~IsOpen /\ answer = "transport"
     /\ failures' = IF failures < MaxFailures THEN failures + 1 ELSE failures
     /\ cooling' = TRUE
     /\ waited' = waited + 1
  \/ /\ ~IsOpen /\ answer # "transport"
     /\ failures' = 0 /\ waited' = 0 /\ UNCHANGED cooling

\* Whether a call that ends so may have taken effect: a request that was sent may
\* be carried out and its answer be lost, one with a dead token is refused.
Effects(outcome) ==
  CASE phase = "login" \/ (phase = "call" /\ session = "expired") -> {FALSE}
    [] outcome = "ok" -> {TRUE}
    [] outcome = "4xx" \/ (outcome = "transport" /\ IsOpen) -> {FALSE}
    [] OTHER -> {TRUE, FALSE}

\* The first 401 of a call makes the listener log in again.
Renew ==
  \/ /\ phase = "call" /\ session = "expired"
     /\ Request("4xx")
     /\ phase' = "login"
     /\ UNCHANGED session
  \/ /\ phase = "login"
     /\ Request("ok")
     /\ phase' = "again" /\ session' = "valid"

\* The request that decides the call: the call itself, or a login that failed.
Decide(outcome) ==
  /\ CASE phase = "login" -> outcome # "ok"
       [] phase = "call" -> session = "valid" \/ outcome = "transport"
       [] OTHER -> TRUE
  /\ Request(outcome)
  /\ phase' = "call"
  /\ UNCHANGED session

\* Between two calls, the token may expire.
Expire ==
  /\ phase = "call" /\ session = "valid"
  /\ session' = "expired"
  /\ UNCHANGED <<failures, cooling, phase, waited>>

\* The clock passes retry_at.
CooldownEnds ==
  /\ cooling
  /\ cooling' = FALSE
  /\ waited' = 0
  /\ UNCHANGED <<failures, session, phase>>

-----------------------------------------------------------------------------
(* The adapters by themselves.                                             *)
AdapterNext == Renew \/ (\E o \in Outcomes : Decide(o)) \/ Expire \/ CooldownEnds

AdapterSpec == AdapterInit /\ [][AdapterNext]_adapterVars

\* circuit_breaker.py, lines 3-5: an unreachable server "would otherwise cost one
\* client timeout per call".  Within one cooldown the run waits for at most as many
\* timeouts as the breaker allows, however many calls it makes.
WaitIsBounded == waited <= MaxFailures
=============================================================================
