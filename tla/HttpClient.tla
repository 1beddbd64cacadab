----------------------------- MODULE HttpClient -----------------------------
(***************************************************************************)
(* HttpClient.request: the attempts of one call, how an answer is judged,  *)
(* and the delay before the next attempt.  The client draws one            *)
(* idempotency key per call; whoever calls again after an error draws      *)
(* another.  The server (external) may answer nothing, too late, or        *)
(* something unreadable after the request took effect, and honours keys    *)
(* or not (env.honours).  Time counts units of the initial backoff; the    *)
(* jitter of five percent is left out.                                     *)
(***************************************************************************)
EXTENDS RunDirectory

SetOps == INSTANCE FiniteSetsExt

CONSTANTS
    MaxBackoff,     \* maxBackoff, in units of the initial backoff
    MaxClock        \* bound on the time considered

\* What can come back from a server that does not limit, or from the network instead.
Answer == {"ok", "down", "nothing", "lost", "late", "garbled", "refused", "unexpected", "denied"}

\* The last part is arithmetic: the exponential delays are numbers.
ASSUME HttpAssumption ==
    /\ MaxBackoff \in Nat /\ MaxClock \in Nat
    /\ \A e \in Environment :
          /\ e.retries \in BOOLEAN /\ e.maxRetries \in Nat
          /\ e.part = "http" => e.answers \subseteq Answer
          /\ \A n \in 0..e.maxRetries : 2 ^ n \in Nat

VARIABLES
    caller,         \* the call of each concurrent caller
    effects,        \* the keys with which the request of each caller took effect
    underway,       \* requests given up that may still arrive: [by, key]
    keys,           \* the number of keys drawn
    closed,         \* until when the server refuses requests (429)
    now

httpVars == <<caller, effects, underway, keys, closed, now>>

NoEnvelope == [retryAfter |-> 0, reset |-> 0]

NotCalled == [at |-> "idle", key |-> 0, attempt |-> 0, until |-> 0, told |-> 0, times |-> 0, refused |-> FALSE]

HttpInit ==
    /\ caller = [p \in Process |-> NotCalled]
    /\ effects = [p \in Process |-> <<>>]
    /\ underway = {} /\ keys = 0 /\ closed = 0 /\ now = 0

\* Mutant: retry-after is capped as the others are.
BackoffCapped(attempt, envelope) ==
    SetOps!Min({MaxBackoff, IF envelope.retryAfter > 0 THEN envelope.retryAfter ELSE 2 ^ (attempt - 1)})

\* calculateBackoff: retry-after as it is, the reset and the exponential delay up to maxBackoff.
Backoff(attempt, envelope) ==
    IF envelope.retryAfter > 0 THEN envelope.retryAfter
    ELSE IF envelope.reset > 0 THEN SetOps!Min({MaxBackoff, SetOps!Max({0, envelope.reset - now})})
    ELSE SetOps!Min({2 ^ (attempt - 1), MaxBackoff})

\* request: a key for the call.  The caller calls again after an error that may pass.
BeginRequest(p) ==
    LET c == caller[p]
    IN  /\ c.at \in {"idle", "transient"}
        /\ c.times < env.calls
        /\ keys' = keys + 1
        /\ caller' = [caller EXCEPT ![p] =
                        [NotCalled EXCEPT !.at = "send", !.key = keys + 1, !.attempt = 1, !.times = c.times + 1]]
        /\ UNCHANGED <<effects, underway, closed, now>>

\* The keys with which the requests of a caller took effect.
Arrived(p) == {effects[p][i] : i \in DOMAIN effects[p]}

\* The request arrives: it takes effect unless its key is known to a server that honours keys.
Applied(p, key) ==
    IF env.honours /\ key \in Arrived(p) THEN effects
    ELSE [effects EXCEPT ![p] = Append(@, key)]

\* handleErrorResponse, handleNetworkError, parseResponseBody: what the client makes of an answer.
Judgement(answer) ==
    CASE answer = "ok" -> "success"
      [] answer \in {"limited", "down", "nothing", "lost", "late", "garbled"} -> "transient"
      [] answer \in {"refused", "unexpected"} -> "permanent"
      [] answer = "denied" -> "human"

\* The attempts after which a transient error is thrown.
MaxAttempts == IF env.retries THEN env.maxRetries + 1 ELSE 1

\* request after an attempt: success, another attempt after a delay, or the error is thrown.
After(p, answer, envelope) ==
    LET c == caller[p]
        verdict == Judgement(answer)
    IN  IF verdict = "transient" /\ c.attempt < MaxAttempts
        THEN [c EXCEPT !.at = "wait", !.attempt = @ + 1,
                       !.until = now + Backoff(c.attempt, envelope),
                       !.told = IF envelope.retryAfter > 0 THEN now + envelope.retryAfter ELSE now]
        ELSE [c EXCEPT !.at = verdict, !.refused = answer \in {"refused", "denied"}]

\* What a limited server says: how long it refuses, or when it opens again.
Envelopes ==
    {[NoEnvelope EXCEPT !.retryAfter = closed - now], [NoEnvelope EXCEPT !.reset = closed], NoEnvelope}

\* executeOnce while the server is open: each answer with what happened to the request.
Attempt(p) ==
    LET arrived == Applied(p, caller[p].key)
    IN  /\ caller[p].at = "send"
        /\ now >= closed
        /\ \E answer \in {"ok"} \cup env.answers :
            /\ caller' = [caller EXCEPT ![p] = After(p, answer, NoEnvelope)]
            /\ effects' \in (IF answer \in {"ok", "lost", "garbled", "unexpected", "down"} THEN {arrived} ELSE {})
                              \cup (IF answer \in {"refused", "denied", "nothing", "late", "down"} THEN {effects} ELSE {})
            /\ underway' = IF answer = "late" THEN underway \cup {[by |-> p, key |-> caller[p].key]} ELSE underway
        /\ UNCHANGED <<keys, closed, now>>

\* A request while the server refuses.
Limited(p) ==
    /\ caller[p].at = "send"
    /\ now < closed
    /\ \E envelope \in Envelopes : caller' = [caller EXCEPT ![p] = After(p, "limited", envelope)]
    /\ UNCHANGED <<effects, underway, keys, closed, now>>

\* The delay before the next attempt is over.
Wake(p) ==
    /\ caller[p].at = "wait"
    /\ now >= caller[p].until
    /\ caller' = [caller EXCEPT ![p].at = "send"]
    /\ UNCHANGED <<effects, underway, keys, closed, now>>

\* A request that was given up arrives after all.
ArriveLate ==
    \E r \in underway :
        /\ effects' = Applied(r.by, r.key)
        /\ underway' = underway \ {r}
        /\ UNCHANGED <<caller, keys, closed, now>>

\* The server closes for a while.
Close ==
    /\ "limited" \in env.events
    /\ closed = 0
    /\ closed' \in now + 1 .. MaxClock
    /\ UNCHANGED <<caller, effects, underway, keys, now>>

Tick ==
    /\ now < MaxClock
    /\ now' = now + 1
    /\ UNCHANGED <<caller, effects, underway, keys, closed>>

HttpNext ==
    \/ \E p \in Process : BeginRequest(p) \/ Attempt(p) \/ Limited(p) \/ Wake(p)
    \/ ArriveLate \/ Close \/ Tick
-----------------------------------------------------------------------------
(***************************************************************************)
(* A server that honours keys lets a call take effect once, however often  *)
(* its answer is lost, garbled or late; calling again may take effect      *)
(* again, as every attempt may if keys are not honoured.  Success means    *)
(* that the request took effect.  A refusal of the first attempt means     *)
(* that it did not and never will; one of a later attempt means nothing.   *)
(* (request, executeOnce, generateIdempotencyKey)                          *)
(***************************************************************************)
EffectsCounted ==
    \A p \in Process :
        LET c == caller[p]
        IN  /\ env.honours => Len(effects[p]) <= c.times
            /\ Len(effects[p]) <= c.times * MaxAttempts
            /\ c.at = "success" => c.key \in Arrived(p)
            /\ c.refused /\ c.attempt = 1 => c.key \notin Arrived(p) /\ \A r \in underway : r.key # c.key

(***************************************************************************)
(* A call that was told to retry after some time does not before, even if  *)
(* that is later than the longest backoff, so the closed server never sees *)
(* its retry; every other delay is within the longest backoff.             *)
(* (calculateBackoff)                                                      *)
(***************************************************************************)
WaitsAsTold ==
    \A p \in Process :
        /\ caller[p].at \in {"wait", "send"} /\ caller[p].attempt > 1 =>
                caller[p].until >= caller[p].told
        /\ caller[p].at = "wait" => caller[p].until <= SetOps!Max({caller[p].told, now + MaxBackoff})

CallsAgree == EffectsCounted /\ WaitsAsTold
=============================================================================
