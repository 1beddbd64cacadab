------------------------------- MODULE Agents -------------------------------
(***************************************************************************)
(* Agent sessions (AgentAdapter), the registry of provider manifests that  *)
(* may be edited and loaded again while sessions run (ManifestLoader), and *)
(* what they cost (CostTracker): totals in memory, an append-only log and  *)
(* a file that is written as a whole, shared by processes without a lock.  *)
(*                                                                         *)
(* A manifest stands for its content, so that its number is its hash; its  *)
(* models have a price and a window.  Providers (external) answer, or fail *)
(* in one of the categories that normalizeError tells apart.  Totals are   *)
(* the sessions they count.                                                *)
(* env.manifests lists, for each provider, the manifests its file holds    *)
(* one after the other; env.need is what the context requires; env.model,  *)
(* env.preferred, env.limit and env.fallbacks configure the sessions.      *)
(***************************************************************************)
EXTENDS RunDirectory

Sums == INSTANCE FiniteSetsExt

CONSTANTS
    Provider,       \* the providers
    MaxTicks        \* bound on the hours considered

ASSUME AgentsAssumption ==
    /\ MaxTicks \in Nat
    /\ \A e \in Environment :
        /\ e.fallbacks \in Nat /\ e.limit \in Nat /\ e.price \in Nat
        /\ e.part = "agents" => \A i \in Provider :
                /\ Len(e.manifests[i]) \in Nat \ {0}
                /\ \A v \in 1..Len(e.manifests[i]) : \A x \in DOMAIN e.manifests[i][v].models :
                        e.manifests[i][v].models[x].price \in Nat

VARIABLES
    manifestFile,   \* .codepipe/agents/<provider>.json: which of its manifests it holds
    adapter,        \* each process: [registry, prices, tracking, counted, accepted]; accepted are session numbers
    session,        \* the sessions, in the order of their start
    costs,          \* costs.json and costs.ndjson: [ok, file, log]
    sessionLog,     \* agent_sessions.jsonl
    ticks

agentVars == <<manifestFile, adapter, session, costs, sessionLog, ticks>>

NoManifests == [i \in Provider |-> 0]
NoAdapter == [registry |-> NoManifests, prices |-> NoManifests, tracking |-> FALSE, counted |-> <<>>, accepted |-> {}]

AgentsInit ==
    /\ manifestFile = [i \in Provider |-> 1]
    /\ adapter = [p \in Process |-> NoAdapter]
    /\ session = <<>>
    /\ costs = [ok |-> TRUE, file |-> <<>>, log |-> <<>>]
    /\ sessionLog = <<>>
    /\ ticks = 0

Unused(p) == adapter[p] = NoAdapter
OpenSessions(p) == {s \in DOMAIN session : session[s].by = p /\ session[s].at \notin {"done", "past", "lost"}}
\* Unless processes overlap, one begins when the others have ended.
Works(p) == "overlap" \in env.events \/ \A q \in Process \ {p} : Unused(q)
-----------------------------------------------------------------------------
Manifest(i, v) == env.manifests[i][v]
Models(m) == DOMAIN m.models
Total(m) == Sums!MapThenSumSet(LAMBDA x : m.models[x].price, Models(m))
\* The average price of a is at most that of b.
Cheaper(a, b) == Total(a) * Cardinality(Models(b)) <= Total(b) * Cardinality(Models(a))

\* matchesRequirements
Matches(m) ==
    /\ \E x \in Models(m) : m.models[x].window >= env.need.window
    /\ env.need.features \subseteq m.features
    /\ Total(m) <= env.need.price * Cardinality(Models(m))

\* selectProvider, rankByPrice: the preferred provider, else a cheapest one; equals are left in the order of loading.
Selected(registry) ==
    LET matching == {i \in Provider : registry[i] # 0 /\ Matches(Manifest(i, registry[i]))}
        m(i) == Manifest(i, registry[i])
    IN  IF env.preferred \in matching THEN {env.preferred}
        ELSE {i \in matching : \A j \in matching : Cheaper(m(i), m(j))}

\* loadManifest: an unchanged file is not parsed again, an invalid one changes nothing.
LoadManifest(p, i) ==
    LET v == manifestFile[i]
        a == adapter[p]
    IN  /\ "edit" \in env.events /\ ~Unused(p)
        /\ \A s \in OpenSessions(p) : session[s].at # "chosen"
        /\ v # a.registry[i] /\ Manifest(i, v).valid
        /\ adapter' = [adapter EXCEPT ![p].registry[i] = v, ![p].prices[i] = IF a.tracking THEN v ELSE @]
        /\ UNCHANGED <<manifestFile, session, costs, sessionLog, ticks>>

EditManifest(i) ==
    /\ "edit" \in env.events
    /\ manifestFile[i] < Len(env.manifests[i])
    /\ manifestFile' = [manifestFile EXCEPT ![i] = @ + 1]
    /\ UNCHANGED <<adapter, session, costs, sessionLog, ticks>>
-----------------------------------------------------------------------------
NoNext == [id |-> Nobody, version |-> 0]
NoSession ==
    [by |-> Nobody, at |-> "closing", began |-> -2, tried |-> <<>>, failures |-> <<>>, next |-> NoNext, hash |-> 0, cost |-> 0,
     charged |-> -1]

\* registerCostConfig, getCostConfig: the price of the manifest that was registered last, else the default.
Charge(p, i) ==
    LET v == adapter[p].prices[i]
    IN  IF v = 0 \/ env.model \notin Models(Manifest(i, v)) THEN env.price ELSE Manifest(i, v).models[env.model].price

\* trimRequestWindow
Recent(p) == {n \in adapter[p].accepted : session[n].began >= ticks - 1}

\* assertRateLimitHeadroom
OverBudget(p) == Cardinality(Recent(p)) >= env.limit

\* executeSession up to the first provider.
BeginSession(p) ==
    LET selected == Selected(adapter[p].registry)
        new == [NoSession EXCEPT !.by = p]
    IN  /\ ~Unused(p)
        /\ Len(session) < env.calls
        /\ IF OverBudget(p)
           THEN /\ session' = Append(session, [new EXCEPT !.failures = <<"transient">>])
                /\ adapter' = [adapter EXCEPT ![p].accepted = Recent(p)]
           ELSE /\ adapter' = [adapter EXCEPT ![p].accepted = Recent(p) \cup {Len(session) + 1}]
                /\ \/ /\ selected = {}
                      /\ session' = Append(session, [new EXCEPT !.began = ticks, !.failures = <<"permanent">>])
                   \/ \E i \in selected :
                        session' = Append(session, [new EXCEPT !.at = "chosen", !.began = ticks,
                                                    !.next = [id |-> i, version |-> adapter[p].registry[i]]])
        /\ UNCHANGED <<manifestFile, costs, sessionLog, ticks>>

\* recordUsage: the totals change at once, the log follows.
Counted(p, n) == [adapter EXCEPT ![p].counted = IF adapter[p].tracking THEN Append(@, n) ELSE @]

\* invokeProviderInternal up to its first wait: the model is looked up in the manifest at hand, the hash and the
\* price in what is registered now.  An invoker of one's own may fail in any way.
Invoke(n) ==
    LET s == session[n]
        p == s.by
        m == Manifest(s.next.id, s.next.version)
        called == [s EXCEPT !.tried = Append(@, s.next)]
        answered == [called EXCEPT !.at = "answered", !.hash = adapter[p].registry[s.next.id], !.cost = m.models[env.model].price]
    IN  /\ s.at \in {"chosen", "waiting"}
        /\ \/ /\ env.model \in Models(m)
              /\ session' = [session EXCEPT ![n] =
                    IF adapter[p].tracking THEN [answered EXCEPT !.charged = Charge(p, s.next.id)]
                    ELSE [answered EXCEPT !.at = "closing"]]
              /\ adapter' = Counted(p, n)
           \/ /\ \E c \in env.answers \cup (IF env.model \in Models(m) THEN {} ELSE {"permanent"}) :
                    session' = [session EXCEPT ![n] = [called EXCEPT !.at = "failed", !.failures = Append(@, c)]]
              /\ UNCHANGED adapter
        /\ UNCHANGED <<manifestFile, costs, sessionLog, ticks>>

\* Mutant of FallsBack: a provider that failed may be tried again.
FallsBackAnywhere(s) ==
    LET next == Manifest(Seqs!Last(s.tried).id, Seqs!Last(s.tried).version).fallback
    IN  /\ Seqs!Last(s.failures) = "transient"
        /\ Len(s.tried) - 1 < env.fallbacks
        /\ next \in Provider /\ adapter[s.by].registry[next] # 0

\* resolveFallbackManifest: whether there is a provider to fall back to.
FallsBack(s) ==
    LET next == Manifest(Seqs!Last(s.tried).id, Seqs!Last(s.tried).version).fallback
    IN  /\ Seqs!Last(s.failures) = "transient"
        /\ Len(s.tried) - 1 < env.fallbacks
        /\ next \in Provider /\ adapter[s.by].registry[next] # 0
        /\ \A k \in DOMAIN s.tried : s.tried[k].id # next

\* Its manifest is looked up before the wait that the provider asked for, if any.
TryNext(n) ==
    LET s == session[n]
        next == Manifest(Seqs!Last(s.tried).id, Seqs!Last(s.tried).version).fallback
    IN  /\ s.at = "failed"
        /\ session' = [session EXCEPT ![n] =
                IF FallsBack(s) THEN [s EXCEPT !.at = "waiting", !.next = [id |-> next, version |-> adapter[s.by].registry[next]]]
                ELSE [s EXCEPT !.at = "closing"]]
        /\ UNCHANGED <<manifestFile, adapter, costs, sessionLog, ticks>>

\* appendCostLog; a failed write is only logged.
AppendCostLog(n) ==
    /\ session[n].at = "answered"
    /\ session' = [session EXCEPT ![n].at = "closing"]
    /\ \/ costs' = [costs EXCEPT !.log = Append(@, n)]
       \/ "failure" \in env.events /\ UNCHANGED costs
    /\ UNCHANGED <<manifestFile, adapter, sessionLog, ticks>>

\* A failed write is only logged.
RecordTelemetry(n) ==
    \/ sessionLog' = Append(sessionLog, n)
    \/ "failure" \in env.events /\ UNCHANGED sessionLog

\* executeSession after the last provider, in success and in failure.
CloseSession(n) ==
    /\ session[n].at = "closing"
    /\ session' = [session EXCEPT ![n].at = "done"]
    /\ RecordTelemetry(n)
    /\ UNCHANGED <<manifestFile, adapter, costs, ticks>>
-----------------------------------------------------------------------------
\* loadOrCreateCostTracker, setCostTracker.
Tracking(a) == [a EXCEPT !.tracking = TRUE, !.counted = IF costs.ok THEN costs.file ELSE <<>>]

\* loadManifestLoaderFromRepo: costs are tracked from the beginning, or not.
StartAdapter(p) ==
    /\ Works(p) /\ Unused(p)
    /\ LET tracked == "late" \notin env.events
           valid == [i \in Provider |-> IF Manifest(i, manifestFile[i]).valid THEN manifestFile[i] ELSE 0]
           a == [NoAdapter EXCEPT !.registry = valid, !.prices = IF tracked THEN valid ELSE NoManifests]
       IN  adapter' = [adapter EXCEPT ![p] = IF tracked THEN Tracking(a) ELSE a]
    /\ UNCHANGED <<manifestFile, session, costs, sessionLog, ticks>>

\* setCostTracker after manifests were loaded.
TrackCosts(p) ==
    /\ "late" \in env.events
    /\ ~Unused(p) /\ ~adapter[p].tracking /\ OpenSessions(p) = {}
    /\ adapter' = [adapter EXCEPT ![p] = Tracking(@)]
    /\ UNCHANGED <<manifestFile, session, costs, sessionLog, ticks>>

\* flush
FlushCosts(p) ==
    /\ adapter[p].tracking
    /\ <<costs.ok, costs.file>> # <<TRUE, adapter[p].counted>>
    /\ costs' = [costs EXCEPT !.ok = TRUE, !.file = adapter[p].counted]
    /\ UNCHANGED <<manifestFile, adapter, session, sessionLog, ticks>>

\* The sessions of a process that ends.
Past(p) ==
    [n \in DOMAIN session |->
        IF session[n].by # p THEN session[n]
        ELSE [session[n] EXCEPT !.at = IF n \in OpenSessions(p) THEN "lost" ELSE IF @ = "done" THEN "past" ELSE @]]

\* A command flushes at its end.
EndAdapter(p) ==
    /\ ~Unused(p) /\ OpenSessions(p) = {}
    /\ adapter[p].tracking => costs.ok /\ costs.file = adapter[p].counted
    /\ adapter' = [adapter EXCEPT ![p] = NoAdapter]
    /\ session' = Past(p)
    /\ UNCHANGED <<manifestFile, costs, sessionLog, ticks>>

\* A process dies, perhaps while it writes costs.json.
CrashAdapter(p) ==
    /\ "crash" \in env.events
    /\ ~Unused(p)
    /\ adapter' = [adapter EXCEPT ![p] = NoAdapter]
    /\ session' = Past(p)
    /\ \/ UNCHANGED costs
       \/ adapter[p].tracking /\ costs' = [costs EXCEPT !.ok = FALSE, !.file = <<>>]
    /\ UNCHANGED <<manifestFile, sessionLog, ticks>>

HourPasses ==
    /\ "hours" \in env.events
    /\ ticks < MaxTicks
    /\ ticks' = ticks + 1
    /\ UNCHANGED <<manifestFile, adapter, session, costs, sessionLog>>

AgentsNext ==
    \/ \E p \in Process :
        \/ StartAdapter(p) \/ BeginSession(p) \/ TrackCosts(p) \/ FlushCosts(p) \/ EndAdapter(p) \/ CrashAdapter(p)
        \/ \E i \in Provider : LoadManifest(p, i)
    \/ \E n \in DOMAIN session : Invoke(n) \/ TryNext(n) \/ AppendCostLog(n) \/ CloseSession(n)
    \/ \E i \in Provider : EditManifest(i)
    \/ HourPasses
-----------------------------------------------------------------------------
(***************************************************************************)
(* A session tries each provider once and at most the configured number,   *)
(* goes on only after a transient failure, and the first one meets the     *)
(* requirements of its context.  It is recorded once.  The hash it reports *)
(* is that of the manifest it used, unless it was loaded again while the   *)
(* session waited.  No process starts more sessions in an hour than its    *)
(* budget, as long as it lives.                                            *)
(* (executeSession, executeWithFallback, assertRateLimitHeadroom)          *)
(***************************************************************************)
SessionsTrue ==
    /\ \A n \in DOMAIN session :
        LET s == session[n]
        IN  /\ \A j, k \in DOMAIN s.tried : j # k => s.tried[j].id # s.tried[k].id
            /\ Len(s.tried) <= env.fallbacks + 1
            /\ \A k \in DOMAIN s.failures : k < Len(s.tried) => s.failures[k] = "transient"
            /\ s.tried # <<>> => Matches(Manifest(s.tried[1].id, s.tried[1].version))
            /\ s.at \in {"done", "past"} =>
                    Cardinality({k \in DOMAIN sessionLog : sessionLog[k] = n}) \in {1} \cup (IF "failure" \in env.events THEN {0} ELSE {})
            /\ s.hash # 0 /\ s.hash # Seqs!Last(s.tried).version => "edit" \in env.events /\ Len(s.tried) > 1
    /\ \A p \in Process, t \in 0..MaxTicks :
        LET now == {n \in DOMAIN session : session[n].by = p /\ session[n].at \notin {"past", "lost"}}
        IN  Cardinality({n \in now : session[n].began \in {t - 1, t}}) <= env.limit

Elements(seq) == {seq[k] : k \in DOMAIN seq}

(***************************************************************************)
(* No session is counted twice, in memory, in the file or in the log, and  *)
(* none that was not charged.  When one process after the other works,     *)
(* none dies and no write fails, the totals of the one that tracks costs   *)
(* are what the log adds up to and what is about to be logged, over all    *)
(* the processes before it.  What is charged is what the session reports   *)
(* unless costs were tracked late or a manifest was edited.                *)
(* (recordUsage, flush, load, registerCostConfigs)                         *)
(***************************************************************************)
CostsTrue ==
    /\ \A counted \in {adapter[p].counted : p \in Process} \cup {costs.file, costs.log} :
        /\ \A j, k \in DOMAIN counted : j # k => counted[j] # counted[k]
        /\ \A n \in Elements(counted) : session[n].charged >= 0
    /\ env.events \cap {"overlap", "crash", "failure"} = {} =>
        \A p \in Process : adapter[p].tracking =>
            /\ Elements(adapter[p].counted) = Elements(costs.log) \cup {n \in OpenSessions(p) : session[n].at = "answered"}
            /\ Len(costs.file) <= Len(adapter[p].counted)
            /\ \A k \in DOMAIN costs.file : costs.file[k] = adapter[p].counted[k]
    /\ env.events \cap {"late", "edit"} = {} =>
        \A n \in DOMAIN session : session[n].charged >= 0 => session[n].charged = session[n].cost

AgentsAgree == SessionsTrue /\ CostsTrue
=============================================================================
