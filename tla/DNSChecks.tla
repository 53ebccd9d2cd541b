----------------------------- MODULE DNSChecks -----------------------------
(***************************************************************************)
(* The check of the DNS monitor (pkg/monitors/network/dns.go), in the form *)
(* KubernetesChecks explains.  Percentages are in points of one hundredth. *)
(* The answers to one query do not repeat an address, as a set of DNS      *)
(* records does not.  Trends, predictions and correlations are left out.   *)
(***************************************************************************)
EXTENDS SystemChecks

(* What the monitor looks at: the domains, a custom query and its mode,    *)
(* and whether success rates and the health of nameservers are followed.   *)
DNSConfigs ==
    LET base == [threshold |-> 2, cluster |-> TRUE, custom |-> "none", rate |-> FALSE,
                 scoring |-> FALSE, window |-> 3, minSamples |-> 2, failureRate |-> 50]
    IN  {base, [base EXCEPT !.cluster = FALSE], [base EXCEPT !.rate = TRUE],
         [base EXCEPT !.custom = "each nameserver"], [base EXCEPT !.custom = "consistency"],
         [base EXCEPT !.custom = "plain"], [base EXCEPT !.scoring = TRUE]}

Nameservers == {"ns1", "ns2"}
DNSFresh == [cluster |-> 0, external |-> 0, clusterWindow |-> <<>>, externalWindow |-> <<>>,
             stats |-> [n \in Nameservers |-> <<>>]]

(* The observations.  cluster, external: how the look-ups of two cluster   *)
(* and of two external domains end; resolv: the nameservers of             *)
(* resolv.conf, none if it cannot be read; answers: what each nameserver   *)
(* says; queries: what the rapid queries of a consistency check bring, an  *)
(* empty answer being a failure; a cancelled check has fewer queries.      *)
QueriesPerCheck == 2
Lookups == {<<"ok", "ok">>, <<"ok", "error">>, <<"error", "error">>, <<"empty", "ok">>}
Answers == {<<>>, <<"a">>, <<"b">>, <<"a", "b">>, <<"b", "a">>}
DNSInputs(cfg) ==
    LET still == [cluster |-> <<"ok", "ok">>, external |-> <<"ok", "ok">>, resolv |-> Nameservers,
                  answers |-> [n \in Nameservers |-> "None"], queries |-> <<>>]
        perNameserver == {[still EXCEPT !.resolv = r, !.answers = a] :
            r \in {{}, {"ns2"}, Nameservers},
            a \in [ns1 : {"None", "Timeout"}, ns2 : {"None", "Temporary"}]}
    IN  IF cfg.custom = "consistency"
        THEN {[still EXCEPT !.queries = q] : q \in BoundedSeq(Answers, QueriesPerCheck)}
        ELSE IF cfg.custom = "each nameserver" \/ cfg.scoring THEN perNameserver
        ELSE {[still EXCEPT !.cluster = a, !.external = b] :
                 a \in Lookups, b \in {<<"ok", "ok">>, <<"empty", "error">>}}

(* checkDNSDomains: every domain must resolve, to at least one address. *)
Unresolved(lookups) == {i \in DOMAIN lookups : lookups[i] # "ok"}
CheckDNSDomains(configured, lookups) == configured => Unresolved(lookups) = {}

(* RingBuffer.Add and NameserverStats.add: the last size results. *)
AddToWindow(window, size, x) ==
    LET w == Append(window, x) IN IF Len(w) > size THEN Tail(w) ELSE w
Failures(window) == Cardinality({i \in DOMAIN window : window[i] # "None"})

(* setMutuallyExclusiveCondition *)
SetMutuallyExclusiveCondition(members, active) ==
    [i \in DOMAIN members |-> IF members[i] = active THEN Raise(members[i]) ELSE Clear(members[i])]

(* checkSuccessRateConditions, for one of the windows. *)
CheckSuccessRateConditions(cfg, window, degraded, intermittent) ==
    LET failed == Failures(window)
    IN  When(Len(window) >= cfg.minSamples,
             SetMutuallyExclusiveCondition(<<degraded, intermittent>>,
                 IF failed * 100 >= cfg.failureRate * Len(window) THEN degraded
                 ELSE IF failed > 0 THEN intermittent ELSE "none"))

(* updateFailureTracking; the windows matter only if they are evaluated. *)
UpdateFailureTracking(cfg, st, clusterOK, externalOK) ==
    LET count(n, ok) == IF ok THEN 0 ELSE n + 1
        kept(w, ok) == IF cfg.rate THEN AddToWindow(w, cfg.window, IF ok THEN "None" ELSE "Unknown")
                       ELSE w
        say(n, c) == When(n >= cfg.threshold, <<Raise(c)>>) \o When(n = 0, <<Clear(c)>>)
        new == [st EXCEPT !.cluster = count(@, clusterOK), !.external = count(@, externalOK),
                          !.clusterWindow = kept(@, clusterOK),
                          !.externalWindow = kept(@, externalOK)]
    IN  Result(new,
               When(cfg.cluster, say(new.cluster, "ClusterDNSDown"))
               \o say(new.external, "ExternalDNSDown")
               \o When(cfg.rate,
                       CheckSuccessRateConditions(cfg, new.clusterWindow, "ClusterDNSDegraded",
                                                  "ClusterDNSIntermittent")
                       \o CheckSuccessRateConditions(cfg, new.externalWindow, "ExternalDNSDegraded",
                                                     "ExternalDNSIntermittent")))

----------------------------------------------------------------------------
(* checkDomainAgainstNameservers *)
Resolving(o) == {n \in o.resolv : o.answers[n] = "None"}
CheckDomainAgainstNameservers(o) ==
    IF o.resolv = {} THEN <<>>
    ELSE SetMutuallyExclusiveCondition(<<"CustomDNSDown", "DNSResolutionDegraded">>,
             IF Resolving(o) = {} THEN "CustomDNSDown"
             ELSE IF Resolving(o) # o.resolv THEN "DNSResolutionDegraded" ELSE "none")

(* checkDomainConsistency: the answers are compared with the first that    *)
(* succeeded, by their number and their membership.                        *)
CheckDomainConsistency(o) ==
    LET good == SelectSeq(o.queries, LAMBDA q : q # <<>>)
        differs == \E i \in DOMAIN good : \/ Len(good[i]) # Len(good[1])
                                          \/ ~(ToSet(good[i]) \subseteq ToSet(good[1]))
    IN  IF Len(o.queries) < QueriesPerCheck THEN <<>>
        ELSE SetMutuallyExclusiveCondition(
                 <<"DNSResolutionDown", "DNSResolutionIntermittent", "DNSResolutionInconsistent">>,
                 IF good = <<>> THEN "DNSResolutionDown"
                 ELSE IF Len(good) < QueriesPerCheck THEN "DNSResolutionIntermittent"
                 ELSE IF differs THEN "DNSResolutionInconsistent" ELSE "none")

(* checkCustomQueries: one query; a plain one only raises events. *)
CheckCustomQueries(cfg, o) ==
    CASE cfg.custom = "each nameserver" -> CheckDomainAgainstNameservers(o)
      [] cfg.custom = "consistency" -> CheckDomainConsistency(o)
      [] OTHER -> <<>>

----------------------------------------------------------------------------
(* Health of a nameserver: computeHealthScore with the default weights and *)
(* answers that all come at once, so that the latency and its spread score *)
(* fully as soon as there are samples enough (two, and one).  In points of *)
(* one hundredth of 3 * MinScoreSamples.                                   *)
MinScoreSamples == 3
ErrorSeverity(e) ==
    CASE e = "None" -> 0 [] e = "Timeout" -> 3 [] e \in {"SERVFAIL", "Refused", "NXDOMAIN"} -> 2
      [] OTHER -> 1
ComputeHealthScore(results) ==
    LET n == Len(results)
        successes == n - Failures(results)
        severity == Cardinality({p \in (DOMAIN results) \X (1 .. 3) :
                                     p[2] <= ErrorSeverity(results[p[1]])})
        score == 40 * 3 * successes + (IF successes >= 2 THEN 25 * 3 * n ELSE 0)
                 + 15 * (3 * n - severity) + (IF successes >= 1 THEN 20 * 3 * n ELSE 0)
    IN  IF n < MinScoreSamples THEN "insufficient data"
        ELSE IF score < 40 * 3 * n THEN "unhealthy"
        ELSE IF score < 70 * 3 * n THEN "degraded" ELSE "healthy"

(* checkNameservers: the check of each nameserver is recorded. *)
CheckNameservers(cfg, stats, o) ==
    IF ~cfg.scoring THEN stats
    ELSE [n \in Nameservers |-> IF n \in o.resolv
                                THEN AddToWindow(stats[n], cfg.window, o.answers[n]) ELSE stats[n]]

(* computeNameserverHealthScores: every nameserver that was ever checked,  *)
(* also one that resolv.conf no longer names.                              *)
ComputeNameserverHealthScores(cfg, stats) ==
    LET some(s) == \E n \in Nameservers : ComputeHealthScore(stats[n]) = s
        say(s, c) == <<IF some(s) THEN Raise(c) ELSE Clear(c)>>
    IN  When(cfg.scoring /\ \E n \in Nameservers : stats[n] # <<>>,
             say("unhealthy", "DNSNameserverUnhealthy") \o say("degraded", "DNSNameserverDegraded"))

MutPerDomain(cfg, st, o) ==
    LET count(n, lookups) == n + Cardinality(Unresolved(lookups)) - 1
        perDomain == [st EXCEPT !.cluster = count(@, o.cluster), !.external = count(@, o.external)]
    IN  UpdateFailureTracking(cfg, perDomain, CheckDNSDomains(cfg.cluster, o.cluster),
                              CheckDNSDomains(TRUE, o.external))

(* checkDNS *)
CheckDNS(cfg, st, o) ==
    LET tracked == UpdateFailureTracking(cfg, st, CheckDNSDomains(cfg.cluster, o.cluster),
                                         CheckDNSDomains(TRUE, o.external))
        stats == CheckNameservers(cfg, st.stats, o)
    IN  Result([tracked.state EXCEPT !.stats = stats],
               CheckCustomQueries(cfg, o) \o tracked.conds
               \o ComputeNameserverHealthScores(cfg, stats))
=============================================================================
