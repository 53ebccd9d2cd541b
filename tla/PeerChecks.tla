----------------------------- MODULE PeerChecks -----------------------------
(***************************************************************************)
(* The checks of the CNI and cluster DNS pod monitors and the discovery of *)
(* their peers (pkg/monitors/network: cni.go, cni_health.go,               *)
(* clusterdnspod.go, peer_discovery.go), in the form KubernetesChecks      *)
(* explains.                                                               *)
(*                                                                         *)
(* The discovery refreshes its list in the background; a check reads it    *)
(* once.  What was listed since the last check is part of an observation.  *)
(***************************************************************************)
EXTENDS DNSChecks

Self == "self"
Peers == {"p1", "p2"}

(* A pod of the list: running or not, and whether an address is known. *)
PodStates == {"absent", "pending", "no address", "running"}

(* discoverPeers: running pods of other nodes that have an address. *)
DiscoverPeers(pods) == {n \in DOMAIN pods : n # Self /\ pods[n] = "running"}

(* Refresh: a list that cannot be read leaves the old one in place. *)
Refresh(peers, o) == IF o.list = "brings" THEN DiscoverPeers(o.pods) ELSE peers

Listings ==
    LET pods == {[p1 |-> a, p2 |-> b, self |-> "running"] : a, b \in {"absent", "running"}}
                \cup {[p1 |-> "pending", p2 |-> "no address", self |-> "running"]}
    IN  [list : {"brings"}, pods : pods]
        \cup [list : {"none", "fails"}, pods : {[self |-> "running"]}]

----------------------------------------------------------------------------
(* CNI: the files of the configuration directory, the interfaces found,    *)
(* and what pinging each peer brings.                                      *)
CNIConfigs == {c \in [minReachable : {50, 80}, highLatency : {2}, health : BOOLEAN,
                       expected : {{}, {"cni0"}}] : ~c.health => c.expected = {}}
CNIFresh == [peers |-> {}, high |-> <<>>]
Files == {"no directory", "none", "empty", "not json", "valid", "one of two valid"}
CNIInputs(cfg) ==
    LET quiet == [files |-> "valid", interfaces |-> {"cni0"},
                  listing |-> CHOOSE l \in Listings : l.list = "none",
                  ping |-> [n \in Peers |-> "fast"]]
    IN  IF cfg.health
        THEN {[quiet EXCEPT !.files = f, !.interfaces = i] : f \in Files, i \in SUBSET {"cni0"}}
        ELSE {[quiet EXCEPT !.listing = l, !.ping = p] :
                 l \in Listings, p \in [Peers -> {"lost", "fast", "slow"}]}

(* CheckConfigFiles, CheckInterfaces. *)
CheckConfigFiles(o) == o.files \in {"valid", "one of two valid"}
CheckInterfaces(cfg, o) == cfg.expected \subseteq o.interfaces

(* CheckHealth and AddCNIHealthToStatus; the interfaces are looked at only *)
(* when some are expected.                                                 *)
CNIHealth(cfg, o) ==
    LET say(ok, c) == <<IF ok THEN Raise(c) ELSE Clear(c)>>
    IN  say(CheckConfigFiles(o), "CNIConfigValid")
        \o When(cfg.expected # {}, say(CheckInterfaces(cfg, o), "CNIInterfacesHealthy"))
        \o say(CheckConfigFiles(o) /\ CheckInterfaces(cfg, o), "CNIHealthy")

(* checkPeerConnectivity: a peer answers when more than half of its pings  *)
(* come back.  The consecutive slow checks of a peer are counted from what *)
(* the last check that had peers knew of it.                               *)
Reachable(o, n) == o.ping[n] # "lost"
HighLatencyCount(st, o, n) ==
    IF o.ping[n] = "slow" THEN (IF n \in DOMAIN st.high THEN st.high[n] ELSE 0) + 1 ELSE 0

(* checkCNI: without peers there is no verdict, and what is known of the   *)
(* peers stays; with peers only what is known of them stays.               *)
CheckCNI(cfg, st, o) ==
    LET peers == Refresh(st.peers, o.listing)
        high == [n \in peers |-> HighLatencyCount(st, o, n)]
        reachable == Cardinality({n \in peers : Reachable(o, n)})
        health == When(cfg.health, CNIHealth(cfg, o))
        say(bad, c) == <<IF bad THEN Raise(c) ELSE Clear(c)>>
    IN  IF peers = {} THEN Result([st EXCEPT !.peers = peers], health)
        ELSE Result([peers |-> peers, high |-> high],
                    health
                    \o say((reachable * 100) \div Cardinality(peers) < cfg.minReachable,
                           "NetworkPartitioned")
                    \o say(\E n \in peers : high[n] >= cfg.highLatency, "NetworkDegraded"))

----------------------------------------------------------------------------
(* Cluster DNS pods: the pods, no more than the five a check asks at most, *)
(* answer whether they resolve.                                            *)
DNSPodConfigs == {[threshold |-> 2, minSuccess |-> m] : m \in {1, 2}}
DNSPodFresh == [peers |-> {}, failures |-> 0]
DNSPodInputs ==
    [listing : Listings, probe : [Peers -> {"resolved", "not resolved", "no answer"}]]

(* probePeer: an answer with status 200 that says resolved. *)
ProbePeer(o, n) == o.probe[n] = "resolved"

(* checkClusterDNSPod *)
CheckClusterDNSPod(cfg, st, o) ==
    LET peers == Refresh(st.peers, o.listing)
        resolved == Cardinality({n \in peers : ProbePeer(o, n)})
        n == IF resolved >= cfg.minSuccess THEN 0 ELSE st.failures + 1
    IN  IF peers = {} THEN Result([st EXCEPT !.peers = peers], <<>>)
        ELSE Result([peers |-> peers, failures |-> n],
                    When(n >= cfg.threshold, <<Raise("ClusterDNSDown")>>)
                    \o When(n = 0, <<Clear("ClusterDNSDown")>>))
=============================================================================
