---------------------------- MODULE NetworkChecks ----------------------------
(***************************************************************************)
(* The checks of the gateway, connectivity, IP forwarding and IPv6         *)
(* monitors (pkg/monitors/network), in the form KubernetesChecks explains. *)
(***************************************************************************)
EXTENDS KubernetesChecks, FiniteSets, SequencesExt

(* A line of /proc/net/route or /proc/net/ipv6_route: whether it is a      *)
(* default route via a gateway, whether that gateway can be decoded, and   *)
(* its metric.                                                             *)
Route(gw, default, decodes, metric) ==
    [gateway |-> gw, default |-> default, decodes |-> decodes, metric |-> metric]
NoGateway == "no gateway"

(* The better of what was found so far and the next default route: the     *)
(* lower metric, and of equal ones the first.                              *)
Better(best, r) == IF best = <<>> \/ r.metric < best[1].metric THEN <<r>> ELSE best

(* detectDefaultGatewayFromReader and its IPv6 twin: a default route that  *)
(* cannot be decoded is an error, other lines are skipped.                 *)
DetectDefaultGateway(table) ==
    LET defaults == SelectSeq(table, LAMBDA r : r.default)
        best == FoldLeft(Better, <<>>, defaults)
    IN  IF best = <<>> \/ \E i \in DOMAIN defaults : ~defaults[i].decodes
        THEN NoGateway ELSE best[1].gateway

(* Gateway.  An address family, or a gateway given by hand. *)
RouteTables ==
    LET low == Route("low", TRUE, TRUE, 1)
        high == Route("high", TRUE, TRUE, 2)
        also == Route("also low", TRUE, TRUE, 1)
    IN  {<<>>, <<high, low>>, <<low, high>>, <<low, also>>, <<Route("lan", FALSE, TRUE, 0), high>>,
         <<low, Route("bad", TRUE, FALSE, 3)>>}
GatewayConfigs == [threshold : {2}, source : {"manual", "ipv4", "ipv6", "auto", "none"}]
GatewayFresh == [failures |-> 0, gateway |-> NoGateway]
GatewayInputs == [v4 : RouteTables, v6 : {<<>>, <<Route("six", TRUE, TRUE, 1)>>},
                  replies : {-1} \cup 0 .. 4]
PingCount == 4

DetectGatewayForFamily(cfg, o) ==
    LET v4 == DetectDefaultGateway(o.v4)
        v6 == DetectDefaultGateway(o.v6)
    IN  CASE cfg.source = "ipv6" -> v6
          [] cfg.source = "auto" -> IF v4 # NoGateway THEN v4 ELSE v6
          [] OTHER -> v4

GetGatewayIP(cfg, o) ==
    CASE cfg.source = "manual" -> "by hand"
      [] cfg.source = "none" -> NoGateway
      [] OTHER -> DetectGatewayForFamily(cfg, o)

(* checkGateway: more than half of the pings must be answered. *)
GatewayReached(cfg, o) == GetGatewayIP(cfg, o) # NoGateway /\ o.replies > PingCount \div 2

(* updateFailureTracking: withdrawn on every success. *)
CheckGateway(cfg, st, o) ==
    LET n == IF GatewayReached(cfg, o) THEN 0 ELSE st.failures + 1
        gw == GetGatewayIP(cfg, o)
    IN  Result([failures |-> n, gateway |-> IF gw = NoGateway THEN st.gateway ELSE gw],
               When(n >= cfg.threshold, <<Raise("NetworkUnreachable")>>)
               \o When(n = 0, <<Clear("NetworkUnreachable")>>))

----------------------------------------------------------------------------
(* Connectivity: endpoints in the order of the configuration. *)
Endpoints == <<"registry", "internet">>
ConnectivityConfigs == {[threshold |-> 2]}
ConnectivityFresh == [i \in DOMAIN Endpoints |-> 0]
ConnectivityInputs == [DOMAIN Endpoints -> {"ok", "dns", "http", "error"}]

(* updateEndpointFailureCount for one endpoint. *)
UpdateEndpointFailureCount(cfg, n, ok) ==
    IF ok THEN When(n > 0, <<Clear("NetworkUnreachable")>>)
    ELSE When(n + 1 >= cfg.threshold, <<Raise("NetworkUnreachable")>>)

(* checkConnectivity: an unexpected error neither counts nor resets. *)
CheckConnectivity(cfg, st, o) ==
    Result([i \in DOMAIN Endpoints |->
               CASE o[i] = "ok" -> 0 [] o[i] = "error" -> st[i] [] OTHER -> st[i] + 1],
           FlattenSeq([i \in DOMAIN Endpoints |->
               When(o[i] # "error", UpdateEndpointFailureCount(cfg, st[i], o[i] = "ok"))]))

----------------------------------------------------------------------------
(* IP forwarding and the IPv6 monitors keep no state. *)
Stateless == [none |-> TRUE]
Setting == {"0", "1", "unreadable"}
IfaceSettings == {[eth0 |-> s, lo |-> "0"] : s \in Setting}

(* The interfaces a per-interface check looks at. *)
Checked(cfg) == IF cfg.interfaces = {} THEN {"eth0"} ELSE cfg.interfaces \ {"lo"}

ForwardingConfigs == [ipv4 : BOOLEAN, ipv6 : BOOLEAN, perInterface : BOOLEAN,
                      interfaces : {{}, {"eth1"}, {"eth0", "lo"}}]
ForwardingInputs == [ipv4 : Setting, ipv6 : Setting, iface : IfaceSettings]

CheckPerInterfaceForwarding(cfg, o) ==
    {i \in Checked(cfg) \cap DOMAIN o.iface : o.iface[i] = "0"}

(* checkIPForwarding: an unreadable IPv4 setting counts as disabled, an    *)
(* unreadable IPv6 or interface setting does not.                          *)
CheckIPForwarding(cfg, st, o) ==
    LET disabled == \/ cfg.ipv4 /\ o.ipv4 # "1"
                    \/ cfg.ipv6 /\ o.ipv6 = "0"
                    \/ cfg.perInterface /\ CheckPerInterfaceForwarding(cfg, o) # {}
    IN  Result(st, <<IF disabled THEN Raise("IPForwardingDisabled")
                     ELSE Clear("IPForwardingDisabled")>>)

SysctlConfigs == [expected : BOOLEAN, perInterface : BOOLEAN, interfaces : {{}, {"eth1"}}]
SysctlInputs == [all : Setting, default : Setting, iface : IfaceSettings]

(* checkScopedDisableIPv6, checkPerInterfaceDisableIPv6: a finding for a   *)
(* scope that cannot be read, whatever is expected of it.                  *)
CheckScopedDisableIPv6(cfg, s) == s = "unreadable" \/ (s = "1" /\ cfg.expected)
CheckPerInterfaceDisableIPv6(cfg, o) ==
    cfg.expected /\ \E i \in Checked(cfg) \cap DOMAIN o.iface : o.iface[i] = "1"

CheckIPv6Sysctl(cfg, st, o) ==
    LET finding == \/ CheckScopedDisableIPv6(cfg, o.all)
                   \/ CheckScopedDisableIPv6(cfg, o.default)
                   \/ cfg.perInterface /\ CheckPerInterfaceDisableIPv6(cfg, o)
    IN  Result(st, <<IF finding THEN Raise("IPv6SysctlMisconfigured")
                     ELSE Clear("IPv6SysctlMisconfigured")>>)

RouteConfigs == [expected : BOOLEAN]
RouteInputs == [readable : BOOLEAN, v6 : RouteTables]

CheckIPv6Route(cfg, st, o) ==
    LET absent == ~o.readable \/ DetectDefaultGateway(o.v6) = NoGateway
    IN  Result(st, <<IF absent /\ cfg.expected THEN Raise("IPv6DefaultRouteMissing")
                     ELSE Clear("IPv6DefaultRouteMissing")>>)

----------------------------------------------------------------------------
(* IPv6 neighbours: the addresses of if_inet6 by interface, an interface   *)
(* without any is not seen; accept_ra and autoconf, -1 where unreadable.   *)
NeighborConfigs == [expected : BOOLEAN, global : BOOLEAN, perInterface : BOOLEAN,
                    interfaces : {{}, {"eth1"}}]
NeighborInputs == [readable : BOOLEAN, scopes : [{"eth0"} -> SUBSET {"link", "global"}],
                   ra : [{"eth0"} -> -1 .. 1], autoconf : [{"eth0"} -> -1 .. 1]]

EvaluateAddresses(cfg, o) ==
    LET seen == {i \in Checked(cfg) \cap DOMAIN o.scopes : o.scopes[i] # {}}
        lacks(s) == \E i \in seen : s \notin o.scopes[i]
    IN  IF ~o.readable THEN <<Clear("IPv6LinkLocalMissing"), Clear("IPv6GlobalAddressMissing")>>
        ELSE <<IF lacks("link") /\ cfg.expected THEN Raise("IPv6LinkLocalMissing")
               ELSE Clear("IPv6LinkLocalMissing"),
               IF lacks("global") /\ cfg.expected /\ cfg.global THEN Raise("IPv6GlobalAddressMissing")
               ELSE Clear("IPv6GlobalAddressMissing")>>

CheckRouterAdvertisement(cfg, o) ==
    LET off == {i \in Checked(cfg) \cap DOMAIN o.ra :
                   o.ra[i] # -1 /\ (o.ra[i] = 0 \/ o.autoconf[i] = 0)}
    IN  <<IF cfg.perInterface /\ cfg.expected /\ off # {} THEN Raise("IPv6RouterAdvertisementDisabled")
          ELSE Clear("IPv6RouterAdvertisementDisabled")>>

CheckIPv6Neighbor(cfg, st, o) ==
    Result(st, EvaluateAddresses(cfg, o) \o CheckRouterAdvertisement(cfg, o))

(* IPv6 firewall: per hook the policies of the chains registered on it,    *)
(* and whether a rule anywhere accepts.                                    *)
Hooks == {"input", "forward", "output"}
FirewallConfigs == [expected : BOOLEAN, backend : {"nft", "ip6tables", "auto"}]
FirewallInputs == [tools : SUBSET {"nft", "ip6tables"}, runs : BOOLEAN, accept : BOOLEAN,
                   policies : {[h \in Hooks |-> IF h = "forward" THEN p ELSE {"drop"}] :
                                  p \in {{}, {"drop"}, {"accept"}, {"accept", "drop"}}}]

ResolveBackend(cfg, o) ==
    IF cfg.backend # "auto" THEN cfg.backend
    ELSE IF "nft" \in o.tools THEN "nft"
    ELSE IF "ip6tables" \in o.tools THEN "ip6tables" ELSE "no tool"

(* evaluateNFTRuleset: a hook is dropped when any of its chains drops, and *)
(* a policy that accepts is a line with "accept" in it.  ip6tables has one *)
(* policy per chain (evaluateIP6TablesRuleset).                            *)
EvaluateNFTRuleset(o) ==
    /\ ~o.accept /\ \A h \in Hooks : "accept" \notin o.policies[h]
    /\ \A h \in Hooks : "drop" \in o.policies[h]
EvaluateIP6TablesRuleset(o) == ~o.accept /\ \A h \in Hooks : o.policies[h] = {"drop"}

Blackholed(cfg, o) ==
    LET tool == ResolveBackend(cfg, o)
    IN  /\ tool \in o.tools /\ o.runs
        /\ IF tool = "nft" THEN EvaluateNFTRuleset(o) ELSE EvaluateIP6TablesRuleset(o)

CheckIPv6Firewall(cfg, st, o) ==
    Result(st, <<IF Blackholed(cfg, o) /\ cfg.expected THEN Raise("IPv6FirewallBlackhole")
                 ELSE Clear("IPv6FirewallBlackhole")>>)
=============================================================================
