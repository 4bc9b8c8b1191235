------------------------------ MODULE Catalogue ------------------------------
(***************************************************************************)
(* What the managers of managers/ declare: the classes that inherit all of *)
(* BaseManager or BaseSingletonManager are nothing but these declarations. *)
(* Of a class this keeps what decides which record a call means and which  *)
(* configuration it makes effective:                                       *)
(*                                                                         *)
(*   at        _endpoint, as module and controller                         *)
(*   kind      _entity_suffix or _payload_key (and _section), which with   *)
(*             `at' names the collection or the document                   *)
(*   keys      _match_key or _match_keys, in their order                   *)
(*   required  the fields _validators requires                             *)
(*   apply     the module and controller of _apply_endpoint                *)
(*   lists     whether list() sends the search phrase or asks for all      *)
(*   edits     whether the appliance has the endpoints to change a record  *)
(*                                                                         *)
(* Field limits, redaction and timeouts are left out.                      *)
(***************************************************************************)

\* BaseManager, BaseSingletonManager: _apply_endpoint = None.
NoApplyEndpoint == <<"none", "none">>

\* A subclass of BaseManager: a collection of records.
Records(at, kind, keys, required, apply) ==
    [at |-> at, kind |-> kind, keys |-> keys, required |-> required,
     apply |-> apply, lists |-> "phrase", edits |-> TRUE]

\* A list() that ignores the search phrase it is given.
ListedWhole(m) == [m EXCEPT !.lists = "all"]

\* "This manager supports create + read only."
CreatedOnly(m) == [m EXCEPT !.edits = FALSE]

\* A subclass of BaseSingletonManager: one document, found without keys.
Document(at, kind, apply) == Records(at, kind, <<>>, {}, apply)

-----------------------------------------------------------------------------
(* ACME client: managers/acme. *)

AcmeAccount ==
    Records(<<"acmeclient", "accounts">>, "account",
            <<"name">>, {"name"}, NoApplyEndpoint)

AcmeAction ==
    Records(<<"acmeclient", "actions">>, "action",
            <<"name">>, {"name"}, NoApplyEndpoint)

AcmeCertificate ==
    Records(<<"acmeclient", "certificates">>, "certificate",
            <<"name">>, {"name"}, NoApplyEndpoint)

AcmeSettings ==
    Document(<<"acmeclient", "settings">>, "acmeclient",
             <<"acmeclient", "service">>)

AcmeValidation ==
    Records(<<"acmeclient", "validations">>, "validation",
            <<"name">>, {"name"}, NoApplyEndpoint)

-----------------------------------------------------------------------------
(* Users and groups: managers/auth. *)

AuthGroup ==
    Records(<<"auth", "group">>, "group",
            <<"name">>, {"name"}, NoApplyEndpoint)

AuthUser ==
    Records(<<"auth", "user">>, "user",
            <<"name">>, {"name"}, NoApplyEndpoint)

-----------------------------------------------------------------------------
(* CrowdSec: managers/crowdsec. *)

CrowdSecSettings ==
    Document(<<"crowdsec", "general">>, "general", <<"crowdsec", "service">>)

-----------------------------------------------------------------------------
(* Kea: managers/dhcp. *)

Kea4Peer ==
    Records(<<"kea", "dhcpv4">>, "Peer",
            <<"name">>, {"name", "url"}, <<"kea", "service">>)

Kea4Reservation ==
    Records(<<"kea", "dhcpv4">>, "Reservation",
            <<"ip_address", "hw_address">>,
            {"ip_address", "hw_address"}, <<"kea", "service">>)

Kea4Settings ==
    Document(<<"kea", "dhcpv4">>, "dhcpv4.general", <<"kea", "service">>)

Kea4Subnet ==
    Records(<<"kea", "dhcpv4">>, "Subnet",
            <<"subnet">>, {"subnet"}, <<"kea", "service">>)

Kea6Reservation ==
    Records(<<"kea", "dhcpv6">>, "Reservation",
            <<"ip_address", "duid">>,
            {"ip_address", "duid"}, <<"kea", "service">>)

Kea6Settings ==
    Document(<<"kea", "dhcpv6">>, "dhcpv6.general", <<"kea", "service">>)

Kea6Subnet ==
    Records(<<"kea", "dhcpv6">>, "Subnet",
            <<"subnet">>, {"subnet", "interface"}, <<"kea", "service">>)

-----------------------------------------------------------------------------
(* Unbound and DNSCrypt: managers/dns. *)

DnscryptProxyGeneral ==
    Document(<<"dnscryptproxy", "general">>, "general",
             <<"dnscryptproxy", "service">>)

UbAcl ==
    Records(<<"unbound", "settings">>, "Acl",
            <<"name">>, {"name"}, <<"unbound", "service">>)

UbDot ==
    Records(<<"unbound", "settings">>, "Dot",
            <<"server", "port">>, {"server"}, <<"unbound", "service">>)

UbForward ==
    Records(<<"unbound", "settings">>, "Forward",
            <<"domain", "server">>, {}, <<"unbound", "service">>)

UbHostAlias ==
    CreatedOnly(Records(<<"unbound", "settings">>, "HostAlias",
            <<"hostname", "domain">>, {"hostname"}, <<"unbound", "service">>))

UbHostOverride ==
    Records(<<"unbound", "settings">>, "HostOverride",
            <<"hostname", "domain", "server">>,
            {"hostname"}, <<"unbound", "service">>)

UbSettings ==
    Document(<<"unbound", "settings">>, "unbound.general",
             <<"unbound", "service">>)

-----------------------------------------------------------------------------
(* Firewall: managers/firewall. *)

\* Mutant of FwAlias: the apply endpoint is forgotten.
FwAliasUnapplied ==
    Records(<<"firewall", "alias">>, "Item",
            <<"name">>, {"name"}, NoApplyEndpoint)

FwAlias ==
    Records(<<"firewall", "alias">>, "Item",
            <<"name">>, {"name"}, <<"firewall", "alias">>)

FwCategory ==
    Records(<<"firewall", "category">>, "Item",
            <<"name">>, {"name"}, NoApplyEndpoint)

FwDnat ==
    Records(<<"firewall", "d_nat">>, "Rule",
            <<"descr", "interface", "target">>,
            {"descr", "interface", "target"}, <<"firewall", "d_nat">>)

FwFilter ==
    Records(<<"firewall", "filter">>, "Rule",
            <<"description", "interface", "direction", "protocol">>,
            {"description", "action", "interface"}, <<"firewall", "filter">>)

FwGroup ==
    Records(<<"firewall", "group">>, "Item",
            <<"ifname">>, {"ifname", "members"}, NoApplyEndpoint)

FwNpt ==
    Records(<<"firewall", "npt">>, "Rule",
            <<"source_net", "destination_net">>,
            {"source_net", "destination_net", "interface"},
            <<"firewall", "npt">>)

FwOneToOne ==
    Records(<<"firewall", "one_to_one">>, "Rule",
            <<"description", "interface", "source_net">>,
            {"description", "interface", "source_net"},
            <<"firewall", "one_to_one">>)

FwSourceNat ==
    Records(<<"firewall", "source_nat">>, "Rule",
            <<"description", "interface", "source_net">>,
            {"description", "interface", "source_net"},
            <<"firewall", "source_nat">>)

-----------------------------------------------------------------------------
(* Intrusion detection: managers/ids. *)

IdsSettings ==
    Document(<<"ids", "settings">>, "ids.general", <<"ids", "service">>)

-----------------------------------------------------------------------------
(* Interfaces: managers/interfaces. *)

IfBridge ==
    Records(<<"interfaces", "bridge_settings">>, "Item",
            <<"descr">>, {"descr"}, <<"interfaces", "bridge_settings">>)

IfGif ==
    Records(<<"interfaces", "gif_settings">>, "Item",
            <<"tunnel-local-addr", "tunnel-remote-addr">>,
            {"tunnel-local-addr", "tunnel-remote-addr"},
            <<"interfaces", "gif_settings">>)

IfGre ==
    Records(<<"interfaces", "gre_settings">>, "Item",
            <<"tunnel-local-addr", "tunnel-remote-addr">>,
            {"tunnel-local-addr", "tunnel-remote-addr"},
            <<"interfaces", "gre_settings">>)

IfLagg ==
    Records(<<"interfaces", "lagg_settings">>, "Item",
            <<"descr">>, {"descr"}, <<"interfaces", "lagg_settings">>)

IfLoopback ==
    Records(<<"interfaces", "loopback_settings">>, "Item",
            <<"description">>,
            {"description"}, <<"interfaces", "loopback_settings">>)

IfNeighbor ==
    Records(<<"interfaces", "neighbor_settings">>, "Item",
            <<"ipaddress", "etheraddr">>,
            {"ipaddress", "etheraddr"}, <<"interfaces", "neighbor_settings">>)

IfVip ==
    Records(<<"interfaces", "vip_settings">>, "Item",
            <<"address", "interface", "mode">>,
            {"address", "interface", "mode"},
            <<"interfaces", "vip_settings">>)

IfVlan ==
    Records(<<"interfaces", "vlan_settings">>, "Item",
            <<"tag", "if">>, {"tag", "if"}, <<"interfaces", "vlan_settings">>)

IfVxlan ==
    Records(<<"interfaces", "vxlan_settings">>, "Item",
            <<"vxlanid", "vxlanlocal">>,
            {"vxlanid", "vxlanlocal"}, <<"interfaces", "vxlan_settings">>)

-----------------------------------------------------------------------------
(* Monit: managers/monit. *)

MonitAlert ==
    Records(<<"monit", "settings">>, "Alert",
            <<"recipient">>, {"recipient"}, <<"monit", "service">>)

MonitService ==
    Records(<<"monit", "settings">>, "Service",
            <<"name">>, {"name"}, <<"monit", "service">>)

MonitSettings ==
    Document(<<"monit", "settings">>, "monit.general",
             <<"monit", "service">>)

MonitTest ==
    Records(<<"monit", "settings">>, "Test",
            <<"name">>, {"name"}, <<"monit", "service">>)

-----------------------------------------------------------------------------
(* Routing: managers/routing. *)

RtGateway ==
    Records(<<"routing", "settings">>, "Gateway",
            <<"name">>, {"name", "interface"}, <<"routing", "settings">>)

RtRoute ==
    Records(<<"routes", "routes">>, "Route",
            <<"network", "gateway">>,
            {"network", "gateway"}, <<"routes", "routes">>)

-----------------------------------------------------------------------------
(* Other services: managers/services. *)

ChronyGeneral ==
    Document(<<"chrony", "general">>, "general", <<"chrony", "service">>)

CpZone ==
    Records(<<"captiveportal", "settings">>, "Zone",
            <<"description">>,
            {"description"}, <<"captiveportal", "service">>)

CronJob ==
    Records(<<"cron", "settings">>, "Job",
            <<"description">>, {"description"}, <<"cron", "service">>)

DdnsAccount ==
    Records(<<"dyndns", "accounts">>, "Item",
            <<"description">>,
            {"description", "hostnames", "checkip"}, <<"dyndns", "service">>)

DnsmasqBoot ==
    ListedWhole(Records(<<"dnsmasq", "settings">>, "Boot",
            <<"interface", "filename">>,
            {"filename"}, <<"dnsmasq", "service">>))

DnsmasqDomain ==
    Records(<<"dnsmasq", "settings">>, "Domain",
            <<"domain", "ip">>, {"domain", "ip"}, <<"dnsmasq", "service">>)

DnsmasqHost ==
    Records(<<"dnsmasq", "settings">>, "Host",
            <<"host", "domain">>,
            {"host", "domain"}, <<"dnsmasq", "service">>)

DnsmasqOption ==
    ListedWhole(Records(<<"dnsmasq", "settings">>, "Option",
            <<"interface", "option", "option6">>,
            {}, <<"dnsmasq", "service">>))

DnsmasqRange ==
    ListedWhole(Records(<<"dnsmasq", "settings">>, "Range",
            <<"interface", "start_addr">>,
            {"interface", "start_addr"}, <<"dnsmasq", "service">>))

DnsmasqSettings ==
    Document(<<"dnsmasq", "settings">>, "dnsmasq", <<"dnsmasq", "service">>)

DnsmasqTag ==
    Records(<<"dnsmasq", "settings">>, "Tag",
            <<"tag">>, {"tag"}, <<"dnsmasq", "service">>)

LldpdGeneral ==
    Document(<<"lldpd", "general">>, "general", <<"lldpd", "service">>)

MdnsRepeaterSettings ==
    Document(<<"mdnsrepeater", "settings">>, "mdnsrepeater",
             <<"mdnsrepeater", "service">>)

NetflowSettings ==
    Document(<<"diagnostics", "netflow">>, "netflow",
             <<"diagnostics", "netflow">>)

QemuGuestAgentSettings ==
    Document(<<"qemuguestagent", "settings">>, "qemuguestagent.general",
             <<"qemuguestagent", "service">>)

RadvdEntry ==
    ListedWhole(Records(<<"radvd", "settings">>, "Entry",
            <<"interface">>, {"interface"}, <<"radvd", "service">>))

SyslogDest ==
    Records(<<"syslog", "settings">>, "Destination",
            <<"description">>,
            {"description", "hostname"}, <<"syslog", "service">>)

-----------------------------------------------------------------------------
(* Traffic shaper: managers/shaper. *)

TsPipe ==
    Records(<<"trafficshaper", "settings">>, "Pipe",
            <<"description", "bandwidth", "bandwidthMetric">>,
            {"description", "bandwidth"}, <<"trafficshaper", "service">>)

TsQueue ==
    Records(<<"trafficshaper", "settings">>, "Queue",
            <<"description">>,
            {"description"}, <<"trafficshaper", "service">>)

TsRule ==
    Records(<<"trafficshaper", "settings">>, "Rule",
            <<"description", "interface", "proto">>,
            {"description", "interface"}, <<"trafficshaper", "service">>)

-----------------------------------------------------------------------------
(* Trust store: managers/trust. *)

TrustCa ==
    Records(<<"trust", "ca">>, "ca",
            <<"descr">>, {"descr"}, NoApplyEndpoint)

TrustCert ==
    Records(<<"trust", "cert">>, "cert",
            <<"descr">>, {"descr"}, NoApplyEndpoint)

-----------------------------------------------------------------------------
(* IPsec, OpenVPN and WireGuard: managers/vpn. *)

IpsecChild ==
    Records(<<"ipsec", "connections">>, "Child",
            <<"description">>, {"description"}, <<"ipsec", "service">>)

IpsecConn ==
    Records(<<"ipsec", "connections">>, "Connection",
            <<"description">>, {"description"}, <<"ipsec", "service">>)

IpsecKeypair ==
    Records(<<"ipsec", "key_pairs">>, "Item",
            <<"name">>, {"name"}, <<"ipsec", "service">>)

IpsecLocal ==
    Records(<<"ipsec", "connections">>, "Local",
            <<"description">>, {"description"}, <<"ipsec", "service">>)

IpsecPool ==
    Records(<<"ipsec", "pools">>, "pool",
            <<"name">>, {"name"}, <<"ipsec", "service">>)

IpsecPsk ==
    Records(<<"ipsec", "pre_shared_keys">>, "Item",
            <<"description">>, {"description"}, <<"ipsec", "service">>)

IpsecRemote ==
    Records(<<"ipsec", "connections">>, "Remote",
            <<"description">>, {"description"}, <<"ipsec", "service">>)

IpsecVti ==
    Records(<<"ipsec", "vti">>, "vti",
            <<"description">>, {"description"}, <<"ipsec", "service">>)

OvpnClientOverwrite ==
    Records(<<"openvpn", "clientoverwrites">>, "cso",
            <<"common_name">>, {"common_name"}, <<"openvpn", "service">>)

OvpnInstance ==
    Records(<<"openvpn", "instances">>, "instance",
            <<"description">>, {"description"}, <<"openvpn", "service">>)

WgClient ==
    Records(<<"wireguard", "client">>, "Client",
            <<"name">>, {"name"}, <<"wireguard", "service">>)

WgServer ==
    Records(<<"wireguard", "server">>, "Server",
            <<"name">>, {"name"}, <<"wireguard", "service">>)
=============================================================================
