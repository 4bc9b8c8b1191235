------------------------------ MODULE RerunsMC ------------------------------
(***************************************************************************)
(* Reruns over the whole catalogue.                                        *)
(***************************************************************************)
EXTENDS Reruns, Catalogue, TLC

\* Record ids are interchangeable.
Symmetric == Permutations(Ids)

\* Every manager of managers/ that is one of these declarations.
RecordManagers ==
    {AcmeAccount, AcmeAction, AcmeCertificate, AcmeValidation, AuthGroup,
     AuthUser, Kea4Peer, Kea4Reservation, Kea4Subnet, Kea6Reservation,
     Kea6Subnet, UbAcl, UbDot, UbForward, UbHostAlias, UbHostOverride,
     FwAlias, FwCategory, FwDnat, FwFilter, FwGroup, FwNpt, FwOneToOne,
     FwSourceNat, IfBridge, IfGif, IfGre, IfLagg, IfLoopback, IfNeighbor,
     IfVip, IfVlan, IfVxlan, MonitAlert, MonitService, MonitTest, RtGateway,
     RtRoute, CpZone, CronJob, DdnsAccount, DnsmasqBoot, DnsmasqDomain,
     DnsmasqHost, DnsmasqOption, DnsmasqRange, DnsmasqTag, RadvdEntry,
     SyslogDest, TsPipe, TsQueue, TsRule, TrustCa, TrustCert, IpsecChild,
     IpsecConn, IpsecKeypair, IpsecLocal, IpsecPool, IpsecPsk, IpsecRemote,
     IpsecVti, OvpnClientOverwrite, OvpnInstance, WgClient, WgServer}

DocumentManagers ==
    {AcmeSettings, CrowdSecSettings, Kea4Settings, Kea6Settings,
     DnscryptProxyGeneral, UbSettings, IdsSettings, MonitSettings,
     ChronyGeneral, DnsmasqSettings, LldpdGeneral, MdnsRepeaterSettings,
     NetflowSettings, QemuGuestAgentSettings}

MCManagers == RecordManagers \cup DocumentManagers
MCNoApply == NoApplyEndpoint

\* The list() overrides: searchEntry, searchRange, searchBoot and searchOption
\* filter the display values of these fields.
MCDisplayFields == {"interface", "option", "option6"}

\* The match keys that the captured schemas (docs/api/data) show selected
\* in an empty record: "in", "any", "Kbit", "ip".
MCDefaultedFields == {"direction", "protocol", "bandwidthMetric", "proto"}

\* The developer guide's table of controllers: "N/A (immediate)".
GuideImmediate == {<<"auth", "user">>, <<"auth", "group">>}

\* On the word of the classes alone ("Groups apply immediately", and so on): the guide
\* names firewall/group/reconfigure, firewall/category/reconfigure and
\* trust/settings/reconfigure for these.
ClassImmediate ==
    {<<"trust", "ca">>, <<"trust", "cert">>,
     <<"firewall", "group">>, <<"firewall", "category">>}

MCImmediate == GuideImmediate \cup ClassImmediate

\* AcmeServiceManager: "After CRUD on accounts/validations/certificates/actions ...
\* call reconfigure once".
MCHandedTo ==
    [endpoint \in {<<"acmeclient", controller>> :
                controller \in {"accounts", "validations", "certificates", "actions"}}
        |-> <<"acmeclient", "service">>]
=============================================================================
