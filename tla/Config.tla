------------------------------- MODULE Config -------------------------------
(***************************************************************************)
(* What a cluster config must satisfy before a command acts on it: the     *)
(* schema of each distro (packages/core/src/config/schema.ts and the       *)
(* config.ts of the three distros), the filters that relate its fields,    *)
(* and the checks of the provider profile that apply makes next.  A        *)
(* decoded document is a record; an optional key that is not there is      *)
(* Missing.                                                                *)
(*                                                                         *)
(* A network is [address, bits]; an address is a number of Width bits.     *)
(* The code has Width = 32.  TLC's integers have 31 bits, so TLC takes 30: *)
(* the addresses are then counted in blocks of four.                       *)
(***************************************************************************)
EXTENDS Integers, Sequences, FiniteSets

CONSTANTS Width, Missing,
          Matching \* pattern -> the strings that match it

ASSUME WidthAssumption ==
  /\ Width \in 24..32
  /\ \A n \in 0..Width : 2^n \in Nat \ {0}

-----------------------------------------------------------------------------
\* Networks.

Cidrs == [address : 0..2^Width - 1, bits : 0..Width]

\* The first and the last address of a network.
CidrRange(cidr) ==
  LET size == 2^(Width - cidr.bits)
      first == (cidr.address \div size) * size
  IN  <<first, first + size - 1>>

Overlaps(cidr, other) ==
  /\ CidrRange(cidr)[1] <= CidrRange(other)[2]
  /\ CidrRange(cidr)[2] >= CidrRange(other)[1]

\* The network a.b.c.0/bits.
Net(a, b, c, bits) ==
  [address |-> a * 2^(Width - 8) + b * 2^(Width - 16) + c * 2^(Width - 24), bits |-> bits]

UpcloudExcluded == {Net(100, 64, 0, 10), Net(127, 0, 0, 8), Net(224, 0, 0, 4), Net(169, 254, 0, 16)}
UksReserved == {Net(172, 31, 240, 24), Net(10, 128, 0, 12), Net(192, 168, 0, 16), Net(10, 33, 128, 22)}

\* The i-th zone of the table has the utility network 10.i.0.0/16.
UksZones == <<"fi-hel1", "uk-lon1", "us-chi1", "de-fra1", "nl-ams1", "fi-hel2", "es-mad1",
              "us-sjo1", "us-nyc1", "sg-sin1", "pl-waw1", "au-syd1", "se-sto1", "dk-cph1", "no-svg1">>
UtilityOf(zone) == {Net(10, i, 0, 16) : i \in {j \in DOMAIN UksZones : UksZones[j] = zone}}

IsUpcloudCidr(cidr) ==
  /\ cidr.bits \in 8..29
  /\ \A range \in UpcloudExcluded \cup UksReserved : ~ Overlaps(cidr, range)

IsOutsideZoneUtilityRange(c) ==
  \A range \in UtilityOf(c.zone) : ~ Overlaps(c.network.cidr, range)

IsSubnetsWithinCidr(network) ==
  \A subnet \in {network.nodes_subnet, network.load_balancers_subnet} :
    /\ CidrRange(subnet)[1] >= CidrRange(network.cidr)[1]
    /\ CidrRange(subnet)[2] <= CidrRange(network.cidr)[2]

-----------------------------------------------------------------------------
\* The fields.

NonEmpty == STRING \ {""}
Opt(S) == S \cup {Missing}
NamesDiffer(items) == Cardinality({items[i].name : i \in DOMAIN items}) = Len(items)

Providers == {"ovh", "generic", "hetzner", "upcloud"}
Auths == [method : {"application_credential", "clouds_yaml", "env", "api_token"}, region : NonEmpty]
Autoscalings == [enabled : BOOLEAN, min : Nat, max : Nat \ {0}]
WorkerPools(names, labels, taints) ==
  [name : names, flavor : NonEmpty, count : Nat, labels : Opt(labels), taints : Opt(Seq(taints)),
   autoscaling : Opt(Autoscalings)]

Nowhere == [module : {"none"}]
Dnss == Nowhere \cup
  [module : {"ovh", "hetzner", "bunny", "godaddy"}, zone : NonEmpty, ttl : Nat \ {0},
   records : Seq([name : NonEmpty, target : NonEmpty])]

Pvcs == [namespace : NonEmpty, access_modes : Seq({"ReadWriteOnce", "ReadWriteMany", "ReadOnlyMany"})]
ManagedVolumes(types) ==
  [name : NonEmpty, size_gb : Nat \ {0}, type : types, retain : BOOLEAN, pvc : Opt(Pvcs)]
VolumesOf(modules, types) == Nowhere \cup [module : modules, managed : Seq(ManagedVolumes(types))]

Buckets ==
  [name : Matching["bucket"], region : NonEmpty, versioning : BOOLEAN, encryption : BOOLEAN, retain : BOOLEAN]
BunnyBuckets ==
  [name : Matching["bunny bucket"], region : {"DE", "NY", "SG", "UK", "SE", "LA", "JH", "SYD"},
   tier : Opt({"standard", "edge"}), retain : BOOLEAN]
ObjectStorages ==
  Nowhere \cup [module : {"ovh"}, buckets : Seq(Buckets)] \cup [module : {"bunny"}, buckets : Seq(BunnyBuckets)]

RateLimits ==
  [name : NonEmpty, path_prefix : NonEmpty, requests : Nat \ {0}, window : Nat \ {0},
   block_for : Nat \ {0}, key : {"ip"}]
AccessLists ==
  [name : NonEmpty, type : {"cidr", "ip", "asn", "country"}, action : {"allow", "block", "challenge", "log"},
   entries : Seq(NonEmpty) \ {<<>>}]
Shields ==
  [plan : {"basic", "advanced", "business", "enterprise"},
   waf : [enabled : BOOLEAN, mode : {"log", "block"}],
   ddos : [sensitivity : {"off", "low", "medium", "high", "challenge"}],
   bot_detection : [mode : {"log", "block"}, sensitivity : {"low", "medium", "high"}],
   rate_limits : {r \in Seq(RateLimits) : NamesDiffer(r)},
   access_lists : {a \in Seq(AccessLists) : NamesDiffer(a)}]

\* Defaults are filled in by the decoding: a decoded CDN has every key but shield.
BunnyCdns ==
  [module : {"bunny"}, name : Matching["cdn"], tier : {"standard", "volume"},
   origin : [at : {"ingress"}] \cup [at : {"url"}, url : NonEmpty], verify_origin_tls : BOOLEAN, websockets : BOOLEAN,
   cache : {"smart", "origin"},
   hostnames : {h \in Seq(Matching["hostname"]) :
                  Len(h) \in 1..10 /\ \A i, j \in DOMAIN h : h[i] = h[j] => i = j},
   force_ssl : BOOLEAN, shield : Opt(Shields)]

Secrets ==
  [sink : {"none"}] \cup [sink : {"sops"}, dir : NonEmpty, sops : [age_recipient : Matching["age"]]]

\* commonClusterFields, less the fields a distro overrides.
CommonFields(c) ==
  /\ c.name \in NonEmpty
  /\ c.outputs \in Opt([format : {"yaml", "json"}])
  /\ c.auth \in Auths
  /\ c.secrets \in Secrets
  /\ c.cdn \in Opt(Nowhere \cup BunnyCdns)

-----------------------------------------------------------------------------
\* The filters that relate one field to another.

HasKey(c, key) == key \in DOMAIN c
CdnHostnames(c) ==
  IF c.cdn # Missing /\ c.cdn.module = "bunny" THEN {c.cdn.hostnames[i] : i \in DOMAIN c.cdn.hostnames} ELSE {}
OriginIsIngress(c) == c.cdn # Missing /\ c.cdn.module = "bunny" /\ c.cdn.origin.at = "ingress"

IsSecretsRequiredForObjectStorage(c) == c.object_storage.module # "none" => c.secrets.sink # "none"

IsAuthMethodConsistentWithProvider(c) ==
  c.auth.method \in IF c.provider \in {"hetzner", "upcloud"}
                      THEN {"api_token"} ELSE {"application_credential", "clouds_yaml", "env"}

IsVolumesModuleConsistentWithProvider(c) ==
  /\ c.volumes.module = "hcloud" => c.provider = "hetzner"
  /\ c.volumes.module = "cinder" => c.provider # "hetzner"

IsCdnApexRequiresBunnyDns(c) ==
  HasKey(c.dns, "zone") /\ c.dns.zone \in CdnHostnames(c) => c.dns.module = "bunny"

IsGodaddyTtlMinimum(c) == c.dns.module = "godaddy" => c.dns.ttl >= 600

\* An apex record would be a CNAME unless its target is an address or a name
\* that stands for one.
IsGodaddyApexNotCname(c) ==
  c.dns.module = "godaddy" =>
    \A i \in DOMAIN c.dns.records :
      c.dns.records[i].name \in {"@", c.dns.zone} =>
        c.dns.records[i].target \in {"api_server", "ingress", "cdn"} \cup Matching["ip"]

IsCdnOriginUrlRequired(c) == ~ OriginIsIngress(c)

IsFlavorUnambiguous(c) == c.ingress # Missing => Missing \in {c.ingress.flavor, c.ingress.flavor_id}
IsIngressPlaceable(c) == c.ingress # Missing => c.network # Missing
IsCdnIngressOriginPlaceable(c) == OriginIsIngress(c) => c.ingress # Missing

IsCsiVolumeTypeSupportedByProvider(c) ==
  c.provider = "hetzner" => c.addons.csi.default_volume_type = Missing

-----------------------------------------------------------------------------
\* The three distros.

\* A record of labels is the set of its keys.
Labels == SUBSET STRING
UksLabels == {l \in SUBSET STRING : l \cap Matching["kumulo label"] = {}}

IsOddCount(count) == count >= 1 /\ count % 2 = 1

K3sFields(c) ==
  /\ c.version \in Matching["k3s version"]
  /\ c.network \in [cidr : Cidrs, public_access : {"bastionless", "nat"}]
  /\ c.api_server \in [high_availability : BOOLEAN, allowed_cidrs : Seq(Cidrs)]
  /\ c.ssh \in [public_key_path : NonEmpty, allowed_cidrs : Seq(Cidrs)]
  /\ c.masters \in [flavor : NonEmpty, count : {n \in Nat : IsOddCount(n)}, image : NonEmpty]
  /\ c.addons \in [cloud_controller_manager : BOOLEAN, system_upgrade_controller : BOOLEAN,
                   csi : [enabled : BOOLEAN, default_volume_type : Opt(NonEmpty)],
                   cni : {"flannel", "cilium"}]
  /\ c.k3s \in [extra_server_args : Seq(STRING), extra_agent_args : Seq(STRING)]

K3sClusterConfig(c) ==
  /\ c.distro = "k3s" /\ c.provider \in Providers
  /\ CommonFields(c) /\ K3sFields(c)
  /\ c.worker_pools \in Seq(WorkerPools(NonEmpty, Labels, STRING))
  /\ c.dns \in Dnss
  /\ c.volumes \in VolumesOf({"cinder", "hcloud"}, NonEmpty)
  /\ c.object_storage \in ObjectStorages
  /\ IsSecretsRequiredForObjectStorage(c)
  /\ IsAuthMethodConsistentWithProvider(c)
  /\ IsVolumesModuleConsistentWithProvider(c)
  /\ IsCsiVolumeTypeSupportedByProvider(c)
  /\ IsCdnApexRequiresBunnyDns(c) /\ IsCdnOriginUrlRequired(c)
  /\ IsGodaddyTtlMinimum(c) /\ IsGodaddyApexNotCname(c)

MksNetworks ==
  {n \in [cidr : Cidrs, nodes_subnet : Cidrs, load_balancers_subnet : Cidrs,
          gateway_model : Opt({"s", "m", "l", "xl", "2xl", "3xl"})] : IsSubnetsWithinCidr(n)}
MksIngresses == [flavor_id : Opt(NonEmpty), flavor : Opt(NonEmpty)]

MksClusterConfig(c) ==
  /\ c.distro = "ovh-mks" /\ c.provider = "ovh"
  /\ CommonFields(c)
  /\ c.version \in Matching["version"]
  /\ c.worker_pools \in Seq(WorkerPools(NonEmpty, Labels, STRING))
  /\ c.dns \in Dnss
  /\ c.volumes \in VolumesOf({"cinder"}, NonEmpty)
  /\ c.object_storage \in ObjectStorages
  /\ c.network \in Opt(MksNetworks)
  /\ c.ingress \in Opt(MksIngresses)
  /\ IsSecretsRequiredForObjectStorage(c)
  /\ IsAuthMethodConsistentWithProvider(c)
  /\ IsIngressPlaceable(c) /\ IsFlavorUnambiguous(c)
  /\ IsCdnApexRequiresBunnyDns(c) /\ IsCdnIngressOriginPlaceable(c)
  /\ IsGodaddyTtlMinimum(c) /\ IsGodaddyApexNotCname(c)

UpcloudNetworks == [cidr : {cidr \in Cidrs : IsUpcloudCidr(cidr)}]
UpcloudPools == WorkerPools(Matching["pool"], UksLabels, Matching["taint"])
UpcloudVolumes == VolumesOf({"upcloud"}, {"maxiops", "standard", "hdd"})
UksObjectStorages ==
  ObjectStorages \cup
  [module : {"upcloud"}, region : NonEmpty, buckets : Seq([name : Matching["bucket"], retain : BOOLEAN])]

UpcloudUksClusterConfig(c) ==
  /\ c.distro = "upcloud-uks" /\ c.provider = "upcloud"
  /\ CommonFields(c)
  /\ c.name \in Matching["cluster"]
  /\ c.version \in Matching["minor version"]
  /\ c.zone \in NonEmpty /\ c.plan \in Opt(NonEmpty)
  /\ c.network \in UpcloudNetworks
  /\ c.worker_pools \in Seq(UpcloudPools)
  /\ c.dns \in Dnss
  /\ c.volumes \in UpcloudVolumes
  /\ c.object_storage \in UksObjectStorages
  /\ c.control_plane_ip_filter \in Opt(Seq(Cidrs) \ {<<>>})
  /\ c.storage_encryption \in Opt(BOOLEAN)
  /\ c.upgrade_strategy \in Opt({"manual", "rolling-update"})
  /\ IsOutsideZoneUtilityRange(c)
  /\ IsSecretsRequiredForObjectStorage(c)
  /\ IsAuthMethodConsistentWithProvider(c)
  /\ IsCdnApexRequiresBunnyDns(c) /\ IsCdnOriginUrlRequired(c)
  /\ IsGodaddyTtlMinimum(c) /\ IsGodaddyApexNotCname(c)

\* The union of the three: a config that none of them takes is ConfigInvalid.
ClusterConfig(c) == K3sClusterConfig(c) \/ MksClusterConfig(c) \/ UpcloudUksClusterConfig(c)

-----------------------------------------------------------------------------
\* What apply and scale ask of the provider's profile next; delete and upgrade
\* do not.

Capabilities ==
  [distro \in {"k3s", "ovh-mks", "upcloud-uks"} |->
     [autoscaling |-> distro = "ovh-mks", selectableCni |-> distro = "k3s"]]

ValidateAutoscaling(c) ==
  \/ Capabilities[c.distro].autoscaling
  \/ \A i \in DOMAIN c.worker_pools :
       c.worker_pools[i].autoscaling # Missing => ~ c.worker_pools[i].autoscaling.enabled

\* Only k3s configs have addons; the others are passed on as flannel.
ValidateCni(c) ==
  Capabilities[c.distro].selectableCni \/ c.distro # "k3s" \/ c.addons.cni # "cilium"

CrossDistro(c) == ValidateAutoscaling(c) /\ ValidateCni(c)

HetznerLocations == {"fsn1", "nbg1", "hel1", "ash", "hil", "sin"}
ValidateHetznerConfig(c) == c.auth.region \in HetznerLocations /\ CrossDistro(c)

OctaviaRegions == {"GRA5", "GRA7", "GRA9", "GRA11", "SBG5", "SBG7", "DE1", "UK1", "WAW1"}
ValidateOvhConfig(c) ==
  /\ c.distro = "k3s" /\ c.api_server.high_availability => c.auth.region \in OctaviaRegions
  /\ c.volumes.module # "none" =>
       \A i \in DOMAIN c.volumes.managed :
         c.volumes.managed[i].type \in {"classic", "high-speed", "high-speed-gen2"}
  /\ CrossDistro(c)

\* UpCloud has no profile of its own and takes the generic one.
ValidateForProvider(c) ==
  CASE c.provider = "ovh" -> ValidateOvhConfig(c)
    [] c.provider = "hetzner" -> ValidateHetznerConfig(c)
    [] OTHER -> CrossDistro(c)

-----------------------------------------------------------------------------
\* The environment variables: those a config reads (--show-env lists them), and
\* those whose absence stops apply and delete before the first request.

OsVars == {"OS_AUTH_URL", "OS_REGION_NAME", "OS_APPLICATION_CREDENTIAL_ID", "OS_USERNAME", "OS_PROJECT_NAME",
           "OS_USER_DOMAIN_NAME", "OS_PROJECT_DOMAIN_NAME", "OS_CLIENT_CONFIG_FILE", "OS_CLOUD",
           "OS_APPLICATION_CREDENTIAL_SECRET", "OS_PASSWORD"}
OvhVars == {"OVH_CLIENT_ID", "OVH_CLIENT_SECRET", "OVH_SERVICE_NAME"}
DistroVars ==
  [distro \in {"k3s", "ovh-mks", "upcloud-uks"} |->
     IF distro = "k3s" THEN OsVars ELSE IF distro = "ovh-mks" THEN OvhVars ELSE {"UPCLOUD_API_TOKEN"}]

DnsVars ==
  [none |-> {}, ovh |-> {"OVH_CLIENT_ID", "OVH_CLIENT_SECRET"}, hetzner |-> {"HETZNER_DNS_TOKEN"},
   bunny |-> {"BUNNYNET_API_KEY"}, godaddy |-> {"GODADDY_API_TOKEN"}]
VolumesVars ==
  [none |-> {}, cinder |-> OsVars, hcloud |-> {"HCLOUD_TOKEN"}, upcloud |-> {"UPCLOUD_API_TOKEN"}]
ObjectStorageVars ==
  [none |-> {}, ovh |-> OvhVars, upcloud |-> {"UPCLOUD_API_TOKEN"}, bunny |-> {"BUNNYNET_API_KEY"}]
CdnVars(c) == IF c.cdn # Missing /\ c.cdn.module = "bunny" THEN {"BUNNYNET_API_KEY"} ELSE {}

ReadVars(c) ==
  UNION {IF c.provider = "hetzner" THEN {"HCLOUD_TOKEN"} ELSE DistroVars[c.distro],
         DnsVars[c.dns.module], VolumesVars[c.volumes.module],
         ObjectStorageVars[c.object_storage.module], CdnVars(c)}

RequiredVars(c) ==
  UNION {IF c.distro = "k3s" THEN {} ELSE DistroVars[c.distro],
         DnsVars[c.dns.module], ObjectStorageVars[c.object_storage.module], CdnVars(c)}

\* present: the variables that are set.
MissingCredentials(c, present) == RequiredVars(c) \ present

Applicable(c, present) == ClusterConfig(c) /\ ValidateForProvider(c) /\ MissingCredentials(c, present) = {}

-----------------------------------------------------------------------------
\* The OpenStack credentials.  env is a function from the variables that are
\* set, files one from the paths that can be read to the clouds in them; raw
\* fields and clouds have optional keys.

FromRaw(raw, region) ==
  LET Given(fields) == \A f \in fields : f \in DOMAIN raw /\ raw[f] # ""
      OrDefault(f) == IF f \in DOMAIN raw THEN raw[f] ELSE "Default"
      application == {"auth_url", "application_credential_id", "application_credential_secret"}
      password == {"auth_url", "username", "password", "project_name"}
  IN  CASE "application_credential_id" \in DOMAIN raw /\ Given(application) ->
             [method |-> "application_credential", authUrl |-> raw["auth_url"], region |-> region,
              user |-> raw["application_credential_id"], secret |-> raw["application_credential_secret"]]
        [] "application_credential_id" \notin DOMAIN raw /\ Given(password) ->
             [method |-> "password", authUrl |-> raw["auth_url"], region |-> region,
              user |-> raw["username"], secret |-> raw["password"], project |-> raw["project_name"],
              domains |-> <<OrDefault("user_domain_name"), OrDefault("project_domain_name")>>]
        [] OTHER -> Missing

EnvFields ==
  [auth_url |-> "OS_AUTH_URL", application_credential_id |-> "OS_APPLICATION_CREDENTIAL_ID",
   application_credential_secret |-> "OS_APPLICATION_CREDENTIAL_SECRET", username |-> "OS_USERNAME",
   password |-> "OS_PASSWORD", project_name |-> "OS_PROJECT_NAME",
   user_domain_name |-> "OS_USER_DOMAIN_NAME", project_domain_name |-> "OS_PROJECT_DOMAIN_NAME"]

Or(f, key, default) == IF key \in DOMAIN f THEN f[key] ELSE default

CredentialsFromEnv(env) ==
  IF Or(env, "OS_REGION_NAME", "") = "" THEN Missing
  ELSE FromRaw([f \in {g \in DOMAIN EnvFields : EnvFields[g] \in DOMAIN env} |-> env[EnvFields[f]]],
               env["OS_REGION_NAME"])

CredentialsFromCloudsYaml(clouds, name) ==
  IF name \notin DOMAIN clouds \/ Or(clouds[name], "region_name", "") = "" THEN Missing
  ELSE FromRaw(Or(clouds[name], "auth", <<>>), clouds[name]["region_name"])

LoadCredentials(env, files) ==
  LET path == Or(env, "OS_CLIENT_CONFIG_FILE", "clouds.yaml")
  IN  CASE "OS_AUTH_URL" \in DOMAIN env -> CredentialsFromEnv(env)
        [] "OS_AUTH_URL" \notin DOMAIN env /\ path \in DOMAIN files ->
             CredentialsFromCloudsYaml(files[path], Or(env, "OS_CLOUD", "default"))
        [] OTHER -> Missing
=============================================================================
