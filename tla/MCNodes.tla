------------------------------- MODULE MCNodes -------------------------------
(***************************************************************************)
(* The hosts of a k3s cluster for TLC: three masters and two workers that  *)
(* are bootstrapped and upgraded (K3sUpgrade), or machines that are taken  *)
(* out of a cluster (Drain); the initial state says which is looked at.    *)
(* It also carries the sample documents on which TLC evaluates Config.     *)
(***************************************************************************)
EXTENDS K3sUpgrade, Drain, Config, TLC

\* Every server but master 1's may be lost.
MCReplaceable == Hosts \ {1}

MCMachines == 1..3

VARIABLE side

sideVars == <<side, nodeVars, drainVars>>

NoDrain ==
  /\ orphaned = {} /\ servers = Machines /\ registered = Machines /\ cordoned = {}
  /\ on = [p \in Pods |-> NoMachine] /\ phase = [p \in Pods |-> "unbound"] /\ needed = 0
  /\ dpc = "idle" /\ at = NoMachine /\ listed = {} /\ missed = {} /\ breaks = 0

SideInit ==
  /\ side \in {"hosts", "drain"}
  /\ NodesInit
  /\ IF side = "drain" THEN DrainInit ELSE NoDrain

SideNext ==
  \/ side = "hosts" /\ NodesNext /\ UNCHANGED <<side, drainVars>>
  \/ side = "drain" /\ DrainNext /\ UNCHANGED <<side, nodeVars>>

OnHosts(A) == side = "hosts" /\ A
OnDrain(A) == side = "drain" /\ A

\* The run goes on, the cluster works, and the operator runs the command again
\* while something is left to do.
SideFairness ==
  /\ WF_nodeVars(OnHosts(ApplyProgress))
  /\ WF_nodeVars(OnHosts(UpgradeSteps))
  /\ WF_nodeVars(OnHosts(ControllerSteps))
  /\ SF_nodeVars(OnHosts(ReRunApply))
  /\ SF_nodeVars(OnHosts(ReRunUpgrade))
  /\ WF_drainVars(OnDrain(StartDrain))
  /\ WF_drainVars(OnDrain(DrainSteps))
  /\ \A p \in Pods : WF_drainVars(OnDrain(PodSteps(p)))

SideSpec == SideInit /\ [][SideNext]_sideVars /\ SideFairness

\* Re-running apply and upgrade converges, and so does re-running the drain of
\* machines (README.md:129, "Re-running converges -- safe to interrupt").
NodesConverge ==
  /\ side = "hosts" => EventuallyUpgraded
  /\ side = "drain" => EventuallyDrained

-----------------------------------------------------------------------------
MCMatching ==
  [bucket |-> {"assets"}, hostname |-> {"example.com", "app.example.com"}, cdn |-> {"edge"}, ip |-> {"192.0.2.1"},
   pool |-> {"default"}, cluster |-> {"demo"}, taint |-> {"gpu"}, age |-> {"age1key"}, version |-> {"v1.31.4"}] @@
  ("bunny bucket" :> {"assets"}) @@ ("k3s version" :> {"v1.31.4+k3s1"}) @@
  ("minor version" :> {"1.31"}) @@ ("kumulo label" :> {"kumulo-managed"})

Off == [module |-> "none"]
Pool == [name |-> "default", flavor |-> "b3-8", count |-> 2, labels |-> {"tier"}, taints |-> Missing,
         autoscaling |-> Missing]
Common == [name |-> "demo", outputs |-> Missing, secrets |-> [sink |-> "none"], cdn |-> Missing, dns |-> Off,
           volumes |-> Off, object_storage |-> Off, worker_pools |-> <<Pool>>]
Clouds == [method |-> "clouds_yaml", region |-> "GRA11"]
Token == [method |-> "api_token", region |-> "hel1"]

K3sSample == Common @@
  [distro |-> "k3s", provider |-> "ovh", auth |-> Clouds, version |-> "v1.31.4+k3s1",
   network |-> [cidr |-> Net(10, 0, 0, 16), public_access |-> "nat"],
   api_server |-> [high_availability |-> TRUE, allowed_cidrs |-> <<Net(0, 0, 0, 0)>>],
   ssh |-> [public_key_path |-> "id.pub", allowed_cidrs |-> <<>>],
   masters |-> [flavor |-> "b3-8", count |-> 3, image |-> "debian"],
   addons |-> [cloud_controller_manager |-> TRUE, system_upgrade_controller |-> TRUE, cni |-> "cilium",
               csi |-> [enabled |-> TRUE, default_volume_type |-> Missing]],
   k3s |-> [extra_server_args |-> <<>>, extra_agent_args |-> <<>>]]
HetznerSample == [K3sSample EXCEPT !.provider = "hetzner", !.auth = Token]

MksSample == Common @@
  [distro |-> "ovh-mks", provider |-> "ovh", auth |-> Clouds, version |-> "v1.31.4",
   network |-> [cidr |-> Net(10, 0, 0, 16), nodes_subnet |-> Net(10, 0, 0, 17),
                load_balancers_subnet |-> Net(10, 0, 128, 17), gateway_model |-> Missing],
   ingress |-> [flavor_id |-> Missing, flavor |-> "small"]]

UksSample == Common @@
  [distro |-> "upcloud-uks", provider |-> "upcloud", auth |-> Token, version |-> "1.31", zone |-> "fi-hel1",
   plan |-> Missing, network |-> [cidr |-> Net(10, 2, 0, 24)], control_plane_ip_filter |-> Missing,
   storage_encryption |-> Missing, upgrade_strategy |-> "manual"]

GodaddyApex(target, ttl) ==
  [module |-> "godaddy", zone |-> "example.com", ttl |-> ttl, records |-> <<[name |-> "@", target |-> target]>>]
Cdn(host, place) ==
  [module |-> "bunny", name |-> "edge", tier |-> "standard",
   origin |-> IF place = "url" THEN [at |-> place, url |-> "https://origin"] ELSE [at |-> place],
   verify_origin_tls |-> FALSE, websockets |-> TRUE, cache |-> "smart", hostnames |-> <<host>>, force_ssl |-> TRUE,
   shield |-> Missing]

Scaling == [enabled |-> TRUE, min |-> 5, max |-> 1]
Managed(module, type) ==
  [module |-> module, managed |-> <<[name |-> "data", size_gb |-> 10, type |-> type, retain |-> TRUE, pvc |-> Missing]>>]
Store == [module |-> "ovh", buckets |-> <<>>]

Valid ==
  {K3sSample, HetznerSample, MksSample, UksSample,
   [MksSample EXCEPT !.worker_pools[1].autoscaling = Scaling],      \* min above max is taken
   [MksSample EXCEPT !.worker_pools = <<Pool, Pool>>],              \* and so are two pools of a name,
   [MksSample EXCEPT !.network.load_balancers_subnet = Net(10, 0, 64, 24)], \* subnets that overlap
   [UksSample EXCEPT !.zone = "elsewhere", !.network.cidr = Net(10, 1, 0, 24)], \* and unknown zones
   [MksSample EXCEPT !.dns = GodaddyApex("ingress", 600), !.cdn = Cdn("app.example.com", "ingress")],
   [K3sSample EXCEPT !.volumes = Managed("cinder", "classic")],
   [UksSample EXCEPT !.object_storage = Store,
      !.secrets = [sink |-> "sops", dir |-> "secrets", sops |-> [age_recipient |-> "age1key"]]]}

Invalid ==
  {[K3sSample EXCEPT !.masters.count = 2], [K3sSample EXCEPT !.auth = Token],
   [K3sSample EXCEPT !.volumes = Managed("hcloud", "classic")],
   [HetznerSample EXCEPT !.volumes = Managed("cinder", "classic")],
   [HetznerSample EXCEPT !.addons.csi.default_volume_type = "fast"],
   [K3sSample EXCEPT !.cdn = Cdn("app.example.com", "ingress")],
   [UksSample EXCEPT !.object_storage = Store],
   [MksSample EXCEPT !.dns = GodaddyApex("ingress", 599)], [MksSample EXCEPT !.dns = GodaddyApex("other.net", 600)],
   [MksSample EXCEPT !.dns = GodaddyApex("ingress", 600), !.cdn = Cdn("example.com", "url")],
   [MksSample EXCEPT !.network = Missing], [MksSample EXCEPT !.ingress.flavor_id = "uuid"],
   [MksSample EXCEPT !.network.nodes_subnet = Net(10, 1, 0, 17)],
   [UksSample EXCEPT !.network.cidr = Net(10, 1, 2, 24)], [UksSample EXCEPT !.network.cidr = Net(10, 0, 0, 8)],
   [UksSample EXCEPT !.network.cidr = Net(192, 0, 0, 8)], [UksSample EXCEPT !.network.cidr = Net(10, 2, 0, 30)],
   [UksSample EXCEPT !.control_plane_ip_filter = <<>>],
   [UksSample EXCEPT !.worker_pools[1].labels = {"kumulo-managed"}]}

\* Taken by the schema, refused by the provider's profile.
Inapplicable ==
  {[UksSample EXCEPT !.worker_pools[1].autoscaling = Scaling], [K3sSample EXCEPT !.worker_pools[1].autoscaling = Scaling],
   [K3sSample EXCEPT !.auth.region = "BHS5"], [HetznerSample EXCEPT !.auth.region = "GRA11"],
   [MksSample EXCEPT !.volumes = Managed("cinder", "fast")]}

ASSUME SamplesAreSorted ==
  /\ \A c \in Valid : ClusterConfig(c) /\ ValidateForProvider(c)
  /\ \A c \in Invalid : ~ ClusterConfig(c)
  /\ \A c \in Inapplicable : ClusterConfig(c) /\ ~ ValidateForProvider(c)

\* Two networks are nested or disjoint; no two ranges of the tables meet.
ASSUME NestedOrDisjoint ==
  LET Samples == [address : {0, 1, 2^(Width - 2), 2^(Width - 2) + 4, 2^(Width - 1) - 1, 2^Width - 1},
                  bits : {0, 1, 2, 3, Width - 3, Width - 2, Width}]
  IN  \A a, b \in Samples :
        Overlaps(a, b) = (\E x, y \in {a, b} : {x, y} = {a, b} /\ CidrRange(x)[1] <= CidrRange(y)[1] /\ CidrRange(y)[2] <= CidrRange(x)[2])

ASSUME TablesAreDisjoint ==
  \A a, b \in UpcloudExcluded \cup UksReserved \cup UNION {UtilityOf(UksZones[i]) : i \in DOMAIN UksZones} :
    a # b => ~ Overlaps(a, b)

\* Env names the variables that are set; their values do not matter but to say
\* which source a field came from.
Env(names, value) == [v \in names |-> value]
AppEnv == Env({"OS_AUTH_URL", "OS_REGION_NAME", "OS_APPLICATION_CREDENTIAL_ID", "OS_APPLICATION_CREDENTIAL_SECRET"}, "env")
UserEnv == Env({"OS_AUTH_URL", "OS_REGION_NAME", "OS_USERNAME", "OS_PASSWORD", "OS_PROJECT_NAME"}, "env")
FileRaw == Env({"auth_url", "username", "password", "project_name"}, "file")
Files == ("clouds.yaml" :> [default |-> [auth |-> FileRaw, region_name |-> "file"],
                            bare |-> [region_name |-> "file"], elsewhere |-> [auth |-> FileRaw]])

ASSUME CredentialsAreFound ==
  /\ LoadCredentials(AppEnv, <<>>).method = "application_credential"
  /\ LoadCredentials(UserEnv @@ ("OS_USER_DOMAIN_NAME" :> "ours"), Files).domains = <<"ours", "Default">>
  /\ LoadCredentials(<<>>, Files).user = "file"
  /\ Missing = LoadCredentials(UserEnv @@ ("OS_APPLICATION_CREDENTIAL_ID" :> ""), Files) \* set, though empty
  /\ Missing = LoadCredentials(Env({"OS_AUTH_URL"}, "env"), Files)    \* no fall back to the file
  /\ \A name \in {"bare", "elsewhere", "absent"} : Missing = LoadCredentials("OS_CLOUD" :> name, Files)
  /\ Missing = LoadCredentials("OS_CLIENT_CONFIG_FILE" :> "other.yaml", Files)

ASSUME CredentialsAreAskedFor ==
  /\ \A c \in Valid : RequiredVars(c) \subseteq ReadVars(c)
  /\ Applicable(UksSample, {"UPCLOUD_API_TOKEN"}) /\ ~ Applicable(MksSample, {"OVH_CLIENT_ID", "OVH_CLIENT_SECRET"})
  /\ Applicable(K3sSample, {}) /\ ReadVars(K3sSample) # {}           \* k3s asks for none of its provider's
=============================================================================
