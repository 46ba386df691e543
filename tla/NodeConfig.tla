------------------------------ MODULE NodeConfig ------------------------------
(***************************************************************************)
(* What the panel does with one node's config_json: defaults and           *)
(* regenerated credentials (services/credentials.py), the redacted copy    *)
(* the API shows (core/logging.py) and the merge of what comes back        *)
(* (api/nodes.py), the sing-box inbound (services/singbox_config.py), the  *)
(* proxy of the subscription (services/subscription.py), the listeners the *)
(* health check and the status page expect (services/network_health.py,    *)
(* services/system_status.py).                                             *)
(*                                                                         *)
(* A config is a function from the keys present to values.  A value is a   *)
(* pair or a triple that begins with its kind; `g' tells one generated     *)
(* credential from another.  An object stands only at the first level.     *)
(***************************************************************************)
EXTENDS Integers

Text(s)     == <<"text", s>>
Number(i)     == <<"int", i>>
Bool(b)     == <<"bool", b>>
Duration(u) == <<"duration", u>>       \* by its unit
Password(g) == <<"password", g>>       \* at least 20 characters
ObfsPassword(g) == <<"obfs", g>>       \* another one, made in the same call
Uuid(g)     == <<"uuid", g>>
Key(len, g) == <<"key", g, len>>       \* Base64 of len bytes
Object(f)   == <<"object", f>>
Null        == <<"null">>

Kind(v) == v[1]
IsCredential(v) == Kind(v) \in {"password", "obfs", "uuid", "key"}
IsObject(v)     == Kind(v) = "object"
IsString(v)     == IsCredential(v) \/ Kind(v) \in {"text", "duration"}
InRange(v, lo, hi) == Kind(v) = "int" /\ v[2] \in lo..hi
Get(c, k, default) == IF k \in DOMAIN c THEN c[k] ELSE default

Protocol == {"hysteria2", "tuic", "shadowsocks"}
Method128 == "2022-blake3-aes-128-gcm"
Method256 == "2022-blake3-aes-256-gcm"
MethodChacha == "2022-blake3-chacha20-poly1305"
\* SS2022_METHOD_KEY_LENGTHS
KeyLength(m) == CASE m = Text(Method128) -> 16
                  [] m \in {Text(Method256), Text(MethodChacha)} -> 32
                  [] OTHER -> 0
MethodOf(c) == Get(c, "method", Text(Method128))

\* The keys of the object `obfs', none where the config has no object there.
Obfs(c) == LET v == Get(c, "obfs", Null) IN IF IsObject(v) THEN v[2] ELSE [k \in {} |-> Null]
\* Where a secret stands in a config: at two keys, and in the object `obfs'.
Place == {"password", "uuid", "obfs"}
Secret(c, place) == IF place = "obfs" THEN Get(Obfs(c), "password", Null) ELSE Get(c, place, Null)

\* The entries of f, and those of g for the other keys.
Over(f, g) == [k \in DOMAIN f \cup DOMAIN g |-> IF k \in DOMAIN f THEN f[k] ELSE g[k]]

------------------------------------------------------------------------------
(* Credentials.                                                            *)

FreshCredentials(p, c, g) ==
  CASE p = "hysteria2" ->
         [password |-> Password(g),
          obfs |-> Object(Over([type |-> Text("salamander"), password |-> ObfsPassword(g)], Obfs(c)))]
    [] p = "tuic" -> [uuid |-> Uuid(g), password |-> Password(g)]
    [] p = "shadowsocks" -> [password |-> Key(KeyLength(MethodOf(c)), g)]

CredentialPlaces(p) == CASE p = "hysteria2"   -> {"password", "obfs"}
                         [] p = "tuic"        -> {"uuid", "password"}
                         [] p = "shadowsocks" -> {"password"}

\* dict(config.get("obfs") or {}) and the table of methods raise for anything else.
Regenerable(p, c) ==
  CASE p = "hysteria2" -> LET v == Get(c, "obfs", Null)
                          IN  IsObject(v) \/ v \in {Null, Text(""), Number(0), Bool(FALSE)}
    [] p = "tuic" -> TRUE
    [] p = "shadowsocks" -> KeyLength(MethodOf(c)) # 0
Regenerate(p, c, g) == Over(FreshCredentials(p, c, g), c)

\* Without the timeouts that are written out with the builder's own default.
DefaultConfig(p, g) == Regenerate(p,
  CASE p = "hysteria2" -> [user |-> Text("admin"), handshake_timeout |-> Number(15)]
    [] p = "tuic" -> [congestion_control |-> Text("cubic"), heartbeat |-> Duration("s"),
                      zero_rtt_handshake |-> Bool(FALSE), request_timeout |-> Number(10000)]
    [] p = "shadowsocks" -> [method |-> Text(Method128), udp |-> Bool(TRUE)], g)

\* A Shadowsocks key whose length is not the method's is replaced.
EnsureKey(c, g) ==
  LET len == KeyLength(MethodOf(c))  v == Get(c, "password", Null)
  IN  IF Kind(v) = "key" /\ v[3] = len THEN c ELSE Over([password |-> Key(len, g)], c)

------------------------------------------------------------------------------
(* What the API shows, and the merge of an edited copy.                    *)

SecretKeys == {"password", "uuid"}
Redacted   == Text("[REDACTED]")
\* redact_text finds a UUID in any string.
RedactText(v) == IF Kind(v) = "uuid" THEN Text("[REDACTED UUID]") ELSE v
Hidden(f) == [k \in DOMAIN f |-> IF k \in SecretKeys THEN Redacted ELSE RedactText(f[k])]
\* (mutant) only the keys of the first level are hidden.
RedactTopLevel(c) == Hidden(c)
Redact(c) ==
  [k \in DOMAIN c |-> IF k \notin SecretKeys /\ IsObject(c[k]) THEN Object(Hidden(c[k][2]))
                      ELSE Hidden(c)[k]]

\* (mutant) the placeholder is taken for a value.
MergeAll(base, updates) == Over(updates, base)
Given(u) == {k \in DOMAIN u : u[k] # Redacted}
\* An object is merged into an object; where there is none it is stored as it was sent, with
\* the placeholders in it.
Merge(base, updates) ==
  Over([k \in Given(updates) |->
          LET u == updates[k]  old == Get(base, k, Null)
          IN  IF IsObject(u) /\ IsObject(old)
              THEN Object(Over([j \in Given(u[2]) |-> u[2][j]], old[2])) ELSE u],
       base)

\* The node editor of the frontend: every key it was shown, with the form's fields.
Submitted(p, shown, form) ==
  LET fixed ==
    CASE p = "hysteria2" ->
           [obfs |-> Object(Over([type |-> Text("salamander")], Obfs(shown))),
            ignore_client_bandwidth |-> Bool(form["up_mbps"] = Null /\ form["down_mbps"] = Null)]
      [] p = "tuic" -> [zero_rtt_handshake |-> Bool(FALSE)]
      [] OTHER -> [k \in {} |-> Null]
  IN  Over(form, Over(fixed, shown))

------------------------------------------------------------------------------
(* The sing-box inbound.  Builds: no ConfigBuildError.                     *)

\* A credential of the length the builder asks for, where a key is required.
LongString(c, place) == IsCredential(Secret(c, place))
UserNamed(c) == LET u == Get(c, "user", Text("admin")) IN IsString(u) /\ u # Text("")
Durations(c, ks) == \A k \in ks : Kind(Get(c, k, Duration("s"))) = "duration"
Boolean(c, k) == Kind(Get(c, k, Bool(TRUE))) = "bool"

HasBandwidth(c) == \E k \in {"up_mbps", "down_mbps"} : Get(c, k, Null) # Null
IgnoresBandwidth(c) == Get(c, "ignore_client_bandwidth", Bool(~HasBandwidth(c))) = Bool(TRUE)
BandwidthAgrees(c) == /\ Boolean(c, "ignore_client_bandwidth")
                      /\ ~(HasBandwidth(c) /\ IgnoresBandwidth(c))

BuildsHysteria2(c) ==
  /\ LongString(c, "password") /\ LongString(c, "obfs")
  /\ Get(Obfs(c), "type", Null) = Text("salamander")
  /\ UserNamed(c) /\ Durations(c, {"udp_timeout"})
  /\ \A k \in {"up_mbps", "down_mbps"} :
       LET v == Get(c, k, Null) IN v = Null \/ (Kind(v) = "int" /\ v[2] > 0)
  /\ BandwidthAgrees(c)

TuicDurations(c) == Durations(c, {"heartbeat", "auth_timeout", "udp_timeout"})
\* (mutant) zero_rtt_handshake is not looked at.
TuicOptionsLoose(c) == TuicDurations(c) /\ UserNamed(c)
TuicOptions(c) ==
  /\ TuicDurations(c) /\ UserNamed(c) /\ Boolean(c, "zero_rtt_handshake")
  /\ Get(c, "congestion_control", Text("cubic")) \in {Text("bbr"), Text("cubic"), Text("new_reno")}
BuildsTuic(c) ==
  Kind(Get(c, "uuid", Null)) = "uuid" /\ LongString(c, "password") /\ TuicOptions(c)

BuildsShadowsocks(c) ==
  /\ KeyLength(MethodOf(c)) # 0
  /\ LET v == Get(c, "password", Null) IN Kind(v) = "key" /\ v[3] = KeyLength(MethodOf(c))
  /\ Durations(c, {"udp_timeout", "tcp_keep_alive", "tcp_keep_alive_interval"})
  /\ Boolean(c, "udp")

\* `site' is the Settings row: tls, whether both certificate paths are set.
BuildsNode(n, site) ==
  CASE n.protocol = "hysteria2"   -> BuildsHysteria2(n.config) /\ site.tls
    [] n.protocol = "tuic"        -> BuildsTuic(n.config) /\ site.tls
    [] n.protocol = "shadowsocks" -> BuildsShadowsocks(n.config)

\* What a client has to present to each protocol.
Secrets(p, c) == CASE p = "hysteria2"   -> <<Secret(c, "password"), Secret(c, "obfs")>>
                   [] p = "tuic"        -> <<Secret(c, "uuid"), Secret(c, "password")>>
                   [] p = "shadowsocks" -> <<Secret(c, "password")>>

\* `network' is left out for both transports.
\* (mutant) the option udp is read the other way round.
NetworkInverted(c) == IF Get(c, "udp", Bool(TRUE)) = Bool(TRUE) THEN {"tcp"} ELSE {"tcp", "udp"}
Network(c) == IF Get(c, "udp", Bool(TRUE)) = Bool(TRUE) THEN {"tcp", "udp"} ELSE {"tcp"}

\* The inbound of a node, by what a client can see of it.
Inbound(n) ==
  [type |-> n.protocol, port |-> n.listen_port, secrets |-> Secrets(n.protocol, n.config),
   method |-> IF n.protocol = "shadowsocks" THEN MethodOf(n.config) ELSE Null,
   alpn |-> IF n.protocol = "shadowsocks" THEN {} ELSE {"h3"},
   network |-> IF n.protocol = "shadowsocks" THEN Network(n.config) ELSE {"udp"},
   bbr |-> n.protocol = "hysteria2" /\ IgnoresBandwidth(n.config)]

EnabledNodes(t) == {t[i] : i \in {j \in DOMAIN t : t[j].enabled}}

Builds(t, site) ==
  /\ \A n \in EnabledNodes(t) : BuildsNode(n, site)
  /\ \A i, j \in DOMAIN t :
       t[i].enabled /\ t[j].enabled /\ t[i].listen_port = t[j].listen_port => i = j

------------------------------------------------------------------------------
(* The subscription.                                                       *)

RendersNode(n) ==
  CASE n.protocol = "hysteria2" ->
         /\ "password" \in DOMAIN n.config /\ "password" \in DOMAIN Obfs(n.config)
         /\ BandwidthAgrees(n.config)
         /\ InRange(Get(n.config, "handshake_timeout", Number(15)), 1, 60)
    [] n.protocol = "tuic" ->
         /\ "password" \in DOMAIN n.config /\ Kind(Get(n.config, "uuid", Null)) = "uuid"
         /\ Boolean(n.config, "zero_rtt_handshake")
         /\ Kind(Get(n.config, "heartbeat", Duration("s"))) # "text"     \* int() raises
         /\ InRange(Get(n.config, "request_timeout", Number(10000)), 1000, 60000)
    [] n.protocol = "shadowsocks" ->
         "password" \in DOMAIN n.config /\ Boolean(n.config, "udp")

\* One node that cannot be rendered fails the whole answer.
Renders(t, site) == site.server /\ \A n \in EnabledNodes(t) : RendersNode(n)

\* The proxy entry of a node, by what the server can see of it.
Proxy(n) ==
  LET c == n.config
  IN  [type |-> n.protocol, port |-> n.listen_port,
       secrets |-> CASE n.protocol = "hysteria2"   -> <<c["password"], Obfs(c)["password"]>>
                     [] n.protocol = "tuic"        -> <<c["uuid"], c["password"]>>
                     [] n.protocol = "shadowsocks" -> <<c["password"]>>,
       method |-> IF n.protocol = "shadowsocks" THEN MethodOf(c) ELSE Null,
       alpn |-> IF n.protocol \in {"hysteria2", "tuic"} THEN {"h3"} ELSE {},
       network |-> IF n.protocol \in {"hysteria2", "tuic"} THEN {"udp"}
                   ELSE {"tcp"} \cup IF Get(c, "udp", Bool(TRUE)) = Bool(TRUE) THEN {"udp"} ELSE {},
       bbr |-> n.protocol = "hysteria2" /\ IgnoresBandwidth(c)]

------------------------------------------------------------------------------
(* Listeners.                                                              *)

\* network_health.expected_listeners, of the formal file: what a restart waits for.
ExpectedListeners(t) ==
  UNION {{<<w, Inbound(n).port>> : w \in Inbound(n).network} : n \in EnabledNodes(t)}

\* network_health.expected_transports, of the row: what the status page looks for.
\* (mutant) the option udp is not looked at.
TransportsOfType(n) == IF n.protocol = "shadowsocks" THEN {"tcp", "udp"} ELSE {"udp"}
ExpectedTransports(n) ==
  IF n.protocol \in {"hysteria2", "tuic"} THEN {"udp"}
  ELSE IF Get(n.config, "udp", Bool(TRUE)) = Bool(TRUE) THEN {"tcp", "udp"} ELSE {"tcp"}

\* system_status._node_runtime_status, for a host whose /proc/net can be read.
RuntimeStatus(n, running, listening) ==
  IF ~n.enabled THEN "disabled" ELSE IF ~running THEN "stopped"
  ELSE IF \A w \in ExpectedTransports(n) : <<w, n.listen_port>> \in listening THEN "running"
  ELSE "degraded"
==============================================================================
