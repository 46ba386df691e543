----------------------------- MODULE NodeServing -----------------------------
(***************************************************************************)
(* A node's way from the editor to a client: browsers that save a redacted *)
(* and possibly old copy (api/nodes.py), credentials regenerated           *)
(* meanwhile (api/nodes.py, api/subscription.py), and the public           *)
(* subscription, which reads the settings and the nodes with two queries.  *)
(*                                                                         *)
(* A request loads its rows without a lock, changes its copies, and waits  *)
(* for SQLite's write lock.  From its first write to its commit it holds   *)
(* that lock and nothing it reads or writes changes: flush, build, restart *)
(* and commit are one step here, and what can go wrong between them is     *)
(* ApplyPipeline's subject.  Between load and flush any other request may  *)
(* commit; the flush then writes the columns that the request has changed, *)
(* config_json as a whole, and the file is built from the request's own    *)
(* copies of the rows it has loaded.                                       *)
(*                                                                         *)
(* The health check that decides a change is followed where it stands      *)
(* alone, in the restart operation (RestartHealth): the operation lock     *)
(* keeps it and the changes apart.                                         *)
(***************************************************************************)
EXTENDS NodeConfig, RestartHealth, FiniteSetsExt

CONSTANTS
  NodeId,      \* primary keys
  Seeds,       \* the tables a run may start from
  Site,        \* the Settings row: [tls, server], both BOOLEAN
  Browser,     \* node editors
  Forms,       \* Forms[p]: what may stand in the form's fields
  Patches,     \* Patches[p]: config_json of a request that is not the editor's
  MaxChanges,  \* bound on the requests that change something; they are numbered from 1
  Absent       \* no row, no copy, no request

VARIABLES
  nodes,      \* the committed proxy_nodes table
  formal,     \* the rows from which the formal file was generated
  req,        \* req[k]: the session of request k between its load and its end
  shown,      \* shown[b]: the redacted row in b's editor
  fetch,      \* a client's GET /sub/{token}
  crossed,    \* history: the rows that another request changed between the load and the
              \* commit of the one that committed last
  retired,    \* history: the credentials that a change has replaced
  revoked,    \* history: the credentials that the last regenerate-all put out of use
  changes     \* requests begun

dataVars == <<nodes, formal, req, shown, fetch, crossed, retired, revoked, changes>>
vars == <<restartVars, dataVars>>

\* A credential is made by request k for row i (0: a new one), before the run by request 0.
Origin(v) == v[2][1]
Typed == Password(<<0, 0>>)     \* a password that the administrator types
Generated(v) == IsCredential(v) /\ v # Typed
Credentials(t) ==
  {v \in {Secret(t[i].config, place) : i \in DOMAIN t, place \in Place} : Generated(v)}
\* What clients are given of a table that can be rendered.
Served(t) ==
  {v \in UNION {{Proxy(n).secrets[j] : j \in DOMAIN Proxy(n).secrets} : n \in EnabledNodes(t)} :
     Generated(v)}

\* A row of proxy_nodes.
Column == {"protocol", "enabled", "listen_port", "config"}
IsRow(n) ==
  /\ n = [c \in Column |-> n[c]] /\ n.protocol \in Protocol /\ n.enabled \in BOOLEAN
  /\ \A k \in SecretKeys : Get(n.config, k, Null) # Redacted

\* Primary keys count from 1.
ASSUME NodeIdAssumption == IsFiniteSet(NodeId) /\ NodeId = 1 .. Cardinality(NodeId)
ASSUME BoundAssumption == MaxChanges \in Nat
\* A run starts from a table that was applied.
ASSUME SeedAssumption ==
  \A t \in Seeds :
    /\ DOMAIN t \subseteq NodeId /\ Builds(t, Site)
    /\ \A i \in DOMAIN t : IsRow(t[i])
    /\ \A v \in Credentials(t) : Origin(v) = 0
\* The editor's form has no field for a secret, and a secret that an administrator sends is
\* one of his own.
ASSUME EditAssumption ==
  \A p \in Protocol :
    /\ \A form \in Forms[p] : DOMAIN form \cap Place = {}
    /\ \A c \in Patches[p], place \in Place : ~Generated(Secret(c, place))

Running == {k \in 1 .. MaxChanges : req[k] # Absent}
NoRows == [i \in {} |-> Absent]
NoFetch == [at |-> "idle", revoked |-> {}, content |-> {}]

Init ==
  /\ RestartInit
  /\ nodes \in Seeds
  /\ formal = nodes
  /\ req = [k \in 1 .. MaxChanges |-> Absent]
  /\ shown = [b \in Browser |-> Absent]
  /\ fetch = NoFetch
  /\ crossed = {} /\ retired = {} /\ revoked = {}
  /\ changes = 0

------------------------------------------------------------------------------
(* Requests that change nodes, up to their first write: the rows they have *)
(* loaded, what they have made of them, the row to be inserted, and        *)
(* whether they issue a new address.                                       *)

This == changes + 1
Begin(loaded, want, insert, rotates) ==
  /\ changes < MaxChanges
  /\ changes' = This
  /\ req' = [req EXCEPT ![This] = [loaded |-> loaded, want |-> want, insert |-> insert,
                                   rotates |-> rotates]]
  /\ UNCHANGED <<restartVars, nodes, formal, shown, fetch, crossed, retired, revoked>>

\* The request makes n of row i.
Edit(i, n) == Begin([j \in {i} |-> nodes[i]], [j \in {i} |-> n], Absent, FALSE)

\* _validate_node: the node by itself, with a certificate.
Valid(n) == n.enabled => BuildsNode(n, [tls |-> TRUE])
\* ensure_ss2022_key_matches_method refuses a method it does not know, 422.
Keyable(p, c) == p = "shadowsocks" => KeyLength(MethodOf(c)) # 0
Keyed(p, c, g) == IF p = "shadowsocks" THEN EnsureKey(c, g) ELSE c

CreateNode(p, port, enabled, c) ==
  LET g == <<This, 0>>
      config == Merge(DefaultConfig(p, g), c)
      n == [protocol |-> p, enabled |-> enabled, listen_port |-> port,
            config |-> Keyed(p, config, g)]
  IN  Keyable(p, config) /\ Valid(n) /\ Begin(NoRows, NoRows, n, FALSE)

\* PUT: the fields sent make n of the row as loaded; config_json is merged into it.
UpdateNode(i, n, c) ==
  LET config == Merge(n.config, c)
      new == [n EXCEPT !.config = Keyed(n.protocol, config, <<This, i>>)]
  IN  Keyable(n.protocol, config) /\ Valid(new) /\ Edit(i, new)

PatchNode(i) == \E c \in Patches[nodes[i].protocol] : UpdateNode(i, nodes[i], c)

\* The drawer sends back every field of the copy it has opened with.
SaveEditor(b) ==
  LET s == shown[b]
  IN  /\ s # Absent /\ s.id \in DOMAIN nodes
      /\ \E form \in Forms[s.protocol] :
           UpdateNode(s.id, [nodes[s.id] EXCEPT !.enabled = s.enabled,
                                                !.listen_port = s.listen_port],
                      Submitted(s.protocol, s.config, form))

SetEnabled(i, enabled) == Edit(i, [nodes[i] EXCEPT !.enabled = enabled])

DeleteNode(i) == Begin([j \in {i} |-> nodes[i]], NoRows, Absent, FALSE)

WithNew(n, i) == [n EXCEPT !.config = Regenerate(n.protocol, @, <<This, i>>)]
RegenerateSecret(i) ==
  Regenerable(nodes[i].protocol, nodes[i].config) /\ Edit(i, WithNew(nodes[i], i))

\* (mutant) disabled nodes keep theirs.
RegenerateEnabled ==
  Begin(nodes, [i \in DOMAIN nodes |->
                  IF nodes[i].enabled THEN WithNew(nodes[i], i) ELSE nodes[i]], Absent, TRUE)
RegenerateAll ==
  /\ \A i \in DOMAIN nodes : Regenerable(nodes[i].protocol, nodes[i].config)
  /\ Begin(nodes, [i \in DOMAIN nodes |-> WithNew(nodes[i], i)], Absent, TRUE)

------------------------------------------------------------------------------
(* Flush, build, restart and commit.                                       *)

\* SQLite gives a new row the number after the largest there is: one that was deleted
\* may come back.
NextId == 1 + Max(DOMAIN nodes \cup {0})
NewIds(r) == IF r.insert = Absent THEN {} ELSE {NextId}

\* An UPDATE sets the columns in which the copy differs from what was loaded.
Updated(old, new, row) == [c \in Column |-> IF new[c] # old[c] THEN new[c] ELSE row[c]]
\* The table after the flush of request r ...
Written(r) ==
  [i \in (DOMAIN nodes \ (DOMAIN r.loaded \ DOMAIN r.want)) \cup NewIds(r) |->
     IF i \in NewIds(r) THEN r.insert
     ELSE IF i \in DOMAIN r.want THEN Updated(r.loaded[i], r.want[i], nodes[i])
     ELSE nodes[i]]
\* ... and as its session sees it: a row that it has loaded is not read again.
View(r) ==
  LET t == Written(r) IN [i \in DOMAIN t |-> IF i \in DOMAIN r.want THEN r.want[i] ELSE t[i]]

\* An UPDATE of a row that is gone fails.
RowsThere(r) == \A i \in DOMAIN r.want : r.want[i] # r.loaded[i] => i \in DOMAIN nodes
Crossed(r) == {i \in DOMAIN r.want \cap DOMAIN nodes : nodes[i] # r.loaded[i]}

\* What regenerate-all cannot replace: credentials of a row that was created after it had
\* listed the nodes, those in a row that another request has loaded and may still write
\* back, and one at a place that the row's protocol does not use.
Foreign(t) == {v \in {Secret(t[i].config, place) : i \in DOMAIN t, place \in Place} :
                 \E i \in DOMAIN t : \E place \in Place \ CredentialPlaces(t[i].protocol) :
                   v = Secret(t[i].config, place)}
Exempt(k) == Credentials([i \in DOMAIN nodes \ DOMAIN req[k].loaded |-> nodes[i]])
               \cup Foreign(req[k].loaded)
               \cup UNION {Credentials(req[q].loaded) : q \in Running \ {k}}

\* The write lock is free, the table builds, sing-box takes it.
Commit(k) ==
  LET r == req[k]
  IN  /\ r # Absent
      /\ RowsThere(r) /\ NewIds(r) \subseteq NodeId
      /\ Builds(View(r), Site)
      /\ nodes' = Written(r) /\ formal' = View(r)
      /\ crossed' = Crossed(r)
      /\ retired' = retired \cup (Credentials(nodes) \ Credentials(nodes'))
      /\ revoked' = IF r.rotates THEN (retired \cup Credentials(nodes)) \ Exempt(k) ELSE revoked
      /\ req' = [req EXCEPT ![k] = Absent]
      /\ UNCHANGED <<restartVars, shown, fetch, changes>>

\* Or a lock is not free in time, a row is gone, the table does not build, or a step of the
\* pipeline fails: table and file stay.
Fail(k) ==
  /\ req[k] # Absent
  /\ req' = [req EXCEPT ![k] = Absent]
  /\ UNCHANGED <<restartVars, nodes, formal, shown, fetch, crossed, retired, revoked, changes>>

\* POST /singbox/restart, `myproxy restart'.  Bound: it is tried once, first and by itself.
Restart ==
  /\ changes = 0 /\ fetch.at = "idle" /\ \A b \in Browser : shown[b] = Absent
  /\ Restarts \/ RestartRefused
  /\ changes' = MaxChanges
  /\ UNCHANGED <<nodes, formal, req, shown, fetch, crossed, retired, revoked>>

RestartGoesOn == Polls /\ UNCHANGED dataVars
RestartElse   == (Troubles \/ ComesBack \/ Returns) /\ UNCHANGED dataVars

------------------------------------------------------------------------------
(* Reads.                                                                  *)

Reads == UNCHANGED <<restartVars, nodes, formal, req, crossed, retired, revoked, changes>>

OpenEditor(b, i) ==
  /\ Reads /\ check = "idle" /\ shown[b] = Absent
  /\ LET n == nodes[i]
     IN  shown' = [shown EXCEPT ![b] =
           [id |-> i, protocol |-> n.protocol, enabled |-> n.enabled,
            listen_port |-> n.listen_port, config |-> Redact(n.config)]]
  /\ UNCHANGED fetch

\* After a save that succeeded, or by hand; it stays open after one that failed.
CloseEditor(b) ==
  Reads /\ shown[b] # Absent /\ shown' = [shown EXCEPT ![b] = Absent] /\ UNCHANGED fetch

\* public_subscription compares the token with the settings' ...
FetchSettings ==
  /\ Reads /\ check = "idle" /\ fetch.at = "idle"
  /\ fetch' = [at |-> "nodes", revoked |-> revoked, content |-> {}]
  /\ UNCHANGED shown

\* ... and reads the nodes with a second query: another change may lie between.
FetchNodes ==
  /\ Reads /\ fetch.at = "nodes"
  /\ fetch' = IF Renders(nodes, Site) THEN [fetch EXCEPT !.at = "done", !.content = Served(nodes)]
              ELSE NoFetch
  /\ UNCHANGED shown

FetchEnds == Reads /\ fetch.at = "done" /\ fetch' = NoFetch /\ UNCHANGED shown

------------------------------------------------------------------------------
Changes ==
  \/ \E p \in Protocol : \E enabled \in BOOLEAN, c \in Patches[p] : CreateNode(p, 3, enabled, c)
  \/ \E b \in Browser : SaveEditor(b)
  \/ RegenerateAll
  \/ \E i \in DOMAIN nodes :
       \/ PatchNode(i) \/ DeleteNode(i) \/ RegenerateSecret(i)
       \/ \E enabled \in BOOLEAN : SetEnabled(i, enabled)

Next ==
  \/ Changes
  \/ \E k \in Running : Commit(k) \/ Fail(k)
  \/ Restart \/ RestartGoesOn \/ RestartElse
  \/ \E b \in Browser, i \in DOMAIN nodes : OpenEditor(b, i)
  \/ \E b \in Browser : CloseEditor(b)
  \/ FetchSettings \/ FetchNodes \/ FetchEnds

Spec == Init /\ [][Next]_vars
\* The thread that polls is scheduled and the clock goes on.
FairSpec == Spec /\ WF_vars(RestartGoesOn)

------------------------------------------------------------------------------
(* Properties.                                                             *)

\* Types.  The placeholder of a secret is stored at most inside an object `obfs' that a row
\* did not have (nodes.py:41), never as the row's own password or UUID.
TypeOK ==
  /\ RestartTypeOK
  /\ DOMAIN nodes \subseteq NodeId /\ DOMAIN formal = DOMAIN nodes
  /\ \A i \in DOMAIN nodes : IsRow(nodes[i]) /\ IsRow(formal[i])
  /\ \A k \in Running : k <= changes /\ DOMAIN req[k].want \subseteq DOMAIN req[k].loaded
  /\ crossed \subseteq NodeId /\ fetch.at \in {"idle", "nodes", "done"}

\* The formal file has an inbound with protocol, port, credentials, ALPN and transports of a
\* node's proxy exactly for the nodes that the subscription hands out: subscription.py reads
\* the committed rows, singbox_config.py read the copies of the request that was applied,
\* and two requests may have crossed; only a row on which they met may differ.
ClientsMatchServer ==
  \A i \in DOMAIN nodes \ crossed :
    /\ formal[i].enabled = nodes[i].enabled
    /\ nodes[i].enabled => Proxy(nodes[i]) = Inbound(formal[i])

\* An enabled node can be rendered for the clients, but for the two options that only the
\* subscription reads and refuses (with one of them out of range the public address answers
\* 503 for all nodes), and but for a row on which two requests met: one may enable it while
\* the other stores a config in it that nobody builds as long as it is disabled.
OnlyClientOptionsRefused ==
  \A i \in DOMAIN nodes \ crossed :
    LET c == nodes[i].config
    IN  \/ ~nodes[i].enabled \/ RendersNode(nodes[i])
        \/ ~InRange(Get(c, "handshake_timeout", Number(15)), 1, 60)
        \/ ~InRange(Get(c, "request_timeout", Number(10000)), 1000, 60000)

\* A credential that was replaced comes back only by a request that had loaded it before:
\* never by the copy in an editor, however old, which has only placeholders to send.
ReplacedSecretsStayReplaced ==
  [][\A v \in Credentials(nodes') \cap retired :
       v \in Credentials(nodes) \/
         \E k \in Running : req'[k] = Absent /\ v \in Credentials(req[k].loaded)]_vars

\* Under the address that a regenerate-all has issued no client is ever served a credential
\* that it put out of use (all there had been, also those of disabled nodes, except what
\* Exempt names), although token and nodes are read with two queries and requests cross.
NewAddressNewSecrets == fetch.at = "done" => fetch.content \cap fetch.revoked = {}

\* The health check reads the listeners of the formal file, the status page those of the
\* rows: on any host a restart that waits for nothing more is one after which the page
\* shows every enabled node running, unless requests have crossed.
StatusAgrees ==
  crossed = {} =>
    \A listening \in SUBSET ExpectedListeners(formal) :
      (listening = ExpectedListeners(formal)) =
        (\A n \in EnabledNodes(nodes) : RuntimeStatus(n, TRUE, listening) = "running")
==============================================================================
