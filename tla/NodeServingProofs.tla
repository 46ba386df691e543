-------------------------- MODULE NodeServingProofs --------------------------
(* The theorems of RestartHealthProofs hold where the restart is one part; *)
(* tables, copies and credentials where requests cross.                    *)
EXTENDS NodeServing, RestartHealthProofs, FiniteSetTheorems

\* A request that begins is an edit of a row, a new row, a row less, or new credentials for all.
LEMMA ChangesBegin ==
  ASSUME Changes
  PROVE  \E loaded, want, insert, rotates : Begin(loaded, want, insert, rotates)
<1>1. ASSUME NEW i, NEW n, Edit(i, n) PROVE \E l, w, t, r : Begin(l, w, t, r)
  BY <1>1 DEF Edit
<1>2. ASSUME NEW i, NEW n, NEW c, UpdateNode(i, n, c) PROVE \E l, w, t, r : Begin(l, w, t, r)
  BY <1>1, <1>2 DEF UpdateNode
<1> QED BY <1>1, <1>2 DEF Changes, CreateNode, SaveEditor, RegenerateAll, PatchNode, SetEnabled,
                          DeleteNode, RegenerateSecret

\* Every step is one of the check or leaves its variables alone.
LEMMA StepIsARestartStep == Next => [RestartNext]_restartVars
<1>1. Changes => UNCHANGED restartVars
  BY ChangesBegin DEF Begin
<1>2. ASSUME NEW k \in Running, Commit(k) \/ Fail(k) PROVE UNCHANGED restartVars
  BY <1>2 DEF Commit, Fail
<1>3. FetchSettings \/ FetchNodes \/ FetchEnds => UNCHANGED restartVars
  BY DEF FetchSettings, FetchNodes, FetchEnds, Reads
<1>4. ASSUME NEW b, CloseEditor(b) \/ \E i \in DOMAIN nodes : OpenEditor(b, i)
      PROVE  UNCHANGED restartVars
  BY <1>4 DEF OpenEditor, CloseEditor, Reads
<1>5. Restart \/ RestartGoesOn \/ RestartElse => RestartNext
  BY DEF Restart, RestartGoesOn, RestartElse, RestartNext
<1> QED BY <1>1, <1>2, <1>3, <1>4, <1>5 DEF Next

\* Whatever changes, editors and clients do, the restart operation behaves as RestartHealth
\* says: what is proved of it holds in the composition.
THEOREM ServingImplementsRestart == Spec => RestartSpec
<1>1. Init => RestartInit
  BY DEF Init
<1>2. [Next]_vars => [RestartNext]_restartVars
  BY StepIsARestartStep DEF vars
<1> QED BY <1>1, <1>2, PTL DEF Spec, RestartSpec

\* A restart of the composition that reports success was served by one process through its
\* stability window.
THEOREM ServingSeesCrashes == Spec => NoCrashMissed
  BY ServingImplementsRestart, CrashesAreSeen

------------------------------------------------------------------------------
(* What an operation on a config does to its secrets.                      *)

ConfigOK(c) == \A k \in SecretKeys : Get(c, k, Null) # Redacted
\* A secret of d is the one of c at the same place, or made by request k, or not generated.
Follows(d, c, k) == \A place \in Place :
  \/ Secret(d, place) = Secret(c, place)
  \/ ~Generated(Secret(d, place))
  \/ Origin(Secret(d, place)) = k

LEMMA NotRedacted ==
  /\ Null # Redacted /\ ~Generated(Null) /\ ~IsObject(Null)
  /\ \A g : Password(g) # Redacted /\ Uuid(g) # Redacted /\ ObfsPassword(g) # Redacted
  /\ \A g, len : Key(len, g) # Redacted
  BY DEF Null, Redacted, Text, Password, Uuid, ObfsPassword, Key, Generated, IsCredential, Kind, IsObject

LEMMA Origins ==
  ASSUME NEW k \in Nat, k # 0, NEW i
  PROVE  LET g == <<k, i>>
         IN  /\ \A v \in {Password(g), Uuid(g), ObfsPassword(g)} : Generated(v) /\ Origin(v) = k
             /\ \A len : Generated(Key(len, g)) /\ Origin(Key(len, g)) = k
<1> USE DEF Origin, Generated, IsCredential, Kind, Typed
<1>1. Generated(Password(<<k, i>>)) /\ Origin(Password(<<k, i>>)) = k BY DEF Password
<1>2. Generated(Uuid(<<k, i>>)) /\ Origin(Uuid(<<k, i>>)) = k BY DEF Uuid, Password
<1>3. Generated(ObfsPassword(<<k, i>>)) /\ Origin(ObfsPassword(<<k, i>>)) = k
  BY DEF ObfsPassword, Password
<1>4. \A len : Generated(Key(len, <<k, i>>)) /\ Origin(Key(len, <<k, i>>)) = k BY DEF Key, Password
<1> QED BY <1>1, <1>2, <1>3, <1>4

\* The secret at a place is found by the key it stands at.
LEMMA SecretOver ==
  ASSUME NEW f, NEW g
  PROVE  LET o == Over(f, g)
         IN  /\ \A k : Get(o, k, Null) = IF k \in DOMAIN f THEN f[k] ELSE Get(g, k, Null)
             /\ \A place \in SecretKeys :
                  Secret(o, place) = IF place \in DOMAIN f THEN f[place] ELSE Secret(g, place)
             /\ "obfs" \notin DOMAIN f => Secret(o, "obfs") = Secret(g, "obfs")
             /\ "obfs" \in DOMAIN f /\ ~IsObject(f["obfs"]) => Secret(o, "obfs") = Null
             /\ "obfs" \in DOMAIN f /\ IsObject(f["obfs"]) =>
                  Secret(o, "obfs") = Get(f["obfs"][2], "password", Null)
<1> DEFINE o == Over(f, g)
<1>1. \A k : Get(o, k, Null) = IF k \in DOMAIN f THEN f[k] ELSE Get(g, k, Null)
  BY DEF Over, Get
<1>2. \A place \in SecretKeys : \A c : Secret(c, place) = Get(c, place, Null)
  BY DEF SecretKeys, Secret
<1>3. \A c : Secret(c, "obfs") = Get(Obfs(c), "password", Null) BY DEF Secret
<1>4. \A c : ~IsObject(Get(c, "obfs", Null)) => Obfs(c) = [k \in {} |-> Null] BY DEF Obfs
<1>5. \A c : IsObject(Get(c, "obfs", Null)) => Obfs(c) = Get(c, "obfs", Null)[2] BY DEF Obfs
<1>6. Get([k \in {} |-> Null], "password", Null) = Null BY DEF Get
<1>7. Get(o, "obfs", Null) = Get(g, "obfs", Null) => Obfs(o) = Obfs(g) BY DEF Obfs
<1> HIDE DEF o
<1> QED BY <1>1, <1>2, <1>3, <1>4, <1>5, <1>6, <1>7 DEF o

\* regenerate_node_credentials replaces every credential that the protocol has, and no other.
LEMMA RegenerateReplaces ==
  ASSUME NEW p \in Protocol, NEW c, ConfigOK(c), NEW k \in Nat, k # 0, NEW i
  PROVE  LET d == Regenerate(p, c, <<k, i>>)
         IN  /\ ConfigOK(d)
             /\ \A place \in CredentialPlaces(p) :
                  Generated(Secret(d, place)) /\ Origin(Secret(d, place)) = k
             /\ \A place \in Place \ CredentialPlaces(p) : Secret(d, place) = Secret(c, place)
             /\ "password" \in CredentialPlaces(p)
<1> DEFINE g == <<k, i>>
           f == FreshCredentials(p, c, g)
           d == Over(f, c)
<1>1. Regenerate(p, c, g) = d BY DEF Regenerate
<1>2. CASE p = "hysteria2"
  <2> DEFINE ob == Over([type |-> Text("salamander"), password |-> ObfsPassword(g)], Obfs(c))
  <2>1. /\ DOMAIN f = {"password", "obfs"} /\ f["password"] = Password(g)
        /\ IsObject(f["obfs"]) /\ f["obfs"][2] = ob
    BY <1>2 DEF FreshCredentials, IsObject, Kind, Object
  <2>2. Get(ob, "password", Null) = ObfsPassword(g) BY DEF Get, Over
  <2> HIDE DEF f, ob, g
  <2>3. Secret(d, "password") = Password(g) /\ Secret(d, "obfs") = ObfsPassword(g)
        /\ Secret(d, "uuid") = Secret(c, "uuid")
        /\ Get(d, "password", Null) = Password(g) /\ Get(d, "uuid", Null) = Get(c, "uuid", Null)
    BY <2>1, <2>2, SecretOver DEF SecretKeys
  <2>4. CredentialPlaces(p) = {"password", "obfs"} BY <1>2 DEF CredentialPlaces
  <2> HIDE DEF d
  <2> QED BY <1>1, <2>3, <2>4, Origins, NotRedacted DEF ConfigOK, SecretKeys, Place, g
<1>3. CASE p = "tuic"
  <2>1. DOMAIN f = {"password", "uuid"} /\ f["password"] = Password(g) /\ f["uuid"] = Uuid(g)
    BY <1>3 DEF FreshCredentials
  <2> HIDE DEF f, g
  <2>3. Secret(d, "password") = Password(g) /\ Secret(d, "obfs") = Secret(c, "obfs")
        /\ Secret(d, "uuid") = Uuid(g)
        /\ Get(d, "password", Null) = Password(g) /\ Get(d, "uuid", Null) = Uuid(g)
    BY <2>1, SecretOver DEF SecretKeys
  <2>4. CredentialPlaces(p) = {"password", "uuid"} BY <1>3 DEF CredentialPlaces
  <2> HIDE DEF d
  <2> QED BY <1>1, <2>3, <2>4, Origins, NotRedacted DEF ConfigOK, SecretKeys, Place, g
<1>4. CASE p = "shadowsocks"
  <2> DEFINE len == KeyLength(MethodOf(c))
  <2>1. DOMAIN f = {"password"} /\ f["password"] = Key(len, g)
    BY <1>4 DEF FreshCredentials
  <2> HIDE DEF f, g, len
  <2>3. Secret(d, "password") = Key(len, g) /\ Secret(d, "obfs") = Secret(c, "obfs")
        /\ Secret(d, "uuid") = Secret(c, "uuid")
        /\ Get(d, "password", Null) = Key(len, g) /\ Get(d, "uuid", Null) = Get(c, "uuid", Null)
    BY <2>1, SecretOver DEF SecretKeys
  <2>4. CredentialPlaces(p) = {"password"} BY <1>4 DEF CredentialPlaces
  <2> HIDE DEF d
  <2> QED BY <1>1, <2>3, <2>4, Origins, NotRedacted DEF ConfigOK, SecretKeys, Place, g
<1> QED BY <1>2, <1>3, <1>4 DEF Protocol

\* A config whose generated secrets are all made by request k.
New(c, k) == \A place \in Place : Generated(Secret(c, place)) => Origin(Secret(c, place)) = k
\* No generated secret is sent.
NoneBack(u) == \A place \in Place : ~Generated(Secret(u, place))

LEMMA DefaultConfigIs ==
  ASSUME NEW p \in Protocol, NEW k \in Nat, k # 0, NEW i
  PROVE  LET d == DefaultConfig(p, <<k, i>>) IN ConfigOK(d) /\ New(d, k)
<1> DEFINE base == CASE p = "hysteria2" -> [user |-> Text("admin"), handshake_timeout |-> Number(15)]
    [] p = "tuic" -> [congestion_control |-> Text("cubic"), heartbeat |-> Duration("s"),
                      zero_rtt_handshake |-> Bool(FALSE), request_timeout |-> Number(10000)]
    [] p = "shadowsocks" -> [method |-> Text(Method128), udp |-> Bool(TRUE)]
<1>1. DOMAIN base \cap Place = {}
  <2>1. CASE p = "hysteria2" BY <2>1 DEF Place
  <2>2. CASE p = "tuic" BY <2>2 DEF Place
  <2>3. CASE p = "shadowsocks" BY <2>3 DEF Place
  <2> QED BY <2>1, <2>2, <2>3 DEF Protocol
<1>2. DefaultConfig(p, <<k, i>>) = Regenerate(p, base, <<k, i>>) BY DEF DefaultConfig
<1> HIDE DEF base
<1>3. \A place \in Place : Get(base, place, Null) = Null BY <1>1 DEF Get
<1>4. Obfs(base) = [j \in {} |-> Null] BY <1>3, NotRedacted DEF Obfs, Place
<1>5. \A place \in Place : Secret(base, place) = Null
  BY <1>3, <1>4 DEF Secret, Get, Place
<1>6. ConfigOK(base) BY <1>3, NotRedacted DEF ConfigOK, SecretKeys, Place
<1> DEFINE d == Regenerate(p, base, <<k, i>>)
<1>7. /\ ConfigOK(d)
      /\ \A place \in CredentialPlaces(p) :
           Generated(Secret(d, place)) /\ Origin(Secret(d, place)) = k
      /\ \A place \in Place \ CredentialPlaces(p) : Secret(d, place) = Secret(base, place)
  BY <1>6, RegenerateReplaces
<1> HIDE DEF d
<1>8. New(d, k) BY <1>5, <1>7, NotRedacted DEF New
<1> QED BY <1>2, <1>7, <1>8 DEF d

LEMMA KeyedIs ==
  ASSUME NEW p \in Protocol, NEW c, ConfigOK(c), NEW k \in Nat, k # 0, NEW i
  PROVE  LET d == Keyed(p, c, <<k, i>>) IN ConfigOK(d) /\ Follows(d, c, k)
<1> DEFINE d == Keyed(p, c, <<k, i>>)
           f == [password |-> Key(KeyLength(MethodOf(c)), <<k, i>>)]
           o == Over(f, c)
<1>1. d = c \/ d = o BY DEF Keyed, EnsureKey
<1>2. /\ DOMAIN f = {"password"} /\ Generated(f["password"]) /\ Origin(f["password"]) = k
      /\ f["password"] # Redacted
  BY Origins, NotRedacted
<1> HIDE DEF f, d
<1>3. /\ Secret(o, "password") = f["password"] /\ Secret(o, "uuid") = Secret(c, "uuid")
      /\ Secret(o, "obfs") = Secret(c, "obfs")
      /\ Get(o, "password", Null) = f["password"] /\ Get(o, "uuid", Null) = Get(c, "uuid", Null)
  BY <1>2, SecretOver DEF SecretKeys
<1> HIDE DEF o
<1>4. ConfigOK(o) BY <1>2, <1>3 DEF ConfigOK, SecretKeys
<1>5. Follows(o, c, k) BY <1>2, <1>3 DEF Follows, Place
<1>6. Follows(c, c, k) BY DEF Follows
<1> QED BY <1>1, <1>4, <1>5, <1>6 DEF d

\* A merge stores what was sent, where it is no placeholder, or keeps what was there: an object
\* that is stored as it was sent has no generated secret either.
LEMMA MergeKeeps ==
  ASSUME NEW c, NEW u, ConfigOK(c), NoneBack(u), NEW k
  PROVE  ConfigOK(Merge(c, u)) /\ Follows(Merge(c, u), c, k)
<1> DEFINE f == [j \in Given(u) |->
                   IF IsObject(u[j]) /\ IsObject(Get(c, j, Null))
                   THEN Object(Over([l \in Given(u[j][2]) |-> u[j][2][l]], Get(c, j, Null)[2]))
                   ELSE u[j]]
           m == Over(f, c)
<1>1. Merge(c, u) = m BY DEF Merge
<1>2. \A h : ~Generated(Object(h)) /\ Object(h) # Redacted /\ IsObject(Object(h)) /\ Object(h)[2] = h
  BY DEF Object, Generated, IsCredential, IsObject, Kind, Redacted, Text
<1>3. DOMAIN f = Given(u) OBVIOUS
<1>4. \A j \in Given(u) : j \in DOMAIN u /\ u[j] # Redacted /\ Get(u, j, Null) = u[j]
  BY DEF Given, Get
<1>5. ASSUME NEW place \in SecretKeys, place \in Given(u)
      PROVE  ~Generated(f[place]) /\ f[place] # Redacted
  <2>1. ~Generated(u[place]) BY <1>4, <1>5 DEF NoneBack, Secret, SecretKeys, Place
  <2>2. f[place] = u[place] \/ \E h : f[place] = Object(h) BY <1>5
  <2> QED BY <1>2, <1>4, <1>5, <2>1, <2>2
<1>6. ASSUME "obfs" \in Given(u), IsObject(f["obfs"])
      PROVE  LET s == Get(f["obfs"][2], "password", Null) IN ~Generated(s) \/ s = Secret(c, "obfs")
  <2>1. ASSUME IsObject(u["obfs"]) PROVE ~Generated(Get(u["obfs"][2], "password", Null))
    BY <1>4, <1>6, <2>1 DEF NoneBack, Secret, Place, Obfs
  <2>2. CASE IsObject(u["obfs"]) /\ IsObject(Get(c, "obfs", Null))
    <3> DEFINE h == [l \in Given(u["obfs"][2]) |-> u["obfs"][2][l]]
               old == Get(c, "obfs", Null)[2]
    <3>1. f["obfs"] = Object(Over(h, old)) BY <1>6, <2>2
    <3>2. Secret(c, "obfs") = Get(old, "password", Null) BY <2>2 DEF Secret, Obfs
    <3>3. \A l \in DOMAIN h : h[l] = Get(u["obfs"][2], l, Null) BY DEF Get, Given
    <3> HIDE DEF h, old, f
    <3>4. Get(Over(h, old), "password", Null) =
            IF "password" \in DOMAIN h THEN h["password"] ELSE Get(old, "password", Null)
      BY DEF Over, Get
    <3> QED BY <1>2, <2>1, <2>2, <3>1, <3>2, <3>3, <3>4
  <2>3. CASE ~(IsObject(u["obfs"]) /\ IsObject(Get(c, "obfs", Null)))
    <3>1. f["obfs"] = u["obfs"] BY <1>6, <2>3
    <3> HIDE DEF f
    <3> QED BY <1>6, <2>1, <3>1
  <2> QED BY <2>2, <2>3
<1> HIDE DEF f
<1>7. /\ \A j : Get(m, j, Null) = IF j \in DOMAIN f THEN f[j] ELSE Get(c, j, Null)
      /\ \A place \in SecretKeys :
           Secret(m, place) = IF place \in DOMAIN f THEN f[place] ELSE Secret(c, place)
      /\ "obfs" \notin DOMAIN f => Secret(m, "obfs") = Secret(c, "obfs")
      /\ "obfs" \in DOMAIN f /\ ~IsObject(f["obfs"]) => Secret(m, "obfs") = Null
      /\ "obfs" \in DOMAIN f /\ IsObject(f["obfs"]) =>
           Secret(m, "obfs") = Get(f["obfs"][2], "password", Null)
  BY SecretOver
<1> HIDE DEF m
<1>8. ConfigOK(m) BY <1>3, <1>5, <1>7 DEF ConfigOK
<1>9. \A place \in SecretKeys : ~Generated(Secret(m, place)) \/ Secret(m, place) = Secret(c, place)
  BY <1>3, <1>5, <1>7
<1>10. ~Generated(Secret(m, "obfs")) \/ Secret(m, "obfs") = Secret(c, "obfs")
  BY <1>3, <1>6, <1>7, NotRedacted
<1>11. Place = SecretKeys \cup {"obfs"} BY DEF Place, SecretKeys
<1>12. Follows(m, c, k) BY <1>9, <1>10, <1>11 DEF Follows
<1> QED BY <1>1, <1>8, <1>12

\* What an edit makes of a row's config.
LEMMA EditKeeps ==
  ASSUME NEW p \in Protocol, NEW c, NEW u, ConfigOK(c), NoneBack(u), NEW k \in Nat, k # 0, NEW i
  PROVE  LET d == Keyed(p, Merge(c, u), <<k, i>>) IN ConfigOK(d) /\ Follows(d, c, k)
<1> DEFINE m == Merge(c, u)
<1>1. ConfigOK(m) /\ Follows(m, c, k) BY MergeKeeps
<1> HIDE DEF m
<1> DEFINE d == Keyed(p, m, <<k, i>>)
<1>2. ConfigOK(d) /\ Follows(d, m, k) BY <1>1, KeyedIs
<1> HIDE DEF d
<1>3. Follows(d, c, k)
  <2> SUFFICES ASSUME NEW place \in Place
               PROVE  \/ Secret(d, place) = Secret(c, place) \/ ~Generated(Secret(d, place))
                      \/ Origin(Secret(d, place)) = k
    BY DEF Follows
  <2>1. \/ Secret(d, place) = Secret(m, place) \/ ~Generated(Secret(d, place))
        \/ Origin(Secret(d, place)) = k
    BY <1>2 DEF Follows
  <2>2. \/ Secret(m, place) = Secret(c, place) \/ ~Generated(Secret(m, place))
        \/ Origin(Secret(m, place)) = k
    BY <1>1 DEF Follows
  <2> QED BY <2>1, <2>2
<1> QED BY <1>2, <1>3 DEF d, m

\* The copy in an editor has no secret, also not inside the object `obfs'.
LEMMA RedactHides == ASSUME NEW c PROVE NoneBack(Redact(c))
<1> DEFINE d == Redact(c)
<1>1. ~Generated(Redacted) /\ ~IsObject(Redacted)
  BY DEF Redacted, Text, Generated, IsCredential, IsObject, Kind
<1>2. ASSUME NEW place \in SecretKeys PROVE ~Generated(Secret(d, place))
  <2>1. Secret(d, place) = Get(d, place, Null) BY DEF Secret, SecretKeys
  <2>2. Get(d, place, Null) \in {Redacted, Null} BY DEF Get, Redact, Hidden
  <2> QED BY <1>1, <2>1, <2>2, NotRedacted
<1>3. ~Generated(Secret(d, "obfs"))
  <2>0. "obfs" \notin SecretKeys BY DEF SecretKeys
  <2>1. CASE "obfs" \in DOMAIN c /\ IsObject(c["obfs"])
    <3> DEFINE h == Hidden(c["obfs"][2])
    <3>1. Get(d, "obfs", Null) = Object(h) BY <2>0, <2>1 DEF Get, Redact
    <3>2. IsObject(Object(h)) /\ Object(h)[2] = h BY DEF IsObject, Kind, Object
    <3>3. Secret(d, "obfs") = Get(h, "password", Null) BY <3>1, <3>2 DEF Secret, Obfs
    <3>4. Get(h, "password", Null) \in {Redacted, Null} BY DEF Get, Hidden, SecretKeys
    <3> QED BY <1>1, <3>3, <3>4, NotRedacted
  <2>2. CASE ~("obfs" \in DOMAIN c /\ IsObject(c["obfs"]))
    <3>1. ~IsObject(Text("[REDACTED UUID]")) BY DEF IsObject, Kind, Text
    <3>2. \A v : ~IsObject(v) => ~IsObject(RedactText(v)) BY <3>1 DEF RedactText
    <3>3. ~IsObject(Get(d, "obfs", Null))
      BY <2>0, <2>2, <3>2, NotRedacted DEF Get, Redact, Hidden
    <3>4. Obfs(d) = [k \in {} |-> Null] BY <3>3 DEF Obfs
    <3>5. Secret(d, "obfs") = Null BY <3>4 DEF Secret, Get
    <3> QED BY <3>5, NotRedacted
  <2> QED BY <2>1, <2>2
<1>4. Place = SecretKeys \cup {"obfs"} BY DEF Place, SecretKeys
<1> QED BY <1>2, <1>3, <1>4 DEF NoneBack

\* What the editor sends back is its copy and form fields: no generated secret.
LEMMA SubmittedHidesSecrets ==
  ASSUME NEW p \in Protocol, NEW s, NoneBack(s), NEW form \in Forms[p]
  PROVE  NoneBack(Submitted(p, s, form))
<1> DEFINE fixed == CASE p = "hysteria2" ->
           [obfs |-> Object(Over([type |-> Text("salamander")], Obfs(s))),
            ignore_client_bandwidth |-> Bool(form["up_mbps"] = Null /\ form["down_mbps"] = Null)]
      [] p = "tuic" -> [zero_rtt_handshake |-> Bool(FALSE)]
      [] OTHER -> [k \in {} |-> Null]
           o == Over(fixed, s)
           d == Over(form, o)
<1>0. Submitted(p, s, form) = d BY DEF Submitted
<1>1. /\ DOMAIN fixed \cap SecretKeys = {}
      /\ "obfs" \in DOMAIN fixed =>
           IsObject(fixed["obfs"]) /\ Get(fixed["obfs"][2], "password", Null) = Secret(s, "obfs")
  <2>1. CASE p = "hysteria2"
    <3> DEFINE h == Over([type |-> Text("salamander")], Obfs(s))
    <3>1. Get(h, "password", Null) = Secret(s, "obfs") BY DEF Over, Get, Secret
    <3>2. DOMAIN fixed = {"obfs", "ignore_client_bandwidth"} /\ fixed["obfs"] = Object(h) BY <2>1
    <3> HIDE DEF fixed, h
    <3>3. IsObject(Object(h)) /\ Object(h)[2] = h BY DEF IsObject, Kind, Object
    <3> QED BY <3>1, <3>2, <3>3 DEF SecretKeys
  <2>2. CASE p = "tuic" BY <2>2 DEF SecretKeys
  <2>3. CASE p = "shadowsocks" BY <2>3 DEF SecretKeys
  <2> QED BY <2>1, <2>2, <2>3 DEF Protocol
<1>2. DOMAIN form \cap Place = {} BY EditAssumption
<1> HIDE DEF fixed
<1>3. \A place \in Place : Secret(o, place) = Secret(s, place)
  <2>1. \A place \in SecretKeys : Secret(o, place) = Secret(s, place) BY <1>1, SecretOver
  <2>2. Secret(o, "obfs") = Secret(s, "obfs") BY <1>1, SecretOver
  <2> QED BY <2>1, <2>2 DEF Place, SecretKeys
<1> HIDE DEF o
<1>4. \A place \in Place : Secret(d, place) = Secret(o, place)
  <2>1. \A place \in SecretKeys : Secret(d, place) = Secret(o, place)
    BY <1>2, SecretOver DEF Place, SecretKeys
  <2>2. Secret(d, "obfs") = Secret(o, "obfs") BY <1>2, SecretOver DEF Place
  <2> QED BY <2>1, <2>2 DEF Place, SecretKeys
<1> QED BY <1>0, <1>3, <1>4 DEF NoneBack

------------------------------------------------------------------------------
(* The invariant.                                                          *)

Rows(t) == DOMAIN t \subseteq NodeId /\ \A i \in DOMAIN t : IsRow(t[i])
\* Tables and file: they may differ in the rows on which requests have met, and nowhere else.
TableInv ==
  /\ Rows(nodes) /\ Rows(formal) /\ DOMAIN formal = DOMAIN nodes
  /\ Builds(formal, Site)
  /\ crossed \subseteq NodeId
  /\ \A i \in DOMAIN nodes \ crossed : formal[i] = nodes[i]

\* A regenerate-all replaces every credential that the row's protocol uses.
Rotated(n, old, k) ==
  /\ \A place \in CredentialPlaces(old.protocol) :
       Generated(Secret(n.config, place)) /\ Origin(Secret(n.config, place)) = k
  /\ \A place \in Place \ CredentialPlaces(old.protocol) :
       Secret(n.config, place) = Secret(old.config, place)
  /\ old.protocol \in Protocol
\* What request k may hold: rows as they once were, and what it has made of them.
IsRequest(k, r) ==
  /\ Rows(r.loaded) /\ Rows(r.want) /\ DOMAIN r.want \subseteq DOMAIN r.loaded
  /\ \A i \in DOMAIN r.want : Follows(r.want[i].config, r.loaded[i].config, k)
  /\ r.insert # Absent => IsRow(r.insert) /\ New(r.insert.config, k) /\ DOMAIN r.want = {}
  /\ r.rotates => /\ r.insert = Absent /\ DOMAIN r.want = DOMAIN r.loaded
                  /\ \A i \in DOMAIN r.want : Rotated(r.want[i], r.loaded[i], k)
ReqInv ==
  /\ DOMAIN req = 1 .. MaxChanges /\ changes \in Nat
  /\ \A k \in Running : k \in Nat \ {0} /\ k <= changes /\ IsRequest(k, req[k])

IsCopy(s) == s.protocol \in Protocol /\ s.enabled \in BOOLEAN /\ NoneBack(s.config)
CopyInv == DOMAIN shown = Browser /\ \A b \in Browser : shown[b] # Absent => IsCopy(shown[b])

\* The request that made v has ended.
Settled(F) == \A v \in F : Origin(v) \in 0 .. changes /\ Origin(v) \notin Running
\* A credential in the table, one that was replaced, and one that a request has loaded is not
\* of a request that is still running: none can be made twice.
FreshInv ==
  /\ Settled(Credentials(nodes)) /\ Settled(retired)
  /\ \A k \in Running : Settled(Credentials(req[k].loaded))
\* No step can bring these back.
Gone(F) ==
  /\ Settled(F) /\ F \cap Credentials(nodes) = {}
  /\ \A k \in Running : F \cap Credentials(req[k].loaded) = {}
FetchInv ==
  /\ Gone(revoked) /\ Gone(fetch.revoked)
  /\ DOMAIN fetch = {"at", "revoked", "content"} /\ fetch.at \in {"idle", "nodes", "done"}
  /\ fetch.at = "done" => fetch.content \cap fetch.revoked = {}

DataInv == TableInv /\ ReqInv /\ CopyInv /\ FreshInv /\ FetchInv

LEMMA CredentialsAre ==
  ASSUME NEW t, NEW v
  PROVE  v \in Credentials(t) <=>
           Generated(v) /\ \E i \in DOMAIN t : \E place \in Place : v = Secret(t[i].config, place)
  BY DEF Credentials

LEMMA NoCredentials ==
  ASSUME NEW t, DOMAIN t = {} PROVE Credentials(t) = {}
  BY CredentialsAre

LEMMA RowConfig ==
  ASSUME NEW n, IsRow(n) PROVE n.protocol \in Protocol /\ ConfigOK(n.config)
  BY DEF IsRow, ConfigOK

LEMMA ConfiguredRow ==
  ASSUME NEW n, IsRow(n), NEW c, ConfigOK(c)
  PROVE  LET m == [n EXCEPT !.config = c]
         IN  IsRow(m) /\ m.config = c /\ m.protocol = n.protocol
  BY DEF IsRow, ConfigOK, Column

\* The credentials that a request has made of a row are those it has loaded, or its own.
LEMMA WantedCredentials ==
  ASSUME NEW k, NEW r, IsRequest(k, r), NEW v \in Credentials(r.want)
  PROVE  v \in Credentials(r.loaded) \/ Origin(v) = k
<1>1. PICK i \in DOMAIN r.want : \E place \in Place : v = Secret(r.want[i].config, place)
  BY CredentialsAre
<1>2. PICK place \in Place : v = Secret(r.want[i].config, place) BY <1>1
<1>3. Generated(v) BY CredentialsAre
<1>4. i \in DOMAIN r.loaded /\ Follows(r.want[i].config, r.loaded[i].config, k)
  BY <1>1 DEF IsRequest
<1> QED BY <1>2, <1>3, <1>4, CredentialsAre DEF Follows

------------------------------------------------------------------------------
(* A request begins.                                                       *)

\* It brings nothing into the table; what it has loaded is committed.
LEMMA BeginKeeps ==
  ASSUME TableInv, ReqInv, FreshInv, FetchInv, NEW l, NEW w, NEW n, NEW t, Begin(l, w, n, t),
         IsRequest(This, [loaded |-> l, want |-> w, insert |-> n, rotates |-> t]),
         Credentials(l) \subseteq Credentials(nodes)
  PROVE  TableInv' /\ ReqInv' /\ FreshInv' /\ FetchInv'
<1> DEFINE r == [loaded |-> l, want |-> w, insert |-> n, rotates |-> t]
<1>1. /\ changes' = This /\ This = changes + 1 /\ changes \in Nat /\ This \in 1 .. MaxChanges
      /\ req' = [req EXCEPT ![This] = r] /\ DOMAIN req' = 1 .. MaxChanges /\ req'[This] = r
      /\ \A k \in 1 .. MaxChanges : k # This => req'[k] = req[k]
      /\ r.loaded = l
      /\ UNCHANGED <<nodes, formal, crossed, retired, revoked, fetch>>
  BY BoundAssumption DEF Begin, This, ReqInv
<1>2. IsRequest(This, r) OBVIOUS
<1> HIDE DEF r
<1>3. Running' \subseteq Running \cup {This} /\ \A k \in Running' : k = This \/ req'[k] = req[k]
  BY <1>1 DEF Running
<1>4. Credentials(nodes)' = Credentials(nodes) /\ \A k : IsRequest(k, r)' <=> IsRequest(k, r)
  BY <1>1 DEF Credentials, IsRequest, Rows
<1>5. TableInv' BY <1>1 DEF TableInv, Rows, Builds
<1>6. ReqInv'
  <2>1. ASSUME NEW k \in Running' PROVE k \in Nat \ {0} /\ k <= changes' /\ IsRequest(k, req'[k])
    BY <1>1, <1>2, <1>3, <2>1 DEF ReqInv
  <2> QED BY <1>1, <2>1 DEF ReqInv
<1>7. ASSUME NEW F, Settled(F) PROVE \A v \in F : Origin(v) \in 0 .. changes' /\ Origin(v) \notin Running'
  BY <1>1, <1>3, <1>7 DEF Settled
<1>8. \A k \in Running' : req'[k].loaded = l \/ (k \in Running /\ req'[k].loaded = req[k].loaded)
  BY <1>1, <1>3
<1>9. Settled(Credentials(l)) BY DEF FreshInv, Settled
<1>10. FreshInv'
  <2>1. Settled(Credentials(nodes))' BY <1>4, <1>7 DEF FreshInv, Settled
  <2>2. Settled(retired)' BY <1>1, <1>7 DEF FreshInv, Settled
  <2>3. ASSUME NEW k \in Running', NEW v \in Credentials(req'[k].loaded)
        PROVE  Origin(v) \in 0 .. changes' /\ Origin(v) \notin Running'
    BY <1>7, <1>8, <1>9, <2>3 DEF FreshInv
  <2>4. \A k \in Running' : Credentials(req'[k].loaded) = Credentials(req[k].loaded)'
    BY DEF Credentials
  <2> QED BY <2>1, <2>2, <2>3, <2>4 DEF FreshInv, Settled
<1>11. ASSUME NEW F, Gone(F) PROVE Gone(F)'
  <2>1. Settled(F)' BY <1>7, <1>11 DEF Gone, Settled
  <2>2. F \cap Credentials(nodes)' = {} BY <1>4, <1>11 DEF Gone
  <2>3. ASSUME NEW k \in Running' PROVE F \cap Credentials(req'[k].loaded) = {}
    BY <1>8, <1>11, <2>3 DEF Gone
  <2> QED BY <2>1, <2>2, <2>3 DEF Gone
<1>12. FetchInv' BY <1>1, <1>11 DEF FetchInv, Gone, Settled
<1> QED BY <1>5, <1>6, <1>10, <1>12

LEMMA ThisIs == ASSUME ReqInv PROVE This \in Nat /\ This # 0
  BY DEF ReqInv, This

\* A request for one row.
LEMMA EditBegins ==
  ASSUME TableInv, ReqInv, FreshInv, FetchInv, NEW i \in DOMAIN nodes, NEW n, IsRow(n),
         Follows(n.config, nodes[i].config, This), Edit(i, n)
  PROVE  TableInv' /\ ReqInv' /\ FreshInv' /\ FetchInv'
<1> DEFINE l == [j \in {i} |-> nodes[i]]
           w == [j \in {i} |-> n]
           r == [loaded |-> l, want |-> w, insert |-> Absent, rotates |-> FALSE]
<1>1. Begin(l, w, Absent, FALSE) BY DEF Edit
<1>2. /\ r.loaded = l /\ r.want = w /\ r.insert = Absent /\ r.rotates = FALSE
      /\ DOMAIN l = {i} /\ DOMAIN w = {i} /\ l[i] = nodes[i] /\ w[i] = n
  OBVIOUS
<1>3. IsRow(nodes[i]) /\ i \in NodeId BY DEF TableInv, Rows
<1> HIDE DEF l, w
<1>4. IsRequest(This, r) BY <1>2, <1>3 DEF IsRequest, Rows
<1>5. Credentials(l) \subseteq Credentials(nodes) BY <1>2, CredentialsAre
<1> QED BY <1>1, <1>4, <1>5, BeginKeeps

LEMMA UpdateBegins ==
  ASSUME TableInv, ReqInv, FreshInv, FetchInv, NEW i \in DOMAIN nodes, NEW n, IsRow(n),
         n.config = nodes[i].config, NEW c, NoneBack(c), UpdateNode(i, n, c)
  PROVE  TableInv' /\ ReqInv' /\ FreshInv' /\ FetchInv'
<1> DEFINE d == Keyed(n.protocol, Merge(n.config, c), <<This, i>>)
           m == [n EXCEPT !.config = d]
<1>1. Edit(i, m) BY DEF UpdateNode
<1>2. ConfigOK(d) /\ Follows(d, n.config, This) BY RowConfig, ThisIs, EditKeeps
<1> HIDE DEF d
<1>3. IsRow(m) /\ m.config = d BY <1>2, ConfiguredRow
<1> HIDE DEF m
<1> QED BY <1>1, <1>2, <1>3, EditBegins

LEMMA CreateBegins ==
  ASSUME TableInv, ReqInv, FreshInv, FetchInv, NEW p \in Protocol, NEW port,
         NEW enabled \in BOOLEAN, NEW c \in Patches[p], CreateNode(p, port, enabled, c)
  PROVE  TableInv' /\ ReqInv' /\ FreshInv' /\ FetchInv'
<1> DEFINE g == <<This, 0>>
           base == DefaultConfig(p, g)
           d == Keyed(p, Merge(base, c), g)
           n == [protocol |-> p, enabled |-> enabled, listen_port |-> port, config |-> d]
           r == [loaded |-> NoRows, want |-> NoRows, insert |-> n, rotates |-> FALSE]
<1>1. Begin(NoRows, NoRows, n, FALSE) BY DEF CreateNode
<1>2. ConfigOK(base) /\ New(base, This) BY ThisIs, DefaultConfigIs
<1>3. NoneBack(c) BY EditAssumption DEF NoneBack
<1> HIDE DEF base
<1>4. ConfigOK(d) /\ Follows(d, base, This) BY <1>2, <1>3, ThisIs, EditKeeps
<1> HIDE DEF d
<1>5. New(d, This) BY <1>2, <1>4 DEF New, Follows
<1>6. IsRow(n) /\ n.config = d BY <1>4 DEF IsRow, ConfigOK, Column
<1> HIDE DEF n
<1>7. r.loaded = NoRows /\ r.want = NoRows /\ r.insert = n /\ r.rotates = FALSE /\ DOMAIN NoRows = {}
  BY DEF NoRows
<1>8. IsRequest(This, r) BY <1>5, <1>6, <1>7 DEF IsRequest, Rows
<1>9. Credentials(NoRows) = {} BY <1>7, NoCredentials
<1> QED BY <1>1, <1>8, <1>9, BeginKeeps

LEMMA SaveBegins ==
  ASSUME TableInv, ReqInv, CopyInv, FreshInv, FetchInv, NEW b \in Browser, SaveEditor(b)
  PROVE  TableInv' /\ ReqInv' /\ FreshInv' /\ FetchInv'
<1> DEFINE s == shown[b]
           n == [nodes[s.id] EXCEPT !.enabled = s.enabled, !.listen_port = s.listen_port]
<1>1. s # Absent /\ s.id \in DOMAIN nodes /\ IsCopy(s) BY DEF SaveEditor, CopyInv
<1>2. PICK form \in Forms[s.protocol] : UpdateNode(s.id, n, Submitted(s.protocol, s.config, form))
  BY DEF SaveEditor
<1>3. NoneBack(Submitted(s.protocol, s.config, form)) BY <1>1, SubmittedHidesSecrets DEF IsCopy
<1>4. IsRow(nodes[s.id]) BY <1>1 DEF TableInv, Rows
<1>5. IsRow(n) /\ n.config = nodes[s.id].config BY <1>1, <1>4 DEF IsRow, IsCopy, Column
<1> HIDE DEF n, s
<1> QED BY <1>1, <1>2, <1>3, <1>5, UpdateBegins

LEMMA PatchBegins ==
  ASSUME TableInv, ReqInv, FreshInv, FetchInv, NEW i \in DOMAIN nodes, PatchNode(i)
  PROVE  TableInv' /\ ReqInv' /\ FreshInv' /\ FetchInv'
<1>1. IsRow(nodes[i]) BY DEF TableInv, Rows
<1>2. PICK c \in Patches[nodes[i].protocol] : UpdateNode(i, nodes[i], c) BY DEF PatchNode
<1>3. NoneBack(c) BY <1>1, EditAssumption DEF IsRow, NoneBack
<1> QED BY <1>1, <1>2, <1>3, UpdateBegins

LEMMA EnableBegins ==
  ASSUME TableInv, ReqInv, FreshInv, FetchInv, NEW i \in DOMAIN nodes, NEW e \in BOOLEAN,
         SetEnabled(i, e)
  PROVE  TableInv' /\ ReqInv' /\ FreshInv' /\ FetchInv'
<1> DEFINE n == [nodes[i] EXCEPT !.enabled = e]
<1>1. Edit(i, n) BY DEF SetEnabled
<1>2. IsRow(nodes[i]) BY DEF TableInv, Rows
<1>3. IsRow(n) /\ n.config = nodes[i].config BY <1>2 DEF IsRow, Column
<1> HIDE DEF n
<1>4. Follows(n.config, nodes[i].config, This) BY <1>3 DEF Follows
<1> QED BY <1>1, <1>3, <1>4, EditBegins

LEMMA DeleteBegins ==
  ASSUME TableInv, ReqInv, FreshInv, FetchInv, NEW i \in DOMAIN nodes, DeleteNode(i)
  PROVE  TableInv' /\ ReqInv' /\ FreshInv' /\ FetchInv'
<1> DEFINE l == [j \in {i} |-> nodes[i]]
           r == [loaded |-> l, want |-> NoRows, insert |-> Absent, rotates |-> FALSE]
<1>1. Begin(l, NoRows, Absent, FALSE) BY DEF DeleteNode
<1>2. /\ r.loaded = l /\ r.want = NoRows /\ r.insert = Absent /\ r.rotates = FALSE
      /\ DOMAIN l = {i} /\ l[i] = nodes[i] /\ DOMAIN NoRows = {}
  BY DEF NoRows
<1>3. IsRow(nodes[i]) /\ i \in NodeId BY DEF TableInv, Rows
<1> HIDE DEF l
<1>4. IsRequest(This, r) BY <1>2, <1>3 DEF IsRequest, Rows
<1>5. Credentials(l) \subseteq Credentials(nodes) BY <1>2, CredentialsAre
<1> QED BY <1>1, <1>4, <1>5, BeginKeeps

\* New credentials for a row, at the places that its protocol has.
LEMMA RegeneratedRow ==
  ASSUME ReqInv, NEW n, IsRow(n), NEW i
  PROVE  LET m == WithNew(n, i)
         IN  IsRow(m) /\ Rotated(m, n, This) /\ Follows(m.config, n.config, This)
<1> DEFINE d == Regenerate(n.protocol, n.config, <<This, i>>)
           m == [n EXCEPT !.config = d]
<1>1. n.protocol \in Protocol /\ ConfigOK(n.config) BY RowConfig
<1>2. /\ ConfigOK(d)
      /\ \A place \in CredentialPlaces(n.protocol) :
           Generated(Secret(d, place)) /\ Origin(Secret(d, place)) = This
      /\ \A place \in Place \ CredentialPlaces(n.protocol) :
           Secret(d, place) = Secret(n.config, place)
  BY <1>1, ThisIs, RegenerateReplaces
<1>3. WithNew(n, i) = m BY DEF WithNew
<1> HIDE DEF d
<1>4. IsRow(m) /\ m.config = d BY <1>2, ConfiguredRow
<1> HIDE DEF m
<1> QED BY <1>1, <1>2, <1>3, <1>4 DEF Rotated, Follows

LEMMA SecretBegins ==
  ASSUME TableInv, ReqInv, FreshInv, FetchInv, NEW i \in DOMAIN nodes, RegenerateSecret(i)
  PROVE  TableInv' /\ ReqInv' /\ FreshInv' /\ FetchInv'
<1> DEFINE n == WithNew(nodes[i], i)
<1>1. Edit(i, n) BY DEF RegenerateSecret
<1>2. IsRow(nodes[i]) BY DEF TableInv, Rows
<1>3. IsRow(n) /\ Follows(n.config, nodes[i].config, This) BY <1>2, RegeneratedRow
<1> HIDE DEF n
<1> QED BY <1>1, <1>3, EditBegins

LEMMA AllBegins ==
  ASSUME TableInv, ReqInv, FreshInv, FetchInv, RegenerateAll
  PROVE  TableInv' /\ ReqInv' /\ FreshInv' /\ FetchInv'
<1> DEFINE w == [i \in DOMAIN nodes |-> WithNew(nodes[i], i)]
           r == [loaded |-> nodes, want |-> w, insert |-> Absent, rotates |-> TRUE]
<1>1. Begin(nodes, w, Absent, TRUE) BY DEF RegenerateAll
<1>2. /\ r.loaded = nodes /\ r.want = w /\ r.insert = Absent
      /\ DOMAIN w = DOMAIN nodes /\ \A i \in DOMAIN w : w[i] = WithNew(nodes[i], i)
  OBVIOUS
<1>3. Rows(nodes) BY DEF TableInv
<1> HIDE DEF w
<1>4. \A i \in DOMAIN w : /\ IsRow(w[i]) /\ Rotated(w[i], nodes[i], This)
                          /\ Follows(w[i].config, nodes[i].config, This)
  BY <1>2, <1>3, RegeneratedRow DEF Rows
<1>5. IsRequest(This, r) BY <1>2, <1>3, <1>4 DEF IsRequest, Rows
<1> QED BY <1>1, <1>5, BeginKeeps

------------------------------------------------------------------------------
(* A request commits.                                                      *)

LEMMA UpdatedRow ==
  ASSUME NEW old, NEW new, IsRow(new), NEW row, IsRow(row)
  PROVE  LET u == Updated(old, new, row)
         IN  /\ IsRow(u) /\ u.config \in {new.config, row.config}
             /\ new.config # old.config => u.config = new.config
             /\ row = old => u = new
<1> DEFINE u == Updated(old, new, row)
<1>1. u = [c \in Column |-> IF new[c] # old[c] THEN new[c] ELSE row[c]] BY DEF Updated
<1>2. \A c \in Column : u[c] = IF new[c] # old[c] THEN new[c] ELSE row[c] BY <1>1
<1>3. u = [c \in Column |-> u[c]] BY <1>1, <1>2
<1> HIDE DEF u
<1>4. row = old => \A c \in Column : u[c] = new[c] BY <1>2
<1>5. row = old => u = new BY <1>3, <1>4 DEF IsRow
<1>6. {"protocol", "enabled", "config"} \subseteq Column BY DEF Column
<1>7. IsRow(u) BY <1>2, <1>3, <1>6 DEF IsRow
<1> QED BY <1>2, <1>5, <1>6, <1>7 DEF u

\* Where a row of the written table comes from.
LEMMA WrittenRows ==
  ASSUME Rows(nodes), NEW k, NEW r, IsRequest(k, r), NewIds(r) \subseteq NodeId
  PROVE  /\ Rows(Written(r))
         /\ \A i \in DOMAIN Written(r) :
              \/ i \in NewIds(r) /\ r.insert # Absent /\ Written(r)[i] = r.insert
              \/ /\ i \in DOMAIN nodes /\ i \in DOMAIN r.want /\ i \notin NewIds(r)
                 /\ Written(r)[i] = Updated(r.loaded[i], r.want[i], nodes[i])
              \/ /\ i \in DOMAIN nodes /\ i \notin DOMAIN r.want /\ i \notin NewIds(r)
                 /\ Written(r)[i] = nodes[i]
<1> DEFINE D == (DOMAIN nodes \ (DOMAIN r.loaded \ DOMAIN r.want)) \cup NewIds(r)
           W == Written(r)
<1>1. DOMAIN W = D BY DEF Written
<1>2. \A i \in D : W[i] = IF i \in NewIds(r) THEN r.insert
                          ELSE IF i \in DOMAIN r.want
                               THEN Updated(r.loaded[i], r.want[i], nodes[i]) ELSE nodes[i]
  BY DEF Written
<1>3. \A i \in NewIds(r) : r.insert # Absent BY DEF NewIds
<1> HIDE DEF W
<1>4. ASSUME NEW i \in D
      PROVE  \/ i \in NewIds(r) /\ r.insert # Absent /\ W[i] = r.insert
             \/ /\ i \in DOMAIN nodes /\ i \in DOMAIN r.want /\ i \notin NewIds(r)
                /\ W[i] = Updated(r.loaded[i], r.want[i], nodes[i])
             \/ /\ i \in DOMAIN nodes /\ i \notin DOMAIN r.want /\ i \notin NewIds(r)
                /\ W[i] = nodes[i]
  BY <1>2, <1>3
<1>5. \A i \in DOMAIN nodes \cap DOMAIN r.want : IsRow(Updated(r.loaded[i], r.want[i], nodes[i]))
  BY UpdatedRow DEF IsRequest, Rows
<1>6. \A i \in D : IsRow(W[i])
  BY <1>4, <1>5 DEF IsRequest, Rows
<1>7. D \subseteq NodeId BY DEF Rows
<1> QED BY <1>1, <1>4, <1>6, <1>7 DEF Rows, W

\* The table that request k writes has the credentials of the one before, of what k has loaded,
\* and its own.
LEMMA WrittenCredentials ==
  ASSUME Rows(nodes), NEW k, NEW r, IsRequest(k, r), NewIds(r) \subseteq NodeId,
         NEW v \in Credentials(Written(r))
  PROVE  v \in Credentials(nodes) \/ v \in Credentials(r.loaded) \/ Origin(v) = k
<1> DEFINE W == Written(r)
<1>1. PICK i \in DOMAIN W : \E place \in Place : v = Secret(W[i].config, place)
  BY CredentialsAre
<1>2. PICK place \in Place : v = Secret(W[i].config, place) BY <1>1
<1>3. Generated(v) BY CredentialsAre
<1> HIDE DEF W
<1>4. CASE i \in NewIds(r) /\ r.insert # Absent /\ W[i] = r.insert
  BY <1>2, <1>3, <1>4 DEF IsRequest, New
<1>5. CASE /\ i \in DOMAIN nodes /\ i \in DOMAIN r.want
           /\ W[i] = Updated(r.loaded[i], r.want[i], nodes[i])
  <2>1. IsRow(r.want[i]) /\ IsRow(nodes[i]) BY <1>5 DEF IsRequest, Rows
  <2> DEFINE u == Updated(r.loaded[i], r.want[i], nodes[i])
  <2>0. u.config \in {r.want[i].config, nodes[i].config} BY <2>1, UpdatedRow
  <2> HIDE DEF u
  <2>2. W[i].config \in {r.want[i].config, nodes[i].config} BY <1>5, <2>0 DEF u
  <2>3. v \in Credentials(r.want) \/ v \in Credentials(nodes)
    BY <1>2, <1>3, <1>5, <2>2, CredentialsAre
  <2> QED BY <2>3, WantedCredentials
<1>6. CASE i \in DOMAIN nodes /\ W[i] = nodes[i]
  BY <1>2, <1>3, <1>6, CredentialsAre
<1> QED BY <1>1, <1>4, <1>5, <1>6, WrittenRows DEF W

\* The table that a regenerate-all writes has only its own credentials and what it exempts.
LEMMA RotatedCredentials ==
  ASSUME TableInv, ReqInv, FreshInv, NEW k \in Running, req[k].rotates,
         NewIds(req[k]) \subseteq NodeId, NEW v \in Credentials(Written(req[k]))
  PROVE  v \in Exempt(k) \/ Origin(v) = k
<1> DEFINE r == req[k]
           W == Written(r)
<1>0. IsRequest(k, r) /\ r.rotates BY DEF ReqInv
<1>1. PICK i \in DOMAIN W : \E place \in Place : v = Secret(W[i].config, place)
  BY CredentialsAre
<1>2. PICK place \in Place : v = Secret(W[i].config, place) BY <1>1
<1>3. Generated(v) BY CredentialsAre
<1>4. r.insert = Absent /\ DOMAIN r.want = DOMAIN r.loaded BY <1>0 DEF IsRequest
<1>5. NewIds(r) = {} BY <1>4 DEF NewIds
<1>6. Settled(Credentials(r.loaded)) BY DEF FreshInv
<1>7. /\ i \in DOMAIN nodes
      /\ i \in DOMAIN r.want => W[i] = Updated(r.loaded[i], r.want[i], nodes[i])
      /\ i \notin DOMAIN r.want => W[i] = nodes[i]
  BY <1>0, <1>1, <1>5, WrittenRows DEF TableInv
<1> HIDE DEF W, r
<1>8. CASE i \notin DOMAIN r.want
  <2> DEFINE t == [j \in DOMAIN nodes \ DOMAIN r.loaded |-> nodes[j]]
  <2>1. i \in DOMAIN t /\ t[i] = nodes[i] BY <1>4, <1>7, <1>8
  <2> HIDE DEF t
  <2>2. v \in Credentials(t) BY <1>2, <1>3, <1>7, <1>8, <2>1, CredentialsAre
  <2> QED BY <2>2 DEF Exempt, r, t
<1>9. CASE i \in DOMAIN r.want
  <2>1. /\ IsRow(r.want[i]) /\ IsRow(nodes[i]) /\ IsRow(r.loaded[i]) /\ i \in DOMAIN r.loaded
        /\ Rotated(r.want[i], r.loaded[i], k)
    BY <1>0, <1>4, <1>7, <1>9 DEF IsRequest, Rows, TableInv
  <2> DEFINE old == r.loaded[i]
             places == CredentialPlaces(old.protocol)
  <2>2. "password" \in places
    <3>1. CASE old.protocol = "hysteria2" BY <3>1 DEF CredentialPlaces
    <3>2. CASE old.protocol = "tuic" BY <3>2 DEF CredentialPlaces
    <3>3. CASE old.protocol = "shadowsocks" BY <3>3 DEF CredentialPlaces
    <3> QED BY <2>1, <3>1, <3>2, <3>3 DEF Rotated, Protocol
  <2>3. r.want[i].config # old.config
    <3>1. /\ Generated(Secret(r.want[i].config, "password"))
          /\ Origin(Secret(r.want[i].config, "password")) = k
      BY <2>1, <2>2 DEF Rotated
    <3>2. ASSUME r.want[i].config = old.config PROVE FALSE
      <4>1. Secret(old.config, "password") \in Credentials(r.loaded)
        BY <2>1, <3>1, <3>2, CredentialsAre DEF Place
      <4> QED BY <1>6, <3>1, <3>2, <4>1 DEF Settled
    <3> QED BY <3>2
  <2>4. W[i].config = r.want[i].config BY <1>7, <1>9, <2>1, <2>3, UpdatedRow
  <2>5. CASE place \in places BY <1>2, <2>1, <2>4, <2>5 DEF Rotated
  <2>6. CASE place \in Place \ places
    <3>1. v = Secret(r.loaded[i].config, place) BY <1>2, <2>1, <2>4, <2>6 DEF Rotated
    <3>2. v \in Foreign(r.loaded) BY <2>1, <2>6, <3>1 DEF Foreign
    <3>3. Foreign(req[k].loaded) \subseteq Exempt(k) BY DEF Exempt
    <3> QED BY <3>2, <3>3 DEF r
  <2> QED BY <1>2, <2>5, <2>6
<1> QED BY <1>8, <1>9

LEMMA CommitTables ==
  ASSUME TableInv, ReqInv, NEW k \in Running, Commit(k) PROVE TableInv'
<1> DEFINE r == req[k]
           W == Written(r)
           V == View(r)
<1>1. IsRequest(k, r) BY DEF ReqInv
<1>2. /\ NewIds(r) \subseteq NodeId /\ Builds(V, Site) /\ nodes' = W /\ formal' = V
      /\ crossed' = Crossed(r)
  BY DEF Commit
<1>3. Rows(W) BY <1>1, <1>2, WrittenRows DEF TableInv
<1>4. DOMAIN V = DOMAIN W /\ \A i \in DOMAIN W : V[i] = IF i \in DOMAIN r.want THEN r.want[i] ELSE W[i]
  BY DEF View
<1>5. Rows(V)
  <2> HIDE DEF V, W
  <2> QED BY <1>1, <1>3, <1>4 DEF Rows, IsRequest
<1>6. Crossed(r) \subseteq NodeId BY DEF Crossed, TableInv, Rows
<1>7. ASSUME NEW i \in DOMAIN W, i \notin Crossed(r) PROVE V[i] = W[i]
  <2>1. CASE i \notin DOMAIN r.want BY <1>4, <2>1
  <2>2. CASE i \in DOMAIN r.want
    <3>1. i \in DOMAIN nodes /\ W[i] = Updated(r.loaded[i], r.want[i], nodes[i])
      BY <1>1, <1>2, <2>2, WrittenRows DEF TableInv, IsRequest
    <3>2. nodes[i] = r.loaded[i] BY <1>7, <2>2, <3>1 DEF Crossed
    <3>3. IsRow(r.want[i]) /\ IsRow(nodes[i]) BY <1>1, <2>2, <3>1 DEF IsRequest, Rows, TableInv
    <3>4. W[i] = r.want[i] BY <3>1, <3>2, <3>3, UpdatedRow
    <3> QED BY <1>4, <2>2, <3>4
  <2> QED BY <2>1, <2>2
<1> HIDE DEF V, W
<1>8. Builds(formal, Site)' BY <1>2 DEF Builds
<1>9. \A i \in DOMAIN nodes' \ crossed' : formal'[i] = nodes'[i] BY <1>2, <1>7
<1>10. Rows(nodes)' /\ Rows(formal)' BY <1>2, <1>3, <1>5 DEF Rows
<1>11. DOMAIN formal' = DOMAIN nodes' /\ crossed' \subseteq NodeId BY <1>2, <1>4, <1>6
<1> QED BY <1>8, <1>9, <1>10, <1>11 DEF TableInv

\* A request that has ended is one less.
LEMMA EndedRequest ==
  ASSUME ReqInv, NEW k \in Running, Commit(k) \/ Fail(k)
  PROVE  /\ ReqInv' /\ changes' = changes /\ fetch' = fetch
         /\ Running' \subseteq Running \ {k} /\ \A q \in Running' : req'[q] = req[q]
<1>1. req' = [req EXCEPT ![k] = Absent] /\ changes' = changes /\ fetch' = fetch
  BY DEF Commit, Fail
<1>2. Running' \subseteq Running \ {k} /\ \A q \in Running' : req'[q] = req[q]
  BY <1>1 DEF Running, ReqInv
<1>3. DOMAIN req' = 1 .. MaxChanges /\ changes' \in Nat BY <1>1 DEF ReqInv
<1>4. \A q \in Running' : q \in Nat \ {0} /\ q <= changes' /\ IsRequest(q, req'[q])
  BY <1>1, <1>2 DEF ReqInv
<1> QED BY <1>1, <1>2, <1>3, <1>4 DEF ReqInv

LEMMA CommitCredentials ==
  ASSUME TableInv, ReqInv, FreshInv, FetchInv, NEW k \in Running, Commit(k)
  PROVE  FreshInv' /\ FetchInv'
<1> DEFINE r == req[k]
<1>1. IsRequest(k, r) /\ k \in Nat \ {0} /\ k <= changes /\ changes \in Nat BY DEF ReqInv
<1>2. /\ NewIds(r) \subseteq NodeId /\ nodes' = Written(r)
      /\ retired' = retired \cup (Credentials(nodes) \ Credentials(nodes'))
      /\ revoked' = IF r.rotates THEN (retired \cup Credentials(nodes)) \ Exempt(k) ELSE revoked
  BY DEF Commit
<1>3. /\ changes' = changes /\ fetch' = fetch /\ Running' \subseteq Running \ {k}
      /\ \A q \in Running' : req'[q] = req[q]
  BY EndedRequest
<1>4. Credentials(nodes)' = Credentials(Written(r)) BY <1>2 DEF Credentials
<1>5. \A q \in Running' : Credentials(req[q].loaded)' = Credentials(req[q].loaded)
  BY <1>3 DEF Credentials
<1>6. \A v \in Credentials(Written(r)) :
        v \in Credentials(nodes) \/ v \in Credentials(r.loaded) \/ Origin(v) = k
  BY <1>1, <1>2, WrittenCredentials DEF TableInv
<1>7. Credentials(nodes') = Credentials(Written(r)) BY <1>2
<1> HIDE DEF r
<1>8. Settled(Credentials(nodes)) /\ Settled(Credentials(r.loaded)) /\ Settled(retired)
  BY DEF FreshInv, r
<1>9. \A v : Origin(v) \in 0 .. changes /\ Origin(v) \notin Running =>
               Origin(v) \in 0 .. changes' /\ Origin(v) \notin Running'
  BY <1>3
<1>10. FreshInv'
  <2>1. \A v \in Credentials(Written(r)) : Origin(v) \in 0 .. changes' /\ Origin(v) \notin Running'
    BY <1>1, <1>3, <1>6, <1>8, <1>9 DEF Settled
  <2>2. \A v \in retired' : Origin(v) \in 0 .. changes' /\ Origin(v) \notin Running'
    BY <1>2, <1>8, <1>9 DEF Settled
  <2>3. \A q \in Running' : \A v \in Credentials(req[q].loaded) :
          Origin(v) \in 0 .. changes' /\ Origin(v) \notin Running'
    BY <1>3, <1>9 DEF FreshInv, Settled
  <2> QED BY <1>4, <1>5, <2>1, <2>2, <2>3 DEF FreshInv, Settled
<1>11. ASSUME NEW v, Origin(v) \in 0 .. changes, Origin(v) \notin Running,
              v \notin Credentials(nodes), \A q \in Running : v \notin Credentials(req[q].loaded)
       PROVE  /\ Origin(v) \in 0 .. changes' /\ Origin(v) \notin Running'
              /\ v \notin Credentials(Written(r))
              /\ \A q \in Running' : v \notin Credentials(req[q].loaded)
  BY <1>3, <1>6, <1>9, <1>11 DEF r
<1>12. ASSUME NEW F, Gone(F) PROVE Gone(F)'
  BY <1>4, <1>5, <1>11, <1>12 DEF Gone, Settled
<1>13. Gone(revoked)'
  <2>1. CASE ~r.rotates BY <1>2, <1>12, <2>1 DEF FetchInv, Gone, Settled
  <2>2. CASE r.rotates
    <3>1. \A v \in revoked' : /\ v \in retired \cup Credentials(nodes)
                              /\ v \notin Exempt(k)
      BY <1>2, <2>2
    <3>2. \A v \in revoked' : /\ Origin(v) \in 0 .. changes' /\ Origin(v) \notin Running'
                              /\ Origin(v) # k
      BY <1>8, <1>9, <3>1 DEF Settled
    <3>3. \A v \in revoked' : v \notin Credentials(Written(r))
      BY <1>2, <2>2, <3>1, <3>2, RotatedCredentials DEF r
    <3>4. \A v \in revoked', q \in Running' : v \notin Credentials(req[q].loaded)
      BY <1>3, <3>1 DEF Exempt
    <3> QED BY <1>4, <1>5, <3>2, <3>3, <3>4 DEF Gone, Settled
  <2> QED BY <2>1, <2>2
<1>14. FetchInv' BY <1>3, <1>12, <1>13 DEF FetchInv, Gone, Settled
<1> QED BY <1>10, <1>14

\* A request that fails leaves table, file and credentials alone.
LEMMA FailKeeps ==
  ASSUME TableInv, ReqInv, FreshInv, FetchInv, NEW k \in Running, Fail(k)
  PROVE  TableInv' /\ ReqInv' /\ FreshInv' /\ FetchInv'
<1>1. /\ UNCHANGED <<nodes, formal, crossed, retired, revoked, fetch, changes>>
      /\ Running' \subseteq Running /\ \A q \in Running' : req'[q] = req[q]
  BY EndedRequest DEF Fail
<1>2. Credentials(nodes)' = Credentials(nodes) BY <1>1 DEF Credentials
<1>3. \A q \in Running' : Credentials(req[q].loaded)' = Credentials(req[q].loaded)
  BY <1>1 DEF Credentials
<1>4. TableInv' BY <1>1 DEF TableInv, Rows, Builds
<1>5. FreshInv' BY <1>1, <1>2, <1>3 DEF FreshInv, Settled
<1>6. FetchInv' BY <1>1, <1>2, <1>3 DEF FetchInv, Gone, Settled
<1> QED BY <1>4, <1>5, <1>6, EndedRequest

------------------------------------------------------------------------------
(* Every step keeps the invariant.                                         *)

LEMMA DataInit == Init => DataInv
<1> SUFFICES ASSUME Init PROVE DataInv OBVIOUS
<1> USE DEF Init
<1>1. nodes \in Seeds /\ Rows(nodes) /\ Builds(nodes, Site)
  BY SeedAssumption DEF Rows
<1>2. Running = {} BY DEF Running
<1>3. \A v \in Credentials(nodes) : Origin(v) = 0 BY <1>1, SeedAssumption
<1>4. TableInv BY <1>1 DEF TableInv
<1>5. ReqInv BY <1>2 DEF ReqInv
<1>6. CopyInv BY DEF CopyInv
<1>7. FreshInv BY <1>2, <1>3 DEF FreshInv, Settled
<1>8. FetchInv BY DEF FetchInv, NoFetch, Gone, Settled
<1> QED BY <1>4, <1>5, <1>6, <1>7, <1>8 DEF DataInv

\* Steps that leave tables, requests and credentials alone.
LEMMA DataFrame ==
  ASSUME TableInv, ReqInv, FreshInv, UNCHANGED <<nodes, formal, req, crossed, retired>>,
         changes' \in Nat, changes <= changes'
  PROVE  /\ TableInv' /\ ReqInv' /\ FreshInv'
         /\ \A F : Gone(F) => Gone(F)'
<1>1. Running' = Running BY DEF Running
<1>2. Credentials(nodes)' = Credentials(nodes) BY DEF Credentials
<1>3. \A k : Credentials(req[k].loaded)' = Credentials(req[k].loaded) BY DEF Credentials
<1>4. TableInv' BY DEF TableInv, Rows, Builds
<1>5. \A k : k <= changes /\ k \in Nat => k <= changes' BY DEF ReqInv
<1>6. ReqInv' BY <1>1, <1>5 DEF ReqInv, IsRequest, Rows
<1>7. \A v : Origin(v) \in 0 .. changes => Origin(v) \in 0 .. changes' BY DEF ReqInv
<1>8. FreshInv' BY <1>1, <1>2, <1>3, <1>7 DEF FreshInv, Settled
<1>9. \A F : Gone(F) => Gone(F)' BY <1>1, <1>2, <1>3, <1>7 DEF Gone, Settled
<1> QED BY <1>4, <1>6, <1>8, <1>9

LEMMA ServedAreCredentials ==
  ASSUME Rows(nodes), Renders(nodes, Site) PROVE Served(nodes) \subseteq Credentials(nodes)
<1> SUFFICES ASSUME NEW v \in Served(nodes) PROVE v \in Credentials(nodes)
  OBVIOUS
<1>1. Generated(v) /\ \E n \in EnabledNodes(nodes) :
                        \E j \in DOMAIN Proxy(n).secrets : v = Proxy(n).secrets[j]
  BY DEF Served
<1>2. PICK n \in EnabledNodes(nodes) : \E j \in DOMAIN Proxy(n).secrets : v = Proxy(n).secrets[j]
  BY <1>1
<1>3. PICK j \in DOMAIN Proxy(n).secrets : v = Proxy(n).secrets[j] BY <1>2
<1>4. PICK i \in DOMAIN nodes : n = nodes[i] BY DEF EnabledNodes
<1>5. n.protocol \in Protocol /\ RendersNode(n) BY <1>4 DEF Rows, IsRow, Renders
<1> DEFINE c == n.config
<1>6. \A k \in SecretKeys : k \in DOMAIN c => c[k] = Secret(c, k)
  BY DEF Secret, Get, SecretKeys
<1>7. "password" \in DOMAIN Obfs(c) => Obfs(c)["password"] = Secret(c, "obfs")
  BY DEF Secret, Get
<1>8. \E place \in Place : v = Secret(c, place)
  <2>1. CASE n.protocol = "hysteria2"
    <3>1. Proxy(n).secrets = <<c["password"], Obfs(c)["password"]>> BY <2>1 DEF Proxy
    <3>2. "password" \in DOMAIN c /\ "password" \in DOMAIN Obfs(c)
      BY <1>5, <2>1 DEF RendersNode
    <3>3. v \in {c["password"], Obfs(c)["password"]} BY <1>3, <3>1
    <3> QED BY <1>6, <1>7, <3>2, <3>3 DEF Place, SecretKeys
  <2>2. CASE n.protocol = "tuic"
    <3>1. Proxy(n).secrets = <<c["uuid"], c["password"]>> BY <2>2 DEF Proxy
    <3>2. "password" \in DOMAIN c /\ "uuid" \in DOMAIN c
      BY <1>5, <2>2 DEF RendersNode, Get, Kind, Null
    <3>3. v \in {c["uuid"], c["password"]} BY <1>3, <3>1
    <3> QED BY <1>6, <3>2, <3>3 DEF Place, SecretKeys
  <2>3. CASE n.protocol = "shadowsocks"
    <3>1. Proxy(n).secrets = <<c["password"]>> BY <2>3 DEF Proxy
    <3>2. "password" \in DOMAIN c BY <1>5, <2>3 DEF RendersNode
    <3>3. v = c["password"] BY <1>3, <3>1
    <3> QED BY <1>6, <3>2, <3>3 DEF Place, SecretKeys
  <2> QED BY <1>5, <2>1, <2>2, <2>3 DEF Protocol
<1> QED BY <1>1, <1>4, <1>8, CredentialsAre

\* A client reads the address first and the nodes after.
LEMMA FetchKeeps ==
  ASSUME TableInv, ReqInv, FreshInv, FetchInv, FetchSettings \/ FetchNodes \/ FetchEnds
  PROVE  TableInv' /\ ReqInv' /\ FreshInv' /\ FetchInv'
<1>1. UNCHANGED <<nodes, formal, req, crossed, retired, revoked, changes>>
  BY DEF FetchSettings, FetchNodes, FetchEnds, Reads
<1>2. changes' \in Nat /\ changes <= changes' BY <1>1 DEF ReqInv
<1>3. TableInv' /\ ReqInv' /\ FreshInv' /\ \A F : Gone(F) => Gone(F)' BY <1>1, <1>2, DataFrame
<1>4. Gone(revoked)' BY <1>1, <1>3 DEF FetchInv, Gone, Settled
<1>5. Gone({}) BY DEF Gone, Settled
<1>6. fetch' = NoFetch => FetchInv'
  BY <1>3, <1>4, <1>5 DEF NoFetch, FetchInv, Gone, Settled
<1>7. CASE FetchSettings
  <2>1. fetch' = [at |-> "nodes", revoked |-> revoked, content |-> {}] BY <1>7 DEF FetchSettings
  <2>2. Gone(fetch.revoked)' BY <1>1, <1>4, <2>1 DEF Gone, Settled
  <2> QED BY <1>3, <1>4, <2>1, <2>2 DEF FetchInv
<1>8. CASE FetchEnds BY <1>3, <1>6, <1>8 DEF FetchEnds
<1>9. CASE FetchNodes
  <2>1. CASE fetch' = NoFetch BY <1>3, <1>6, <2>1
  <2>2. CASE /\ Renders(nodes, Site)
             /\ fetch' = [fetch EXCEPT !.at = "done", !.content = Served(nodes)]
    <3>1. fetch'.at = "done" /\ fetch'.revoked = fetch.revoked /\ fetch'.content = Served(nodes)
          /\ DOMAIN fetch' = DOMAIN fetch
      BY <2>2 DEF FetchInv
    <3>2. Served(nodes) \cap fetch.revoked = {}
      BY <2>2, ServedAreCredentials DEF TableInv, FetchInv, Gone
    <3>3. Gone(fetch.revoked)' BY <1>3, <3>1 DEF FetchInv, Gone, Settled
    <3> QED BY <1>3, <1>4, <3>1, <3>2, <3>3 DEF FetchInv
  <2> QED BY <1>9, <2>1, <2>2 DEF FetchNodes
<1> QED BY <1>7, <1>8, <1>9

\* An editor's copy never holds a secret.
LEMMA CopyStep == ASSUME TableInv, CopyInv, [Next]_vars PROVE CopyInv'
<1>1. ASSUME NEW b \in Browser, NEW i \in DOMAIN nodes, OpenEditor(b, i) PROVE CopyInv'
  <2> DEFINE s == [id |-> i, protocol |-> nodes[i].protocol, enabled |-> nodes[i].enabled,
                   listen_port |-> nodes[i].listen_port, config |-> Redact(nodes[i].config)]
  <2>1. shown' = [shown EXCEPT ![b] = s] BY <1>1 DEF OpenEditor
  <2>2. IsRow(nodes[i]) BY DEF TableInv, Rows
  <2>3. IsCopy(s) BY <2>2, RedactHides DEF IsCopy, IsRow
  <2> HIDE DEF s
  <2> QED BY <2>1, <2>3 DEF CopyInv, IsCopy
<1>2. ASSUME NEW b \in Browser, CloseEditor(b) PROVE CopyInv'
  BY <1>2 DEF CloseEditor, CopyInv, IsCopy
<1>3. UNCHANGED shown => CopyInv' BY DEF CopyInv, IsCopy
<1>4. Changes => UNCHANGED shown BY ChangesBegin DEF Begin
<1>5. ASSUME NEW k \in Running, Commit(k) \/ Fail(k) PROVE UNCHANGED shown
  BY <1>5 DEF Commit, Fail
<1>6. Restart \/ RestartGoesOn \/ RestartElse \/ FetchSettings \/ FetchNodes \/ FetchEnds
        => UNCHANGED shown
  BY DEF Restart, RestartGoesOn, RestartElse, dataVars, FetchSettings, FetchNodes, FetchEnds
<1>7. UNCHANGED vars => UNCHANGED shown BY DEF vars, dataVars
<1> QED BY <1>1, <1>2, <1>3, <1>4, <1>5, <1>6, <1>7 DEF Next

\* Every step keeps tables, requests, copies and what can come back.
LEMMA DataStep == ASSUME DataInv, [Next]_vars PROVE DataInv'
<1> USE DEF DataInv
<1>1. CopyInv' BY CopyStep
<1>2. CASE Changes
  <2>1. ASSUME NEW p \in Protocol, NEW enabled \in BOOLEAN, NEW c \in Patches[p],
               CreateNode(p, 3, enabled, c)
        PROVE  DataInv'
    BY <1>1, <2>1, CreateBegins
  <2>2. ASSUME NEW b \in Browser, SaveEditor(b) PROVE DataInv' BY <1>1, <2>2, SaveBegins
  <2>3. CASE RegenerateAll BY <1>1, <2>3, AllBegins
  <2>4. ASSUME NEW i \in DOMAIN nodes, PatchNode(i) PROVE DataInv' BY <1>1, <2>4, PatchBegins
  <2>5. ASSUME NEW i \in DOMAIN nodes, NEW enabled \in BOOLEAN, SetEnabled(i, enabled)
        PROVE  DataInv'
    BY <1>1, <2>5, EnableBegins
  <2>6. ASSUME NEW i \in DOMAIN nodes, DeleteNode(i) PROVE DataInv' BY <1>1, <2>6, DeleteBegins
  <2>7. ASSUME NEW i \in DOMAIN nodes, RegenerateSecret(i) PROVE DataInv'
    BY <1>1, <2>7, SecretBegins
  <2> QED BY <1>2, <2>1, <2>2, <2>3, <2>4, <2>5, <2>6, <2>7 DEF Changes
<1>3. ASSUME NEW k \in Running, Commit(k) PROVE DataInv'
  BY <1>1, <1>3, CommitTables, CommitCredentials, EndedRequest
<1>4. ASSUME NEW k \in Running, Fail(k) PROVE DataInv' BY <1>1, <1>4, FailKeeps
<1>5. CASE FetchSettings \/ FetchNodes \/ FetchEnds BY <1>1, <1>5, FetchKeeps
<1>6. ASSUME UNCHANGED <<nodes, formal, req, crossed, retired, revoked, fetch>>,
             changes' = changes \/ (changes' = MaxChanges /\ changes = 0)
      PROVE  DataInv'
  <2>1. changes' \in Nat /\ changes <= changes' BY <1>6, BoundAssumption DEF ReqInv
  <2>2. TableInv' /\ ReqInv' /\ FreshInv' /\ \A F : Gone(F) => Gone(F)'
    BY <1>6, <2>1, DataFrame
  <2>3. FetchInv' BY <1>6, <2>2 DEF FetchInv, Gone, Settled
  <2> QED BY <1>1, <2>2, <2>3
<1>7. CASE Restart BY <1>6, <1>7 DEF Restart
<1>8. CASE RestartGoesOn \/ RestartElse
  BY <1>6, <1>8 DEF RestartGoesOn, RestartElse, dataVars
<1>9. ASSUME NEW b \in Browser, CloseEditor(b) \/ \E i \in DOMAIN nodes : OpenEditor(b, i)
      PROVE  DataInv'
  BY <1>6, <1>9 DEF OpenEditor, CloseEditor, Reads
<1>10. CASE UNCHANGED vars BY <1>6, <1>10 DEF vars, dataVars
<1> QED BY <1>2, <1>3, <1>4, <1>5, <1>7, <1>8, <1>9, <1>10 DEF Next

\* Hence they hold always.
LEMMA DataInvariance == Spec => []DataInv
<1>1. DataInv /\ [Next]_vars => DataInv' BY DataStep
<1> QED BY DataInit, <1>1, PTL DEF Spec

------------------------------------------------------------------------------
(* What the administrator and the clients see of it.                       *)

\* Every variable has its type, whatever requests cross; and whatever copies editors send back
\* and in whatever order, no row's own password or UUID is the placeholder (api/nodes.py:33).
THEOREM ServingTypes == Spec => []TypeOK
<1>1. DataInv /\ RestartTypeOK => TypeOK
  BY DEF DataInv, TableInv, Rows, ReqInv, IsRequest, FetchInv, TypeOK
<1> QED BY DataInvariance, ServingImplementsRestart, RestartTypes, <1>1, PTL

\* A generated credential that was replaced comes back at most by the commit of a request that
\* had loaded it before: not by a copy in an editor, not by a credential made twice, and not by
\* a request that began after the replacement (api/nodes.py:33, :160, core/logging.py:53).
THEOREM ReplacedStayReplaced == Spec => ReplacedSecretsStayReplaced
<1> DEFINE A == \A v \in Credentials(nodes') \cap retired :
                  v \in Credentials(nodes) \/
                    \E k \in Running : req'[k] = Absent /\ v \in Credentials(req[k].loaded)
<1>1. ASSUME DataInv, NEW k \in Running, Commit(k) PROVE A
  <2>1. /\ nodes' = Written(req[k]) /\ NewIds(req[k]) \subseteq NodeId
        /\ req' = [req EXCEPT ![k] = Absent]
    BY <1>1 DEF Commit
  <2>2. IsRequest(k, req[k]) /\ k \in DOMAIN req BY <1>1 DEF DataInv, ReqInv, Running
  <2>3. req'[k] = Absent BY <2>1, <2>2
  <2>4. ASSUME NEW v \in Credentials(nodes') \cap retired
        PROVE  v \in Credentials(nodes) \/ v \in Credentials(req[k].loaded)
    <3>1. Origin(v) # k BY <1>1, <2>4 DEF DataInv, FreshInv, Settled
    <3>2. v \in Credentials(Written(req[k])) BY <2>1, <2>4
    <3> QED BY <1>1, <2>1, <2>2, <3>1, <3>2, WrittenCredentials DEF DataInv, TableInv
  <2> QED BY <2>3, <2>4
<1>2. ASSUME nodes' = nodes PROVE A
  BY <1>2
<1>3. Changes => nodes' = nodes BY ChangesBegin DEF Begin
<1>4. ASSUME NEW k \in Running, Fail(k) PROVE nodes' = nodes BY <1>4 DEF Fail
<1>5. ASSUME NEW b, CloseEditor(b) \/ \E i \in DOMAIN nodes : OpenEditor(b, i)
      PROVE  nodes' = nodes
  BY <1>5 DEF OpenEditor, CloseEditor, Reads
<1>6. Restart \/ RestartGoesOn \/ RestartElse \/ FetchSettings \/ FetchNodes \/ FetchEnds
        => nodes' = nodes
  BY DEF Restart, RestartGoesOn, RestartElse, dataVars, FetchSettings, FetchNodes, FetchEnds, Reads
<1> HIDE DEF A
<1>7. DataInv /\ [Next]_vars => [A]_vars
  BY <1>1, <1>2, <1>3, <1>4, <1>5, <1>6 DEF Next
<1>8. [][A]_vars => ReplacedSecretsStayReplaced
  BY DEF A, ReplacedSecretsStayReplaced
<1> QED BY DataInvariance, <1>7, <1>8, PTL DEF Spec

\* Under the address that a regenerate-all has issued no client is ever served a credential that
\* it put out of use: token and nodes are read with two queries (api/subscription.py:108), and
\* only a row that it had not listed, one that another request had loaded, or a place that the
\* protocol does not use can still bring an older one.
THEOREM NewAddressServesNewSecrets == Spec => []NewAddressNewSecrets
<1>1. DataInv => NewAddressNewSecrets
  BY DEF DataInv, FetchInv, NewAddressNewSecrets
<1> QED BY DataInvariance, <1>1, PTL

\* The four translations of a row agree: what the health check waits for, what the status
\* page looks for.
LEMMA TransportsAgree ==
  ASSUME NEW n, n.protocol \in Protocol
  PROVE  Inbound(n).network = ExpectedTransports(n) /\ Inbound(n).port = n.listen_port
  BY DEF Inbound, ExpectedTransports, Network, Protocol

\* One row that builds gives client and server the same.
LEMMA ProxyMatchesInbound ==
  ASSUME NEW n, n.protocol \in Protocol, BuildsNode(n, Site)
  PROVE  Proxy(n) = Inbound(n)
<1> DEFINE c == n.config
<1>0. /\ \A k \in SecretKeys : Secret(c, k) # Null => k \in DOMAIN c /\ c[k] = Secret(c, k)
      /\ Secret(c, "obfs") # Null => Obfs(c)["password"] = Secret(c, "obfs")
  BY DEF Secret, Get, SecretKeys
<1>00. ~IsCredential(Null) BY DEF IsCredential, Kind, Null
<1>1. Secrets(n.protocol, n.config) = Proxy(n).secrets
  <2>1. CASE n.protocol = "hysteria2"
    <3>1. Secret(c, "password") # Null /\ Secret(c, "obfs") # Null
      BY <1>00, <2>1 DEF BuildsNode, BuildsHysteria2, LongString
    <3> QED BY <1>0, <2>1, <3>1 DEF Secrets, Proxy, SecretKeys
  <2>2. CASE n.protocol = "tuic"
    <3>1. Secret(c, "password") # Null
      BY <1>00, <2>2 DEF BuildsNode, BuildsTuic, LongString
    <3>2. Secret(c, "uuid") # Null
      BY <2>2 DEF BuildsNode, BuildsTuic, Secret, Kind, Null
    <3> QED BY <1>0, <2>2, <3>1, <3>2 DEF Secrets, Proxy, SecretKeys
  <2>3. CASE n.protocol = "shadowsocks"
    <3>1. Secret(c, "password") # Null
      BY <2>3 DEF BuildsNode, BuildsShadowsocks, Secret, Kind, Null
    <3> QED BY <1>0, <2>3, <3>1 DEF Secrets, Proxy, SecretKeys
  <2> QED BY <2>1, <2>2, <2>3 DEF Protocol
<1>2. Inbound(n).alpn = Proxy(n).alpn
  BY DEF Inbound, Proxy, Protocol
<1>3. Inbound(n).network = Proxy(n).network
  <2>1. CASE n.protocol = "shadowsocks" BY <2>1 DEF Inbound, Proxy, Network
  <2>2. CASE n.protocol # "shadowsocks" BY <2>2 DEF Inbound, Proxy, Protocol
  <2> QED BY <2>1, <2>2
<1> QED BY <1>1, <1>2, <1>3 DEF Inbound, Proxy

LEMMA EnabledRows == ASSUME TableInv, NEW n \in EnabledNodes(formal)
                     PROVE  n.protocol \in Protocol /\ n.enabled /\ BuildsNode(n, Site)
  BY DEF TableInv, Rows, IsRow, EnabledNodes, Builds

\* Where no other request met the one that was applied, the row is the one of the file.
LEMMA RowsNotCrossed ==
  ASSUME TableInv, NEW i \in DOMAIN nodes \ crossed
  PROVE  /\ formal[i] = nodes[i] /\ nodes[i].protocol \in Protocol
         /\ nodes[i].enabled => BuildsNode(nodes[i], Site)
  BY EnabledRows DEF TableInv, Rows, IsRow, EnabledNodes

\* A client finds at the port of each node that it is given an inbound of that protocol with its
\* credentials, ALPN and transports, but for a row on which two requests met: subscription.py:32
\* and singbox_config.py:63 agree on every row that builds.
THEOREM ClientsAreServed == Spec => []ClientsMatchServer
<1>1. DataInv => ClientsMatchServer
  BY RowsNotCrossed, ProxyMatchesInbound DEF DataInv, ClientsMatchServer
<1> QED BY DataInvariance, <1>1, PTL

\* While no requests have crossed, the status page shows every enabled node running exactly when
\* the health check of a restart would wait for nothing more, on any host
\* (network_health.py:36, system_status.py:45).
THEOREM StatusPageAgrees == Spec => []StatusAgrees
<1>1. DataInv => StatusAgrees
  <2> SUFFICES ASSUME DataInv, crossed = {}, NEW listening \in SUBSET ExpectedListeners(formal)
      PROVE (listening = ExpectedListeners(formal)) =
              (\A n \in EnabledNodes(nodes) : RuntimeStatus(n, TRUE, listening) = "running")
    BY DEF StatusAgrees
  <2>0. EnabledNodes(nodes) = EnabledNodes(formal)
    BY RowsNotCrossed DEF DataInv, TableInv, EnabledNodes
  <2>1. \A n \in EnabledNodes(nodes) :
          /\ n.enabled
          /\ Inbound(n).network = ExpectedTransports(n) /\ Inbound(n).port = n.listen_port
    BY <2>0, EnabledRows, TransportsAgree DEF DataInv
  <2>2. \A n \in EnabledNodes(nodes) :
          RuntimeStatus(n, TRUE, listening) = "running" <=>
            \A w \in ExpectedTransports(n) : <<w, n.listen_port>> \in listening
    BY <2>1 DEF RuntimeStatus
  <2>3. ExpectedListeners(formal) =
          UNION {{<<w, n.listen_port>> : w \in ExpectedTransports(n)} : n \in EnabledNodes(nodes)}
    BY <2>0, <2>1 DEF ExpectedListeners
  <2>4. ExpectedListeners(formal) \subseteq listening <=>
          \A n \in EnabledNodes(nodes) : \A w \in ExpectedTransports(n) :
            <<w, n.listen_port>> \in listening
    BY <2>3
  <2>5. listening = ExpectedListeners(formal) <=>
          \A n \in EnabledNodes(nodes) : RuntimeStatus(n, TRUE, listening) = "running"
    <3>1. listening = ExpectedListeners(formal) <=> ExpectedListeners(formal) \subseteq listening
      OBVIOUS
    <3> QED BY <2>2, <2>4, <3>1
  <2> QED BY <2>5
<1> QED BY DataInvariance, <1>1, PTL

\* A node whose inbound builds is rendered for the clients, but for the two options only the
\* subscription reads.
LEMMA BuiltIsRendered ==
  ASSUME NEW n, n.protocol \in Protocol, BuildsNode(n, Site),
         InRange(Get(n.config, "handshake_timeout", Number(15)), 1, 60),
         InRange(Get(n.config, "request_timeout", Number(10000)), 1000, 60000)
  PROVE  RendersNode(n)
<1> DEFINE c == n.config
<1>0. /\ LongString(c, "password") => "password" \in DOMAIN c
      /\ LongString(c, "obfs") => "password" \in DOMAIN Obfs(c)
  BY DEF LongString, Secret, Get, IsCredential, Kind, Null
<1>1. CASE n.protocol = "hysteria2"
  BY <1>0, <1>1 DEF BuildsNode, BuildsHysteria2, RendersNode
<1>2. CASE n.protocol = "tuic"
  BY <1>0, <1>2 DEF BuildsNode, BuildsTuic, TuicOptions, TuicDurations, Durations, RendersNode
<1>3. CASE n.protocol = "shadowsocks"
  <2>1. "password" \in DOMAIN n.config
    BY <1>3 DEF BuildsNode, BuildsShadowsocks, Get, Kind, Null
  <2> QED BY <1>3, <2>1 DEF BuildsNode, BuildsShadowsocks, RendersNode
<1> QED BY <1>1, <1>2, <1>3 DEF Protocol

\* An enabled node of an applied table is rendered for the clients, but for the two options that
\* only the subscription reads (subscription.py:39), and but for a row on which two requests met:
\* no other accepted edit takes the subscription away from everybody.
THEOREM OnlyTwoOptionsRefused == Spec => []OnlyClientOptionsRefused
<1>1. DataInv => OnlyClientOptionsRefused
  BY RowsNotCrossed, BuiltIsRendered DEF DataInv, OnlyClientOptionsRefused
<1> QED BY DataInvariance, <1>1, PTL
==============================================================================
