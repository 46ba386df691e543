---------------------------- MODULE MCNodeServing ----------------------------
(* Small instances of NodeServing for TLC. *)
EXTENDS NodeServing

MCSite == [tls |-> TRUE, server |-> TRUE]

Node(p, port, enabled, i) ==
  [protocol |-> p, enabled |-> enabled, listen_port |-> port, config |-> DefaultConfig(p, <<0, i>>)]

\* The nodes of an installation, and two of which one is disabled.
MCSeeds == {<<Node("hysteria2", 1, TRUE, 1), Node("shadowsocks", 2, TRUE, 3)>>,
            <<Node("tuic", 1, TRUE, 1), Node("hysteria2", 2, FALSE, 3)>>}

Fields(p, up, method, udp, beat) ==
  CASE p = "hysteria2"   -> [up_mbps |-> up, down_mbps |-> Null]
    [] p = "tuic"        -> [congestion_control |-> Text("bbr"), heartbeat |-> Duration(beat)]
    [] p = "shadowsocks" -> [method |-> Text(method), udp |-> Bool(udp)]
MCForms == [p \in Protocol |->
  {Fields(p, Null, Method128, TRUE, "s"), Fields(p, Number(5), Method256, FALSE, "h")}]

\* What an administrator may send of his own, right and wrong: his own secret, an option out
\* of range or of another type, an object with the placeholder he was shown.
MCPatches ==
  [hysteria2 |-> {[handshake_timeout |-> Number(0)], [obfs |-> Null],
                  [ignore_client_bandwidth |-> Text("no")]},
   tuic |-> {[zero_rtt_handshake |-> Text("false")], [user |-> Uuid(<<0, 9>>)],
             [obfs |-> Object([password |-> Redacted])]},
   shadowsocks |-> {[method |-> Text(Method256)], [password |-> Typed],
                    [method |-> Text("aes-128-gcm")]}]
==============================================================================
