-------------------------- MODULE MCRpcConnection --------------------------
(* Instances of RpcConnection for TLC: a client that calls twice and one     *)
(* that calls once.                                                          *)
EXTENDS RpcConnection

MCMaxCalls == [c \in Clients |-> IF c = "two" THEN 2 ELSE 1]

\* The content "v" has the digest "hv", which is a key as well, and so is "v",
\* too short to be a digest; "v " arrives as "v".
MCDigest == [v \in Values \cup Short |-> IF v = "v" THEN "hv" ELSE "hu"]
MCUnspaced == [k \in {"v "} |-> "v"]

\* Between them the clients call a method of every outcome.  Where the
\* request of the client that calls once is cut makes no difference.
MCCall(m, k, v, p, f, t) ==
  [method |-> m, key |-> k, value |-> [b64 |-> v], params |-> p, full |-> f, cut |-> t]
MCCalls == [c \in Clients |-> IF c = "two"
  THEN { MCCall("kv.get", "hv", "v", "ok", "no", "crlf"),
         MCCall("kv.put", "v ", "v", "ok", "no", "inside") }
  ELSE { MCCall("kv.put", "hv", v, "ok", "no", "inside") : v \in Values }
       \cup { MCCall(m, "hv", "u", "ok", "no", "inside") :
                 m \in {"kv.remove", "object.create", "session.t.join"} }
       \cup { MCCall("object.get", "hv", "u", "ok", "mistyped", "inside"),
              MCCall("file.get", "f", "u", "ok", "no", "inside"),
              MCCall("no.such", "f", "u", "absent", "no", "inside") }]
============================================================================
