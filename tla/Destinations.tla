------------------------------ MODULE Destinations ------------------------------
(***************************************************************************)
(* What the SDK takes a URL for: _machine_agent._origin, for the resource  *)
(* servers an agent may send its token to, and                             *)
(* _machine_auth._validate_token_endpoint.  A URL is what urlsplit finds   *)
(* in it, with the reasons to refuse it folded into `flaw`.                *)
(***************************************************************************)
EXTENDS Naturals

NoPort == 65536   \* no port is written: larger than any port

Schemes == {"https", "http", "other"}
\* Of both checks: white space or control characters, userinfo, a fragment, no
\* host, a port that is none; of _origin alone: a backslash, an escaped or
\* unencodable host; of the endpoint's alone: a `#` with nothing after it.
Flaws == {"none", "malformed", "escaped", "hash"}
\* Hosts, whatever the case they are written in.
Hosts == {"remote", "other", "localhost", "127.0.0.1", "127.0.0.2"}

UrlRecords == [scheme : Schemes, host : Hosts,
               port : 0..NoPort, path : BOOLEAN, flaw : Flaws]

DefaultPort(scheme) == IF scheme = "https" THEN 443 ELSE 80

\* Mutant: port 0, which `or` takes for no port, is let through.
RefusedButZero(u) ==
  \/ u.flaw \in {"malformed", "escaped"} \/ u.scheme = "other"
  \/ u.scheme = "http" /\ u.host \notin {"localhost", "127.0.0.1"}
Refused(u) ==
  \/ u.flaw \in {"malformed", "escaped"} \/ u.scheme = "other" \/ u.port = 0
  \/ u.scheme = "http" /\ u.host \notin {"localhost", "127.0.0.1"}

Origin(u) == <<u.scheme, u.host,
               IF u.port \in {0, NoPort} THEN DefaultPort(u.scheme) ELSE u.port>>

EndpointAccepted(u) ==
  /\ u.flaw \notin {"malformed", "hash"} /\ u.scheme # "other" /\ u.port # 0
  /\ u.scheme = "http" => u.host \in {"localhost", "127.0.0.1", "127.0.0.2"}

\* The reference: two URLs lead to one server over one protocol.
TcpPort(u) == IF u.port = NoPort THEN DefaultPort(u.scheme) ELSE u.port
SameServer(u, v) == u.scheme = v.scheme /\ u.host = v.host /\ TcpPort(u) = TcpPort(v)
================================================================================
