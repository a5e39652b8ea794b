------------------------------ MODULE WebTunnel ------------------------------
(***************************************************************************)
(* WebTunnelConfig::to_wss_url and WebTunnelBridge::connect                *)
(* (src/webtor/src/webtunnel.rs): the configured bridge URL is parsed with *)
(* the url crate, its scheme rewritten to the WebSocket one and the URL    *)
(* formatted again from scheme, host, port and path; the WebSocket layer   *)
(* then parses that string and dials it.                                   *)
(*                                                                         *)
(* A URL is a record of its components.  Url::parse is modelled by what it *)
(* does to them: a special scheme needs a host, an explicit port equal to  *)
(* the scheme's default port is dropped (url.port() is None), and an empty *)
(* path becomes "/".  Query and fragment are one component, `query`.       *)
(***************************************************************************)
EXTENDS Naturals

CONSTANTS
    Schemes,  \* schemes a configuration may carry
    Hosts,    \* host names
    Ports,    \* explicit ports a configuration may carry
    Paths,    \* paths, EmptyPath among them
    EmptyPath, \* the empty path ""
    None      \* model value: no host, no port, no query

ASSUME SchemesAssumption == {"http", "https", "ws", "wss"} \subseteq Schemes
ASSUME EmptyPathAssumption == EmptyPath # "/"

(* The url crate's special schemes and their default ports.                *)
DefaultPort ==
    [s \in {"http", "https", "ws", "wss", "ftp"} |->
        IF s \in {"http", "ws"} THEN 80
        ELSE IF s \in {"https", "wss"} THEN 443
        ELSE 21]

(* Every configurable scheme is one the url crate knows a default port of, *)
(* and None is no host, port or path.                                      *)
ASSUME SpecialSchemesAssumption == Schemes \subseteq DOMAIN DefaultPort
ASSUME NoneAssumption ==
    /\ None \notin Hosts /\ None \notin Ports /\ None \notin Paths
    /\ \A s \in DOMAIN DefaultPort : DefaultPort[s] # None

Configs == [scheme : Schemes, host : Hosts \cup {None}, port : Ports \cup {None},
            path : Paths, query : {None, "q"}]

(* The strings to_wss_url may return.                                     *)
WsUrls == [scheme : {"ws", "wss"}, host : Hosts, port : Ports \cup {None},
           path : (Paths \ {EmptyPath}) \cup {"/"}, query : {None}]

(* Url::parse: None on a parse error.                                      *)
Parse(u) ==
    IF u.host = None THEN None
    ELSE [scheme |-> u.scheme,
          host   |-> u.host,
          port   |-> IF u.port = DefaultPort[u.scheme] THEN None ELSE u.port,
          path   |-> IF u.path = EmptyPath THEN "/" ELSE u.path,
          query  |-> u.query]

(* The scheme match of to_wss_url; None for the error arm.                 *)
WsScheme(s) ==
    IF s = "https" THEN "wss"
    ELSE IF s = "http" THEN "ws"
    ELSE IF s \in {"wss", "ws"} THEN s
    ELSE None

(* Mutant: `"wss" | "ws" | "https" => url.scheme()`.                      *)
ToWssUrlKeepsHttps(u) ==
    LET p == Parse(u) IN
    IF p = None \/ WsScheme(p.scheme) = None THEN None
    ELSE [scheme |-> IF p.scheme = "https" THEN "https" ELSE WsScheme(p.scheme),
          host |-> p.host, port |-> p.port, path |-> p.path, query |-> None]

(* Mutant: only the `else` arm of the format: the port is never written.   *)
ToWssUrlDropsPort(u) ==
    LET p == Parse(u) IN
    IF p = None \/ WsScheme(p.scheme) = None THEN None
    ELSE [scheme |-> WsScheme(p.scheme), host |-> p.host, port |-> None,
          path |-> p.path, query |-> None]

(* Mutant: `"wss" | "ws" => "wss"`.                                        *)
ToWssUrlUpgradesWs(u) ==
    LET p == Parse(u) IN
    IF p = None \/ WsScheme(p.scheme) = None THEN None
    ELSE [scheme |-> IF p.scheme \in {"https", "wss", "ws"} THEN "wss" ELSE "ws",
          host |-> p.host, port |-> p.port, path |-> p.path, query |-> None]

(* to_wss_url: the resulting string, as the components it is written      *)
(* from (the port only when url.port() is Some, no query); None for a      *)
(* Configuration error.                                                    *)
ToWssUrl(u) ==
    LET p == Parse(u) IN
    IF p = None \/ WsScheme(p.scheme) = None THEN None
    ELSE [scheme |-> WsScheme(p.scheme), host |-> p.host, port |-> p.port,
          path |-> p.path, query |-> None]

(* The endpoint a parsed URL designates: TLS or not, host, port, path.     *)
Endpoint(p) ==
    [tls  |-> p.scheme \in {"https", "wss"},
     host |-> p.host,
     port |-> IF p.port = None THEN DefaultPort[p.scheme] ELSE p.port,
     path |-> p.path]

-----------------------------------------------------------------------------
VARIABLES
    cfg,      \* WebTunnelConfig.url
    pc,
    wssUrl,   \* the string to_wss_url returned
    dialed,   \* the endpoint the WebSocket layer connected to
    err       \* "config" or "network"; None on success

vars == <<cfg, pc, wssUrl, dialed, err>>

TypeOK ==
    /\ cfg \in Configs
    /\ pc \in {"idle", "handshake", "open", "failed"}
    /\ wssUrl \in WsUrls \cup {None}
    /\ err \in {"config", "network", None}

Init ==
    /\ cfg \in Configs
    /\ pc = "idle"
    /\ wssUrl = None
    /\ dialed = None
    /\ err = None

(* connect(): `self.config.to_wss_url()?` ...                              *)
Resolve ==
    /\ pc = "idle"
    /\ IF ToWssUrl(cfg) = None
         THEN /\ pc' = "failed"
              /\ err' = "config"
              /\ UNCHANGED wssUrl
         ELSE /\ pc' = "handshake"
              /\ wssUrl' = ToWssUrl(cfg)
              /\ UNCHANGED err
    /\ UNCHANGED <<cfg, dialed>>

(* ... then WebSocketStream::connect(&wss_url).await?, which parses the    *)
(* string and dials its endpoint; the handshake may fail.                  *)
Handshake ==
    /\ pc = "handshake"
    /\ dialed' = Endpoint(Parse(wssUrl))
    /\ \/ /\ pc' = "open"
          /\ UNCHANGED err
       \/ /\ pc' = "failed"
          /\ err' = "network"
    /\ UNCHANGED <<cfg, wssUrl>>

Next == Resolve \/ Handshake

Spec == Init /\ [][Next]_vars

-----------------------------------------------------------------------------
(* Spec 6: the bridge dialled is the one configured: TLS exactly when the  *)
(* configured scheme is https or wss, the same host, the same port (the    *)
(* one written, or the scheme's default), the same path.  This depends on  *)
(* url.port() hiding default ports and on http/ws and https/wss sharing    *)
(* their defaults.                                                         *)
EndpointPreserved ==
    dialed # None => dialed = Endpoint(Parse(cfg))

(* Spec 8: resolving an already resolved URL changes nothing, and no port  *)
(* token is inserted (https://host/path gives wss://host/path).            *)
ResolveIdempotent ==
    wssUrl # None => ToWssUrl(wssUrl) = wssUrl

(* Spec 8, idempotence: a URL already in ws or wss form is returned       *)
(* unchanged by to_wss_url, which connect() then dials.                    *)
WsUrlUnchanged ==
    wssUrl # None /\ cfg.scheme \in {"ws", "wss"} => wssUrl = cfg

=============================================================================
