-------------------------- MODULE WebTunnelProofs --------------------------
(***************************************************************************)
(* Proofs about WebTunnel, for every set of schemes, hosts, ports and      *)
(* paths: the URL to_wss_url writes parses back to itself, designates the  *)
(* endpoint the configuration designates, and is a fixed point of          *)
(* to_wss_url; hence connect() dials the configured bridge.                *)
(***************************************************************************)
EXTENDS WebTunnel, TLAPS

USE SchemesAssumption, EmptyPathAssumption, SpecialSchemesAssumption, NoneAssumption

(* The default ports and the scheme rewrite, one scheme at a time.         *)
LEMMA SchemeFacts ==
    /\ DOMAIN DefaultPort = {"http", "https", "ws", "wss", "ftp"}
    /\ DefaultPort["http"] = 80 /\ DefaultPort["ws"] = 80
    /\ DefaultPort["https"] = 443 /\ DefaultPort["wss"] = 443
    /\ WsScheme("http") = "ws" /\ WsScheme("https") = "wss"
    /\ WsScheme("ws") = "ws" /\ WsScheme("wss") = "wss"
    /\ WsScheme("ftp") = None
BY DEF DefaultPort, WsScheme

(* What to_wss_url returns for a configuration it accepts.                 *)
LEMMA ToWssUrlFacts ==
    ASSUME NEW u \in Configs, ToWssUrl(u) # None
    PROVE  LET w == ToWssUrl(u) IN
           /\ w \in WsUrls
           /\ Parse(w) = w
           /\ Endpoint(w) = Endpoint(Parse(u))
           /\ ToWssUrl(w) = w
<1> DEFINE p == Parse(u)
           w == ToWssUrl(u)
<1>1. u.host # None /\ p # None
  <2>1. p # None
    BY DEF ToWssUrl
  <2>. QED
    BY <2>1 DEF Parse
<1>2. u.scheme \in {"http", "https", "ws", "wss"}
  <2>1. WsScheme(p.scheme) # None
    BY DEF ToWssUrl
  <2>2. p.scheme = u.scheme
    BY <1>1 DEF Parse
  <2>. QED
    BY <2>1, <2>2, SchemeFacts DEF Configs
<1>3. /\ p = [scheme |-> u.scheme, host |-> u.host,
              port |-> IF u.port = DefaultPort[u.scheme] THEN None ELSE u.port,
              path |-> IF u.path = EmptyPath THEN "/" ELSE u.path, query |-> u.query]
      /\ w = [scheme |-> WsScheme(u.scheme), host |-> u.host, port |-> p.port,
              path |-> p.path, query |-> None]
  BY <1>1 DEF Parse, ToWssUrl
<1>4. /\ WsScheme(u.scheme) \in {"ws", "wss"}
      /\ DefaultPort[WsScheme(u.scheme)] = DefaultPort[u.scheme]
      /\ WsScheme(u.scheme) \in {"https", "wss"} <=> u.scheme \in {"https", "wss"}
      /\ WsScheme(WsScheme(u.scheme)) = WsScheme(u.scheme)
  BY <1>2, SchemeFacts
<1>5. w \in WsUrls
  BY <1>1, <1>3, <1>4 DEF Configs, WsUrls
<1>6. Parse(w) = w
  <2>1. w.port # DefaultPort[w.scheme] \/ w.port = None
    BY <1>3, <1>4
  <2>2. w.port = None => None # DefaultPort[w.scheme]
    BY <1>3, <1>4, SchemeFacts
  <2>3. w.path # EmptyPath /\ w.host # None
    BY <1>1, <1>3 DEF Configs
  <2>. QED
    BY <2>1, <2>2, <2>3, <1>3 DEF Parse
<1>7. Endpoint(w) = Endpoint(p)
  <2>1. p.port = None => u.port = DefaultPort[u.scheme] \/ u.port = None
    BY <1>3
  <2>. QED
    BY <1>3, <1>4, <2>1 DEF Endpoint, Configs
<1>8. ToWssUrl(w) = w
  BY <1>3, <1>4, <1>6, <1>5 DEF ToWssUrl, WsUrls
<1>. QED
  BY <1>5, <1>6, <1>7, <1>8

-----------------------------------------------------------------------------
(* The resolved URL is what to_wss_url made of the configuration, and the *)
(* endpoint dialled is the one that URL parses to.                         *)
IInv ==
    /\ TypeOK
    /\ wssUrl # None => wssUrl = ToWssUrl(cfg)
    /\ pc \in {"handshake", "open"} => wssUrl # None
    /\ pc = "idle" => dialed = None
    /\ dialed # None => wssUrl # None /\ dialed = Endpoint(Parse(wssUrl))

LEMMA InitIInv == Init => IInv
BY DEF Init, IInv, TypeOK

LEMMA StepIInv == IInv /\ [Next]_vars => IInv'
<1> SUFFICES ASSUME IInv, [Next]_vars PROVE IInv'
  OBVIOUS
<1>1. CASE Resolve
  <2>1. CASE ToWssUrl(cfg) = None
    BY <1>1, <2>1 DEF Resolve, IInv, TypeOK
  <2>2. CASE ToWssUrl(cfg) # None
    <3>1. ToWssUrl(cfg) \in WsUrls
      BY <2>2, ToWssUrlFacts DEF IInv, TypeOK
    <3>2. /\ pc' = "handshake" /\ wssUrl' = ToWssUrl(cfg)
          /\ UNCHANGED <<cfg, dialed, err>>
      BY <1>1, <2>2 DEF Resolve
    <3>3. dialed = None
      BY <1>1 DEF Resolve, IInv
    <3>. QED
      BY <2>2, <3>1, <3>2, <3>3 DEF IInv, TypeOK
  <2>. QED
    BY <2>1, <2>2
<1>2. CASE Handshake
  BY <1>2 DEF Handshake, IInv, TypeOK
<1>3. CASE UNCHANGED vars
  BY <1>3 DEF vars, IInv, TypeOK
<1>. QED
  BY <1>1, <1>2, <1>3 DEF Next

LEMMA IInvInvariant == Spec => []IInv
BY InitIInv, StepIInv, PTL DEF Spec

-----------------------------------------------------------------------------
(* connect() dials the configured bridge, for every configuration: TLS    *)
(* exactly for https and wss, the configured host and path, and the port  *)
(* written or, when none is, the configured scheme's default, although    *)
(* to_wss_url rewrote the scheme and the url crate dropped default ports. *)
THEOREM EndpointPreservedInv == Spec => []EndpointPreserved
<1>1. IInv => EndpointPreserved
  BY ToWssUrlFacts DEF IInv, TypeOK, EndpointPreserved
<1>. QED
  BY <1>1, IInvInvariant, PTL

(* to_wss_url is idempotent on what it returns: the URL connect() hands   *)
(* to the WebSocket layer resolves to itself.                              *)
THEOREM ResolveIdempotentInv == Spec => []ResolveIdempotent
<1>1. IInv => ResolveIdempotent
  BY ToWssUrlFacts DEF IInv, TypeOK, ResolveIdempotent
<1>. QED
  BY <1>1, IInvInvariant, PTL

(* The configuration, the resolved URL and the connection state keep their *)
(* types in every reachable state of connect().                            *)
THEOREM TypeCorrect == Spec => []TypeOK
<1>1. IInv => TypeOK
  BY DEF IInv
<1>. QED
  BY <1>1, IInvInvariant, PTL
=============================================================================
