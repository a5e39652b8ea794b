CONSTANTS
    Schemes = {"http", "https", "ws", "wss", "ftp"}
    Hosts = {"example.com"}
    Ports = {80, 443, 8443}
    Paths = {"", "/secret-path"}
    EmptyPath = ""
    None = None

SPECIFICATION Spec
INVARIANTS
    TypeOK
    EndpointPreserved
    ResolveIdempotent
\* connect() returns: an open stream or an error ends it.
CHECK_DEADLOCK FALSE
