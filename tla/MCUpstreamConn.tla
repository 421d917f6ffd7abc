-------------------------- MODULE MCUpstreamConn ---------------------------
(* One upstream suffices for every property: upstreams share only the        *)
(* manager's mutex.  Three configuration changes let it be enabled, changed  *)
(* or removed, and enabled again.                                            *)
EXTENDS UpstreamConn

MCUpstreams == {"up"}
TwoHandlers == {"h1", "h2"}
OneUrl == {"u1"}
=============================================================================
