----------------------------- MODULE MCProxyFlow -----------------------------
(***************************************************************************)
(* Two requests through the proxy, each of any size in either direction.   *)
(***************************************************************************)
EXTENDS ProxyFlow

CONSTANTS r1, r2

=============================================================================
