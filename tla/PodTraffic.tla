----------------------------- MODULE PodTraffic -----------------------------
(***************************************************************************)
(* Calls between services whose pods may have a sidecar.  A client's call  *)
(* enters a pod through its sidecar, whose reverse proxy has one target,   *)
(* the application next to it.  The webhook gives the application          *)
(* HTTP_PROXY and NO_PROXY, so that its own calls over plain HTTP, except  *)
(* those to localhost, go to the sidecar of its own pod first.             *)
(*                                                                         *)
(* An identifier, the value of a header that a rule generates, is named by *)
(* the call it was made for.                                               *)
(***************************************************************************)
EXTENDS Naturals

CONSTANTS
    Pods,        \* one per service
    Injected,    \* the pods that have a sidecar
    Copying,     \* the pods whose application copies the identifier to its calls
    Calls,       \* bound on the calls
    NoId,        \* the header is missing
    OwnPaths,    \* /healthz, /ready, /metrics: the sidecar's own
    Paths        \* the other paths

ASSUME TrafficAssumption ==
    /\ Injected \subseteq Pods
    /\ Copying \subseteq Pods
    /\ NoId \notin Calls
    /\ OwnPaths \cap Paths = {}

VARIABLE call   \* the calls

vars == call

\* at: "none", "sidecar" or "app" of pod, or answered by one of them; dest is
\* the service it was meant for, root the client's call that led to it.
Call ==
    [at : {"none", "sidecar", "app", "by sidecar", "by app"},
     pod : Pods, dest : Pods, root : Calls, id : Calls \cup {NoId},
     path : OwnPaths \cup Paths]

Unused(c) == call[c].at = "none"
Served(c) == call[c].at \in {"app", "by app"}

Init ==
    \E p \in Pods, t \in Paths :
        call = [c \in Calls |-> [at |-> "none", pod |-> p, dest |-> p, root |-> c,
                                 id |-> NoId, path |-> t]]

\* A call over HTTP from outside arrives at the service of pod p.
Door(p) == IF p \in Injected THEN "sidecar" ELSE "app"

\* A client calls a service, with an identifier or without.
ClientCalls(c) ==
    /\ Unused(c)
    /\ \E p \in Pods, t \in Paths, i \in {c, NoId} :
          call' = [call EXCEPT ![c] = [at |-> Door(p), pod |-> p, dest |-> p,
                                       root |-> c, id |-> i, path |-> t]]

\* As HeaderValue, but generating whether or not the header is there.
FreshHeaderValue(c) == c

\* extractHeaders with a rule that generates: a header that is there is kept.
HeaderValue(c) == IF call[c].id = NoId THEN c ELSE call[c].id

\* The sidecar's mux and, behind it, its reverse proxy: whatever host the call
\* is for, it goes to the application of this pod.
SidecarForwards(c) ==
    /\ call[c].at = "sidecar"
    /\ call' = IF call[c].path \in OwnPaths
               THEN [call EXCEPT ![c].at = "by sidecar"]
               ELSE [call EXCEPT ![c].at = "app", ![c].id = HeaderValue(c)]

\* As ViaProxy, but as if Default modified the containers of every pod.
ViaProxyAnywhere(p, q, scheme) == scheme = "http" /\ q # p

\* modifyAppContainers: HTTP_PROXY is set, HTTPS_PROXY is not, and NO_PROXY
\* excepts localhost.
ViaProxy(p, q, scheme) == p \in Injected /\ scheme = "http" /\ q # p

\* The application that serves c calls service q, or itself over localhost.
\* TLS ends at the application.
AppCalls(c, d) ==
    /\ call[c].at = "app"
    /\ Unused(d)
    /\ \E q \in Pods, t \in OwnPaths \cup Paths, scheme \in {"http", "https"} :
          LET p == call[c].pod
              proxied == ViaProxy(p, q, scheme)
          IN  call' = [call EXCEPT ![d] =
                  [at |-> IF proxied THEN "sidecar"
                          ELSE IF q = p \/ scheme = "https" THEN "app" ELSE Door(q),
                   pod |-> IF proxied THEN p ELSE q,
                   dest |-> q, root |-> call[c].root, path |-> t,
                   id |-> IF p \in Copying THEN call[c].id ELSE NoId]]

AppAnswers(c) ==
    /\ call[c].at = "app"
    /\ call' = [call EXCEPT ![c].at = "by app"]

Next ==
    \E c \in Calls :
        ClientCalls(c) \/ SidecarForwards(c) \/ AppAnswers(c) \/ \E d \in Calls : AppCalls(c, d)

Spec == Init /\ [][Next]_vars

----------------------------------------------------------------------------
(* Properties *)

\* Every call has its type, and is at a sidecar only in a pod that has one.
TypeOK ==
    /\ call \in [Calls -> Call]
    /\ \A c \in Calls :
          call[c].at \in {"sidecar", "by sidecar"} => call[c].pod \in Injected

\* Where applications copy the header, all calls that follow from one client's
\* call carry one identifier, the client's or the one the first sidecar made,
\* however often they pass a sidecar.
OneIdentifierPerTrace ==
    \A c \in Calls :
        (Served(c) /\ Served(call[c].root) /\ call[call[c].root].id # NoId) =>
            call[c].id = call[call[c].root].id

\* how-it-works.md says of an outgoing call "Proxy->>ServiceB: Request with
\* injected headers": a call is served by the service it is for.
ReachesItsService ==
    \A c \in Calls :
        (Served(c) \/ call[c].at = "by sidecar") => call[c].pod = call[c].dest

============================================================================
