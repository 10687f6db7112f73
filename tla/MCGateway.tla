----------------------------- MODULE MCGateway -----------------------------
\* The gateway on small instances: a project of two workloads, its two hosts, and
\* the first one's name under an older domain.
EXTENDS Gateway

CONSTANTS app, api, p1, hApp, hOld, hApi, r1, r2

AllHosts == {hApp, hOld, hApi}
HomeOf == [h \in AllHosts |-> IF h = hApi THEN api ELSE app]
ProjectOf == [w \in {app, api} |-> p1]
AliasesOf == [h \in AllHosts |-> CASE h = hApp -> {hOld} [] h = hOld -> {hApp}
                                   [] h = hApi -> {}]

World(R, H, routed, E) == [requests |-> R, hosts |-> H, routed |-> routed, events |-> E]

GatewayWorlds == {
    \* Misses for one host; the receiver creates the project or not.
    World({r1, r2}, {hApp}, {}, {"create"}),
    \* A miss under an older domain beside one of the other host.
    World({r1, r2}, {hOld, hApi}, {}, {"create"}),
    \* No webhook, and paths that name a workload.
    World({r1, r2}, {hApp, hApi}, {hApi}, {"off", "subroute", "delete"}),
    \* Two workloads of one project wake, images are built, the receiver moves them.
    World({r1, r2}, {hApp, hApi}, {hApp, hApi}, {"ship", "move"}),
    World({r1, r2}, {hApi}, {hApi}, {"ship", "die"}),
    \* The workload is suspended, deleted and started under its requests.
    World({r1, r2}, {hApp}, {hApp}, {"reap", "bootFails", "body"}),
    World({r1, r2}, {hOld}, {hApp}, {"delete", "boot", "die", "bootFails", "body"})}
=============================================================================
