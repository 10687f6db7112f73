------------------------------ MODULE Gateway ------------------------------
(***************************************************************************)
(* A request on its way through the gateway (internal/gateway/gateway.go): *)
(* its host is looked up, a missing project is asked for at the website's  *)
(* webhook (manager/reprovision.go), a sleeping workload that is behind    *)
(* its template's image is announced there (manager/wake_check.go), the    *)
(* workload is woken (EnsureRunning) and the request proxied, again and    *)
(* again while the workload is only just starting.                         *)
(*                                                                         *)
(* Beside the requests run the receiver of the webhook, which creates      *)
(* projects, moves workloads to new images and answers in its own time or  *)
(* never; the programs behind the proxy, which answer in their own time or *)
(* never; image builds; deletions; the reaper; and other boots.            *)
(* Durations are left open: a time limit may pass whenever it runs.        *)
(***************************************************************************)
EXTENDS Naturals, FiniteSets

CONSTANTS
    Requests, Hosts, Workloads, Projects, Free,
    Home,       \* the workload a host belongs to
    Project,    \* the project of a workload
    Aliases,    \* the same name under the other domains (BaseDomain, AltDomains)
    Worlds,     \* records of what a behaviour has: the requests made, the hosts
                \* they name, the hosts routed at first, and the events
    MaxVersion  \* bound: image versions of the one template

Versions == 1..MaxVersion
AllEvents == {"create", "move", "ship", "delete", "reap", "boot", "bootFails",
              "die", "body", "off", "subroute"}

ASSUME NamesAssumption ==
    /\ Home \in [Hosts -> Workloads] /\ Project \in [Workloads -> Projects]
    /\ Aliases \in [Hosts -> SUBSET Hosts]
    /\ \A h \in Hosts : \A g \in Aliases[h] : Home[g] = Home[h]
    /\ Hosts # {} /\ Free \notin Requests
    /\ MaxVersion \in Nat \ {0}
ASSUME WorldsAssumption ==
    Worlds \subseteq [requests : SUBSET Requests, hosts : SUBSET Hosts,
                      routed : SUBSET Hosts, events : SUBSET AllEvents]

VARIABLES
    req,        \* each request: where it is and what it has learned
    here,       \* the workloads the store has
    routes,     \* the hosts of the route table
    img,        \* the image version in a workload's record
    latest,     \* the newest image version built
    inst,       \* the version a workload's instance runs, or Down
    live,       \* the workloads in the manager's live map
    listening,  \* the instances whose program answers
    refLock,    \* who holds a workload's lock
    hostLock,   \* who holds a host's lock
    unknown,    \* unknownHosts: answered 404 within unknownHostTTL
    hook,       \* the reprovision call each request made
    check,      \* wakeChecks: the call about a project and a version
    rebooting,  \* workloads a PUT of an image is about to reboot
    reaping,    \* workloads a reaper pass is about to suspend
    deleting,   \* workloads that a deletion has stopped
    world,      \* which of Worlds this behaviour is in
    said404,    \* history: hosts a waiting request heard a 404 about, less the TTL
    answered    \* history: the project versions a wake check was answered for

manager == <<here, routes, img, latest, inst, live, listening>>
others  == <<rebooting, reaping, deleting>>
vars == <<req, manager, refLock, hostLock, unknown, hook, check, others, world,
          said404, answered>>

Down == 0
Keys == Projects \X Versions
Some == CHOOSE w \in Workloads : TRUE

\* Positions of a request; at HoldsHost it has its host's lock, at HoldsRef its
\* workload's.
HoldsHost == {"recheck", "ask", "hold"}
HoldsRef  == {"ensure"}
Positions == {"idle", "resolve", "hostLock", "check", "claim", "wait", "read",
              "refLock", "proxy", "done"} \cup HoldsHost \cup HoldsRef

\* code: what the client gets.  A 404 and a 504 that carry X-Orchd-No-Route
\* send it to another instance; the two 502s do not.
Codes == {"none", "served", "404", "504", "502"}
Request == [pc : Positions, h : Hosts, w : Workloads,
            body : BOOLEAN,       \* it has a body, or is neither a GET nor a HEAD
            v : 0..MaxVersion,    \* the version asked about, then the one to boot
            fresh : BOOLEAN,      \* inside the startup window
            sent : 0..2,          \* how often the program got it (2: more than once)
            routed : BOOLEAN,     \* history: its host had a route all along
            noRoute : BOOLEAN,    \* X-Orchd-No-Route
            code : Codes]

\* Whether a host, under any of the domains, has a route of R to a workload of W.
Resolvable(h, R, W) == \E g \in {h} \cup Aliases[h] : g \in R /\ Home[g] \in W

NewRequest(h, b) ==
    [pc |-> "resolve", h |-> h, w |-> Some, body |-> b, v |-> 0,
     fresh |-> FALSE, sent |-> 0, routed |-> Resolvable(h, routes, here),
     noRoute |-> FALSE, code |-> "none"]

\* A host resolves if its route and the workload it names are there.
Resolves(h) == h \in routes /\ Home[h] \in here

\* Types, and who holds which lock.
TypeOK ==
    /\ req \in [Requests -> Request]
    /\ here \subseteq Workloads /\ routes \subseteq Hosts
    /\ img \in [Workloads -> Versions] /\ latest \in Versions
    /\ inst \in [Workloads -> Versions \cup {Down}]
    /\ live \subseteq Workloads /\ listening \subseteq Workloads
    /\ refLock \in [Workloads -> Requests \cup {Free}]
    /\ hostLock \in [Hosts -> Requests \cup {Free}]
    /\ unknown \subseteq Hosts /\ said404 \subseteq Hosts
    /\ hook \in [Requests -> {"none", "flight", "ok", "404", "failed"}]
    /\ check \in [Keys -> {"none", "asked", "answered", "failed", "cold"}]
    /\ answered \subseteq Keys
    /\ rebooting \subseteq Workloads /\ reaping \subseteq Workloads
    /\ deleting \subseteq Workloads
    /\ world \in Worlds
    /\ \A r \in Requests, h \in Hosts :
          hostLock[h] = r <=> req[r].pc \in HoldsHost /\ req[r].h = h
    /\ \A r \in Requests, w \in Workloads :
          refLock[w] = r <=> req[r].pc \in HoldsRef /\ req[r].w = w

Init ==
    /\ world \in Worlds
    /\ routes = world.routed
    /\ here = {Home[h] : h \in world.routed}
    /\ req = [r \in Requests |->
                [NewRequest(CHOOSE h \in Hosts : TRUE, FALSE) EXCEPT !.pc = "idle"]]
    /\ img = [w \in Workloads |-> 1]
    /\ latest = 1
    /\ inst = [w \in Workloads |-> Down]
    /\ live = {} /\ listening = {}
    /\ refLock = [w \in Workloads |-> Free]
    /\ hostLock = [h \in Hosts |-> Free]
    /\ unknown = {} /\ said404 = {}
    /\ hook = [r \in Requests |-> "none"]
    /\ check = [k \in Keys |-> "none"] /\ answered = {}
    /\ rebooting = {} /\ reaping = {} /\ deleting = {}

---------------------------------------------------------------------------
\* Steps of a request.

Goto(r, p) == req' = [req EXCEPT ![r].pc = p]
Found(r, w) == req' = [req EXCEPT ![r].pc = "check", ![r].w = w]
Answer(r, code, noRoute) ==
    req' = [req EXCEPT ![r].pc = "done", ![r].code = code, ![r].noRoute = noRoute]

\* Mutant: an early return that leaves the host locked.
UnlockHostNever(r) == UNCHANGED hostLock

UnlockHost(r) == hostLock' = [hostLock EXCEPT ![req[r].h] = Free]
UnlockRef(r)  == refLock' = [refLock EXCEPT ![req[r].w] = Free]

Arrive(r, h, b) ==
    /\ req[r].pc = "idle" /\ r \in world.requests /\ h \in world.hosts
    /\ b => "body" \in world.events
    /\ req' = [req EXCEPT ![r] = NewRequest(h, b)]
    /\ UNCHANGED <<manager, refLock, hostLock, unknown, hook, check, others,
                   world, said404, answered>>

\* resolve: by the host, then by its name under another domain.
Resolve(r) ==
    LET h == req[r].h IN
    /\ req[r].pc = "resolve"
    /\ IF Resolvable(h, routes, here) THEN Found(r, Home[h])
       ELSE Goto(r, "hostLock")
    /\ UNCHANGED <<manager, refLock, hostLock, unknown, hook, check, others,
                   world, said404, answered>>

\* A path /w/<key>/... names a workload when the host names none.
ResolveKey(r) ==
    /\ req[r].pc = "resolve" /\ "subroute" \in world.events
    /\ ~Resolvable(req[r].h, routes, here)
    /\ \E w \in here : Found(r, w)
    /\ UNCHANGED <<manager, refLock, hostLock, unknown, hook, check, others,
                   world, said404, answered>>

\* Without a webhook in the settings a miss is a miss.
HookOff(r) ==
    /\ req[r].pc = "hostLock" /\ "off" \in world.events
    /\ Answer(r, "404", TRUE)
    /\ UNCHANGED <<manager, refLock, hostLock, unknown, hook, check, others,
                   world, said404, answered>>

\* RequestReprovision: one miss of a host at a time.
HostLock(r) ==
    LET h == req[r].h IN
    /\ req[r].pc = "hostLock" /\ hostLock[h] = Free
    /\ hostLock' = [hostLock EXCEPT ![h] = r]
    /\ Goto(r, "recheck")
    /\ UNCHANGED <<manager, refLock, unknown, hook, check, others, world,
                   said404, answered>>

\* Mutant: waiters that are not told what the one before them heard.
RecheckRouteOnly(r) ==
    LET h == req[r].h IN
    /\ req[r].pc = "recheck"
    /\ IF Resolves(h) THEN Found(r, Home[h]) /\ UnlockHost(r)
       ELSE Goto(r, "ask") /\ UNCHANGED hostLock
    /\ UNCHANGED <<manager, refLock, unknown, hook, check, others, world,
                   said404, answered>>

\* Another request may have brought the route back by now, or heard a 404.
Recheck(r) ==
    LET h == req[r].h IN
    /\ req[r].pc = "recheck"
    /\ \/ Resolves(h) /\ Found(r, Home[h]) /\ UnlockHost(r)
       \/ ~Resolves(h) /\ h \in unknown /\ Answer(r, "404", TRUE) /\ UnlockHost(r)
       \/ ~Resolves(h) /\ h \notin unknown /\ Goto(r, "ask") /\ UNCHANGED hostLock
    /\ UNCHANGED <<manager, refLock, unknown, hook, check, others, world,
                   said404, answered>>

\* The hook is called by a goroutine of its own.
Ask(r) ==
    /\ req[r].pc = "ask"
    /\ hook' = [hook EXCEPT ![r] = "flight"]
    /\ Goto(r, "hold")
    /\ UNCHANGED <<manager, refLock, hostLock, unknown, check, others, world,
                   said404, answered>>

\* The request is held; every quarter of a second the route is looked up.
Poll(r) ==
    LET h == req[r].h IN
    /\ req[r].pc = "hold" /\ Resolves(h)
    /\ Found(r, Home[h]) /\ UnlockHost(r)
    /\ UNCHANGED <<manager, refLock, unknown, hook, check, others, world,
                   said404, answered>>

\* Between two lookups the hook's outcome arrives: a 404 is remembered, and any
\* failure is the request's own; after a success the lookups go on.
HookReturns(r) ==
    LET h == req[r].h IN
    /\ req[r].pc = "hold" /\ hook[r] \in {"404", "failed"}
    /\ unknown' = IF hook[r] = "404" THEN unknown \cup {h} ELSE unknown
    /\ said404' = IF hook[r] = "404" THEN said404 \cup {h} ELSE said404
    /\ Answer(r, "404", TRUE) /\ UnlockHost(r)
    /\ UNCHANGED <<manager, refLock, hook, check, others, world, answered>>

\* Mutant: a wait for the hook that has no end of its own.
HoldOverNever(r) ==
    /\ req[r].pc = "hold" /\ hook[r] # "flight"
    /\ Answer(r, "504", TRUE) /\ UnlockHost(r)
    /\ UNCHANGED <<manager, refLock, unknown, hook, check, others, world,
                   said404, answered>>

\* ReprovisionHookTimeout, which began before the call's own.
HoldOver(r) ==
    /\ req[r].pc = "hold"
    /\ Answer(r, "504", TRUE) /\ UnlockHost(r)
    /\ UNCHANGED <<manager, refLock, unknown, hook, check, others, world,
                   said404, answered>>

---------------------------------------------------------------------------
\* CheckImageBeforeWake.

\* A workload in the live map, gone, or on the newest image needs none.
Check(r) ==
    LET w == req[r].w IN
    /\ req[r].pc = "check"
    /\ IF w \in live \/ w \notin here \/ latest <= img[w] THEN Goto(r, "read")
       ELSE req' = [req EXCEPT ![r].pc = "claim", ![r].v = latest]
    /\ UNCHANGED <<manager, refLock, hostLock, unknown, hook, check, others,
                   world, said404, answered>>

Key(r) == <<Project[req[r].w], req[r].v>>

\* Mutant: only a call under way is shared.
SeenForgets(k) == check[k] = "asked"

\* A check counts as made until it failed and wakeCheckCooldown passed.
SeenCheck(k) == check[k] \notin {"none", "cold"}

\* The first to find the project behind this version asks; all wait for it.
Claim(r) ==
    /\ req[r].pc = "claim"
    /\ check' = IF SeenCheck(Key(r)) THEN check ELSE [check EXCEPT ![Key(r)] = "asked"]
    /\ Goto(r, "wait")
    /\ UNCHANGED <<manager, refLock, hostLock, unknown, hook, others, world,
                   said404, answered>>

\* The call is over, or WakeHookTimeout passed for this request.
Waited(r) ==
    /\ req[r].pc = "wait"
    /\ Goto(r, "read")
    /\ UNCHANGED <<manager, refLock, hostLock, unknown, hook, check, others,
                   world, said404, answered>>

---------------------------------------------------------------------------
\* EnsureRunning.

\* The record is read before the lock is taken.
Read(r) ==
    LET w == req[r].w IN
    /\ req[r].pc = "read"
    /\ IF w \in here THEN req' = [req EXCEPT ![r].pc = "refLock", ![r].v = img[w]]
       ELSE Answer(r, "404", TRUE)
    /\ UNCHANGED <<manager, refLock, hostLock, unknown, hook, check, others,
                   world, said404, answered>>

RefLock(r) ==
    LET w == req[r].w IN
    /\ req[r].pc = "refLock" /\ refLock[w] = Free
    /\ refLock' = [refLock EXCEPT ![w] = r]
    /\ Goto(r, "ensure")
    /\ UNCHANGED <<manager, hostLock, unknown, hook, check, others, world,
                   said404, answered>>

\* Ready to be proxied; a start is fresh for StartupWait.
Proxying(r) == req' = [req EXCEPT ![r].pc = "proxy", ![r].fresh = TRUE]

\* It runs: one that started long ago is outside its startup window.
EnsureHit(r) ==
    LET w == req[r].w IN
    /\ req[r].pc = "ensure" /\ w \in live /\ inst[w] # Down
    /\ \E f \in BOOLEAN : req' = [req EXCEPT ![r].pc = "proxy", ![r].fresh = f]
    /\ UnlockRef(r)
    /\ UNCHANGED <<manager, hostLock, unknown, hook, check, others, world,
                   said404, answered>>

\* It is started, as the record said.
EnsureStart(r) ==
    LET w == req[r].w IN
    /\ req[r].pc = "ensure" /\ ~(w \in live /\ inst[w] # Down)
    /\ inst' = [inst EXCEPT ![w] = req[r].v]
    /\ live' = live \cup {w}
    /\ Proxying(r) /\ UnlockRef(r)
    /\ UNCHANGED <<here, routes, img, latest, listening, hostLock, unknown, hook,
                   check, others, world, said404, answered>>

\* Mutant: a failed start taken for a missing workload.
StartFailsAsMissing(r) ==
    LET w == req[r].w IN
    /\ req[r].pc = "ensure" /\ ~(w \in live /\ inst[w] # Down)
    /\ "bootFails" \in world.events
    /\ Answer(r, "404", TRUE) /\ UnlockRef(r)
    /\ UNCHANGED <<manager, hostLock, unknown, hook, check, others, world,
                   said404, answered>>

EnsureFails(r) ==
    LET w == req[r].w IN
    /\ req[r].pc = "ensure" /\ ~(w \in live /\ inst[w] # Down)
    /\ "bootFails" \in world.events
    /\ Answer(r, "502", FALSE) /\ UnlockRef(r)
    /\ UNCHANGED <<manager, hostLock, unknown, hook, check, others, world,
                   said404, answered>>

---------------------------------------------------------------------------
\* The reverse proxy.  A program that has the request may keep it: the transport
\* sets no time limit on an answer.

Sent(r) == IF req[r].sent = 2 THEN 2 ELSE req[r].sent + 1

Serve(r) ==
    /\ req[r].pc = "proxy" /\ req[r].w \in listening
    /\ req' = [req EXCEPT ![r].pc = "done", ![r].code = "served", ![r].sent = Sent(r)]
    /\ UNCHANGED <<manager, refLock, hostLock, unknown, hook, check, others,
                   world, said404, answered>>

\* Mutant: any request is sent again.
RetryAny(r) == req[r].fresh

\* retryableStartup: a GET or HEAD without a body, and inside the window.
Retry(r) == req[r].fresh /\ ~req[r].body

\* The program took the request and the connection was reset.
Reset(r) ==
    /\ req[r].pc = "proxy" /\ req[r].w \in listening
    /\ req' = [req EXCEPT ![r].sent = Sent(r),
                 ![r].pc = IF Retry(r) THEN "proxy" ELSE "done",
                 ![r].code = IF Retry(r) THEN "none" ELSE "502"]
    /\ UNCHANGED <<manager, refLock, hostLock, unknown, hook, check, others,
                   world, said404, answered>>

\* Nothing listens: tried again until the window ends, or refused for good.
Refused(r) ==
    /\ req[r].pc = "proxy" /\ req[r].w \notin listening /\ ~Retry(r)
    /\ Answer(r, "502", FALSE)
    /\ UNCHANGED <<manager, refLock, hostLock, unknown, hook, check, others,
                   world, said404, answered>>

WindowEnds(r) ==
    /\ req[r].pc = "proxy" /\ req[r].fresh
    /\ req' = [req EXCEPT ![r].fresh = FALSE]
    /\ UNCHANGED <<manager, refLock, hostLock, unknown, hook, check, others,
                   world, said404, answered>>

\* The client goes away; the proxy's attempt is cancelled with it.
Leave(r) ==
    /\ req[r].pc = "proxy"
    /\ Answer(r, "502", FALSE)
    /\ UNCHANGED <<manager, refLock, hostLock, unknown, hook, check, others,
                   world, said404, answered>>

---------------------------------------------------------------------------
\* The receiver of the webhook.

\* POST /projects, or a route added to one: for a host some hook named.
Attach(h) ==
    /\ "create" \in world.events
    /\ ~Resolves(h)
    /\ \E r \in Requests : hook[r] = "flight" /\ h \in {req[r].h} \cup Aliases[req[r].h]
    /\ routes' = routes \cup {h}
    /\ here' = here \cup {Home[h]}
    /\ img' = IF Home[h] \in here THEN img ELSE [img EXCEPT ![Home[h]] = latest]
    /\ UNCHANGED <<req, latest, inst, live, listening, refLock, hostLock, unknown,
                   hook, check, others, world, said404, answered>>

\* Its answer, or the end of the call's own time limit.
HookAnswers(r) ==
    /\ hook[r] = "flight"
    /\ \E a \in {"ok", "404", "failed"} : hook' = [hook EXCEPT ![r] = a]
    /\ UNCHANGED <<req, manager, refLock, hostLock, unknown, check, others, world,
                   said404, answered>>

CheckOver(k) ==
    /\ check[k] = "asked"
    /\ \E a \in {"answered", "failed"} :
          /\ check' = [check EXCEPT ![k] = a]
          /\ answered' = IF a = "answered" THEN answered \cup {k} ELSE answered
    /\ UNCHANGED <<req, manager, refLock, hostLock, unknown, hook, others, world, said404>>

\* SetWorkloadImage: the record at once, a running workload by a reboot.
MoveImage(w) ==
    /\ "move" \in world.events /\ w \in here /\ img[w] < latest
    /\ img' = [img EXCEPT ![w] = latest]
    /\ rebooting' = IF inst[w] = Down THEN rebooting ELSE rebooting \cup {w}
    /\ UNCHANGED <<req, here, routes, latest, inst, live, listening, refLock,
                   hostLock, unknown, hook, check, reaping, deleting, world,
                   said404, answered>>

Reboot(w) ==
    /\ w \in rebooting /\ refLock[w] = Free
    /\ rebooting' = rebooting \ {w}
    /\ inst' = [inst EXCEPT ![w] = img[w]]
    /\ live' = live \cup {w}
    /\ listening' = listening \ {w}
    /\ UNCHANGED <<req, here, routes, img, latest, refLock, hostLock, unknown,
                   hook, check, reaping, deleting, world, said404, answered>>

---------------------------------------------------------------------------
\* Everything else that moves.

Ship ==
    /\ "ship" \in world.events /\ latest < MaxVersion
    /\ latest' = latest + 1
    /\ UNCHANGED <<req, here, routes, img, inst, live, listening, refLock,
                   hostLock, unknown, hook, check, others, world, said404, answered>>

Listen(w) ==
    /\ inst[w] # Down /\ w \notin listening
    /\ listening' = listening \cup {w}
    /\ UNCHANGED <<req, here, routes, img, latest, inst, live, refLock, hostLock,
                   unknown, hook, check, others, world, said404, answered>>

\* A provision, the play button, keep-warm.
BootElsewhere(w) ==
    /\ "boot" \in world.events /\ w \in here /\ inst[w] = Down /\ refLock[w] = Free
    /\ inst' = [inst EXCEPT ![w] = img[w]]
    /\ live' = live \cup {w}
    /\ UNCHANGED <<req, here, routes, img, latest, listening, refLock, hostLock,
                   unknown, hook, check, others, world, said404, answered>>

\* An instance dies; the live map does not know.
Die(w) ==
    /\ "die" \in world.events /\ inst[w] # Down
    /\ inst' = [inst EXCEPT ![w] = Down]
    /\ listening' = listening \ {w}
    /\ UNCHANGED <<req, here, routes, img, latest, live, refLock, hostLock,
                   unknown, hook, check, others, world, said404, answered>>

\* ReapIdle picks by the live map, and suspends under the lock.
ReapScan(w) ==
    /\ "reap" \in world.events /\ w \in live \ reaping
    /\ reaping' = reaping \cup {w}
    /\ UNCHANGED <<req, manager, refLock, hostLock, unknown, hook, check,
                   rebooting, deleting, world, said404, answered>>

Reap(w) ==
    /\ w \in reaping /\ refLock[w] = Free
    /\ reaping' = reaping \ {w}
    /\ inst' = [inst EXCEPT ![w] = Down]
    /\ live' = live \ {w} /\ listening' = listening \ {w}
    /\ UNCHANGED <<req, here, routes, img, latest, refLock, hostLock, unknown,
                   hook, check, rebooting, deleting, world, said404, answered>>

\* DeleteWorkload, which takes no lock: the instance, then the record with its
\* routes.
DeleteStop(w) ==
    /\ "delete" \in world.events /\ w \in here \ deleting
    /\ deleting' = deleting \cup {w}
    /\ inst' = [inst EXCEPT ![w] = Down]
    /\ live' = live \ {w} /\ listening' = listening \ {w}
    /\ UNCHANGED <<req, here, routes, img, latest, refLock, hostLock, unknown,
                   hook, check, rebooting, reaping, world, said404, answered>>

DeleteRecord(w) ==
    /\ w \in deleting
    /\ deleting' = deleting \ {w}
    /\ here' = here \ {w}
    /\ routes' = {h \in routes : Home[h] # w}
    /\ req' = [r \in Requests |->
          [req[r] EXCEPT !.routed = @ /\ Resolvable(req[r].h, routes', here')]]
    /\ UNCHANGED <<img, latest, inst, live, listening, refLock, hostLock,
                   unknown, hook, check, rebooting, reaping, world, said404, answered>>

\* unknownHostTTL and wakeCheckCooldown pass.
ForgetUnknown(h) ==
    /\ h \in unknown
    /\ unknown' = unknown \ {h} /\ said404' = said404 \ {h}
    /\ UNCHANGED <<req, manager, refLock, hostLock, hook, check, others, world, answered>>

CoolDown(k) ==
    /\ check[k] = "failed"
    /\ ~\E r \in Requests : req[r].pc = "wait" /\ Key(r) = k
    /\ check' = [check EXCEPT ![k] = "cold"]
    /\ UNCHANGED <<req, manager, refLock, hostLock, unknown, hook, others, world,
                   said404, answered>>

---------------------------------------------------------------------------
\* orchd's own steps with a request, and its timers.
Step(r) ==
    \/ Resolve(r) \/ ResolveKey(r) \/ HookOff(r) \/ HostLock(r) \/ Recheck(r)
    \/ Ask(r) \/ Poll(r) \/ HookReturns(r) \/ HoldOver(r)
    \/ Check(r) \/ Claim(r) \/ Waited(r)
    \/ Read(r) \/ RefLock(r) \/ EnsureHit(r) \/ EnsureStart(r) \/ EnsureFails(r)
    \/ Refused(r) \/ WindowEnds(r)

\* What others do with it: the program that has it, and the client.
Program(r) == Serve(r) \/ Reset(r)
Client(r)  == Leave(r) \/ \E h \in Hosts, b \in BOOLEAN : Arrive(r, h, b)

Next ==
    \/ \E r \in Requests : Step(r) \/ Program(r) \/ Client(r) \/ HookAnswers(r)
    \/ \E h \in Hosts : Attach(h) \/ ForgetUnknown(h)
    \/ \E k \in Keys : CheckOver(k) \/ CoolDown(k)
    \/ \E w \in Workloads : \/ MoveImage(w) \/ Reboot(w) \/ Listen(w)
                             \/ BootElsewhere(w) \/ Die(w) \/ ReapScan(w) \/ Reap(w)
                             \/ DeleteStop(w) \/ DeleteRecord(w)
    \/ Ship

\* Only orchd's own steps: the receiver, the programs and the clients owe it nothing.
Fairness == \A r \in Requests : WF_vars(Step(r))

Spec == Init /\ [][Next]_vars /\ Fairness

---------------------------------------------------------------------------
\* X-Orchd-No-Route sends a client to another instance: it is set only if the
\* host had no route at some time during the request, whatever was suspended,
\* deleted, restarted or failed to start under it.
NoRouteIsTrue == \A r \in Requests : req[r].noRoute => ~req[r].routed

\* A host the receiver answered 404 about is not asked about again for
\* unknownHostTTL, not even by the requests that were waiting when it was.
UnknownNotAsked ==
    [][\A r \in Requests :
         hook[r] = "none" /\ hook'[r] = "flight" => req[r].h \notin said404]_vars

\* The receiver is asked about a project once per newest version: however many
\* wakes ask, wait and give up, not again once it answered.
AskedOnce ==
    [][\A k \in Keys : check'[k] = "asked" /\ check[k] # "asked" => k \notin answered]_vars

\* A request with a body, or that is neither a GET nor a HEAD, never reaches the
\* program twice.
BodyOnce == \A r \in Requests : req[r].body => req[r].sent < 2

\* In the hands of a program that listens, which may keep a request for ever.
WithProgram(r) == req[r].pc = "proxy" /\ req[r].w \in listening

\* No request is for ever anywhere but with a program that listens: it is answered,
\* or gets there, though the receiver, the programs and the requests they keep never
\* move again.  It is answered too when its program never listens or stops to.
AnsweredOrWithProgram ==
    \A r \in Requests : req[r].pc # "idle" ~> req[r].pc = "done" \/ WithProgram(r)
=============================================================================
