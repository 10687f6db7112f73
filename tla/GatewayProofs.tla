---------------------------- MODULE GatewayProofs ----------------------------
(***************************************************************************)
(* The gateway's safety properties for any number of requests, hosts and   *)
(* workloads.                                                              *)
(***************************************************************************)
EXTENDS Gateway, TLAPS

\* Positions of a request whose host was found to have no route, and of one that
\* has its workload.
Missing == {"hostLock"} \cup HoldsHost
Going   == {"check", "claim", "wait", "read", "refLock", "ensure", "proxy"}

\* What is known of a request at its position: what X-Orchd-No-Route and the lack
\* of a retry rest on.  The workload is that of the host, unless the path named it.
Sound(r) ==
    /\ req[r].routed => Resolvable(req[r].h, routes, here)
    /\ req[r].pc \in Missing => ~req[r].routed
    /\ req[r].pc \in Going => req[r].w = Home[req[r].h] \/ ~req[r].routed
    /\ req[r].pc = "ask" => req[r].h \notin unknown
    /\ req[r].noRoute => ~req[r].routed
    /\ req[r].body => req[r].sent = 0 \/ (req[r].sent = 1 /\ req[r].pc = "done")

AllSound == \A r \in Requests : Sound(r)

\* A host heard a 404 about is remembered, and so is a check that was answered.
Remembered == said404 \subseteq unknown /\ \A k \in answered : check[k] = "answered"

IInv == TypeOK /\ AllSound /\ Remembered

ReqType == req \in [Requests -> Request]
Types ==
    /\ here \subseteq Workloads /\ routes \subseteq Hosts
    /\ img \in [Workloads -> Versions] /\ latest \in Versions
    /\ inst \in [Workloads -> Versions \cup {Down}]
    /\ live \subseteq Workloads /\ listening \subseteq Workloads
    /\ unknown \subseteq Hosts /\ said404 \subseteq Hosts
    /\ hook \in [Requests -> {"none", "flight", "ok", "404", "failed"}]
    /\ check \in [Keys -> {"none", "asked", "answered", "failed", "cold"}]
    /\ answered \subseteq Keys
    /\ rebooting \subseteq Workloads /\ reaping \subseteq Workloads
    /\ deleting \subseteq Workloads
    /\ world \in Worlds
HostLocks ==
    /\ hostLock \in [Hosts -> Requests \cup {Free}]
    /\ \A r \in Requests, h \in Hosts :
          hostLock[h] = r <=> req[r].pc \in HoldsHost /\ req[r].h = h
RefLocks ==
    /\ refLock \in [Workloads -> Requests \cup {Free}]
    /\ \A r \in Requests, w \in Workloads :
          refLock[w] = r <=> req[r].pc \in HoldsRef /\ req[r].w = w

LEMMA TypeParts ==
  /\ TypeOK <=> ReqType /\ Types /\ HostLocks /\ RefLocks
  /\ TypeOK' <=> ReqType' /\ Types' /\ HostLocks' /\ RefLocks'
  BY DEF TypeOK, ReqType, Types, HostLocks, RefLocks

---------------------------------------------------------------------------
\* Only r moves.
Alone(r) == \A q \in Requests \ {r} : req'[q] = req[q]

\* The fields a step leaves alone.
SameRequest(r) == req'[r].h = req[r].h /\ req'[r].body = req[r].body
                  /\ req'[r].routed = req[r].routed

LEMMA PutDoes ==
  ASSUME ReqType, NEW r \in Requests, NEW x \in Request, req' = [req EXCEPT ![r] = x]
  PROVE  ReqType' /\ Alone(r) /\ req'[r] = x
  BY DEF ReqType, Alone

LEMMA GotoDoes ==
  ASSUME ReqType, NEW r \in Requests, NEW p \in Positions, Goto(r, p)
  PROVE  ReqType' /\ Alone(r) /\ SameRequest(r) /\ req'[r].pc = p /\ req'[r].w = req[r].w
         /\ req'[r].sent = req[r].sent /\ req'[r].noRoute = req[r].noRoute
  BY DEF ReqType, Request, Goto, Alone, SameRequest

LEMMA FoundDoes ==
  ASSUME ReqType, NEW r \in Requests, NEW w \in Workloads, Found(r, w)
  PROVE  ReqType' /\ Alone(r) /\ SameRequest(r) /\ req'[r].pc = "check" /\ req'[r].w = w
         /\ req'[r].sent = req[r].sent /\ req'[r].noRoute = req[r].noRoute
  BY DEF ReqType, Request, Found, Alone, SameRequest, Positions

LEMMA AnswerDoes ==
  ASSUME ReqType, NEW r \in Requests, NEW code \in Codes, NEW n \in BOOLEAN, Answer(r, code, n)
  PROVE  ReqType' /\ Alone(r) /\ SameRequest(r) /\ req'[r].pc = "done" /\ req'[r].w = req[r].w
         /\ req'[r].sent = req[r].sent /\ req'[r].noRoute = n
<1> DEFINE x == [req[r] EXCEPT !.pc = "done", !.code = code, !.noRoute = n]
<1>1. req' = [req EXCEPT ![r] = x]
  BY DEF Answer
<1>2. x \in Request /\ x.h = req[r].h /\ x.body = req[r].body /\ x.routed = req[r].routed
      /\ x.pc = "done" /\ x.w = req[r].w /\ x.sent = req[r].sent /\ x.noRoute = n
  BY DEF ReqType, Request, Positions
<1> HIDE DEF x
<1> QED  BY <1>1, <1>2 DEF ReqType, Alone, SameRequest

LEMMA Routing ==
  ASSUME NEW h \in Hosts
  PROVE  /\ Home[h] \in Workloads /\ h \in {h} \cup Aliases[h]
         /\ \A R, W : Resolvable(h, R, W) => Home[h] \in W
         /\ Resolves(h) => Resolvable(h, routes, here)
  BY NamesAssumption DEF Resolvable, Resolves

---------------------------------------------------------------------------
\* Locks that a step of r keeps, takes or gives back.

LEMMA HostKept ==
  ASSUME HostLocks, NEW r \in Requests, Alone(r), UNCHANGED hostLock,
         req'[r].h = req[r].h, req'[r].pc \in HoldsHost <=> req[r].pc \in HoldsHost
  PROVE  HostLocks'
  BY DEF HostLocks, Alone

LEMMA HostTaken ==
  ASSUME HostLocks, ReqType, NEW r \in Requests, Alone(r), hostLock[req[r].h] = Free,
         hostLock' = [hostLock EXCEPT ![req[r].h] = r],
         req'[r].h = req[r].h, req'[r].pc \in HoldsHost, req[r].pc \notin HoldsHost
  PROVE  HostLocks'
  BY NamesAssumption DEF HostLocks, Alone, ReqType, Request

LEMMA HostFreed ==
  ASSUME HostLocks, ReqType, NEW r \in Requests, Alone(r), UnlockHost(r),
         req[r].pc \in HoldsHost, req'[r].pc \notin HoldsHost
  PROVE  HostLocks'
  BY NamesAssumption DEF HostLocks, Alone, ReqType, Request, UnlockHost

LEMMA RefKept ==
  ASSUME RefLocks, NEW r \in Requests, Alone(r), UNCHANGED refLock,
         req'[r].pc \notin HoldsRef, req[r].pc \notin HoldsRef
  PROVE  RefLocks'
  BY DEF RefLocks, Alone

LEMMA RefTaken ==
  ASSUME RefLocks, ReqType, NEW r \in Requests, Alone(r), refLock[req[r].w] = Free,
         refLock' = [refLock EXCEPT ![req[r].w] = r],
         req'[r].w = req[r].w, req'[r].pc \in HoldsRef, req[r].pc \notin HoldsRef
  PROVE  RefLocks'
  BY NamesAssumption DEF RefLocks, Alone, ReqType, Request

LEMMA RefFreed ==
  ASSUME RefLocks, ReqType, NEW r \in Requests, Alone(r), UnlockRef(r),
         req[r].pc \in HoldsRef, req'[r].pc \notin HoldsRef
  PROVE  RefLocks'
  BY NamesAssumption DEF RefLocks, Alone, ReqType, Request, UnlockRef

\* A step of r that leaves routes and unknown hosts alone has r's own state to answer
\* for.
LEMMA OthersSound ==
  ASSUME AllSound, NEW r \in Requests, Alone(r), UNCHANGED <<routes, here, unknown>>, Sound(r)'
  PROVE  AllSound'
<1> SUFFICES ASSUME NEW q \in Requests, q # r PROVE Sound(q)'
  BY DEF AllSound
<1>1. req'[q] = req[q] /\ Sound(q)
  BY DEF Alone, AllSound
<1>2. Resolvable(req[q].h, routes, here)' <=> Resolvable(req[q].h, routes, here)
  BY <1>1 DEF Resolvable
<1> QED  BY <1>1, <1>2 DEF Sound

\* What a step of r owes the invariant, if it leaves routes and remembered hosts alone.
LEMMA Owed ==
  ASSUME IInv, NEW r \in Requests, Alone(r), UNCHANGED <<routes, here, unknown>>,
         ReqType', Types', HostLocks', RefLocks', Sound(r)', Remembered'
  PROVE  IInv'
<1>1. AllSound'  BY OthersSound DEF IInv
<1> QED  BY <1>1, TypeParts DEF IInv

LEMMA TablesKept ==
  ASSUME IInv, UNCHANGED <<manager, unknown, hook, check, others, world, said404, answered>>
  PROVE  Types' /\ Remembered' /\ UNCHANGED <<routes, here, unknown>>
  BY TypeParts DEF IInv, Types, Remembered, manager, others

\* r's own state, when it goes on with the same request.
LEMMA SoundGoesOn ==
  ASSUME NEW r \in Requests, Sound(r), SameRequest(r), UNCHANGED <<routes, here>>,
         req'[r].pc \in Missing => ~req[r].routed,
         req'[r].pc \in Going => req'[r].w = Home[req[r].h] \/ ~req[r].routed,
         req'[r].pc = "ask" => req[r].h \notin unknown',
         req'[r].noRoute = req[r].noRoute \/ ~req[r].routed,
         req'[r].sent = req[r].sent, req[r].pc # "done" 
  PROVE  Sound(r)'
<1>1. Resolvable(req[r].h, routes, here)' <=> Resolvable(req[r].h, routes, here)
  BY DEF Resolvable, SameRequest
<1> QED  BY <1>1 DEF Sound, SameRequest

\* A step between positions that hold the same locks.
LEMMA Walks ==
  ASSUME IInv, NEW r \in Requests, ReqType', Alone(r), SameRequest(r),
         UNCHANGED <<manager, refLock, hostLock, unknown, hook, check, others,
                     world, said404, answered>>,
         req'[r].pc \in HoldsHost <=> req[r].pc \in HoldsHost,
         req[r].pc \notin HoldsRef, req'[r].pc \notin HoldsRef, Sound(r)'
  PROVE  IInv'
<1>1. HostLocks' /\ RefLocks'
  BY HostKept, RefKept, TypeParts DEF IInv, SameRequest
<1> QED  BY <1>1, Owed, TablesKept

LEMMA Here ==
  ASSUME IInv, NEW r \in Requests
  PROVE  ReqType /\ Types /\ HostLocks /\ RefLocks /\ Sound(r) /\ req[r] \in Request
  BY TypeParts DEF IInv, AllSound, ReqType

LEMMA ResolveStep ==
  ASSUME IInv, NEW r \in Requests, Resolve(r)
  PROVE  IInv'
<1> USE DEF HoldsHost, HoldsRef, Missing, Going, Resolve
<1>0. ReqType /\ req[r].h \in Hosts /\ Sound(r)
  BY Here DEF Request
<1>1. CASE Resolvable(req[r].h, routes, here)
  <2>1. ReqType' /\ Alone(r) /\ SameRequest(r) /\ req'[r].pc = "check"
        /\ req'[r].w = Home[req[r].h]
        /\ req'[r].sent = req[r].sent /\ req'[r].noRoute = req[r].noRoute
    BY <1>0, <1>1, Routing, FoundDoes
  <2>2. Sound(r)'  BY <2>1, <1>0, SoundGoesOn DEF manager
  <2> QED  BY <2>1, <2>2, Walks
<1>2. CASE ~Resolvable(req[r].h, routes, here)
  <2>1. ReqType' /\ Alone(r) /\ SameRequest(r) /\ req'[r].pc = "hostLock"
        /\ req'[r].sent = req[r].sent /\ req'[r].noRoute = req[r].noRoute
    BY <1>0, <1>2, GotoDoes DEF Positions
  <2>2. Sound(r)'  BY <2>1, <1>0, <1>2, SoundGoesOn DEF manager, Sound
  <2> QED  BY <2>1, <2>2, Walks
<1> QED  BY <1>1, <1>2

LEMMA ResolveKeyStep ==
  ASSUME IInv, NEW r \in Requests, ResolveKey(r)
  PROVE  IInv'
<1> USE DEF HoldsHost, HoldsRef, Missing, Going, ResolveKey
<1>0. ReqType /\ Types /\ req[r].h \in Hosts /\ Sound(r) /\ ~req[r].routed
  BY Here DEF Request, Sound
<1>1. PICK w \in Workloads : Found(r, w)
  BY <1>0 DEF Types
<1>2. ReqType' /\ Alone(r) /\ SameRequest(r) /\ req'[r].pc = "check"
      /\ req'[r].sent = req[r].sent /\ req'[r].noRoute = req[r].noRoute
  BY <1>0, <1>1, FoundDoes
<1>3. Sound(r)'  BY <1>2, <1>0, SoundGoesOn DEF manager
<1> QED  BY <1>2, <1>3, Walks

\* A miss that nobody is asked about: the host has no route.
LEMMA HookOffStep ==
  ASSUME IInv, NEW r \in Requests, HookOff(r)
  PROVE  IInv'
<1> USE DEF HoldsHost, HoldsRef, Missing, Going, HookOff
<1>0. ReqType /\ Sound(r) /\ ~req[r].routed
  BY Here DEF Sound
<1>1. ReqType' /\ Alone(r) /\ SameRequest(r) /\ req'[r].pc = "done"
      /\ req'[r].sent = req[r].sent
  BY <1>0, AnswerDoes DEF Codes
<1>2. Sound(r)'  BY <1>1, <1>0, SoundGoesOn DEF manager
<1> QED  BY <1>1, <1>2, Walks

LEMMA HostLockStep ==
  ASSUME IInv, NEW r \in Requests, HostLock(r)
  PROVE  IInv'
<1> USE DEF HoldsHost, HoldsRef, Missing, Going, HostLock
<1>0. ReqType /\ HostLocks /\ RefLocks /\ Sound(r)
  BY Here
<1>1. ReqType' /\ Alone(r) /\ SameRequest(r) /\ req'[r].pc = "recheck"
      /\ req'[r].sent = req[r].sent /\ req'[r].noRoute = req[r].noRoute
  BY <1>0, GotoDoes DEF Positions
<1>2. HostLocks'  BY <1>0, <1>1, HostTaken DEF SameRequest
<1>3. RefLocks'  BY <1>0, <1>1, RefKept
<1>4. Sound(r)'  BY <1>0, <1>1, SoundGoesOn DEF manager, Sound
<1> QED  BY <1>1, <1>2, <1>3, <1>4, TablesKept, Owed

\* Steps that end r's turn at its host.
LEMMA LeavesHost ==
  ASSUME IInv, NEW r \in Requests, ReqType', Alone(r), UnlockHost(r),
         UNCHANGED refLock, req[r].pc \in HoldsHost,
         req'[r].pc \notin HoldsHost \cup HoldsRef
  PROVE  HostLocks' /\ RefLocks'
<1>1. ReqType /\ HostLocks /\ RefLocks
  BY Here
<1> QED  BY <1>1, HostFreed, RefKept DEF HoldsHost, HoldsRef

LEMMA RecheckStep ==
  ASSUME IInv, NEW r \in Requests, Recheck(r)
  PROVE  IInv'
<1> USE DEF HoldsHost, HoldsRef, Missing, Going, Recheck
<1>0. ReqType /\ req[r].h \in Hosts /\ Sound(r) /\ ~req[r].routed
  BY Here DEF Request, Sound
<1>1. CASE Found(r, Home[req[r].h]) /\ UnlockHost(r)
  <2>1. ReqType' /\ Alone(r) /\ SameRequest(r) /\ req'[r].pc = "check"
        /\ req'[r].w = Home[req[r].h]
        /\ req'[r].sent = req[r].sent /\ req'[r].noRoute = req[r].noRoute
    BY <1>0, <1>1, Routing, FoundDoes
  <2>2. Sound(r)'  BY <2>1, <1>0, SoundGoesOn DEF manager
  <2>3. HostLocks' /\ RefLocks'  BY <1>1, <2>1, LeavesHost
  <2> QED  BY <2>1, <2>2, <2>3, TablesKept, Owed
<1>2. CASE Answer(r, "404", TRUE) /\ UnlockHost(r)
  <2>1. ReqType' /\ Alone(r) /\ SameRequest(r) /\ req'[r].pc = "done"
        /\ req'[r].sent = req[r].sent
    BY <1>0, <1>2, AnswerDoes DEF Codes
  <2>2. Sound(r)'  BY <2>1, <1>0, SoundGoesOn DEF manager
  <2>3. HostLocks' /\ RefLocks'  BY <1>2, <2>1, LeavesHost
  <2> QED  BY <2>1, <2>2, <2>3, TablesKept, Owed
<1>3. CASE req[r].h \notin unknown /\ Goto(r, "ask") /\ UNCHANGED hostLock
  <2>1. ReqType' /\ Alone(r) /\ SameRequest(r) /\ req'[r].pc = "ask"
        /\ req'[r].sent = req[r].sent /\ req'[r].noRoute = req[r].noRoute
    BY <1>0, <1>3, GotoDoes DEF Positions
  <2>2. Sound(r)'  BY <2>1, <1>0, <1>3, SoundGoesOn DEF manager
  <2> QED  BY <1>3, <2>1, <2>2, Walks
<1> QED  BY <1>1, <1>2, <1>3

LEMMA AskStep ==
  ASSUME IInv, NEW r \in Requests, Ask(r)
  PROVE  IInv'
<1> USE DEF HoldsHost, HoldsRef, Missing, Going, Ask
<1>0. ReqType /\ Types /\ HostLocks /\ RefLocks /\ Sound(r) /\ ~req[r].routed
  BY Here DEF Sound
<1>1. ReqType' /\ Alone(r) /\ SameRequest(r) /\ req'[r].pc = "hold"
      /\ req'[r].sent = req[r].sent /\ req'[r].noRoute = req[r].noRoute
  BY <1>0, GotoDoes DEF Positions
<1>2. HostLocks' /\ RefLocks'  BY <1>0, <1>1, HostKept, RefKept DEF SameRequest
<1>3. Sound(r)'  BY <1>0, <1>1, SoundGoesOn DEF manager
<1>4. Types' /\ Remembered'
  BY <1>0 DEF Types, Remembered, IInv, manager, others
<1> QED  BY <1>1, <1>2, <1>3, <1>4, Owed DEF manager

LEMMA PollStep ==
  ASSUME IInv, NEW r \in Requests, Poll(r)
  PROVE  IInv'
<1> USE DEF HoldsHost, HoldsRef, Missing, Going, Poll
<1>0. ReqType /\ req[r].h \in Hosts /\ Sound(r)
  BY Here DEF Request
<1>1. ReqType' /\ Alone(r) /\ SameRequest(r) /\ req'[r].pc = "check"
      /\ req'[r].w = Home[req[r].h]
      /\ req'[r].sent = req[r].sent /\ req'[r].noRoute = req[r].noRoute
  BY <1>0, Routing, FoundDoes
<1>2. Sound(r)'  BY <1>1, <1>0, SoundGoesOn DEF manager
<1>3. HostLocks' /\ RefLocks'  BY <1>1, LeavesHost
<1> QED  BY <1>1, <1>2, <1>3, TablesKept, Owed

\* A 404 is remembered: whoever is about to ask about the host would hold its lock.
LEMMA HookReturnsStep ==
  ASSUME IInv, NEW r \in Requests, HookReturns(r)
  PROVE  IInv'
<1> USE DEF HoldsHost, HoldsRef, HookReturns
<1>0. ReqType /\ Types /\ HostLocks /\ RefLocks /\ Sound(r) /\ req[r].h \in Hosts
      /\ ~req[r].routed
  BY Here DEF Sound, Missing, Request
<1>1. ReqType' /\ Alone(r) /\ SameRequest(r) /\ req'[r].pc = "done"
      /\ req'[r].sent = req[r].sent
  BY <1>0, AnswerDoes DEF Codes
<1>2. HostLocks' /\ RefLocks'  BY <1>1, LeavesHost
<1>3. Types' /\ Remembered'
  BY <1>0 DEF Types, Remembered, IInv, manager, others
<1>4. ASSUME NEW q \in Requests, q # r
      PROVE  Sound(q)'
  <2>1. req'[q] = req[q] /\ Sound(q) /\ (req[q].pc = "ask" => req[q].h # req[r].h)
    BY <1>0, <1>1, <1>4 DEF Alone, IInv, AllSound, HostLocks
  <2>2. Resolvable(req[q].h, routes, here)' <=> Resolvable(req[q].h, routes, here)
    BY <2>1 DEF Resolvable, manager
  <2> QED  BY <2>1, <2>2 DEF Sound
<1>5. Sound(r)'  BY <1>0, <1>1, SoundGoesOn DEF manager, Missing, Going
<1>6. AllSound'  BY <1>4, <1>5 DEF AllSound
<1> QED  BY <1>1, <1>2, <1>3, <1>6, TypeParts DEF IInv

LEMMA HoldOverStep ==
  ASSUME IInv, NEW r \in Requests, HoldOver(r)
  PROVE  IInv'
<1> USE DEF HoldsHost, HoldsRef, Missing, Going, HoldOver
<1>0. ReqType /\ Sound(r) /\ ~req[r].routed
  BY Here DEF Sound
<1>1. ReqType' /\ Alone(r) /\ SameRequest(r) /\ req'[r].pc = "done"
      /\ req'[r].sent = req[r].sent
  BY <1>0, AnswerDoes DEF Codes
<1>2. Sound(r)'  BY <1>1, <1>0, SoundGoesOn DEF manager
<1>3. HostLocks' /\ RefLocks'  BY <1>1, LeavesHost
<1> QED  BY <1>1, <1>2, <1>3, TablesKept, Owed

---------------------------------------------------------------------------
\* The image check.

LEMMA CheckStep ==
  ASSUME IInv, NEW r \in Requests, Check(r)
  PROVE  IInv'
<1> USE DEF HoldsHost, HoldsRef, Missing, Going, Check
<1>0. ReqType /\ Types /\ Sound(r) /\ (req[r].w = Home[req[r].h] \/ ~req[r].routed)
  BY Here DEF Sound
<1>1. CASE Goto(r, "read")
  <2>1. ReqType' /\ Alone(r) /\ SameRequest(r) /\ req'[r].pc = "read" /\ req'[r].w = req[r].w
        /\ req'[r].sent = req[r].sent /\ req'[r].noRoute = req[r].noRoute
    BY <1>0, <1>1, GotoDoes DEF Positions
  <2>2. Sound(r)'  BY <2>1, <1>0, SoundGoesOn DEF manager
  <2> QED  BY <2>1, <2>2, Walks
<1>2. CASE req' = [req EXCEPT ![r].pc = "claim", ![r].v = latest]
  <2>1. latest \in 0..MaxVersion
    BY <1>0, NamesAssumption DEF Types, Versions
  <2>2. ReqType' /\ Alone(r) /\ SameRequest(r) /\ req'[r].pc = "claim" /\ req'[r].w = req[r].w
        /\ req'[r].sent = req[r].sent /\ req'[r].noRoute = req[r].noRoute
    <3> DEFINE x == [req[r] EXCEPT !.pc = "claim", !.v = latest]
    <3>1. req' = [req EXCEPT ![r] = x]
      BY <1>2
    <3>2. x \in Request /\ x.h = req[r].h /\ x.body = req[r].body /\ x.routed = req[r].routed
          /\ x.pc = "claim" /\ x.w = req[r].w /\ x.sent = req[r].sent /\ x.noRoute = req[r].noRoute
      BY <1>0, <2>1 DEF ReqType, Request, Positions
    <3> HIDE DEF x
    <3> QED  BY <1>0, <3>1, <3>2, PutDoes DEF SameRequest
  <2>3. Sound(r)'  BY <2>2, <1>0, SoundGoesOn DEF manager
  <2> QED  BY <2>2, <2>3, Walks
<1> QED  BY <1>1, <1>2

LEMMA ClaimStep ==
  ASSUME IInv, NEW r \in Requests, Claim(r)
  PROVE  IInv'
<1> USE DEF HoldsHost, HoldsRef, Missing, Going, Claim
<1>0. ReqType /\ Types /\ HostLocks /\ RefLocks /\ Sound(r) /\ (req[r].w = Home[req[r].h] \/ ~req[r].routed)
  BY Here DEF Sound
<1>1. ReqType' /\ Alone(r) /\ SameRequest(r) /\ req'[r].pc = "wait" /\ req'[r].w = req[r].w
      /\ req'[r].sent = req[r].sent /\ req'[r].noRoute = req[r].noRoute
  BY <1>0, GotoDoes DEF Positions
<1>2. HostLocks' /\ RefLocks'  BY <1>0, <1>1, HostKept, RefKept DEF SameRequest
<1>3. Sound(r)'  BY <1>0, <1>1, SoundGoesOn DEF manager
<1>4. Types'
  BY <1>0 DEF Types, manager, others
<1>5. Remembered'
  BY <1>0 DEF Types, Remembered, IInv, SeenCheck
<1> QED  BY <1>1, <1>2, <1>3, <1>4, <1>5, Owed DEF manager

LEMMA WaitedStep ==
  ASSUME IInv, NEW r \in Requests, Waited(r)
  PROVE  IInv'
<1> USE DEF HoldsHost, HoldsRef, Missing, Going, Waited
<1>0. ReqType /\ Sound(r) /\ (req[r].w = Home[req[r].h] \/ ~req[r].routed)
  BY Here DEF Sound
<1>1. ReqType' /\ Alone(r) /\ SameRequest(r) /\ req'[r].pc = "read" /\ req'[r].w = req[r].w
      /\ req'[r].sent = req[r].sent /\ req'[r].noRoute = req[r].noRoute
  BY <1>0, GotoDoes DEF Positions
<1>2. Sound(r)'  BY <1>1, <1>0, SoundGoesOn DEF manager
<1> QED  BY <1>1, <1>2, Walks

---------------------------------------------------------------------------
\* EnsureRunning and the reverse proxy.

\* A missing workload means a missing route: the host's names all belong to it, or
\* the request never had a route.
LEMMA ReadStep ==
  ASSUME IInv, NEW r \in Requests, Read(r)
  PROVE  IInv'
<1> USE DEF HoldsHost, HoldsRef, Missing, Going, Read
<1>0. ReqType /\ Types /\ Sound(r) /\ (req[r].w = Home[req[r].h] \/ ~req[r].routed) /\ req[r].w \in Workloads
      /\ req[r].h \in Hosts
  BY Here DEF Sound, Request
<1>1. CASE req[r].w \in here
  <2>1. img[req[r].w] \in 0..MaxVersion
    BY <1>0, NamesAssumption DEF Types, Versions
  <2>2. ReqType' /\ Alone(r) /\ SameRequest(r) /\ req'[r].pc = "refLock" /\ req'[r].w = req[r].w
        /\ req'[r].sent = req[r].sent /\ req'[r].noRoute = req[r].noRoute
    BY <1>0, <1>1, <2>1 DEF ReqType, Request, Positions, Alone, SameRequest
  <2>3. Sound(r)'  BY <2>2, <1>0, SoundGoesOn DEF manager
  <2> QED  BY <2>2, <2>3, Walks
<1>2. CASE req[r].w \notin here
  <2>1. ~req[r].routed  BY <1>0, <1>2, Routing DEF Sound
  <2>2. ReqType' /\ Alone(r) /\ SameRequest(r) /\ req'[r].pc = "done"
        /\ req'[r].sent = req[r].sent
    BY <1>0, <1>2, AnswerDoes DEF Codes
  <2>3. Sound(r)'  BY <2>1, <2>2, <1>0, SoundGoesOn DEF manager
  <2> QED  BY <2>2, <2>3, Walks
<1> QED  BY <1>1, <1>2

LEMMA RefLockStep ==
  ASSUME IInv, NEW r \in Requests, RefLock(r)
  PROVE  IInv'
<1> USE DEF HoldsHost, HoldsRef, Missing, Going, RefLock
<1>0. ReqType /\ HostLocks /\ RefLocks /\ Sound(r) /\ (req[r].w = Home[req[r].h] \/ ~req[r].routed)
  BY Here DEF Sound
<1>1. ReqType' /\ Alone(r) /\ SameRequest(r) /\ req'[r].pc = "ensure" /\ req'[r].w = req[r].w
      /\ req'[r].sent = req[r].sent /\ req'[r].noRoute = req[r].noRoute
  BY <1>0, GotoDoes DEF Positions
<1>2. HostLocks'  BY <1>0, <1>1, HostKept DEF SameRequest
<1>3. RefLocks'  BY <1>0, <1>1, RefTaken
<1>4. Sound(r)'  BY <1>0, <1>1, SoundGoesOn DEF manager
<1> QED  BY <1>1, <1>2, <1>3, <1>4, TablesKept, Owed

\* Steps that give the workload's lock back.
LEMMA LeavesRef ==
  ASSUME IInv, NEW r \in Requests, ReqType', Alone(r), SameRequest(r), UnlockRef(r),
         UNCHANGED hostLock, req[r].pc \in HoldsRef,
         req'[r].pc \notin HoldsHost \cup HoldsRef
  PROVE  HostLocks' /\ RefLocks'
<1>1. ReqType /\ HostLocks /\ RefLocks
  BY Here
<1> QED  BY <1>1, RefFreed, HostKept DEF HoldsHost, HoldsRef, SameRequest

LEMMA EnsureHitStep ==
  ASSUME IInv, NEW r \in Requests, EnsureHit(r)
  PROVE  IInv'
<1> USE DEF HoldsHost, HoldsRef, Missing, Going, EnsureHit
<1>0. ReqType /\ Sound(r) /\ (req[r].w = Home[req[r].h] \/ ~req[r].routed)
  BY Here DEF Sound
<1>1. ReqType' /\ Alone(r) /\ SameRequest(r) /\ req'[r].pc = "proxy" /\ req'[r].w = req[r].w
      /\ req'[r].sent = req[r].sent /\ req'[r].noRoute = req[r].noRoute
  <2>1. ASSUME NEW x \in Request, x = [req[r] EXCEPT !.pc = "proxy", !.fresh = TRUE]
                                  \/ x = [req[r] EXCEPT !.pc = "proxy", !.fresh = FALSE]
        PROVE  /\ x.h = req[r].h /\ x.body = req[r].body /\ x.routed = req[r].routed
               /\ x.pc = "proxy" /\ x.w = req[r].w /\ x.sent = req[r].sent
               /\ x.noRoute = req[r].noRoute
    BY <1>0, <2>1 DEF ReqType, Request
  <2>2. ASSUME NEW f \in {TRUE, FALSE}
        PROVE  [req[r] EXCEPT !.pc = "proxy", !.fresh = f] \in Request
    <3>1. [req[r] EXCEPT !.pc = "proxy"] \in Request
      BY <1>0 DEF ReqType, Request, Positions
    <3> QED  BY <3>1 DEF Request
  <2>3. PICK x \in Request : req' = [req EXCEPT ![r] = x]
                             /\ (x = [req[r] EXCEPT !.pc = "proxy", !.fresh = TRUE]
                                 \/ x = [req[r] EXCEPT !.pc = "proxy", !.fresh = FALSE])
    BY <2>2
  <2> QED  BY <1>0, <2>1, <2>3, PutDoes DEF SameRequest
<1>2. Sound(r)'  BY <1>0, <1>1, SoundGoesOn DEF manager
<1>3. HostLocks' /\ RefLocks'  BY <1>1, LeavesRef
<1> QED  BY <1>1, <1>2, <1>3, TablesKept, Owed

LEMMA EnsureStartStep ==
  ASSUME IInv, NEW r \in Requests, EnsureStart(r)
  PROVE  IInv'
<1> USE DEF HoldsHost, HoldsRef, Missing, Going, EnsureStart
<1>0. ReqType /\ Types /\ Sound(r) /\ (req[r].w = Home[req[r].h] \/ ~req[r].routed)
      /\ req[r].w \in Workloads /\ req[r].v \in 0..MaxVersion
  BY Here DEF Sound, Request
<1>1. ReqType' /\ Alone(r) /\ SameRequest(r) /\ req'[r].pc = "proxy" /\ req'[r].w = req[r].w
      /\ req'[r].sent = req[r].sent /\ req'[r].noRoute = req[r].noRoute
  BY <1>0 DEF ReqType, Request, Positions, Alone, SameRequest, Proxying
<1>2. Sound(r)'  BY <1>0, <1>1, SoundGoesOn
<1>3. HostLocks' /\ RefLocks'  BY <1>1, LeavesRef
<1>4. Types'
  BY <1>0, NamesAssumption DEF Types, others, Versions, Down
<1>5. Remembered'
  BY DEF Remembered, IInv
<1> QED  BY <1>1, <1>2, <1>3, <1>4, <1>5, Owed

LEMMA EnsureFailsStep ==
  ASSUME IInv, NEW r \in Requests, EnsureFails(r)
  PROVE  IInv'
<1> USE DEF HoldsHost, HoldsRef, Missing, Going, EnsureFails
<1>0. ReqType /\ Sound(r)
  BY Here
<1>1. ReqType' /\ Alone(r) /\ SameRequest(r) /\ req'[r].pc = "done"
      /\ req'[r].sent = req[r].sent /\ ~req'[r].noRoute
  BY <1>0, AnswerDoes DEF Codes
<1>2. Sound(r)'
  <2>1. Resolvable(req[r].h, routes, here)' <=> Resolvable(req[r].h, routes, here)
    BY <1>1 DEF Resolvable, SameRequest, manager
  <2> QED  BY <1>0, <1>1, <2>1 DEF Sound, SameRequest
<1>3. HostLocks' /\ RefLocks'  BY <1>1, LeavesRef
<1> QED  BY <1>1, <1>2, <1>3, TablesKept, Owed

\* One more try counts once: a request with a body was not sent before.
LEMMA ProxyStep ==
  ASSUME IInv, NEW r \in Requests,
         Serve(r) \/ Reset(r) \/ Refused(r) \/ WindowEnds(r) \/ Leave(r)
  PROVE  IInv'
<1> USE DEF HoldsHost, HoldsRef, Missing, Going
<1>0. ReqType /\ Sound(r) /\ req[r].pc = "proxy" /\ (req[r].w = Home[req[r].h] \/ ~req[r].routed)
      /\ req[r].sent \in 0..2 /\ req[r].body \in BOOLEAN
  BY Here DEF Sound, Serve, Reset, Refused, WindowEnds, Leave, Request
<1>1. Sent(r) \in 0..2 /\ (req[r].sent = 0 => Sent(r) = 1)
  BY <1>0 DEF Sent
<1>2. UNCHANGED <<manager, refLock, hostLock, unknown, hook, check, others,
                  world, said404, answered>>
  BY DEF Serve, Reset, Refused, WindowEnds, Leave
<1>3. PICK x \in Request :
        /\ req' = [req EXCEPT ![r] = x]
        /\ x.h = req[r].h /\ x.body = req[r].body /\ x.routed = req[r].routed
        /\ x.w = req[r].w /\ x.pc \in {"proxy", "done"}
        /\ x.sent = req[r].sent \/ (x.pc = "done" /\ x.sent = Sent(r)) \/ ~req[r].body
        /\ x.noRoute = req[r].noRoute \/ ~x.noRoute
  <2>1. CASE Serve(r)
    <3> DEFINE x == [req[r] EXCEPT !.pc = "done", !.code = "served", !.sent = Sent(r)]
    <3>1. req' = [req EXCEPT ![r] = x]  BY <2>1 DEF Serve
    <3>2. x \in Request /\ x.h = req[r].h /\ x.body = req[r].body /\ x.routed = req[r].routed
          /\ x.w = req[r].w /\ x.pc = "done" /\ x.sent = Sent(r) /\ x.noRoute = req[r].noRoute
      BY <1>0, <1>1 DEF ReqType, Request, Positions, Codes
    <3> HIDE DEF x
    <3> QED  BY <3>1, <3>2
  <2>2. CASE Reset(r)
    <3> DEFINE pc == IF Retry(r) THEN "proxy" ELSE "done"
               code == IF Retry(r) THEN "none" ELSE "502"
               x == [req[r] EXCEPT !.sent = Sent(r), !.pc = pc, !.code = code]
    <3>1. req' = [req EXCEPT ![r] = x]  BY <2>2 DEF Reset
    <3>2. pc \in {"proxy", "done"} /\ code \in Codes /\ (pc = "proxy" => ~req[r].body)
      BY DEF Codes, Retry
    <3> HIDE DEF pc, code
    <3>3. x \in Request /\ x.h = req[r].h /\ x.body = req[r].body /\ x.routed = req[r].routed
          /\ x.w = req[r].w /\ x.pc = pc /\ x.sent = Sent(r) /\ x.noRoute = req[r].noRoute
      BY <1>0, <1>1, <3>2 DEF ReqType, Request, Positions
    <3> HIDE DEF x
    <3> QED  BY <3>1, <3>2, <3>3
  <2>3. CASE Refused(r) \/ Leave(r)
    <3> DEFINE x == [req[r] EXCEPT !.pc = "done", !.code = "502", !.noRoute = FALSE]
    <3>1. req' = [req EXCEPT ![r] = x]  BY <2>3 DEF Refused, Leave, Answer
    <3>2. x \in Request /\ x.h = req[r].h /\ x.body = req[r].body /\ x.routed = req[r].routed
          /\ x.w = req[r].w /\ x.pc = "done" /\ x.sent = req[r].sent /\ ~x.noRoute
      BY <1>0 DEF ReqType, Request, Positions, Codes
    <3> HIDE DEF x
    <3> QED  BY <3>1, <3>2
  <2>4. CASE WindowEnds(r)
    <3> DEFINE x == [req[r] EXCEPT !.fresh = FALSE]
    <3>1. req' = [req EXCEPT ![r] = x]  BY <2>4 DEF WindowEnds
    <3>2. x \in Request /\ x.h = req[r].h /\ x.body = req[r].body /\ x.routed = req[r].routed
          /\ x.w = req[r].w /\ x.pc = req[r].pc /\ x.sent = req[r].sent
          /\ x.noRoute = req[r].noRoute
      BY <1>0 DEF ReqType, Request
    <3> HIDE DEF x
    <3> QED  BY <1>0, <3>1, <3>2
  <2> QED  BY <2>1, <2>2, <2>3, <2>4
<1>4. ReqType' /\ Alone(r) /\ SameRequest(r) /\ req'[r] = x
  BY <1>0, <1>3, PutDoes DEF SameRequest
<1>5. Sound(r)'
  <2>1. Resolvable(req[r].h, routes, here)' <=> Resolvable(req[r].h, routes, here)
    BY <1>2, <1>4 DEF Resolvable, SameRequest, manager
  <2> QED  BY <1>0, <1>1, <1>3, <1>4, <2>1 DEF Sound, SameRequest
<1> QED  BY <1>0, <1>2, <1>3, <1>4, <1>5, Walks

---------------------------------------------------------------------------
\* Everything beside the steps of requests.

LEMMA ArriveStep ==
  ASSUME IInv, NEW r \in Requests, NEW h \in Hosts, NEW b \in BOOLEAN, Arrive(r, h, b)
  PROVE  IInv'
<1> USE DEF HoldsHost, HoldsRef, Missing, Going
<1>0. ReqType /\ HostLocks /\ RefLocks /\ req[r].pc = "idle"
  BY Here DEF Arrive
<1> DEFINE x == NewRequest(h, b)
<1>1. req' = [req EXCEPT ![r] = x]
  BY DEF Arrive
<1>2. Resolvable(h, routes, here) \in BOOLEAN /\ Some \in Workloads
  BY Routing DEF Some, Resolvable
<1>3. x \in Request /\ x.h = h /\ x.pc = "resolve" /\ x.sent = 0 /\ ~x.noRoute
      /\ x.routed = Resolvable(h, routes, here)
  BY <1>2, NamesAssumption DEF NewRequest, Request, Positions, Codes
<1> HIDE DEF x
<1>4. ReqType' /\ Alone(r) /\ req'[r] = x
  BY <1>0, <1>1, <1>3, PutDoes
<1>5. HostLocks' /\ RefLocks'
  BY <1>0, <1>3, <1>4, RefKept DEF Arrive, HostLocks, Alone
<1>6. Sound(r)'
  <2>1. Resolvable(h, routes, here)' <=> Resolvable(h, routes, here)
    BY DEF Resolvable, Arrive, manager
  <2> QED  BY <1>3, <1>4, <2>1 DEF Sound
<1> QED  BY <1>4, <1>5, <1>6, TablesKept, Owed DEF Arrive

\* Routes only grow and remembered hosts are only forgotten.
LEMMA Aside ==
  ASSUME IInv, UNCHANGED <<req, refLock, hostLock>>, Types', Remembered',
         unknown' \subseteq unknown, routes \subseteq routes', here \subseteq here'
  PROVE  IInv'
<1>1. ASSUME NEW r \in Requests
      PROVE  Sound(r)'
  <2>1. Resolvable(req[r].h, routes, here) => Resolvable(req[r].h, routes, here)'
    BY DEF Resolvable
  <2>2. Sound(r)  BY DEF IInv, AllSound
  <2> QED  BY <2>1, <2>2 DEF Sound
<1>2. AllSound'  BY <1>1 DEF AllSound
<1>3. ReqType' /\ HostLocks' /\ RefLocks'
  BY TypeParts DEF IInv, ReqType, HostLocks, RefLocks
<1> QED  BY <1>2, <1>3, TypeParts DEF IInv

LEMMA HostStep ==
  ASSUME IInv, NEW h \in Hosts,
         Attach(h) \/ ForgetUnknown(h)
  PROVE  IInv'
<1>0. Types /\ Remembered  BY TypeParts DEF IInv
<1> USE DEF Types, Remembered, manager, others
<1>1. CASE Attach(h)
  <2>1. Types'  BY <1>0, <1>1, Routing DEF Attach
  <2> QED  BY <1>0, <1>1, <2>1, Aside DEF Attach
<1>2. CASE ForgetUnknown(h)
  <2>1. Types'  BY <1>0, <1>2 DEF ForgetUnknown
  <2> QED  BY <1>0, <1>2, <2>1, Aside DEF ForgetUnknown
<1> QED  BY <1>1, <1>2

LEMMA KeyStep ==
  ASSUME IInv, NEW k \in Keys,
         CheckOver(k) \/ CoolDown(k)
  PROVE  IInv'
<1>0. Types /\ Remembered  BY TypeParts DEF IInv
<1> USE DEF Types, Remembered, manager, others
<1>1. CASE CheckOver(k)
  <2>1. Types'  BY <1>0, <1>1 DEF CheckOver
  <2>2. Remembered'  BY <1>0, <1>1 DEF CheckOver
  <2> QED  BY <1>0, <1>1, <2>1, <2>2, Aside DEF CheckOver
<1>2. CASE CoolDown(k)
  <2>1. Types'  BY <1>0, <1>2 DEF CoolDown
  <2>2. Remembered'  BY <1>0, <1>2 DEF CoolDown
  <2> QED  BY <1>0, <1>2, <2>1, <2>2, Aside DEF CoolDown
<1> QED  BY <1>1, <1>2

LEMMA WorkloadStep ==
  ASSUME IInv, NEW w \in Workloads,
         \/ MoveImage(w) \/ Reboot(w) \/ Listen(w) \/ BootElsewhere(w) \/ Die(w)
         \/ ReapScan(w) \/ Reap(w) \/ DeleteStop(w)
  PROVE  IInv'
<1>0. Types /\ Remembered  BY TypeParts DEF IInv
<1> USE DEF Types, Remembered, manager, others
<1>1. CASE MoveImage(w)
  <2>1. Types'  BY <1>0, <1>1 DEF MoveImage
  <2> QED  BY <1>0, <1>1, <2>1, Aside DEF MoveImage
<1>2. CASE Reboot(w)
  <2>1. Types'  BY <1>0, <1>2 DEF Reboot
  <2> QED  BY <1>0, <1>2, <2>1, Aside DEF Reboot
<1>3. CASE Listen(w)
  <2>1. Types'  BY <1>0, <1>3 DEF Listen
  <2> QED  BY <1>0, <1>3, <2>1, Aside DEF Listen
<1>4. CASE BootElsewhere(w)
  <2>1. Types'  BY <1>0, <1>4 DEF BootElsewhere
  <2> QED  BY <1>0, <1>4, <2>1, Aside DEF BootElsewhere
<1>5. CASE Die(w)
  <2>1. Types'  BY <1>0, <1>5 DEF Die
  <2> QED  BY <1>0, <1>5, <2>1, Aside DEF Die
<1>6. CASE ReapScan(w)
  <2>1. Types'  BY <1>0, <1>6 DEF ReapScan
  <2> QED  BY <1>0, <1>6, <2>1, Aside DEF ReapScan
<1>7. CASE Reap(w)
  <2>1. Types'  BY <1>0, <1>7 DEF Reap
  <2> QED  BY <1>0, <1>7, <2>1, Aside DEF Reap
<1>8. CASE DeleteStop(w)
  <2>1. Types'  BY <1>0, <1>8 DEF DeleteStop
  <2> QED  BY <1>0, <1>8, <2>1, Aside DEF DeleteStop
<1> QED  BY <1>1, <1>2, <1>3, <1>4, <1>5, <1>6, <1>7, <1>8

LEMMA HookAnswersStep ==
  ASSUME IInv, NEW r \in Requests, HookAnswers(r)
  PROVE  IInv'
<1>1. Types /\ Remembered  BY TypeParts DEF IInv
<1>2. Types' /\ Remembered'
  BY <1>1 DEF Types, Remembered, HookAnswers, manager, others
<1> QED  BY <1>2, Aside DEF HookAnswers, manager

LEMMA ShipStep ==
  ASSUME IInv, Ship
  PROVE  IInv'
<1>1. Types /\ Remembered  BY TypeParts DEF IInv
<1>2. Types' /\ Remembered'
  BY <1>1, NamesAssumption DEF Types, Remembered, Ship, Versions, others
<1> QED  BY <1>2, Aside DEF Ship

\* A deletion takes the mark of a host that had a route all along from every request
\* whose host it takes the last route from.
LEMMA DeleteRecordStep ==
  ASSUME IInv, NEW w \in Workloads, DeleteRecord(w)
  PROVE  IInv'
<1>0. ReqType /\ Types /\ HostLocks /\ RefLocks /\ Remembered /\ AllSound
  BY TypeParts DEF IInv
<1>1. ASSUME NEW r \in Requests
      PROVE  /\ req'[r] \in Request /\ Sound(r)'
             /\ req'[r].pc = req[r].pc /\ req'[r].h = req[r].h /\ req'[r].w = req[r].w
  <2> DEFINE there == Resolvable(req[r].h, routes', here')
             x == [req[r] EXCEPT !.routed = req[r].routed /\ there]
  <2>1. req'[r] = x
    BY DEF DeleteRecord
  <2>2. there \in BOOLEAN
    BY DEF Resolvable
  <2> HIDE DEF there
  <2>3. x \in Request /\ x.h = req[r].h /\ x.pc = req[r].pc /\ x.w = req[r].w
        /\ x.body = req[r].body /\ x.sent = req[r].sent /\ x.noRoute = req[r].noRoute
        /\ (x.routed <=> req[r].routed /\ there)
    BY <1>0, <2>2 DEF ReqType, Request
  <2>4. Sound(r)  BY <1>0 DEF AllSound
  <2>5. Resolvable(req[r].h, routes, here)' <=> there
    BY <2>1, <2>3 DEF there, Resolvable
  <2>6. unknown' = unknown
    BY DEF DeleteRecord
  <2> HIDE DEF x
  <2>7. Sound(r)'
    BY <2>1, <2>3, <2>4, <2>5, <2>6 DEF Sound
  <2> QED  BY <2>1, <2>3, <2>7
<1>2. ReqType'
  <2>1. req' = [r \in Requests |-> req'[r]]
    BY DEF DeleteRecord
  <2> QED  BY <1>1, <2>1 DEF ReqType
<1>3. HostLocks' /\ RefLocks'
  <2>1. UNCHANGED <<hostLock, refLock>>
    BY DEF DeleteRecord
  <2> QED  BY <1>0, <1>1, <2>1 DEF HostLocks, RefLocks
<1>4. AllSound'  BY <1>1 DEF AllSound
<1>5. Types' /\ Remembered'
  BY <1>0 DEF Types, Remembered, DeleteRecord
<1> QED  BY <1>2, <1>3, <1>4, <1>5, TypeParts DEF IInv

---------------------------------------------------------------------------
LEMMA Begins == Init => IInv
<1> SUFFICES ASSUME Init PROVE IInv
  OBVIOUS
<1> DEFINE h0 == CHOOSE h \in Hosts : TRUE
           y == NewRequest(h0, FALSE)
           x == [y EXCEPT !.pc = "idle"]
<1>1. h0 \in Hosts /\ Resolvable(h0, routes, here) \in BOOLEAN
  BY NamesAssumption DEF Resolvable
<1>2. Some \in Workloads
  BY <1>1, Routing DEF Some
<1> HIDE DEF h0
<1>3. x \in Request /\ x.pc = "idle" /\ x.h = h0 /\ ~x.noRoute /\ x.sent = 0
      /\ x.routed = Resolvable(h0, routes, here)
  <2>1. y \in Request /\ y.h = h0 /\ ~y.noRoute /\ y.sent = 0
        /\ y.routed = Resolvable(h0, routes, here)
    BY <1>1, <1>2, NamesAssumption DEF NewRequest, Request, Positions, Codes
  <2> HIDE DEF y
  <2> QED  BY <2>1 DEF Request, Positions
<1>4. req = [r \in Requests |-> x]
  BY DEF Init, h0
<1> HIDE DEF x
<1>5. ReqType  BY <1>3, <1>4 DEF ReqType
<1>6. HostLocks /\ RefLocks
  BY <1>3, <1>4, NamesAssumption DEF Init, HostLocks, RefLocks, HoldsHost, HoldsRef
<1>7. AllSound
  BY <1>3, <1>4 DEF AllSound, Sound, Missing, Going, HoldsHost
<1>8. Types
  BY NamesAssumption, WorldsAssumption DEF Init, Types, Versions
<1>9. Remembered  BY DEF Init, Remembered
<1> QED  BY <1>5, <1>6, <1>7, <1>8, <1>9, TypeParts DEF IInv

LEMMA Stutters == IInv /\ UNCHANGED vars => IInv'
<1> SUFFICES ASSUME IInv, UNCHANGED vars PROVE IInv'
  OBVIOUS
<1>1. Types /\ Remembered  BY TypeParts DEF IInv
<1>2. Types' /\ Remembered'
  BY <1>1 DEF Types, Remembered, vars, manager, others
<1> QED  BY <1>2, Aside DEF vars, manager

LEMMA StepKeeps ==
  ASSUME IInv, NEW r \in Requests, Step(r)
  PROVE  IInv'
  BY ResolveStep, ResolveKeyStep, HookOffStep, HostLockStep, RecheckStep, AskStep, PollStep, HookReturnsStep,
     HoldOverStep, CheckStep, ClaimStep, WaitedStep, ReadStep, RefLockStep,
     EnsureHitStep, EnsureStartStep, EnsureFailsStep, ProxyStep DEF Step

LEMMA NextKeeps == IInv /\ [Next]_vars => IInv'
<1> SUFFICES ASSUME IInv, Next PROVE IInv'
  BY Stutters
<1>1. CASE \E r \in Requests : Step(r)
  BY <1>1, StepKeeps
<1>7. CASE \E r \in Requests : Program(r) \/ Leave(r)
  BY <1>7, ProxyStep DEF Program
<1>2. CASE \E r \in Requests, h \in Hosts, b \in BOOLEAN : Arrive(r, h, b)
  BY <1>2, ArriveStep
<1>3. CASE \E r \in Requests : HookAnswers(r)
  BY <1>3, HookAnswersStep
<1>4. CASE \E h \in Hosts : Attach(h) \/ ForgetUnknown(h)
  BY <1>4, HostStep
<1>5. CASE \E k \in Keys : CheckOver(k) \/ CoolDown(k)
  BY <1>5, KeyStep
<1>6. CASE \E w \in Workloads : \/ MoveImage(w) \/ Reboot(w) \/ Listen(w)
                             \/ BootElsewhere(w) \/ Die(w) \/ ReapScan(w) \/ Reap(w)
                             \/ DeleteStop(w) \/ DeleteRecord(w)
  BY <1>6, WorkloadStep, DeleteRecordStep
<1> QED  BY <1>1, <1>2, <1>3, <1>4, <1>5, <1>6, <1>7, ShipStep DEF Next, Client

LEMMA Invariance == Spec => []IInv
  BY Begins, NextKeeps, PTL DEF Spec

---------------------------------------------------------------------------
\* The tables and the requests keep their types, and every lock is held by exactly
\* the request that is between taking it and giving it back, on every early return
\* of RequestReprovision and EnsureRunning.
THEOREM TypeCorrect == Spec => []TypeOK
<1>1. IInv => TypeOK  BY DEF IInv
<1> QED  BY <1>1, Invariance, PTL

\* A client is sent to another instance only if this one had no route for its host
\* at some time during the request: not by a workload that is suspended, deleted and
\* registered again, or fails to start (gateway.go's X-Orchd-No-Route).
THEOREM NoRoute == Spec => []NoRouteIsTrue
<1>1. IInv => NoRouteIsTrue  BY DEF IInv, AllSound, Sound, NoRouteIsTrue
<1> QED  BY <1>1, Invariance, PTL

\* A request with a body reaches the program once at most (retryableStartup).
THEOREM Once == Spec => []BodyOnce
<1>1. IInv => BodyOnce  BY DEF IInv, AllSound, Sound, BodyOnce
<1> QED  BY <1>1, Invariance, PTL

\* While a 404 is remembered no request asks about its host (RequestReprovision).
THEOREM NotAsked == Spec => UnknownNotAsked
<1> DEFINE A == \A r \in Requests :
              hook[r] = "none" /\ hook'[r] = "flight" => req[r].h \notin said404
<1>1. IInv /\ [Next]_vars => [A]_vars
  <2> SUFFICES ASSUME IInv, Next, NEW r \in Requests, hook[r] = "none", hook'[r] = "flight"
               PROVE  req[r].h \notin said404
    OBVIOUS
  <2>0. Types  BY TypeParts DEF IInv
  <2>1. \E q \in Requests : Ask(q) \/ HookAnswers(q)
    BY <2>0 DEF Next, Step, Program, Client, Leave, ResolveKey, HookOff, Claim, CheckOver, CoolDown, Arrive, Resolve,
       HostLock, Recheck, Poll, HookReturns, HoldOver, Check, Waited, Read,
       RefLock, EnsureHit, EnsureStart, EnsureFails, Serve, Reset, Refused,
       WindowEnds, Attach, MoveImage, Reboot, Ship, Listen, BootElsewhere, Die,
       ReapScan, Reap, DeleteStop, DeleteRecord, ForgetUnknown
  <2>2. Ask(r)
    BY <2>0, <2>1 DEF Ask, HookAnswers, Types
  <2> QED  BY <2>2, Here DEF Ask, Sound, IInv, Remembered
<1> QED  BY <1>1, Invariance, PTL DEF UnknownNotAsked, Spec

\* The receiver is not asked again about a project's version it answered for, however
\* many wakes share, wait and give up (CheckImageBeforeWake).
THEOREM Asked == Spec => AskedOnce
<1> DEFINE A == \A k \in Keys : check'[k] = "asked" /\ check[k] # "asked" => k \notin answered
<1>1. IInv /\ [Next]_vars => [A]_vars
  <2> SUFFICES ASSUME IInv, Next, NEW k \in Keys, check'[k] = "asked", check[k] # "asked"
               PROVE  k \notin answered
    OBVIOUS
  <2>0. Types  BY TypeParts DEF IInv
  <2>1. (\E r \in Requests : Claim(r)) \/ (\E l \in Keys : CheckOver(l) \/ CoolDown(l))
    BY <2>0 DEF Next, Step, Program, Client, Leave, ResolveKey, HookOff, Ask, HookAnswers, Arrive, Resolve, HostLock,
       Recheck, Poll, HookReturns, HoldOver, Check, Waited, Read, RefLock,
       EnsureHit, EnsureStart, EnsureFails, Serve, Reset, Refused, WindowEnds,
       Attach, MoveImage, Reboot, Ship, Listen, BootElsewhere, Die, ReapScan,
       Reap, DeleteStop, DeleteRecord, ForgetUnknown
  <2>2. PICK r \in Requests : Claim(r)
    BY <2>0, <2>1 DEF CheckOver, CoolDown, Types
  <2>3. ~SeenCheck(k)
    BY <2>0, <2>2 DEF Claim, Types
  <2> QED  BY <2>3 DEF SeenCheck, IInv, Remembered
<1> QED  BY <1>1, Invariance, PTL DEF AskedOnce, Spec
=============================================================================
