----------------------------- MODULE StoreProofs -----------------------------
(***************************************************************************)
(* The store for any projects, workloads, routes and clients: types, that  *)
(* it implements what Records promises of it, where orphans come from, and *)
(* that what was registered stays.                                         *)
(*                                                                         *)
(* The refinement needs to know what a mutation under way has done so far  *)
(* (Writing): the maps are one store call away from what readers last saw, *)
(* and once it has landed, what a restart reads is what the maps hold.     *)
(* Orphans need what each client's check of a record still tells of it     *)
(* (NoOrphans), and registrations how far each has come (Standing).        *)
(***************************************************************************)
EXTENDS Store, SequenceTheorems, TLAPS

Writing ==
    /\ writer = None <=> stage = "none"
    /\ writer = None => shown = mem
    /\ writer # None => todo[writer] # <<>> /\ <<shown, mem>> \in Changes
    /\ stage = "landed" => disk = mem

Inv == TypeOK /\ Writing

---------------------------------------------------------------------------
\* Store calls.

\* A mutation makes whole contents of whole contents.
LEMMA ApplyType ==
    ASSUME NEW k \in Mutations, NEW s \in Contents
    PROVE  Apply(k, s) \in Contents
<1>1. ProjectsAfter(k, s) \in [Projects -> Clock \cup {None}]
  BY DEF ProjectsAfter, Contents, PutProject
<1>2. WorkloadsAfter(k, s) \in SUBSET Workloads
  BY DEF WorkloadsAfter, Contents
<1>3. RoutesAfter(k, s) \in [Hosts -> Workloads \cup {None}]
  BY StoreAssumption DEF RoutesAfter, Contents, PutRoute
<1> QED
  BY <1>1, <1>2, <1>3 DEF Apply, Contents

\* What a client is about to write is a mutation.
LEMMA MutationType ==
    ASSUME TypeOK, NEW c \in Clients, ~Idle(c), Step(c).do \notin Reads
    PROVE  Mutation(c) \in Mutations
<1>1. Step(c) \in Calls
  BY DEF TypeOK, CallsOK, Idle, Step
<1>2. CASE \E p \in Projects : Step(c) = WriteBack(p)
  <2>1. PICK p \in Projects : Step(c) = WriteBack(p)
    BY <1>2
  <2>2. Mutation(c) = PutProject(p, got[c]) /\ got[c] \in Clock
    BY <2>1 DEF Mutation, WriteBack, TypeOK, CallsOK
  <2> QED
    BY <2>2 DEF Mutations
<1>3. CASE Step(c) \in Mutations
  <2>1. Step(c).do # "WriteBack"
    BY <1>3 DEF Mutations, PutProject, EraseProject, PutWorkload, SetWorkloadState,
                EraseWorkload, PutRoute, EraseRoute
  <2> QED
    BY <1>3, <2>1 DEF Mutation
<1> QED
  BY <1>1, <1>2, <1>3 DEF Calls, Reads, GetProject, GetOlder, GetWorkload, GetRoute, GetHostFree

---------------------------------------------------------------------------
\* The manager's calls.

\* Registration is a sequence of store calls ...
LEMMA RegisterType ==
    ASSUME NEW p \in Projects, NEW w \in Workloads
    PROVE  Register(p, w) \in Seq(Calls) /\ CreateProject(p, w) \in Seq(Calls)
<1>1. /\ GetProject(p) \in Calls /\ PutWorkload(w) \in Calls
      /\ PutRoute(DefaultHost[w], w) \in Calls /\ GetWorkload(w) \in Calls
      /\ PutProject(p, 0) \in Calls
  BY StoreAssumption DEF Calls, Mutations, Clock
<1>2. Register(p, w) \in Seq(Calls) /\ <<PutProject(p, 0)>> \in Seq(Calls)
  BY <1>1 DEF Register
<1> QED
  BY <1>2 DEF CreateProject

LastOf(q) == q[Len(q)]

AllOf(q) == {q[i] : i \in DOMAIN q}

\* What calls of so many steps end with, and what is in them.
LEMMA One == \A a : LastOf(<<a>>) = a /\ AllOf(<<a>>) = {a}
  BY DEF LastOf, AllOf

LEMMA Two == \A a, b : LastOf(<<a, b>>) = b /\ AllOf(<<a, b>>) = {a, b}
  BY DEF LastOf, AllOf

LEMMA Three == \A a, b, d : LastOf(<<a, b, d>>) = d /\ AllOf(<<a, b, d>>) = {a, b, d}
  BY DEF LastOf, AllOf

\* Calls that have no more than one or two steps left.
LEMMA LastSteps ==
    ASSUME NEW S, NEW q \in Seq(S), q # <<>>, NEW a, NEW b
    PROVE  /\ Tail(q) = <<a>> => q = <<Head(q), a>>
           /\ Tail(q) = <<a, b>> => Len(q) = 3 /\ q[1] = Head(q)
<1>1. /\ Len(q) \in Nat /\ Len(q) >= 1 /\ q[1] = Head(q)
      /\ Len(Tail(q)) = Len(q) - 1
      /\ \A i \in 1..(Len(q) - 1) : Tail(q)[i] = q[i + 1]
  OBVIOUS
<1>4. \A n \in Nat : Len(Tail(q)) = n => Len(q) = n + 1
  BY ONLY <1>1
<1>2. ASSUME Tail(q) = <<a>>
      PROVE  q = <<Head(q), a>>
  <2>0. Len(<<a>>) = 1 /\ <<a>>[1] = a
    OBVIOUS
  <2>3. Len(Tail(q)) = 1 /\ Tail(q)[1] = a
    BY <1>2, <2>0
  <2>4. Len(q) = 2
    BY <1>4, <2>3
  <2>1. Len(q) = 2 /\ Tail(q)[1] = a
    BY <2>3, <2>4
  <2>2. q[1] = Head(q) /\ q[2] = a
    BY <1>1, <2>1
  <2> QED
    BY <2>1, <2>2
<1>3. ASSUME Tail(q) = <<a, b>>
      PROVE  Len(q) = 3
  <2>0. Len(<<a, b>>) = 2
    OBVIOUS
  <2>1. Len(Tail(q)) = 2
    BY <1>3, <2>0
  <2> QED
    BY <1>1, <2>1
<1> QED
  BY <1>1, <1>2, <1>3

\* A creation, call by call.
LEMMA CreateSteps ==
    ASSUME NEW p \in Projects, NEW w \in Workloads
    PROVE  CreateProject(p, w) = <<PutProject(p, 0), GetProject(p), PutWorkload(w),
                                   PutRoute(DefaultHost[w], w), GetWorkload(w)>>
<1> DEFINE a == PutProject(p, 0)  b == GetProject(p)  d == PutWorkload(w)
           e == PutRoute(DefaultHost[w], w)  f == GetWorkload(w)
<1>1. CreateProject(p, w) = <<a>> \o <<b, d, e, f>>
  BY Zenon DEF Register, CreateProject
<1> DEFINE S == {a, b, d, e, f}  q == <<b, d, e, f>>
<1> HIDE DEF a, b, d, e, f
<1>2. <<a>> \in Seq(S) /\ q \in Seq(S) /\ <<a, b, d, e, f>> \in Seq(S)
  OBVIOUS
<1>3. /\ <<a>> \o q \in Seq(S) /\ Len(<<a>> \o q) = 5
      /\ \A i \in 1..5 : (<<a>> \o q)[i] = IF i = 1 THEN a ELSE q[i - 1]
  BY <1>2, ConcatProperties
<1>4. \A i \in 1..5 : (<<a>> \o q)[i] = <<a, b, d, e, f>>[i]
  BY <1>3
<1>5. <<a>> \o q = <<a, b, d, e, f>>
  BY <1>2, <1>3, <1>4, SeqEqual
<1> QED
  BY Zenon, <1>1, <1>5 DEF a, b, d, e, f

\* What a registration and a creation consist of, and end with.
LEMMA RegisterEnds ==
    ASSUME NEW p \in Projects, NEW w \in Workloads
    PROVE  /\ LastOf(Register(p, w)) = GetWorkload(w)
           /\ LastOf(CreateProject(p, w)) = GetWorkload(w)
           /\ AllOf(Register(p, w)) \subseteq AllOf(CreateProject(p, w))
           /\ AllOf(CreateProject(p, w)) = {PutProject(p, 0), GetProject(p), PutWorkload(w),
                                            PutRoute(DefaultHost[w], w), GetWorkload(w)}
<1> DEFINE a == PutProject(p, 0)  b == GetProject(p)  d == PutWorkload(w)
           e == PutRoute(DefaultHost[w], w)  f == GetWorkload(w)
<1>1. Register(p, w) = <<b, d, e, f>> /\ CreateProject(p, w) = <<a, b, d, e, f>>
  BY Zenon, CreateSteps DEF Register
<1> HIDE DEF a, b, d, e, f
<1>2. LastOf(<<b, d, e, f>>) = f /\ AllOf(<<b, d, e, f>>) = {b, d, e, f}
  BY DEF LastOf, AllOf
<1>3. LastOf(<<a, b, d, e, f>>) = f /\ AllOf(<<a, b, d, e, f>>) = {a, b, d, e, f}
  BY DEF LastOf, AllOf
<1>4. /\ LastOf(Register(p, w)) = f
      /\ LastOf(CreateProject(p, w)) = f
      /\ AllOf(Register(p, w)) \subseteq AllOf(CreateProject(p, w))
      /\ AllOf(CreateProject(p, w)) = {a, b, d, e, f}
  BY <1>1, <1>2, <1>3
<1> QED
  BY Zenon, <1>4 DEF a, b, d, e, f

\* What may follow what in a call: each record is put after its check.
Follows(a, b) ==
    \A w \in Workloads :
        /\ b = PutWorkload(w) => a \in {GetProject(ProjectOf[w]), GetWorkload(w)}
        /\ b = GetWorkload(w) => a = PutRoute(DefaultHost[w], w)
        /\ \A h \in Hosts :
              /\ b = PutRoute(h, w) => a = GetHostFree(h, w)
                                       \/ (a = PutWorkload(w) /\ h = DefaultHost[w])
              /\ b = GetHostFree(h, w) => a = GetWorkload(w)

\* A host's check is the last but one step of its call.
Chained(calls) ==
    /\ \A i \in 1..(Len(calls) - 1) : Follows(calls[i], calls[i + 1])
    /\ \A i \in 1..(Len(calls) - 2) : calls[i].do # "GetHostFree"

\* A call begins with none of what needs a check, and with more than a look.
Fresh(calls) ==
    /\ calls # <<>>
    /\ Head(calls).do \notin {"PutWorkload", "PutRoute", "GetHostFree"}
    /\ \A w \in Workloads : calls # <<GetWorkload(w)>>

\* ... in this order.
LEMMA RegisterChained ==
    ASSUME NEW p \in Projects, NEW w \in Workloads, ProjectOf[w] = p
    PROVE  /\ Chained(Register(p, w)) /\ Fresh(Register(p, w))
           /\ Chained(CreateProject(p, w)) /\ Fresh(CreateProject(p, w))
<1> DEFINE a == PutProject(p, 0)  b == GetProject(p)  d == PutWorkload(w)
           e == PutRoute(DefaultHost[w], w)  f == GetWorkload(w)
<1>1. Follows(a, b) /\ Follows(b, d) /\ Follows(d, e) /\ Follows(e, f)
  BY StoreAssumption
  DEF Follows, PutProject, GetProject, PutWorkload, PutRoute, GetWorkload, GetHostFree
<1>2. /\ a.do = "PutProject" /\ b.do = "GetProject"
      /\ d.do # "GetHostFree" /\ e.do # "GetHostFree" /\ f.do # "GetHostFree"
  BY DEF PutProject, GetProject, PutWorkload, PutRoute, GetWorkload
<1>3. Register(p, w) = <<b, d, e, f>> /\ CreateProject(p, w) = <<a, b, d, e, f>>
  BY Zenon, CreateSteps DEF Register
<1> HIDE DEF a, b, d, e, f
<1>4. Chained(<<b, d, e, f>>) /\ Chained(<<a, b, d, e, f>>)
  BY <1>1, <1>2 DEF Chained
<1>5. Fresh(<<b, d, e, f>>) /\ Fresh(<<a, b, d, e, f>>)
  BY <1>2 DEF Fresh
<1> QED
  BY <1>3, <1>4, <1>5

\* Each call, as it is begun.
LEMMA BeginsFresh ==
    ASSUME CallsOK, NEW c \in Clients, Begin(c)
    PROVE  \E name \in ops, calls \in Seq(Calls) :
               Call(c, name, calls) /\ Chained(calls) /\ Fresh(calls)
<1>0. \A name, calls : Call(c, name, calls) => name \in ops
  BY DEF Call
<1>1. ASSUME NEW p \in Projects, NEW w \in Workloads, Create(c, p, w) \/ AddWorkload(c, p, w)
      PROVE  \E name \in ops, calls \in Seq(Calls) :
                 Call(c, name, calls) /\ Chained(calls) /\ Fresh(calls)
  BY <1>0, <1>1, RegisterType, RegisterChained DEF Create, AddWorkload
<1>2. CASE Delete(c)
  <2>1. \A p \in Projects : DeleteProject(p) \in Seq(Calls)
    BY DEF DeleteProject, Calls, Mutations
  <2>2. \A w \in Workloads : DeleteWorkload(w) \in Seq(Calls)
    BY DEF DeleteWorkload, Calls, Mutations
  <2>3. \A h \in Hosts : RemoveRoute(h) \in Seq(Calls)
    BY DEF RemoveRoute, Calls, Mutations
  <2>4. /\ \A p \in Projects : Chained(DeleteProject(p)) /\ Fresh(DeleteProject(p))
        /\ \A w \in Workloads : Chained(DeleteWorkload(w)) /\ Fresh(DeleteWorkload(w))
        /\ \A h \in Hosts : Chained(RemoveRoute(h)) /\ Fresh(RemoveRoute(h))
    BY DEF Chained, Fresh, Follows, DeleteProject, DeleteWorkload, RemoveRoute, GetProject, EraseProject,
           GetWorkload, EraseWorkload, GetRoute, EraseRoute, PutWorkload, GetHostFree, PutRoute
  <2> QED
    BY <1>0, <1>2, <2>1, <2>2, <2>3, <2>4 DEF Delete
<1>3. CASE Edit(c)
  <2>1. \A p \in Projects : EditProject(p) \in Seq(Calls)
    BY DEF EditProject, Calls, Mutations
  <2>2. \A w \in Workloads : EditWorkload(w) \in Seq(Calls) /\ <<SetWorkloadState(w)>> \in Seq(Calls)
    BY DEF EditWorkload, Calls, Mutations
  <2>3. \A h \in Hosts, w \in Workloads : AddRoute(h, w) \in Seq(Calls)
    BY DEF AddRoute, Calls, Mutations
  <2>4. \A p \in Projects : Chained(EditProject(p)) /\ Fresh(EditProject(p))
    BY DEF Chained, Fresh, Follows, EditProject, GetProject, WriteBack, GetWorkload, PutWorkload,
           GetHostFree, PutRoute
  <2>10. \A w \in Workloads : Chained(EditWorkload(w)) /\ Fresh(EditWorkload(w))
    BY DEF Chained, Fresh, Follows, EditWorkload, GetWorkload, PutWorkload, GetHostFree, PutRoute
  <2>11. \A w \in Workloads : Chained(<<SetWorkloadState(w)>>) /\ Fresh(<<SetWorkloadState(w)>>)
    BY DEF Chained, Fresh, SetWorkloadState, GetWorkload
  <2>5. \A h \in Hosts, w \in Workloads : Chained(AddRoute(h, w)) /\ Fresh(AddRoute(h, w))
    BY DEF Chained, Fresh, Follows, AddRoute, GetProject, GetWorkload, PutWorkload, GetHostFree, PutRoute
  <2>6. \/ \E p \in Projects : Call(c, "editProject", EditProject(p))
        \/ \E w \in Workloads : Call(c, "editWorkload", EditWorkload(w))
        \/ \E w \in Workloads : Call(c, "setState", <<SetWorkloadState(w)>>)
        \/ \E h \in Hosts, w \in Workloads : Call(c, "addRoute", AddRoute(h, w))
    BY <1>3 DEF Edit
  <2>7. CASE \E h \in Hosts, w \in Workloads : Call(c, "addRoute", AddRoute(h, w))
    BY <1>0, <2>3, <2>5, <2>7
  <2>8. CASE \E p \in Projects : Call(c, "editProject", EditProject(p))
    BY <1>0, <2>1, <2>4, <2>8
  <2>9. CASE \E w \in Workloads : \/ Call(c, "editWorkload", EditWorkload(w))
                                  \/ Call(c, "setState", <<SetWorkloadState(w)>>)
    BY <1>0, <2>2, <2>10, <2>11, <2>9
  <2> QED
    BY <2>6, <2>7, <2>8, <2>9
<1>4. ASSUME NEW p \in Projects, NoteActivity(c, p)
      PROVE  \E name \in ops, calls \in Seq(Calls) :
                 Call(c, name, calls) /\ Chained(calls) /\ Fresh(calls)
  <2>1. now + 1 \in Clock /\ Call(c, "note", SetProjectLastActive(p, now + 1))
    BY <1>4, StoreAssumption DEF NoteActivity, CallsOK, Clock
  <2>2. GetOlder(p, now + 1) \in Calls /\ PutProject(p, now + 1) \in Calls
    BY <2>1 DEF Calls, Mutations
  <2>3. SetProjectLastActive(p, now + 1) \in Seq(Calls)
    BY <2>2 DEF SetProjectLastActive
  <2>4. \A t \in Clock : Chained(SetProjectLastActive(p, t)) /\ Fresh(SetProjectLastActive(p, t))
    BY DEF Chained, Fresh, Follows, SetProjectLastActive, GetOlder, PutProject,
           GetWorkload, PutWorkload, GetHostFree, PutRoute
  <2> QED
    BY <1>0, <2>1, <2>3, <2>4
<1> QED
  BY <1>1, <1>2, <1>3, <1>4 DEF Begin

---------------------------------------------------------------------------
\* Steps.

LEMMA InitInv == Init => Inv
<1> SUFFICES ASSUME Init PROVE Inv
  OBVIOUS
<1>1. Blank \in Contents
  BY DEF Blank, Contents
<1>2. TypeOK
  BY <1>1, StoreAssumption DEF Init, TypeOK, DbOK, CallsOK, HistoryOK, Clock
<1>3. Writing
  BY DEF Init, Writing
<1> QED
  BY <1>2, <1>3 DEF Inv

\* Beginning a call leaves the store alone, and the caller is not writing.
LEMMA CallStep ==
    ASSUME Inv, NEW c \in Clients, NEW name, NEW calls \in Seq(Calls), Call(c, name, calls)
    PROVE  DbOK' /\ Writing' /\ todo' \in [Clients -> Seq(Calls)] /\ got' = got /\ answer' = answer
<1>1. todo' \in [Clients -> Seq(Calls)]
  BY DEF Call, Inv, TypeOK, CallsOK
<1>2. DbOK' /\ got' = got /\ answer' = answer
  BY DEF Call, db, Inv, TypeOK, DbOK
<1>3. writer # c
  BY StoreAssumption DEF Call, Idle, Inv, Writing
<1>4. writer # None => todo'[writer] = todo[writer]
  BY <1>3 DEF Call, Inv, TypeOK, DbOK, CallsOK
<1>5. Writing'
  BY <1>4 DEF Call, db, Inv, Writing
<1> QED
  BY <1>1, <1>2, <1>5

LEMMA BeginStep ==
    ASSUME Inv, NEW c \in Clients, Begin(c)
    PROVE  Inv'
<1>1. PICK name \in ops, calls \in Seq(Calls) : Call(c, name, calls)
  BY BeginsFresh DEF Inv, TypeOK
<1>2. DbOK' /\ Writing' /\ todo' \in [Clients -> Seq(Calls)] /\ got' = got /\ answer' = answer
  BY <1>1, CallStep
<1>3. /\ minted' \subseteq Projects
      /\ fate' \in [Workloads -> {"unborn", "coming", "made", "doomed", "raced"}]
  BY DEF Begin, Create, AddWorkload, Delete, Edit, NoteActivity, Bear, Inv, TypeOK, HistoryOK
<1>4. now' \in Clock
  BY StoreAssumption DEF Begin, Create, AddWorkload, Delete, Edit, NoteActivity, Clock, Inv, TypeOK, CallsOK
<1>5. taken' \subseteq Workloads
  BY <1>1 DEF Call, Inv, TypeOK, HistoryOK
<1> QED
  BY <1>2, <1>3, <1>4, <1>5 DEF Inv, TypeOK, CallsOK, HistoryOK

\* Ending a call, or its first store call, of a client that is not writing.
LEMMA OthersWrite ==
    ASSUME Inv, NEW c \in Clients, writer # c, NEW rest \in Seq(Calls),
           todo' = [todo EXCEPT ![c] = rest], UNCHANGED <<db, shown, answer>>
    PROVE  DbOK' /\ Writing' /\ todo' \in [Clients -> Seq(Calls)]
<1>1. todo' \in [Clients -> Seq(Calls)] /\ DbOK'
  BY DEF db, Inv, TypeOK, DbOK, CallsOK
<1>2. writer # None => todo'[writer] = todo[writer]
  BY DEF Inv, TypeOK, DbOK, CallsOK
<1>3. Writing'
  BY <1>2 DEF db, Inv, Writing
<1> QED
  BY <1>1, <1>3

LEMMA ReadStep ==
    ASSUME Inv, NEW c \in Clients, Read(c)
    PROVE  Inv'
<1>1. Step(c) \in Calls /\ Tail(todo[c]) \in Seq(Calls)
  BY DEF Read, Idle, Step, Inv, TypeOK, CallsOK
<1>2. DbOK' /\ Writing' /\ todo' \in [Clients -> Seq(Calls)]
  <2>1. writer # c /\ todo' = [todo EXCEPT ![c] = Tail(todo[c])] /\ UNCHANGED <<db, shown, answer>>
    BY StoreAssumption DEF Read
  <2> QED
    BY <1>1, <2>1, OthersWrite
<1>3. got' \in [Clients -> Clock]
  <2>1. CASE Step(c).do = "GetProject"
    <3>1. PICK p \in Projects : Step(c) = GetProject(p)
      BY <1>1, <2>1 DEF Calls, Mutations, PutProject, EraseProject, PutWorkload, SetWorkloadState,
            EraseWorkload, PutRoute, EraseRoute, WriteBack, GetOlder, GetWorkload, GetRoute, GetHostFree
    <3>2. Step(c).p = p
      BY <3>1 DEF GetProject
    <3>3. mem.project[p] \in Clock
      BY <2>1, <3>2 DEF Read, Finds, Inv, TypeOK, DbOK, Contents
    <3> QED
      BY <2>1, <3>2, <3>3 DEF Read, Inv, TypeOK, CallsOK
  <2>2. CASE Step(c).do # "GetProject"
    BY <2>2 DEF Read, Inv, TypeOK, CallsOK
  <2> QED
    BY <2>1, <2>2
<1>4. HistoryOK' /\ now' = now
  BY DEF Read, Inv, TypeOK, HistoryOK
<1> QED
  BY <1>2, <1>3, <1>4 DEF Inv, TypeOK, CallsOK

LEMMA StopStep ==
    ASSUME Inv, NEW c \in Clients, NotFound(c) \/ Refuse(c)
    PROVE  Inv'
<1>1. writer # c /\ Over(c, <<>>) /\ UNCHANGED <<db, now, shown, answer, minted>>
  BY StoreAssumption DEF NotFound, Refuse, history
<1>2. DbOK' /\ Writing' /\ todo' \in [Clients -> Seq(Calls)]
  <2>1. <<>> \in Seq(Calls)
    OBVIOUS
  <2> QED
    BY <1>1, <2>1, OthersWrite DEF Over
<1>3. got' \in [Clients -> Clock] /\ now' \in Clock
  BY <1>1, StoreAssumption DEF Over, Clock, Inv, TypeOK, CallsOK
<1>4. HistoryOK'
  BY <1>1 DEF NotFound, Refuse, history, Inv, TypeOK, HistoryOK
<1> QED
  BY <1>2, <1>3, <1>4 DEF Inv, TypeOK, CallsOK

LEMMA ChangeStep ==
    ASSUME Inv, NEW c \in Clients, Change(c)
    PROVE  Inv'
<1>1. Mutation(c) \in Mutations
  BY MutationType DEF Change, Inv
<1>2. mem \in Contents /\ mem' = Apply(Mutation(c), mem)
  BY DEF Change, Inv, TypeOK, DbOK
<1>3. mem' \in Contents
  BY <1>1, <1>2, ApplyType
<1>4. <<mem, mem'>> \in Changes
  BY <1>1, <1>2, <1>3 DEF Changes
<1>5. shown' = mem /\ todo'[writer'] # <<>> /\ writer' = c
  BY DEF Change, Idle, Inv, Writing
<1>6. Writing'
  BY <1>4, <1>5, StoreAssumption DEF Change, Writing
<1>7. DbOK'
  BY <1>3 DEF Change, Inv, TypeOK, DbOK
<1>8. CallsOK' /\ HistoryOK'
  BY DEF Change, Displaced, Inv, TypeOK, CallsOK, HistoryOK
<1> QED
  BY <1>6, <1>7, <1>8 DEF Inv, TypeOK

LEMMA SaveStep ==
    ASSUME Inv, NEW c \in Clients, WriteFile(c) \/ Rename(c) \/ Upsert(c) \/ SaveFails(c)
    PROVE  Inv'
<1>1. SaveUnchanged /\ writer = c
  BY DEF WriteFile, Rename, Upsert, SaveFails, Stage
<1>2. stage' \in {"written", "landed", "failed"} /\ disk' \in {disk, mem}
      /\ (stage' = "landed" => disk' = mem)
  BY DEF WriteFile, Rename, Upsert, SaveFails, Stage
<1>3. DbOK'
  BY <1>1, <1>2 DEF SaveUnchanged, history, Inv, TypeOK, DbOK
<1>4. CallsOK' /\ HistoryOK'
  BY <1>1 DEF SaveUnchanged, history, Inv, TypeOK, CallsOK, HistoryOK
<1>5. Writing'
  BY <1>1, <1>2, StoreAssumption DEF SaveUnchanged, history, Inv, Writing
<1> QED
  BY <1>3, <1>4, <1>5 DEF Inv, TypeOK

LEMMA ReturnStep ==
    ASSUME Inv, NEW c \in Clients, Return(c)
    PROVE  Inv'
<1>1. todo[c] # <<>>
  BY StoreAssumption DEF Return, Inv, Writing
<1>2. CallsOK'
  BY <1>1, StoreAssumption DEF Return, Over, Clock, Inv, TypeOK, CallsOK
<1>3. DbOK' /\ HistoryOK'
  BY DEF Return, Inv, TypeOK, DbOK, HistoryOK
<1>4. Writing'
  BY DEF Return, Writing
<1> QED
  BY <1>2, <1>3, <1>4 DEF Inv, TypeOK

LEMMA CrashStep == Inv /\ Crash => Inv'
<1> SUFFICES ASSUME Inv, Crash PROVE Inv'
  OBVIOUS
<1>1. CallsOK'
  BY StoreAssumption DEF Crash, Clock, Inv, TypeOK, CallsOK
<1>2. DbOK' /\ HistoryOK' /\ Writing'
  BY DEF Crash, Inv, TypeOK, DbOK, HistoryOK, Writing
<1> QED
  BY <1>1, <1>2 DEF Inv, TypeOK

LEMMA NextInv == Inv /\ [Next]_vars => Inv'
<1> SUFFICES ASSUME Inv, [Next]_vars PROVE Inv'
  OBVIOUS
<1>1. ASSUME NEW c \in Clients, Begin(c) \/ Work(c) \/ Refuse(c) \/ SaveFails(c)
      PROVE  Inv'
  BY <1>1, BeginStep, ReadStep, StopStep, ChangeStep, SaveStep, ReturnStep DEF Work
<1>2. CASE UNCHANGED vars
  BY <1>2 DEF vars, db, history, Inv, TypeOK, DbOK, CallsOK, HistoryOK, Writing
<1> QED
  BY <1>1, <1>2, CrashStep DEF Next

LEMMA Invariance == Spec => []Inv
  BY InitInv, NextInv, PTL DEF Spec

\* Every variable has its type, whatever fails and wherever orchd is killed: the
\* maps and the saved snapshot are whole contents.
THEOREM TypeCorrect == Spec => []TypeOK
<1>1. Inv => TypeOK
  BY DEF Inv
<1> QED
  BY <1>1, Invariance, PTL

---------------------------------------------------------------------------
\* Refinement.

\* A step that readers, the next restart and callers cannot tell.
LEMMA Silent ==
    ASSUME UNCHANGED <<shown, disk, answer>>
    PROVE  [Promised!Next]_(Promised!vars)
  BY DEF Promised!vars

\* A mutation lands: one store call away from what readers see.
LEMMA Lands ==
    ASSUME Inv, NEW c \in Clients, Rename(c) \/ Upsert(c)
    PROVE  Promised!Keep
<1>1. writer = c /\ disk' = mem /\ UNCHANGED <<shown, answer>>
  BY DEF Rename, Upsert, Stage, SaveUnchanged, history
<1>2. mem \in Contents /\ <<shown, mem>> \in Changes
  BY <1>1, StoreAssumption DEF Inv, TypeOK, DbOK, Writing
<1> QED
  BY <1>1, <1>2 DEF Promised!Keep

\* It is answered: without an error only if it has landed.
LEMMA Answers ==
    ASSUME Inv, NEW c \in Clients, Return(c)
    PROVE  Promised!Ok \/ Promised!Error
<1>1. mem \in Contents /\ <<shown, mem>> \in Changes
  BY StoreAssumption DEF Return, Inv, TypeOK, DbOK, Writing
<1>2. CASE stage = "landed"
  BY <1>1, <1>2 DEF Return, Inv, Writing, Promised!Ok
<1>3. CASE stage = "failed"
  BY <1>1, <1>3 DEF Return, Promised!Error
<1> QED
  BY <1>2, <1>3 DEF Return

LEMMA StepRefines == Inv /\ [Next]_vars => [Promised!Next]_(Promised!vars)
<1> SUFFICES ASSUME Inv, [Next]_vars PROVE [Promised!Next]_(Promised!vars)
  OBVIOUS
<1>1. ASSUME NEW c \in Clients, Begin(c)
      PROVE  UNCHANGED <<shown, disk, answer>>
  BY <1>1 DEF Begin, Create, AddWorkload, Delete, Edit, NoteActivity, Call, db
<1>2. ASSUME NEW c \in Clients,
             \/ Read(c) \/ NotFound(c) \/ Refuse(c) \/ Change(c)
             \/ WriteFile(c) \/ SaveFails(c)
      PROVE  UNCHANGED <<shown, disk, answer>>
  BY <1>2 DEF Read, NotFound, Refuse, Change, WriteFile, SaveFails, SaveUnchanged, db, history
<1>3. ASSUME NEW c \in Clients, Rename(c) \/ Upsert(c) \/ Return(c)
      PROVE  Promised!Next
  BY <1>3, Lands, Answers DEF Promised!Next
<1>4. CASE Crash
  BY <1>4 DEF Crash, Promised!Next, Promised!Restart
<1>5. CASE UNCHANGED vars
  BY <1>5 DEF vars, db, history, Promised!vars
<1> QED
  BY <1>1, <1>2, <1>3, <1>4, <1>5, Silent DEF Next, Work

\* The store implements Records: what was answered without an error is kept, what
\* is kept was some reader's or some mutation's whole contents, and a restart
\* reads nothing else.
THEOREM Refinement == Spec => ImplementsRecords
<1>1. Init => Promised!Init
  BY DEF Init, Promised!Init
<1> QED
  BY <1>1, Invariance, StepRefines, PTL DEF Spec, ImplementsRecords, Promised!Spec

---------------------------------------------------------------------------
\* Orphans.

HasProject(w, s) == s.project[ProjectOf[w]] # None
HasWorkload(w, s) == w \in s.workload
HasRoute(w, s) == s.route[DefaultHost[w]] = w

\* What c's check of w found still holds, and what c is writing is in the maps.
Checked(c, w) ==
    /\ Step(c) = PutWorkload(w) => HasProject(w, mem) /\ (writer = c => HasWorkload(w, mem))
    /\ \A h \in Hosts : Step(c) \in {PutRoute(h, w), GetHostFree(h, w)} => HasWorkload(w, mem)

NoOrphans ==
    /\ \A c \in Clients : Chained(todo[c])
    /\ \A c \in Clients : writer = c => Step(c).do \notin Reads
    /\ \A w \in Workloads : fate[w] # "raced" =>
          /\ ~Orphan(w, mem) /\ ~Orphan(w, shown) /\ ~Orphan(w, disk)
          /\ \A c \in Clients : ~Idle(c) => Checked(c, w)

LEMMA TailChained ==
    ASSUME TypeOK, NEW c \in Clients, ~Idle(c), Chained(todo[c])
    PROVE  /\ Tail(todo[c]) \in Seq(Calls) /\ Chained(Tail(todo[c]))
           /\ Tail(todo[c]) # <<>> => Follows(Step(c), Head(Tail(todo[c])))
<1> DEFINE q == todo[c]
<1>1. q \in Seq(Calls) /\ q # <<>>
  BY DEF TypeOK, CallsOK, Idle
<1> HIDE DEF q
<1>2. /\ Tail(q) \in Seq(Calls) /\ Len(Tail(q)) = Len(q) - 1
      /\ \A i \in 1..(Len(q) - 1) : Tail(q)[i] = q[i + 1]
  BY <1>1
<1>3. Chained(q)
  BY DEF q
<1>4. Chained(Tail(q))
  BY <1>1, <1>2, <1>3 DEF Chained
<1>5. Tail(q) # <<>> => Follows(Head(q), Head(Tail(q)))
  BY <1>1, <1>2, <1>3 DEF Chained
<1> QED
  BY <1>2, <1>4, <1>5 DEF q, Step

\* A client moves to rest of its call, whose first step has been checked, or
\* leaves it; nobody else moves and the maps do not change.
LEMMA MovesOn ==
    ASSUME Inv, NoOrphans, NEW c \in Clients, NEW rest \in Seq(Calls), Chained(rest),
           todo' = [todo EXCEPT ![c] = rest],
           mem' = mem, shown' \in {shown, mem}, disk' = disk,
           writer' \in {writer, None}, writer' # c,
           \A w \in Workloads : fate'[w] = "raced" <=> fate[w] = "raced",
           rest # <<>> => \A w \in Workloads : fate[w] # "raced" =>
               /\ Head(rest) = PutWorkload(w) => HasProject(w, mem)
               /\ \A h \in Hosts : Head(rest) \in {PutRoute(h, w), GetHostFree(h, w)}
                                      => HasWorkload(w, mem)
    PROVE  NoOrphans'
<1>1. todo'[c] = rest /\ \A d \in Clients \ {c} : todo'[d] = todo[d]
  BY DEF Inv, TypeOK, CallsOK
<1>2. \A d \in Clients : Chained(todo'[d])
  BY <1>1 DEF NoOrphans
<1>3. \A d \in Clients : writer' = d => Step(d)'.do \notin Reads
  BY <1>1, StoreAssumption DEF NoOrphans, Step
<1>4. ASSUME NEW w \in Workloads, fate'[w] # "raced"
      PROVE  ~Orphan(w, mem)' /\ ~Orphan(w, shown)' /\ ~Orphan(w, disk)'
  BY <1>4 DEF NoOrphans, Orphan
<1>5. ASSUME NEW w \in Workloads, fate'[w] # "raced", NEW d \in Clients, ~Idle(d)'
      PROVE  Checked(d, w)'
  <2>1. CASE d = c
    BY <1>1, <1>5, <2>1 DEF Checked, Step, Idle, HasProject, HasWorkload
  <2>2. CASE d # c
    <3>1. todo'[d] = todo[d] /\ fate[w] # "raced" /\ ~Idle(d)
      BY <1>1, <1>5, <2>2 DEF Idle
    <3>2. Checked(d, w)
      BY <3>1 DEF NoOrphans
    <3>3. writer' = d => writer = d
      BY StoreAssumption
    <3> QED
      BY <3>1, <3>2, <3>3 DEF Checked, Step, HasProject, HasWorkload
  <2> QED
    BY <2>1, <2>2
<1> QED
  BY <1>2, <1>3, <1>4, <1>5 DEF NoOrphans

\* A mutation keeps what it does not delete.
LEMMA Kept ==
    ASSUME NEW k \in Mutations, NEW s \in Contents, NEW w \in Workloads, w \notin Targets(k)
    PROVE  /\ HasProject(w, s) => HasProject(w, Apply(k, s))
           /\ HasWorkload(w, s) => HasWorkload(w, Apply(k, s))
<1>1. k # EraseProject(ProjectOf[w]) /\ k # EraseWorkload(w) /\ ProjectOf[w] \in Projects
  BY StoreAssumption DEF Targets
<1>2. HasProject(w, s) => ProjectsAfter(k, s)[ProjectOf[w]] # None
  <2> SUFFICES ASSUME HasProject(w, s) PROVE ProjectsAfter(k, s)[ProjectOf[w]] # None
    OBVIOUS
  <2>1. \A t \in Clock : t # None
    BY StoreAssumption DEF Clock
  <2> QED
    BY <1>1, <2>1 DEF ProjectsAfter, HasProject, PutProject
<1>3. HasWorkload(w, s) => w \in WorkloadsAfter(k, s)
  BY DEF WorkloadsAfter, HasWorkload
<1> QED
  BY <1>2, <1>3 DEF Apply, HasProject, HasWorkload

\* Deletions take routes and workloads along; so only a put makes an orphan, and
\* not if what it needs is there.
LEMMA NoNewOrphan ==
    ASSUME NEW k \in Mutations, NEW s \in Contents, NEW w \in Workloads, ~Orphan(w, s),
           k = PutWorkload(w) => HasProject(w, s),
           \A h \in Hosts : k = PutRoute(h, w) => HasWorkload(w, s)
    PROVE  ~Orphan(w, Apply(k, s))
<1>1. ASSUME w \in WorkloadsAfter(k, s)
      PROVE  ProjectsAfter(k, s)[ProjectOf[w]] # None
  <2>1. w \notin Targets(k)
    <3>1. CASE k = PutWorkload(w)
      BY <3>1 DEF Targets, PutWorkload, EraseWorkload, EraseProject
    <3>2. CASE k # PutWorkload(w)
      BY <1>1, <3>2 DEF WorkloadsAfter, PutWorkload
    <3> QED
      BY <3>1, <3>2
  <2>2. HasProject(w, s)
    BY <1>1 DEF WorkloadsAfter, Orphan, HasProject, PutWorkload
  <2> QED
    BY <2>1, <2>2, Kept DEF HasProject, Apply
<1>2. ASSUME NEW h \in Hosts, RoutesAfter(k, s)[h] = w
      PROVE  w \in WorkloadsAfter(k, s)
  <2>1. CASE k = PutRoute(h, w)
    <3>1. w \notin Targets(k)
      BY <2>1 DEF Targets, PutRoute, EraseWorkload, EraseProject
    <3> QED
      BY <2>1, <3>1 DEF WorkloadsAfter, HasWorkload
  <2>2. CASE k # PutRoute(h, w)
    <3>1. s.route[h] = w /\ w \notin s.workload \cap Targets(k)
      <4>1. ~\E v \in Workloads : k = PutRoute(h, v)
        BY <1>2, <2>2 DEF RoutesAfter, PutRoute
      <4> QED
        BY <1>2, <4>1, StoreAssumption DEF RoutesAfter
    <3> QED
      BY <3>1 DEF WorkloadsAfter, Orphan
  <2> QED
    BY <2>1, <2>2
<1> QED
  BY <1>1, <1>2 DEF Orphan, Apply

LEMMA OrphansInit == Init => NoOrphans
<1> SUFFICES ASSUME Init PROVE NoOrphans
  OBVIOUS
<1>1. \A w \in Workloads : ~Orphan(w, Blank)
  BY StoreAssumption DEF Orphan, Blank
<1> QED
  BY <1>1, StoreAssumption DEF Init, NoOrphans, Chained, Idle

LEMMA OrphansBegin ==
    ASSUME Inv, NoOrphans, NEW c \in Clients, Begin(c)
    PROVE  NoOrphans'
<1>1. PICK name \in ops, calls \in Seq(Calls) : Call(c, name, calls) /\ Chained(calls) /\ Fresh(calls)
  BY BeginsFresh DEF Inv, TypeOK
<1>2. /\ todo' = [todo EXCEPT ![c] = calls] /\ writer # c
      /\ UNCHANGED <<mem, shown, disk, writer>>
  BY <1>1, StoreAssumption DEF Call, db, Idle, Inv, Writing
<1>3. \A w \in Workloads : fate'[w] = "raced" <=> fate[w] = "raced"
  BY DEF Begin, Create, AddWorkload, Delete, Edit, NoteActivity, Bear, Inv, TypeOK, HistoryOK
<1>4. \A w \in Workloads : /\ Head(calls) # PutWorkload(w)
                           /\ \A h \in Hosts : Head(calls) \notin {PutRoute(h, w), GetHostFree(h, w)}
  BY <1>1 DEF Fresh, PutWorkload, PutRoute, GetHostFree
<1> QED
  BY <1>1, <1>2, <1>3, <1>4, MovesOn

LEMMA OrphansRead ==
    ASSUME Inv, NoOrphans, NEW c \in Clients, Read(c)
    PROVE  NoOrphans'
<1> DEFINE rest == Tail(todo[c])
<1>1. ~Idle(c) /\ Chained(todo[c]) /\ writer = None /\ Step(c).do \in Reads /\ Finds(Step(c), mem)
  BY DEF Read, NoOrphans
<1>2. rest \in Seq(Calls) /\ Chained(rest) /\ (rest # <<>> => Follows(Step(c), Head(rest)))
  BY <1>1, TailChained DEF Inv
<1>3. /\ todo' = [todo EXCEPT ![c] = rest]
      /\ UNCHANGED <<mem, shown, disk, writer>> /\ writer # c
  BY StoreAssumption DEF Read, db
<1>4. \A w \in Workloads : fate'[w] = "raced" <=> fate[w] = "raced"
  BY DEF Read
<1>5. ASSUME rest # <<>>, NEW w \in Workloads, fate[w] # "raced"
      PROVE  /\ Head(rest) = PutWorkload(w) => HasProject(w, mem)
             /\ \A h \in Hosts : Head(rest) \in {PutRoute(h, w), GetHostFree(h, w)}
                                    => HasWorkload(w, mem)
  <2>1. ~Orphan(w, mem) /\ Checked(c, w)
    BY <1>1, <1>5 DEF NoOrphans
  <2>2. Step(c) = GetWorkload(w) => HasWorkload(w, mem)
    BY <1>1 DEF Finds, GetWorkload, HasWorkload
  <2>3. Step(c) = GetProject(ProjectOf[w]) => HasProject(w, mem)
    BY <1>1 DEF Finds, GetProject, HasProject
  <2>4. Head(rest) = PutWorkload(w) => HasProject(w, mem)
    BY <1>2, <1>5, <2>1, <2>2, <2>3 DEF Follows, Orphan, HasProject, HasWorkload
  <2>5. ASSUME NEW h \in Hosts, Head(rest) = GetHostFree(h, w)
        PROVE  HasWorkload(w, mem)
    BY <1>2, <1>5, <2>2, <2>5 DEF Follows
  <2>6. ASSUME NEW h \in Hosts, Head(rest) = PutRoute(h, w)
        PROVE  HasWorkload(w, mem)
    <3>1. Step(c) # PutWorkload(w)
      BY <1>1 DEF PutWorkload, Reads
    <3>2. Step(c) = GetHostFree(h, w)
      BY <1>2, <1>5, <2>6, <3>1 DEF Follows
    <3> QED
      BY <2>1, <3>2 DEF Checked
  <2> QED
    BY <2>4, <2>5, <2>6
<1> QED
  BY <1>2, <1>3, <1>4, <1>5, MovesOn

LEMMA OrphansStop ==
    ASSUME Inv, NoOrphans, NEW c \in Clients, NotFound(c) \/ Refuse(c)
    PROVE  NoOrphans'
<1>1. /\ todo' = [todo EXCEPT ![c] = <<>>] /\ writer # c
      /\ UNCHANGED <<mem, shown, disk, writer>>
  BY StoreAssumption DEF NotFound, Refuse, Over, db, history
<1>2. \A w \in Workloads : fate'[w] = "raced" <=> fate[w] = "raced"
  BY DEF NotFound, Refuse, history, Inv, TypeOK, HistoryOK
<1>3. <<>> \in Seq(Calls) /\ Chained(<<>>)
  BY DEF Chained
<1> QED
  BY <1>1, <1>2, <1>3, MovesOn

LEMMA OrphansChange ==
    ASSUME Inv, NoOrphans, NEW c \in Clients, Change(c)
    PROVE  NoOrphans'
<1> DEFINE k == Mutation(c)
<1>1. /\ k \in Mutations /\ mem \in Contents /\ mem' = Apply(k, mem)
      /\ writer = None /\ shown = mem /\ writer' = c /\ UNCHANGED <<disk, shown, todo>>
  BY MutationType, StoreAssumption DEF Change, Inv, TypeOK, DbOK, Writing
<1>2. Targets(k) = Targets(Step(c))
  BY DEF Mutation, Targets, PutProject, EraseWorkload, EraseProject
<1>3. ASSUME NEW w \in Workloads, fate'[w] # "raced"
      PROVE  fate[w] # "raced" /\ \A d \in Clients \ {c} : Past(d, w) => w \notin Targets(k)
  BY <1>2, <1>3 DEF Change
<1>4. ASSUME NEW w \in Workloads, fate'[w] # "raced"
      PROVE  ~Orphan(w, mem')
  <2>1. ~Orphan(w, mem) /\ Checked(c, w)
    BY <1>3, <1>4 DEF NoOrphans, Change
  <2>2. k = PutWorkload(w) => Step(c) = PutWorkload(w)
    BY DEF Mutation, PutWorkload, PutProject
  <2>3. \A h \in Hosts : k = PutRoute(h, w) => Step(c) = PutRoute(h, w)
    BY DEF Mutation, PutRoute, PutProject
  <2> QED
    BY <1>1, <2>1, <2>2, <2>3, NoNewOrphan DEF Checked
<1>5. ASSUME NEW w \in Workloads, fate'[w] # "raced", NEW d \in Clients, ~Idle(d)
      PROVE  Checked(d, w)'
  <2>1. Checked(d, w) /\ Step(d)' = Step(d)
    BY <1>1, <1>3, <1>5 DEF NoOrphans, Step
  <2>2. CASE d = c
    <3>1. ASSUME Step(c) = PutWorkload(w)
          PROVE  HasProject(w, mem') /\ HasWorkload(w, mem')
      <4>1. k = PutWorkload(w) /\ w \notin Targets(k)
        BY <3>1 DEF Mutation, Targets, PutWorkload, EraseWorkload, EraseProject
      <4> QED
        BY <1>1, <2>1, <2>2, <3>1, <4>1, Kept DEF Checked, Apply, WorkloadsAfter, HasWorkload
    <3>2. ASSUME NEW h \in Hosts, Step(c) = PutRoute(h, w)
          PROVE  HasWorkload(w, mem')
      <4>1. k = PutRoute(h, w) /\ w \notin Targets(k)
        BY <3>2 DEF Mutation, Targets, PutRoute, EraseWorkload, EraseProject
      <4> QED
        BY <1>1, <2>1, <2>2, <3>2, <4>1, Kept DEF Checked
    <3>3. \A h \in Hosts : Step(c) # GetHostFree(h, w)
      BY DEF Change, Reads, GetHostFree
    <3> QED
      BY <2>1, <2>2, <3>1, <3>2, <3>3 DEF Checked, HasProject, HasWorkload
  <2>3. CASE d # c
    <3>1. CASE Past(d, w)
      <4>1. w \notin Targets(k) /\ writer' # d
        BY <1>1, <1>3, <1>5, <2>3, <3>1
      <4>2. (HasProject(w, mem) => HasProject(w, mem')) /\ (HasWorkload(w, mem) => HasWorkload(w, mem'))
        BY <1>1, <4>1, Kept
      <4> QED
        BY <2>1, <4>1, <4>2 DEF Checked, HasProject, HasWorkload
    <3>2. CASE ~Past(d, w)
      BY <1>5, <2>1, <3>2 DEF Past, Checked, PutWorkload, PutRoute, GetHostFree
    <3> QED
      BY <3>1, <3>2
  <2> QED
    BY <2>2, <2>3
<1>6. \A d \in Clients : writer' = d => Step(d)'.do \notin Reads
  BY <1>1 DEF Change, Step
<1>7. \A d \in Clients : Chained(todo'[d])
  BY <1>1 DEF NoOrphans
<1>8. \A w \in Workloads : fate'[w] # "raced" => ~Orphan(w, shown') /\ ~Orphan(w, disk')
  BY <1>1, <1>3 DEF NoOrphans
<1>9. \A d \in Clients : Idle(d)' = Idle(d)
  BY <1>1 DEF Idle
<1> QED
  BY <1>4, <1>5, <1>6, <1>7, <1>8, <1>9 DEF NoOrphans, Orphan

LEMMA OrphansSave ==
    ASSUME Inv, NoOrphans, NEW c \in Clients, WriteFile(c) \/ Rename(c) \/ Upsert(c) \/ SaveFails(c)
    PROVE  NoOrphans'
<1>1. UNCHANGED <<mem, writer, todo, shown, fate>> /\ disk' \in {disk, mem}
  BY DEF WriteFile, Rename, Upsert, SaveFails, SaveUnchanged, history
<1> QED
  BY <1>1 DEF NoOrphans, Checked, Step, Idle, Orphan, HasProject, HasWorkload

LEMMA OrphansReturn ==
    ASSUME Inv, NoOrphans, NEW c \in Clients, Return(c)
    PROVE  NoOrphans'
<1> DEFINE rest == IF stage = "landed" THEN Tail(todo[c]) ELSE <<>>
<1>1. ~Idle(c) /\ Chained(todo[c]) /\ writer = c /\ Step(c).do \notin Reads
  BY StoreAssumption DEF Return, NoOrphans, Idle, Inv, Writing
<1>2. rest \in Seq(Calls) /\ Chained(rest) /\ (rest # <<>> => Follows(Step(c), Head(rest)))
  <2>1. Tail(todo[c]) \in Seq(Calls) /\ Chained(Tail(todo[c]))
        /\ (Tail(todo[c]) # <<>> => Follows(Step(c), Head(Tail(todo[c]))))
    BY <1>1, TailChained DEF Inv
  <2> QED
    BY <2>1 DEF Chained
<1>3. /\ todo' = [todo EXCEPT ![c] = rest] /\ shown' = mem
      /\ UNCHANGED <<mem, disk, fate>> /\ writer' = None /\ writer' # c
  BY StoreAssumption DEF Return, Over
<1>4. ASSUME rest # <<>>, NEW w \in Workloads, fate[w] # "raced"
      PROVE  /\ Head(rest) = PutWorkload(w) => HasProject(w, mem)
             /\ \A h \in Hosts : Head(rest) \in {PutRoute(h, w), GetHostFree(h, w)}
                                    => HasWorkload(w, mem)
  <2>1. Checked(c, w) /\ Follows(Step(c), Head(rest))
    BY <1>1, <1>2, <1>4 DEF NoOrphans
  <2>2. /\ Step(c) # GetProject(ProjectOf[w]) /\ Step(c) # GetWorkload(w)
        /\ \A h \in Hosts : Step(c) # GetHostFree(h, w)
    BY <1>1 DEF Reads, GetProject, GetWorkload, GetHostFree
  <2> HIDE DEF rest
  <2>4. Head(rest) # PutWorkload(w)
    BY <2>1, <2>2 DEF Follows
  <2>3. ASSUME NEW h \in Hosts, Head(rest) \in {PutRoute(h, w), GetHostFree(h, w)}
        PROVE  HasWorkload(w, mem)
    <3>1. Step(c) = PutWorkload(w)
      BY <2>1, <2>2, <2>3 DEF Follows
    <3> QED
      BY <1>1, <2>1, <3>1 DEF Checked
  <2> QED
    BY <2>4, <2>3
<1> QED
  BY <1>2, <1>3, <1>4, MovesOn

LEMMA OrphansCrash == Inv /\ NoOrphans /\ Crash => NoOrphans'
<1> SUFFICES ASSUME Inv, NoOrphans, Crash PROVE NoOrphans'
  OBVIOUS
<1>1. \A c \in Clients : Idle(c)' /\ Chained(todo'[c])
  BY DEF Crash, Idle, Chained
<1> QED
  BY <1>1, StoreAssumption DEF Crash, NoOrphans, Orphan

LEMMA OrphansNext == Inv /\ NoOrphans /\ [Next]_vars => NoOrphans'
<1> SUFFICES ASSUME Inv, NoOrphans, [Next]_vars PROVE NoOrphans'
  OBVIOUS
<1>1. ASSUME NEW c \in Clients, Begin(c) \/ Work(c) \/ Refuse(c) \/ SaveFails(c)
      PROVE  NoOrphans'
  BY <1>1, OrphansBegin, OrphansRead, OrphansStop, OrphansChange, OrphansSave, OrphansReturn DEF Work
<1>2. CASE UNCHANGED vars
  BY <1>2 DEF vars, db, history, NoOrphans, Checked, Step, Idle, Orphan, HasProject, HasWorkload
<1> QED
  BY <1>1, <1>2, OrphansCrash DEF Next

LEMMA OrphansInvariance == Spec => []NoOrphans
  BY OrphansInit, OrphansNext, Invariance, PTL, InitInv DEF Spec

\* Whatever fails and whenever orchd is killed, a route without its workload, or a
\* workload without its project, is left only by a deletion that overtook a call
\* between its check and its put.
THEOREM Orphans == Spec => []OrphansAreRaced
<1>1. NoOrphans => OrphansAreRaced
  BY DEF NoOrphans, OrphansAreRaced
<1> QED
  BY <1>1, OrphansInvariance, PTL

---------------------------------------------------------------------------
\* Registrations.

HasAll(w) == Complete(w, mem) /\ Complete(w, shown) /\ Complete(w, disk)

Begun(w, s) == HasProject(w, s) /\ HasWorkload(w, s)

BegunAll(w) == Begun(w, mem) /\ Begun(w, shown) /\ Begun(w, disk)

\* c's call registers w: it ends with looking it up.
Registering(c, w) == ~Idle(c) /\ LastOf(todo[c]) = GetWorkload(w)

\* What a registration has put so far is there.
Rising(c, w) ==
    /\ todo[c] = <<GetWorkload(w)>> => HasAll(w)
    /\ todo[c] = <<PutRoute(DefaultHost[w], w), GetWorkload(w)>>
          => BegunAll(w) /\ (writer = c => HasRoute(w, mem))

Standing ==
    \A w \in Workloads :
        /\ fate[w] = "unborn" => \A c \in Clients : ~Registering(c, w)
        /\ \A c, d \in Clients : Registering(c, w) /\ Registering(d, w) => c = d
        /\ fate[w] \in {"coming", "made"} => ~Threatened(w)
        /\ fate[w] = "made" => HasAll(w)
        /\ fate[w] = "coming" => \A c \in Clients : Rising(c, w)

LEMMA CompleteIs ==
    ASSUME NEW w \in Workloads, NEW s
    PROVE  Complete(w, s) <=> Begun(w, s) /\ (HasRoute(w, s) \/ w \in taken)
  BY DEF Complete, Begun, HasProject, HasWorkload, HasRoute

\* A mutation nobody asked to take w away with keeps what there is of it, but for a
\* route that it gives to another.
LEMMA Unthreatened ==
    ASSUME NEW k \in Mutations, NEW s \in Contents, NEW w \in Workloads, k \notin Threats(w)
    PROVE  /\ Begun(w, s) => Begun(w, Apply(k, s))
           /\ HasRoute(w, s) => HasRoute(w, Apply(k, s)) \/ w \in Displaced(k, s)
<1>1. w \notin Targets(k)
  BY DEF Targets, Threats
<1>2. Begun(w, s) => Begun(w, Apply(k, s))
  BY <1>1, Kept DEF Begun
<1>3. HasRoute(w, s) => HasRoute(w, Apply(k, s)) \/ w \in Displaced(k, s)
  <2> DEFINE h == DefaultHost[w]
  <2> SUFFICES ASSUME s.route[h] = w, w \notin Displaced(k, s) PROVE RoutesAfter(k, s)[h] = w
    BY DEF HasRoute, Apply
  <2>1. h \in Hosts
    BY StoreAssumption
  <2>2. ASSUME NEW v \in Workloads, k = PutRoute(h, v)
        PROVE  k.w = w
    <3>1. v = w
      BY <2>2 DEF Displaced
    <3> QED
      BY <2>2, <3>1 DEF PutRoute
  <2>3. k # EraseRoute(h)
    BY DEF Threats
  <2> HIDE DEF h
  <2>4. \A g \in Hosts : RoutesAfter(k, s)[g] =
            IF \E v \in Workloads : k = PutRoute(g, v) THEN k.w
            ELSE IF k = EraseRoute(g) \/ s.route[g] \in s.workload \cap Targets(k) THEN None
            ELSE s.route[g]
    BY DEF RoutesAfter
  <2> QED
    BY <1>1, <2>1, <2>2, <2>3, <2>4
<1> QED
  BY <1>2, <1>3

\* A client that goes on in its call, or leaves it, has nothing new before it.
LEMMA Shrinks ==
    ASSUME Inv, NoOrphans, NEW c \in Clients, ~Idle(c), NEW rest \in {Tail(todo[c]), <<>>},
           todo' = [todo EXCEPT ![c] = rest]
    PROVE  /\ \A d \in Clients : Pending(d)' \subseteq Pending(d)
           /\ \A d \in Clients, w \in Workloads : Registering(d, w)' => Registering(d, w)
           /\ \A w \in Workloads : rest = <<GetWorkload(w)>>
                 => todo[c] = <<PutRoute(DefaultHost[w], w), GetWorkload(w)>>
           /\ \A w \in Workloads : rest = <<PutRoute(DefaultHost[w], w), GetWorkload(w)>>
                 => Step(c) = PutWorkload(w)
<1>1. todo'[c] = rest /\ \A d \in Clients \ {c} : todo'[d] = todo[d]
  BY DEF Inv, TypeOK, CallsOK
<1>2. todo[c] \in Seq(Calls) /\ todo[c] # <<>> /\ Step(c) = Head(todo[c])
  BY DEF Inv, TypeOK, CallsOK, Idle, Step
<1>3. {rest[i] : i \in DOMAIN rest} \subseteq Pending(c) /\ Step(c) \in Pending(c)
  <2>1. Step(c) \in Pending(c)
    BY <1>2 DEF Pending
  <2>2. CASE rest = <<>>
    BY <2>1, <2>2
  <2>3. CASE rest = Tail(todo[c])
    <3>1. \A i \in DOMAIN rest : i + 1 \in DOMAIN todo[c] /\ rest[i] = todo[c][i + 1]
      BY <1>2, <2>3
    <3> QED
      BY <2>1, <3>1 DEF Pending
  <2> QED
    BY <2>2, <2>3
<1>4. rest # <<>> => Follows(Step(c), Head(rest))
  BY TailChained DEF Inv, NoOrphans
<1>5. ASSUME NEW w \in Workloads, rest = <<GetWorkload(w)>>
      PROVE  todo[c] = <<PutRoute(DefaultHost[w], w), GetWorkload(w)>>
  <2>1. rest = Tail(todo[c]) /\ Head(todo[c]) = PutRoute(DefaultHost[w], w)
    BY <1>2, <1>4, <1>5 DEF Follows
  <2>2. todo[c] = <<Head(todo[c]), GetWorkload(w)>>
    BY <1>2, <1>5, <2>1, LastSteps
  <2> QED
    BY <2>1, <2>2
<1>6. ASSUME NEW w \in Workloads, rest = <<PutRoute(DefaultHost[w], w), GetWorkload(w)>>
      PROVE  Step(c) = PutWorkload(w)
  <2>0. rest = Tail(todo[c]) /\ Head(rest) = PutRoute(DefaultHost[w], w)
    BY <1>6
  <2>1. Len(todo[c]) = 3 /\ todo[c][1] = Step(c)
    BY <1>2, <1>6, <2>0, LastSteps
  <2>2. Step(c).do # "GetHostFree"
    <3>1. 1 \in 1..(Len(todo[c]) - 2)
      BY <2>1
    <3>2. \A i \in 1..(Len(todo[c]) - 2) : todo[c][i].do # "GetHostFree"
      BY DEF NoOrphans, Chained
    <3> QED
      BY <2>1, <3>1, <3>2
  <2>3. Follows(Step(c), PutRoute(DefaultHost[w], w)) /\ DefaultHost[w] \in Hosts
    BY <1>4, <1>6, <2>0, StoreAssumption
  <2>4. \/ Step(c) = GetHostFree(DefaultHost[w], w)
        \/ Step(c) = PutWorkload(w)
    BY <2>3 DEF Follows
  <2> QED
    BY <2>2, <2>4 DEF GetHostFree
<1>7. \A d \in Clients : Pending(d)' \subseteq Pending(d)
  BY <1>1, <1>3 DEF Pending
<1>8. ASSUME NEW d \in Clients, NEW w \in Workloads, Registering(d, w)'
      PROVE  Registering(d, w)
  <2>1. CASE d = c
    <3>1. rest # <<>> /\ rest[Len(rest)] = GetWorkload(w) /\ rest = Tail(todo[c])
      BY <1>1, <1>8, <2>1 DEF Registering, LastOf, Idle
    <3>2. Len(rest) = Len(todo[c]) - 1 /\ Len(rest) >= 1 /\ rest[Len(rest)] = todo[c][Len(todo[c])]
      BY <1>2, <3>1
    <3> QED
      BY <2>1, <3>1, <3>2 DEF Registering, LastOf
  <2>2. CASE d # c
    BY <1>1, <1>8, <2>2 DEF Registering, Idle
  <2> QED
    BY <2>1, <2>2
<1> QED
  BY <1>5, <1>6, <1>7, <1>8

\* So it threatens nothing new, and registers nothing it did not.
LEMMA StaysCalm ==
    ASSUME \A d \in Clients : Pending(d)' \subseteq Pending(d), NEW w \in Workloads, ~Threatened(w)
    PROVE  ~Threatened(w)'
  BY DEF Threatened, Threats

LEMMA StandingInit == Init => Standing
<1> SUFFICES ASSUME Init PROVE Standing
  OBVIOUS
<1>1. \A c \in Clients, w \in Workloads : ~Registering(c, w)
  BY DEF Init, Registering, Idle
<1> QED
  BY <1>1 DEF Init, Standing

LEMMA StandingRead ==
    ASSUME Inv, NoOrphans, Standing, NEW c \in Clients, Read(c)
    PROVE  Standing'
<1>1. ~Idle(c) /\ Step(c).do \in Reads /\ todo' = [todo EXCEPT ![c] = Tail(todo[c])]
      /\ UNCHANGED <<mem, shown, disk, writer, taken>>
  BY DEF Read, db
<1>2. /\ \A d \in Clients : Pending(d)' \subseteq Pending(d)
      /\ \A d \in Clients, w \in Workloads : Registering(d, w)' => Registering(d, w)
      /\ \A w \in Workloads : Tail(todo[c]) = <<GetWorkload(w)>> => Step(c) = PutRoute(DefaultHost[w], w)
      /\ \A w \in Workloads : Tail(todo[c]) = <<PutRoute(DefaultHost[w], w), GetWorkload(w)>>
                                 => Step(c) = PutWorkload(w)
  <2>1. /\ \A d \in Clients : Pending(d)' \subseteq Pending(d)
        /\ \A d \in Clients, w \in Workloads : Registering(d, w)' => Registering(d, w)
        /\ \A w \in Workloads : Tail(todo[c]) = <<GetWorkload(w)>>
              => todo[c] = <<PutRoute(DefaultHost[w], w), GetWorkload(w)>>
        /\ \A w \in Workloads : Tail(todo[c]) = <<PutRoute(DefaultHost[w], w), GetWorkload(w)>>
              => Step(c) = PutWorkload(w)
    BY <1>1, Shrinks
  <2>2. \A a, b : todo[c] = <<a, b>> => Step(c) = a
    BY DEF Step
  <2> QED
    BY <2>1, <2>2
<1>3. /\ todo'[c] = Tail(todo[c])
      /\ \A d \in Clients \ {c} : todo'[d] = todo[d]
  BY <1>1 DEF Inv, TypeOK, CallsOK
<1>4. ASSUME NEW w \in Workloads
      PROVE  \/ fate'[w] = fate[w]
             \/ todo[c] = <<GetWorkload(w)>> /\ fate[w] = "coming" /\ fate'[w] = "made"
  BY DEF Read
<1>5. \A w \in Workloads : Step(c) # PutWorkload(w) /\ Step(c) # PutRoute(DefaultHost[w], w)
  BY <1>1 DEF Reads, PutWorkload, PutRoute
<1>6. ASSUME NEW w \in Workloads, fate'[w] = "coming", NEW d \in Clients
      PROVE  Rising(d, w)'
  <2>1. Rising(d, w)
    BY <1>4, <1>6 DEF Standing
  <2>2. CASE d = c
    BY <1>2, <1>3, <1>5, <2>2 DEF Rising, Idle, Step
  <2>3. CASE d # c
    BY <1>1, <1>3, <2>1, <2>3 DEF Rising, Idle, Step, HasAll, BegunAll, Begun, Complete, HasProject,
          HasWorkload, HasRoute
  <2> QED
    BY <2>2, <2>3
<1>7. ASSUME NEW w \in Workloads, fate'[w] = "made"
      PROVE  HasAll(w)'
  <2>1. HasAll(w)
    BY <1>4, <1>7 DEF Standing, Rising
  <2> QED
    BY <1>1, <2>1 DEF HasAll, Complete
<1>8. ASSUME NEW w \in Workloads, fate'[w] \in {"coming", "made"}
      PROVE  ~Threatened(w)'
  BY <1>2, <1>4, <1>8, StaysCalm DEF Standing
<1>9. ASSUME NEW w \in Workloads, fate'[w] = "unborn", NEW d \in Clients
      PROVE  ~Registering(d, w)'
  BY <1>2, <1>4, <1>9 DEF Standing
<1>10. \A w \in Workloads : \A b, d \in Clients : Registering(b, w)' /\ Registering(d, w)' => b = d
  BY <1>2 DEF Standing
<1> QED
  BY <1>6, <1>7, <1>8, <1>9, <1>10 DEF Standing

LEMMA StandingStop ==
    ASSUME Inv, NoOrphans, Standing, NEW c \in Clients, NotFound(c) \/ Refuse(c)
    PROVE  Standing'
<1>1. /\ todo' = [todo EXCEPT ![c] = <<>>]
      /\ UNCHANGED <<mem, shown, disk, writer, taken>>
  BY DEF NotFound, Refuse, Over, db, history
<1>2. ~Idle(c)
  BY DEF NotFound, Refuse, Idle, Register
<1>3. /\ \A d \in Clients : Pending(d)' \subseteq Pending(d)
      /\ \A d \in Clients, w \in Workloads : Registering(d, w)' => Registering(d, w)
  BY <1>1, <1>2, Shrinks
<1>4. todo'[c] = <<>> /\ \A d \in Clients \ {c} : todo'[d] = todo[d]
  BY <1>1 DEF Inv, TypeOK, CallsOK
<1>5. \A w \in Workloads : ~Registering(c, w)'
  BY <1>4 DEF Registering, Idle
<1>6. ASSUME NEW w \in Workloads
      PROVE  fate'[w] = fate[w] \/ (fate'[w] = "unborn" /\ Registering(c, w))
  <2>1. CASE NotFound(c)
    BY <2>1 DEF NotFound, history
  <2>2. CASE Refuse(c)
    <3>1. PICK v \in Workloads :
              /\ todo[c] = Tail(Register(ProjectOf[v], v))
              /\ fate' = [fate EXCEPT ![v] = IF @ = "raced" THEN "raced" ELSE "unborn"]
      BY <2>2 DEF Refuse
    <3>2. todo[c] = <<PutWorkload(v), PutRoute(DefaultHost[v], v), GetWorkload(v)>>
      BY <3>1 DEF Register
    <3>3. Registering(c, v)
      BY <1>2, <3>2, Three DEF Registering
    <3> QED
      BY <3>1, <3>3 DEF Inv, TypeOK, HistoryOK
  <2> QED
    BY <2>1, <2>2
<1>7. ASSUME NEW w \in Workloads, fate'[w] = "coming", NEW d \in Clients
      PROVE  Rising(d, w)'
  <2>1. Rising(d, w)
    BY <1>6, <1>7 DEF Standing
  <2>2. CASE d = c
    BY <1>4, <2>2 DEF Rising, Idle
  <2>3. CASE d # c
    BY <1>1, <1>4, <2>1, <2>3 DEF Rising, Idle, Step, HasAll, BegunAll, Begun, Complete, HasProject,
          HasWorkload, HasRoute
  <2> QED
    BY <2>2, <2>3
<1>8. ASSUME NEW w \in Workloads, fate'[w] = "made"
      PROVE  HasAll(w)'
  BY <1>1, <1>6, <1>8 DEF Standing, HasAll, Complete
<1>9. ASSUME NEW w \in Workloads, fate'[w] \in {"coming", "made"}
      PROVE  ~Threatened(w)'
  BY <1>3, <1>6, <1>9, StaysCalm DEF Standing
<1>10. ASSUME NEW w \in Workloads, fate'[w] = "unborn", NEW d \in Clients
       PROVE  ~Registering(d, w)'
  BY <1>3, <1>5, <1>6, <1>10 DEF Standing
<1>11. \A w \in Workloads : \A b, d \in Clients : Registering(b, w)' /\ Registering(d, w)' => b = d
  BY <1>3 DEF Standing
<1> QED
  BY <1>7, <1>8, <1>9, <1>10, <1>11 DEF Standing

LEMMA StandingChange ==
    ASSUME Inv, NoOrphans, Standing, NEW c \in Clients, Change(c)
    PROVE  Standing'
<1> DEFINE k == Mutation(c)
<1>1. /\ k \in Mutations /\ mem \in Contents /\ mem' = Apply(k, mem)
      /\ writer = None /\ writer' = c /\ UNCHANGED <<disk, shown, todo>> /\ ~Idle(c)
      /\ taken' = taken \cup Displaced(Step(c), mem)
  BY MutationType DEF Change, Inv, TypeOK, DbOK
<1>2. /\ \A d \in Clients : Idle(d)' = Idle(d) /\ Step(d)' = Step(d) /\ Pending(d)' = Pending(d)
      /\ \A d \in Clients, w \in Workloads : Registering(d, w)' = Registering(d, w)
      /\ \A w \in Workloads : Threatened(w)' = Threatened(w)
  BY <1>1 DEF Idle, Step, Pending, Registering, Threatened
<1>3. \A w \in Workloads : fate'[w] = fate[w] \/ fate'[w] = "raced"
  BY DEF Change
<1>4. ASSUME NEW w \in Workloads, fate'[w] \in {"coming", "made"}
      PROVE  /\ fate'[w] = fate[w]
             /\ Begun(w, mem) => Begun(w, mem')
             /\ Complete(w, mem) => Complete(w, mem)'
             /\ HasAll(w) => HasAll(w)'
  <2>1. fate'[w] = fate[w] /\ ~Threatened(w)
    BY <1>3, <1>4 DEF Standing
  <2>2. Step(c) \in Pending(c)
    BY <1>1 DEF Pending, Step, Idle, Inv, TypeOK, CallsOK
  <2>3. Step(c) \notin Threats(w)
    BY <2>1, <2>2 DEF Threatened
  <2>4. k \notin Threats(w)
    BY <2>3 DEF Mutation, Threats, PutProject, EraseProject, EraseWorkload, EraseRoute
  <2>5. Displaced(k, mem) = Displaced(Step(c), mem)
    <3>1. \A h, v : k # Step(c) => k # PutRoute(h, v) /\ Step(c) # PutRoute(h, v)
      BY DEF Mutation, PutProject, PutRoute
    <3> QED
      BY <3>1, Zenon DEF Displaced
  <2> HIDE DEF k
  <2>6. /\ Begun(w, mem) => Begun(w, mem')
        /\ HasRoute(w, mem) => HasRoute(w, mem') \/ w \in Displaced(k, mem)
    BY <1>1, <2>4, Unthreatened
  <2>7. Complete(w, mem) => Complete(w, mem)'
    BY <1>1, <2>5, <2>6, CompleteIs DEF Complete, Begun, HasProject, HasWorkload, HasRoute
  <2>8. HasAll(w) => HasAll(w)'
    BY <1>1, <2>7 DEF HasAll, Complete
  <2> QED
    BY <2>1, <2>6, <2>7, <2>8
<1>5. ASSUME NEW w \in Workloads, fate'[w] = "coming", NEW d \in Clients
      PROVE  Rising(d, w)'
  <2>1. Rising(d, w) /\ fate[w] = "coming"
    BY <1>4, <1>5 DEF Standing
  <2>2. todo'[d] = <<GetWorkload(w)>> => HasAll(w)'
    BY <1>1, <1>4, <1>5, <2>1 DEF Rising
  <2>3. ASSUME todo[d] = <<PutRoute(DefaultHost[w], w), GetWorkload(w)>>
        PROVE  BegunAll(w)' /\ (writer' = d => HasRoute(w, mem'))
    <3>1. BegunAll(w)'
      BY <1>1, <1>4, <1>5, <2>1, <2>3 DEF Rising, BegunAll, Begun, HasProject, HasWorkload
    <3>2. ASSUME d = c
          PROVE  HasRoute(w, mem')
      <4>1. k = PutRoute(DefaultHost[w], w) /\ DefaultHost[w] \in Hosts
        BY <2>3, <3>2, StoreAssumption DEF Mutation, PutRoute, Step
      <4>2. k.w = w
        BY <4>1 DEF PutRoute
      <4> HIDE DEF k
      <4> QED
        BY <1>1, <4>1, <4>2 DEF Apply, RoutesAfter, HasRoute
    <3> QED
      BY <1>1, <3>1, <3>2
  <2> QED
    BY <1>1, <2>2, <2>3 DEF Rising, HasRoute
<1>6. ASSUME NEW w \in Workloads, fate'[w] = "made"
      PROVE  HasAll(w)'
  BY <1>4, <1>6 DEF Standing
<1>7. \A w \in Workloads : fate'[w] \in {"coming", "made"} => ~Threatened(w)'
  BY <1>2, <1>3 DEF Standing
<1>8. \A w \in Workloads : fate'[w] = "unborn" => \A d \in Clients : ~Registering(d, w)'
  BY <1>2, <1>3 DEF Standing
<1>9. \A w \in Workloads : \A b, d \in Clients : Registering(b, w)' /\ Registering(d, w)' => b = d
  BY <1>2 DEF Standing
<1> QED
  BY <1>5, <1>6, <1>7, <1>8, <1>9 DEF Standing

LEMMA StandingSave ==
    ASSUME Inv, NoOrphans, Standing, NEW c \in Clients,
           WriteFile(c) \/ Rename(c) \/ Upsert(c) \/ SaveFails(c)
    PROVE  Standing'
<1>1. UNCHANGED <<mem, writer, todo, shown, fate, taken>> /\ disk' \in {disk, mem}
  BY DEF WriteFile, Rename, Upsert, SaveFails, SaveUnchanged, history
<1>2. /\ \A d \in Clients : Idle(d)' = Idle(d) /\ Step(d)' = Step(d)
      /\ \A d \in Clients, w \in Workloads : Registering(d, w)' = Registering(d, w)
      /\ \A w \in Workloads : Threatened(w)' = Threatened(w)
  BY <1>1 DEF Idle, Step, Pending, Registering, Threatened
<1>3. \A w \in Workloads : (HasAll(w) => HasAll(w)') /\ (BegunAll(w) => BegunAll(w)')
  BY <1>1 DEF HasAll, Complete, BegunAll, Begun, HasProject, HasWorkload
<1> QED
  BY <1>1, <1>2, <1>3 DEF Standing, Rising, HasRoute

LEMMA StandingReturn ==
    ASSUME Inv, NoOrphans, Standing, NEW c \in Clients, Return(c)
    PROVE  Standing'
<1> DEFINE rest == IF stage = "landed" THEN Tail(todo[c]) ELSE <<>>
<1>1. /\ ~Idle(c) /\ writer = c /\ writer' = None /\ todo' = [todo EXCEPT ![c] = rest]
      /\ shown' = mem /\ UNCHANGED <<mem, disk, fate, taken>>
  BY StoreAssumption DEF Return, Over, Idle, Inv, Writing
<1>2. rest # <<>> => rest = Tail(todo[c]) /\ disk = mem
  BY DEF Inv, Writing
<1>3. rest \in {Tail(todo[c]), <<>>}
  OBVIOUS
<1> HIDE DEF rest
<1>4. /\ \A d \in Clients : Pending(d)' \subseteq Pending(d)
      /\ \A d \in Clients, w \in Workloads : Registering(d, w)' => Registering(d, w)
      /\ \A w \in Workloads : rest = <<GetWorkload(w)>>
            => todo[c] = <<PutRoute(DefaultHost[w], w), GetWorkload(w)>>
      /\ \A w \in Workloads : rest = <<PutRoute(DefaultHost[w], w), GetWorkload(w)>>
            => Step(c) = PutWorkload(w)
  BY <1>1, <1>3, Shrinks
<1>5. todo'[c] = rest /\ \A d \in Clients \ {c} : todo'[d] = todo[d]
  BY <1>1 DEF Inv, TypeOK, CallsOK
<1>6. ASSUME NEW w \in Workloads, fate[w] = "coming", NEW d \in Clients
      PROVE  Rising(d, w)'
  <2>1. Rising(d, w) /\ Rising(c, w) /\ Checked(c, w)
    BY <1>1, <1>6 DEF Standing, NoOrphans
  <2>2. CASE d = c
    <3>1. ASSUME rest = <<GetWorkload(w)>>
          PROVE  HasAll(w)'
      <4>1. Begun(w, mem) /\ HasRoute(w, mem) /\ disk = mem
        BY <1>1, <1>2, <1>4, <2>1, <3>1 DEF Rising, BegunAll
      <4>2. Complete(w, mem)
        BY <4>1, CompleteIs
      <4> QED
        BY <1>1, <4>1, <4>2 DEF HasAll, Complete
    <3>2. ASSUME rest = <<PutRoute(DefaultHost[w], w), GetWorkload(w)>>
          PROVE  BegunAll(w)'
      <4>1. Begun(w, mem) /\ disk = mem
        BY <1>1, <1>2, <1>4, <2>1, <3>2 DEF Checked, Begun
      <4> QED
        BY <1>1, <4>1 DEF BegunAll, Begun, HasProject, HasWorkload
    <3> QED
      BY <1>1, <1>5, <2>2, <3>1, <3>2, StoreAssumption DEF Rising
  <2>3. CASE d # c
    <3>1. Idle(d)' = Idle(d) /\ Step(d)' = Step(d) /\ todo'[d] = todo[d] /\ writer' # d
      BY <1>1, <1>5, <2>3, StoreAssumption DEF Idle, Step
    <3>2. (HasAll(w) => HasAll(w)') /\ (BegunAll(w) => BegunAll(w)')
      BY <1>1 DEF HasAll, Complete, BegunAll, Begun, HasProject, HasWorkload
    <3> QED
      BY <2>1, <3>1, <3>2 DEF Rising
  <2> QED
    BY <2>2, <2>3
<1>7. ASSUME NEW w \in Workloads, fate[w] = "made"
      PROVE  HasAll(w)'
  BY <1>1, <1>7 DEF Standing, HasAll, Complete
<1>8. ASSUME NEW w \in Workloads, fate[w] \in {"coming", "made"}
      PROVE  ~Threatened(w)'
  BY <1>4, <1>8, StaysCalm DEF Standing
<1> QED
  BY <1>1, <1>4, <1>6, <1>7, <1>8 DEF Standing

LEMMA StandingCrash == Inv /\ Standing /\ Crash => Standing'
<1> SUFFICES ASSUME Inv, Standing, Crash PROVE Standing'
  OBVIOUS
<1>1. \A c \in Clients : todo'[c] = <<>> /\ Idle(c)' /\ Pending(c)' = {}
  BY DEF Crash, Idle, Pending
<1>2. \A c \in Clients, w \in Workloads : ~Registering(c, w)' /\ ~Threatened(w)' /\ Rising(c, w)'
  BY <1>1 DEF Registering, Threatened, Rising, Idle
<1>3. \A w \in Workloads : ~Threatened(w)'
  BY <1>1 DEF Threatened
<1>4. \A w \in Workloads : HasAll(w) => HasAll(w)'
  BY DEF Crash, HasAll, Complete
<1>5. fate' = fate
  BY DEF Crash
<1> QED
  BY <1>2, <1>3, <1>4, <1>5 DEF Standing

\* A call, as it is begun: it registers a workload that was just given its id,
\* and one that threatens a workload dooms it.
LEMMA BeginsWith ==
    ASSUME CallsOK, HistoryOK, NEW c \in Clients, Begin(c), NEW w \in Workloads
    PROVE  /\ \A d \in Clients \ {c} : todo'[d] = todo[d]
           /\ Registering(c, w)' => fate[w] = "unborn" /\ fate'[w] # "unborn"
           /\ \/ fate'[w] = fate[w] /\ Pending(c)' \cap Threats(w) = {}
              \/ fate'[w] = fate[w] /\ fate[w] \notin {"coming", "made"}
              \/ fate[w] = "unborn" /\ fate'[w] = "coming" /\ ~Threatened(w)'
              \/ fate'[w] = "doomed" /\ fate[w] # "doomed"
              \/ fate'[w] = fate[w] /\ ~Threatened(w)'
<1>1. ASSUME NEW name, NEW calls, Call(c, name, calls)
      PROVE  /\ \A d \in Clients \ {c} : todo'[d] = todo[d]
             /\ Pending(c)' = AllOf(calls)
             /\ Registering(c, w)' => LastOf(calls) = GetWorkload(w)
             /\ Pending(c)' \cap Threats(w) = {} /\ ~Threatened(w) => ~Threatened(w)'
  <2>1. todo'[c] = calls /\ \A d \in Clients \ {c} : todo'[d] = todo[d]
    BY <1>1 DEF Call, CallsOK
  <2>2. \A d \in Clients \ {c} : Pending(d)' = Pending(d)
    BY <2>1 DEF Pending
  <2> QED
    BY <2>1, <2>2 DEF Pending, AllOf, Registering, Threatened, Threats
<1>2. CASE \E p \in Projects, v \in Workloads : Create(c, p, v) \/ AddWorkload(c, p, v)
  <2>1. PICK p \in Projects, v \in Workloads : Create(c, p, v) \/ AddWorkload(c, p, v)
    BY <1>2
  <2>2. PICK name, calls : Call(c, name, calls) /\ calls \in {Register(p, v), CreateProject(p, v)}
    BY <2>1 DEF Create, AddWorkload
  <2> DEFINE S == {PutProject(p, 0), GetProject(p), PutWorkload(v), PutRoute(DefaultHost[v], v), GetWorkload(v)}
  <2>3. Pending(c)' \subseteq S
    <3>1. AllOf(Register(p, v)) \subseteq S /\ AllOf(CreateProject(p, v)) \subseteq S
      BY RegisterEnds
    <3> QED
      BY <1>1, <2>2, <3>1
  <2>4. S \cap Threats(w) = {}
    BY DEF Threats, PutProject, GetProject, PutWorkload, PutRoute, GetWorkload,
           EraseProject, EraseWorkload, EraseRoute
  <2>5. LastOf(calls) = GetWorkload(v)
    BY <2>2, RegisterEnds
  <2>12. Registering(c, w)' => w = v
    <3>1. GetWorkload(w) = GetWorkload(v) => w = v
      BY DEF GetWorkload
    <3> QED
      BY <1>1, <2>2, <2>5, <3>1
  <2> HIDE DEF S
  <2>6. fate[v] = "unborn" /\ fate' = [fate EXCEPT ![v] = IF Threatened(v) THEN "doomed" ELSE "coming"]
    BY <2>1 DEF Create, AddWorkload, Bear
  <2>7. Pending(c)' \cap Threats(w) = {}
    BY <2>3, <2>4
  <2>8. ~Threatened(w) => ~Threatened(w)'
    BY <1>1, <2>2, <2>7
  <2>9. \A d \in Clients \ {c} : todo'[d] = todo[d]
    BY <1>1, <2>2
  <2>10. CASE w = v
    BY <2>6, <2>8, <2>9, <2>10 DEF HistoryOK
  <2>11. CASE w # v
    BY <2>12, <2>6, <2>7, <2>9, <2>11 DEF HistoryOK
  <2> QED
    BY <2>10, <2>11
<1>3. CASE Delete(c)
  <2>1. PICK name, calls :
            /\ Call(c, name, calls)
            /\ \/ \E p \in Projects : calls = DeleteProject(p)
               \/ \E v \in Workloads : calls = DeleteWorkload(v)
               \/ \E h \in Hosts : calls = RemoveRoute(h)
    BY <1>3 DEF Delete
  <2>2. ~Registering(c, w)'
    <3>1. \/ \E p \in Projects : LastOf(calls) = EraseProject(p)
          \/ \E v \in Workloads : LastOf(calls) = EraseWorkload(v)
          \/ \E h \in Hosts : LastOf(calls) = EraseRoute(h)
      <4>1. /\ \A p : LastOf(DeleteProject(p)) = EraseProject(p)
            /\ \A v : LastOf(DeleteWorkload(v)) = EraseWorkload(v)
            /\ \A h : LastOf(RemoveRoute(h)) = EraseRoute(h)
        BY Two DEF DeleteProject, DeleteWorkload, RemoveRoute
      <4> QED
        BY <2>1, <4>1
    <3>2. LastOf(calls) # GetWorkload(w)
      BY <3>1 DEF EraseProject, GetWorkload, EraseWorkload, EraseRoute
    <3> QED
      BY <1>1, <2>1, <3>2
  <2>3. fate'[w] = IF fate[w] \in {"coming", "made"} /\ Threatened(w)' THEN "doomed" ELSE fate[w]
    BY <1>3 DEF Delete
  <2> QED
    BY <1>1, <2>1, <2>2, <2>3
<1>4. CASE Edit(c)
  <2>1. PICK name, calls :
            /\ Call(c, name, calls)
            /\ \/ \E p \in Projects : calls = EditProject(p)
               \/ \E v \in Workloads : calls \in {EditWorkload(v), <<SetWorkloadState(v)>>}
               \/ \E h \in Hosts, v \in Workloads : calls = AddRoute(h, v)
    BY <1>4 DEF Edit
  <2>2. ~Registering(c, w)' /\ Pending(c)' \cap Threats(w) = {}
    <3>0. /\ Pending(c)' = AllOf(calls)
          /\ Registering(c, w)' => LastOf(calls) = GetWorkload(w)
      BY <1>1, <2>1
    <3>1. CASE \E p \in Projects : calls = EditProject(p)
      <4>1. PICK p \in Projects : calls = <<GetProject(p), WriteBack(p)>>
        BY <3>1 DEF EditProject
      <4>2. LastOf(calls) = WriteBack(p) /\ AllOf(calls) = {GetProject(p), WriteBack(p)}
        BY <4>1, Two, Zenon
      <4>3. LastOf(calls) # GetWorkload(w) /\ AllOf(calls) \cap Threats(w) = {}
        BY <4>2 DEF GetProject, WriteBack, GetWorkload, Threats, EraseProject,
              EraseWorkload, EraseRoute
      <4> QED
        BY <3>0, <4>3
    <3>2. CASE \E v \in Workloads : calls \in {EditWorkload(v), <<SetWorkloadState(v)>>}
      <4>1. PICK v \in Workloads : \/ calls = <<GetWorkload(v), PutWorkload(v)>>
                                   \/ calls = <<SetWorkloadState(v)>>
        BY <3>2 DEF EditWorkload
      <4>2. \/ LastOf(calls) = PutWorkload(v) /\ AllOf(calls) = {GetWorkload(v), PutWorkload(v)}
            \/ LastOf(calls) = SetWorkloadState(v) /\ AllOf(calls) = {SetWorkloadState(v)}
        <5>1. CASE calls = <<GetWorkload(v), PutWorkload(v)>>
          BY <5>1, Two, Zenon
        <5>2. CASE calls = <<SetWorkloadState(v)>>
          BY <5>2, One, Zenon
        <5> QED
          BY <4>1, <5>1, <5>2
      <4>3. LastOf(calls) # GetWorkload(w) /\ AllOf(calls) \cap Threats(w) = {}
        BY <4>2 DEF GetWorkload, PutWorkload, SetWorkloadState,
              Threats, EraseProject, EraseWorkload, EraseRoute
      <4> QED
        BY <3>0, <4>3
    <3>3. CASE \E h \in Hosts, v \in Workloads : calls = AddRoute(h, v)
      <4>1. PICK h \in Hosts, v \in Workloads :
                calls = <<GetWorkload(v), GetHostFree(h, v), PutRoute(h, v)>>
        BY <3>3 DEF AddRoute
      <4>2. LastOf(calls) = PutRoute(h, v) /\ AllOf(calls) = {GetWorkload(v), GetHostFree(h, v), PutRoute(h, v)}
        BY <4>1, Three, Zenon
      <4>3. LastOf(calls) # GetWorkload(w) /\ AllOf(calls) \cap Threats(w) = {}
        BY <4>2 DEF GetWorkload, GetHostFree, PutRoute, Threats, EraseProject,
              EraseWorkload, EraseRoute
      <4> QED
        BY <3>0, <4>3
    <3> QED
      BY <2>1, <3>1, <3>2, <3>3
  <2> QED
    BY <1>1, <1>4, <2>1, <2>2 DEF Edit
<1>5. CASE \E p \in Projects : NoteActivity(c, p)
  <2>1. PICK p \in Projects : Call(c, "note", SetProjectLastActive(p, now + 1)) /\ fate' = fate
    BY <1>5 DEF NoteActivity
  <2> DEFINE calls == SetProjectLastActive(p, now + 1)
  <2>2. /\ AllOf(calls) = {GetOlder(p, now + 1), PutProject(p, now + 1)}
        /\ LastOf(calls) = PutProject(p, now + 1)
    BY Two, Zenon DEF SetProjectLastActive
  <2>4. /\ Pending(c)' = AllOf(calls)
        /\ Registering(c, w)' => LastOf(calls) = GetWorkload(w)
    BY <1>1, <2>1
  <2> HIDE DEF calls
  <2>3. ~Registering(c, w)' /\ Pending(c)' \cap Threats(w) = {}
    BY <2>2, <2>4 DEF GetOlder, PutProject, GetWorkload, Threats,
          EraseProject, EraseWorkload, EraseRoute
  <2> QED
    BY <1>1, <2>1, <2>3
<1> QED
  BY <1>2, <1>3, <1>4, <1>5 DEF Begin

LEMMA StandingBegin ==
    ASSUME Inv, Standing, NEW c \in Clients, Begin(c)
    PROVE  Standing'
<1>1. PICK name \in ops, calls \in Seq(Calls) : Call(c, name, calls) /\ Fresh(calls)
  BY BeginsFresh DEF Inv, TypeOK
<1>2. /\ todo'[c] = calls /\ writer # c
      /\ UNCHANGED <<mem, shown, disk, writer, taken>>
  BY <1>1, StoreAssumption DEF Call, db, Idle, Inv, TypeOK, CallsOK, Writing
<1>3. \A d \in Clients \ {c} : todo'[d] = todo[d]
  BY <1>1 DEF Call, Inv, TypeOK, CallsOK
<1>4. /\ \A w \in Workloads : todo'[c] # <<GetWorkload(w)>>
      /\ \A w \in Workloads : todo'[c] # <<PutRoute(DefaultHost[w], w), GetWorkload(w)>>
  BY <1>1, <1>2 DEF Fresh, PutRoute
<1>5. ASSUME NEW w \in Workloads, NEW d \in Clients, d # c
      PROVE  /\ Registering(d, w)' = Registering(d, w)
             /\ Rising(d, w)' = Rising(d, w)
             /\ Pending(d)' = Pending(d)
  BY <1>2, <1>3, <1>5 DEF Registering, Rising, Pending, Idle, Step, HasAll, BegunAll, Complete, Begun,
        HasProject, HasWorkload, HasRoute
<1>6. \A w \in Workloads : Rising(c, w)'
  BY <1>4 DEF Rising
<1>7. ASSUME NEW w \in Workloads
      PROVE  /\ Registering(c, w)' => fate[w] = "unborn" /\ fate'[w] # "unborn"
             /\ \/ fate'[w] = fate[w]
                \/ fate[w] = "unborn" /\ fate'[w] = "coming"
                \/ fate'[w] = "doomed"
             /\ fate'[w] \in {"coming", "made"} => ~Threatened(w)'
  <2>1. Registering(c, w)' => fate[w] = "unborn" /\ fate'[w] # "unborn"
    BY BeginsWith DEF Inv, TypeOK
  <2>2. fate[w] \in {"coming", "made"} => ~Threatened(w)
    BY DEF Standing
  <2>3. ~Threatened(w) /\ Pending(c)' \cap Threats(w) = {} => ~Threatened(w)'
    BY <1>5 DEF Threatened, Threats
  <2> QED
    BY <2>1, <2>2, <2>3, BeginsWith DEF Inv, TypeOK
<1>8. ASSUME NEW w \in Workloads, fate[w] = "unborn"
      PROVE  \A d \in Clients : ~Registering(d, w) /\ Rising(d, w)
  <2>1. TAKE d \in Clients
  <2>2. ~Registering(d, w)
    BY <1>8 DEF Standing
  <2>3. \A a : todo[d] \notin {<<GetWorkload(w)>>, <<a, GetWorkload(w)>>}
    <3>1. SUFFICES ASSUME NEW a, todo[d] = <<GetWorkload(w)>> \/ todo[d] = <<a, GetWorkload(w)>>
                   PROVE  FALSE
      OBVIOUS
    <3>2. LastOf(<<GetWorkload(w)>>) = GetWorkload(w) /\ LastOf(<<a, GetWorkload(w)>>) = GetWorkload(w)
      BY One, Two
    <3>3. todo[d] # <<>>
      <4>1. <<GetWorkload(w)>> # <<>> /\ <<a, GetWorkload(w)>> # <<>>
        OBVIOUS
      <4> QED
        BY <3>1, <4>1, Zenon
    <3>4. LastOf(todo[d]) = GetWorkload(w)
      BY <3>1, <3>2
    <3> QED
      BY <2>2, <3>3, <3>4 DEF Registering, Idle
  <2> QED
    BY <2>2, <2>3 DEF Rising
<1>9. \A w \in Workloads : fate'[w] = "coming" => \A d \in Clients : Rising(d, w)'
  BY <1>5, <1>6, <1>7, <1>8 DEF Standing
<1>10. \A w \in Workloads : fate'[w] = "made" => HasAll(w)'
  BY <1>2, <1>7 DEF Standing, HasAll, Complete
<1>11. \A w \in Workloads : fate'[w] = "unborn" => \A d \in Clients : ~Registering(d, w)'
  BY <1>5, <1>7 DEF Standing
<1>12. ASSUME NEW w \in Workloads, NEW b \in Clients, NEW d \in Clients,
              Registering(b, w)', Registering(d, w)'
       PROVE  b = d
  <2>1. CASE fate[w] = "unborn"
    BY <1>5, <1>8, <1>12, <2>1
  <2>2. CASE fate[w] # "unborn"
    BY <1>5, <1>7, <1>12, <2>2 DEF Standing
  <2> QED
    BY <2>1, <2>2
<1> QED
  BY <1>7, <1>9, <1>10, <1>11, <1>12 DEF Standing

LEMMA StandingNext == Inv /\ NoOrphans /\ Standing /\ [Next]_vars => Standing'
<1> SUFFICES ASSUME Inv, NoOrphans, Standing, [Next]_vars PROVE Standing'
  OBVIOUS
<1>1. ASSUME NEW c \in Clients, Begin(c) \/ Work(c) \/ Refuse(c) \/ SaveFails(c)
      PROVE  Standing'
  BY <1>1, StandingBegin, StandingRead, StandingStop, StandingChange, StandingSave, StandingReturn DEF Work
<1>2. CASE UNCHANGED vars
  <2>1. UNCHANGED <<mem, writer, disk, shown, todo, fate, taken>>
    BY <1>2 DEF vars, db, history
  <2> QED
    BY <2>1 DEF Standing, Registering, Rising, Threatened, Pending, Idle, Step, HasAll, BegunAll,
          Complete, Begun, HasProject, HasWorkload, HasRoute
<1> QED
  BY <1>1, <1>2, StandingCrash DEF Next

\* A workload that was registered and answered, and that nobody asked to delete
\* anything of, is there for every reader and after every restart, whatever fails:
\* with its default route, unless that was put to another workload, as it may be
\* to a second one of its name.
THEOREM Registered == Spec => []CreatedStays
<1>1. Standing => CreatedStays
  BY DEF Standing, HasAll, CreatedStays
<1> QED
  BY <1>1, StandingInit, StandingNext, OrphansInvariance, Invariance, PTL DEF Spec
=============================================================================
