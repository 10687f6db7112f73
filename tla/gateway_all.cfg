SPECIFICATION Spec
CONSTANTS
    app = app
    api = api
    p1 = p1
    hApp = hApp
    hOld = hOld
    hApi = hApi
    r1 = r1
    r2 = r2
    Requests = {r1, r2}
    Hosts = {hApp, hOld, hApi}
    Workloads = {app, api}
    Projects = {p1}
    Free = Free
    Home <- HomeOf
    Project <- ProjectOf
    Aliases <- AliasesOf
    Worlds <- GatewayWorlds
    MaxVersion = 2
INVARIANT TypeOK
INVARIANT NoRouteIsTrue
INVARIANT BodyOnce
PROPERTY UnknownNotAsked
PROPERTY AskedOnce
PROPERTY AnsweredOrWithProgram
CHECK_DEADLOCK FALSE
