SPECIFICATION Spec
CONSTANTS
    Servers <- MCServers
    NoServer = NoServer
    Flocking = {"p", "r"}
    Hasty = {"p"}
    Users <- MCUsers
    NoUser = NoUser
    Sessions <- MCSessions
    Home <- MCHome
    Database <- MCDatabase
INVARIANT OneServer
