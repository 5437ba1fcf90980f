SPECIFICATION FairSpec
CONSTANTS
    Servers <- MCServers
    NoServer = NoServer
    Flocking = {"p", "r"}
    Hasty = {}
    Users <- MCUsers
    NoUser = NoUser
    Sessions <- MCSessions
    Home <- MCHome
    Database <- MCDatabase
INVARIANTS TypeOK OneServer GuardHasOwner OneUserPerDatabase
PROPERTIES EveryGateIsFreed
