------------------------------ MODULE AvalonMongo ------------------------------
(***************************************************************************)
(* Database connections (mongodb.py): AvalonMongoDB objects share one      *)
(* pymongo client through the class AvalonMongoConnection.  The client is  *)
(* created when the first object is installed and closed when the last one *)
(* is uninstalled.                                                         *)
(*                                                                         *)
(* Nothing is locked, and objects install themselves on first use in       *)
(* whatever thread that is, so each access to the class's attributes is a  *)
(* step of a thread.                                                       *)
(***************************************************************************)
EXTENDS Integers, FiniteSets

CONSTANTS
  Objects,   \* AvalonMongoDB objects, avalon.io's connection object among them
  Threads,
  MaxClients \* bound: clients created

ASSUME ClientsAssumption == MaxClients \in Nat

VARIABLES
  client,         \* AvalonMongoConnection._mongo_client by number, 0 for None
  classInstalled, \* AvalonMongoConnection._is_installed
  registered,     \* objects in AvalonMongoConnection._databases ...
  installed,      \* ... and those whose "installed" is true
  database,       \* of each object: the client its _database came from, or 0
  created,        \* number of clients created
  open,           \* clients not closed
  pc, obj,        \* of each thread: where it is, the object it works on
  seen,           \* ... the registry as a loop over it found it
  forced,         \* ... in a forced uninstall
  keys, todo,     \* ... its loop: the registry at first, objects still to visit
  held,           \* ... the client a query runs on
  calm            \* no operation has begun while another was under way

classVars  == <<client, classInstalled, registered, installed>>
forceVars  == <<forced, keys, todo>>
threadVars == <<pc, obj, seen, forceVars, held>>
vars == <<classVars, database, created, open, threadVars, calm>>

Idle(t) == pc[t] = "idle"
AllIdle == \A t \in Threads : Idle(t)

Goto(t, step) == pc' = [pc EXCEPT ![t] = step]

Init ==
  /\ client = 0 /\ classInstalled = FALSE /\ registered = {} /\ installed = {}
  /\ database = [o \in Objects |-> 0]
  /\ created = 0 /\ open = {}
  /\ pc = [t \in Threads |-> "idle"]
  /\ obj \in [Threads -> Objects]
  /\ seen = [t \in Threads |-> {}]
  /\ keys = [t \in Threads |-> {}] /\ todo = [t \in Threads |-> {}]
  /\ forced = [t \in Threads |-> FALSE] /\ held = [t \in Threads |-> 0]
  /\ calm = TRUE

Begin(t, o, step) ==
  /\ Idle(t)
  /\ calm' = (calm /\ AllIdle)
  /\ obj' = [obj EXCEPT ![t] = o]
  /\ Goto(t, step)

-----------------------------------------------------------------------------
(* AvalonMongoDB.install; an installed object returns at once. *)

BeginInstall(t) ==
  /\ \E o \in Objects \ installed : Begin(t, o, "check")
  /\ UNCHANGED <<classVars, database, created, open, seen, forceVars, held>>

CheckClient(t) ==
  /\ pc[t] = "check"
  /\ Goto(t, IF ~classInstalled \/ client = 0 THEN "connect" ELSE "register")
  /\ UNCHANGED <<classVars, database, created, open, obj, seen, forceVars, held, calm>>

\* create_connection: a client, or an exception when three tries have failed.
Connect(t) ==
  /\ pc[t] = "connect"
  /\ \/ /\ created < MaxClients
        /\ created' = created + 1
        /\ client' = created'
        /\ open' = open \cup {created'}
        /\ Goto(t, "flag")
     \/ /\ Goto(t, "idle")
        /\ UNCHANGED <<created, client, open>>
  /\ UNCHANGED <<classInstalled, registered, installed, database, obj, seen, forceVars,
                 held, calm>>

Flag(t) ==
  /\ pc[t] = "flag"
  /\ classInstalled' = TRUE
  /\ Goto(t, "register")
  /\ UNCHANGED <<client, registered, installed, database, created, open, obj, seen,
                 forceVars, held, calm>>

\* register_database, then "installed" is set.
Register(t) ==
  /\ pc[t] = "register"
  /\ registered' = registered \cup {obj[t]}
  /\ installed' = installed \cup {obj[t]}
  /\ seen' = [seen EXCEPT ![t] = registered']
  /\ Goto(t, "sweep")
  /\ UNCHANGED <<client, classInstalled, database, created, open, obj, forceVars, held,
                 calm>>

\* check_db_existence, in install and in uninstall.  The registry and the loop
\* variable both refer to the object, so no reference count is ever 1 and
\* nothing is popped; but the loop raises when the registry has grown.
Sweep(t) ==
  /\ \/ pc[t] = "sweep"   /\ Goto(t, IF registered = seen[t] THEN "database" ELSE "idle")
     \/ pc[t] = "sweepUn" /\ Goto(t, IF registered = seen[t] THEN "scan" ELSE "idle")
  /\ UNCHANGED <<classVars, database, created, open, obj, seen, forceVars, held, calm>>

\* self._database = AvalonMongoConnection.database(), which raises on None
TakeDatabase(t) ==
  /\ pc[t] = "database"
  /\ database' = IF client = 0 THEN database ELSE [database EXCEPT ![obj[t]] = client]
  /\ Goto(t, "idle")
  /\ UNCHANGED <<classVars, created, open, obj, seen, forceVars, held, calm>>

-----------------------------------------------------------------------------
(* AvalonMongoDB.uninstall; an object never registered raises KeyError. *)

BeginUninstall(t) ==
  /\ \E o \in registered : Begin(t, o, "unmark")
  /\ forced' = [forced EXCEPT ![t] = FALSE]
  /\ UNCHANGED <<classVars, database, created, open, seen, keys, todo, held>>

Unmark(t) ==
  /\ pc[t] = "unmark"
  /\ installed' = installed \ {obj[t]}
  /\ seen' = [seen EXCEPT ![t] = registered]
  /\ Goto(t, "sweepUn")
  /\ UNCHANGED <<client, classInstalled, registered, database, created, open, obj,
                 forceVars, held, calm>>

\* any_is_installed
Scan(t) ==
  /\ pc[t] = "scan"
  /\ Goto(t, IF installed = {} THEN "close" ELSE "reset")
  /\ UNCHANGED <<classVars, database, created, open, obj, seen, forceVars, held, calm>>

\* _uninstall, in three statements; close() on None is caught.
CloseClient(t) ==
  /\ pc[t] \in {"close", "closeAll"}
  /\ open' = open \ {client}
  /\ Goto(t, IF pc[t] = "close" THEN "unflag" ELSE "unflagAll")
  /\ UNCHANGED <<classVars, database, created, obj, seen, forceVars, held, calm>>

Unflag(t) ==
  /\ pc[t] \in {"unflag", "unflagAll"}
  /\ classInstalled' = FALSE
  /\ Goto(t, IF pc[t] = "unflag" THEN "drop" ELSE "dropAll")
  /\ UNCHANGED <<client, registered, installed, database, created, open, obj, seen,
                 forceVars, held, calm>>

\* Mutant: the closed client is kept.
KeepClient(t) ==
  /\ pc[t] \in {"drop", "dropAll"}
  /\ Goto(t, IF pc[t] = "drop" THEN "reset" ELSE "idle")
  /\ UNCHANGED <<classVars, database, created, open, obj, seen, forceVars, held, calm>>

DropClient(t) ==
  /\ pc[t] \in {"drop", "dropAll"}
  /\ client' = 0
  /\ Goto(t, IF pc[t] = "drop" THEN "reset" ELSE "idle")
  /\ UNCHANGED <<classInstalled, registered, installed, database, created, open, obj,
                 seen, forceVars, held, calm>>

\* Mutant: the object keeps its database handle.
KeepDatabase(t) ==
  /\ pc[t] = "reset"
  /\ Goto(t, IF forced[t] THEN "next" ELSE "idle")
  /\ UNCHANGED <<classVars, database, created, open, obj, seen, forceVars, held, calm>>

\* self._database = None
ResetDatabase(t) ==
  /\ pc[t] = "reset"
  /\ database' = [database EXCEPT ![obj[t]] = 0]
  /\ Goto(t, IF forced[t] THEN "next" ELSE "idle")
  /\ UNCHANGED <<classVars, created, open, obj, seen, forceVars, held, calm>>

\* uninstall(force=True): every registered object, then the client.
BeginForce(t) ==
  /\ \E o \in Objects : Begin(t, o, "next")
  /\ todo' = [todo EXCEPT ![t] = registered]
  /\ keys' = [keys EXCEPT ![t] = registered]
  /\ forced' = [forced EXCEPT ![t] = TRUE]
  /\ UNCHANGED <<classVars, database, created, open, seen, held>>

\* The loop over the registry raises when the registry has grown.
NextObject(t) ==
  /\ pc[t] = "next"
  /\ \/ registered # keys[t] /\ Goto(t, "idle") /\ UNCHANGED <<obj, todo>>
     \/ /\ registered = keys[t] /\ todo[t] = {}
        /\ Goto(t, "closeAll")
        /\ UNCHANGED <<obj, todo>>
     \/ /\ registered = keys[t]
        /\ \E o \in todo[t] : /\ obj' = [obj EXCEPT ![t] = o]
                              /\ todo' = [todo EXCEPT ![t] = @ \ {o}]
        /\ Goto(t, "unmark")
  /\ UNCHANGED <<classVars, database, created, open, seen, forced, keys, held, calm>>

-----------------------------------------------------------------------------
(* A query: __getattr__ raises AttributeError unless the object is         *)
(* installed.  A pymongo client that was closed opens again when used.     *)

BeginQuery(t) ==
  /\ \E o \in installed :
       /\ database[o] # 0
       /\ Begin(t, o, "query")
       /\ held' = [held EXCEPT ![t] = database[o]]
  /\ UNCHANGED <<classVars, database, created, open, seen, forceVars>>

Query(t) ==
  /\ pc[t] = "query"
  /\ open' = open \cup {held[t]}
  /\ held' = [held EXCEPT ![t] = 0]
  /\ Goto(t, "idle")
  /\ UNCHANGED <<classVars, database, created, obj, seen, forceVars, calm>>

-----------------------------------------------------------------------------
InstallStep(t) == BeginInstall(t) \/ CheckClient(t) \/ Connect(t) \/ Flag(t)
                  \/ Register(t) \/ Sweep(t) \/ TakeDatabase(t)

UninstallStep(t) == BeginUninstall(t) \/ Unmark(t) \/ Scan(t) \/ CloseClient(t)
                    \/ Unflag(t) \/ DropClient(t) \/ ResetDatabase(t)
                    \/ BeginForce(t) \/ NextObject(t)

Next == \E t \in Threads : InstallStep(t) \/ UninstallStep(t) \/ BeginQuery(t) \/ Query(t)

Spec == Init /\ [][Next]_vars

-----------------------------------------------------------------------------
(* Properties. *)

Steps == {"idle", "check", "connect", "flag", "register", "sweep", "database", "unmark",
          "sweepUn", "scan", "close", "unflag", "drop", "reset", "next", "closeAll",
          "unflagAll", "dropAll", "query"}

\* Every variable has its type, an object counts as installed only while it is
\* in the registry, and clients have been created before they are open.
TypeOK ==
  /\ client \in Nat /\ classInstalled \in BOOLEAN
  /\ registered \subseteq Objects /\ installed \subseteq registered
  /\ database \in [Objects -> Nat]
  /\ created \in Nat /\ open \subseteq 1..created
  /\ client <= created /\ \A o \in Objects : database[o] <= created
  /\ pc \in [Threads -> Steps] /\ obj \in [Threads -> Objects]
  /\ seen \in [Threads -> SUBSET Objects] /\ todo \in [Threads -> SUBSET Objects]
  /\ keys \in [Threads -> SUBSET Objects]
  /\ forced \in [Threads -> BOOLEAN] /\ held \in [Threads -> Nat]
  /\ \A t \in Threads : pc[t] = "query" => held[t] \in 1..created
  /\ calm \in BOOLEAN

\* Operations that do not overlap leave each object with a handle to the
\* shared client exactly while it is installed (install and uninstall), and one
\* client open while any object is installed: none is closed under another
\* object, none is leaked.
CalmConsistent ==
  calm /\ AllIdle =>
    /\ \A o \in Objects : database[o] = IF o \in installed THEN client ELSE 0
    /\ open = IF client = 0 THEN {} ELSE {client}
    /\ client = 0 <=> installed = {}

\* However the threads interleave, the shared client is never left closed: one
\* that is closed is about to be dropped by the thread that closed it, so that
\* a later install creates another (_uninstall).
NeverLeftClosed ==
  client # 0 /\ client \notin open =>
    \E t \in Threads : pc[t] \in {"unflag", "drop", "unflagAll", "dropAll"}

\* Claim of install's docstring, "Establish a persistent connection to the
\* database": an installed object no thread works on has an open connection.
InstallEstablishes ==
  \A o \in installed :
    (\A t \in Threads : Idle(t) \/ obj[t] # o) => database[o] \in open
=============================================================================
