-------------------------- MODULE Database_proofs ---------------------------
(***************************************************************************)
(* Proofs about the two parts that speak to the database: the connection   *)
(* (AvalonMongo), for any objects, threads and number of clients, and the  *)
(* inventory of a project (ProjectInventory), for any users, names and     *)
(* first database.                                                         *)
(***************************************************************************)
EXTENDS AvalonMongo, ProjectInventory, WellFoundedInduction, TLAPS

-----------------------------------------------------------------------------
(***************************************************************************)
(* AvalonMongo                                                             *)
(***************************************************************************)

\* Every variable has its type, and only registered objects are installed.
THEOREM TypeCorrect == Spec => []TypeOK
<1> USE DEF Goto, Begin, Idle, Steps, classVars, threadVars, forceVars
<1>1. Init => TypeOK
  <2> SUFFICES ASSUME Init
               PROVE  TypeOK
    OBVIOUS
  <2>1. \A t \in Threads : pc[t] # "query"
    BY DEF Init
  <2>2. client \in Nat /\ created \in Nat /\ open \subseteq 1..created
        /\ classInstalled \in BOOLEAN /\ calm \in BOOLEAN
    BY DEF Init
  <2>3. registered \subseteq Objects /\ installed \subseteq registered
        /\ client <= created /\ database \in [Objects -> Nat]
        /\ \A o \in Objects : database[o] <= created
    BY DEF Init
  <2>4. /\ pc \in [Threads -> Steps] /\ obj \in [Threads -> Objects]
        /\ seen \in [Threads -> SUBSET Objects] /\ todo \in [Threads -> SUBSET Objects]
        /\ keys \in [Threads -> SUBSET Objects]
        /\ forced \in [Threads -> BOOLEAN] /\ held \in [Threads -> Nat]
    BY DEF Init
  <2>5. QED
    BY <2>1, <2>2, <2>3, <2>4 DEF TypeOK
<1>2. TypeOK /\ [Next]_vars => TypeOK'
  <2> SUFFICES ASSUME TypeOK, [Next]_vars
               PROVE  TypeOK'
    OBVIOUS
  <2> USE DEF TypeOK
  <2>1. ASSUME NEW t \in Threads, BeginInstall(t)
       PROVE  TypeOK'
    BY <2>1 DEF BeginInstall
  <2>2. ASSUME NEW t \in Threads, CheckClient(t)
       PROVE  TypeOK'
    BY <2>2 DEF CheckClient
  <2>3. ASSUME NEW t \in Threads, Connect(t)
       PROVE  TypeOK'
    <3>1. created' \in Nat /\ client' \in Nat /\ client' <= created' /\ created <= created'
          /\ open' \subseteq 1..created'
      <4>1. CASE /\ created' = created + 1 /\ client' = created'
                 /\ open' = open \cup {created'}
        <5>1. 1..created \subseteq 1..created' /\ created' \in 1..created'
          BY <4>1
        <5>2. QED
          BY <4>1, <5>1
      <4>2. CASE UNCHANGED <<created, client, open>>
        BY <4>2
      <4>3. QED
        BY <2>3, <4>1, <4>2 DEF Connect
    <3>2. \A o \in Objects : database'[o] <= created'
      BY <2>3, <3>1 DEF Connect
    <3>3. pc' \in [Threads -> Steps]
          /\ \A u \in Threads : pc'[u] = "query" => held'[u] \in 1..created'
      BY <2>3, <3>1 DEF Connect
    <3>4. QED
      BY <2>3, <3>1, <3>2, <3>3 DEF Connect
  <2>4. ASSUME NEW t \in Threads, Flag(t)
       PROVE  TypeOK'
    BY <2>4 DEF Flag
  <2>5. ASSUME NEW t \in Threads, Register(t)
       PROVE  TypeOK'
    BY <2>5 DEF Register
  <2>6. ASSUME NEW t \in Threads, Sweep(t)
       PROVE  TypeOK'
    BY <2>6 DEF Sweep
  <2>7. ASSUME NEW t \in Threads, TakeDatabase(t)
       PROVE  TypeOK'
    BY <2>7 DEF TakeDatabase
  <2>8. ASSUME NEW t \in Threads, BeginUninstall(t)
       PROVE  TypeOK'
    BY <2>8 DEF BeginUninstall
  <2>9. ASSUME NEW t \in Threads, Unmark(t)
       PROVE  TypeOK'
    BY <2>9 DEF Unmark
  <2>10. ASSUME NEW t \in Threads, Scan(t)
       PROVE  TypeOK'
    BY <2>10 DEF Scan
  <2>11. ASSUME NEW t \in Threads, CloseClient(t)
       PROVE  TypeOK'
    BY <2>11 DEF CloseClient
  <2>12. ASSUME NEW t \in Threads, Unflag(t)
       PROVE  TypeOK'
    BY <2>12 DEF Unflag
  <2>13. ASSUME NEW t \in Threads, DropClient(t)
       PROVE  TypeOK'
    BY <2>13 DEF DropClient
  <2>14. ASSUME NEW t \in Threads, ResetDatabase(t)
       PROVE  TypeOK'
    BY <2>14 DEF ResetDatabase
  <2>15. ASSUME NEW t \in Threads, BeginForce(t)
       PROVE  TypeOK'
    BY <2>15 DEF BeginForce
  <2>16. ASSUME NEW t \in Threads, NextObject(t)
       PROVE  TypeOK'
    BY <2>16 DEF NextObject
  <2>17. ASSUME NEW t \in Threads, BeginQuery(t)
       PROVE  TypeOK'
    BY <2>17 DEF BeginQuery
  <2>18. ASSUME NEW t \in Threads, Query(t)
       PROVE  TypeOK'
    BY <2>18 DEF Query
  <2>19. CASE UNCHANGED vars
    BY <2>19 DEF vars
  <2>20. QED
    BY <2>1, <2>2, <2>3, <2>4, <2>5, <2>6, <2>7, <2>8, <2>9, <2>10, <2>11,
       <2>12, <2>13, <2>14, <2>15, <2>16, <2>17, <2>18, <2>19
       DEF Next, InstallStep, UninstallStep
<1>3. QED
  BY <1>1, <1>2, PTL DEF Spec

\* The shared client is never left closed, whatever the threads do.
THEOREM ClientNeverLeftClosed == Spec => []NeverLeftClosed
<1> USE DEF Goto, Begin, Idle, classVars, threadVars, forceVars
<1>1. Init => NeverLeftClosed
  BY DEF Init, NeverLeftClosed
<1>2. TypeOK /\ NeverLeftClosed /\ [Next]_vars => NeverLeftClosed'
  <2> SUFFICES ASSUME TypeOK, NeverLeftClosed, [Next]_vars
               PROVE  NeverLeftClosed'
    OBVIOUS
  <2>1. pc \in [Threads -> Steps]
    BY DEF TypeOK
  <2>2. ASSUME NEW t \in Threads, BeginInstall(t)
       PROVE  NeverLeftClosed'
    BY <2>1, <2>2 DEF BeginInstall, NeverLeftClosed
  <2>3. ASSUME NEW t \in Threads, CheckClient(t)
       PROVE  NeverLeftClosed'
    BY <2>1, <2>3 DEF CheckClient, NeverLeftClosed
  <2>4. ASSUME NEW t \in Threads, Connect(t)
       PROVE  NeverLeftClosed'
    BY <2>1, <2>4 DEF Connect, NeverLeftClosed
  <2>5. ASSUME NEW t \in Threads, Flag(t)
       PROVE  NeverLeftClosed'
    BY <2>1, <2>5 DEF Flag, NeverLeftClosed
  <2>6. ASSUME NEW t \in Threads, Register(t)
       PROVE  NeverLeftClosed'
    BY <2>1, <2>6 DEF Register, NeverLeftClosed
  <2>7. ASSUME NEW t \in Threads, Sweep(t)
       PROVE  NeverLeftClosed'
    BY <2>1, <2>7 DEF Sweep, NeverLeftClosed
  <2>8. ASSUME NEW t \in Threads, TakeDatabase(t)
       PROVE  NeverLeftClosed'
    BY <2>1, <2>8 DEF TakeDatabase, NeverLeftClosed
  <2>9. ASSUME NEW t \in Threads, BeginUninstall(t)
       PROVE  NeverLeftClosed'
    BY <2>1, <2>9 DEF BeginUninstall, NeverLeftClosed
  <2>10. ASSUME NEW t \in Threads, Unmark(t)
       PROVE  NeverLeftClosed'
    BY <2>1, <2>10 DEF Unmark, NeverLeftClosed
  <2>11. ASSUME NEW t \in Threads, Scan(t)
       PROVE  NeverLeftClosed'
    BY <2>1, <2>11 DEF Scan, NeverLeftClosed
  <2>12. ASSUME NEW t \in Threads, CloseClient(t)
       PROVE  NeverLeftClosed'
    BY <2>1, <2>12 DEF CloseClient, NeverLeftClosed
  <2>13. ASSUME NEW t \in Threads, Unflag(t)
       PROVE  NeverLeftClosed'
    BY <2>1, <2>13 DEF Unflag, NeverLeftClosed
  <2>14. ASSUME NEW t \in Threads, DropClient(t)
       PROVE  NeverLeftClosed'
    BY <2>1, <2>14 DEF DropClient, NeverLeftClosed
  <2>15. ASSUME NEW t \in Threads, ResetDatabase(t)
       PROVE  NeverLeftClosed'
    BY <2>1, <2>15 DEF ResetDatabase, NeverLeftClosed
  <2>16. ASSUME NEW t \in Threads, BeginForce(t)
       PROVE  NeverLeftClosed'
    BY <2>1, <2>16 DEF BeginForce, NeverLeftClosed
  <2>17. ASSUME NEW t \in Threads, NextObject(t)
       PROVE  NeverLeftClosed'
    BY <2>1, <2>17 DEF NextObject, NeverLeftClosed
  <2>18. ASSUME NEW t \in Threads, BeginQuery(t)
       PROVE  NeverLeftClosed'
    BY <2>1, <2>18 DEF BeginQuery, NeverLeftClosed
  <2>19. ASSUME NEW t \in Threads, Query(t)
       PROVE  NeverLeftClosed'
    BY <2>1, <2>19 DEF Query, NeverLeftClosed
  <2>20. CASE UNCHANGED vars
    BY <2>1, <2>20 DEF vars, NeverLeftClosed
  <2>21. QED
    BY <2>2, <2>3, <2>4, <2>5, <2>6, <2>7, <2>8, <2>9, <2>10, <2>11, <2>12,
       <2>13, <2>14, <2>15, <2>16, <2>17, <2>18, <2>19, <2>20
       DEF Next, InstallStep, UninstallStep
<1>3. QED
  BY <1>1, <1>2, TypeCorrect, PTL DEF Spec

-----------------------------------------------------------------------------
(***************************************************************************)
(* Operations that do not overlap.  While calm holds at most one thread is *)
(* in an operation.  Settled is the state between operations; Shape says   *)
(* what the thread that is inside one has undone of it so far.             *)
(***************************************************************************)
Handle(o) == IF o \in installed THEN client ELSE 0

Partial   == {"sweep", "database", "sweepUn", "scan", "close", "unflag", "drop", "reset"}
Closed    == {"unflag", "drop"}
Unsettled == {"flag", "sweepUn", "scan", "close", "unflag", "drop"}
Empty     == {"connect", "flag", "close", "unflag", "drop", "closeAll", "unflagAll",
              "dropAll"}
Forcible  == {"unmark", "sweepUn", "scan", "close", "unflag", "drop", "reset"}

OneClient == open = IF client = 0 THEN {} ELSE {client}
Flagged   == classInstalled <=> client # 0

Settled ==
  /\ \A o \in Objects : database[o] = Handle(o)
  /\ OneClient /\ Flagged
  /\ client = 0 <=> installed = {}

Shape(t) ==
  /\ \A o \in Objects : (o # obj[t] \/ pc[t] \notin Partial) => database[o] = Handle(o)
  /\ IF pc[t] \in Closed THEN open = {} ELSE OneClient
  /\ pc[t] \notin {"flag", "drop"} => Flagged
  /\ pc[t] = "drop" => ~classInstalled
  /\ pc[t] \notin Unsettled \cup {"register"} => (client = 0 <=> installed = {})
  /\ pc[t] \in Empty => installed = {}
  /\ pc[t] = "connect" => client = 0
  /\ pc[t] \in {"flag", "register", "sweep", "database", "query"} => client # 0
  /\ pc[t] \in {"sweepUn", "scan"} => (client = 0 => installed = {})
  /\ pc[t] \in {"sweep", "database"} => obj[t] \in installed
  /\ pc[t] \in {"sweepUn", "scan", "reset"} => obj[t] \notin installed
  /\ pc[t] \in {"sweep", "sweepUn"} => seen[t] = registered
  /\ pc[t] = "next" => forced[t] /\ installed \subseteq todo[t]
  /\ pc[t] \in Forcible /\ forced[t] => installed \subseteq todo[t] \cup {obj[t]}
  /\ pc[t] = "query" => held[t] = client

CalmInv ==
  calm => /\ \A t, u \in Threads : Idle(t) \/ Idle(u) \/ t = u
          /\ AllIdle => Settled
          /\ \A t \in Threads : Idle(t) \/ Shape(t)

\* A step of thread t keeps the invariant if it leaves the others alone and
\* leads to a settled state or to one with its shape.
LEMMA CalmThread ==
  ASSUME TypeOK, CalmInv, NEW t \in Threads,
         \A u \in Threads \ {t} : pc'[u] = pc[u],
         calm' => calm /\ \A u \in Threads \ {t} : Idle(u),
         calm' => IF Idle(t)' THEN Settled' ELSE Shape(t)'
  PROVE  CalmInv'
  BY DEF CalmInv, Idle, AllIdle

\* In an operation, the thread of a calm system is the only one, with its shape.
LEMMA CalmAlone ==
  ASSUME TypeOK, CalmInv, calm, NEW t \in Threads, ~Idle(t)
  PROVE  Shape(t) /\ \A u \in Threads \ {t} : Idle(u)
  BY DEF CalmInv, Idle

\* Every step of install, uninstall and __getattr__ keeps the calm invariant.
LEMMA CalmStep == TypeOK /\ CalmInv /\ [Next]_vars => CalmInv'
<1> SUFFICES ASSUME TypeOK, CalmInv, [Next]_vars
             PROVE  CalmInv'
  OBVIOUS
<1>1. /\ pc \in [Threads -> Steps] /\ obj \in [Threads -> Objects]
      /\ seen \in [Threads -> SUBSET Objects] /\ todo \in [Threads -> SUBSET Objects]
      /\ forced \in [Threads -> BOOLEAN] /\ held \in [Threads -> Nat]
      /\ database \in [Objects -> Nat] /\ client \in Nat /\ created \in Nat
      /\ registered \subseteq Objects /\ installed \subseteq registered
  BY DEF TypeOK
<1>2. ASSUME NEW t \in Threads, BeginInstall(t)
     PROVE  CalmInv'
  <2>1. calm' => Settled /\ AllIdle
    BY <1>2 DEF BeginInstall, Begin, CalmInv
  <2>2. (\A u \in Threads \ {t} : pc'[u] = pc[u]) /\ (calm' => calm)
    BY <1>1, <1>2 DEF BeginInstall, Begin, Goto
  <2>3. calm' => IF Idle(t)' THEN Settled' ELSE Shape(t)'
    BY <1>1, <1>2, <2>1 DEF BeginInstall, Begin, Goto, Idle, classVars, forceVars,
       Shape, Settled, Handle, OneClient, Flagged, Partial, Closed, Unsettled, Empty, Forcible
  <2>4. QED
    BY <2>1, <2>2, <2>3, CalmThread DEF AllIdle
<1>3. ASSUME NEW t \in Threads, CheckClient(t)
     PROVE  CalmInv'
  <2>1. calm' => Shape(t) /\ \A u \in Threads \ {t} : Idle(u)
    BY <1>3, CalmAlone DEF CheckClient, Idle
  <2>2. (\A u \in Threads \ {t} : pc'[u] = pc[u]) /\ (calm' => calm)
    BY <1>1, <1>3 DEF CheckClient, Goto
  <2>3. calm' => IF Idle(t)' THEN Settled' ELSE Shape(t)'
    BY <1>1, <1>3, <2>1 DEF CheckClient, Goto, Idle, classVars, forceVars,
       Shape, Settled, Handle, OneClient, Flagged, Partial, Closed, Unsettled, Empty, Forcible
  <2>4. QED
    BY <2>1, <2>2, <2>3, CalmThread DEF AllIdle
<1>4. ASSUME NEW t \in Threads, Connect(t)
     PROVE  CalmInv'
  <2>1. calm' => Shape(t) /\ \A u \in Threads \ {t} : Idle(u)
    BY <1>4, CalmAlone DEF Connect, Idle
  <2>2. (\A u \in Threads \ {t} : pc'[u] = pc[u]) /\ (calm' => calm)
    BY <1>1, <1>4 DEF Connect, Goto
  <2>3. calm' => IF Idle(t)' THEN Settled' ELSE Shape(t)'
    BY <1>1, <1>4, <2>1 DEF Connect, Goto, Idle, classVars, forceVars,
       Shape, Settled, Handle, OneClient, Flagged, Partial, Closed, Unsettled, Empty, Forcible
  <2>4. QED
    BY <2>1, <2>2, <2>3, CalmThread DEF AllIdle
<1>5. ASSUME NEW t \in Threads, Flag(t)
     PROVE  CalmInv'
  <2>1. calm' => Shape(t) /\ \A u \in Threads \ {t} : Idle(u)
    BY <1>5, CalmAlone DEF Flag, Idle
  <2>2. (\A u \in Threads \ {t} : pc'[u] = pc[u]) /\ (calm' => calm)
    BY <1>1, <1>5 DEF Flag, Goto
  <2>3. calm' => IF Idle(t)' THEN Settled' ELSE Shape(t)'
    BY <1>1, <1>5, <2>1 DEF Flag, Goto, Idle, classVars, forceVars,
       Shape, Settled, Handle, OneClient, Flagged, Partial, Closed, Unsettled, Empty, Forcible
  <2>4. QED
    BY <2>1, <2>2, <2>3, CalmThread DEF AllIdle
<1>6. ASSUME NEW t \in Threads, Register(t)
     PROVE  CalmInv'
  <2>1. calm' => Shape(t) /\ \A u \in Threads \ {t} : Idle(u)
    BY <1>6, CalmAlone DEF Register, Idle
  <2>2. (\A u \in Threads \ {t} : pc'[u] = pc[u]) /\ (calm' => calm)
    BY <1>1, <1>6 DEF Register, Goto
  <2>3. calm' => IF Idle(t)' THEN Settled' ELSE Shape(t)'
    BY <1>1, <1>6, <2>1 DEF Register, Goto, Idle, classVars, forceVars,
       Shape, Settled, Handle, OneClient, Flagged, Partial, Closed, Unsettled, Empty, Forcible
  <2>4. QED
    BY <2>1, <2>2, <2>3, CalmThread DEF AllIdle
<1>7. ASSUME NEW t \in Threads, Sweep(t)
     PROVE  CalmInv'
  <2>1. calm' => Shape(t) /\ \A u \in Threads \ {t} : Idle(u)
    BY <1>7, CalmAlone DEF Sweep, Idle
  <2>2. (\A u \in Threads \ {t} : pc'[u] = pc[u]) /\ (calm' => calm)
    BY <1>1, <1>7 DEF Sweep, Goto
  <2>3. calm' => IF Idle(t)' THEN Settled' ELSE Shape(t)'
    BY <1>1, <1>7, <2>1 DEF Sweep, Goto, Idle, classVars, forceVars,
       Shape, Settled, Handle, OneClient, Flagged, Partial, Closed, Unsettled, Empty, Forcible
  <2>4. QED
    BY <2>1, <2>2, <2>3, CalmThread DEF AllIdle
<1>8. ASSUME NEW t \in Threads, TakeDatabase(t)
     PROVE  CalmInv'
  <2>1. calm' => Shape(t) /\ \A u \in Threads \ {t} : Idle(u)
    BY <1>8, CalmAlone DEF TakeDatabase, Idle
  <2>2. (\A u \in Threads \ {t} : pc'[u] = pc[u]) /\ (calm' => calm)
    BY <1>1, <1>8 DEF TakeDatabase, Goto
  <2>3. calm' => IF Idle(t)' THEN Settled' ELSE Shape(t)'
    BY <1>1, <1>8, <2>1 DEF TakeDatabase, Goto, Idle, classVars, forceVars,
       Shape, Settled, Handle, OneClient, Flagged, Partial, Closed, Unsettled, Empty, Forcible
  <2>4. QED
    BY <2>1, <2>2, <2>3, CalmThread DEF AllIdle
<1>9. ASSUME NEW t \in Threads, BeginUninstall(t)
     PROVE  CalmInv'
  <2>1. calm' => Settled /\ AllIdle
    BY <1>9 DEF BeginUninstall, Begin, CalmInv
  <2>2. (\A u \in Threads \ {t} : pc'[u] = pc[u]) /\ (calm' => calm)
    BY <1>1, <1>9 DEF BeginUninstall, Begin, Goto
  <2>3. calm' => IF Idle(t)' THEN Settled' ELSE Shape(t)'
    BY <1>1, <1>9, <2>1 DEF BeginUninstall, Begin, Goto, Idle, classVars, forceVars,
       Shape, Settled, Handle, OneClient, Flagged, Partial, Closed, Unsettled, Empty, Forcible
  <2>4. QED
    BY <2>1, <2>2, <2>3, CalmThread DEF AllIdle
<1>10. ASSUME NEW t \in Threads, Unmark(t)
     PROVE  CalmInv'
  <2>1. calm' => Shape(t) /\ \A u \in Threads \ {t} : Idle(u)
    BY <1>10, CalmAlone DEF Unmark, Idle
  <2>2. (\A u \in Threads \ {t} : pc'[u] = pc[u]) /\ (calm' => calm)
    BY <1>1, <1>10 DEF Unmark, Goto
  <2>3. calm' => IF Idle(t)' THEN Settled' ELSE Shape(t)'
    BY <1>1, <1>10, <2>1 DEF Unmark, Goto, Idle, classVars, forceVars,
       Shape, Settled, Handle, OneClient, Flagged, Partial, Closed, Unsettled, Empty, Forcible
  <2>4. QED
    BY <2>1, <2>2, <2>3, CalmThread DEF AllIdle
<1>11. ASSUME NEW t \in Threads, Scan(t)
     PROVE  CalmInv'
  <2>1. calm' => Shape(t) /\ \A u \in Threads \ {t} : Idle(u)
    BY <1>11, CalmAlone DEF Scan, Idle
  <2>2. (\A u \in Threads \ {t} : pc'[u] = pc[u]) /\ (calm' => calm)
    BY <1>1, <1>11 DEF Scan, Goto
  <2>3. calm' => IF Idle(t)' THEN Settled' ELSE Shape(t)'
    BY <1>1, <1>11, <2>1 DEF Scan, Goto, Idle, classVars, forceVars,
       Shape, Settled, Handle, OneClient, Flagged, Partial, Closed, Unsettled, Empty, Forcible
  <2>4. QED
    BY <2>1, <2>2, <2>3, CalmThread DEF AllIdle
<1>12. ASSUME NEW t \in Threads, CloseClient(t)
     PROVE  CalmInv'
  <2>1. calm' => Shape(t) /\ \A u \in Threads \ {t} : Idle(u)
    BY <1>12, CalmAlone DEF CloseClient, Idle
  <2>2. (\A u \in Threads \ {t} : pc'[u] = pc[u]) /\ (calm' => calm)
    BY <1>1, <1>12 DEF CloseClient, Goto
  <2>3. calm' => IF Idle(t)' THEN Settled' ELSE Shape(t)'
    BY <1>1, <1>12, <2>1 DEF CloseClient, Goto, Idle, classVars, forceVars,
       Shape, Settled, Handle, OneClient, Flagged, Partial, Closed, Unsettled, Empty, Forcible
  <2>4. QED
    BY <2>1, <2>2, <2>3, CalmThread DEF AllIdle
<1>13. ASSUME NEW t \in Threads, Unflag(t)
     PROVE  CalmInv'
  <2>1. calm' => Shape(t) /\ \A u \in Threads \ {t} : Idle(u)
    BY <1>13, CalmAlone DEF Unflag, Idle
  <2>2. (\A u \in Threads \ {t} : pc'[u] = pc[u]) /\ (calm' => calm)
    BY <1>1, <1>13 DEF Unflag, Goto
  <2>3. calm' => IF Idle(t)' THEN Settled' ELSE Shape(t)'
    BY <1>1, <1>13, <2>1 DEF Unflag, Goto, Idle, classVars, forceVars,
       Shape, Settled, Handle, OneClient, Flagged, Partial, Closed, Unsettled, Empty, Forcible
  <2>4. QED
    BY <2>1, <2>2, <2>3, CalmThread DEF AllIdle
<1>14. ASSUME NEW t \in Threads, DropClient(t)
     PROVE  CalmInv'
  <2>1. calm' => Shape(t) /\ \A u \in Threads \ {t} : Idle(u)
    BY <1>14, CalmAlone DEF DropClient, Idle
  <2>2. (\A u \in Threads \ {t} : pc'[u] = pc[u]) /\ (calm' => calm)
    BY <1>1, <1>14 DEF DropClient, Goto
  <2>3. calm' => IF Idle(t)' THEN Settled' ELSE Shape(t)'
    BY <1>1, <1>14, <2>1 DEF DropClient, Goto, Idle, classVars, forceVars,
       Shape, Settled, Handle, OneClient, Flagged, Partial, Closed, Unsettled, Empty, Forcible
  <2>4. QED
    BY <2>1, <2>2, <2>3, CalmThread DEF AllIdle
<1>15. ASSUME NEW t \in Threads, ResetDatabase(t)
     PROVE  CalmInv'
  <2>1. calm' => Shape(t) /\ \A u \in Threads \ {t} : Idle(u)
    BY <1>15, CalmAlone DEF ResetDatabase, Idle
  <2>2. (\A u \in Threads \ {t} : pc'[u] = pc[u]) /\ (calm' => calm)
    BY <1>1, <1>15 DEF ResetDatabase, Goto
  <2>3. calm' => IF Idle(t)' THEN Settled' ELSE Shape(t)'
    BY <1>1, <1>15, <2>1 DEF ResetDatabase, Goto, Idle, classVars, forceVars,
       Shape, Settled, Handle, OneClient, Flagged, Partial, Closed, Unsettled, Empty, Forcible
  <2>4. QED
    BY <2>1, <2>2, <2>3, CalmThread DEF AllIdle
<1>16. ASSUME NEW t \in Threads, BeginForce(t)
     PROVE  CalmInv'
  <2>1. calm' => Settled /\ AllIdle
    BY <1>16 DEF BeginForce, Begin, CalmInv
  <2>2. (\A u \in Threads \ {t} : pc'[u] = pc[u]) /\ (calm' => calm)
    BY <1>1, <1>16 DEF BeginForce, Begin, Goto
  <2>3. calm' => IF Idle(t)' THEN Settled' ELSE Shape(t)'
    BY <1>1, <1>16, <2>1 DEF BeginForce, Begin, Goto, Idle, classVars, forceVars,
       Shape, Settled, Handle, OneClient, Flagged, Partial, Closed, Unsettled, Empty, Forcible
  <2>4. QED
    BY <2>1, <2>2, <2>3, CalmThread DEF AllIdle
<1>17. ASSUME NEW t \in Threads, NextObject(t)
     PROVE  CalmInv'
  <2>1. calm' => Shape(t) /\ \A u \in Threads \ {t} : Idle(u)
    BY <1>17, CalmAlone DEF NextObject, Idle
  <2>2. (\A u \in Threads \ {t} : pc'[u] = pc[u]) /\ (calm' => calm)
    BY <1>1, <1>17 DEF NextObject, Goto
  <2>3. calm' => IF Idle(t)' THEN Settled' ELSE Shape(t)'
    BY <1>1, <1>17, <2>1 DEF NextObject, Goto, Idle, classVars, forceVars,
       Shape, Settled, Handle, OneClient, Flagged, Partial, Closed, Unsettled, Empty, Forcible
  <2>4. QED
    BY <2>1, <2>2, <2>3, CalmThread DEF AllIdle
<1>18. ASSUME NEW t \in Threads, BeginQuery(t)
     PROVE  CalmInv'
  <2>1. calm' => Settled /\ AllIdle
    BY <1>18 DEF BeginQuery, Begin, CalmInv
  <2>2. (\A u \in Threads \ {t} : pc'[u] = pc[u]) /\ (calm' => calm)
    BY <1>1, <1>18 DEF BeginQuery, Begin, Goto
  <2>3. calm' => IF Idle(t)' THEN Settled' ELSE Shape(t)'
    BY <1>1, <1>18, <2>1 DEF BeginQuery, Begin, Goto, Idle, classVars, forceVars,
       Shape, Settled, Handle, OneClient, Flagged, Partial, Closed, Unsettled, Empty, Forcible
  <2>4. QED
    BY <2>1, <2>2, <2>3, CalmThread DEF AllIdle
<1>19. ASSUME NEW t \in Threads, Query(t)
     PROVE  CalmInv'
  <2>1. calm' => Shape(t) /\ \A u \in Threads \ {t} : Idle(u)
    BY <1>19, CalmAlone DEF Query, Idle
  <2>2. (\A u \in Threads \ {t} : pc'[u] = pc[u]) /\ (calm' => calm)
    BY <1>1, <1>19 DEF Query, Goto
  <2>3. calm' => IF Idle(t)' THEN Settled' ELSE Shape(t)'
    BY <1>1, <1>19, <2>1 DEF Query, Goto, Idle, classVars, forceVars,
       Shape, Settled, Handle, OneClient, Flagged, Partial, Closed, Unsettled, Empty, Forcible
  <2>4. QED
    BY <2>1, <2>2, <2>3, CalmThread DEF AllIdle
<1>20. CASE UNCHANGED vars
  BY <1>20 DEF vars, classVars, threadVars, forceVars, CalmInv, AllIdle, Idle,
     Shape, Settled, Handle, OneClient, Flagged, Partial, Closed, Unsettled, Empty, Forcible
<1>21. QED
  BY <1>2, <1>3, <1>4, <1>5, <1>6, <1>7, <1>8, <1>9, <1>10, <1>11, <1>12,
     <1>13, <1>14, <1>15, <1>16, <1>17, <1>18, <1>19, <1>20
     DEF Next, InstallStep, UninstallStep

\* Operations that do not overlap keep one client open exactly while an object
\* is installed, and each installed object has a handle to it.
THEOREM CalmConnections == Spec => []CalmConsistent
<1>1. Init => CalmInv
  <2> SUFFICES ASSUME Init
               PROVE  CalmInv
    OBVIOUS
  <2>1. Settled
    BY DEF Init, Settled, Handle, OneClient, Flagged
  <2>2. \A t \in Threads : Idle(t)
    BY DEF Init, Idle
  <2>3. QED
    BY <2>1, <2>2 DEF CalmInv
<1>2. CalmInv => CalmConsistent
  BY DEF CalmInv, Settled, Handle, OneClient, CalmConsistent
<1>3. QED
  BY <1>1, <1>2, CalmStep, TypeCorrect, PTL DEF Spec

-----------------------------------------------------------------------------
(***************************************************************************)
(* ProjectInventory                                                        *)
(***************************************************************************)

SavingSteps == {"none", "find", "metadata", "assets", "create", "config"}
FilesType == [inventory : InventoryFiles \cup {None}, config : ConfigFiles \cup {None}]
SavingType == [step : SavingSteps, doc : Projects \cup {None}, todo : SUBSET EntryDocs,
               missing : SUBSET EntryDocs, pending : EntryDocs \cup {None}]
ParentDocs == [id : Nat, name : Seq(Labels), parents : Seq(Labels \cup {None}) \cup {None},
               label : Labels \cup {None}]
DialogType == [open : BOOLEAN, parent : ParentDocs \cup {None}, pending : AssetDocs \cup {None},
               refreshing : BOOLEAN]

\* Every variable has its type.
InventoryTypeOK ==
  /\ project \in Projects \cup {None} /\ assets \in Seq(AssetDocs)
  /\ files \in [Users -> FilesType] /\ saving \in [Users -> SavingType]
  /\ outcome \in [Users -> {"none", "raised", "saved"}]
  /\ loaded \in [Users -> Seq(AssetDocs) \cup {None}] /\ alone \in [Users -> BOOLEAN]
  /\ dialog \in DialogType /\ raced \in BOOLEAN /\ acts \in Nat

\* What a save holds at each of its steps: nothing that belongs to a later one.
SaveHolds(s, f, how, p) ==
  /\ s.step = "none" => s = NotSaving
  /\ s.step # "none" => f.inventory # None /\ f.config # None /\ how = "none"
  /\ s.step \in {"metadata", "assets", "create", "config"} => p # None
  /\ s.step \in {"metadata", "config"} => s.doc # None
  /\ s.step # "assets" => s.todo = {}
  /\ s.step \notin {"assets", "create"} => s.missing = {}
  /\ s.step # "create" => s.pending = None
SaveInv == \A u \in Users : SaveHolds(saving[u], files[u], outcome[u], project)

\* The dialog is open for a project, and the parent it keeps is one of the assets.
DialogInv ==
  /\ dialog.open => project # None
  /\ dialog.parent # None => dialog.parent.id \in DOMAIN assets

InventoryInv == InventoryTypeOK /\ SaveInv /\ DialogInv

-----------------------------------------------------------------------------
(* Parts of the records.                                                   *)

\* What a save holds, at a step.
Saving(step, doc, ahead, missing, pending) ==
  [step |-> step, doc |-> doc, todo |-> ahead, missing |-> missing, pending |-> pending]

\* The record of a save that sets some of its parts.
LEMMA SavingParts ==
  ASSUME NEW s \in SavingType
  PROVE  /\ s = Saving(s.step, s.doc, s.todo, s.missing, s.pending)
         /\ \A x : [s EXCEPT !.step = x] = Saving(x, s.doc, s.todo, s.missing, s.pending)
         /\ \A x : [s EXCEPT !.todo = x] = Saving(s.step, s.doc, x, s.missing, s.pending)
         /\ \A x : [s EXCEPT !.pending = x] = Saving(s.step, s.doc, s.todo, s.missing, x)
<1>1. s = Saving(s.step, s.doc, s.todo, s.missing, s.pending)
  BY DEF SavingType, Saving
<1>2. \A x : [s EXCEPT !.step = x] = Saving(x, s.doc, s.todo, s.missing, s.pending)
  BY DEF SavingType, Saving
<1>3. \A x : [s EXCEPT !.todo = x] = Saving(s.step, s.doc, x, s.missing, s.pending)
  BY DEF SavingType, Saving
<1>4. \A x : [s EXCEPT !.pending = x] = Saving(s.step, s.doc, s.todo, s.missing, x)
  BY DEF SavingType, Saving
<1> QED
  BY <1>1, <1>2, <1>3, <1>4

\* A new asset has the type of the assets' documents.
LEMMA AssetParts ==
  /\ \A e \in EntryDocs : Asset(e.name, e.silo, e.val) \in AssetDocs
                          /\ Asset(e.name, e.silo, e.val).name = e.name
                          /\ Asset(e.name, e.silo, e.val).val = e.val
  /\ \A a \in AssetDocs, e \in EntryDocs :
       WithData(a, e) \in AssetDocs /\ WithData(a, e).name = a.name /\ WithData(a, e).val = e.val
  /\ \A a \in AssetDocs : [name |-> a.name, silo |-> a.silo, val |-> a.val] \in
                          [name : Seq(Labels), silo : Silos \cup {None}, val : Values]
  BY DEF AssetDocs, EntryDocs, Asset, WithData, Values

\* The pairs of natural numbers of which the first is the smaller.
Smaller == {p \in Nat \X Nat : p[1] < p[2]}

\* A set of natural numbers that is not empty has a least element.
LEMMA LeastExists ==
  ASSUME NEW T, T \subseteq Nat, T # {}
  PROVE  \E x \in T : \A y \in T : x <= y
<1>1. OpToRel(<, Nat) = Smaller
  BY DEF OpToRel, Smaller
<1>2. IsWellFoundedOn(Smaller, Nat)
  BY <1>1, NatLessThanWellFounded
<1>3. PICK x \in T : \A y \in T : ~(<<y, x>> \in Smaller)
  BY <1>2, WFMin
<1>4. ASSUME NEW y \in T, ~(x <= y)
      PROVE  FALSE
  <2>1. x \in Nat /\ y \in Nat /\ y < x
    BY <1>4, SMT
  <2>2. <<y, x>> \in Smaller
    BY <2>1, SMT DEF Smaller
  <2> QED
    BY <1>3, <2>2
<1> QED
  BY <1>4

\* The first asset of a name.
LEMMA Finding ==
  ASSUME InventoryTypeOK, NEW n
  PROVE  /\ IsFree(n) <=> \A i \in DOMAIN assets : assets[i].name # n
         /\ ~IsFree(n) => Find(n) \in DOMAIN assets /\ assets[Find(n)].name = n
<1> DEFINE I == {i \in 1..Len(assets) : assets[i].name = n}
<1>1. assets \in Seq(AssetDocs) /\ DOMAIN assets = 1..Len(assets) /\ Len(assets) \in Nat
  BY DEF InventoryTypeOK
<1>2. Find(n) = IF I # {} THEN Min(I) ELSE 0
  BY DEF Find, SelectInSeq
<1>3. ASSUME I # {}
      PROVE  Min(I) \in I
  <2>1. I \subseteq Nat
    BY <1>1
  <2> HIDE DEF I
  <2>2. PICK x \in I : \A y \in I : x <= y
    BY <1>3, <2>1, LeastExists
  <2> QED
    BY <2>2 DEF Min
<1>4. I = {} <=> \A i \in DOMAIN assets : assets[i].name # n
  BY <1>1
<1>5. ~IsFree(n) <=> I # {}
  <2>1. \A i \in I : i \in DOMAIN assets /\ i # 0
    BY <1>1
  <2> HIDE DEF I
  <2> QED
    BY <1>2, <1>3, <2>1 DEF IsFree
<1>6. ASSUME I # {}
      PROVE  Find(n) \in DOMAIN assets /\ assets[Find(n)].name = n
  BY <1>1, <1>2, <1>3, <1>6
<1> QED
  BY <1>4, <1>5, <1>6

-----------------------------------------------------------------------------
(* The inductive invariant.                                                *)

\* The commands that write the files keep it.
LEMMA FilesStep ==
  ASSUME InventoryInv, NEW u \in Users, InitFiles(u) \/ Load(u) \/ Edit(u)
  PROVE  InventoryInv'
<1> USE DEF InventoryInv
<1>1. /\ saving[u] = NotSaving /\ UNCHANGED <<project, assets, saving, alone, dialog, raced>>
      /\ acts' = acts + 1
  BY DEF InitFiles, Load, Edit, Act, db
<1>2. Entries \in SUBSET EntryDocs \/ ~Load(u)
  <2>1. CASE Load(u)
    <3>1. \A a \in ToSet(assets) : a \in AssetDocs /\ a.silo \in Silos
      <4>1. \A a \in ToSet(assets) : a \in AssetDocs
        BY DEF InventoryTypeOK, ToSet
      <4>2. \A a \in ToSet(assets) : a.silo # None
        BY <2>1 DEF Load
      <4>3. \A a \in AssetDocs : a.silo \in Silos \cup {None}
        BY DEF AssetDocs
      <4> QED
        BY <4>1, <4>2, <4>3
    <3> QED
      BY <3>1 DEF Entries, EntryDocs, AssetDocs
  <2> QED
    BY <2>1
<1>3. \E c \in ConfigFiles \cup {None}, i \in InventoryFiles \cup {None} :
        files' = [files EXCEPT ![u] = [config |-> c, inventory |-> i]]
  <2>1. files[u] \in FilesType
    BY DEF InventoryTypeOK
  <2>2. CASE InitFiles(u)
    <3>1. [schema |-> "1.1", list |-> TRUE, val |-> 0] \in ConfigFiles
      BY DEF ConfigFiles, Values
    <3>2. files[u].inventory \in InventoryFiles \cup {None}
      BY <2>1 DEF FilesType
    <3> QED
      BY <2>2, <3>1, <3>2 DEF InitFiles, WriteFiles, InventoryTypeOK, FilesType
  <2>3. CASE Load(u)
    <3> DEFINE conf == [schema |-> project.schema, list |-> project.doc = "2.0", val |-> project.val]
               inv == [entries |-> Entries, meta |-> IF assets = <<>> THEN None ELSE project.meta,
                       list |-> assets # <<>> /\ project.list]
    <3>1. project \in Projects
      BY <2>3 DEF Load, InventoryTypeOK
    <3>2. conf \in ConfigFiles
      BY <3>1 DEF ConfigFiles, Projects
    <3>3. inv \in InventoryFiles
      BY <1>2, <2>3, <3>1 DEF InventoryFiles, Projects
    <3>4. files[u].inventory \in InventoryFiles \cup {None}
      BY <2>1 DEF FilesType
    <3>5. files' = [files EXCEPT ![u] = [config |-> conf, inventory |-> IF Valid(conf) THEN inv ELSE files[u].inventory]]
      BY <2>3 DEF Load, WriteFiles, InventoryTypeOK
    <3> HIDE DEF conf, inv
    <3> QED
      BY <3>2, <3>3, <3>4, <3>5
  <2>4. CASE Edit(u)
    <3> DEFINE inv == IF files[u].inventory = None THEN [entries |-> {}, meta |-> 1, list |-> FALSE]
                      ELSE files[u].inventory
    <3>1. inv \in InventoryFiles
      BY <2>1 DEF FilesType, InventoryFiles, Values
    <3>2. \A S \in SUBSET EntryDocs : [inv EXCEPT !.entries = S] \in InventoryFiles
      BY <3>1 DEF InventoryFiles
    <3>3. inv.entries \in SUBSET EntryDocs
      BY <3>1 DEF InventoryFiles
    <3>4. \A n \in Names, s \in Silos : [name |-> n, silo |-> s, val |-> 1] \in EntryDocs
      BY NamesAssumption DEF EntryDocs, Values
    <3>5. \/ \E i \in InventoryFiles : files' = [files EXCEPT ![u].inventory = i]
          \/ files' = [files EXCEPT ![u].config = [schema |-> "1.0", list |-> TRUE, val |-> 1]]
      <4>1. \/ \E n \in Names, s \in Silos : files' = [files EXCEPT ![u].inventory =
                  [inv EXCEPT !.entries = @ \cup {[name |-> n, silo |-> s, val |-> 1]}]]
            \/ \E e \in inv.entries : files' = [files EXCEPT ![u].inventory = [inv EXCEPT !.entries = @ \ {e}]]
            \/ files' = [files EXCEPT ![u].config = [schema |-> "1.0", list |-> TRUE, val |-> 1]]
        BY <2>4 DEF Edit
      <4>2. \A n \in Names, s \in Silos :
              [inv EXCEPT !.entries = @ \cup {[name |-> n, silo |-> s, val |-> 1]}] \in InventoryFiles
        BY <3>2, <3>3, <3>4
      <4>3. \A e \in inv.entries : [inv EXCEPT !.entries = @ \ {e}] \in InventoryFiles
        BY <3>2, <3>3
      <4> HIDE DEF inv
      <4> QED
        BY <4>1, <4>2, <4>3
    <3>6. files[u].inventory \in InventoryFiles \cup {None} /\ files[u].config \in ConfigFiles \cup {None}
      BY <2>1 DEF FilesType
    <3>7. [schema |-> "1.0", list |-> TRUE, val |-> 1] \in ConfigFiles
      BY DEF ConfigFiles, Values
    <3>8. \A x : /\ [files[u] EXCEPT !.inventory = x] = [config |-> files[u].config, inventory |-> x]
                 /\ [files[u] EXCEPT !.config = x] = [config |-> x, inventory |-> files[u].inventory]
      BY <2>1 DEF FilesType
    <3>9. CASE \E i \in InventoryFiles : files' = [files EXCEPT ![u].inventory = i]
      <4>1. PICK i \in InventoryFiles : files' = [files EXCEPT ![u] = [files[u] EXCEPT !.inventory = i]]
        BY <3>9
      <4>2. PICK x : x = [files[u] EXCEPT !.inventory = i]
        OBVIOUS
      <4>3. x.inventory \in InventoryFiles \cup {None} /\ x.config \in ConfigFiles \cup {None}
            /\ x = [config |-> x.config, inventory |-> x.inventory]
        BY <3>6, <3>8, <4>1, <4>2
      <4>4. files' = [files EXCEPT ![u] = x]
        BY <4>1, <4>2
      <4> QED
        BY <4>3, <4>4
    <3>10. CASE \E c \in ConfigFiles : files' = [files EXCEPT ![u].config = c]
      <4>1. PICK c \in ConfigFiles : files' = [files EXCEPT ![u] = [files[u] EXCEPT !.config = c]]
        BY <3>10
      <4>2. PICK x : x = [files[u] EXCEPT !.config = c]
        OBVIOUS
      <4>3. x.inventory \in InventoryFiles \cup {None} /\ x.config \in ConfigFiles \cup {None}
            /\ x = [config |-> x.config, inventory |-> x.inventory]
        BY <3>6, <3>8, <4>1, <4>2
      <4>4. files' = [files EXCEPT ![u] = x]
        BY <4>1, <4>2
      <4> QED
        BY <4>3, <4>4
    <3> HIDE DEF inv
    <3> QED
      BY <3>5, <3>7, <3>9, <3>10
  <2> QED
    BY <2>2, <2>3, <2>4
<1>4. \E o \in {"none", "raised", "saved"}, l \in Seq(AssetDocs) \cup {None} :
        outcome' = [outcome EXCEPT ![u] = o] /\ loaded' = [loaded EXCEPT ![u] = l]
  <2>1. assets \in Seq(AssetDocs)
    BY DEF InventoryTypeOK
  <2> QED
    BY <2>1 DEF InitFiles, Load, Edit, WriteFiles
<1>5. InventoryTypeOK'
  BY <1>1, <1>3, <1>4 DEF InventoryTypeOK, FilesType
<1>6. SaveInv'
  <2>1. \A w \in Users \ {u} : files'[w] = files[w] /\ outcome'[w] = outcome[w]
    BY <1>3, <1>4 DEF InventoryTypeOK
  <2> QED
    BY <1>1, <2>1 DEF SaveInv, SaveHolds, NotSaving
<1> QED
  BY <1>1, <1>5, <1>6 DEF DialogInv

\* A step of a save, which may write the project and the assets.
SaveMove(u, x, how) ==
  /\ saving' = [saving EXCEPT ![u] = x] /\ outcome' = [outcome EXCEPT ![u] = how]
  /\ UNCHANGED <<files, dialog>>
  /\ project' \in Projects \cup {None} /\ (project # None => project' # None)
  /\ assets' \in Seq(AssetDocs) /\ Len(assets) <= Len(assets')
  /\ \/ UNCHANGED <<loaded, alone>>
     \/ Wrote(u)
     \/ loaded' = loaded /\ alone' = [alone EXCEPT ![u] = TRUE]
  /\ raced' \in BOOLEAN /\ acts' \in Nat

\* It keeps the invariant when what it makes of the save does.
LEMMA SaveMoves ==
  ASSUME InventoryInv, NEW u \in Users, NEW x \in SavingType, NEW how \in {"none", "raised", "saved"},
         SaveMove(u, x, how), SaveHolds(x, files[u], how, project')
  PROVE  InventoryInv'
<1> USE DEF InventoryInv, SaveMove
<1>1. loaded' \in [Users -> Seq(AssetDocs) \cup {None}] /\ alone' \in [Users -> BOOLEAN]
  BY DEF InventoryTypeOK, Wrote
<1>2. InventoryTypeOK'
  BY <1>1 DEF InventoryTypeOK
<1>3. SaveInv'
  <2>1. SaveHolds(saving'[u], files'[u], outcome'[u], project')
    BY DEF InventoryTypeOK
  <2>2. ASSUME NEW w \in Users \ {u}
        PROVE  SaveHolds(saving'[w], files'[w], outcome'[w], project')
    <3>1. saving'[w] = saving[w] /\ files'[w] = files[w] /\ outcome'[w] = outcome[w]
      BY DEF InventoryTypeOK
    <3> QED
      BY <3>1 DEF SaveInv, SaveHolds
  <2> QED
    BY <2>1, <2>2 DEF SaveInv
<1>4. DialogInv'
  <2>1. DOMAIN assets = 1..Len(assets) /\ DOMAIN assets' = 1..Len(assets')
        /\ Len(assets) \in Nat /\ Len(assets') \in Nat
    BY DEF InventoryTypeOK
  <2> QED
    BY <2>1 DEF DialogInv
<1> QED
  BY <1>2, <1>3, <1>4

\* The steps of a save keep it.
LEMMA SaveSteps ==
  ASSUME InventoryInv, NEW u \in Users,
         \/ SaveBegins(u) \/ FindProject(u) \/ ReplaceProject(u) \/ SaveAsset(u) \/ SaveList(u) \/ AssetsSaved(u)
         \/ CreateChecks(u) \/ CreateInserts(u) \/ FindConfig(u) \/ ReplaceConfig(u)
  PROVE  InventoryInv'
<1> USE DEF InventoryInv
<1> DEFINE s == saving[u]
<1>1. /\ s \in SavingType /\ s = Saving(s.step, s.doc, s.todo, s.missing, s.pending)
      /\ SaveHolds(s, files[u], outcome[u], project)
      /\ outcome[u] \in {"none", "raised", "saved"} /\ outcome = [outcome EXCEPT ![u] = outcome[u]]
      /\ saving = [saving EXCEPT ![u] = s]
  BY DEF InventoryTypeOK, SaveInv, SavingType, Saving
<1>2. /\ project \in Projects \cup {None} /\ assets \in Seq(AssetDocs) /\ Len(assets) \in Nat
      /\ Len(assets) <= Len(assets) /\ raced \in BOOLEAN /\ acts \in Nat /\ acts + 1 \in Nat
  BY DEF InventoryTypeOK
<1>3. /\ s.step \in SavingSteps /\ s.doc \in Projects \cup {None} /\ s.todo \in SUBSET EntryDocs
      /\ s.missing \in SUBSET EntryDocs /\ s.pending \in EntryDocs \cup {None}
  BY <1>1 DEF SavingType
<1>4. /\ \A x, y : [saving EXCEPT ![u].step = x, ![u].doc = y] =
                   [saving EXCEPT ![u] = Saving(x, y, s.todo, s.missing, s.pending)]
      /\ \A x, y : [saving EXCEPT ![u].step = x, ![u].todo = y] =
                   [saving EXCEPT ![u] = Saving(x, s.doc, y, s.missing, s.pending)]
      /\ \A x, y : [saving EXCEPT ![u].pending = x, ![u].missing = y] =
                   [saving EXCEPT ![u] = Saving(s.step, s.doc, s.todo, y, x)]
      /\ \A x, y : [saving EXCEPT ![u].todo = x, ![u].missing = y] =
                   [saving EXCEPT ![u] = Saving(s.step, s.doc, x, y, s.pending)]
      /\ \A x : [saving EXCEPT ![u].step = x] =
                   [saving EXCEPT ![u] = Saving(x, s.doc, s.todo, s.missing, s.pending)]
      /\ \A x : [saving EXCEPT ![u].todo = x] =
                   [saving EXCEPT ![u] = Saving(s.step, s.doc, x, s.missing, s.pending)]
      /\ \A x : [saving EXCEPT ![u].pending = x] =
                   [saving EXCEPT ![u] = Saving(s.step, s.doc, s.todo, s.missing, x)]
  <2>1. ASSUME NEW x, NEW y
        PROVE  [saving EXCEPT ![u].step = x, ![u].doc = y] =
               [saving EXCEPT ![u] = Saving(x, y, s.todo, s.missing, s.pending)]
    <3>1. [saving EXCEPT ![u].step = x, ![u].doc = y] = [saving EXCEPT ![u] = [s EXCEPT !.step = x, !.doc = y]]
      BY DEF InventoryTypeOK
    <3> HIDE DEF s
    <3>2. [s EXCEPT !.step = x, !.doc = y] = [[s EXCEPT !.step = x] EXCEPT !.doc = y]
      OBVIOUS
    <3>3. [s EXCEPT !.step = x] = Saving(x, s.doc, s.todo, s.missing, s.pending)
      BY <1>1, SavingParts
    <3>4. [Saving(x, s.doc, s.todo, s.missing, s.pending) EXCEPT !.doc = y] = Saving(x, y, s.todo, s.missing, s.pending)
      BY DEF Saving
    <3> QED
      BY <3>1, <3>2, <3>3, <3>4
  <2>2. ASSUME NEW x, NEW y
        PROVE  [saving EXCEPT ![u].step = x, ![u].todo = y] =
               [saving EXCEPT ![u] = Saving(x, s.doc, y, s.missing, s.pending)]
    <3>1. [saving EXCEPT ![u].step = x, ![u].todo = y] = [saving EXCEPT ![u] = [s EXCEPT !.step = x, !.todo = y]]
      BY DEF InventoryTypeOK
    <3> HIDE DEF s
    <3>2. [s EXCEPT !.step = x, !.todo = y] = [[s EXCEPT !.step = x] EXCEPT !.todo = y]
      OBVIOUS
    <3>3. [s EXCEPT !.step = x] = Saving(x, s.doc, s.todo, s.missing, s.pending)
      BY <1>1, SavingParts
    <3>4. [Saving(x, s.doc, s.todo, s.missing, s.pending) EXCEPT !.todo = y] = Saving(x, s.doc, y, s.missing, s.pending)
      BY DEF Saving
    <3> QED
      BY <3>1, <3>2, <3>3, <3>4
  <2>3. ASSUME NEW x, NEW y
        PROVE  [saving EXCEPT ![u].pending = x, ![u].missing = y] =
               [saving EXCEPT ![u] = Saving(s.step, s.doc, s.todo, y, x)]
    <3>1. [saving EXCEPT ![u].pending = x, ![u].missing = y] = [saving EXCEPT ![u] = [s EXCEPT !.pending = x, !.missing = y]]
      BY DEF InventoryTypeOK
    <3> HIDE DEF s
    <3>2. [s EXCEPT !.pending = x, !.missing = y] = [[s EXCEPT !.pending = x] EXCEPT !.missing = y]
      OBVIOUS
    <3>3. [s EXCEPT !.pending = x] = Saving(s.step, s.doc, s.todo, s.missing, x)
      BY <1>1, SavingParts
    <3>4. [Saving(s.step, s.doc, s.todo, s.missing, x) EXCEPT !.missing = y] = Saving(s.step, s.doc, s.todo, y, x)
      BY DEF Saving
    <3> QED
      BY <3>1, <3>2, <3>3, <3>4
  <2>4. ASSUME NEW x, NEW y
        PROVE  [saving EXCEPT ![u].todo = x, ![u].missing = y] =
               [saving EXCEPT ![u] = Saving(s.step, s.doc, x, y, s.pending)]
    <3>1. [saving EXCEPT ![u].todo = x, ![u].missing = y] = [saving EXCEPT ![u] = [s EXCEPT !.todo = x, !.missing = y]]
      BY DEF InventoryTypeOK
    <3> HIDE DEF s
    <3>2. [s EXCEPT !.todo = x, !.missing = y] = [[s EXCEPT !.todo = x] EXCEPT !.missing = y]
      OBVIOUS
    <3>3. [s EXCEPT !.todo = x] = Saving(s.step, s.doc, x, s.missing, s.pending)
      BY <1>1, SavingParts
    <3>4. [Saving(s.step, s.doc, x, s.missing, s.pending) EXCEPT !.missing = y] = Saving(s.step, s.doc, x, y, s.pending)
      BY DEF Saving
    <3> QED
      BY <3>1, <3>2, <3>3, <3>4
  <2>5. ASSUME NEW x
        PROVE  [saving EXCEPT ![u].step = x] =
               [saving EXCEPT ![u] = Saving(x, s.doc, s.todo, s.missing, s.pending)]
    <3>1. [saving EXCEPT ![u].step = x] = [saving EXCEPT ![u] = [s EXCEPT !.step = x]]
      BY DEF InventoryTypeOK
    <3> HIDE DEF s
    <3>2. [s EXCEPT !.step = x] = Saving(x, s.doc, s.todo, s.missing, s.pending)
      BY <1>1, SavingParts
    <3> QED
      BY <3>1, <3>2
  <2>6. ASSUME NEW x
        PROVE  [saving EXCEPT ![u].todo = x] =
               [saving EXCEPT ![u] = Saving(s.step, s.doc, x, s.missing, s.pending)]
    <3>1. [saving EXCEPT ![u].todo = x] = [saving EXCEPT ![u] = [s EXCEPT !.todo = x]]
      BY DEF InventoryTypeOK
    <3> HIDE DEF s
    <3>2. [s EXCEPT !.todo = x] = Saving(s.step, s.doc, x, s.missing, s.pending)
      BY <1>1, SavingParts
    <3> QED
      BY <3>1, <3>2
  <2>7. ASSUME NEW x
        PROVE  [saving EXCEPT ![u].pending = x] =
               [saving EXCEPT ![u] = Saving(s.step, s.doc, s.todo, s.missing, x)]
    <3>1. [saving EXCEPT ![u].pending = x] = [saving EXCEPT ![u] = [s EXCEPT !.pending = x]]
      BY DEF InventoryTypeOK
    <3> HIDE DEF s
    <3>2. [s EXCEPT !.pending = x] = Saving(s.step, s.doc, s.todo, s.missing, x)
      BY <1>1, SavingParts
    <3> QED
      BY <3>1, <3>2
  <2> QED
    BY <2>1, <2>2, <2>3, <2>4, <2>5, <2>6, <2>7
<1>5. ASSUME NEW step \in SavingSteps, NEW doc \in Projects \cup {None}, NEW ahead \in SUBSET EntryDocs,
             NEW missing \in SUBSET EntryDocs, NEW pending \in EntryDocs \cup {None},
             NEW how \in {"none", "raised", "saved"}, SaveMove(u, Saving(step, doc, ahead, missing, pending), how),
             SaveHolds(Saving(step, doc, ahead, missing, pending), files[u], how, project')
      PROVE  InventoryInv'
  <2>1. Saving(step, doc, ahead, missing, pending) \in SavingType
    BY DEF Saving, SavingType
  <2> QED
    BY <1>5, <2>1, SaveMoves
<1>6. NotSaving = Saving("none", None, {}, {}, None) /\ "none" \in SavingSteps
  BY DEF NotSaving, Saving, SavingSteps
<1> HIDE DEF s
<1>7. ASSUME NEW how \in {"none", "raised", "saved"}, SaveMove(u, NotSaving, how)
      PROVE  InventoryInv'
  <2>1. SaveHolds(NotSaving, files[u], how, project')
    BY DEF SaveHolds, NotSaving
  <2> QED
    BY <1>5, <1>6, <1>7, <2>1
<1>8. CASE SaveBegins(u)
  <2>1. s = NotSaving
    BY <1>8 DEF SaveBegins, s
  <2>2. s.doc = None /\ s.todo = {} /\ s.missing = {} /\ s.pending = None
    BY <2>1 DEF NotSaving
  <2>3. saving' = [saving EXCEPT ![u] = Saving("find", None, {}, {}, None)]
    BY <1>4, <1>8, <2>2 DEF SaveBegins, Go
  <2>4. SaveMove(u, Saving("find", None, {}, {}, None), "none")
    BY <1>2, <1>8, <2>3 DEF SaveBegins, SaveMove, Act, db
  <2>5. SaveHolds(Saving("find", None, {}, {}, None), files[u], "none", project')
    BY <1>8 DEF SaveBegins, SaveHolds, Saving
  <2> QED
    BY <1>3, <1>5, <2>2, <2>4, <2>5 DEF SavingSteps
<1>9. ASSUME s.step # "none", UNCHANGED <<db, files, dialog, loaded, alone, raced, acts>>
      PROVE  /\ saving' = [saving EXCEPT ![u] = NotSaving] /\ outcome' = [outcome EXCEPT ![u] = "raised"] =>
                  InventoryInv'
             /\ \A step \in SavingSteps, doc \in Projects \cup {None}, ahead \in SUBSET EntryDocs,
                   missing \in SUBSET EntryDocs, pending \in EntryDocs \cup {None} :
                  saving' = [saving EXCEPT ![u] = Saving(step, doc, ahead, missing, pending)] /\ outcome' = outcome
                  /\ SaveHolds(Saving(step, doc, ahead, missing, pending), files[u], outcome[u], project) => InventoryInv'
  <2>1. ASSUME saving' = [saving EXCEPT ![u] = NotSaving] /\ outcome' = [outcome EXCEPT ![u] = "raised"]
        PROVE  InventoryInv'
    <3>1. SaveMove(u, NotSaving, "raised")
      BY <1>2, <1>9, <2>1 DEF SaveMove, db
    <3> QED
      BY <1>7, <3>1
  <2>2. ASSUME NEW step \in SavingSteps, NEW doc \in Projects \cup {None}, NEW ahead \in SUBSET EntryDocs,
               NEW missing \in SUBSET EntryDocs, NEW pending \in EntryDocs \cup {None},
               saving' = [saving EXCEPT ![u] = Saving(step, doc, ahead, missing, pending)], outcome' = outcome,
               SaveHolds(Saving(step, doc, ahead, missing, pending), files[u], outcome[u], project)
        PROVE  InventoryInv'
    <3>1. SaveMove(u, Saving(step, doc, ahead, missing, pending), outcome[u])
      BY <1>1, <1>2, <1>9, <2>2 DEF SaveMove, db
    <3>2. project' = project
      BY <1>9 DEF db
    <3> QED
      BY <1>1, <1>5, <2>2, <3>1, <3>2
  <2> QED
    BY <2>1, <2>2
<1>10. CASE FindProject(u)
  <2>1. s.step = "find" /\ UNCHANGED <<db, files, dialog, loaded, alone, raced, acts>>
    BY <1>10 DEF FindProject, Mine, s
  <2>2. CASE project = None
    BY <1>9, <1>10, <2>1, <2>2 DEF FindProject, Ends
  <2>3. CASE project # None
    <3>1. saving' = [saving EXCEPT ![u] = Saving("metadata", project, s.todo, s.missing, s.pending)] /\ outcome' = outcome
      BY <1>4, <1>10, <2>3 DEF FindProject
    <3>2. SaveHolds(Saving("metadata", project, s.todo, s.missing, s.pending), files[u], outcome[u], project)
      BY <1>1, <2>1, <2>3 DEF SaveHolds, Saving
    <3>3. "metadata" \in SavingSteps
      BY DEF SavingSteps
    <3> QED
      BY <1>2, <1>3, <1>9, <2>1, <3>1, <3>2, <3>3
  <2> QED
    BY <2>2, <2>3
<1>11. s.step # "none" => files[u].inventory \in InventoryFiles /\ files[u].config \in ConfigFiles /\ outcome[u] = "none"
  <2>1. files[u].inventory \in InventoryFiles \cup {None} /\ files[u].config \in ConfigFiles \cup {None}
    BY DEF InventoryTypeOK, FilesType
  <2> QED
    BY <1>1, <2>1 DEF SaveHolds
<1>12. CASE ReplaceProject(u)
  <2> DEFINE inv == files[u].inventory
             new == [s.doc EXCEPT !.meta = IF inv.meta = None THEN @ ELSE inv.meta]
  <2>1. s.step = "metadata" /\ UNCHANGED <<files, dialog, acts, assets, outcome, raced>> /\ Wrote(u)
    BY <1>12 DEF ReplaceProject, Mine, s
  <2>2. s.doc \in Projects /\ s.missing = {} /\ s.pending = None
    BY <1>1, <1>3, <2>1 DEF SaveHolds
  <2>3. inv \in InventoryFiles
    BY <1>11, <2>1
  <2>4. inv.entries \in SUBSET EntryDocs /\ inv.meta \in Values \cup {None}
    BY <2>3 DEF InventoryFiles
  <2>5. new \in Projects
    BY <2>2, <2>4 DEF Projects
  <2>6. new # None
    BY <2>5, NoneAssumption
  <2> HIDE DEF inv, new
  <2>7. saving' = [saving EXCEPT ![u] = Saving("assets", s.doc, inv.entries, {}, None)]
    <3>1. saving' = [saving EXCEPT ![u].step = "assets", ![u].todo = inv.entries]
      BY <1>12 DEF ReplaceProject, inv
    <3> DEFINE E == inv.entries
    <3> HIDE DEF E
    <3>2. [saving EXCEPT ![u].step = "assets", ![u].todo = E] = [saving EXCEPT ![u] = Saving("assets", s.doc, E, s.missing, s.pending)]
      BY <1>4
    <3> QED
      BY <2>2, <3>1, <3>2 DEF E
  <2>8. project' = new
    BY <1>12 DEF ReplaceProject, new, inv, s
  <2>9. SaveMove(u, Saving("assets", s.doc, inv.entries, {}, None), outcome[u])
    BY <1>1, <1>2, <2>1, <2>5, <2>6, <2>7, <2>8 DEF SaveMove
  <2>10. SaveHolds(Saving("assets", s.doc, inv.entries, {}, None), files[u], outcome[u], project')
    BY <1>1, <2>1, <2>6, <2>8 DEF SaveHolds, Saving
  <2>11. "assets" \in SavingSteps /\ {} \in SUBSET EntryDocs
    BY DEF SavingSteps
  <2> QED
    BY <1>1, <1>3, <1>5, <2>4, <2>9, <2>10, <2>11
<1>13. CASE SaveAsset(u)
  <2>1. s.step = "assets" /\ UNCHANGED <<files, dialog, acts, project, outcome, raced>>
    BY <1>13 DEF SaveAsset, Mine, s
  <2>2. PICK e \in s.todo :
          IF IsFree(e.name)
          THEN /\ saving' = [saving EXCEPT ![u].todo = @ \ {e}, ![u].missing = @ \cup {e}]
               /\ UNCHANGED <<assets, loaded, alone>>
          ELSE /\ saving' = [saving EXCEPT ![u].todo = @ \ {e}]
               /\ assets' = [assets EXCEPT ![Find(e.name)] = WithData(@, e)] /\ Wrote(u)
    BY <1>13 DEF SaveAsset, s
  <2>3. e \in EntryDocs /\ s.todo \ {e} \in SUBSET EntryDocs /\ s.missing \cup {e} \in SUBSET EntryDocs
    BY <1>3, <2>2
  <2>4. "assets" \in SavingSteps
    BY DEF SavingSteps
  <2>5. CASE IsFree(e.name)
    <3>1. saving' = [saving EXCEPT ![u].todo = s.todo \ {e}, ![u].missing = s.missing \cup {e}]
      BY <2>2, <2>5 DEF s
    <3>2. saving' = [saving EXCEPT ![u] = Saving("assets", s.doc, s.todo \ {e}, s.missing \cup {e}, s.pending)]
      <4> DEFINE T == s.todo \ {e}
                 M == s.missing \cup {e}
      <4> HIDE DEF T, M
      <4>1. [saving EXCEPT ![u].todo = T, ![u].missing = M] = [saving EXCEPT ![u] = Saving(s.step, s.doc, T, M, s.pending)]
        BY <1>4
      <4> QED
        BY <2>1, <3>1, <4>1 DEF T, M
    <3>3. SaveHolds(Saving("assets", s.doc, s.todo \ {e}, s.missing \cup {e}, s.pending), files[u], outcome[u], project)
      BY <1>1, <2>1 DEF SaveHolds, Saving
    <3>4. UNCHANGED <<db, files, dialog, loaded, alone, raced, acts>>
      BY <2>1, <2>2, <2>5 DEF db
    <3> QED
      BY <1>3, <1>9, <2>1, <2>3, <2>4, <3>2, <3>3, <3>4
  <2>6. CASE ~IsFree(e.name)
    <3>1. saving' = [saving EXCEPT ![u].todo = s.todo \ {e}]
      BY <2>2, <2>6 DEF s
    <3>2. saving' = [saving EXCEPT ![u] = Saving("assets", s.doc, s.todo \ {e}, s.missing, s.pending)]
      BY <1>4, <2>1, <3>1
    <3>3. SaveHolds(Saving("assets", s.doc, s.todo \ {e}, s.missing, s.pending), files[u], outcome[u], project')
      BY <1>1, <2>1 DEF SaveHolds, Saving
    <3>4. Find(e.name) \in DOMAIN assets
      BY <2>6, Finding
    <3>5. assets' \in Seq(AssetDocs) /\ Len(assets') = Len(assets)
      <4>1. assets[Find(e.name)] \in AssetDocs
        BY <1>2, <3>4
      <4>2. WithData(assets[Find(e.name)], e) \in AssetDocs
        BY <2>3, <4>1, AssetParts
      <4>3. assets' = [assets EXCEPT ![Find(e.name)] = WithData(assets[Find(e.name)], e)]
        BY <2>2, <2>6
      <4> QED
        BY <1>2, <3>4, <4>2, <4>3
    <3>6. SaveMove(u, Saving("assets", s.doc, s.todo \ {e}, s.missing, s.pending), outcome[u])
      BY <1>1, <1>2, <2>1, <2>2, <2>6, <3>2, <3>5 DEF SaveMove
    <3> QED
      BY <1>1, <1>3, <1>5, <2>3, <2>4, <3>3, <3>6
  <2> QED
    BY <2>5, <2>6
<1>14. CASE SaveList(u)
  <2>1. s.step = "assets" /\ UNCHANGED <<db, files, dialog, loaded, alone, raced, acts>>
    BY <1>14 DEF SaveList, Mine, s
  <2> QED
    BY <1>9, <1>14, <2>1 DEF SaveList, Ends
<1>15. CASE AssetsSaved(u)
  <2>1. s.step = "assets" /\ s.todo = {} /\ UNCHANGED <<db, files, dialog, loaded, alone, raced, acts>>
    BY <1>15 DEF AssetsSaved, Mine, s
  <2>2. saving' = [saving EXCEPT ![u] = Saving("create", s.doc, s.todo, s.missing, s.pending)] /\ outcome' = outcome
    BY <1>4, <1>15 DEF AssetsSaved, Go
  <2>3. SaveHolds(Saving("create", s.doc, s.todo, s.missing, s.pending), files[u], outcome[u], project)
    BY <1>1, <2>1 DEF SaveHolds, Saving
  <2>4. "create" \in SavingSteps
    BY DEF SavingSteps
  <2> QED
    BY <1>3, <1>9, <2>1, <2>2, <2>3, <2>4
<1>16. CASE CreateChecks(u)
  <2>1. s.step = "create" /\ s.pending = None /\ UNCHANGED <<db, files, dialog, loaded, alone, raced, acts>>
    BY <1>16 DEF CreateChecks, Mine, s
  <2>2. PICK e \in s.missing :
          IF IsFree(e.name)
          THEN saving' = [saving EXCEPT ![u].pending = e, ![u].missing = @ \ {e}] /\ UNCHANGED outcome
          ELSE Ends(u, "raised")
    BY <1>16 DEF CreateChecks, s
  <2>3. CASE IsFree(e.name)
    <3>1. saving' = [saving EXCEPT ![u].pending = e, ![u].missing = s.missing \ {e}]
      BY <2>2, <2>3 DEF s
    <3>2. saving' = [saving EXCEPT ![u] = Saving("create", s.doc, s.todo, s.missing \ {e}, e)] /\ outcome' = outcome
      <4> DEFINE M == s.missing \ {e}
      <4> HIDE DEF M
      <4>1. [saving EXCEPT ![u].pending = e, ![u].missing = M] = [saving EXCEPT ![u] = Saving(s.step, s.doc, s.todo, M, e)]
        BY <1>4
      <4> QED
        BY <2>1, <2>2, <2>3, <3>1, <4>1 DEF M
    <3>3. SaveHolds(Saving("create", s.doc, s.todo, s.missing \ {e}, e), files[u], outcome[u], project)
      BY <1>1, <2>1 DEF SaveHolds, Saving
    <3>4. "create" \in SavingSteps /\ s.missing \ {e} \in SUBSET EntryDocs /\ e \in EntryDocs \cup {None}
      BY <1>3, <2>2 DEF SavingSteps
    <3> QED
      BY <1>3, <1>9, <2>1, <3>2, <3>3, <3>4
  <2>4. CASE ~IsFree(e.name)
    BY <1>9, <2>1, <2>2, <2>4 DEF Ends
  <2> QED
    BY <2>3, <2>4
<1>17. CASE CreateInserts(u)
  <2> DEFINE e == s.pending
  <2>1. /\ s.step = "create" /\ e # None /\ UNCHANGED <<files, dialog, acts, project, outcome>> /\ Wrote(u)
        /\ assets' = Append(assets, Asset(e.name, e.silo, e.val)) /\ raced' \in BOOLEAN
        /\ saving' = [saving EXCEPT ![u].pending = None]
    BY <1>17 DEF CreateInserts, Mine, s
  <2>2. e \in EntryDocs
    BY <1>3, <2>1
  <2> HIDE DEF e
  <2>3. Asset(e.name, e.silo, e.val) \in AssetDocs
    BY <2>2, AssetParts
  <2>4. assets' \in Seq(AssetDocs) /\ Len(assets) <= Len(assets')
    BY <1>2, <2>1, <2>3
  <2>5. saving' = [saving EXCEPT ![u] = Saving("create", s.doc, s.todo, s.missing, None)]
    BY <1>4, <2>1
  <2>6. SaveHolds(Saving("create", s.doc, s.todo, s.missing, None), files[u], outcome[u], project')
    BY <1>1, <2>1 DEF SaveHolds, Saving
  <2>7. SaveMove(u, Saving("create", s.doc, s.todo, s.missing, None), outcome[u])
    BY <1>1, <1>2, <2>1, <2>4, <2>5 DEF SaveMove
  <2>8. "create" \in SavingSteps
    BY DEF SavingSteps
  <2> QED
    BY <1>1, <1>3, <1>5, <2>6, <2>7, <2>8
<1>18. CASE FindConfig(u)
  <2>1. /\ s.step = "create" /\ s.pending = None /\ s.missing = {}
        /\ UNCHANGED <<db, files, dialog, loaded, alone, raced, acts>>
    BY <1>18 DEF FindConfig, Mine, s
  <2>2. \/ saving' = [saving EXCEPT ![u].step = "config", ![u].doc = project] /\ outcome' = outcome
        \/ Ends(u, "raised")
    BY <1>18 DEF FindConfig
  <2>3. CASE Ends(u, "raised")
    BY <1>9, <2>1, <2>3 DEF Ends
  <2>4. CASE saving' = [saving EXCEPT ![u].step = "config", ![u].doc = project] /\ outcome' = outcome
    <3>1. saving' = [saving EXCEPT ![u] = Saving("config", project, s.todo, s.missing, s.pending)] /\ outcome' = outcome
      BY <1>4, <2>4
    <3>2. SaveHolds(Saving("config", project, s.todo, s.missing, s.pending), files[u], outcome[u], project)
      BY <1>1, <2>1 DEF SaveHolds, Saving
    <3>3. "config" \in SavingSteps
      BY DEF SavingSteps
    <3> QED
      BY <1>2, <1>3, <1>9, <2>1, <3>1, <3>2, <3>3
  <2> QED
    BY <2>2, <2>3, <2>4
<1>19. CASE ReplaceConfig(u)
  <2>1. s.step = "config" /\ UNCHANGED <<files, dialog, acts, assets, raced>>
    BY <1>19 DEF ReplaceConfig, Mine, s
  <2>2. CASE s.doc.doc = "2.1"
    <3>1. Ends(u, "raised") /\ UNCHANGED <<project, loaded, alone>>
      BY <1>19, <2>2 DEF ReplaceConfig, s
    <3> QED
      BY <1>9, <2>1, <3>1 DEF Ends, db
  <2>3. CASE s.doc.doc # "2.1"
    <3> DEFINE new == [s.doc EXCEPT !.val = files[u].config.val]
    <3>1. project' = new /\ Ends(u, "saved") /\ Wrote(u)
      BY <1>19, <2>3 DEF ReplaceConfig, s
    <3>2. s.doc \in Projects
      BY <1>1, <1>3, <2>1 DEF SaveHolds
    <3>3. files[u].config.val \in Values
      BY <1>11, <2>1 DEF ConfigFiles
    <3>4. new \in Projects
      BY <3>2, <3>3 DEF Projects
    <3>5. new # None
      BY <3>4, NoneAssumption
    <3> HIDE DEF new
    <3>6. SaveMove(u, NotSaving, "saved")
      BY <1>2, <2>1, <3>1, <3>4, <3>5 DEF SaveMove, Ends
    <3> QED
      BY <1>7, <3>6
  <2> QED
    BY <2>2, <2>3
<1> QED
  BY <1>8, <1>10, <1>12, <1>13, <1>14, <1>15, <1>16, <1>17, <1>18, <1>19

\* The dialog of the Project Manager keeps it.
LEMMA DialogSteps ==
  ASSUME InventoryInv,
         \/ OpenDialog \/ SelectParent \/ AddInserts \/ AssetsRefreshed
         \/ \E label \in Labels, silo \in Silos : PressAdd(label, silo)
  PROVE  InventoryInv'
<1> USE DEF InventoryInv
<1>1. /\ dialog \in DialogType /\ assets \in Seq(AssetDocs) /\ DOMAIN assets = 1..Len(assets) /\ Len(assets) \in Nat
      /\ project \in Projects \cup {None} /\ acts \in Nat /\ raced \in BOOLEAN
  BY DEF InventoryTypeOK
<1> DEFINE IsParent(d) == d \in ParentDocs \cup {None} /\ (d # None => d.id \in DOMAIN assets)
<1>2. \A i \in 0..Len(assets) : IsParent(ParentDoc(i))
  <2>1. ASSUME NEW i \in DOMAIN assets
        PROVE  ParentDoc(i) \in ParentDocs /\ ParentDoc(i).id = i
    <3>1. assets[i] \in AssetDocs
      BY <1>1
    <3>2. i # 0 /\ i \in Nat
      BY <1>1
    <3> QED
      BY <3>1, <3>2 DEF ParentDoc, ParentDocs, AssetDocs
  <2>2. ParentDoc(0) = None
    BY DEF ParentDoc
  <2>3. \A i \in 0..Len(assets) : i = 0 \/ i \in DOMAIN assets
    BY <1>1
  <2>4. IsParent(ParentDoc(0)) /\ \A i \in DOMAIN assets : IsParent(ParentDoc(i))
    BY <2>1, <2>2
  <2> HIDE DEF IsParent
  <2> QED
    BY <2>3, <2>4, Zenon
<1>3. /\ dialog.open \in BOOLEAN /\ dialog.refreshing \in BOOLEAN
      /\ dialog.parent \in ParentDocs \cup {None} /\ dialog.pending \in AssetDocs \cup {None}
      /\ NoDialog \in DialogType
  BY <1>1 DEF DialogType, NoDialog
<1>4. ASSUME UNCHANGED <<files, saving, outcome, project>>, dialog' \in DialogType,
             assets' \in Seq(AssetDocs), Len(assets) <= Len(assets'),
             UNCHANGED <<loaded, alone>> \/ Wrote(None), raced' \in BOOLEAN, acts' \in Nat, DialogInv'
      PROVE  InventoryInv'
  <2>1. loaded' \in [Users -> Seq(AssetDocs) \cup {None}] /\ alone' \in [Users -> BOOLEAN]
    BY <1>4 DEF InventoryTypeOK, Wrote
  <2>2. InventoryTypeOK'
    BY <1>4, <2>1 DEF InventoryTypeOK
  <2>3. SaveInv'
    BY <1>4 DEF SaveInv, SaveHolds
  <2> QED
    BY <1>4, <2>2, <2>3
<1>5. ASSUME Act, UNCHANGED <<db, userVars, raced>>, dialog' \in DialogType, dialog'.open => project # None,
             dialog'.parent # None => dialog'.parent.id \in DOMAIN assets
      PROVE  InventoryInv'
  BY <1>1, <1>4, <1>5 DEF Act, db, userVars, DialogInv
<1>6. CASE OpenDialog
  <2>1. PICK i \in 0..Len(assets) : dialog' = [NoDialog EXCEPT !.open = TRUE, !.parent = ParentDoc(i)]
    BY <1>6 DEF OpenDialog
  <2> DEFINE P == ParentDoc(i)
  <2>2. P \in ParentDocs \cup {None} /\ (P # None => P.id \in DOMAIN assets)
    <3> HIDE DEF IsParent
    <3>1. IsParent(P)
      BY <1>2, Zenon
    <3> QED
      BY <3>1 DEF IsParent
  <2> HIDE DEF P
  <2>3. dialog' = [NoDialog EXCEPT !.open = TRUE, !.parent = P]
    BY <2>1 DEF P
  <2>4. dialog' \in DialogType /\ dialog'.parent = P
    BY <2>2, <2>3 DEF DialogType, NoDialog
  <2>5. Act /\ project # None /\ UNCHANGED <<db, userVars, raced>>
    BY <1>6 DEF OpenDialog
  <2> QED
    BY <1>5, <2>2, <2>4, <2>5
<1>7. CASE SelectParent
  <2>1. PICK i \in 0..Len(assets) : dialog' = [dialog EXCEPT !.parent = ParentDoc(i)]
    BY <1>7 DEF SelectParent
  <2> DEFINE P == ParentDoc(i)
  <2>2. P \in ParentDocs \cup {None} /\ (P # None => P.id \in DOMAIN assets)
    <3> HIDE DEF IsParent
    <3>1. IsParent(P)
      BY <1>2, Zenon
    <3> QED
      BY <3>1 DEF IsParent
  <2> HIDE DEF P
  <2>3. dialog' = [dialog EXCEPT !.parent = P]
    BY <2>1 DEF P
  <2>4. dialog' \in DialogType /\ dialog'.parent = P /\ dialog'.open = dialog.open
    BY <1>1, <2>2, <2>3 DEF DialogType
  <2>5. Act /\ dialog.open /\ UNCHANGED <<db, userVars, raced>>
    BY <1>7 DEF SelectParent
  <2> QED
    BY <1>5, <2>2, <2>4, <2>5 DEF DialogInv
<1>8. CASE AddInserts
  <2>1. dialog.pending \in AssetDocs
    BY <1>3, <1>8 DEF AddInserts
  <2>2. assets' \in Seq(AssetDocs) /\ Len(assets') = Len(assets) + 1 /\ DOMAIN assets' = 1..Len(assets')
    BY <1>1, <1>8, <2>1 DEF AddInserts
  <2>3. dialog' = [dialog EXCEPT !.pending = None, !.refreshing = TRUE]
    BY <1>8 DEF AddInserts
  <2>4. dialog' \in DialogType /\ dialog'.parent = dialog.parent /\ dialog'.open = dialog.open
    BY <1>1, <2>3 DEF DialogType
  <2>5. DialogInv'
    BY <1>1, <1>8, <2>2, <2>4 DEF DialogInv, AddInserts
  <2>6. raced' \in BOOLEAN
    BY <1>8 DEF AddInserts
  <2> QED
    BY <1>1, <1>4, <1>8, <2>2, <2>4, <2>5, <2>6 DEF AddInserts
<1>9. CASE AssetsRefreshed
  <2> DEFINE P == IF dialog.parent = None THEN None ELSE ParentDoc(dialog.parent.id)
  <2>1. dialog' = [dialog EXCEPT !.refreshing = FALSE, !.parent = P]
    BY <1>9 DEF AssetsRefreshed
  <2>2. P \in ParentDocs \cup {None} /\ (P # None => P.id \in DOMAIN assets)
    <3>1. CASE dialog.parent = None
      BY <3>1
    <3>2. CASE dialog.parent # None
      <4>1. dialog.parent.id \in 0..Len(assets)
        BY <1>1, <3>2 DEF DialogInv
      <4> HIDE DEF IsParent
      <4>2. IsParent(P)
        BY <1>2, <3>2, <4>1
      <4> QED
        BY <4>2 DEF IsParent
    <3> QED
      BY <3>1, <3>2
  <2> HIDE DEF P
  <2>3. dialog' \in DialogType /\ dialog'.parent = P /\ dialog'.open = dialog.open
    BY <1>1, <2>1, <2>2 DEF DialogType
  <2>4. UNCHANGED <<db, userVars, raced, acts>>
    BY <1>9 DEF AssetsRefreshed
  <2>5. DialogInv'
    BY <2>2, <2>3, <2>4 DEF DialogInv, db
  <2> QED
    BY <1>1, <1>4, <2>3, <2>4, <2>5 DEF db, userVars
<1>10. ASSUME NEW label \in Labels, NEW silo \in Silos, PressAdd(label, silo)
       PROVE  InventoryInv'
  <2> DEFINE parent == dialog.parent
             withSilo == project.silo
             name == IF parent = None THEN <<label>> ELSE Append(parent.name, label)
             parents == IF parent = None THEN <<>> ELSE Append(parent.parents, parent.label)
             doc == [Asset(name, IF withSilo THEN silo ELSE None, 0) EXCEPT
                       !.visual = IF parent = None THEN None ELSE parent.id,
                       !.parents = IF withSilo THEN None ELSE parents, !.label = label]
             P == IF withSilo \/ parent = None THEN parent ELSE [parent EXCEPT !.parents = parents]
             D == IF IsFree(name) THEN doc ELSE None
  <2>1. /\ Act /\ dialog.open /\ (~withSilo /\ parent # None => parent.parents # None)
        /\ dialog' = [dialog EXCEPT !.parent = P, !.pending = D] /\ UNCHANGED <<db, userVars, raced>>
    BY <1>10 DEF PressAdd
  <2>2. withSilo \in BOOLEAN
    BY <1>1, <2>1 DEF DialogInv, Projects
  <2>3. name \in Seq(Labels)
    BY <1>3 DEF ParentDocs
  <2>4. ~withSilo => parents \in Seq(Labels \cup {None})
    BY <1>3, <2>1 DEF ParentDocs
  <2>5. P \in ParentDocs \cup {None} /\ (P # None => P.id \in DOMAIN assets)
    <3>1. CASE withSilo \/ parent = None
      BY <1>3, <3>1 DEF DialogInv
    <3>2. CASE ~withSilo /\ parent # None
      <4> HIDE DEF parents
      <4>1. P = [parent EXCEPT !.parents = parents] /\ parent \in ParentDocs
        BY <1>3, <3>2
      <4> HIDE DEF P
      <4>2. P \in ParentDocs /\ P.id = parent.id
        BY <2>4, <3>2, <4>1 DEF ParentDocs
      <4> QED
        BY <3>2, <4>2 DEF DialogInv
    <3> QED
      BY <3>1, <3>2
  <2>6. D \in AssetDocs \cup {None}
    <3> DEFINE vis == IF parent = None THEN None ELSE parent.id
               par == IF withSilo THEN None ELSE parents
               sil == IF withSilo THEN silo ELSE None
    <3>1. vis \in Nat \cup {None}
      BY <1>3 DEF ParentDocs
    <3>2. par \in Seq(Labels \cup {None}) \cup {None} /\ sil \in Silos \cup {None}
      BY <2>2, <2>4
    <3>3. doc = [Asset(name, sil, 0) EXCEPT !.visual = vis, !.parents = par, !.label = label]
      OBVIOUS
    <3> HIDE DEF vis, par, sil, name, parents, doc
    <3>4. doc = [name |-> name, silo |-> sil, val |-> 0, visual |-> vis, parents |-> par, label |-> label]
      BY <3>3 DEF Asset
    <3>5. doc \in AssetDocs
      BY <2>3, <3>1, <3>2, <3>4 DEF AssetDocs, Values
    <3> QED
      BY <3>5
  <2> HIDE DEF P, D
  <2>7. dialog' \in DialogType /\ dialog'.parent = P /\ dialog'.open = dialog.open
    BY <1>1, <2>1, <2>5, <2>6 DEF DialogType
  <2> QED
    BY <1>5, <2>1, <2>5, <2>7 DEF DialogInv
<1> QED
  BY <1>6, <1>7, <1>8, <1>9, <1>10

\* Every step keeps the invariant.
LEMMA InventorySteps == InventoryInv /\ [InventoryNext]_inventoryVars => InventoryInv'
<1> SUFFICES ASSUME InventoryInv, [InventoryNext]_inventoryVars PROVE InventoryInv'
  OBVIOUS
<1>1. CASE UNCHANGED inventoryVars
  BY <1>1 DEF inventoryVars, db, userVars, InventoryInv, InventoryTypeOK, SaveInv, SaveHolds, DialogInv
<1>2. CASE InventoryNext
  BY <1>2, FilesStep, SaveSteps, DialogSteps DEF InventoryNext
<1> QED
  BY <1>1, <1>2

\* The databases the programs start with satisfy it.
LEMMA InventoryStarts == InventoryInit => InventoryInv
<1> SUFFICES ASSUME InventoryInit PROVE InventoryInv
  OBVIOUS
<1>1. PICK d \in FirstDatabases : project = d.project /\ assets = d.assets
  BY DEF InventoryInit
<1>2. project \in Projects \cup {None} /\ assets \in Seq(AssetDocs)
  BY <1>1, DatabasesAssumption
<1>3. NotSaving \in SavingType /\ NoDialog \in DialogType /\ [inventory |-> None, config |-> None] \in FilesType
  BY DEF NotSaving, NoDialog, SavingType, DialogType, FilesType, SavingSteps
<1>4. InventoryTypeOK
  BY <1>2, <1>3 DEF InventoryInit, InventoryTypeOK
<1>5. SaveInv
  BY DEF InventoryInit, SaveInv, SaveHolds, NotSaving
<1> QED
  BY <1>4, <1>5 DEF InventoryInv, DialogInv, InventoryInit, NoDialog

\* Whatever the users and the Project Manager do, and in whatever order their
\* queries reach the database: documents, files and the state of a save keep
\* their types, and a save holds nothing that belongs to a later step.
THEOREM InventoryTypes == InventorySpec => []InventoryInv
<1> QED
  BY InventoryStarts, InventorySteps, PTL DEF InventorySpec

-----------------------------------------------------------------------------
(* Names.                                                                  *)

\* What Find tells of the assets of every name.
FindingHolds == \A n : /\ IsFree(n) <=> \A i \in DOMAIN assets : assets[i].name # n
                       /\ ~IsFree(n) => Find(n) \in DOMAIN assets /\ assets[Find(n)].name = n

\* It holds in every state, before a step and after it.
LEMMA FindingAgain ==
  /\ InventoryTypeOK => FindingHolds
  /\ InventoryTypeOK' => FindingHolds'
<1>1. InventoryTypeOK => FindingHolds
  BY Finding DEF FindingHolds
<1> QED
  BY <1>1, PTL

\* A step that keeps the names keeps which of them are free, and distinct.
LEMMA SameNames ==
  ASSUME InventoryTypeOK, InventoryTypeOK', DOMAIN assets' = DOMAIN assets,
         \A i \in DOMAIN assets : assets'[i].name = assets[i].name
  PROVE  (\A n : IsFree(n)' <=> IsFree(n)) /\ (Distinct(assets) => Distinct(assets'))
<1>1. ASSUME NEW n
      PROVE  IsFree(n)' <=> IsFree(n)
  BY FindingAgain DEF FindingHolds
<1> QED
  BY <1>1 DEF Distinct

\* An insert leaves the assets where they are, and adds one.
LEMMA Inserting ==
  ASSUME InventoryTypeOK, NEW a \in AssetDocs, assets' = Append(assets, a)
  PROVE  /\ \A i \in DOMAIN assets : i \in DOMAIN assets' /\ assets'[i] = assets[i]
         /\ Len(assets) + 1 \in DOMAIN assets' /\ assets'[Len(assets) + 1] = a
         /\ \A i \in DOMAIN assets' : i \in DOMAIN assets \/ i = Len(assets) + 1
<1>1. assets \in Seq(AssetDocs) /\ DOMAIN assets = 1..Len(assets) /\ Len(assets) \in Nat
      /\ DOMAIN assets' = 1..(Len(assets) + 1)
      /\ (\A i \in 1..Len(assets) : assets'[i] = assets[i]) /\ assets'[Len(assets) + 1] = a
  BY DEF InventoryTypeOK
<1>2. \A i \in DOMAIN assets' : i \in DOMAIN assets \/ i = Len(assets) + 1
  BY <1>1
<1>3. Len(assets) + 1 \in DOMAIN assets' /\ (\A i \in DOMAIN assets : i \in DOMAIN assets' /\ assets'[i] = assets[i])
  BY <1>1
<1> QED
  BY <1>1, <1>2, <1>3

\* A new asset of a free name leaves the names distinct, and takes its own.
LEMMA OneMoreName ==
  ASSUME InventoryTypeOK, InventoryTypeOK', NEW a \in AssetDocs, assets' = Append(assets, a)
  PROVE  /\ \A n : IsFree(n)' <=> IsFree(n) /\ n # a.name
         /\ Distinct(assets) /\ IsFree(a.name) => Distinct(assets')
<1>1. ASSUME NEW n
      PROVE  IsFree(n)' <=> IsFree(n) /\ n # a.name
  BY Inserting, FindingAgain DEF FindingHolds
<1>2. ASSUME Distinct(assets), IsFree(a.name)
      PROVE  Distinct(assets')
  <2>1. \A i \in DOMAIN assets : assets[i].name # a.name
    BY <1>2, FindingAgain DEF FindingHolds
  <2> QED
    BY Inserting, <1>2, <2>1 DEF Distinct
<1> QED
  BY <1>1, <1>2

\* While nobody raced: the names of the assets are distinct, and the names that
\* somebody found free, and did not insert yet, are still free.
NameInv ==
  ~raced =>
    /\ Distinct(assets)
    /\ \A u \in Users : saving[u].pending # None => IsFree(saving[u].pending.name)
    /\ dialog.pending # None => IsFree(dialog.pending.name)

\* Every step keeps it.
LEMMA NameSteps == InventoryInv /\ InventoryInv' /\ NameInv /\ [InventoryNext]_inventoryVars => NameInv'
<1> SUFFICES ASSUME InventoryInv, InventoryInv', NameInv, [InventoryNext]_inventoryVars, ~raced'
             PROVE  NameInv'
  BY DEF NameInv
<1> USE DEF InventoryInv
<1>1. ASSUME UNCHANGED <<assets, raced>>,
             \A u \in Users : saving'[u].pending \notin {None, saving[u].pending} => IsFree(saving'[u].pending.name),
             dialog'.pending \notin {None, dialog.pending} => IsFree(dialog'.pending.name)
      PROVE  NameInv'
  <2>1. \A n : IsFree(n)' <=> IsFree(n)
    BY <1>1, SameNames
  <2> QED
    BY <1>1, <2>1 DEF NameInv
<1>2. ASSUME NEW u \in Users, InitFiles(u) \/ Load(u) \/ Edit(u)
      PROVE  NameInv'
  <2>1. UNCHANGED <<assets, saving, dialog, raced>>
    BY <1>2 DEF InitFiles, Load, Edit, db
  <2> QED
    BY <1>1, <2>1
<1>3. ASSUME NEW u \in Users,
             SaveBegins(u) \/ FindProject(u) \/ ReplaceProject(u) \/ AssetsSaved(u) \/ FindConfig(u)
      PROVE  NameInv'
  <2>1. UNCHANGED <<assets, dialog, raced>>
    BY <1>3 DEF SaveBegins, FindProject, ReplaceProject, AssetsSaved, FindConfig, Mine, db
  <2>2. \A w \in Users : saving'[w].pending \in {None, saving[w].pending}
    <3>1. \/ saving' = [saving EXCEPT ![u] = NotSaving]
          \/ \E x : saving' = [saving EXCEPT ![u].step = x]
          \/ \E x, y : saving' = [saving EXCEPT ![u].step = x, ![u].doc = y]
          \/ \E x, y : saving' = [saving EXCEPT ![u].step = x, ![u].todo = y]
      <4>1. CASE SaveBegins(u) \/ AssetsSaved(u)
        BY <4>1 DEF SaveBegins, AssetsSaved, Go
      <4>2. CASE FindProject(u) \/ FindConfig(u)
        BY <4>2 DEF FindProject, FindConfig, Ends
      <4>3. CASE ReplaceProject(u)
        BY <4>3 DEF ReplaceProject
      <4> QED
        BY <1>3, <4>1, <4>2, <4>3
    <3>2. saving \in [Users -> SavingType]
      BY DEF InventoryTypeOK
    <3>3. CASE saving' = [saving EXCEPT ![u] = NotSaving]
      BY <3>2, <3>3 DEF NotSaving
    <3>4. ASSUME NEW x, NEW y, \/ saving' = [saving EXCEPT ![u].step = x]
                               \/ saving' = [saving EXCEPT ![u].step = x, ![u].doc = y]
                               \/ saving' = [saving EXCEPT ![u].step = x, ![u].todo = y]
          PROVE  \A w \in Users : saving'[w].pending = saving[w].pending
      BY <3>2, <3>4 DEF SavingType
    <3> QED
      BY <3>1, <3>3, <3>4
  <2> QED
    BY <1>1, <2>1, <2>2
<1>4. ASSUME NEW u \in Users, SaveList(u) \/ ReplaceConfig(u)
      PROVE  NameInv'
  <2>1. UNCHANGED <<assets, dialog, raced>>
    BY <1>4 DEF SaveList, ReplaceConfig, Mine, db
  <2>2. \A w \in Users : saving'[w].pending \in {None, saving[w].pending}
    <3>1. saving' = [saving EXCEPT ![u] = NotSaving]
      <4>1. CASE SaveList(u)
        BY <4>1 DEF SaveList, Ends
      <4>2. CASE ReplaceConfig(u)
        BY <4>2 DEF ReplaceConfig, Ends
      <4> QED
        BY <1>4, <4>1, <4>2
    <3>2. saving \in [Users -> SavingType]
      BY DEF InventoryTypeOK
    <3> QED
      BY <3>1, <3>2 DEF NotSaving
  <2> QED
    BY <1>1, <2>1, <2>2
<1>5. ASSUME NEW u \in Users, SaveAsset(u)
      PROVE  NameInv'
  <2>1. UNCHANGED <<dialog, raced>> /\ \A w \in Users : saving'[w].pending = saving[w].pending
    <3>1. \E x, y : \/ saving' = [saving EXCEPT ![u].todo = x, ![u].missing = y]
                    \/ saving' = [saving EXCEPT ![u].todo = x]
      BY <1>5 DEF SaveAsset
    <3>2. saving \in [Users -> SavingType]
      BY DEF InventoryTypeOK
    <3>3. ASSUME NEW x, NEW y, \/ saving' = [saving EXCEPT ![u].todo = x, ![u].missing = y]
                               \/ saving' = [saving EXCEPT ![u].todo = x]
          PROVE  \A w \in Users : saving'[w].pending = saving[w].pending
      BY <3>2, <3>3 DEF SavingType
    <3> QED
      BY <1>5, <3>1, <3>3 DEF SaveAsset, Mine
  <2>2. PICK e \in saving[u].todo : \/ assets' = assets
                                    \/ ~IsFree(e.name) /\ assets' = [assets EXCEPT ![Find(e.name)] = WithData(@, e)]
    BY <1>5 DEF SaveAsset
  <2>3. e \in EntryDocs
    BY DEF InventoryTypeOK, SavingType
  <2>4. DOMAIN assets' = DOMAIN assets /\ \A i \in DOMAIN assets : assets'[i].name = assets[i].name
    <3>1. \A i \in DOMAIN assets : assets[i] \in AssetDocs /\ WithData(assets[i], e).name = assets[i].name
      BY <2>3, AssetParts DEF InventoryTypeOK
    <3> QED
      BY <2>2, <3>1 DEF InventoryTypeOK
  <2>5. (\A n : IsFree(n)' <=> IsFree(n)) /\ (Distinct(assets) => Distinct(assets'))
    BY <2>4, SameNames
  <2> QED
    BY <2>1, <2>5 DEF NameInv
<1>6. ASSUME NEW u \in Users, CreateChecks(u)
      PROVE  NameInv'
  <2>1. UNCHANGED <<assets, dialog, raced>>
    BY <1>6 DEF CreateChecks, Mine, db
  <2>2. PICK e \in saving[u].missing :
          \/ IsFree(e.name) /\ saving' = [saving EXCEPT ![u].pending = e, ![u].missing = @ \ {e}]
          \/ Ends(u, "raised")
    BY <1>6 DEF CreateChecks
  <2>3. CASE Ends(u, "raised")
    BY <1>1, <2>1, <2>3 DEF Ends, NotSaving, InventoryTypeOK
  <2>4. CASE IsFree(e.name) /\ saving' = [saving EXCEPT ![u].pending = e, ![u].missing = @ \ {e}]
    <3>1. saving'[u].pending = e /\ \A w \in Users \ {u} : saving'[w] = saving[w]
      BY <2>4 DEF InventoryTypeOK, SavingType
    <3>2. ASSUME NEW w \in Users, saving'[w].pending \notin {None, saving[w].pending}
          PROVE  IsFree(saving'[w].pending.name)
      BY <2>4, <3>1, <3>2
    <3> QED
      BY <1>1, <2>1, <3>2
  <2> QED
    BY <2>2, <2>3, <2>4
<1>7. ASSUME NEW u \in Users, CreateInserts(u)
      PROVE  NameInv'
  <2> DEFINE e == saving[u].pending
             a == Asset(e.name, e.silo, e.val)
  <2>1. /\ e # None /\ dialog' = dialog /\ saving' = [saving EXCEPT ![u].pending = None]
        /\ ~raced /\ Waiting(e.name) = {u} /\ ~DialogWaits(e.name) /\ assets' = Append(assets, a)
    BY <1>7 DEF CreateInserts, Mine
  <2>2. e \in EntryDocs
    BY <2>1 DEF InventoryTypeOK, SavingType
  <2>3. a \in AssetDocs /\ a.name = e.name
    BY <2>2, AssetParts
  <2>4. IsFree(e.name) /\ Distinct(assets)
    BY <2>1 DEF NameInv
  <2>5. saving'[u].pending = None /\ \A w \in Users \ {u} : saving'[w] = saving[w]
    BY <2>1 DEF InventoryTypeOK, SavingType
  <2>6. \A w \in Users \ {u} : saving[w].pending # None => saving[w].pending.name # e.name
    BY <2>1 DEF Waiting
  <2> HIDE DEF a, e
  <2>7. (\A n : IsFree(n)' <=> IsFree(n) /\ n # e.name) /\ Distinct(assets')
    BY <2>1, <2>3, <2>4, OneMoreName
  <2> QED
    BY <2>1, <2>5, <2>6, <2>7 DEF NameInv, DialogWaits
<1>8. CASE AddInserts
  <2> DEFINE a == dialog.pending
  <2>1. /\ a # None /\ saving' = saving /\ dialog' = [dialog EXCEPT !.pending = None, !.refreshing = TRUE]
        /\ ~raced /\ Waiting(a.name) = {} /\ assets' = Append(assets, a)
    BY <1>8 DEF AddInserts
  <2>2. a \in AssetDocs /\ dialog'.pending = None
    BY <2>1 DEF InventoryTypeOK, DialogType
  <2>3. IsFree(a.name) /\ Distinct(assets)
    BY <2>1 DEF NameInv
  <2>4. \A w \in Users : saving[w].pending # None => saving[w].pending.name # a.name
    BY <2>1 DEF Waiting
  <2> HIDE DEF a
  <2>5. (\A n : IsFree(n)' <=> IsFree(n) /\ n # a.name) /\ Distinct(assets')
    BY <2>1, <2>2, <2>3, OneMoreName
  <2> QED
    BY <2>1, <2>2, <2>4, <2>5 DEF NameInv
<1>9. ASSUME OpenDialog \/ SelectParent \/ AssetsRefreshed
      PROVE  NameInv'
  <2>1. UNCHANGED <<assets, saving, raced>>
    BY <1>9 DEF OpenDialog, SelectParent, AssetsRefreshed, db, userVars
  <2>2. dialog'.pending \in {None, dialog.pending}
    BY <1>9 DEF OpenDialog, SelectParent, AssetsRefreshed, NoDialog, InventoryTypeOK, DialogType
  <2> QED
    BY <1>1, <2>1, <2>2
<1>10. ASSUME NEW label \in Labels, NEW silo \in Silos, PressAdd(label, silo)
       PROVE  NameInv'
  <2>1. UNCHANGED <<assets, saving, raced>>
    BY <1>10 DEF PressAdd, db, userVars
  <2>2. dialog'.pending # None => IsFree(dialog'.pending.name)
    <3> DEFINE name == IF dialog.parent = None THEN <<label>> ELSE Append(dialog.parent.name, label)
               vis == IF dialog.parent = None THEN None ELSE dialog.parent.id
               par == IF project.silo THEN None
                      ELSE IF dialog.parent = None THEN <<>> ELSE Append(dialog.parent.parents, dialog.parent.label)
               doc == [Asset(name, IF project.silo THEN silo ELSE None, 0) EXCEPT
                         !.visual = vis, !.parents = par, !.label = label]
               D == IF IsFree(name) THEN doc ELSE None
               P == IF project.silo \/ dialog.parent = None THEN dialog.parent
                    ELSE [dialog.parent EXCEPT !.parents = par]
    <3>1. dialog' = [dialog EXCEPT !.parent = P, !.pending = D]
      BY <1>10 DEF PressAdd
    <3>2. doc.name = name
      <4> HIDE DEF name, vis, par
      <4> QED
        BY DEF Asset
    <3> HIDE DEF P, D
    <3>3. dialog'.pending = D
      BY <3>1 DEF InventoryTypeOK, DialogType
    <3> HIDE DEF doc, name
    <3> QED
      BY <3>2, <3>3 DEF D
  <2> QED
    BY <1>1, <2>1, <2>2
<1>11. CASE UNCHANGED inventoryVars
  BY <1>1, <1>11 DEF inventoryVars, db, userVars
<1> QED
  BY <1>2, <1>3, <1>4, <1>5, <1>6, <1>7, <1>8, <1>9, <1>10, <1>11 DEF InventoryNext

\* At the start the names are distinct, and nobody asked for one.
LEMMA NamesStart == InventoryInit => NameInv
<1> SUFFICES ASSUME InventoryInit PROVE NameInv
  OBVIOUS
<1>1. Distinct(assets)
  BY DatabasesAssumption DEF InventoryInit
<1>2. NotSaving.pending = None /\ NoDialog.pending = None
  BY DEF NotSaving, NoDialog
<1>3. dialog = NoDialog /\ \A u \in Users : saving[u] = NotSaving
  BY DEF InventoryInit
<1> QED
  BY <1>1, <1>2, <1>3 DEF NameInv

\* As long as no two programs found the same name free at the same time, no two
\* assets have the same name.
THEOREM NamesAreUnique == InventorySpec => []CalmNamesUnique
<1>1. InventoryInv /\ NameInv => CalmNamesUnique
  BY DEF InventoryInv, InventoryTypeOK, NameInv, Distinct, CalmNamesUnique
<1> QED
  BY <1>1, NamesStart, InventoryStarts, InventorySteps, NameSteps, PTL DEF InventorySpec

-----------------------------------------------------------------------------
(* What the steps make of a save.                                          *)

Becomes(u, step, doc, ahead, missing, pending) ==
  /\ saving'[u].step = step /\ saving'[u].doc = doc /\ saving'[u].todo = ahead
  /\ saving'[u].missing = missing /\ saving'[u].pending = pending
  /\ \A w \in Users \ {u} : saving'[w] = saving[w]
Drops(u) == Becomes(u, "none", None, {}, {}, None)

\* The save after each of its steps.
LEMMA Becoming ==
  ASSUME InventoryInv, NEW u \in Users
  PROVE  /\ SaveBegins(u) => Becomes(u, "find", None, {}, {}, None)
         /\ FindProject(u) => Becomes(u, "metadata", project, {}, {}, None) \/ Drops(u)
         /\ ReplaceProject(u) => Becomes(u, "assets", saving[u].doc, files[u].inventory.entries, {}, None)
         /\ SaveList(u) => Drops(u)
         /\ AssetsSaved(u) => Becomes(u, "create", saving[u].doc, {}, saving[u].missing, None)
         /\ CreateInserts(u) => Becomes(u, "create", saving[u].doc, {}, saving[u].missing, None)
         /\ FindConfig(u) => Becomes(u, "config", project, {}, {}, None) \/ Drops(u)
         /\ ReplaceConfig(u) => Drops(u)
         /\ SaveAsset(u) =>
              \E e \in saving[u].todo :
                \/ IsFree(e.name) /\ Becomes(u, "assets", saving[u].doc, saving[u].todo \ {e}, saving[u].missing \cup {e}, None)
                \/ ~IsFree(e.name) /\ Becomes(u, "assets", saving[u].doc, saving[u].todo \ {e}, saving[u].missing, None)
         /\ CreateChecks(u) =>
              \/ \E e \in saving[u].missing : Becomes(u, "create", saving[u].doc, {}, saving[u].missing \ {e}, e)
              \/ Drops(u)
<1> DEFINE s == saving[u]
<1>1. saving \in [Users -> SavingType] /\ SaveHolds(s, files[u], outcome[u], project)
  BY DEF InventoryInv, InventoryTypeOK, SaveInv
<1>3. SaveBegins(u) => Becomes(u, "find", None, {}, {}, None)
  <2> SUFFICES ASSUME SaveBegins(u) PROVE Becomes(u, "find", None, {}, {}, None)
    OBVIOUS
  <2>1. s = NotSaving /\ saving' = [saving EXCEPT ![u].step = "find"]
    BY DEF SaveBegins, Go
  <2> QED
    BY <1>1, <2>1 DEF Becomes, SavingType, NotSaving
<1>4. FindProject(u) => Becomes(u, "metadata", project, {}, {}, None) \/ Drops(u)
  BY <1>1 DEF FindProject, Mine, Ends, Becomes, Drops, SavingType, SaveHolds, NotSaving
<1>5. ReplaceProject(u) => Becomes(u, "assets", saving[u].doc, files[u].inventory.entries, {}, None)
  BY <1>1 DEF ReplaceProject, Mine, Becomes, Drops, SavingType, SaveHolds, NotSaving
<1>6. SaveList(u) => Drops(u)
  BY <1>1 DEF SaveList, Mine, Ends, Becomes, Drops, SavingType, SaveHolds, NotSaving
<1>7. AssetsSaved(u) => Becomes(u, "create", saving[u].doc, {}, saving[u].missing, None)
  BY <1>1 DEF AssetsSaved, Mine, Go, Becomes, Drops, SavingType, SaveHolds, NotSaving
<1>8. CreateInserts(u) => Becomes(u, "create", saving[u].doc, {}, saving[u].missing, None)
  BY <1>1 DEF CreateInserts, Mine, Becomes, Drops, SavingType, SaveHolds, NotSaving
<1>9. FindConfig(u) => Becomes(u, "config", project, {}, {}, None) \/ Drops(u)
  BY <1>1 DEF FindConfig, Mine, Ends, Becomes, Drops, SavingType, SaveHolds, NotSaving
<1>10. ReplaceConfig(u) => Drops(u)
  BY <1>1 DEF ReplaceConfig, Mine, Ends, Becomes, Drops, SavingType, SaveHolds, NotSaving
<1>11. SaveAsset(u) =>
        \E e \in saving[u].todo :
          \/ IsFree(e.name) /\ Becomes(u, "assets", saving[u].doc, saving[u].todo \ {e}, saving[u].missing \cup {e}, None)
          \/ ~IsFree(e.name) /\ Becomes(u, "assets", saving[u].doc, saving[u].todo \ {e}, saving[u].missing, None)
  BY <1>1 DEF SaveAsset, Mine, Becomes, SavingType, SaveHolds
<1>12. CreateChecks(u) =>
         \/ \E e \in saving[u].missing : Becomes(u, "create", saving[u].doc, {}, saving[u].missing \ {e}, e)
         \/ Drops(u)
  BY <1>1 DEF CreateChecks, Mine, Ends, Becomes, Drops, SavingType, SaveHolds, NotSaving
<1> QED
  BY <1>3, <1>4, <1>5, <1>6, <1>7, <1>8, <1>9, <1>10, <1>11, <1>12

-----------------------------------------------------------------------------
(* What was loaded is saved as it was.                                     *)

\* The files of a user list the assets as they are, and a save that runs found
\* none of them missing.
Untouched(u) ==
  /\ assets = loaded[u] /\ files[u].inventory # None /\ files[u].inventory.entries = Entries
  /\ saving[u].todo \subseteq Entries /\ saving[u].missing = {} /\ saving[u].pending = None

\* It is so for every user whose load still counts, while the names are unique.
LoadInv == ~raced => \A u \in Users : loaded[u] # None => Untouched(u)

\* Every step keeps it.
LEMMA LoadSteps == InventoryInv /\ NameInv /\ LoadInv /\ [InventoryNext]_inventoryVars => LoadInv'
<1> SUFFICES ASSUME InventoryInv, NameInv, LoadInv, [InventoryNext]_inventoryVars, ~raced'
             PROVE  LoadInv'
  BY DEF LoadInv
<1> USE DEF InventoryInv
<1>1. ASSUME UNCHANGED <<assets, raced>>, NEW u \in Users,
             \A w \in Users \ {u} : saving'[w] = saving[w] /\ files'[w] = files[w],
             \A w \in Users \ {u} : loaded'[w] \in {loaded[w], None},
             ~raced /\ (loaded[u] # None => Untouched(u)) /\ loaded'[u] # None => Untouched(u)'
      PROVE  LoadInv'
  <2>1. Entries' = Entries
    BY <1>1 DEF Entries
  <2>2. ASSUME NEW w \in Users \ {u}, loaded'[w] # None
        PROVE  Untouched(w)'
    BY <1>1, <2>1, <2>2 DEF LoadInv, Untouched
  <2> QED
    BY <1>1, <2>2 DEF LoadInv
<1>2. ASSUME UNCHANGED <<assets, raced, files>>, NEW u \in Users,
             \A w \in Users \ {u} : saving'[w] = saving[w],
             UNCHANGED loaded \/ Wrote(u),
             ~raced /\ loaded[u] # None /\ Untouched(u) =>
               saving'[u].todo \subseteq Entries /\ saving'[u].missing = {} /\ saving'[u].pending = None
      PROVE  LoadInv'
  <2>1. loaded'[u] = loaded[u] /\ \A w \in Users \ {u} : loaded'[w] \in {loaded[w], None}
    BY <1>2 DEF Wrote
  <2>2. ~raced /\ (loaded[u] # None => Untouched(u)) /\ loaded'[u] # None => Untouched(u)'
    BY <1>2, <2>1 DEF Untouched, Entries
  <2> QED
    BY <1>1, <1>2, <2>1, <2>2
<1>3. ASSUME NEW u \in Users, InitFiles(u) \/ Edit(u)
      PROVE  LoadInv'
  <2>1. UNCHANGED <<assets, saving, raced>> /\ \A w \in Users \ {u} : files'[w] = files[w] /\ loaded'[w] = loaded[w]
    BY <1>3 DEF InitFiles, Edit, WriteFiles, db, InventoryTypeOK
  <2>2. loaded'[u] = None
    <3>1. CASE InitFiles(u)
      BY <3>1 DEF InitFiles, WriteFiles, Valid, InventoryTypeOK
    <3>2. CASE Edit(u)
      BY <3>2 DEF Edit, InventoryTypeOK
    <3> QED
      BY <1>3, <3>1, <3>2
  <2> QED
    BY <1>1, <2>1, <2>2
<1>4. ASSUME NEW u \in Users, Load(u)
      PROVE  LoadInv'
  <2> DEFINE conf == [schema |-> project.schema, list |-> project.doc = "2.0", val |-> project.val]
             inv == [entries |-> Entries, meta |-> IF assets = <<>> THEN None ELSE project.meta,
                     list |-> assets # <<>> /\ project.list]
  <2>1. UNCHANGED <<assets, saving, raced>> /\ WriteFiles(u, conf, inv) /\ saving[u] = NotSaving
    BY <1>4 DEF Load, db
  <2>2. inv.entries = Entries
    OBVIOUS
  <2>3. inv # None
    <3>1. project \in Projects
      BY <1>4 DEF Load, InventoryTypeOK
    <3>2. (IF assets = <<>> THEN None ELSE project.meta) \in Values \cup {None} /\ (assets # <<>> /\ project.list) \in BOOLEAN
      BY <3>1 DEF Projects
    <3>3. Entries \subseteq EntryDocs
      <4>1. \A a \in ToSet(assets) : a \in AssetDocs /\ a.silo # None
        BY <1>4 DEF Load, InventoryTypeOK, ToSet
      <4>2. \A a \in AssetDocs : a.silo # None => [name |-> a.name, silo |-> a.silo, val |-> a.val] \in EntryDocs
        BY DEF AssetDocs, EntryDocs
      <4> QED
        BY <4>1, <4>2 DEF Entries
    <3>4. inv \in InventoryFiles
      BY <3>2, <3>3 DEF InventoryFiles
    <3> QED
      BY <3>4, NoneAssumption
  <2> HIDE DEF conf, inv
  <2>4. \A w \in Users \ {u} : files'[w] = files[w] /\ loaded'[w] = loaded[w]
    BY <2>1 DEF WriteFiles, InventoryTypeOK
  <2>5. loaded'[u] # None => files'[u].inventory = inv /\ loaded'[u] = assets
    BY <2>1 DEF WriteFiles, InventoryTypeOK
  <2>6. loaded'[u] # None => Untouched(u)'
    BY <2>1, <2>2, <2>3, <2>5 DEF Untouched, Entries, NotSaving
  <2> QED
    BY <1>1, <2>1, <2>4, <2>6
<1>5. ASSUME NEW u \in Users, SaveBegins(u) \/ FindProject(u) \/ SaveList(u) \/ AssetsSaved(u) \/ CreateChecks(u)
                             \/ FindConfig(u)
      PROVE  LoadInv'
  <2>1. UNCHANGED <<assets, raced, files, loaded>>
    BY <1>5 DEF SaveBegins, FindProject, SaveList, AssetsSaved, CreateChecks, FindConfig, Mine, db
  <2>2. /\ \A w \in Users \ {u} : saving'[w] = saving[w]
        /\ Untouched(u) => saving'[u].todo = {} /\ saving'[u].missing = {} /\ saving'[u].pending = None
    BY <1>5, Becoming DEF Becomes, Drops, Untouched
  <2> QED
    BY <1>2, <2>1, <2>2
<1>6. ASSUME NEW u \in Users, ReplaceProject(u) \/ ReplaceConfig(u)
      PROVE  LoadInv'
  <2>1. UNCHANGED <<assets, raced, files>> /\ (UNCHANGED loaded \/ Wrote(u))
    BY <1>6 DEF ReplaceProject, ReplaceConfig, Mine
  <2>2. /\ \A w \in Users \ {u} : saving'[w] = saving[w]
        /\ saving'[u].missing = {} /\ saving'[u].pending = None
        /\ Untouched(u) => saving'[u].todo \subseteq Entries
    BY <1>6, Becoming DEF Becomes, Drops, Untouched
  <2> QED
    BY <1>2, <2>1, <2>2
<1>7. ASSUME NEW u \in Users, SaveAsset(u)
      PROVE  LoadInv'
  <2>1. UNCHANGED <<raced, files>>
    BY <1>7 DEF SaveAsset, Mine
  <2>2. PICK e \in saving[u].todo :
          IF IsFree(e.name)
          THEN /\ saving' = [saving EXCEPT ![u].todo = @ \ {e}, ![u].missing = @ \cup {e}]
               /\ UNCHANGED <<assets, loaded, alone>>
          ELSE /\ saving' = [saving EXCEPT ![u].todo = @ \ {e}]
               /\ assets' = [assets EXCEPT ![Find(e.name)] = WithData(@, e)] /\ Wrote(u)
    BY <1>7 DEF SaveAsset
  <2>3. SaveHolds(saving[u], files[u], outcome[u], project) /\ saving[u].step = "assets" /\ saving \in [Users -> SavingType]
    BY <1>7 DEF SaveInv, SaveAsset, Mine, InventoryTypeOK
  <2>4. saving'[u].todo = saving[u].todo \ {e} /\ (~IsFree(e.name) => saving'[u].missing = saving[u].missing)
        /\ saving'[u].pending = None /\ \A w \in Users \ {u} : saving'[w] = saving[w]
    BY <2>2, <2>3 DEF SaveHolds, SavingType
  <2>5. ASSUME Untouched(u), ~raced
        PROVE  ~IsFree(e.name) /\ assets' = assets
    <3>1. PICK a \in ToSet(assets) : e = [name |-> a.name, silo |-> a.silo, val |-> a.val]
      BY <2>5, <2>2 DEF Untouched, Entries
    <3>2. PICK j \in DOMAIN assets : a = assets[j]
      BY <3>1 DEF ToSet
    <3>3. assets[j] \in AssetDocs /\ assets[j].name = e.name /\ assets[j].val = e.val
      BY <3>1, <3>2 DEF InventoryTypeOK
    <3>4. ~IsFree(e.name) /\ Find(e.name) \in DOMAIN assets /\ assets[Find(e.name)].name = e.name
      BY <3>3, Finding
    <3>5. Find(e.name) = j
      BY <2>5, <3>3, <3>4 DEF NameInv, Distinct
    <3>6. WithData(assets[j], e) = assets[j]
      <4> DEFINE d == assets[j]
      <4>1. d \in AssetDocs /\ d.val = e.val
        BY <3>3
      <4> HIDE DEF d
      <4>2. [d EXCEPT !.val = d.val] = d
        BY <4>1 DEF AssetDocs
      <4> QED
        BY <4>1, <4>2 DEF WithData, d
    <3>7. assets' = [assets EXCEPT ![j] = assets[j]]
      BY <2>2, <3>4, <3>5, <3>6
    <3> QED
      BY <3>4, <3>7 DEF InventoryTypeOK
  <2>6. CASE loaded[u] # None /\ ~raced
    <3>1. Untouched(u)
      BY <2>6 DEF LoadInv
    <3> QED
      BY <1>2, <2>1, <2>2, <2>4, <2>5, <2>6, <3>1 DEF Untouched
  <2>7. CASE loaded[u] = None
    <3>1. CASE IsFree(e.name)
      BY <1>2, <2>1, <2>2, <2>4, <2>7, <3>1
    <3>2. CASE ~IsFree(e.name)
      BY <2>2, <2>7, <3>2 DEF Wrote, LoadInv
    <3> QED
      BY <3>1, <3>2
  <2> QED
    BY <2>1, <2>6, <2>7
<1>8. ASSUME NEW u \in Users, CreateInserts(u)
      PROVE  LoadInv'
  <2>1. Wrote(u) /\ saving[u].pending # None /\ ~raced
    BY <1>8 DEF CreateInserts
  <2>2. loaded[u] = None
    BY <2>1 DEF LoadInv, Untouched
  <2> QED
    BY <2>1, <2>2 DEF Wrote, LoadInv
<1>9. CASE AddInserts
  BY <1>9, NoneAssumption DEF AddInserts, Wrote, LoadInv
<1>10. CASE \/ OpenDialog \/ SelectParent \/ AssetsRefreshed \/ UNCHANGED inventoryVars
            \/ \E label \in Labels, silo \in Silos : PressAdd(label, silo)
  <2>1. UNCHANGED <<assets, raced, files, saving, loaded>>
    BY <1>10 DEF OpenDialog, SelectParent, AssetsRefreshed, PressAdd, inventoryVars, userVars, db
  <2> QED
    BY <2>1 DEF LoadInv, Untouched, Entries
<1> QED
  BY <1>3, <1>4, <1>5, <1>6, <1>7, <1>8, <1>9, <1>10 DEF InventoryNext

\* Saving files as they were loaded leaves the assets as they are at every step
\* of the save, unless somebody else wrote or a race gave two assets one name.
THEOREM RoundTripHolds == InventorySpec => []RoundTrip
<1>1. InventoryInit => LoadInv
  BY DEF InventoryInit, LoadInv
<1>2. LoadInv => RoundTrip
  BY DEF LoadInv, RoundTrip, Untouched
<1> QED
  BY <1>1, <1>2, NamesStart, InventoryStarts, InventorySteps, NameSteps, LoadSteps, PTL DEF InventorySpec

-----------------------------------------------------------------------------
(* A save that ends well saved everything.                                 *)

\* An asset has what an entry of the name of this one says.
IsSaved(u, e) ==
  \E a \in ToSet(assets) : a.name = e.name /\ \E f \in files[u].inventory.entries : f.name = e.name /\ f.val = a.val

\* Every entry is still to do or saved; so are the metadata and, at the end, the
\* configuration.
SavedSoFar(u) ==
  /\ files[u].inventory # None /\ saving[u].todo \subseteq files[u].inventory.entries
  /\ \A e \in files[u].inventory.entries :
       e \in saving[u].todo \cup saving[u].missing \cup {saving[u].pending} \/ IsSaved(u, e)
  /\ files[u].inventory.meta # None => project.meta = files[u].inventory.meta
  /\ saving[u].step = "config" => saving[u].doc = project
  /\ outcome[u] = "saved" => project.val = files[u].config.val

\* It is so for every user alone, from the replaced project document on.
AllSaved ==
  \A u \in Users : alone[u] /\ (saving[u].step \in {"assets", "create", "config"} \/ outcome[u] = "saved") => SavedSoFar(u)

\* What saving an entry does not take away: the assets of other names, and of
\* its name one with what an entry says.
LEMMA StaysSaved ==
  ASSUME InventoryInv, InventoryInv', NEW u \in Users, NEW e \in EntryDocs, IsSaved(u, e), files' = files,
         \/ assets' = assets
         \/ \E a \in AssetDocs : assets' = Append(assets, a)
         \/ \E f \in files[u].inventory.entries, j \in DOMAIN assets :
               f \in EntryDocs /\ assets[j].name = f.name /\ assets' = [assets EXCEPT ![j] = WithData(@, f)]
  PROVE  IsSaved(u, e)'
<1>1. assets \in Seq(AssetDocs) /\ DOMAIN assets = 1..Len(assets) /\ Len(assets) \in Nat
  BY DEF InventoryInv, InventoryTypeOK
<1>2. PICK i \in DOMAIN assets : /\ assets[i].name = e.name
                                 /\ \E f \in files[u].inventory.entries : f.name = e.name /\ f.val = assets[i].val
  BY DEF IsSaved, ToSet
<1>3. ASSUME i \in DOMAIN assets', assets'[i].name = e.name,
             \E f \in files[u].inventory.entries : f.name = e.name /\ f.val = assets'[i].val
      PROVE  IsSaved(u, e)'
  BY <1>3 DEF IsSaved, ToSet
<1>4. CASE assets' = assets
  BY <1>2, <1>3, <1>4
<1>5. ASSUME NEW a \in AssetDocs, assets' = Append(assets, a)
      PROVE  IsSaved(u, e)'
  <2>1. i \in DOMAIN assets' /\ assets'[i] = assets[i]
    BY <1>5, Inserting DEF InventoryInv
  <2> QED
    BY <1>2, <1>3, <2>1
<1>6. ASSUME NEW f \in files[u].inventory.entries, NEW j \in DOMAIN assets, f \in EntryDocs,
             assets[j].name = f.name, assets' = [assets EXCEPT ![j] = WithData(@, f)]
      PROVE  IsSaved(u, e)'
  <2>1. CASE i = j
    <3>1. assets'[i] = WithData(assets[i], f) /\ i \in DOMAIN assets' /\ assets[i] \in AssetDocs
      <4> DEFINE new == WithData(assets[j], f)
      <4>1. assets' = [assets EXCEPT ![j] = new]
        BY <1>6
      <4> HIDE DEF new
      <4>2. assets'[j] = new /\ j \in DOMAIN assets' /\ assets[j] \in AssetDocs
        BY <4>1 DEF InventoryInv, InventoryTypeOK
      <4> QED
        BY <2>1, <4>2 DEF new
    <3>2. assets'[i].name = e.name /\ assets'[i].val = f.val
      BY <1>2, <1>6, <3>1, AssetParts
    <3> QED
      BY <1>2, <1>3, <1>6, <2>1, <3>1, <3>2
  <2>2. CASE i # j
    <3>1. assets'[i] = assets[i] /\ i \in DOMAIN assets'
      BY <1>1, <1>6, <2>2
    <3> QED
      BY <1>2, <1>3, <3>1
  <2> QED
    BY <2>1, <2>2
<1> QED
  BY <1>4, <1>5, <1>6

\* Every step keeps it.
LEMMA SavedSteps == InventoryInv /\ InventoryInv' /\ AllSaved /\ [InventoryNext]_inventoryVars => AllSaved'
<1> SUFFICES ASSUME InventoryInv, InventoryInv', AllSaved, [InventoryNext]_inventoryVars
             PROVE  AllSaved'
  OBVIOUS
<1> DEFINE Underway(u) == saving[u].step \in {"assets", "create", "config"} \/ outcome[u] = "saved"
<1>1. ASSUME UNCHANGED <<project, assets>>, NEW u \in Users,
             \A w \in Users \ {u} : saving'[w] = saving[w] /\ files'[w] = files[w] /\ outcome'[w] = outcome[w],
             \A w \in Users \ {u} : alone'[w] => alone[w],
             alone'[u] /\ Underway(u)' => SavedSoFar(u)'
      PROVE  AllSaved'
  <2>1. ASSUME NEW w \in Users \ {u}, alone'[w], Underway(w)'
        PROVE  SavedSoFar(w)'
    <3>1. SavedSoFar(w)
      BY <1>1, <2>1 DEF AllSaved
    <3> QED
      BY <1>1, <3>1 DEF SavedSoFar, IsSaved
  <2> QED
    BY <1>1, <2>1 DEF AllSaved
<1>2. ASSUME NEW u \in Users, Wrote(u), alone'[u] /\ Underway(u)' => SavedSoFar(u)'
      PROVE  AllSaved'
  BY <1>2 DEF AllSaved, Wrote
<1>3. ASSUME NEW u \in Users, InitFiles(u) \/ Load(u) \/ Edit(u)
      PROVE  AllSaved'
  <2>1. UNCHANGED <<project, assets, saving, alone>> /\ saving[u] = NotSaving
        /\ \A w \in Users \ {u} : files'[w] = files[w] /\ outcome'[w] = outcome[w]
    BY <1>3 DEF InitFiles, Load, Edit, WriteFiles, db, InventoryInv, InventoryTypeOK
  <2>2. outcome'[u] = "none"
    BY <1>3 DEF InitFiles, Load, Edit, WriteFiles, InventoryInv, InventoryTypeOK
  <2>3. ~Underway(u)'
    BY <2>1, <2>2 DEF NotSaving
  <2> QED
    BY <1>1, <2>1, <2>3
<1>4. ASSUME NEW u \in Users
      PROVE  SaveHolds(saving[u], files[u], outcome[u], project) /\ SaveHolds(saving[u], files[u], outcome[u], project)'
             /\ files[u].inventory \in InventoryFiles \cup {None} /\ outcome \in [Users -> {"none", "raised", "saved"}]
             /\ saving[u] \in SavingType
  BY DEF InventoryInv, SaveInv, InventoryTypeOK, FilesType
<1>5. ASSUME NEW u \in Users, SaveBegins(u) \/ FindProject(u) \/ SaveList(u)
      PROVE  AllSaved'
  <2>1. UNCHANGED <<project, assets, files>> /\ \A w \in Users \ {u} : outcome'[w] = outcome[w] /\ alone'[w] = alone[w]
    BY <1>5 DEF SaveBegins, FindProject, SaveList, Mine, Ends, db, InventoryInv, InventoryTypeOK
  <2>2. saving'[u].step \notin {"assets", "create", "config"} /\ \A w \in Users \ {u} : saving'[w] = saving[w]
    BY <1>5, Becoming DEF Becomes, Drops
  <2>3. outcome'[u] # "saved"
    <3>1. CASE SaveBegins(u)
      BY <1>4, <3>1 DEF SaveBegins
    <3>2. CASE FindProject(u)
      BY <1>4, <3>2 DEF FindProject, Mine, Ends, SaveHolds
    <3>3. CASE SaveList(u)
      BY <1>4, <3>3 DEF SaveList, Ends
    <3> QED
      BY <1>5, <3>1, <3>2, <3>3
  <2> QED
    BY <1>1, <2>1, <2>2, <2>3
<1>6. ASSUME NEW u \in Users, ReplaceProject(u)
      PROVE  AllSaved'
  <2> DEFINE inv == files[u].inventory
  <2>1. /\ project' = [saving[u].doc EXCEPT !.meta = IF inv.meta = None THEN @ ELSE inv.meta]
        /\ Wrote(u) /\ UNCHANGED <<files, outcome>> /\ saving[u].step = "metadata"
    BY <1>6 DEF ReplaceProject, Mine
  <2>2. saving[u].doc \in Projects /\ outcome[u] = "none"
    BY <1>4, <2>1 DEF SaveHolds, SavingType
  <2>3. inv.meta # None => project'.meta = inv.meta
    BY <2>1, <2>2 DEF Projects
  <2>4. saving'[u].step = "assets" /\ saving'[u].todo = inv.entries
    BY <1>6, Becoming DEF Becomes
  <2>5. SavedSoFar(u)'
    BY <1>4, <2>1, <2>2, <2>3, <2>4 DEF SavedSoFar, SaveHolds
  <2> QED
    BY <1>2, <2>1, <2>5
<1>7. ASSUME NEW u \in Users, SaveAsset(u)
      PROVE  AllSaved'
  <2>1. UNCHANGED <<project, files, outcome>> /\ saving[u].step = "assets" /\ outcome[u] = "none" /\ saving[u].pending = None
    BY <1>4, <1>7 DEF SaveAsset, Mine, SaveHolds
  <2>2. PICK e \in saving[u].todo :
          IF IsFree(e.name)
          THEN /\ saving' = [saving EXCEPT ![u].todo = @ \ {e}, ![u].missing = @ \cup {e}]
               /\ UNCHANGED <<assets, loaded, alone>>
          ELSE /\ saving' = [saving EXCEPT ![u].todo = @ \ {e}]
               /\ assets' = [assets EXCEPT ![Find(e.name)] = WithData(@, e)] /\ Wrote(u)
    BY <1>7 DEF SaveAsset
  <2>3. e \in EntryDocs /\ saving \in [Users -> SavingType]
        /\ (~IsFree(e.name) => Find(e.name) \in DOMAIN assets /\ assets[Find(e.name)].name = e.name)
    BY <1>4, Finding DEF SavingType, InventoryInv, InventoryTypeOK
  <2>4. SavedSoFar(u) \/ ~alone[u]
    BY <2>1 DEF AllSaved
  <2>5. CASE IsFree(e.name)
    <3>1. UNCHANGED <<project, assets, files, alone, outcome>>
      BY <2>1, <2>2, <2>5
    <3>2. /\ saving'[u].todo = saving[u].todo \ {e} /\ saving'[u].missing = saving[u].missing \cup {e}
          /\ saving'[u].pending = saving[u].pending /\ saving'[u].step = "assets"
          /\ \A w \in Users \ {u} : saving'[w] = saving[w]
      BY <2>1, <2>2, <2>3, <2>5 DEF SavingType
    <3>3. SavedSoFar(u) => SavedSoFar(u)'
      BY <2>1, <3>1, <3>2 DEF SavedSoFar, IsSaved
    <3> QED
      BY <1>1, <2>4, <3>1, <3>2, <3>3
  <2>6. CASE ~IsFree(e.name)
    <3>1. assets' = [assets EXCEPT ![Find(e.name)] = WithData(@, e)] /\ Wrote(u)
      BY <2>2, <2>6
    <3>2. /\ saving'[u].todo = saving[u].todo \ {e} /\ saving'[u].missing = saving[u].missing
          /\ saving'[u].pending = saving[u].pending /\ saving'[u].step = "assets"
      BY <2>1, <2>2, <2>3, <2>6 DEF SavingType
    <3>3. ASSUME SavedSoFar(u)
          PROVE  SavedSoFar(u)'
      <4>1. e \in files[u].inventory.entries
        BY <2>2, <3>3 DEF SavedSoFar
      <4>2. IsSaved(u, e)'
        <5> DEFINE j == Find(e.name)
                   new == WithData(assets[j], e)
        <5>1. j \in DOMAIN assets /\ assets[j] \in AssetDocs /\ assets[j].name = e.name
          BY <2>3, <2>6 DEF InventoryInv, InventoryTypeOK
        <5>2. new.name = e.name /\ new.val = e.val
          BY <2>3, <5>1, AssetParts
        <5>3. assets' = [assets EXCEPT ![j] = new]
          BY <3>1
        <5> HIDE DEF j, new
        <5>4. j \in DOMAIN assets' /\ assets'[j] = new
          BY <5>1, <5>3 DEF InventoryInv, InventoryTypeOK
        <5> QED
          BY <2>1, <4>1, <5>2, <5>4 DEF IsSaved, ToSet
      <4>3. files[u].inventory.entries \subseteq EntryDocs
        BY <1>4, <2>1 DEF SaveHolds, InventoryFiles
      <4>4. \A f \in files[u].inventory.entries : IsSaved(u, f) => IsSaved(u, f)'
        BY <2>1, <2>3, <2>6, <3>1, <4>1, <4>3, StaysSaved
      <4> QED
        BY <2>1, <3>2, <3>3, <4>2, <4>4 DEF SavedSoFar
    <3> QED
      BY <1>2, <2>4, <3>1, <3>3 DEF Wrote
  <2> QED
    BY <2>5, <2>6
<1>8. ASSUME NEW u \in Users, AssetsSaved(u)
      PROVE  AllSaved'
  <2>1. /\ UNCHANGED <<project, assets, files, outcome, alone>> /\ saving[u].step = "assets" /\ saving[u].todo = {}
        /\ saving[u].pending = None
    BY <1>4, <1>8 DEF AssetsSaved, Mine, db, SaveHolds
  <2>2. Becomes(u, "create", saving[u].doc, {}, saving[u].missing, None)
    BY <1>8, Becoming
  <2>3. alone[u] => SavedSoFar(u)
    BY <2>1 DEF AllSaved
  <2>4. SavedSoFar(u) => SavedSoFar(u)'
    BY <2>1, <2>2 DEF SavedSoFar, IsSaved, Becomes
  <2> QED
    BY <1>1, <2>1, <2>2, <2>3, <2>4 DEF Becomes
<1>9. ASSUME NEW u \in Users, CreateChecks(u)
      PROVE  AllSaved'
  <2>1. /\ UNCHANGED <<project, assets, files, alone>> /\ saving[u].step = "create" /\ saving[u].todo = {}
        /\ saving[u].pending = None /\ outcome[u] = "none"
    BY <1>4, <1>9 DEF CreateChecks, Mine, db, SaveHolds
  <2>2. alone[u] => SavedSoFar(u)
    BY <2>1 DEF AllSaved
  <2>3. CASE Ends(u, "raised")
    <3>1. outcome'[u] = "raised" /\ saving'[u] = NotSaving
          /\ \A w \in Users \ {u} : outcome'[w] = outcome[w] /\ saving'[w] = saving[w]
      BY <2>3 DEF Ends, InventoryInv, InventoryTypeOK
    <3> QED
      BY <1>1, <2>1, <3>1 DEF NotSaving
  <2>4. CASE outcome' = outcome /\ \E e \in saving[u].missing : Becomes(u, "create", saving[u].doc, {}, saving[u].missing \ {e}, e)
    <3>1. PICK e \in saving[u].missing : Becomes(u, "create", saving[u].doc, {}, saving[u].missing \ {e}, e)
      BY <2>4
    <3>2. \A f : IsSaved(u, f) => IsSaved(u, f)'
      BY <2>1 DEF IsSaved
    <3>3. ASSUME SavedSoFar(u)
          PROVE  SavedSoFar(u)'
      <4>1. saving'[u].step = "create" /\ saving'[u].todo = {} /\ saving'[u].missing = saving[u].missing \ {e}
            /\ saving'[u].pending = e
        BY <3>1 DEF Becomes
      <4>2. ASSUME NEW f \in files[u].inventory.entries
            PROVE  f \in saving'[u].todo \cup saving'[u].missing \cup {saving'[u].pending} \/ IsSaved(u, f)'
        <5>1. f \in saving[u].todo \cup saving[u].missing \cup {saving[u].pending} \/ IsSaved(u, f)
          BY <3>3 DEF SavedSoFar
        <5>2. f # None
          <6>1. files[u].inventory.entries \subseteq EntryDocs
            BY <1>4, <2>1 DEF SaveHolds, InventoryFiles
          <6> QED
            BY <6>1, NoneAssumption
        <5> QED
          BY <2>1, <3>2, <4>1, <5>1, <5>2
      <4> QED
        BY <2>1, <2>4, <3>3, <4>1, <4>2 DEF SavedSoFar
    <3> QED
      BY <1>1, <2>1, <2>2, <2>4, <3>1, <3>3 DEF Becomes
  <2>5. Ends(u, "raised") \/ outcome' = outcome
    BY <1>9 DEF CreateChecks
  <2>6. outcome' = outcome /\ Drops(u) => ~(saving'[u].step \in {"assets", "create", "config"} \/ outcome'[u] = "saved")
    BY <2>1 DEF Drops, Becomes
  <2>7. CASE outcome' = outcome /\ Drops(u)
    BY <1>1, <2>1, <2>6, <2>7 DEF Drops, Becomes
  <2> QED
    BY <1>9, <2>3, <2>4, <2>5, <2>7, Becoming
<1>10. ASSUME NEW u \in Users, CreateInserts(u)
       PROVE  AllSaved'
  <2> PICK e : e = saving[u].pending
    OBVIOUS
  <2> DEFINE a == Asset(e.name, e.silo, e.val)
  <2>1. /\ UNCHANGED <<project, files, outcome>> /\ saving[u].step = "create" /\ e # None /\ Wrote(u)
        /\ assets' = Append(assets, a) /\ saving[u].todo = {} /\ outcome[u] = "none"
    BY <1>4, <1>10 DEF CreateInserts, Mine, SaveHolds
  <2>2. Becomes(u, "create", saving[u].doc, {}, saving[u].missing, None)
    BY <1>10, Becoming
  <2>3. e \in EntryDocs
    BY <1>4, <2>1 DEF SavingType
  <2>4. a \in AssetDocs /\ a.name = e.name /\ a.val = e.val
    BY <2>3, AssetParts
  <2>5. ASSUME SavedSoFar(u)
        PROVE  SavedSoFar(u)'
    <3>1. files[u].inventory.entries \subseteq EntryDocs
      BY <1>4, <2>1 DEF SaveHolds, InventoryFiles
    <3> HIDE DEF a
    <3>2. \A f \in files[u].inventory.entries : IsSaved(u, f) => IsSaved(u, f)'
      BY <2>1, <2>4, <3>1, StaysSaved
    <3>3. a \in ToSet(assets')
      <4>1. Len(assets) \in Nat /\ assets \in Seq(AssetDocs)
        BY DEF InventoryInv, InventoryTypeOK
      <4>2. assets'[Len(assets) + 1] = a /\ Len(assets) + 1 \in DOMAIN assets'
        BY <2>1, <2>4, <4>1
      <4> QED
        BY <4>2 DEF ToSet
    <3>4. e \in files[u].inventory.entries => IsSaved(u, e)'
      BY <2>1, <2>4, <3>3 DEF IsSaved
    <3> QED
      BY <2>1, <2>2, <2>5, <3>2, <3>4 DEF SavedSoFar, Becomes
  <2>6. alone'[u] => SavedSoFar(u)
    BY <2>1 DEF AllSaved, Wrote
  <2> QED
    BY <1>2, <2>1, <2>5, <2>6
<1>11. ASSUME NEW u \in Users, FindConfig(u)
       PROVE  AllSaved'
  <2>1. /\ UNCHANGED <<project, assets, files, alone>> /\ saving[u].step = "create" /\ saving[u].todo = {}
        /\ saving[u].pending = None /\ saving[u].missing = {} /\ outcome[u] = "none"
    BY <1>4, <1>11 DEF FindConfig, Mine, db, SaveHolds
  <2>2. alone[u] => SavedSoFar(u)
    BY <2>1 DEF AllSaved
  <2>3. CASE Ends(u, "raised")
    <3>1. outcome'[u] = "raised" /\ saving'[u] = NotSaving
          /\ \A w \in Users \ {u} : outcome'[w] = outcome[w] /\ saving'[w] = saving[w]
      BY <2>3 DEF Ends, InventoryInv, InventoryTypeOK
    <3> QED
      BY <1>1, <2>1, <3>1 DEF NotSaving
  <2>4. CASE outcome' = outcome /\ Becomes(u, "config", project, {}, {}, None)
    <3>1. SavedSoFar(u) => SavedSoFar(u)'
      BY <2>1, <2>4 DEF SavedSoFar, IsSaved, Becomes
    <3> QED
      BY <1>1, <2>1, <2>2, <2>4, <3>1 DEF Becomes
  <2>5. CASE outcome' = outcome /\ Drops(u)
    BY <1>1, <2>1, <2>5 DEF Drops, Becomes
  <2>6. Ends(u, "raised") \/ outcome' = outcome
    BY <1>11 DEF FindConfig
  <2> QED
    BY <1>11, <2>3, <2>4, <2>5, <2>6, Becoming
<1>12. ASSUME NEW u \in Users, ReplaceConfig(u)
       PROVE  AllSaved'
  <2>1. /\ UNCHANGED <<assets, files>> /\ saving[u].step = "config" /\ saving[u].pending = None
        /\ saving[u].todo = {} /\ saving[u].missing = {} /\ saving[u].doc \in Projects
    BY <1>4, <1>12 DEF ReplaceConfig, Mine, SaveHolds, SavingType
  <2>2. Drops(u)
    BY <1>12, Becoming
  <2>3. alone[u] => SavedSoFar(u)
    BY <2>1 DEF AllSaved
  <2>4. CASE Ends(u, "raised") /\ UNCHANGED <<project, loaded, alone>>
    <3>1. outcome'[u] = "raised" /\ \A w \in Users \ {u} : outcome'[w] = outcome[w]
      BY <2>4 DEF Ends, InventoryInv, InventoryTypeOK
    <3> QED
      BY <1>1, <2>1, <2>2, <2>4, <3>1 DEF Drops, Becomes
  <2>5. CASE project' = [saving[u].doc EXCEPT !.val = files[u].config.val] /\ Ends(u, "saved") /\ Wrote(u)
    <3>1. project'.val = files[u].config.val /\ project'.meta = saving[u].doc.meta
      BY <2>1, <2>5 DEF Projects
    <3>2. SavedSoFar(u) => SavedSoFar(u)'
      BY <2>1, <2>2, <3>1 DEF SavedSoFar, IsSaved, Drops, Becomes
    <3> QED
      BY <1>2, <2>3, <2>5, <3>2 DEF Wrote
  <2> QED
    BY <1>12, <2>4, <2>5 DEF ReplaceConfig
<1>13. CASE AddInserts
  BY <1>13, NoneAssumption DEF AddInserts, Wrote, AllSaved
<1>14. CASE \/ OpenDialog \/ SelectParent \/ AssetsRefreshed \/ UNCHANGED inventoryVars
            \/ \E label \in Labels, silo \in Silos : PressAdd(label, silo)
  <2>1. UNCHANGED <<project, assets, files, saving, outcome, alone>>
    BY <1>14 DEF OpenDialog, SelectParent, AssetsRefreshed, PressAdd, inventoryVars, userVars, db
  <2> QED
    BY <2>1 DEF AllSaved, SavedSoFar, IsSaved
<1> QED
  BY <1>3, <1>5, <1>6, <1>7, <1>8, <1>9, <1>10, <1>11, <1>12, <1>13, <1>14 DEF InventoryNext

\* A save that reports success left all of the inventory and of the
\* configuration in the database, unless somebody else wrote since it began.
THEOREM SavesAreComplete == InventorySpec => []SavedAll
<1>1. InventoryInit => AllSaved
  BY DEF InventoryInit, AllSaved
<1>2. InventoryInv /\ AllSaved => SavedAll
  <2> SUFFICES ASSUME InventoryInv, AllSaved, NEW u \in Users, outcome[u] = "saved", alone[u]
               PROVE  /\ \A e \in files[u].inventory.entries : IsSaved(u, e)
                      /\ files[u].inventory.meta # None => project.meta = files[u].inventory.meta
                      /\ project.val = files[u].config.val
    BY DEF SavedAll, IsSaved
  <2>1. saving[u] = NotSaving
    BY DEF InventoryInv, SaveInv, SaveHolds
  <2>2. SavedSoFar(u)
    BY DEF AllSaved
  <2>3. files[u].inventory \in InventoryFiles
    BY <2>2 DEF SavedSoFar, InventoryInv, InventoryTypeOK, FilesType
  <2>4. None \notin files[u].inventory.entries
    BY <2>3, NoneAssumption DEF InventoryFiles
  <2> QED
    BY <2>1, <2>2, <2>4 DEF SavedSoFar, NotSaving
<1> QED
  BY <1>1, <1>2, InventoryStarts, InventorySteps, SavedSteps, PTL DEF InventorySpec
=============================================================================
