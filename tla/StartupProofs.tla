----------------------------- MODULE StartupProofs -----------------------------
(***************************************************************************)
(* Proofs about Startup, for any number of goroutines and any set of        *)
(* configuration files.                                                     *)
(***************************************************************************)
EXTENDS Startup, TLAPS

\* There is an instance once somebody has been let in, and whoever is past
\* once.Do came after that; its answer is still to come.
OnceInv ==
    /\ instance = "none" <=> once = "new"
    /\ \A p \in knows : instance # "none"
    /\ \A p \in Procs : pc[p] # "idle" => got[p] = "none"
    /\ \A p \in Procs : pc[p] \in {"data", "auth"} => file[p] # None

\* A running service was made from its file by New's last step.
ServiceInv ==
    service # None =>
        \E f \in Files :
            /\ f.enabled => Acceptable(f.users)
            /\ service = [file |-> f, timeout |-> Duration(FillDefaults(f.timeout)),
                          auth |-> IF f.enabled THEN f.users ELSE None]

IndInv == TypeOK /\ OnceInv /\ InitThenInstance /\ ServiceInv

-----------------------------------------------------------------------------
LEMMA InitInv == Init => IndInv
BY NamesAssumption DEF Init, IndInv, TypeOK, OnceInv, InitThenInstance, ServiceInv, Logs

LEMMA CallStep ==
    ASSUME IndInv, NEW p \in Procs,
           (\E l \in Logs : CallInit(p, l)) \/ (\E f \in Files : CallNew(p, f))
    PROVE  IndInv'
<1>1. PICK l \in Logs, g \in Files \union {None} :
         /\ pc[p] = "idle" /\ pc' = [pc EXCEPT ![p] = "once"]
         /\ log' = [log EXCEPT ![p] = l] /\ file' = [file EXCEPT ![p] = g]
         /\ got' = [got EXCEPT ![p] = "none"]
         /\ UNCHANGED <<once, instance, knows, service>>
  <2>1. CASE \E l \in Logs : CallInit(p, l)
    <3>1. file' = [file EXCEPT ![p] = file[p]] /\ file[p] \in Files \union {None}
      BY <2>1 DEF CallInit, IndInv, TypeOK
    <3> QED  BY <2>1, <3>1 DEF CallInit
  <2>2. CASE \E f \in Files : CallNew(p, f)
    BY <2>2 DEF CallNew, Logs
  <2> QED  BY <2>1, <2>2
<1>2. TypeOK'
  BY <1>1 DEF IndInv, TypeOK
<1>3. OnceInv' /\ InitThenInstance'
  BY <1>1 DEF IndInv, TypeOK, OnceInv, InitThenInstance
<1>4. ServiceInv'
  BY <1>1 DEF IndInv, ServiceInv
<1> QED  BY <1>2, <1>3, <1>4 DEF IndInv

LEMMA FirstStep ==
    ASSUME IndInv, NEW p \in Procs, First(p)
    PROVE  IndInv'
<1>1. TypeOK'
  BY NamesAssumption DEF First, IndInv, TypeOK, Logs
<1>2. OnceInv' /\ InitThenInstance'
  BY NamesAssumption DEF First, IndInv, TypeOK, OnceInv, InitThenInstance, Logs
<1>3. ServiceInv'
  BY DEF First, IndInv, ServiceInv
<1> QED  BY <1>1, <1>2, <1>3 DEF IndInv

LEMMA ReturnStep ==
    ASSUME IndInv, NEW p \in Procs, MakeLogs(p) \/ Later(p)
    PROVE  IndInv'
<1>1. PICK l \in {"idle", "data"} :
         /\ pc[p] \in {"once", "logs"} /\ pc' = [pc EXCEPT ![p] = l]
         /\ l = "data" => file[p] # None
         /\ pc[p] = "once" => once = "done"
         /\ once' = "done" /\ knows' = knows \union {p}
         /\ UNCHANGED <<instance, log, file, got, service>>
  BY DEF MakeLogs, Later, InitReturns
<1>2. once # "new" /\ instance # "none"
  BY <1>1, NamesAssumption DEF IndInv, TypeOK, OnceInv
<1>3. TypeOK'
  BY <1>1, <1>2, NamesAssumption DEF IndInv, TypeOK
<1>4. OnceInv' /\ InitThenInstance'
  BY <1>1, <1>2 DEF IndInv, TypeOK, OnceInv, InitThenInstance
<1>5. ServiceInv'
  BY <1>1 DEF IndInv, ServiceInv
<1> QED  BY <1>3, <1>4, <1>5 DEF IndInv

LEMMA GetInstanceStep ==
    ASSUME IndInv, NEW p \in Procs, GetInstance(p)
    PROVE  IndInv'
<1>1. PICK g \in Logs \union {"error"} :
         /\ pc[p] = "idle" /\ got' = [got EXCEPT ![p] = g]
         /\ p \in knows => g # "error"
         /\ UNCHANGED <<once, instance, pc, log, file, knows, service>>
  BY DEF GetInstance, IndInv, TypeOK, OnceInv, Logs
<1>2. TypeOK'
  BY <1>1 DEF IndInv, TypeOK
<1>3. OnceInv' /\ InitThenInstance'
  BY <1>1 DEF IndInv, TypeOK, OnceInv, InitThenInstance
<1>4. ServiceInv'
  BY <1>1 DEF IndInv, ServiceInv
<1> QED  BY <1>2, <1>3, <1>4 DEF IndInv

LEMMA MakeDataStep ==
    ASSUME IndInv, NEW p \in Procs, MakeData(p)
    PROVE  IndInv'
<1>1. TypeOK'
  BY DEF MakeData, IndInv, TypeOK
<1>2. OnceInv' /\ InitThenInstance'
  BY DEF MakeData, IndInv, TypeOK, OnceInv, InitThenInstance
<1>3. ServiceInv'
  BY DEF MakeData, IndInv, ServiceInv
<1> QED  BY <1>1, <1>2, <1>3 DEF IndInv

\* A time-out is an integer and, if the setting fits, positive.
LEMMA DefaultsPositive ==
    ASSUME NEW timeout \in Int
    PROVE  /\ Duration(FillDefaults(timeout)) \in Int
           /\ timeout * Second < Half => Duration(FillDefaults(timeout)) > 0
<1> DEFINE d == FillDefaults(timeout) * Second
<1>1. FillDefaults(timeout) \in Nat \ {0} /\ d \in Nat \ {0}
  BY TimeAssumption DEF FillDefaults
<1>2. timeout * Second < Half => d < Half
  BY TimeAssumption DEF FillDefaults
<1>3. 2 * Half \in Nat \ {0} /\ Half \in Int
  BY TimeAssumption
<1>4. (d + Half) % (2 * Half) \in Int
  <2> HIDE DEF d
  <2> QED  BY <1>1, <1>3
<1>5. Duration(FillDefaults(timeout)) =
        IF d \in (-Half)..(Half - 1) THEN d ELSE ((d + Half) % (2 * Half)) - Half
  BY DEF Duration
<1> HIDE DEF d
<1> QED  BY <1>1, <1>2, <1>3, <1>4, <1>5

LEMMA ConfigureStep ==
    ASSUME IndInv, NEW p \in Procs, Configure(p)
    PROVE  IndInv'
<1> DEFINE f == file[p]
           server == [file |-> f, timeout |-> Duration(FillDefaults(f.timeout)),
                      auth |-> IF f.enabled THEN f.users ELSE None]
<1>1. f \in Files /\ f \in File
  BY FilesAssumption DEF Configure, IndInv, TypeOK, OnceInv
<1>2. /\ pc[p] = "auth" /\ pc' = [pc EXCEPT ![p] = "idle"] /\ file' = [file EXCEPT ![p] = None]
      /\ UNCHANGED <<once, instance, log, got, knows>>
  BY DEF Configure
<1>3. \/ service' = service
      \/ (f.enabled => Acceptable(f.users)) /\ service' = server
  BY DEF Configure
<1>4. server.file \in Files /\ server.timeout \in Int /\ server.auth \in Seq(User) \union {None}
  <2>1. f.timeout \in Int /\ f.users \in Seq(User)
    BY <1>1, TimeAssumption DEF File
  <2> QED  BY <2>1, <1>1, DefaultsPositive
<1> HIDE DEF server
<1>5. TypeOK'
  BY <1>2, <1>3, <1>4 DEF IndInv, TypeOK
<1>6. OnceInv' /\ InitThenInstance'
  BY <1>2 DEF IndInv, TypeOK, OnceInv, InitThenInstance
<1>7. ServiceInv'
  <2>1. CASE service' = service
    BY <2>1 DEF IndInv, ServiceInv
  <2>2. CASE (f.enabled => Acceptable(f.users)) /\ service' = server
    <3> HIDE DEF f
    <3> QED  BY <1>1, <2>2 DEF server, ServiceInv
  <2> QED  BY <1>3, <2>1, <2>2
<1> QED  BY <1>5, <1>6, <1>7 DEF IndInv

LEMMA Step == IndInv /\ [Next]_vars => IndInv'
<1> SUFFICES ASSUME IndInv, [Next]_vars PROVE IndInv'
  OBVIOUS
<1>1. CASE UNCHANGED vars
  BY <1>1 DEF vars, IndInv, TypeOK, OnceInv, InitThenInstance, ServiceInv
<1>2. CASE Next
  BY <1>2, CallStep, FirstStep, ReturnStep, GetInstanceStep, MakeDataStep, ConfigureStep
     DEF Next, Proceed
<1> QED  BY <1>1, <1>2

THEOREM Inductive == Spec => []IndInv
BY InitInv, Step, PTL DEF Spec

\* The globals of the library and of the service stay of their types.
THEOREM TypeCorrect == Spec => []TypeOK
BY Inductive, PTL DEF IndInv

-----------------------------------------------------------------------------
(* The library.                                                            *)

\* Whoever Init has returned to gets the instance (InitThenInstance).
THEOREM InitBeforeUse == Spec => []InitThenInstance
BY Inductive, PTL DEF IndInv

\* The instance is set by the first goroutine and by nobody else (ConfigSticks).
THEOREM ConfiguredOnce == Spec => ConfigSticks
<1>1. IndInv /\ [Next]_vars => [instance # "none" => UNCHANGED instance]_vars
  <2> SUFFICES ASSUME IndInv, Next, instance # "none" PROVE instance' = instance
    BY DEF vars
  <2>1. once # "new"
    BY DEF IndInv, OnceInv
  <2> QED
    BY <2>1 DEF Next, Proceed, First, MakeLogs, Later, MakeData, Configure, GetInstance,
                CallInit, CallNew
<1> QED  BY <1>1, Inductive, PTL DEF Spec, ConfigSticks

-----------------------------------------------------------------------------
(* The users.                                                              *)

\* Authentication looks a username up and finds the one user of that name, if
\* there is one.
LEMMA EntryIsUser ==
    ASSUME NEW users \in Seq(User), Acceptable(users), NEW username
    PROVE  /\ Entry(users, username) # None =>
                \E i \in DOMAIN users :
                    Entry(users, username) = users[i] /\ TrimSpace(users[i].username) = username
           /\ \A i \in DOMAIN users :
                TrimSpace(users[i].username) = username => Entry(users, username) = users[i]
<1> DEFINE at == {i \in DOMAIN users : TrimSpace(users[i].username) = username}
           pick == CHOOSE i \in at : \A j \in at : j <= i
<1>1. Entry(users, username) = IF at = {} THEN None ELSE users[pick]
  BY DEF Entry
<1>2. \A i, j \in at : i = j
  BY DEF Acceptable
<1>3. \A i \in at : i \in Nat
  OBVIOUS
<1>4. at # {} => pick \in at
  <2> SUFFICES ASSUME NEW k \in at PROVE pick \in at
    OBVIOUS
  <2>1. \A j \in at : j <= k
    BY <1>2, <1>3
  <2> HIDE DEF at
  <2> QED  BY <2>1
<1> QED  BY <1>1, <1>2, <1>4

LEMMA Serving ==
    ASSUME IndInv, service # None
    PROVE  /\ service.file \in Files /\ service.file.users \in Seq(User)
           /\ service.timeout = Duration(FillDefaults(service.file.timeout))
           /\ service.auth = IF service.file.enabled THEN service.file.users ELSE None
           /\ service.file.enabled => Acceptable(service.file.users)
           /\ service.file.users # None /\ service.file.timeout \in Int
<1>1. PICK f \in Files :
         /\ f.enabled => Acceptable(f.users)
         /\ service = [file |-> f, timeout |-> Duration(FillDefaults(f.timeout)),
                       auth |-> IF f.enabled THEN f.users ELSE None]
  BY DEF IndInv, ServiceInv
<1>2. /\ service.file = f /\ service.timeout = Duration(FillDefaults(f.timeout))
      /\ service.auth = IF f.enabled THEN f.users ELSE None
  BY <1>1
<1>3. f.users \in Seq(User) /\ f.timeout \in Int /\ f.users # None
  BY FilesAssumption, NamesAssumption, TimeAssumption DEF File
<1> QED  BY <1>1, <1>2, <1>3

\* With authentication on, what is served belongs to a user of the file who may
\* have it (OnlyUsersServed).
THEOREM NobodyElseServed == Spec => []OnlyUsersServed
<1>1. IndInv => OnlyUsersServed
  <2> SUFFICES ASSUME IndInv, service # None, service.file.enabled
               PROVE  /\ \A op \in Ops \ {"health"} : Status(op, None) = 401
                      /\ \A op \in Ops \ {"health"}, cred \in Credentials :
                           Status(op, cred) = 200 =>
                               \E i \in DOMAIN service.file.users :
                                   Owner(i, BasicAuth(cred)) /\ (op \in Writes => ~service.file.users[i].readonly)
    BY DEF OnlyUsersServed
  <2> DEFINE users == service.file.users
  <2>1. service.auth = users /\ users # None /\ users \in Seq(User) /\ Acceptable(users)
    BY Serving
  <2>2. \A op \in Ops \ {"health"} : Status(op, None) = 401
    BY <2>1 DEF Status
  <2>3. ASSUME NEW op \in Ops \ {"health"}, NEW cred \in Credentials, Status(op, cred) = 200
        PROVE  \E i \in DOMAIN users :
                   Owner(i, BasicAuth(cred)) /\ (op \in Writes => ~users[i].readonly)
    <3> DEFINE entry == Entry(users, BasicAuth(cred).username)
    <3>1. /\ Authenticate(cred) # None /\ (op \in Writes => ~Authenticate(cred).readonly)
      BY <2>1, <2>3 DEF Status
    <3>2. entry # None /\ entry.password.secret = BasicAuth(cred).secret /\ Authenticate(cred) = entry
      BY <2>1, <3>1 DEF Authenticate
    <3>3. PICK i \in DOMAIN users :
             entry = users[i] /\ TrimSpace(users[i].username) = BasicAuth(cred).username
      BY <2>1, <3>2, EntryIsUser
    <3> QED  BY <3>1, <3>2, <3>3 DEF Owner
  <2> QED  BY <2>2, <2>3
<1> QED  BY <1>1, Inductive, PTL

\* Whoever a running service has as a user can log in to it, if there is no
\* colon in the name (UsersCanLogIn).
THEOREM NobodyLockedOut == Spec => []UsersCanLogIn
<1>1. IndInv => UsersCanLogIn
  <2> SUFFICES ASSUME IndInv, service # None, service.file.enabled,
                      NEW i \in DOMAIN service.file.users, NEW cred \in Credentials,
                      Owner(i, cred), Whole(cred.username.name), NEW op \in Ops
               PROVE  Status(op, cred) =
                        IF op \in Writes /\ service.file.users[i].readonly THEN 403 ELSE 200
    BY DEF UsersCanLogIn
  <2> DEFINE users == service.file.users
  <2>1. service.auth = users /\ users # None /\ users \in Seq(User) /\ Acceptable(users)
    BY Serving
  <2>2. BasicAuth(cred) = cred
    BY DEF BasicAuth
  <2>3. TrimSpace(users[i].username) = cred.username /\ users[i].password.secret = cred.secret
    BY DEF Owner
  <2>4. Entry(users, cred.username) = users[i]
    BY <2>1, <2>3, EntryIsUser
  <2>5. cred # None /\ users[i] # None
    BY <2>1, NamesAssumption
  <2>6. Authenticate(cred) = users[i]
    BY <2>1, <2>2, <2>3, <2>4, <2>5 DEF Authenticate
  <2> QED  BY <2>1, <2>5, <2>6 DEF Status, Ops, Writes
<1> QED  BY <1>1, Inductive, PTL

\* A service asks for passwords as its file says, and has a positive time-out
\* unless the setting overflows (RunsAsConfigured).
THEOREM SettingsHold == Spec => []RunsAsConfigured
<1>1. IndInv => RunsAsConfigured
  BY Serving, DefaultsPositive DEF RunsAsConfigured, Acceptable
<1> QED  BY <1>1, Inductive, PTL

=============================================================================
