-------------------------------- MODULE Startup --------------------------------
(***************************************************************************)
(* How a program gets to an initialised library and a running service, and  *)
(* whom the service then lets in: Init and GetInstance (zvec.go),           *)
(* LoadConfig (server/config.go), New (server/server.go), NewAuthenticator, *)
(* requireAuth (server/auth.go) and requireWritable (server/handlers.go).   *)
(*                                                                          *)
(* The goroutines of one program call Init, GetInstance and New at any      *)
(* time; New calls Init.  What the handlers do with a request that is let   *)
(* in is Manager's subject.                                                 *)
(***************************************************************************)
EXTENDS Integers, Sequences

CONSTANTS
    Procs,   \* the goroutines of the program
    Files,   \* the configuration files it may find
    Names,   \* usernames, trimmed
    Blank,   \* the empty one
    Secrets, \* passwords as their users type them
    Before,  \* per username, what comes before its first colon: all of it, without one
    Rest,    \* per username with a colon and password: what follows that colon,
             \* another colon and the password
    Second,  \* time.Second, a billion nanoseconds
    Half,    \* 2^63: a time.Duration is less
    Default, \* of a time-out: 30 seconds to read and to write, 10 to shut down
    None     \* absence

\* A username as written in the file, or as sent: spaces in front of it count.
Spelling == [name : Names, padded : BOOLEAN]
TrimSpace(username) == [username EXCEPT !.padded = FALSE]

\* A password in the file: the secret itself, its SHA-256, or "sha256:" and
\* something else.
Password == [form : {"plain", "sha256", "malformed"}, secret : Secrets]

User == [username : Spelling, password : Password, readonly : BOOLEAN]

\* What HTTP Basic carries.
Credentials == [username : Spelling, secret : Secrets]

\* A JSON document, what follows it, and the settings it makes: one time-out
\* for the three, and whether authentication is on.
File ==
    [parses : BOOLEAN, tail : {"none", "closers", "more"}, timeout : (-Half)..(Half - 1),
     enabled : BOOLEAN, users : Seq(User)]

\* A username without a colon.
Whole(name) == Before[name] = [name |-> name, padded |-> FALSE]

ASSUME TimeAssumption ==
    /\ {Second, Half, Default} \subseteq Nat \ {0}
    /\ Default * Second < Half

ASSUME FilesAssumption == Files \subseteq File

ASSUME NamesAssumption ==
    /\ Blank \in Names
    /\ Before \in [Names -> Spelling] /\ \A n \in Names : Whole(Before[n].name)
    /\ Rest \in [Names -> [Secrets -> Secrets]]
    /\ None \notin Procs \union Files \union Credentials \union User
    /\ \A f \in Files : f.users # None
    /\ Procs \intersect {"new", "done"} = {}

Logs == {"console", "file"}
Writes == {"create", "drop", "upsert", "delete"}
Ops == Writes \union {"read", "health"}

VARIABLES
    once,      \* sync.Once: "new", the goroutine inside, "done"
    instance,  \* the configuration globalZvec holds
    pc,        \* per goroutine: "idle", or how far its Init or New is
    log,       \* the log type of the configuration it calls Init with
    file,      \* the file its New works from; None outside a New
    got,       \* what its last GetInstance returned
    knows,     \* the goroutines Init has returned to
    service    \* the running Server: its file, its time-out, its users

vars == <<once, instance, pc, log, file, got, knows, service>>

TypeOK ==
    /\ once \in {"new", "done"} \union Procs
    /\ instance \in Logs \union {"none"}
    /\ pc \in [Procs -> {"idle", "once", "logs", "data", "auth"}]
    /\ log \in [Procs -> Logs]
    /\ file \in [Procs -> Files \union {None}]
    /\ got \in [Procs -> Logs \union {"none", "error"}]
    /\ knows \in SUBSET Procs
    /\ service # None =>
         service.file \in Files /\ service.timeout \in Int /\ service.auth \in Seq(User) \union {None}
    /\ \A p \in Procs : pc[p] = "logs" <=> once = p

Init ==
    /\ once = "new" /\ instance = "none"
    /\ pc = [p \in Procs |-> "idle"] /\ log = [p \in Procs |-> "console"]
    /\ file = [p \in Procs |-> None]
    /\ got = [p \in Procs |-> "none"] /\ knows = {}
    /\ service = None

-----------------------------------------------------------------------------
(* Init and GetInstance.                                                   *)

\* The program calls Init, with a configuration that logs so.
CallInit(p, l) ==
    /\ pc[p] = "idle"
    /\ pc' = [pc EXCEPT ![p] = "once"]
    /\ log' = [log EXCEPT ![p] = l]
    /\ got' = [got EXCEPT ![p] = "none"]
    /\ UNCHANGED <<once, instance, file, knows, service>>

\* Init returns nil to p: to the program, or to New, which goes on.
InitReturns(p) ==
    /\ pc' = [pc EXCEPT ![p] = IF file[p] = None THEN "idle" ELSE "data"]
    /\ knows' = knows \union {p}

\* Mutant: "is it done already?", asked without a lock.
FirstUnchecked(p) ==
    /\ pc[p] = "once" /\ once # "done"
    /\ once' = p
    /\ instance' = log[p]
    /\ pc' = [pc EXCEPT ![p] = "logs"]
    /\ UNCHANGED <<log, file, got, knows, service>>

\* once.Do: the first goroutine to come runs it, and sets globalZvec.
First(p) ==
    /\ pc[p] = "once" /\ once = "new"
    /\ once' = p
    /\ instance' = log[p]
    /\ pc' = [pc EXCEPT ![p] = "logs"]
    /\ UNCHANGED <<log, file, got, knows, service>>

\* Mutant: a lock and a flag, the lock kept on the way out with an error.
MakeLogsKeepingLock(p) ==
    /\ pc[p] = "logs"
    /\ \/ InitReturns(p) /\ once' = "done"
       \/ /\ log[p] = "file"
          /\ pc' = [pc EXCEPT ![p] = "idle"] /\ knows' = knows \union {p}
          /\ UNCHANGED once
    /\ UNCHANGED <<instance, log, file, got, service>>

\* It makes the log directory.  The call is over for once, and the instance
\* there to be got, even if that fails.
MakeLogs(p) ==
    /\ pc[p] = "logs"
    /\ once' = "done"
    /\ \/ InitReturns(p)
       \/ /\ log[p] = "file"
          /\ pc' = [pc EXCEPT ![p] = "idle"] /\ knows' = knows \union {p}
    /\ UNCHANGED <<instance, log, file, got, service>>

\* Mutant: a flag that is set before the instance is there, in place of once.
LaterUnwaiting(p) ==
    /\ pc[p] = "once" /\ (once # "new" \/ \E q \in Procs \ {p} : pc[q] = "once")
    /\ InitReturns(p)
    /\ UNCHANGED <<once, instance, log, file, got, service>>

\* The others wait until it is over, and do nothing.
Later(p) ==
    /\ pc[p] = "once" /\ once = "done"
    /\ InitReturns(p)
    /\ UNCHANGED <<once, instance, log, file, got, service>>

\* GetInstance reads globalZvec without a lock.  Before Init has returned to it
\* a goroutine may or may not see what another has written there.
GetInstance(p) ==
    /\ pc[p] = "idle"
    /\ \E seen \in (IF p \in knows THEN {instance} ELSE {"none", instance}) :
         got' = [got EXCEPT ![p] = IF seen = "none" THEN "error" ELSE seen]
    /\ UNCHANGED <<once, instance, pc, log, file, knows, service>>

-----------------------------------------------------------------------------
(* LoadConfig and New.                                                     *)

\* Mutant: == 0.
FillDefaultsForZero(timeout) == IF timeout = 0 THEN Default ELSE timeout

FillDefaults(timeout) == IF timeout <= 0 THEN Default ELSE timeout

\* Seconds as a time.Duration, a product of two 64-bit integers.
Duration(seconds) ==
    LET d == seconds * Second
    IN IF d \in (-Half)..(Half - 1) THEN d ELSE ((d + Half) % (2 * Half)) - Half

\* Decoder.More reports no more before a closing bracket or brace.
LoadConfig(f) == f.parses /\ f.tail # "more"

\* main loads its file, which changes nothing if that fails, and calls New,
\* which calls Init(nil).  The program makes one server.
CallNew(p, f) ==
    /\ service = None /\ pc[p] = "idle" /\ \A q \in Procs : file[q] = None
    /\ LoadConfig(f)
    /\ pc' = [pc EXCEPT ![p] = "once"]
    /\ log' = [log EXCEPT ![p] = "console"]
    /\ file' = [file EXCEPT ![p] = f]
    /\ got' = [got EXCEPT ![p] = "none"]
    /\ UNCHANGED <<once, instance, knows, service>>

\* The data directory is made and the collections in it are opened, or New
\* returns an error.
MakeData(p) ==
    /\ pc[p] = "data"
    /\ \/ pc' = [pc EXCEPT ![p] = "auth"] /\ UNCHANGED file
       \/ pc' = [pc EXCEPT ![p] = "idle"] /\ file' = [file EXCEPT ![p] = None]
    /\ UNCHANGED <<once, instance, log, got, knows, service>>

\* Mutant: the check for duplicates looks at names as they are written.
AcceptableAsWritten(users) ==
    /\ users # <<>>
    /\ \A i \in DOMAIN users :
         users[i].username.name # Blank /\ users[i].password.form # "malformed"
    /\ \A i, j \in DOMAIN users : users[i].username = users[j].username => i = j

\* NewAuthenticator takes users that have distinct names and well-formed
\* passwords, and at least one.
Acceptable(users) ==
    /\ users # <<>>
    /\ \A i \in DOMAIN users :
         users[i].username.name # Blank /\ users[i].password.form # "malformed"
    /\ \A i, j \in DOMAIN users :
         TrimSpace(users[i].username) = TrimSpace(users[j].username) => i = j

\* What a.users has under a username: the last user that was put there.
Entry(users, username) ==
    LET at == {i \in DOMAIN users : TrimSpace(users[i].username) = username}
    IN IF at = {} THEN None ELSE users[CHOOSE i \in at : \A j \in at : j <= i]

\* New ends with a Server, or an error about the users.
Configure(p) ==
    /\ pc[p] = "auth"
    /\ pc' = [pc EXCEPT ![p] = "idle"]
    /\ file' = [file EXCEPT ![p] = None]
    /\ LET f == file[p]
           server == [file |-> f, timeout |-> Duration(FillDefaults(f.timeout)),
                      auth |-> IF f.enabled THEN f.users ELSE None]
       IN service' = IF f.enabled => Acceptable(f.users) THEN server ELSE service
    /\ UNCHANGED <<once, instance, log, got, knows>>

-----------------------------------------------------------------------------
(* Requests: what one with these credentials, or none, is answered by a     *)
(* running service.                                                        *)

\* What the service gets of it: r.BasicAuth cuts what was sent, the username, a
\* colon and the password, at the first colon.
BasicAuth(cred) ==
    LET n == cred.username.name
    IN IF Whole(n) THEN cred
       ELSE [username |-> [name |-> Before[n].name,
                           padded |-> cred.username.padded \/ Before[n].padded],
             secret |-> Rest[n][cred.secret]]

\* The user whose credentials these are.  Equal hashes are equal secrets.
Authenticate(cred) ==
    LET received == BasicAuth(cred)
        entry == Entry(service.auth, received.username)
    IN IF entry # None /\ entry.password.secret = received.secret THEN entry ELSE None

\* Mutant: a handler that forgets to ask requireWritable.
StatusUnlessUpsert(op, cred) ==
    IF op = "health" \/ service.auth = None THEN 200
    ELSE IF cred = None \/ Authenticate(cred) = None THEN 401
    ELSE IF op \in Writes \ {"upsert"} /\ Authenticate(cred).readonly THEN 403 ELSE 200

\* The health check is public; requireAuth stands before every other handler
\* and requireWritable first in those that write.  200: the handler runs.
Status(op, cred) ==
    IF op = "health" \/ service.auth = None THEN 200
    ELSE IF cred = None \/ Authenticate(cred) = None THEN 401
    ELSE IF op \in Writes /\ Authenticate(cred).readonly THEN 403 ELSE 200

-----------------------------------------------------------------------------
Proceed(p) == First(p) \/ MakeLogs(p) \/ Later(p) \/ MakeData(p) \/ Configure(p)

Next ==
    \E p \in Procs :
        \/ Proceed(p) \/ GetInstance(p)
        \/ (\E l \in Logs : CallInit(p, l))
        \/ (\E f \in Files : CallNew(p, f))

\* Goroutines are scheduled; those that wait for once are woken when it is over.
Spec == Init /\ [][Next]_vars /\ \A p \in Procs : WF_vars(Proceed(p))

-----------------------------------------------------------------------------
(* Properties.                                                             *)

\* A goroutine that Init has returned to, be it with nil because another ran it
\* first or with an error, gets the instance ("Must be called after Init.",
\* zvec.go:82).
InitThenInstance == \A p \in knows : got[p] # "error"

\* The instance is configured once: the library never changes its configuration
\* under a goroutine that has got it, however many call Init and New at a time.
ConfigSticks == [][instance # "none" => UNCHANGED instance]_vars

\* Every Init and every New returns, also when the one that ran first failed.
CallsReturn == \A p \in Procs : pc[p] # "idle" ~> pc[p] = "idle"

Owner(i, cred) ==
    LET u == service.file.users[i]
    IN TrimSpace(u.username) = cred.username /\ u.password.secret = cred.secret

\* With authentication on, a handler runs only for somebody who sent the
\* password of a user in the file, and changes data only for one who is not
\* "readonly" there ("cannot create/modify/drop collections or documents",
\* config.go:38), across trimming, duplicates and the three kinds of passwords.
OnlyUsersServed ==
    service # None /\ service.file.enabled =>
        /\ \A op \in Ops \ {"health"} : Status(op, None) = 401
        /\ \A op \in Ops \ {"health"}, cred \in Credentials :
             Status(op, cred) = 200 =>
                 \E i \in DOMAIN service.file.users :
                     Owner(i, BasicAuth(cred)) /\ (op \in Writes => ~service.file.users[i].readonly)

\* No configuration a service starts with locks one of its users out: each is
\* served under the trimmed name, but for names with a colon.
UsersCanLogIn ==
    service # None /\ service.file.enabled =>
        \A i \in DOMAIN service.file.users, cred \in Credentials :
            Owner(i, cred) /\ Whole(cred.username.name) =>
                \A op \in Ops : Status(op, cred) =
                    IF op \in Writes /\ service.file.users[i].readonly THEN 403 ELSE 200

\* A service that runs asks for passwords if its file says so, and then "at
\* least one user" can have one (config.go:61-63); and no setting that is a
\* time.Duration makes a time-out that strikes at once.  (Larger ones overflow,
\* some into negative time-outs.)
RunsAsConfigured ==
    service # None =>
        /\ service.file.timeout * Second < Half => service.timeout > 0
        /\ (service.auth = None) = ~service.file.enabled
        /\ service.file.enabled => service.auth # <<>>

=============================================================================
