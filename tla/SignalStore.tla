----------------------------- MODULE SignalStore -----------------------------
(***************************************************************************)
(* The database of the signaling server and the processes that share it:   *)
(* `peersh-signaling serve`, which migrates the schema, seeds the PSKs of  *)
(* its configuration and then authenticates, and the `psk` commands of the *)
(* operator, each a process of its own.  SQLite makes one statement atomic *)
(* and nothing more: no command runs in a transaction, and any process may *)
(* die between two statements.                                             *)
(*                                                                         *)
(* A row of psk_records is its secret and whether revoked_at is set.  The  *)
(* secret of a configured entry is Configured; AddPSK draws a fresh one.   *)
(* A server with the Firestore backend keeps no PSKs at all, while the     *)
(* commands always open SQLite.                                            *)
(***************************************************************************)
EXTENDS Naturals, Sequences, SequencesExt

CONSTANTS
  User,
  Admin,      \* processes that run psk commands
  Server,     \* the process that runs serve
  Register,   \* Registers that the server authenticates at a time
  Configs,    \* what the operator may have configured
  Statements, \* statements of the migration
  NoUser,
  MaxSecret   \* bound: secrets that AddPSK draws

Configured == 0

\* An entry of bootstrap_psks: hex, its secret decodes; whole, it has the form
\* that the environment variable asks for.
Entry == [user : User, hex : BOOLEAN, whole : BOOLEAN]

\* The TOML file, or the defaults, and the environment.  sound is what else
\* there is to validate: the addresses, TLS, the Firebase project, the clock.
Config ==
  [file : [backend : STRING, boot : Seq({e \in Entry : e.whole})],
   env : [backend : STRING, boot : Seq(Entry)], sound : BOOLEAN]

ASSUME StoreAssumption ==
  /\ Configs \subseteq Config
  /\ Server \notin Admin /\ NoUser \notin User
  /\ Statements \in Nat \ {0} /\ MaxSecret \in Nat

Process == Admin \cup {Server}

\* A Register in Provider.Authenticate: the user and the secret of the record it
\* has read.  late, a history field: that secret had been reported as revoked by
\* then.
Call == [at : {"read", "accepted"}, user : User, secret : 0 .. MaxSecret, late : BOOLEAN]
NoCall == [at |-> "none"]
Row     == [secret : 0 .. MaxSecret, revoked : BOOLEAN]
NoRow   == [secret |-> Configured, revoked |-> TRUE]

VARIABLES
  config,     \* the file and the environment
  tables,     \* statements of the migration that have taken effect
  version,    \* whether schema_migrations holds the version
  psks,       \* psk_records: a function on the users that have a row
  users,      \* the users table
  pc,         \* where a process is; "off" if it does not run
  cmd, user,  \* a psk command and its argument
  rec,        \* the row a command has read
  done,       \* statements of the migration a process has executed, and the
              \* entries a server has applied
  next,       \* the next fresh secret
  call,       \* what the server authenticates
  \* history
  retired,    \* secrets that a psk revoke has reported as revoked
  printed     \* user -> secret that psk add printed, 0 if it has been replaced
              \* since, or if another command for the user overlapped

dbVars   == <<tables, version, psks, users>>
procVars == <<pc, cmd, user, rec, done>>
histVars == <<retired, printed>>
vars == <<config, dbVars, procVars, next, call, histVars>>

Init ==
  /\ config \in Configs
  /\ tables = 0 /\ version = FALSE
  /\ psks = [u \in {} |-> NoRow] /\ users = {}
  /\ pc = [p \in Process |-> "off"]
  /\ cmd = [a \in Admin |-> "list"] /\ user = [a \in Admin |-> NoUser]
  /\ rec = [a \in Admin |-> NoRow]
  /\ done = [p \in Process |-> 0]
  /\ next = 1
  /\ call = [r \in Register |-> NoCall]
  /\ retired = {} /\ printed = [u \in User |-> 0]

-----------------------------------------------------------------------------
(* config.Load.                                                            *)

\* applyEnv: the environment overrides the file.
StoreBackend ==
  IF config.env.backend = "" THEN config.file.backend ELSE config.env.backend

\* The entries of the environment are appended.
BootstrapPSKs == config.file.boot \o config.env.boot

\* parseBootstrapPSKs drops what does not parse, applyBootstrapPSKs skips a
\* secret_hex that does not decode.
Usable(e) == e.whole /\ e.hex

Sqlite == StoreBackend = "sqlite"

\* The users whose row the server writes at its start.
BootUser == {e.user : e \in {x \in ToSet(BootstrapPSKs) : Usable(x)}}

Validate == StoreBackend \in {"sqlite", "firestore"} /\ config.sound

\* A program that is started with a configuration that is not valid ends.
BadConfig == ~Validate /\ UNCHANGED vars

-----------------------------------------------------------------------------

Put(u, row) ==
  psks' = [v \in DOMAIN psks \cup {u} |-> IF v = u THEN row ELSE psks[v]]

Goto(p, l) == pc' = [pc EXCEPT ![p] = l]

\* A process ends, by itself or by a signal; nothing of it is left.
Exit(p) ==
  /\ pc' = [pc EXCEPT ![p] = "off"] /\ done' = [done EXCEPT ![p] = 0]
  /\ IF p \in Admin
     THEN /\ user' = [user EXCEPT ![p] = NoUser] /\ cmd' = [cmd EXCEPT ![p] = "list"]
          /\ rec' = [rec EXCEPT ![p] = NoRow] /\ UNCHANGED call
     ELSE call' = [r \in Register |-> NoCall] /\ UNCHANGED <<user, cmd, rec>>

-----------------------------------------------------------------------------
(* Opening the database.                                                   *)

\* runPSK: a command is given, with a user if it needs one.  SQLite is
\* opened, whatever store_backend says.
Command(a, c, u) ==
  /\ pc[a] = "off" /\ Validate
  /\ Goto(a, "open")
  /\ cmd' = [cmd EXCEPT ![a] = c] /\ user' = [user EXCEPT ![a] = u]
  /\ UNCHANGED <<config, dbVars, rec, done, next, call, histVars>>

\* runServe.  With the Firestore backend there is nothing to migrate.
Serve ==
  /\ pc[Server] = "off" /\ Validate
  /\ Goto(Server, IF Sqlite THEN "open" ELSE "boot")
  /\ UNCHANGED <<config, dbVars, cmd, user, rec, call, done, next, histVars>>

Ready(p) == IF p = Server THEN "boot" ELSE "lookup"

\* Mutation: the version is recorded before the statements.
OpenDBRecordsFirst(p) ==
  /\ pc[p] = "open"
  /\ Goto(p, IF version THEN Ready(p) ELSE "apply")
  /\ version' = TRUE
  /\ UNCHANGED <<config, tables, psks, users, cmd, user, rec, call, done, next, histVars>>

\* runMigrations reads the versions applied.
OpenDB(p) ==
  /\ pc[p] = "open"
  /\ Goto(p, IF version THEN Ready(p) ELSE "apply")
  /\ UNCHANGED <<config, dbVars, cmd, user, rec, call, done, next, histVars>>

\* A statement of the migration: all of them say IF NOT EXISTS.
Apply(p) ==
  /\ pc[p] = "apply" /\ done[p] < Statements
  /\ done' = [done EXCEPT ![p] = @ + 1]
  /\ tables' = IF tables > done[p] THEN tables ELSE done[p] + 1
  /\ Goto(p, IF done[p] + 1 = Statements THEN "record" ELSE "apply")
  /\ UNCHANGED <<config, version, psks, users, cmd, user, rec, call, next, histVars>>

\* The version is inserted.  Another process may have done so meanwhile; then
\* its key is taken, and Open fails.
Record(p) ==
  /\ pc[p] = "record"
  /\ version' = TRUE
  /\ IF version THEN Exit(p)
     ELSE /\ Goto(p, Ready(p)) /\ done' = [done EXCEPT ![p] = 0]
          /\ UNCHANGED <<cmd, user, rec, call>>
  /\ UNCHANGED <<config, tables, psks, users, next, histVars>>

-----------------------------------------------------------------------------
(* The psk commands.                                                       *)

\* ListPSKs, which changes nothing.
List(a) ==
  /\ pc[a] = "lookup" /\ cmd[a] = "list"
  /\ Exit(a)
  /\ UNCHANGED <<config, dbVars, next, histVars>>

\* Mutation: AddPSK does not look the user up.
AddNoLookup(a) ==
  /\ pc[a] = "lookup" /\ cmd[a] = "add"
  /\ Goto(a, "put")
  /\ UNCHANGED <<config, dbVars, cmd, user, rec, call, done, next, histVars>>

\* AddPSK looks the user up; a row, revoked or not, is ErrUserExists.
AddLookup(a) ==
  /\ pc[a] = "lookup" /\ cmd[a] = "add"
  /\ IF user[a] \in DOMAIN psks THEN Exit(a)
     ELSE Goto(a, "put") /\ UNCHANGED <<cmd, user, rec, call, done>>
  /\ UNCHANGED <<config, dbVars, next, histVars>>

\* AddPSK draws a secret and stores it; PutPSKRecord overwrites.
AddPut(a) ==
  /\ pc[a] = "put" /\ cmd[a] = "add" /\ next <= MaxSecret
  /\ Put(user[a], [secret |-> next, revoked |-> FALSE])
  /\ rec' = [rec EXCEPT ![a] = [secret |-> next, revoked |-> FALSE]]
  /\ next' = next + 1
  /\ Goto(a, "user")
  /\ UNCHANGED <<config, tables, version, users, cmd, user, done, call, histVars>>

\* No other process is about to write the row of u.
Alone(a, u) ==
  /\ \A b \in Admin \ {a} : user[b] # u \/ pc[b] = "off"
  /\ u \in BootUser => pc[Server] \in {"off", "up"}

\* AddPSK adds the user, whose errors it ignores, and the secret is printed.
AddUser(a) ==
  /\ pc[a] = "user"
  /\ users' \in {users, users \cup {user[a]}}
  /\ printed' = [printed EXCEPT ![user[a]] =
                   IF Alone(a, user[a]) /\ psks[user[a]] = rec[a] THEN rec[a].secret ELSE @]
  /\ Exit(a)
  /\ UNCHANGED <<config, tables, version, psks, next, retired>>

\* RevokePSK reads the row; a missing or a revoked one ends the command.
RevokeLookup(a) ==
  /\ pc[a] = "lookup" /\ cmd[a] = "revoke"
  /\ IF user[a] \in DOMAIN psks /\ ~psks[user[a]].revoked
     THEN /\ rec' = [rec EXCEPT ![a] = psks[user[a]]] /\ Goto(a, "put")
          /\ UNCHANGED <<cmd, user, done, call>>
     ELSE Exit(a)
  /\ UNCHANGED <<config, dbVars, next, histVars>>

\* Mutation: RevokePSK writes the row back without its revoked_at.
RevokePutPlain(a) ==
  /\ pc[a] = "put" /\ cmd[a] = "revoke"
  /\ Put(user[a], rec[a])
  /\ retired' = retired \cup {<<user[a], rec[a].secret>>}
  /\ printed' = [printed EXCEPT ![user[a]] = 0]
  /\ Exit(a)
  /\ UNCHANGED <<config, tables, version, users, next>>

\* RevokePSK writes the row that it has read, with revoked_at.
RevokePut(a) ==
  /\ pc[a] = "put" /\ cmd[a] = "revoke"
  /\ Put(user[a], [rec[a] EXCEPT !.revoked = TRUE])
  /\ retired' = retired \cup {<<user[a], rec[a].secret>>}
  /\ printed' = [printed EXCEPT ![user[a]] = 0]
  /\ Exit(a)
  /\ UNCHANGED <<config, tables, version, users, next>>

-----------------------------------------------------------------------------
(* The server.                                                             *)

\* applyBootstrapPSKs: the next entry, if it is usable.  The user is added
\* unless there is one, and the row is overwritten.
\* A store that takes no PSKs ends the server.
Seed ==
  /\ pc[Server] = "boot" /\ done[Server] < Len(BootstrapPSKs)
  /\ LET e == BootstrapPSKs[done[Server] + 1]
     IN \/ /\ ~Usable(e)
           /\ done' = [done EXCEPT ![Server] = @ + 1]
           /\ UNCHANGED <<psks, users, printed, pc, cmd, user, rec, call>>
        \/ /\ Usable(e) /\ Sqlite
           /\ done' = [done EXCEPT ![Server] = @ + 1]
           /\ users' = users \cup {e.user}
           /\ Put(e.user, [secret |-> Configured, revoked |-> FALSE])
           /\ printed' = [printed EXCEPT ![e.user] = 0]
           /\ UNCHANGED <<pc, cmd, user, rec, call>>
        \/ /\ Usable(e) /\ ~Sqlite
           /\ Exit(Server) /\ UNCHANGED <<psks, users, printed>>
  /\ UNCHANGED <<config, tables, version, next, retired>>

\* buildAuth and the listener succeed.
Listening ==
  /\ pc[Server] = "boot" /\ done[Server] = Len(BootstrapPSKs)
  /\ Goto(Server, "up") /\ done' = [done EXCEPT ![Server] = 0]
  /\ UNCHANGED <<config, dbVars, cmd, user, rec, call, next, histVars>>

\* Any error of a store call, of buildAuth or of the listener, a signal, or a
\* crash.
Dies(p) ==
  /\ pc[p] # "off"
  /\ Exit(p)
  /\ UNCHANGED <<config, dbVars, next, histVars>>

\* An ephemeral file system: the database is lost with the container.
Wiped ==
  /\ \A p \in Process : pc[p] = "off"
  /\ tables > 0
  /\ tables' = 0 /\ version' = FALSE /\ psks' = [u \in {} |-> NoRow] /\ users' = {}
  /\ printed' = [u \in User |-> 0]
  /\ UNCHANGED <<config, procVars, next, call, retired>>

\* GetPSKRecord has a row for u that is not revoked: a Register of u that is
\* signed with s goes on, and will be accepted.
Admits(u, s) ==
  /\ pc[Server] = "up" /\ Sqlite
  /\ u \in DOMAIN psks /\ ~psks[u].revoked /\ psks[u].secret = s

KeepAll == UNCHANGED <<config, dbVars, procVars, next, histVars>>

\* Provider.Authenticate reads the record.  A user that is unknown or revoked is
\* refused, and nothing changes.
Lookup(r, u) ==
  /\ call[r] = NoCall
  /\ \E s \in 0 .. MaxSecret :
       /\ Admits(u, s)
       /\ call' = [call EXCEPT ![r] =
                     [at |-> "read", user |-> u, secret |-> s, late |-> <<u, s>> \in retired]]
  /\ KeepAll

\* The nonce is new and the signature is by the secret that was read; the table
\* is not looked at again.
Accept(r) ==
  /\ call[r].at = "read"
  /\ call' = [call EXCEPT ![r].at = "accepted"]
  /\ KeepAll

\* The nonce or the signature is refused, or the handshake goes on.
Answer(r) ==
  /\ call[r] # NoCall
  /\ call' = [call EXCEPT ![r] = NoCall]
  /\ KeepAll

-----------------------------------------------------------------------------

AdminStep(a) ==
  \/ \E c \in {"add", "revoke"}, u \in User : Command(a, c, u)
  \/ Command(a, "list", NoUser)
  \/ List(a) \/ AddLookup(a) \/ AddPut(a) \/ AddUser(a) \/ RevokeLookup(a) \/ RevokePut(a)

Next ==
  \/ \E a \in Admin : AdminStep(a)
  \/ BadConfig \/ Serve \/ Seed \/ Listening \/ Wiped
  \/ \E r \in Register : Accept(r) \/ Answer(r) \/ \E u \in User : Lookup(r, u)
  \/ \E p \in Process : OpenDB(p) \/ Apply(p) \/ Record(p) \/ Dies(p)

Spec == Init /\ [][Next]_vars

-----------------------------------------------------------------------------
(* Properties.                                                             *)

\* The types of the variables.
TypeOK ==
  /\ config \in Configs
  /\ tables \in 0 .. Statements /\ version \in BOOLEAN
  /\ DOMAIN psks \subseteq User /\ \A u \in DOMAIN psks : psks[u] \in Row
  /\ users \subseteq User
  /\ pc \in [Process -> {"off", "open", "apply", "record", "boot", "up", "lookup", "put",
                         "user"}]
  /\ cmd \in [Admin -> {"add", "revoke", "list"}] /\ user \in [Admin -> User \cup {NoUser}]
  /\ rec \in [Admin -> Row]
  /\ done \in [Process -> Nat] /\ next \in 1 .. MaxSecret + 1
  /\ call \in [Register -> Call \cup {NoCall}]
  /\ retired \subseteq User \X (0 .. MaxSecret)
  /\ printed \in [User -> 0 .. MaxSecret]

\* runMigrations, with any number of processes that open the file at a time and
\* die at any statement: a version that is recorded stands for a complete
\* schema, and no process gets past Open without one.
SchemaComplete ==
  /\ version => tables = Statements
  /\ \A p \in Process :
       pc[p] \in {"lookup", "put", "user"} \/ (pc[p] \in {"boot", "up"} /\ Sqlite)
         => tables = Statements

\* RevokePSK: once psk revoke has reported a secret as revoked, no Register that
\* the server begins to authenticate is accepted with it, whatever commands run
\* at the same time and however often the server is started; but for the users
\* of bootstrap_psks.  A Register whose record was read before is accepted.
RevokeLasts ==
  \A r \in Register :
    call[r].at = "accepted" /\ call[r].user \notin BootUser => ~call[r].late

\* AddPSK: the secret that psk add printed is the one that authenticates, until
\* a later command or start of the server replaces it, unless commands for one
\* user overlapped.
PrintedWorks ==
  \A u \in User :
    printed[u] # 0 /\ pc[Server] = "up" /\ Sqlite => Admits(u, printed[u])

\* docs/design/data-model.md: "A revoked PSK must not authenticate."
RevokedRefused ==
  \A u \in User, s \in 0 .. MaxSecret : <<u, s>> \in retired => ~Admits(u, s)

\* AddPSK "refuses to overwrite an existing record for the same user_id"
\* (admin.go:34-35), and so does not put a row where there is one.
AddRefuses == [][\A a \in Admin : AddPut(a) => user[a] \notin DOMAIN psks]_vars

\* docs/deploy/self-hosting.md of psk add: "revoke first if you need to rotate".
CanRotate ==
  [][\A a \in Admin : AddLookup(a) /\ pc'[a] = "off" => ~psks[user[a]].revoked]_vars
=============================================================================
