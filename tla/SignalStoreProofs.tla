-------------------------- MODULE SignalStoreProofs --------------------------
(***************************************************************************)
(* Proofs about SignalStore, for any number of processes, users, statements*)
(* and configurations: type correctness, that no process works on a schema *)
(* that is not complete, that a revoked secret is refused, and that the    *)
(* secret which psk add printed is the one that works.                     *)
(***************************************************************************)
EXTENDS SignalStore, TLAPS

\* A psk command past the opening of the database has the arguments it needs,
\* and one that is about to print has its row in the table.
Arguments ==
  /\ pc[Server] \notin {"lookup", "put", "user"}
  /\ \A a \in Admin :
       /\ pc[a] \notin {"boot", "up"}
       /\ cmd[a] # "list" => user[a] \in User
       /\ pc[a] = "put" => cmd[a] # "list"
       /\ pc[a] = "user" => /\ cmd[a] = "add" /\ ~rec[a].revoked
                            /\ user[a] \in DOMAIN psks

\* The migration: a process has executed no more statements than have taken
\* effect, and one that has executed them all leaves a complete schema.
Migrated ==
  /\ version => tables = Statements
  /\ \A p \in Process :
       /\ pc[p] \in {"off", "open"} => done[p] = 0
       /\ pc[p] = "apply" => done[p] < Statements /\ done[p] <= tables
       /\ pc[p] = "record" => tables = Statements
       /\ pc[p] \in {"lookup", "put", "user"} => tables = Statements
       /\ pc[p] \in {"boot", "up"} /\ Sqlite => tables = Statements

\* AddPSK's next secret is one that no row and no command has seen.
Secrets ==
  /\ \A u \in DOMAIN psks : psks[u].secret < next
  /\ \A a \in Admin : rec[a].secret < next
  /\ \A u \in User, s \in 0 .. MaxSecret : <<u, s>> \in retired => s < next

\* A secret that RevokePSK has retired is in no row that is not revoked.
Buried ==
  \A u \in User, s \in 0 .. MaxSecret :
    <<u, s>> \in retired /\ u \notin BootUser /\ u \in DOMAIN psks
      => psks[u].revoked \/ psks[u].secret # s

\* The secret printed last for a user is in the row, and no psk add that has
\* missed the row is left.
Current ==
  \A u \in User :
    printed[u] # 0 =>
      /\ u \in DOMAIN psks /\ psks[u].secret = printed[u] /\ ~psks[u].revoked
      /\ \A a \in Admin : user[a] = u /\ cmd[a] = "add" => pc[a] \notin {"put", "user"}

\* A record that is read to authenticate a Register holds no secret that was
\* retired by then.
Fresh ==
  \A r \in Register : call[r] # NoCall /\ call[r].user \notin BootUser => ~call[r].late

\* The inductive invariant.
IInv == TypeOK /\ Arguments /\ Migrated /\ Secrets /\ Buried /\ Current /\ Fresh

-----------------------------------------------------------------------------
(* The operators.                                                          *)

\* The constants, as the proofs use them.
LEMMA Constants ==
  /\ Server \notin Admin /\ NoUser \notin User /\ Server \in Process
  /\ Admin \subseteq Process /\ Process = Admin \cup {Server}
  /\ Statements \in Nat \ {0} /\ MaxSecret \in Nat
BY StoreAssumption DEF Process

\* config.Load: the entries of bootstrap_psks are a sequence of entries.
LEMMA BootSeq ==
  ASSUME TypeOK
  PROVE  BootstrapPSKs \in Seq(Entry)
<1>1. config \in Config
  BY StoreAssumption DEF TypeOK
<1>2. config.file.boot \in Seq({e \in Entry : e.whole}) /\ config.env.boot \in Seq(Entry)
  BY <1>1 DEF Config
<1>3. Seq({e \in Entry : e.whole}) \subseteq Seq(Entry)
  OBVIOUS
<1> QED
  BY <1>2, <1>3 DEF BootstrapPSKs

\* applyBootstrapPSKs: a row that it writes is of a user of bootstrap_psks.
LEMMA BootEntry ==
  ASSUME TypeOK, NEW i \in 1 .. Len(BootstrapPSKs)
  PROVE  /\ BootstrapPSKs[i] \in Entry
         /\ BootstrapPSKs[i].user \in User
         /\ Usable(BootstrapPSKs[i]) => BootstrapPSKs[i].user \in BootUser
<1>1. BootstrapPSKs \in Seq(Entry)
  BY BootSeq
<1>2. BootstrapPSKs[i] \in Entry
  BY <1>1
<1>3. BootstrapPSKs[i] \in ToSet(BootstrapPSKs)
  BY <1>1 DEF ToSet
<1>4. BootstrapPSKs[i].user \in User
  BY <1>2 DEF Entry
<1> QED
  BY <1>2, <1>3, <1>4 DEF BootUser

\* No operation changes the configuration, nor what follows from it.
LEMMA SameConfig ==
  ASSUME [Next]_vars
  PROVE  config' = config /\ BootUser' = BootUser /\ Sqlite' = Sqlite
<1>1. config' = config
  BY DEF Next, vars, AdminStep, Command, List, AddLookup, AddPut, AddUser, RevokeLookup,
    RevokePut, BadConfig, Serve, Seed, Listening, Wiped, OpenDB, Apply, Record, Dies,
    Lookup, Accept, Answer, KeepAll
<1> QED
  BY <1>1 DEF BootUser, Sqlite, StoreBackend, BootstrapPSKs

\* The end of a process.
LEMMA ExitType ==
  ASSUME TypeOK, NEW p \in Process, Exit(p)
  PROVE  /\ pc' = [pc EXCEPT ![p] = "off"] /\ done' = [done EXCEPT ![p] = 0]
         /\ cmd' \in [Admin -> {"add", "revoke", "list"}]
         /\ user' \in [Admin -> User \cup {NoUser}]
         /\ rec' \in [Admin -> Row]
         /\ done' \in [Process -> Nat]
         /\ pc' \in [Process -> {"off", "open", "apply", "record", "boot", "up", "lookup",
                                 "put", "user"}]
         /\ \A a \in Admin : IF a = p THEN cmd'[a] = "list" /\ rec'[a] = NoRow /\ user'[a] = NoUser
                             ELSE cmd'[a] = cmd[a] /\ rec'[a] = rec[a] /\ user'[a] = user[a]
<1>1. NoRow \in Row
  BY Constants DEF NoRow, Row, Configured
<1> QED
  BY <1>1, Constants DEF Exit, TypeOK

\* PutPSKRecord keeps the types of the table.
LEMMA PutType ==
  ASSUME TypeOK, NEW u \in User, NEW row \in Row, Put(u, row)
  PROVE  /\ DOMAIN psks' = DOMAIN psks \cup {u} /\ DOMAIN psks' \subseteq User
         /\ psks'[u] = row /\ \A v \in DOMAIN psks \ {u} : psks'[v] = psks[v]
         /\ \A v \in DOMAIN psks' : psks'[v] \in Row
BY DEF Put, TypeOK

\* Provider.Authenticate changes nothing of the database and of the commands.
LEMMA Authenticating ==
  /\ \A r \in Register : Accept(r) \/ Answer(r) \/ (\E u \in User : Lookup(r, u)) => KeepAll
  /\ UNCHANGED vars => KeepAll
BY DEF Lookup, Accept, Answer, KeepAll, vars

\* What becomes of the Registers that are being authenticated.
LEMMA CallSteps ==
  ASSUME [Next]_vars
  PROVE  \/ call' = call \/ call' = [r \in Register |-> NoCall]
         \/ \E r \in Register : Accept(r) \/ Answer(r) \/ \E u \in User : Lookup(r, u)
BY Constants DEF Next, vars, AdminStep, Command, List, AddLookup, AddPut, AddUser, RevokeLookup,
  RevokePut, BadConfig, Serve, Seed, Listening, Wiped, OpenDB, Apply, Record, Dies, Exit

LEMMA CallType ==
  ASSUME TypeOK, [Next]_vars
  PROVE  call' \in [Register -> Call \cup {NoCall}]
<1>1. call \in [Register -> Call \cup {NoCall}]
  BY DEF TypeOK
<1>2. ASSUME NEW r \in Register, NEW u \in User, Lookup(r, u)
      PROVE  call' \in [Register -> Call \cup {NoCall}]
  <2>1. PICK s \in 0 .. MaxSecret :
          call' = [call EXCEPT ![r] =
                    [at |-> "read", user |-> u, secret |-> s, late |-> <<u, s>> \in retired]]
    BY <1>2 DEF Lookup
  <2>2. [at |-> "read", user |-> u, secret |-> s, late |-> <<u, s>> \in retired] \in Call
    BY DEF Call
  <2> QED
    BY <1>1, <2>1, <2>2
<1>3. ASSUME NEW r \in Register, Accept(r)
      PROVE  call' \in [Register -> Call \cup {NoCall}]
  <2>1. call[r] \in Call
    BY <1>1, <1>3 DEF Accept, NoCall
  <2>2. [call[r] EXCEPT !.at = "accepted"] \in Call
    BY <2>1 DEF Call
  <2> QED
    BY <1>1, <1>3, <2>2 DEF Accept
<1>4. ASSUME NEW r \in Register, Answer(r)
      PROVE  call' \in [Register -> Call \cup {NoCall}]
  BY <1>1, <1>4 DEF Answer
<1> QED
  BY <1>1, <1>2, <1>3, <1>4, CallSteps

-----------------------------------------------------------------------------
(* Type correctness.                                                       *)

\* Every operation keeps the types.
LEMMA StepType ==
  ASSUME TypeOK, Arguments, [Next]_vars
  PROVE  TypeOK'
<1> USE Constants
<1>0. call' \in [Register -> Call \cup {NoCall}]
  BY CallType
<1>1. ASSUME NEW a \in Admin, NEW c \in {"add", "revoke", "list"},
             NEW u \in User \cup {NoUser}, Command(a, c, u)
      PROVE  TypeOK'
  BY <1>0, <1>1 DEF TypeOK, Command, Goto, dbVars, histVars
<1>2. ASSUME NEW a \in Admin, List(a) PROVE TypeOK'
  BY <1>0, <1>2, ExitType DEF TypeOK, List, dbVars, histVars
<1>3. ASSUME NEW a \in Admin, AddLookup(a) PROVE TypeOK'
  BY <1>0, <1>3, ExitType DEF TypeOK, AddLookup, dbVars, histVars, Goto
<1>4. ASSUME NEW a \in Admin, AddPut(a) PROVE TypeOK'
  <2>1. user[a] \in User
    BY <1>4 DEF Arguments, AddPut
  <2>2. next \in 0 .. MaxSecret /\ next' \in 1 .. MaxSecret + 1
    BY <1>4 DEF AddPut, TypeOK
  <2>3. [secret |-> next, revoked |-> FALSE] \in Row
    BY <2>2 DEF Row
  <2>4. DOMAIN psks' \subseteq User /\ \A u \in DOMAIN psks' : psks'[u] \in Row
    BY <1>4, <2>1, <2>3, PutType DEF AddPut
  <2> QED
    BY <1>0, <1>4, <2>2, <2>3, <2>4 DEF TypeOK, AddPut, histVars, Goto
<1>5. ASSUME NEW a \in Admin, AddUser(a) PROVE TypeOK'
  <2>1. user[a] \in User /\ rec[a].secret \in 0 .. MaxSecret
    BY <1>5 DEF Arguments, AddUser, TypeOK, Row
  <2>2. printed' \in [User -> 0 .. MaxSecret]
    BY <1>5, <2>1 DEF AddUser, TypeOK
  <2>3. users' \subseteq User
    BY <1>5, <2>1 DEF AddUser, TypeOK
  <2> QED
    BY <1>0, <1>5, <2>2, <2>3, ExitType DEF TypeOK, AddUser
<1>6. ASSUME NEW a \in Admin, RevokeLookup(a) PROVE TypeOK'
  <2>1. CASE user[a] \in DOMAIN psks /\ ~psks[user[a]].revoked
    BY <1>0, <1>6, <2>1 DEF TypeOK, RevokeLookup, dbVars, histVars, Goto
  <2>2. CASE ~(user[a] \in DOMAIN psks /\ ~psks[user[a]].revoked)
    BY <1>0, <1>6, <2>2, ExitType DEF TypeOK, RevokeLookup, dbVars, histVars
  <2> QED
    BY <2>1, <2>2
<1>7. ASSUME NEW a \in Admin, RevokePut(a) PROVE TypeOK'
  <2>1. user[a] \in User /\ rec[a] \in Row /\ rec[a].secret \in 0 .. MaxSecret
    BY <1>7 DEF Arguments, RevokePut, TypeOK, Row
  <2>2. [rec[a] EXCEPT !.revoked = TRUE] \in Row
    BY <2>1 DEF Row
  <2>3. DOMAIN psks' \subseteq User /\ \A u \in DOMAIN psks' : psks'[u] \in Row
    BY <1>7, <2>1, <2>2, PutType DEF RevokePut
  <2>4. printed' \in [User -> 0 .. MaxSecret] /\ retired' \subseteq User \X (0 .. MaxSecret)
    BY <1>7, <2>1 DEF RevokePut, TypeOK
  <2> QED
    BY <1>0, <1>7, <2>3, <2>4, ExitType DEF TypeOK, RevokePut
<1>8. ASSUME Serve PROVE TypeOK'
  BY <1>0, <1>8 DEF TypeOK, Serve, Goto, dbVars, histVars
<1>9. ASSUME Seed PROVE TypeOK'
  <2> DEFINE e == BootstrapPSKs[done[Server] + 1]
  <2>1. e \in Entry /\ e.user \in User
    <3>1. done[Server] + 1 \in 1 .. Len(BootstrapPSKs)
      BY <1>9, BootSeq DEF Seed, TypeOK
    <3> QED
      BY <3>1, BootEntry
  <2>2. [secret |-> Configured, revoked |-> FALSE] \in Row
    BY DEF Row, Configured
  <2>3. CASE ~Usable(e)
    BY <1>0, <1>9, <2>3 DEF TypeOK, Seed
  <2>4. CASE Usable(e) /\ Sqlite
    <3>1. Put(e.user, [secret |-> Configured, revoked |-> FALSE])
      BY <1>9, <2>4 DEF Seed
    <3>2. DOMAIN psks' \subseteq User /\ \A u \in DOMAIN psks' : psks'[u] \in Row
      BY <2>1, <2>2, <3>1, PutType
    <3>3. /\ UNCHANGED <<config, tables, version, next, retired, pc, cmd, user, rec>>
          /\ done' = [done EXCEPT ![Server] = @ + 1] /\ users' = users \cup {e.user}
          /\ printed' = [printed EXCEPT ![e.user] = 0]
      BY <1>9, <2>4 DEF Seed
    <3>4. done' \in [Process -> Nat] /\ printed' \in [User -> 0 .. MaxSecret]
      BY <2>1, <3>3 DEF TypeOK
    <3> QED
      BY <1>0, <2>1, <3>2, <3>3, <3>4 DEF TypeOK
  <2>5. CASE Usable(e) /\ ~Sqlite
    BY <1>0, <1>9, <2>5, ExitType DEF TypeOK, Seed
  <2> QED
    BY <2>3, <2>4, <2>5
<1>10. ASSUME Listening PROVE TypeOK'
  BY <1>0, <1>10 DEF TypeOK, Listening, Goto, dbVars, histVars
<1>11. ASSUME Wiped PROVE TypeOK'
  <2>1. psks' = [u \in {} |-> NoRow] /\ printed' = [u \in User |-> 0] /\ tables' = 0
    BY <1>11 DEF Wiped
  <2>2. DOMAIN psks' = {} /\ printed' \in [User -> 0 .. MaxSecret] /\ tables' \in 0 .. Statements
    BY <2>1
  <2>3. version' \in BOOLEAN /\ users' \subseteq User
    BY <1>11 DEF Wiped
  <2>4. UNCHANGED <<config, pc, cmd, user, rec, done, next, retired>>
    BY <1>11 DEF Wiped, procVars
  <2> QED
    BY <1>0, <2>2, <2>3, <2>4 DEF TypeOK
<1>12. ASSUME NEW p \in Process, OpenDB(p) PROVE TypeOK'
  BY <1>0, <1>12 DEF TypeOK, OpenDB, Goto, dbVars, histVars, Ready
<1>13. ASSUME NEW p \in Process, Apply(p) PROVE TypeOK'
  BY <1>0, <1>13 DEF TypeOK, Apply, Goto, histVars
<1>14. ASSUME NEW p \in Process, Record(p) PROVE TypeOK'
  BY <1>0, <1>14, ExitType DEF TypeOK, Record, Goto, histVars, Ready
<1>15. ASSUME NEW p \in Process, Dies(p) PROVE TypeOK'
  BY <1>0, <1>15, ExitType DEF TypeOK, Dies, dbVars, histVars
<1>16. ASSUME KeepAll PROVE TypeOK'
  BY <1>0, <1>16 DEF TypeOK, KeepAll, dbVars, procVars, histVars
<1> QED
  BY <1>1, <1>2, <1>3, <1>4, <1>5, <1>6, <1>7, <1>8, <1>9, <1>10, <1>11, <1>12, <1>13,
     <1>14, <1>15, <1>16, Authenticating DEF Next, AdminStep, BadConfig

-----------------------------------------------------------------------------
(* The parts of the inductive invariant.                                   *)

\* runPSK checks the arguments before it opens the database.
LEMMA StepArguments ==
  ASSUME TypeOK, Arguments, [Next]_vars
  PROVE  Arguments'
<1> USE Constants
<1>1. ASSUME NEW a \in Admin, NEW c \in {"add", "revoke", "list"},
             NEW u \in User \cup {NoUser}, c # "list" => u \in User, Command(a, c, u)
      PROVE  Arguments'
  BY <1>1 DEF Command, Arguments, TypeOK, Goto, dbVars, histVars
<1>2. ASSUME NEW a \in Admin, List(a) PROVE Arguments'
  BY <1>2, ExitType DEF List, Arguments, TypeOK, dbVars, histVars
<1>3. ASSUME NEW a \in Admin, AddLookup(a) PROVE Arguments'
  BY <1>3, ExitType DEF AddLookup, Arguments, TypeOK, Goto, dbVars, histVars
<1>4. ASSUME NEW a \in Admin, AddPut(a) PROVE Arguments'
  <2>1. user[a] \in User /\ rec' = [rec EXCEPT ![a] = [secret |-> next, revoked |-> FALSE]]
    BY <1>4 DEF AddPut, Arguments
  <2>2. DOMAIN psks' = DOMAIN psks \cup {user[a]}
    BY <1>4 DEF AddPut, Put
  <2>3. \A b \in Admin : IF b = a THEN ~rec'[b].revoked ELSE rec'[b] = rec[b]
    BY <2>1 DEF TypeOK
  <2>4. pc' = [pc EXCEPT ![a] = "user"] /\ UNCHANGED <<cmd, user>> /\ cmd[a] = "add"
    BY <1>4 DEF AddPut, Goto
  <2> QED
    BY <2>1, <2>2, <2>3, <2>4 DEF Arguments, TypeOK
<1>5. ASSUME NEW a \in Admin, AddUser(a) PROVE Arguments'
  BY <1>5, ExitType DEF AddUser, Arguments, TypeOK
<1>6. ASSUME NEW a \in Admin, RevokeLookup(a) PROVE Arguments'
  BY <1>6, ExitType DEF RevokeLookup, Arguments, TypeOK, Goto, dbVars, histVars
<1>7. ASSUME NEW a \in Admin, RevokePut(a) PROVE Arguments'
  <2>1. DOMAIN psks' = DOMAIN psks \cup {user[a]}
    BY <1>7 DEF RevokePut, Put
  <2>2. Exit(a)
    BY <1>7 DEF RevokePut
  <2> QED
    BY <2>1, <2>2, ExitType DEF Arguments, TypeOK
<1>8. ASSUME Serve PROVE Arguments'
  BY <1>8 DEF Serve, Arguments, TypeOK, Goto, dbVars, histVars
<1>9. ASSUME Seed PROVE Arguments'
  <2> DEFINE e == BootstrapPSKs[done[Server] + 1]
  <2>1. CASE ~Usable(e)
    BY <1>9, <2>1 DEF Seed, Arguments, TypeOK
  <2>2. CASE Usable(e) /\ Sqlite
    <3>1. DOMAIN psks' = DOMAIN psks \cup {e.user} /\ UNCHANGED <<pc, cmd, user, rec>>
      BY <1>9, <2>2 DEF Seed, Put
    <3> QED
      BY <3>1 DEF Arguments
  <2>3. CASE Usable(e) /\ ~Sqlite
    <3>1. Exit(Server) /\ psks' = psks
      BY <1>9, <2>3 DEF Seed
    <3> QED
      BY <3>1, ExitType DEF Arguments, TypeOK
  <2> QED
    BY <2>1, <2>2, <2>3
<1>10. ASSUME Listening PROVE Arguments'
  BY <1>10 DEF Listening, Arguments, TypeOK, Goto, dbVars, histVars
<1>11. ASSUME Wiped PROVE Arguments'
  BY <1>11 DEF Wiped, Arguments, TypeOK, procVars
<1>12. ASSUME NEW p \in Process, OpenDB(p) PROVE Arguments'
  BY <1>12 DEF OpenDB, Arguments, TypeOK, Goto, dbVars, histVars, Ready
<1>13. ASSUME NEW p \in Process, Apply(p) PROVE Arguments'
  BY <1>13 DEF Apply, Arguments, TypeOK, Goto, histVars
<1>14. ASSUME NEW p \in Process, Record(p) PROVE Arguments'
  BY <1>14, ExitType DEF Record, Arguments, TypeOK, Goto, histVars, Ready
<1>15. ASSUME NEW p \in Process, Dies(p) PROVE Arguments'
  BY <1>15, ExitType DEF Dies, Arguments, TypeOK, dbVars, histVars
<1>16. ASSUME KeepAll PROVE Arguments'
  BY <1>16 DEF Arguments, TypeOK, KeepAll, dbVars, procVars, histVars
<1> QED
  BY <1>1, <1>2, <1>3, <1>4, <1>5, <1>6, <1>7, <1>8, <1>9, <1>10, <1>11, <1>12, <1>13,
     <1>14, <1>15, <1>16, Authenticating DEF Next, AdminStep, BadConfig

\* runMigrations: the statements are counted once they have taken effect, and
\* the version follows the last.
LEMMA StepMigrated ==
  ASSUME TypeOK, Arguments, Migrated, [Next]_vars
  PROVE  Migrated'
<1> USE Constants
<1>0. Sqlite' = Sqlite
  BY SameConfig
<1>1. ASSUME NEW a \in Admin, NEW c \in {"add", "revoke", "list"},
             NEW u \in User \cup {NoUser}, c # "list" => u \in User, Command(a, c, u)
      PROVE  Migrated'
  BY <1>1, <1>0 DEF Command, Migrated, TypeOK, Goto, dbVars, histVars
<1>2. ASSUME NEW a \in Admin, List(a) PROVE Migrated'
  BY <1>2, <1>0, ExitType DEF List, Migrated, TypeOK, dbVars, histVars
<1>3. ASSUME NEW a \in Admin, AddLookup(a) PROVE Migrated'
  BY <1>3, <1>0, ExitType DEF AddLookup, Migrated, TypeOK, Goto, dbVars, histVars
<1>4. ASSUME NEW a \in Admin, AddPut(a) PROVE Migrated'
  BY <1>4, <1>0 DEF AddPut, Migrated, TypeOK, Goto, histVars
<1>5. ASSUME NEW a \in Admin, AddUser(a) PROVE Migrated'
  BY <1>5, <1>0, ExitType DEF AddUser, Migrated, TypeOK
<1>6. ASSUME NEW a \in Admin, RevokeLookup(a) PROVE Migrated'
  BY <1>6, <1>0, ExitType DEF RevokeLookup, Migrated, TypeOK, Goto, dbVars, histVars
<1>7. ASSUME NEW a \in Admin, RevokePut(a) PROVE Migrated'
  BY <1>7, <1>0, ExitType DEF RevokePut, Migrated, TypeOK
<1>8. ASSUME Serve PROVE Migrated'
  BY <1>8, <1>0 DEF Serve, Migrated, TypeOK, Goto, dbVars, histVars
<1>9. ASSUME Seed PROVE Migrated'
  BY <1>9, <1>0, ExitType DEF Seed, Migrated, TypeOK
<1>10. ASSUME Listening PROVE Migrated'
  BY <1>10, <1>0 DEF Listening, Migrated, TypeOK, Goto, dbVars, histVars
<1>11. ASSUME Wiped PROVE Migrated'
  BY <1>11, <1>0 DEF Wiped, Migrated, TypeOK, procVars
<1>12. ASSUME NEW p \in Process, OpenDB(p) PROVE Migrated'
  BY <1>12, <1>0 DEF OpenDB, Migrated, TypeOK, Goto, dbVars, histVars, Ready
<1>13. ASSUME NEW p \in Process, Apply(p) PROVE Migrated'
  BY <1>13, <1>0 DEF Apply, Migrated, TypeOK, Goto, histVars
<1>14. ASSUME NEW p \in Process, Record(p) PROVE Migrated'
  BY <1>14, <1>0, ExitType DEF Record, Migrated, TypeOK, Goto, histVars, Ready
<1>15. ASSUME NEW p \in Process, Dies(p) PROVE Migrated'
  BY <1>15, <1>0, ExitType DEF Dies, Migrated, TypeOK, dbVars, histVars
<1>16. ASSUME KeepAll PROVE Migrated'
  BY <1>16, <1>0 DEF Migrated, TypeOK, KeepAll, dbVars, procVars, histVars
<1> QED
  BY <1>1, <1>2, <1>3, <1>4, <1>5, <1>6, <1>7, <1>8, <1>9, <1>10, <1>11, <1>12, <1>13,
     <1>14, <1>15, <1>16, Authenticating DEF Next, AdminStep, BadConfig

\* AddPSK draws secrets that are fresh.
LEMMA StepSecrets ==
  ASSUME TypeOK, Arguments, Secrets, [Next]_vars
  PROVE  Secrets'
<1> USE Constants
<1>1. ASSUME NEW a \in Admin, NEW c \in {"add", "revoke", "list"},
             NEW u \in User \cup {NoUser}, c # "list" => u \in User, Command(a, c, u)
      PROVE  Secrets'
  BY <1>1 DEF Command, Secrets, TypeOK, NoRow, Configured, Goto, dbVars, histVars
<1>2. ASSUME NEW a \in Admin, List(a) PROVE Secrets'
  BY <1>2, ExitType DEF List, Secrets, TypeOK, NoRow, Configured, dbVars, histVars
<1>3. ASSUME NEW a \in Admin, AddLookup(a) PROVE Secrets'
  BY <1>3, ExitType DEF AddLookup, Secrets, TypeOK, NoRow, Configured, Goto, dbVars, histVars
<1>4. ASSUME NEW a \in Admin, AddPut(a) PROVE Secrets'
  <2>1. user[a] \in User /\ next \in 1 .. MaxSecret /\ next' = next + 1
    BY <1>4 DEF AddPut, Arguments, TypeOK
  <2> DEFINE row == [secret |-> next, revoked |-> FALSE]
  <2>2. row \in Row /\ row.secret = next
    BY <2>1 DEF Row
  <2>3. \A u \in DOMAIN psks' : psks'[u].secret < next'
    <3>1. /\ DOMAIN psks' = DOMAIN psks \cup {user[a]} /\ psks'[user[a]] = row
          /\ \A v \in DOMAIN psks \ {user[a]} : psks'[v] = psks[v]
      BY <1>4, <2>1, <2>2, PutType DEF AddPut
    <3>2. \A v \in DOMAIN psks : psks[v].secret \in Nat
      BY DEF TypeOK, Row
    <3> QED
      BY <2>1, <2>2, <3>1, <3>2 DEF Secrets
  <2>4. \A b \in Admin : rec'[b].secret < next'
    <3>1. \A b \in Admin : rec[b].secret \in Nat /\ rec'[b] = IF b = a THEN row ELSE rec[b]
      BY <1>4 DEF AddPut, TypeOK, Row
    <3> QED
      BY <2>1, <2>2, <3>1 DEF Secrets
  <2>5. retired' = retired
    BY <1>4 DEF AddPut, histVars
  <2> QED
    BY <2>1, <2>3, <2>4, <2>5 DEF Secrets
<1>5. ASSUME NEW a \in Admin, AddUser(a) PROVE Secrets'
  BY <1>5, ExitType DEF AddUser, Secrets, TypeOK, NoRow, Configured
<1>6. ASSUME NEW a \in Admin, RevokeLookup(a) PROVE Secrets'
  BY <1>6, ExitType DEF RevokeLookup, Secrets, TypeOK, NoRow, Configured, Goto, dbVars, histVars
<1>7. ASSUME NEW a \in Admin, RevokePut(a) PROVE Secrets'
  <2>1. user[a] \in User /\ rec[a] \in Row /\ rec[a].secret < next
    BY <1>7 DEF RevokePut, Arguments, TypeOK, Secrets
  <2> DEFINE row == [rec[a] EXCEPT !.revoked = TRUE]
  <2>2. row \in Row /\ row.secret < next
    BY <2>1 DEF Row
  <2>3. /\ DOMAIN psks' = DOMAIN psks \cup {user[a]} /\ psks'[user[a]] = row
        /\ \A v \in DOMAIN psks \ {user[a]} : psks'[v] = psks[v]
    BY <1>7, <2>1, <2>2, PutType DEF RevokePut
  <2>4. \A b \in Admin : rec'[b] \in {rec[b], NoRow}
    BY <1>7, ExitType DEF RevokePut
  <2>5. NoRow.secret < next
    BY DEF TypeOK, NoRow, Configured
  <2>6. retired' = retired \cup {<<user[a], rec[a].secret>>} /\ next' = next
    BY <1>7 DEF RevokePut
  <2> QED
    BY <2>1, <2>2, <2>3, <2>4, <2>5, <2>6 DEF Secrets
<1>8. ASSUME Serve PROVE Secrets'
  BY <1>8 DEF Serve, Secrets, TypeOK, NoRow, Configured, Goto, dbVars, histVars
<1>9. ASSUME Seed PROVE Secrets'
  <2> DEFINE e == BootstrapPSKs[done[Server] + 1]
  <2>1. UNCHANGED <<next, retired>>
    BY <1>9 DEF Seed
  <2>2. CASE ~Usable(e)
    BY <1>9, <2>1, <2>2 DEF Seed, Secrets
  <2>3. CASE Usable(e) /\ Sqlite
    <3>1. /\ DOMAIN psks' = DOMAIN psks \cup {e.user} /\ psks'[e.user].secret = 0
          /\ \A v \in DOMAIN psks \ {e.user} : psks'[v] = psks[v]
      BY <1>9, <2>3 DEF Seed, Put, Configured
    <3>2. rec' = rec
      BY <1>9, <2>3 DEF Seed
    <3> QED
      BY <2>1, <3>1, <3>2 DEF Secrets, TypeOK
  <2>4. CASE Usable(e) /\ ~Sqlite
    <3>1. Exit(Server) /\ psks' = psks
      BY <1>9, <2>4 DEF Seed
    <3>2. \A a \in Admin : rec'[a] = rec[a]
      BY <3>1, ExitType
    <3> QED
      BY <2>1, <3>1, <3>2 DEF Secrets
  <2> QED
    BY <2>2, <2>3, <2>4
<1>10. ASSUME Listening PROVE Secrets'
  BY <1>10 DEF Listening, Secrets, TypeOK, NoRow, Configured, Goto, dbVars, histVars
<1>11. ASSUME Wiped PROVE Secrets'
  BY <1>11 DEF Wiped, Secrets, TypeOK, NoRow, Configured, procVars
<1>12. ASSUME NEW p \in Process, OpenDB(p) PROVE Secrets'
  BY <1>12 DEF OpenDB, Secrets, TypeOK, NoRow, Configured, Goto, dbVars, histVars, Ready
<1>13. ASSUME NEW p \in Process, Apply(p) PROVE Secrets'
  BY <1>13 DEF Apply, Secrets, TypeOK, NoRow, Configured, Goto, histVars
<1>14. ASSUME NEW p \in Process, Record(p) PROVE Secrets'
  BY <1>14, ExitType DEF Record, Secrets, TypeOK, NoRow, Configured, Goto, histVars, Ready
<1>15. ASSUME NEW p \in Process, Dies(p) PROVE Secrets'
  BY <1>15, ExitType DEF Dies, Secrets, TypeOK, NoRow, Configured, dbVars, histVars
<1>16. ASSUME KeepAll PROVE Secrets'
  BY <1>16 DEF Secrets, TypeOK, NoRow, Configured, KeepAll, dbVars, procVars, histVars
<1> QED
  BY <1>1, <1>2, <1>3, <1>4, <1>5, <1>6, <1>7, <1>8, <1>9, <1>10, <1>11, <1>12, <1>13,
     <1>14, <1>15, <1>16, Authenticating DEF Next, AdminStep, BadConfig

\* A retired secret comes back neither by AddPSK, whose secrets are fresh, nor
\* by a RevokePSK with an old row, which sets revoked_at.
LEMMA StepBuried ==
  ASSUME TypeOK, Arguments, Secrets, Buried, [Next]_vars
  PROVE  Buried'
<1> USE Constants
<1>0. BootUser' = BootUser
  BY SameConfig
<1>1. ASSUME NEW a \in Admin, NEW c \in {"add", "revoke", "list"},
             NEW u \in User \cup {NoUser}, c # "list" => u \in User, Command(a, c, u)
      PROVE  Buried'
  BY <1>1, <1>0 DEF Command, Buried, Goto, dbVars, histVars
<1>2. ASSUME NEW a \in Admin, List(a) PROVE Buried'
  BY <1>2, <1>0, ExitType DEF List, Buried, dbVars, histVars
<1>3. ASSUME NEW a \in Admin, AddLookup(a) PROVE Buried'
  BY <1>3, <1>0, ExitType DEF AddLookup, Buried, Goto, dbVars, histVars
<1>4. ASSUME NEW a \in Admin, AddPut(a) PROVE Buried'
  <2>1. user[a] \in User /\ next \in 0 .. MaxSecret /\ retired' = retired
    BY <1>4 DEF AddPut, Arguments, TypeOK, histVars
  <2> DEFINE row == [secret |-> next, revoked |-> FALSE]
  <2>2. row \in Row /\ row.secret = next
    BY <2>1 DEF Row
  <2>3. /\ DOMAIN psks' = DOMAIN psks \cup {user[a]} /\ psks'[user[a]] = row
        /\ \A v \in DOMAIN psks \ {user[a]} : psks'[v] = psks[v]
    BY <1>4, <2>1, <2>2, PutType DEF AddPut
  <2>4. \A u \in User, s \in 0 .. MaxSecret : <<u, s>> \in retired => s # row.secret
    BY <2>1, <2>2 DEF Secrets
  <2> QED
    BY <1>0, <2>1, <2>3, <2>4 DEF Buried
<1>5. ASSUME NEW a \in Admin, AddUser(a) PROVE Buried'
  BY <1>5, <1>0, ExitType DEF AddUser, Buried
<1>6. ASSUME NEW a \in Admin, RevokeLookup(a) PROVE Buried'
  BY <1>6, <1>0, ExitType DEF RevokeLookup, Buried, Goto, dbVars, histVars
<1>7. ASSUME NEW a \in Admin, RevokePut(a) PROVE Buried'
  <2>1. user[a] \in User /\ rec[a] \in Row
    BY <1>7 DEF RevokePut, Arguments, TypeOK
  <2> DEFINE row == [rec[a] EXCEPT !.revoked = TRUE]
  <2>2. row \in Row /\ row.revoked
    BY <2>1 DEF Row
  <2>3. /\ DOMAIN psks' = DOMAIN psks \cup {user[a]} /\ psks'[user[a]] = row
        /\ \A v \in DOMAIN psks \ {user[a]} : psks'[v] = psks[v]
    BY <1>7, <2>1, <2>2, PutType DEF RevokePut
  <2>4. \A u \in User \ {user[a]}, s \in 0 .. MaxSecret :
          <<u, s>> \in retired' => <<u, s>> \in retired
    BY <1>7 DEF RevokePut
  <2>5. ASSUME NEW u \in User, NEW s \in 0 .. MaxSecret,
               <<u, s>> \in retired', u \notin BootUser', u \in DOMAIN psks'
        PROVE  psks'[u].revoked \/ psks'[u].secret # s
    <3>1. CASE u = user[a]
      BY <2>2, <2>3, <3>1
    <3>2. CASE u # user[a]
      BY <1>0, <2>3, <2>4, <2>5, <3>2 DEF Buried
    <3> QED
      BY <3>1, <3>2
  <2> QED
    BY <2>5 DEF Buried
<1>8. ASSUME Serve PROVE Buried'
  BY <1>8, <1>0 DEF Serve, Buried, Goto, dbVars, histVars
<1>9. ASSUME Seed PROVE Buried'
  <2> DEFINE e == BootstrapPSKs[done[Server] + 1]
  <2>1. retired' = retired
    BY <1>9 DEF Seed
  <2>2. CASE ~(Usable(e) /\ Sqlite)
    <3>1. psks' = psks
      BY <1>9, <2>2 DEF Seed
    <3> QED
      BY <1>0, <2>1, <3>1 DEF Buried
  <2>3. CASE Usable(e) /\ Sqlite
    <3>1. done[Server] + 1 \in 1 .. Len(BootstrapPSKs)
      BY <1>9, BootSeq DEF Seed, TypeOK
    <3>2. e.user \in BootUser
      BY <2>3, <3>1, BootEntry
    <3>3. /\ DOMAIN psks' = DOMAIN psks \cup {e.user}
          /\ \A v \in DOMAIN psks \ {e.user} : psks'[v] = psks[v]
      BY <1>9, <2>3 DEF Seed, Put
    <3> QED
      BY <1>0, <2>1, <3>2, <3>3 DEF Buried
  <2> QED
    BY <2>2, <2>3
<1>10. ASSUME Listening PROVE Buried'
  BY <1>10, <1>0 DEF Listening, Buried, Goto, dbVars, histVars
<1>11. ASSUME Wiped PROVE Buried'
  <2>1. DOMAIN psks' = {}
    BY <1>11 DEF Wiped
  <2> QED
    BY <2>1 DEF Buried
<1>12. ASSUME NEW p \in Process, OpenDB(p) PROVE Buried'
  BY <1>12, <1>0 DEF OpenDB, Buried, Goto, dbVars, histVars, Ready
<1>13. ASSUME NEW p \in Process, Apply(p) PROVE Buried'
  BY <1>13, <1>0 DEF Apply, Buried, Goto, histVars
<1>14. ASSUME NEW p \in Process, Record(p) PROVE Buried'
  BY <1>14, <1>0, ExitType DEF Record, Buried, Goto, histVars, Ready
<1>15. ASSUME NEW p \in Process, Dies(p) PROVE Buried'
  BY <1>15, <1>0, ExitType DEF Dies, Buried, dbVars, histVars
<1>16. ASSUME KeepAll PROVE Buried'
  BY <1>16, <1>0 DEF Buried, KeepAll, dbVars, procVars, histVars
<1> QED
  BY <1>1, <1>2, <1>3, <1>4, <1>5, <1>6, <1>7, <1>8, <1>9, <1>10, <1>11, <1>12, <1>13,
     <1>14, <1>15, <1>16, Authenticating DEF Next, AdminStep, BadConfig

\* Nothing replaces a secret that was printed but what resets printed: the row
\* is there, so AddPSK ends at its lookup.
LEMMA StepCurrent ==
  ASSUME TypeOK, Arguments, Current, [Next]_vars
  PROVE  Current'
<1> USE Constants
<1>1. ASSUME NEW a \in Admin, NEW c \in {"add", "revoke", "list"},
             NEW u \in User \cup {NoUser}, c # "list" => u \in User, Command(a, c, u)
      PROVE  Current'
  BY <1>1 DEF Command, Current, TypeOK, Goto, dbVars, histVars
<1>2. ASSUME NEW a \in Admin, List(a) PROVE Current'
  BY <1>2, ExitType DEF List, Current, TypeOK, dbVars, histVars
<1>3. ASSUME NEW a \in Admin, AddLookup(a) PROVE Current'
  BY <1>3, ExitType DEF AddLookup, Current, TypeOK, Goto, dbVars, histVars
<1>4. ASSUME NEW a \in Admin, AddPut(a) PROVE Current'
  <2>1. user[a] \in User /\ cmd[a] = "add" /\ pc[a] = "put"
    BY <1>4 DEF AddPut, Arguments
  <2>2. printed[user[a]] = 0
    BY <2>1 DEF Current
  <2>3. /\ DOMAIN psks' = DOMAIN psks \cup {user[a]}
        /\ \A v \in DOMAIN psks \ {user[a]} : psks'[v] = psks[v]
    BY <1>4 DEF AddPut, Put
  <2>4. UNCHANGED <<printed, cmd, user>> /\ pc' = [pc EXCEPT ![a] = "user"]
    BY <1>4 DEF AddPut, histVars, Goto
  <2> QED
    BY <2>1, <2>2, <2>3, <2>4 DEF Current, TypeOK
<1>5. ASSUME NEW a \in Admin, AddUser(a) PROVE Current'
  <2> DEFINE u == user[a]
  <2>1. /\ u \in User /\ u \in DOMAIN psks /\ cmd[a] = "add" /\ pc[a] = "user"
        /\ ~rec[a].revoked
    BY <1>5 DEF AddUser, Arguments
  <2>2. printed[u] = 0
    BY <2>1 DEF Current
  <2>3. psks' = psks /\ Exit(a)
    BY <1>5 DEF AddUser
  <2>4. /\ \A v \in User \ {u} : printed'[v] = printed[v]
        /\ printed'[u] # 0 => /\ Alone(a, u) /\ psks[u] = rec[a]
                             /\ printed'[u] = rec[a].secret
    BY <1>5, <2>1, <2>2 DEF AddUser, TypeOK
  <2>5. ASSUME NEW v \in User, printed'[v] # 0, NEW b \in Admin,
               user'[b] = v, cmd'[b] = "add"
        PROVE  pc'[b] \notin {"put", "user"}
    <3>1. b # a /\ user[b] = v /\ cmd[b] = "add" /\ pc'[b] = pc[b]
      BY <2>3, <2>5, ExitType DEF TypeOK
    <3>2. CASE v = u
      BY <2>4, <2>5, <3>1, <3>2 DEF Alone
    <3>3. CASE v # u
      BY <2>4, <2>5, <3>1, <3>3 DEF Current
    <3> QED
      BY <3>2, <3>3
  <2>6. ASSUME NEW v \in User, printed'[v] # 0
        PROVE  v \in DOMAIN psks' /\ psks'[v].secret = printed'[v] /\ ~psks'[v].revoked
    BY <2>1, <2>3, <2>4, <2>6 DEF Current
  <2> QED
    BY <2>5, <2>6 DEF Current
<1>6. ASSUME NEW a \in Admin, RevokeLookup(a) PROVE Current'
  BY <1>6, ExitType DEF RevokeLookup, Current, TypeOK, Goto, dbVars, histVars
<1>7. ASSUME NEW a \in Admin, RevokePut(a) PROVE Current'
  <2>1. user[a] \in User
    BY <1>7 DEF RevokePut, Arguments
  <2>2. /\ DOMAIN psks' = DOMAIN psks \cup {user[a]}
        /\ \A v \in DOMAIN psks \ {user[a]} : psks'[v] = psks[v]
    BY <1>7 DEF RevokePut, Put
  <2>3. \A v \in User : printed'[v] = IF v = user[a] THEN 0 ELSE printed[v]
    BY <1>7, <2>1 DEF RevokePut, TypeOK
  <2>4. Exit(a)
    BY <1>7 DEF RevokePut
  <2> QED
    BY <2>2, <2>3, <2>4, ExitType DEF Current, TypeOK
<1>8. ASSUME Serve PROVE Current'
  BY <1>8 DEF Serve, Current, TypeOK, Goto, dbVars, histVars
<1>9. ASSUME Seed PROVE Current'
  <2> DEFINE e == BootstrapPSKs[done[Server] + 1]
  <2>1. CASE ~Usable(e)
    BY <1>9, <2>1 DEF Seed, Current
  <2>2. CASE Usable(e) /\ Sqlite
    <3>1. /\ DOMAIN psks' = DOMAIN psks \cup {e.user}
          /\ \A v \in DOMAIN psks \ {e.user} : psks'[v] = psks[v]
      BY <1>9, <2>2 DEF Seed, Put
    <3>2. UNCHANGED <<pc, cmd, user>> /\ printed' = [printed EXCEPT ![e.user] = 0]
      BY <1>9, <2>2 DEF Seed
    <3> QED
      BY <3>1, <3>2 DEF Current, TypeOK
  <2>3. CASE Usable(e) /\ ~Sqlite
    <3>1. Exit(Server) /\ UNCHANGED <<psks, printed>>
      BY <1>9, <2>3 DEF Seed
    <3> QED
      BY <3>1, ExitType DEF Current, TypeOK
  <2> QED
    BY <2>1, <2>2, <2>3
<1>10. ASSUME Listening PROVE Current'
  BY <1>10 DEF Listening, Current, TypeOK, Goto, dbVars, histVars
<1>11. ASSUME Wiped PROVE Current'
  <2>1. \A u \in User : printed'[u] = 0
    BY <1>11 DEF Wiped
  <2> QED
    BY <2>1 DEF Current
<1>12. ASSUME NEW p \in Process, OpenDB(p) PROVE Current'
  BY <1>12 DEF OpenDB, Current, TypeOK, Goto, dbVars, histVars, Ready
<1>13. ASSUME NEW p \in Process, Apply(p) PROVE Current'
  BY <1>13 DEF Apply, Current, TypeOK, Goto, histVars
<1>14. ASSUME NEW p \in Process, Record(p) PROVE Current'
  BY <1>14, ExitType DEF Record, Current, TypeOK, Goto, histVars, Ready
<1>15. ASSUME NEW p \in Process, Dies(p) PROVE Current'
  BY <1>15, ExitType DEF Dies, Current, TypeOK, dbVars, histVars
<1>16. ASSUME KeepAll PROVE Current'
  BY <1>16 DEF Current, TypeOK, KeepAll, dbVars, procVars, histVars
<1> QED
  BY <1>1, <1>2, <1>3, <1>4, <1>5, <1>6, <1>7, <1>8, <1>9, <1>10, <1>11, <1>12, <1>13,
     <1>14, <1>15, <1>16, Authenticating DEF Next, AdminStep, BadConfig

\* GetPSKRecord finds no retired secret; what it has found stays as it is.
LEMMA StepFresh ==
  ASSUME TypeOK, Buried, Fresh, [Next]_vars
  PROVE  Fresh'
<1>0. BootUser' = BootUser
  BY SameConfig
<1>1. CASE call' = call
  BY <1>0, <1>1 DEF Fresh
<1>2. CASE call' = [r \in Register |-> NoCall]
  BY <1>2 DEF Fresh
<1>3. ASSUME NEW r \in Register, NEW u \in User, Lookup(r, u)
      PROVE  Fresh'
  <2>1. PICK s \in 0 .. MaxSecret :
          /\ Admits(u, s)
          /\ call' = [call EXCEPT ![r] =
                    [at |-> "read", user |-> u, secret |-> s, late |-> <<u, s>> \in retired]]
    BY <1>3 DEF Lookup
  <2>2. u \notin BootUser => <<u, s>> \notin retired
    BY <2>1 DEF Admits, Buried
  <2>3. call'[r].user = u /\ call'[r].late = (<<u, s>> \in retired)
    BY <2>1 DEF TypeOK
  <2>4. \A q \in Register \ {r} : call'[q] = call[q]
    BY <2>1 DEF TypeOK
  <2> QED
    BY <1>0, <2>2, <2>3, <2>4 DEF Fresh
<1>4. ASSUME NEW r \in Register, Accept(r)
      PROVE  Fresh'
  <2>1. call[r] # NoCall /\ call[r] \in Call
    BY <1>4 DEF Accept, NoCall, TypeOK
  <2>2. call'[r].user = call[r].user /\ call'[r].late = call[r].late
    BY <1>4, <2>1 DEF Accept, Call, TypeOK
  <2>3. \A q \in Register \ {r} : call'[q] = call[q]
    BY <1>4 DEF Accept, TypeOK
  <2> QED
    BY <1>0, <2>1, <2>2, <2>3 DEF Fresh
<1>5. ASSUME NEW r \in Register, Answer(r)
      PROVE  Fresh'
  <2>1. \A q \in Register : call'[q] = call[q] \/ call'[q] = NoCall
    BY <1>5 DEF Answer, TypeOK
  <2> QED
    BY <1>0, <2>1 DEF Fresh
<1> QED
  BY <1>1, <1>2, <1>3, <1>4, <1>5, CallSteps

-----------------------------------------------------------------------------
(* The theorems.                                                           *)

\* A machine without a database, and no process.
LEMMA InitInv == Init => IInv
<1> SUFFICES ASSUME Init PROVE IInv
  OBVIOUS
<1> USE Constants
<1>1. DOMAIN psks = {}
  BY DEF Init
<1>2. NoRow \in Row /\ NoRow.secret = 0
  BY DEF NoRow, Row, Configured
<1>3. /\ \A p \in Process : pc[p] = "off" /\ done[p] = 0
      /\ \A a \in Admin : cmd[a] = "list" /\ rec[a] = NoRow
      /\ \A u \in User : printed[u] = 0
      /\ retired = {} /\ next = 1 /\ version = FALSE
  BY DEF Init
<1>4. TypeOK
  <2>1. /\ pc \in [Process -> {"off", "open", "apply", "record", "boot", "up", "lookup", "put",
                               "user"}]
        /\ done \in [Process -> Nat] /\ printed \in [User -> 0 .. MaxSecret]
        /\ tables \in 0 .. Statements
    BY DEF Init
  <2>2. /\ cmd \in [Admin -> {"add", "revoke", "list"}]
        /\ user \in [Admin -> User \cup {NoUser}]
    BY DEF Init
  <2>3. rec \in [Admin -> Row]
    BY <1>2 DEF Init
  <2>4. config \in Configs /\ users \subseteq User
    BY DEF Init
  <2>5. version \in BOOLEAN
    BY <1>3
  <2>6. next \in 1 .. MaxSecret + 1 /\ retired \subseteq User \X (0 .. MaxSecret)
    BY <1>3
  <2>7. call \in [Register -> Call \cup {NoCall}]
    BY DEF Init
  <2> QED
    BY <1>1, <2>1, <2>2, <2>3, <2>4, <2>5, <2>6, <2>7 DEF TypeOK
<1>5. Arguments /\ Buried /\ Current /\ Fresh
  BY <1>1, <1>3 DEF Arguments, Buried, Current, Fresh, Init
<1>6. Migrated
  BY <1>3 DEF Migrated
<1>7. Secrets
  BY <1>1, <1>2, <1>3 DEF Secrets
<1> QED
  BY <1>4, <1>5, <1>6, <1>7 DEF IInv

\* Any step of any process, and the loss of one.
LEMMA NextInv == IInv /\ [Next]_vars => IInv'
BY StepType, StepArguments, StepMigrated, StepSecrets, StepBuried, StepCurrent, StepFresh DEF IInv

\* The inductive invariant holds of every behaviour.
THEOREM StoreInv == Spec => []IInv
BY InitInv, NextInv, PTL DEF Spec

\* The variables keep their types: a psk command never writes a row for no user.
THEOREM TypeCorrect == Spec => []TypeOK
<1>1. IInv => TypeOK
  BY DEF IInv
<1> QED
  BY <1>1, StoreInv, PTL

\* runMigrations, with any number of processes and statements, and deaths between
\* any two of them: a recorded version stands for a complete schema, and no
\* process gets past Open without one.
THEOREM MigrationComplete == Spec => []SchemaComplete
<1>1. IInv => SchemaComplete
  BY DEF IInv, Migrated, SchemaComplete
<1> QED
  BY <1>1, StoreInv, PTL

\* RevokePSK: no Register whose record is read after a secret was reported as
\* revoked is accepted with that secret, but for the users of bootstrap_psks.
THEOREM RevocationLasts == Spec => []RevokeLasts
<1>1. IInv => RevokeLasts
  BY DEF IInv, Fresh, RevokeLasts, NoCall
<1> QED
  BY <1>1, StoreInv, PTL

\* AddPSK: the secret that was printed authenticates until it is replaced.
THEOREM PrintedSecretWorks == Spec => []PrintedWorks
<1>1. IInv => PrintedWorks
  BY DEF IInv, Current, PrintedWorks, Admits
<1> QED
  BY <1>1, StoreInv, PTL
=============================================================================
