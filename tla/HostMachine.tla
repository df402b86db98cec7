----------------------------- MODULE HostMachine -----------------------------
(***************************************************************************)
(* The files that peersh keeps on one machine and the processes that share *)
(* them: peershd, from its start to its exit, `peershd update`, and        *)
(* peersh-cli, which uses the refresh token of peershd.  No process locks  *)
(* a file, every file is written in place, and a process may be killed     *)
(* between any two calls of the operating system.                          *)
(*                                                                         *)
(* The device key is key.pem of the certificate directory; the token file  *)
(* holds the Firebase refresh token; an update goes through <exe>.new and  *)
(* <exe>.old.  Google's endpoints and the Cloud Functions are what the     *)
(* code expects of them: a pairing code may be unknown by now, a sign-in   *)
(* issues a refresh token, an exchange an ID token and, possibly, a new    *)
(* refresh token that may end the validity of the old one.  Keys and       *)
(* refresh tokens are numbers; one that is nowhere any more is drawn again.*)
(***************************************************************************)
EXTENDS Integers, FiniteSets

CONSTANTS
  Proc,
  Mays,         \* what the operator may run: the programs of each process slot
  Sources,      \* how a program may be told to get its ID tokens
  ReadFails,    \* whether reading an existing key.pem may fail
  Life,         \* validity of an ID token, in ticks (1 h)
  Margin,       \* 2 min
  MaxDelay,     \* bound: the longest time of an answer and the write after it
  MaxKey, MaxTok \* bounds: keys, refresh tokens that exist at one time

ASSUME MachineAssumption ==
  /\ Mays \subseteq [Proc -> SUBSET {"host", "cli", "update"}]
  /\ Sources \subseteq {"login", "pair", "load", "credentials", "psk", "direct"}
  /\ ReadFails \in BOOLEAN
  /\ {Life, Margin, MaxDelay, MaxKey, MaxTok} \subseteq Nat
  /\ MaxDelay <= Margin /\ 2 * Margin < Life

Absent  == 0
Empty   == -1   \* truncated and not yet written
Garbage == -2   \* the bytes of two writers
Good    == {"current", "release"}

VARIABLES
  may,
  key, tokenFile, exe, new, old,   \* the files
  procs,                           \* the processes
  valid,                           \* refresh tokens that Google accepts
  \* history
  ids          \* device keys that a peershd has served with

files == <<key, tokenFile, exe, new, old>>
vars  == <<may, files, procs, valid, ids>>

Off == [prog |-> "none", pc |-> "off", key |-> Absent, how |-> "none", only |-> FALSE,
        bound |-> FALSE, up |-> FALSE, tok |-> Absent, got |-> Absent, exp |-> 0,
        real |-> 0]

Init ==
  /\ may \in Mays
  /\ key = Absent /\ tokenFile = Absent
  /\ exe = "current" /\ new = "none" /\ old = "none"
  /\ procs = [p \in Proc |-> Off]
  /\ valid = {}
  /\ ids = {}

-----------------------------------------------------------------------------
(* Starting and stopping.                                                  *)

At(p, l)   == procs[p].pc = l
Goto(p, l) == procs' = [procs EXCEPT ![p].pc = l]

\* The process p ends: it returns from main, or it is killed.
Exit(p) == procs' = [procs EXCEPT ![p] = Off]

\* main: where each of the programs begins.
First(g) == CASE g = "host" -> "key" [] g = "cli" -> "source" [] OTHER -> "release"

\* peershd with its flags, peershd update, or peersh-cli.  A peershd runs from
\* its executable.  -firebase-login-only is only.
Start(p, g, how, only) ==
  /\ At(p, "off") /\ g \in may[p]
  /\ g # "cli" => exe \in Good
  /\ g # "host" => ~only
  /\ g = "update" => how = "direct"
  /\ procs' = [procs EXCEPT ![p] =
       [Off EXCEPT !.prog = g, !.how = how, !.only = only, !.pc = First(g)]]
  /\ UNCHANGED <<may, files, valid, ids>>

\* program.Stop, a signal, or a power failure.
Kill(p) ==
  /\ ~At(p, "off") /\ Exit(p)
  /\ UNCHANGED <<may, files, valid, ids>>

-----------------------------------------------------------------------------
(* The device key: LoadOrGenerateKey, writeKey.                            *)

Keys == (1 .. MaxKey) \ ({key} \cup ids \cup {procs[p].key : p \in Proc})
Used == {tokenFile} \cup {procs[p].tok : p \in Proc} \cup {procs[p].got : p \in Proc}
Toks == (1 .. MaxTok) \ Used

\* A number that is not in use.
Fresh(S) == CHOOSE n \in S : TRUE

\* Mutation: a generated key is not saved.
LoadKeyUnsaved(p) ==
  /\ At(p, "key")
  /\ \/ /\ key \in 1 .. MaxKey
        /\ procs' = [procs EXCEPT ![p].key = key, ![p].pc = "bind"]
     \/ key = Empty /\ Exit(p)
     \/ /\ key = Absent \/ ReadFails
        /\ Keys # {}
        /\ procs' = [procs EXCEPT ![p].key = Fresh(Keys), ![p].pc = "bind"]
  /\ UNCHANGED <<may, files, valid, ids>>

\* A key that is read is parsed, and a file that does not parse is an error; a
\* read that fails, for whatever reason, is taken for a missing file.
LoadKey(p) ==
  /\ At(p, "key")
  /\ \/ /\ key \in 1 .. MaxKey
        /\ procs' = [procs EXCEPT ![p].key = key, ![p].pc = "bind"]
     \/ key = Empty /\ Exit(p)
     \/ /\ key = Absent \/ ReadFails
        /\ Keys # {}
        /\ procs' = [procs EXCEPT ![p].key = Fresh(Keys), ![p].pc = "truncate key"]
  /\ UNCHANGED <<may, files, valid, ids>>

WriteKey(p) ==
  /\ \/ At(p, "truncate key") /\ key' = Empty /\ Goto(p, "write key")
     \/ At(p, "write key") /\ key' = procs[p].key /\ Goto(p, "bind")
  /\ UNCHANGED <<may, tokenFile, exe, new, old, valid, ids>>

-----------------------------------------------------------------------------
(* run: the listener.                                                      *)

\* effectiveListen: the address without -listen depends on -signaling.
Address(listen, signaling) ==
  IF listen = "default" THEN IF signaling THEN "any" ELSE "loopback" ELSE listen

\* The guard against a listener that everyone reaches and nobody authorises,
\* and ListenUDP.
Bind(p, listen, insecure) ==
  /\ At(p, "bind")
  /\ LET signaling == procs[p].how # "direct"
         open      == Address(listen, signaling) = "any" /\ ~signaling
     IN IF (open /\ ~insecure) \/ \E q \in Proc : procs[q].bound
        THEN Exit(p)
        ELSE /\ procs' = [procs EXCEPT ![p].bound = TRUE, ![p].pc = "listen"]
  /\ UNCHANGED <<may, files, valid, ids>>

\* STUN, which may fail, the QUIC listener and the metrics, which may not, and
\* the managers of the sessions.
Listen(p) ==
  /\ At(p, "listen")
  /\ \/ Goto(p, "source")
     \/ Exit(p)
  /\ UNCHANGED <<may, files, valid, ids>>

-----------------------------------------------------------------------------
(* buildFirebaseTokenSource and buildCLIFirebaseTokenSource.               *)

\* The program has what it needs: peershd accepts connections.
Up(p) ==
  /\ procs' = [procs EXCEPT ![p].pc = "serve", ![p].up = TRUE,
                            ![p].how = IF @ = "login" THEN "load" ELSE @]
  /\ ids' = IF procs[p].prog = "host" THEN ids \cup {procs[p].key} ELSE ids

\* The source of ID tokens that the flags select.
SourceIs(p, how) == At(p, "source") /\ procs[p].how = how

\* Without signaling nothing more is needed; for PSK the secret is read.
NoFirebase(p) ==
  /\ \/ SourceIs(p, "direct") /\ Up(p)
     \/ SourceIs(p, "psk") /\ Up(p)
     \/ SourceIs(p, "psk") /\ Exit(p) /\ UNCHANGED ids
  /\ UNCHANGED <<may, files, valid>>

\* A source that has no ID token yet; -firebase-login-only wants none.
Made(p, tok) ==
  IF procs[p].only THEN Exit(p)
  ELSE procs' = [procs EXCEPT ![p].tok = tok, ![p].pc = "token"]

\* NewRefreshSource
LoadToken(p) ==
  /\ SourceIs(p, "load")
  /\ IF tokenFile \in {Absent, Empty} THEN Exit(p) ELSE Made(p, tokenFile)
  /\ UNCHANGED <<may, files, valid, ids>>

\* New: a service account, which needs no refresh token.
Credentials(p) ==
  /\ SourceIs(p, "credentials") /\ (Made(p, Absent) \/ Exit(p))
  /\ UNCHANGED <<may, files, valid, ids>>

\* Pair: claimPairingCode of the Cloud Functions, which deletes the code.
Claim(p) ==
  /\ SourceIs(p, "pair")
  /\ \/ procs' = [procs EXCEPT ![p].pc = "sign in", ![p].how = "login"]
     \/ Exit(p)
  /\ UNCHANGED <<may, files, valid, ids>>

\* GoogleSignIn up to the callback of the browser.
Browse(p) ==
  /\ SourceIs(p, "login")
  /\ \/ Goto(p, "sign in")
     \/ Exit(p)
  /\ UNCHANGED <<may, files, valid, ids>>

\* signInWithCustomToken and signInWithIdp: Google issues tokens and answers.
SignIn(p) ==
  /\ At(p, "sign in")
  /\ Toks # {} /\ valid' = (valid \cap Used) \cup {Fresh(Toks)}
  /\ procs' = [procs EXCEPT ![p].got = Fresh(Toks), ![p].real = Life, ![p].pc = "reply"]
  /\ UNCHANGED <<may, files, ids>>

-----------------------------------------------------------------------------
(* RefreshAuthSource.Token and AuthSource.Token, under their mutex.        *)

\* A part of the running program wants an ID token.
Call(p) ==
  /\ At(p, "serve") /\ procs[p].how \notin {"psk", "direct"} /\ Goto(p, "token")
  /\ UNCHANGED <<may, files, valid, ids>>

Token(p) ==
  /\ At(p, "token") /\ Goto(p, IF procs[p].exp > 0 THEN "use" ELSE "ask")
  /\ UNCHANGED <<may, files, valid, ids>>

\* exchangeRefreshTokenForIDToken at Google, with or without a new refresh
\* token; a service account gets its ID token by a custom token.
Exchange(p) ==
  /\ At(p, "ask")
  /\ \/ /\ procs[p].how = "credentials" \/ procs[p].tok \in valid
        /\ procs' = [procs EXCEPT ![p].real = Life, ![p].pc = "reply"]
        /\ UNCHANGED valid
     \/ /\ procs[p].how # "credentials" /\ procs[p].tok \in valid
        /\ Toks # {}
        /\ \E gone \in {{}, {procs[p].tok}} :
             valid' = ((valid \cap Used) \ gone) \cup {Fresh(Toks)}
        /\ procs' = [procs EXCEPT ![p].got = Fresh(Toks), ![p].real = Life,
                                  ![p].pc = "reply"]
  /\ UNCHANGED <<may, files, ids>>

Starting(p) == procs[p].how = "login" /\ ~procs[p].only /\ ~procs[p].up

\* Mutation: the cached token is returned to the end of its life.
CachedNoMargin(p) == Life

\* The time for which Token returns an ID token: its life less the margin, and
\* two minutes less again for a service account (58 minutes of an hour).
Cached(p) == Life - (IF procs[p].how = "credentials" THEN 2 * Margin ELSE Margin)

\* Mutation: a rotation writes the refresh token that was sent.
ReplyOld(p) ==
  /\ At(p, "reply")
  /\ procs' = [procs EXCEPT
       ![p].exp = IF procs[p].how = "login" THEN @ ELSE Cached(p),
       ![p].tok = IF procs[p].got = Absent \/ procs[p].how # "login" THEN @ ELSE procs[p].got,
       ![p].pc  = IF procs[p].got = Absent THEN "use" ELSE "truncate token"]
  /\ UNCHANGED <<may, files, valid, ids>>

\* The answer arrives; a new refresh token is to be written.  The expiry is
\* reckoned from now on; that of a sign-in once the token has been written.
Reply(p) ==
  /\ At(p, "reply")
  /\ procs' = [procs EXCEPT
       ![p].exp = IF procs[p].how = "login" THEN @ ELSE Cached(p),
       ![p].tok = IF procs[p].got = Absent THEN @ ELSE procs[p].got,
       ![p].pc  = IF procs[p].got = Absent THEN "use" ELSE "truncate token"]
  /\ UNCHANGED <<may, files, valid, ids>>

\* writeTokenFile.  Where two processes write at one time, the longer text
\* may stick out.  After a sign-in StartWakeRuntime calls Token.
WriteToken(p) ==
  /\ \/ /\ At(p, "truncate token")
        /\ tokenFile' = Empty /\ Goto(p, "write token")
     \/ /\ At(p, "write token")
        /\ tokenFile' \in IF tokenFile = Empty THEN {procs[p].tok}
                          ELSE {procs[p].tok, Garbage}
        /\ procs' = [procs EXCEPT ![p].got = Absent,
                       ![p].exp = IF procs[p].how = "login" THEN Cached(p) ELSE @,
                       ![p].pc = IF Starting(p) THEN "token" ELSE "use"]
  /\ UNCHANGED <<may, key, exe, new, old, valid, ids>>

\* An error for the caller of Token, and the end of a program that is starting.
Fails(p) ==
  IF procs[p].up THEN procs' = [procs EXCEPT ![p].pc = "serve", ![p].got = Absent]
  ELSE Exit(p)

\* A request is refused, or its answer is lost.
RequestFails(p) ==
  /\ procs[p].pc \in {"sign in", "ask", "reply"} /\ Fails(p)
  /\ UNCHANGED <<may, files, valid, ids>>

\* The file cannot be opened, or not be written, or not to the end.  A running
\* program goes on with the new refresh token and does not write it again.
WriteFails(p) ==
  /\ \/ At(p, "truncate token") /\ UNCHANGED tokenFile
     \/ At(p, "write token") /\ tokenFile' \in {tokenFile, Garbage}
  /\ Fails(p)
  /\ UNCHANGED <<may, key, exe, new, old, valid, ids>>

\* -firebase-login-only ends the program after the sign-in.
LoginOnly(p) ==
  /\ At(p, "use") /\ procs[p].only /\ Exit(p)
  /\ UNCHANGED <<may, files, valid, ids>>

\* Token has returned.  A peershd that starts writes its device record first,
\* and ends if it cannot.
RegisterDevice(p) ==
  /\ At(p, "use") /\ ~procs[p].only
  /\ \/ Up(p)
     \/ procs[p].prog = "host" /\ ~procs[p].up /\ Exit(p) /\ UNCHANGED ids
  /\ UNCHANGED <<may, files, valid>>

-----------------------------------------------------------------------------
(* runUpdate.                                                              *)

\* The latest release; there may be none.
FetchLatestRelease(p) ==
  /\ At(p, "release")
  /\ \/ Goto(p, "compare")
     \/ Exit(p)
  /\ UNCHANGED <<may, files, valid, ids>>

\* It is the running version and there is no -force, or there is -check.
Compare(p) ==
  /\ At(p, "compare")
  /\ \/ Goto(p, "assets")
     \/ Exit(p)
  /\ UNCHANGED <<may, files, valid, ids>>

\* The release has an executable for this platform, or it has none.
PickAssets(p) ==
  /\ At(p, "assets")
  /\ \/ Goto(p, "download")
     \/ Exit(p)
  /\ UNCHANGED <<may, files, valid, ids>>

\* It returns: the deferred Remove of <exe>.new.
UpdateReturns(p) == new' = "none" /\ Exit(p)

\* downloadFile truncates <exe>.new, and fills it with what the server sends.
Download(p) ==
  /\ \/ /\ At(p, "download") /\ new' = "partial" /\ Goto(p, "downloading")
     \/ /\ At(p, "downloading") /\ new' \in {"partial", "release"}
        /\ Goto(p, "verify")
     \/ procs[p].pc \in {"download", "downloading"} /\ UpdateReturns(p)
  /\ UNCHANGED <<may, key, tokenFile, exe, old, valid, ids>>

\* sha256File: the digest of <exe>.new is that of the release.
Matches == new = "release"

\* The checksum of the release, which must exist and match; then the leftover
\* of an earlier update is removed.
Verify(p) ==
  /\ At(p, "verify")
  /\ \/ Matches /\ old' = "none" /\ Goto(p, "keep") /\ UNCHANGED new
     \/ UpdateReturns(p) /\ UNCHANGED old
  /\ UNCHANGED <<may, key, tokenFile, exe, valid, ids>>

\* Mutation: the running executable is deleted.
KeepNot(p) ==
  /\ At(p, "keep") /\ exe' = "none" /\ Goto(p, "install")
  /\ UNCHANGED <<may, key, tokenFile, new, old, valid, ids>>

\* <exe> becomes <exe>.old.
Keep(p) ==
  /\ At(p, "keep")
  /\ \/ exe' = "none" /\ old' = exe /\ Goto(p, "install") /\ UNCHANGED new
     \/ UpdateReturns(p) /\ UNCHANGED <<exe, old>>
  /\ UNCHANGED <<may, key, tokenFile, valid, ids>>

\* <exe>.new becomes <exe>, or <exe>.old is put back, if that can be done.
Install(p) ==
  /\ At(p, "install")
  /\ \/ exe' = new /\ new' = "none" /\ Goto(p, "clean") /\ UNCHANGED old
     \/ exe' = old /\ old' = "none" /\ UpdateReturns(p)
     \/ UpdateReturns(p) /\ UNCHANGED <<exe, old>>
  /\ UNCHANGED <<may, key, tokenFile, valid, ids>>

Clean(p) ==
  /\ At(p, "clean") /\ old' = "none" /\ UpdateReturns(p)
  /\ UNCHANGED <<may, key, tokenFile, exe, valid, ids>>

-----------------------------------------------------------------------------
Minus1(n) == IF n > 0 THEN n - 1 ELSE 0

\* Time passes: for Google and for the programs alike.  What is left of an ID
\* token that will not be returned again does not matter.
Tick ==
  /\ \A p \in Proc : procs[p].pc \in {"reply", "truncate token", "write token"}
                       => Life - procs[p].real < MaxDelay
  /\ procs' = [p \in Proc |-> [procs[p] EXCEPT
       !.exp = Minus1(@), !.real = IF procs[p].exp = 1 THEN 0 ELSE Minus1(@)]]
  /\ UNCHANGED <<may, files, valid, ids>>

Step(p) ==
  \/ \E g \in may[p], how \in Sources, only \in BOOLEAN : Start(p, g, how, only)
  \/ Kill(p) \/ LoadKey(p) \/ WriteKey(p)
  \/ \E listen \in {"default", "loopback", "any"}, insecure \in BOOLEAN :
       Bind(p, listen, insecure)
  \/ Listen(p) \/ NoFirebase(p)
  \/ LoadToken(p) \/ Credentials(p) \/ Claim(p) \/ Browse(p) \/ SignIn(p)
  \/ Call(p) \/ Token(p) \/ Exchange(p) \/ Reply(p) \/ WriteToken(p)
  \/ RequestFails(p) \/ WriteFails(p)
  \/ LoginOnly(p) \/ RegisterDevice(p)
  \/ FetchLatestRelease(p) \/ Compare(p) \/ PickAssets(p) \/ Download(p) \/ Verify(p)
  \/ Keep(p) \/ Install(p) \/ Clean(p)

Next == (\E p \in Proc : Step(p)) \/ Tick

Spec == Init /\ [][Next]_vars

-----------------------------------------------------------------------------
(* Properties.                                                             *)

Process ==
  [prog : {"none", "host", "cli", "update"},
   pc : {"off", "key", "truncate key", "write key", "bind", "listen", "source", "sign in",
         "token", "ask", "reply", "truncate token", "write token", "use", "serve",
         "release", "compare", "assets", "download", "downloading", "verify", "keep",
         "install", "clean"},
   key : 0 .. MaxKey,
   how : {"login", "pair", "load", "credentials", "psk", "direct", "none"},
   only : BOOLEAN, bound : BOOLEAN, up : BOOLEAN, tok : (1 .. MaxTok) \cup {Absent, Garbage},
   got : 0 .. MaxTok, exp : 0 .. Life, real : 0 .. Life]

\* The types of the variables.
TypeOK ==
  /\ key \in (1 .. MaxKey) \cup {Absent, Empty}
  /\ tokenFile \in (1 .. MaxTok) \cup {Absent, Empty, Garbage}
  /\ exe \in {"current", "release", "partial", "none"}
  /\ {new, old} \subseteq {"current", "release", "partial", "none"}
  /\ procs \in [Proc -> Process]
  /\ \A p \in Proc :
       procs[p].got # Absent => procs[p].pc \in {"reply", "truncate token", "write token"}
  /\ valid \subseteq 1 .. MaxTok
  /\ ids \subseteq 1 .. MaxKey

\* LoadOrGenerateKey: "If dir already contains KeyFile, the key is loaded."
\* Whatever is killed when, every peershd that ever served did so under the
\* key that is on the disk, and so under the device id that clients pin.
IdStable == ids \subseteq {key}

\* Token "returns a non-expired Firebase ID token": the one it hands out is
\* accepted by Google, although its expiry is reckoned from the arrival of an
\* answer that may have been under way for a while.
TokenFresh ==
  [][\A p \in Proc : ~At(p, "use") /\ procs'[p].pc = "use" => procs'[p].real > 0]_vars

\* Token and Pair: wherever programs that share the token file are killed, fail
\* to write it or overlap, it is truncated only by one that holds a newer token
\* which Google accepts, and what is then written is such a token.  What a write
\* that is not alone or not complete leaves is no token at all, never an old one.
FileReplaced ==
  [][tokenFile' # tokenFile =>
       \/ tokenFile' \in valid'
       \/ /\ tokenFile' = Empty
          /\ \E p \in Proc : procs'[p].pc = "write token" /\ procs'[p].got \in valid'
       \/ tokenFile' = Garbage /\ \E p \in Proc : At(p, "write token")]_vars

\* RefreshAuthSource: while a program serves with a refresh token that Google
\* accepts, and nobody is about to write the file, one that Google accepts is in
\* it, as the next start needs.  A write that failed is not made again, so that
\* this does not hold.
FileUsable ==
  (\E p \in Proc : procs[p].up /\ procs[p].tok \in valid)
    /\ (\A p \in Proc : procs[p].got = Absent) => tokenFile \in valid

\* runUpdate: whenever it fails or is killed, the executable is the running
\* version or a release whose checksum was verified, and where it is missing
\* such a one lies beside it.
Installed == exe \in Good \/ (exe = "none" /\ old \in Good)
=============================================================================
