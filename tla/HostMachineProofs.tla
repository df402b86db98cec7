-------------------------- MODULE HostMachineProofs --------------------------
(***************************************************************************)
(* Proofs about HostMachine, for any number of processes, keys, tokens and *)
(* any times that the assumption allows: type correctness, the token that  *)
(* Token returns, the token file, the executable and the device key.       *)
(***************************************************************************)
EXTENDS HostMachine, TLAPS

\* The places in runUpdate, in LoadOrGenerateKey, where a process writes the token
\* file, and where it holds an answer of Google with what is to be written.
UpdatePc == {"release", "compare", "assets", "download", "downloading", "verify", "keep",
             "install", "clean"}
KeyPc    == {"key", "truncate key", "write key"}
WritePc  == {"truncate token", "write token"}
AnswerPc == {"reply", "truncate token", "write token"}

\* Where a process is tells which program it runs, and the program is one that
\* the operator may run there.
ControlOf(p) ==
  /\ IF At(p, "off") THEN procs[p].prog = "none" ELSE procs[p].prog \in may[p]
  /\ At(p, "sign in") => procs[p].how = "login"
  /\ procs[p].pc \in UpdatePc <=> procs[p].prog = "update"
  /\ procs[p].pc \in KeyPc => procs[p].prog = "host"
  /\ procs[p].prog = "host" /\ ~At(p, "key") => procs[p].key \in 1 .. MaxKey
Control == \A p \in Proc : ControlOf(p)

\* RefreshAuthSource.Token: an ID token that would be returned is good for
\* longer than it would be returned; one that has just arrived has lost no
\* more of its life than the longest delay.
TimelyOf(p) ==
  /\ procs[p].exp > 0 => procs[p].exp <= procs[p].real
  /\ procs[p].pc \notin {"token", "use", "serve"} \cup WritePc => procs[p].exp = 0
  /\ procs[p].pc \in AnswerPc => Life - procs[p].real <= MaxDelay
  /\ procs[p].pc \in WritePc /\ procs[p].exp > 0 => procs[p].real <= procs[p].exp + Margin
Timely == \A p \in Proc : TimelyOf(p)

\* A new refresh token is accepted by Google, and is known to its process alone
\* until it is on the disk.
TokensOf(p) ==
  /\ procs[p].pc \in WritePc => procs[p].got # Absent /\ procs[p].tok = procs[p].got
  /\ procs[p].how = "credentials" => procs[p].got = Absent
  /\ procs[p].got # Absent =>
       /\ procs[p].got \in valid /\ procs[p].got # tokenFile
       /\ \A q \in Proc \ {p} : procs[q].got # procs[p].got /\ procs[q].tok # procs[p].got
Tokens == \A p \in Proc : TokensOf(p)

\* One process at most runs `peershd update`; one at most runs peershd.
OneUpdate == \A p, q \in Proc : "update" \in may[p] \cap may[q] => p = q
OneHost   == \A p, q \in Proc : "host" \in may[p] \cap may[q] => p = q

\* runUpdate, if one runs at a time: what is verified is what is installed, and
\* the executable is moved away only when its successor lies there.
Updating ==
  OneUpdate =>
    /\ Installed
    /\ \A p \in Proc :
         /\ procs[p].pc \in UpdatePc \ {"install"} => exe \in Good
         /\ procs[p].pc \in {"keep", "install"} => new = "release"
         /\ At(p, "install") => exe = "none"

\* LoadOrGenerateKey, if one peershd starts at a time and an existing file can
\* be read: a key is written only where nobody has served with another.
KeyOf(p) ==
  /\ At(p, "truncate key") => key = Absent
  /\ At(p, "write key") => key = Empty
  /\ procs[p].prog = "host" /\ procs[p].pc \notin KeyPc => procs[p].key = key
Keyed == OneHost /\ ~ReadFails => IdStable /\ \A p \in Proc : KeyOf(p)

\* The inductive invariant.
IInv == may \in Mays /\ TypeOK /\ Control /\ Timely /\ Tokens /\ Updating /\ Keyed

-----------------------------------------------------------------------------
(* The constants and the operators.                                        *)

\* The constants, as the proofs use them.
LEMMA Constants ==
  /\ Life \in Nat /\ Margin \in Nat /\ MaxDelay \in Nat /\ MaxKey \in Nat /\ MaxTok \in Nat
  /\ MaxDelay <= Margin /\ 2 * Margin < Life
  /\ Sources \subseteq {"login", "pair", "load", "credentials", "psk", "direct"}
BY MachineAssumption

\* The programs that a slot may run.
LEMMA MayPrograms ==
  ASSUME may \in Mays, NEW p \in Proc
  PROVE  may[p] \subseteq {"host", "cli", "update"}
BY MachineAssumption

\* A number that is drawn is a key, or a token, that is nowhere in use.
LEMMA FreshIn ==
  ASSUME NEW S, S # {}
  PROVE  Fresh(S) \in S
BY DEF Fresh

\* The fields of a process.
LEMMA Fields ==
  ASSUME NEW r \in Process
  PROVE  /\ r.key \in 0 .. MaxKey /\ r.got \in 0 .. MaxTok
         /\ r.tok \in (1 .. MaxTok) \cup {Absent, Garbage}
         /\ r.exp \in 0 .. Life /\ r.real \in 0 .. Life
         /\ r.how \in {"login", "pair", "load", "credentials", "psk", "direct", "none"}
         /\ r.prog \in {"none", "host", "cli", "update"}
BY DEF Process

\* A process that does not run.
LEMMA OffProcess == Off \in Process
BY Constants DEF Off, Process, Absent

-----------------------------------------------------------------------------
(* The steps, by what they do to the process and to the files.             *)

Becomes(p, s) == procs' = [procs EXCEPT ![p] = s]

\* The token file, where a write of it that has begun may fail.
Spoils(p) == tokenFile' = tokenFile \/ (At(p, "write token") /\ tokenFile' = Garbage)

\* The process ends.  An update also removes <exe>.new, and may put <exe>.old
\* back or remove it.
Ends(p) ==
  /\ ~At(p, "off") /\ Becomes(p, Off) /\ Spoils(p)
  /\ \/ UNCHANGED <<exe, new, old>>
     \/ procs[p].pc \in UpdatePc /\ new' = "none" /\ UNCHANGED <<exe, old>>
     \/ At(p, "install") /\ new' = "none" /\ exe' = old /\ old' = "none"
     \/ At(p, "clean") /\ new' = "none" /\ old' = "none" /\ UNCHANGED exe
  /\ UNCHANGED <<may, key, valid, ids>>

\* The process goes on, and nothing else changes.
Moves(p, l) ==
  /\ \/ At(p, "listen") /\ l = "source"
     \/ SourceIs(p, "login") /\ l = "sign in"
     \/ At(p, "serve") /\ l = "token"
     \/ At(p, "token") /\ l = (IF procs[p].exp > 0 THEN "use" ELSE "ask")
  /\ Becomes(p, [procs[p] EXCEPT !.pc = l])
  /\ UNCHANGED <<may, files, valid, ids>>

\* An update goes on.
Updates(p, l) ==
  /\ \/ /\ procs[p].pc \in {"release", "compare", "assets"}
        /\ l \in {"compare", "assets", "download"} /\ UNCHANGED <<exe, new, old>>
     \/ /\ procs[p].pc \in {"download", "downloading"} /\ l \in {"downloading", "verify"}
        /\ new' \in {"partial", "release"} /\ UNCHANGED <<exe, old>>
     \/ /\ At(p, "verify") /\ l = "keep"
        /\ new = "release" /\ old' = "none" /\ UNCHANGED <<exe, new>>
     \/ At(p, "keep") /\ l = "install" /\ exe' = "none" /\ old' = exe /\ UNCHANGED new
     \/ At(p, "install") /\ l = "clean" /\ exe' = new /\ new' = "none" /\ UNCHANGED old
  /\ Becomes(p, [procs[p] EXCEPT !.pc = l])
  /\ UNCHANGED <<may, key, tokenFile, valid, ids>>

\* A key is read, or generated.
Loads(p, k, l) ==
  /\ At(p, "key")
  /\ \/ key \in 1 .. MaxKey /\ k = key /\ l = "bind"
     \/ (key = Absent \/ ReadFails) /\ k \in 1 .. MaxKey /\ l = "truncate key"
  /\ Becomes(p, [procs[p] EXCEPT !.key = k, !.pc = l])
  /\ UNCHANGED <<may, files, valid, ids>>

Binds(p) ==
  /\ At(p, "bind")
  /\ Becomes(p, [procs[p] EXCEPT !.bound = TRUE, !.pc = "listen"])
  /\ UNCHANGED <<may, files, valid, ids>>

\* The program has what it needs.
Serves(p) ==
  /\ procs[p].pc \in {"source", "use"}
  /\ Becomes(p, [procs[p] EXCEPT !.pc = "serve", !.up = TRUE,
                                 !.how = IF @ = "login" THEN "load" ELSE @])
  /\ ids' = IF procs[p].prog = "host" THEN ids \cup {procs[p].key} ELSE ids
  /\ UNCHANGED <<may, files, valid>>

\* A token source is made.
Makes(p, t) ==
  /\ \/ SourceIs(p, "load") /\ t = tokenFile /\ t \notin {Absent, Empty}
     \/ SourceIs(p, "credentials") /\ t = Absent
  /\ Becomes(p, [procs[p] EXCEPT !.tok = t, !.pc = "token"])
  /\ UNCHANGED <<may, files, valid, ids>>

\* The pairing code is good.
Claims(p) ==
  /\ SourceIs(p, "pair")
  /\ Becomes(p, [procs[p] EXCEPT !.pc = "sign in", !.how = "login"])
  /\ UNCHANGED <<may, files, valid, ids>>

\* Google issues an ID token, and the refresh token t if it is not Absent, which
\* may replace the one that was sent.
Issues(p, t) ==
  /\ procs[p].pc \in {"sign in", "ask"}
  /\ \/ t = Absent /\ UNCHANGED valid
     \/ /\ At(p, "sign in") \/ procs[p].how # "credentials"
        /\ t \in Toks
        /\ \E gone \in {{}, {procs[p].tok}} :
             valid' = ((valid \cap Used) \ gone) \cup {t}
  /\ Becomes(p, [procs[p] EXCEPT !.got = IF t = Absent THEN @ ELSE t,
                                 !.real = Life, !.pc = "reply"])
  /\ UNCHANGED <<may, files, ids>>

\* The answer has arrived.
Takes(p, e, t, l) ==
  /\ At(p, "reply")
  /\ e = IF procs[p].how = "login" THEN procs[p].exp ELSE Cached(p)
  /\ IF procs[p].got = Absent THEN t = procs[p].tok /\ l = "use"
     ELSE t = procs[p].got /\ l = "truncate token"
  /\ Becomes(p, [procs[p] EXCEPT !.exp = e, !.tok = t, !.pc = l])
  /\ UNCHANGED <<may, files, valid, ids>>

\* The refresh token is on the disk.
Saves(p, e, l) ==
  /\ At(p, "write token")
  /\ tokenFile' \in IF tokenFile = Empty THEN {procs[p].tok} ELSE {procs[p].tok, Garbage}
  /\ e = IF procs[p].how = "login" THEN Cached(p) ELSE procs[p].exp
  /\ l \in {"token", "use"}
  /\ Becomes(p, [procs[p] EXCEPT !.got = Absent, !.exp = e, !.pc = l])
  /\ UNCHANGED <<may, key, exe, new, old, valid, ids>>

\* A running program reports an error of Token to its caller.
Recovers(p) ==
  /\ procs[p].pc \in {"sign in", "ask"} \cup AnswerPc
  /\ Becomes(p, [procs[p] EXCEPT !.pc = "serve", !.got = Absent]) /\ Spoils(p)
  /\ UNCHANGED <<may, key, exe, new, old, valid, ids>>

\* A file is truncated, or the key is written.
Truncates(p, l) ==
  /\ \/ At(p, "truncate key") /\ key' = Empty /\ l = "write key" /\ UNCHANGED tokenFile
     \/ At(p, "write key") /\ key' = procs[p].key /\ l = "bind" /\ UNCHANGED tokenFile
     \/ At(p, "truncate token") /\ tokenFile' = Empty /\ l = "write token" /\ UNCHANGED key
  /\ Becomes(p, [procs[p] EXCEPT !.pc = l])
  /\ UNCHANGED <<may, exe, new, old, valid, ids>>

\* One of these is what a step does.
Does(p) ==
  \/ \E g \in may[p], how \in Sources, only \in BOOLEAN : Start(p, g, how, only)
  \/ Ends(p) \/ Binds(p) \/ Serves(p) \/ Claims(p) \/ Recovers(p)
  \/ \E l : Moves(p, l) \/ Updates(p, l) \/ Truncates(p, l)
  \/ \E k, l : Loads(p, k, l)
  \/ \E t : Makes(p, t) \/ Issues(p, t)
  \/ \E e, t, l : Takes(p, e, t, l)
  \/ \E e, l : Saves(p, e, l)

\* Every action of a process is of one of these kinds.
LEMMA StepKinds ==
  ASSUME TypeOK, Control, NEW p \in Proc, Step(p)
  PROVE  Does(p)
<1> USE DEF At, Becomes
<1>1. ASSUME Exit(p), ~At(p, "off"), UNCHANGED <<may, files, valid, ids>> PROVE Does(p)
  BY <1>1 DEF Does, Ends, Exit, Spoils, files
<1>2. ASSUME Kill(p) PROVE Does(p)
  BY <1>1, <1>2 DEF Kill
<1>3. ASSUME LoadKey(p) PROVE Does(p)
  <2>1. Keys # {} => Fresh(Keys) \in 1 .. MaxKey
    BY FreshIn DEF Keys
  <2>2. CASE key = Empty /\ Exit(p)
    BY <1>1, <1>3, <2>2 DEF LoadKey
  <2>3. CASE ~(key = Empty /\ Exit(p))
    <3>1. CASE key \in 1 .. MaxKey
               /\ procs' = [procs EXCEPT ![p].key = key, ![p].pc = "bind"]
      <4>1. Loads(p, key, "bind")
        BY <1>3, <2>3, <3>1 DEF LoadKey, Loads
      <4> QED
        BY <4>1 DEF Does
    <3>2. CASE ~(key \in 1 .. MaxKey
                 /\ procs' = [procs EXCEPT ![p].key = key, ![p].pc = "bind"])
      <4>1. Loads(p, Fresh(Keys), "truncate key")
        BY <1>3, <2>1, <2>3, <3>2 DEF LoadKey, Loads
      <4> QED
        BY <4>1 DEF Does
    <3> QED
      BY <3>1, <3>2
  <2> QED
    BY <2>2, <2>3
<1>4. ASSUME WriteKey(p) PROVE Does(p)
  BY <1>4 DEF WriteKey, Goto, Does, Truncates
<1>5. ASSUME NEW listen, NEW insecure, Bind(p, listen, insecure) PROVE Does(p)
  <2>1. CASE Exit(p)
    BY <1>1, <1>5, <2>1 DEF Bind
  <2>2. CASE ~Exit(p)
    BY <1>5, <2>2 DEF Bind, Does, Binds
  <2> QED
    BY <2>1, <2>2
<1>6. ASSUME Listen(p) PROVE Does(p)
  <2>1. CASE Exit(p)
    BY <1>1, <1>6, <2>1 DEF Listen
  <2>2. CASE ~Exit(p)
    BY <1>6, <2>2 DEF Listen, Goto, Does, Moves
  <2> QED
    BY <2>1, <2>2
<1>7. ASSUME NoFirebase(p) PROVE Does(p)
  <2>1. CASE Exit(p) /\ UNCHANGED ids
    BY <1>1, <1>7, <2>1 DEF NoFirebase, SourceIs
  <2>2. CASE Up(p)
    BY <1>7, <2>2 DEF NoFirebase, Does, Serves, Up, SourceIs
  <2> QED
    BY <1>7, <2>1, <2>2 DEF NoFirebase
<1>8. ASSUME LoadToken(p) PROVE Does(p)
  <2>1. CASE Exit(p)
    BY <1>1, <1>8, <2>1 DEF LoadToken, SourceIs
  <2>2. CASE ~Exit(p)
    BY <1>8, <2>2 DEF LoadToken, Does, Makes, SourceIs, Made
  <2> QED
    BY <2>1, <2>2
<1>9. ASSUME Credentials(p) PROVE Does(p)
  <2>1. CASE Exit(p)
    BY <1>1, <1>9, <2>1 DEF Credentials, SourceIs
  <2>2. CASE ~Exit(p)
    BY <1>9, <2>2 DEF Credentials, Does, Makes, SourceIs, Made
  <2> QED
    BY <2>1, <2>2
<1>10. ASSUME Claim(p) PROVE Does(p)
  <2>1. CASE Exit(p)
    BY <1>1, <1>10, <2>1 DEF Claim, SourceIs
  <2>2. CASE ~Exit(p)
    BY <1>10, <2>2 DEF Claim, Does, Claims, SourceIs
  <2> QED
    BY <2>1, <2>2
<1>11. ASSUME Browse(p) PROVE Does(p)
  <2>1. CASE Exit(p)
    BY <1>1, <1>11, <2>1 DEF Browse, SourceIs
  <2>2. CASE ~Exit(p)
    BY <1>11, <2>2 DEF Browse, Does, Moves, SourceIs, Goto
  <2> QED
    BY <2>1, <2>2
<1>12. ASSUME SignIn(p) PROVE Does(p)
  <2>1. Fresh(Toks) \in Toks /\ Fresh(Toks) # Absent
    <3>1. Fresh(Toks) \in Toks
      BY <1>12, FreshIn DEF SignIn
    <3> QED
      BY <3>1 DEF Toks, Absent
  <2>2. Issues(p, Fresh(Toks))
    BY <1>12, <2>1 DEF SignIn, Issues
  <2> QED
    BY <2>2 DEF Does
<1>13. ASSUME Call(p) \/ Token(p) PROVE Does(p)
  BY <1>13 DEF Call, Token, Goto, Does, Moves
<1>14. ASSUME Exchange(p) PROVE Does(p)
  <2>1. CASE UNCHANGED valid /\ procs' = [procs EXCEPT ![p].real = Life, ![p].pc = "reply"]
    <3>1. procs' = [procs EXCEPT ![p] = [procs[p] EXCEPT !.got = procs[p].got,
                                            !.real = Life, !.pc = "reply"]]
      BY <2>1 DEF TypeOK, Process
    <3>2. Issues(p, Absent)
      BY <1>14, <2>1, <3>1 DEF Exchange, Issues
    <3> QED
      BY <3>2 DEF Does
  <2>2. CASE ~(UNCHANGED valid /\ procs' = [procs EXCEPT ![p].real = Life, ![p].pc = "reply"])
    <3>1. Fresh(Toks) \in Toks /\ Fresh(Toks) # Absent
      BY <1>14, <2>2, FreshIn DEF Exchange, Toks, Absent
    <3>2. Issues(p, Fresh(Toks))
      BY <1>14, <2>2, <3>1 DEF Exchange, Issues
    <3> QED
      BY <3>2 DEF Does
  <2> QED
    BY <2>1, <2>2
<1>15. ASSUME Reply(p) PROVE Does(p)
  <2> DEFINE e == IF procs[p].how = "login" THEN procs[p].exp ELSE Cached(p)
             t == IF procs[p].got = Absent THEN procs[p].tok ELSE procs[p].got
             l == IF procs[p].got = Absent THEN "use" ELSE "truncate token"
  <2>1. procs' = [procs EXCEPT ![p] = [procs[p] EXCEPT !.exp = e, !.tok = t, !.pc = l]]
    BY <1>15 DEF Reply
  <2>2. Takes(p, e, t, l)
    BY <1>15, <2>1 DEF Reply, Takes
  <2> QED
    BY <2>2 DEF Does
<1>16. ASSUME WriteToken(p) PROVE Does(p)
  <2>1. CASE At(p, "truncate token")
    BY <1>16, <2>1 DEF WriteToken, Goto, Does, Truncates
  <2>2. CASE At(p, "write token")
    <3> DEFINE e == IF procs[p].how = "login" THEN Cached(p) ELSE procs[p].exp
               l == IF Starting(p) THEN "token" ELSE "use"
    <3>1. procs' = [procs EXCEPT ![p] = [procs[p] EXCEPT !.got = Absent, !.exp = e, !.pc = l]]
      BY <1>16, <2>2 DEF WriteToken
    <3>2. Saves(p, e, l)
      BY <1>16, <2>2, <3>1 DEF WriteToken, Saves
    <3> QED
      BY <3>2 DEF Does
  <2> QED
    BY <1>16, <2>1, <2>2 DEF WriteToken
<1>17. ASSUME RequestFails(p) \/ WriteFails(p) PROVE Does(p)
  <2>1. /\ procs[p].pc \in {"sign in", "ask"} \cup AnswerPc /\ Fails(p) /\ Spoils(p)
        /\ UNCHANGED <<may, key, exe, new, old, valid, ids>>
    BY <1>17 DEF RequestFails, WriteFails, Spoils, AnswerPc, files
  <2>2. CASE procs[p].up
    BY <2>1, <2>2 DEF Fails, Does, Recovers
  <2>3. CASE ~procs[p].up
    <3>1. Ends(p)
      BY <2>1, <2>3 DEF Fails, Exit, Ends, AnswerPc
    <3> QED
      BY <3>1 DEF Does
  <2> QED
    BY <2>2, <2>3
<1>18. ASSUME LoginOnly(p) PROVE Does(p)
  BY <1>1, <1>18 DEF LoginOnly
<1>19. ASSUME RegisterDevice(p) PROVE Does(p)
  <2>1. CASE Exit(p) /\ UNCHANGED ids
    BY <1>1, <1>19, <2>1 DEF RegisterDevice
  <2>2. CASE Up(p)
    BY <1>19, <2>2 DEF RegisterDevice, Does, Serves, Up
  <2> QED
    BY <1>19, <2>1, <2>2 DEF RegisterDevice
<1>20. ASSUME FetchLatestRelease(p) PROVE Does(p)
  <2>1. CASE Exit(p)
    BY <1>1, <1>20, <2>1 DEF FetchLatestRelease
  <2>2. CASE ~Exit(p)
    BY <1>20, <2>2 DEF FetchLatestRelease, Does, Updates, Goto, files
  <2> QED
    BY <2>1, <2>2
<1>21. ASSUME Compare(p) PROVE Does(p)
  <2>1. CASE Exit(p)
    BY <1>1, <1>21, <2>1 DEF Compare
  <2>2. CASE ~Exit(p)
    BY <1>21, <2>2 DEF Compare, Does, Updates, Goto, files
  <2> QED
    BY <2>1, <2>2
<1>22. ASSUME PickAssets(p) PROVE Does(p)
  <2>1. CASE Exit(p)
    BY <1>1, <1>22, <2>1 DEF PickAssets
  <2>2. CASE ~Exit(p)
    BY <1>22, <2>2 DEF PickAssets, Does, Updates, Goto, files
  <2> QED
    BY <2>1, <2>2
<1>23. ASSUME Download(p) PROVE Does(p)
  <2>1. CASE UpdateReturns(p)
    <3>1. Ends(p)
      BY <1>23, <2>1 DEF Download, UpdateReturns, Ends, Exit, Spoils, UpdatePc
    <3> QED
      BY <3>1 DEF Does
  <2>2. CASE ~UpdateReturns(p)
    <3>1. \E l : Updates(p, l)
      BY <1>23, <2>2 DEF Download, Goto, Updates
    <3> QED
      BY <3>1 DEF Does
  <2> QED
    BY <2>1, <2>2
<1>24. ASSUME Verify(p) PROVE Does(p)
  <2>1. CASE Matches /\ old' = "none" /\ Goto(p, "keep") /\ UNCHANGED new
    <3>1. \E l : Updates(p, l)
      BY <1>24, <2>1 DEF Verify, Goto, Updates, Matches
    <3> QED
      BY <3>1 DEF Does
  <2>2. CASE ~(Matches /\ old' = "none" /\ Goto(p, "keep") /\ UNCHANGED new)
    <3>1. Ends(p)
      BY <1>24, <2>2 DEF Verify, UpdateReturns, Ends, Exit, Spoils, UpdatePc
    <3> QED
      BY <3>1 DEF Does
  <2> QED
    BY <2>1, <2>2
<1>25. ASSUME Keep(p) PROVE Does(p)
  <2>1. CASE exe' = "none" /\ old' = exe /\ Goto(p, "install") /\ UNCHANGED new
    <3>1. \E l : Updates(p, l)
      BY <1>25, <2>1 DEF Keep, Goto, Updates
    <3> QED
      BY <3>1 DEF Does
  <2>2. CASE ~(exe' = "none" /\ old' = exe /\ Goto(p, "install") /\ UNCHANGED new)
    <3>1. Ends(p)
      BY <1>25, <2>2 DEF Keep, UpdateReturns, Ends, Exit, Spoils, UpdatePc
    <3> QED
      BY <3>1 DEF Does
  <2> QED
    BY <2>1, <2>2
<1>26. ASSUME Install(p) PROVE Does(p)
  <2>1. CASE exe' = new /\ new' = "none" /\ Goto(p, "clean") /\ UNCHANGED old
    <3>1. \E l : Updates(p, l)
      BY <1>26, <2>1 DEF Install, Goto, Updates
    <3> QED
      BY <3>1 DEF Does
  <2>2. CASE ~(exe' = new /\ new' = "none" /\ Goto(p, "clean") /\ UNCHANGED old)
    <3>1. Ends(p)
      BY <1>26, <2>2 DEF Install, UpdateReturns, Ends, Exit, Spoils, UpdatePc
    <3> QED
      BY <3>1 DEF Does
  <2> QED
    BY <2>1, <2>2
<1>27. ASSUME Clean(p) PROVE Does(p)
  BY <1>27 DEF Clean, UpdateReturns, Does, Ends, Exit, Spoils
<1>28. ASSUME NEW g \in may[p], NEW how \in Sources, NEW only \in BOOLEAN, Start(p, g, how, only)
       PROVE  Does(p)
  BY <1>28 DEF Does
<1> QED
  BY <1>2, <1>3, <1>4, <1>5, <1>6, <1>7, <1>8, <1>9, <1>10, <1>11, <1>12, <1>13, <1>14,
     <1>15, <1>16, <1>17, <1>18, <1>19, <1>20, <1>21, <1>22, <1>23, <1>24, <1>25, <1>26,
     <1>27, <1>28 DEF Step

\* A step of a process changes that process only.
LEMMA Single ==
  ASSUME procs \in [Proc -> Process], NEW p \in Proc, NEW s \in Process, Becomes(p, s)
  PROVE  /\ procs' \in [Proc -> Process] /\ procs'[p] = s
         /\ \A q \in Proc \ {p} : procs'[q] = procs[q]
BY DEF Becomes

\* The record of a process that has a key.
LEMMA KeyRecord ==
  ASSUME NEW r \in Process, NEW k \in 0 .. MaxKey, NEW l \in {"bind", "truncate key"}
  PROVE  /\ [r EXCEPT !.key = k, !.pc = l] \in Process
         /\ [r EXCEPT !.key = k, !.pc = l].got = r.got
BY DEF Process

\* The same of a process that has an answer of Google.
LEMMA AnswerRecord ==
  ASSUME NEW r \in Process, NEW g \in 0 .. MaxTok
  PROVE  /\ [r EXCEPT !.got = g, !.real = Life, !.pc = "reply"] \in Process
         /\ [r EXCEPT !.got = g, !.real = Life, !.pc = "reply"].pc = "reply"
<1>1. Life \in 0 .. Life
  BY Constants
<1> QED
  BY <1>1 DEF Process

\* What a process is started as.
Started(g, how, only) ==
  [Off EXCEPT !.prog = g, !.how = how, !.only = only, !.pc = First(g)]

\* The record of a process that has just been started.
LEMMA StartRecord ==
  ASSUME NEW g \in {"host", "cli", "update"}, NEW how \in Sources, NEW only \in BOOLEAN
  PROVE  /\ Started(g, how, only) \in Process
         /\ Started(g, how, only).prog = g /\ Started(g, how, only).pc = First(g)
         /\ Started(g, how, only).how = how
         /\ Started(g, how, only).got = Absent /\ Started(g, how, only).tok = Absent
         /\ Started(g, how, only).exp = 0
<1>1. First(g) \in {"key", "source", "release"}
  BY DEF First
<1> QED
  BY <1>1, OffProcess, Constants DEF Started, Off, Process

-----------------------------------------------------------------------------
(* Type correctness.                                                       *)

\* Every step of a process keeps the types.
LEMMA StepType ==
  ASSUME may \in Mays, TypeOK, Control, NEW p \in Proc, Does(p)
  PROVE  TypeOK'
<1> USE Constants
<1> DEFINE r == procs[p]
           Rest == /\ key' \in (1 .. MaxKey) \cup {Absent, Empty}
                   /\ tokenFile' \in (1 .. MaxTok) \cup {Absent, Empty, Garbage}
                   /\ exe' \in {"current", "release", "partial", "none"}
                   /\ {new, old}' \subseteq {"current", "release", "partial", "none"}
                   /\ valid' \subseteq 1 .. MaxTok
                   /\ ids' \subseteq 1 .. MaxKey
<1>1. r \in Process /\ procs \in [Proc -> Process] /\ (r.got # Absent => r.pc \in AnswerPc)
  BY DEF TypeOK, AnswerPc
<1>2. ASSUME NEW s \in Process, Becomes(p, s), s.got # Absent => s.pc \in AnswerPc, Rest
      PROVE  TypeOK'
  <2>1. /\ procs' \in [Proc -> Process] /\ procs'[p] = s
        /\ \A q \in Proc \ {p} : procs'[q] = procs[q]
    BY <1>1, <1>2, Single
  <2>2. ASSUME NEW q \in Proc, procs'[q].got # Absent PROVE procs'[q].pc \in AnswerPc
    <3>1. CASE q = p
      BY <1>2, <2>1, <2>2, <3>1
    <3>2. CASE q # p
      BY <2>1, <2>2, <3>2 DEF TypeOK, AnswerPc
    <3> QED
      BY <3>1, <3>2
  <2> QED
    BY <1>2, <2>1, <2>2 DEF TypeOK, AnswerPc
<1>3. ASSUME UNCHANGED <<key, tokenFile, exe, new, old, valid, ids>> PROVE Rest
  BY <1>3 DEF TypeOK
<1>4. ASSUME NEW g \in may[p], NEW how \in Sources, NEW only \in BOOLEAN, Start(p, g, how, only)
      PROVE  TypeOK'
  <2>1. g \in {"host", "cli", "update"}
    BY MayPrograms
  <2>2. Started(g, how, only) \in Process /\ Started(g, how, only).got = Absent
    BY <2>1, StartRecord
  <2>3. Becomes(p, Started(g, how, only)) /\ Rest
    BY <1>3, <1>4 DEF Start, Becomes, files, Started
  <2> QED
    BY <1>2, <2>2, <2>3
<1>5. ASSUME Ends(p) PROVE TypeOK'
  <2>1. Becomes(p, Off) /\ Off.got = Absent
    BY <1>5 DEF Ends, Off
  <2>2. Rest
    BY <1>5 DEF Ends, Spoils, TypeOK
  <2> QED
    BY <1>2, <2>1, <2>2, OffProcess
<1>6. ASSUME NEW l, Moves(p, l) PROVE TypeOK'
  <2> DEFINE s == [r EXCEPT !.pc = l]
  <2>1. s \in Process /\ s.got = Absent
    BY <1>1, <1>6 DEF Process, Moves, At, SourceIs, AnswerPc
  <2>2. Becomes(p, s) /\ Rest
    BY <1>3, <1>6 DEF Moves, files
  <2> QED
    BY <1>2, <2>1, <2>2
<1>7. ASSUME NEW l, Updates(p, l) PROVE TypeOK'
  <2> DEFINE s == [r EXCEPT !.pc = l]
  <2>1. s \in Process /\ s.got = Absent
    BY <1>1, <1>7 DEF Process, Updates, At, AnswerPc
  <2>2. Becomes(p, s) /\ Rest
    BY <1>7 DEF Updates, TypeOK
  <2> QED
    BY <1>2, <2>1, <2>2
<1>8. ASSUME NEW k, NEW l, Loads(p, k, l) PROVE TypeOK'
  <2> DEFINE s == [r EXCEPT !.key = k, !.pc = l]
  <2>1. k \in 0 .. MaxKey
    <3>1. k \in 1 .. MaxKey
      BY <1>8 DEF Loads
    <3> QED
      BY <3>1
  <2>2. s \in Process /\ s.got = Absent
    <3>1. l \in {"bind", "truncate key"} /\ r.pc = "key"
      BY <1>8 DEF Loads, At
    <3>2. r.got = Absent
      BY <1>1, <3>1 DEF AnswerPc
    <3> QED
      BY <1>1, <2>1, <3>1, <3>2, KeyRecord
  <2>3. Becomes(p, s) /\ Rest
    BY <1>3, <1>8 DEF Loads, files
  <2> QED
    BY <1>2, <2>2, <2>3
<1>9. ASSUME Binds(p) PROVE TypeOK'
  <2> DEFINE s == [r EXCEPT !.bound = TRUE, !.pc = "listen"]
  <2>1. s \in Process /\ s.got = Absent
    BY <1>1, <1>9 DEF Process, Binds, At, AnswerPc
  <2>2. Becomes(p, s) /\ Rest
    BY <1>3, <1>9 DEF Binds, files
  <2> QED
    BY <1>2, <2>1, <2>2
<1>10. ASSUME Serves(p) PROVE TypeOK'
  <2> DEFINE h == IF r.how = "login" THEN "load" ELSE r.how
             s == [r EXCEPT !.pc = "serve", !.up = TRUE, !.how = h]
  <2>2. Becomes(p, s)
    BY <1>10 DEF Serves, Becomes
  <2>1. s \in Process /\ s.got = Absent
    <3>1. h \in {"login", "pair", "load", "credentials", "psk", "direct", "none"}
      BY <1>1, Fields
    <3>2. r.got = Absent
      BY <1>1, <1>10 DEF Serves, AnswerPc
    <3> HIDE DEF h
    <3> QED
      BY <1>1, <3>1, <3>2 DEF Process
  <2>3. Rest
    BY <1>1, <1>10 DEF Serves, files, TypeOK, Control, ControlOf, At
  <2> QED
    BY <1>2, <2>1, <2>2, <2>3
<1>11. ASSUME NEW t, Makes(p, t) PROVE TypeOK'
  <2> DEFINE s == [r EXCEPT !.tok = t, !.pc = "token"]
  <2>1. t \in (1 .. MaxTok) \cup {Absent, Garbage}
    BY <1>11 DEF Makes, TypeOK
  <2>2. s \in Process /\ s.got = Absent
    BY <1>1, <1>11, <2>1 DEF Process, Makes, SourceIs, At, AnswerPc
  <2>3. Becomes(p, s) /\ Rest
    BY <1>3, <1>11 DEF Makes, files
  <2> QED
    BY <1>2, <2>2, <2>3
<1>12. ASSUME Claims(p) PROVE TypeOK'
  <2> DEFINE s == [r EXCEPT !.pc = "sign in", !.how = "login"]
  <2>1. s \in Process /\ s.got = Absent
    BY <1>1, <1>12 DEF Process, Claims, SourceIs, At, AnswerPc
  <2>2. Becomes(p, s) /\ Rest
    BY <1>3, <1>12 DEF Claims, files
  <2> QED
    BY <1>2, <2>1, <2>2
<1>13. ASSUME NEW t, Issues(p, t) PROVE TypeOK'
  <2> DEFINE g == IF t = Absent THEN r.got ELSE t
             s == [r EXCEPT !.got = g, !.real = Life, !.pc = "reply"]
  <2>1. t = Absent \/ t \in 1 .. MaxTok
    BY <1>13 DEF Issues, Toks
  <2>2. s \in Process /\ s.pc \in AnswerPc
    <3>1. g \in 0 .. MaxTok
      <4>1. r.got \in 0 .. MaxTok
        BY <1>1, Fields
      <4> QED
        BY <2>1, <4>1 DEF Absent
    <3> HIDE DEF g
    <3> QED
      BY <1>1, <3>1, AnswerRecord DEF AnswerPc
  <2>3. Becomes(p, s)
    BY <1>13 DEF Issues
  <2>4. valid' \subseteq 1 .. MaxTok
    BY <1>13 DEF Issues, Toks, TypeOK
  <2>5. Rest
    BY <1>13, <2>4 DEF Issues, files, TypeOK
  <2> QED
    BY <1>2, <2>2, <2>3, <2>5
<1>14. ASSUME NEW e, NEW t, NEW l, Takes(p, e, t, l) PROVE TypeOK'
  <2> DEFINE s == [r EXCEPT !.exp = e, !.tok = t, !.pc = l]
  <2>1. Cached(p) \in 0 .. Life
    BY DEF Cached
  <2>2. e \in 0 .. Life /\ t \in (1 .. MaxTok) \cup {Absent, Garbage}
    <3>1. /\ r.exp \in 0 .. Life /\ r.got \in 0 .. MaxTok
          /\ r.tok \in (1 .. MaxTok) \cup {Absent, Garbage}
      BY <1>1, Fields
    <3>2. e \in {r.exp, Cached(p)} /\ t \in {r.tok, r.got}
      BY <1>14 DEF Takes
    <3>3. r.got \in (1 .. MaxTok) \cup {Absent, Garbage}
      BY <3>1 DEF Absent
    <3> QED
      BY <2>1, <3>1, <3>2, <3>3
  <2>3. s \in Process /\ s.got = r.got /\ s.pc = l
    BY <1>1, <1>14, <2>2 DEF Process, Takes
  <2>4. s.got # Absent => s.pc \in AnswerPc
    BY <1>14, <2>3 DEF Takes, AnswerPc
  <2>5. Becomes(p, s) /\ Rest
    BY <1>3, <1>14 DEF Takes, files
  <2> QED
    BY <1>2, <2>3, <2>4, <2>5
<1>15. ASSUME NEW e, NEW l, Saves(p, e, l) PROVE TypeOK'
  <2> DEFINE s == [r EXCEPT !.got = Absent, !.exp = e, !.pc = l]
  <2>1. Cached(p) \in 0 .. Life
    BY DEF Cached
  <2>2. e \in 0 .. Life
    BY <1>1, <1>15, <2>1 DEF Process, Saves
  <2>3. s \in Process /\ s.got = Absent
    <3>1. l \in {"token", "use"}
      BY <1>15 DEF Saves
    <3>2. Absent \in 0 .. MaxTok
      BY DEF Absent
    <3> QED
      BY <1>1, <2>2, <3>1, <3>2 DEF Process
  <2>4. r.tok \in (1 .. MaxTok) \cup {Absent, Garbage}
    BY <1>1 DEF Process
  <2>5. Rest
    BY <1>15, <2>4 DEF Saves, TypeOK
  <2>6. Becomes(p, s)
    BY <1>15 DEF Saves
  <2> QED
    BY <1>2, <2>3, <2>5, <2>6
<1>16. ASSUME Recovers(p) PROVE TypeOK'
  <2> DEFINE s == [r EXCEPT !.pc = "serve", !.got = Absent]
  <2>1. s \in Process /\ s.got = Absent
    <3>1. Absent \in 0 .. MaxTok
      BY DEF Absent
    <3> QED
      BY <1>1, <3>1 DEF Process
  <2>2. Becomes(p, s)
    BY <1>16 DEF Recovers
  <2>3. Rest
    BY <1>16 DEF Recovers, Spoils, TypeOK
  <2> QED
    BY <1>2, <2>1, <2>2, <2>3
<1>17. ASSUME NEW l, Truncates(p, l) PROVE TypeOK'
  <2> DEFINE s == [r EXCEPT !.pc = l]
  <2>1. s \in Process /\ (s.got # Absent => s.pc \in AnswerPc)
    BY <1>1, <1>17 DEF Process, Truncates, At, AnswerPc
  <2>2. r.key \in (1 .. MaxKey) \cup {Absent}
    BY <1>1, Fields DEF Absent
  <2>3. Rest
    BY <1>17, <2>2 DEF Truncates, TypeOK
  <2>4. Becomes(p, s)
    BY <1>17 DEF Truncates
  <2> QED
    BY <1>2, <2>1, <2>3, <2>4
<1> QED
  BY <1>4, <1>5, <1>6, <1>7, <1>8, <1>9, <1>10, <1>11, <1>12, <1>13, <1>14, <1>15, <1>16,
     <1>17 DEF Does

-----------------------------------------------------------------------------
(* What the steps do to the fields of a process that the invariants name.  *)

\* A process that goes on.
LEMMA MovesFields ==
  ASSUME procs \in [Proc -> Process], NEW p \in Proc, NEW l, Moves(p, l)
  PROVE  /\ \A q \in Proc \ {p} : procs'[q] = procs[q]
         /\ procs'[p].pc = l
         /\ procs'[p].prog = procs[p].prog /\ procs'[p].key = procs[p].key
         /\ procs'[p].how = procs[p].how /\ procs'[p].tok = procs[p].tok
         /\ procs'[p].got = procs[p].got /\ procs'[p].exp = procs[p].exp
         /\ procs'[p].real = procs[p].real
<1>1. procs[p] \in Process
  OBVIOUS
<1> QED
  BY <1>1 DEF Moves, Becomes, Process

\* An update that goes on.
LEMMA UpdatesFields ==
  ASSUME procs \in [Proc -> Process], NEW p \in Proc, NEW l, Updates(p, l)
  PROVE  /\ \A q \in Proc \ {p} : procs'[q] = procs[q]
         /\ procs'[p].pc = l
         /\ procs'[p].prog = procs[p].prog /\ procs'[p].key = procs[p].key
         /\ procs'[p].how = procs[p].how /\ procs'[p].tok = procs[p].tok
         /\ procs'[p].got = procs[p].got /\ procs'[p].exp = procs[p].exp
         /\ procs'[p].real = procs[p].real
<1>1. procs[p] \in Process
  OBVIOUS
<1> QED
  BY <1>1 DEF Updates, Becomes, Process

\* A file is truncated, or the key is written.
LEMMA TruncatesFields ==
  ASSUME procs \in [Proc -> Process], NEW p \in Proc, NEW l, Truncates(p, l)
  PROVE  /\ \A q \in Proc \ {p} : procs'[q] = procs[q]
         /\ procs'[p].pc = l
         /\ procs'[p].prog = procs[p].prog /\ procs'[p].key = procs[p].key
         /\ procs'[p].how = procs[p].how /\ procs'[p].tok = procs[p].tok
         /\ procs'[p].got = procs[p].got /\ procs'[p].exp = procs[p].exp
         /\ procs'[p].real = procs[p].real
<1>1. procs[p] \in Process
  OBVIOUS
<1> QED
  BY <1>1 DEF Truncates, Becomes, Process

\* LoadOrGenerateKey.
LEMMA LoadsFields ==
  ASSUME procs \in [Proc -> Process], NEW p \in Proc, NEW k, NEW l, Loads(p, k, l)
  PROVE  /\ \A q \in Proc \ {p} : procs'[q] = procs[q]
         /\ procs'[p].pc = l
         /\ procs'[p].key = k
         /\ procs'[p].prog = procs[p].prog /\ procs'[p].how = procs[p].how
         /\ procs'[p].tok = procs[p].tok /\ procs'[p].got = procs[p].got
         /\ procs'[p].exp = procs[p].exp /\ procs'[p].real = procs[p].real
<1>1. procs[p] \in Process
  OBVIOUS
<1> QED
  BY <1>1 DEF Loads, Becomes, Process

\* ListenUDP.
LEMMA BindsFields ==
  ASSUME procs \in [Proc -> Process], NEW p \in Proc, Binds(p)
  PROVE  /\ \A q \in Proc \ {p} : procs'[q] = procs[q]
         /\ procs'[p].pc = "listen"
         /\ procs'[p].prog = procs[p].prog /\ procs'[p].key = procs[p].key
         /\ procs'[p].how = procs[p].how /\ procs'[p].tok = procs[p].tok
         /\ procs'[p].got = procs[p].got /\ procs'[p].exp = procs[p].exp
         /\ procs'[p].real = procs[p].real
<1>1. procs[p] \in Process
  OBVIOUS
<1> QED
  BY <1>1 DEF Binds, Becomes, Process

\* The program is up.
LEMMA ServesFields ==
  ASSUME procs \in [Proc -> Process], NEW p \in Proc, Serves(p)
  PROVE  /\ \A q \in Proc \ {p} : procs'[q] = procs[q]
         /\ procs'[p].pc = "serve"
         /\ procs'[p].how = (IF procs[p].how = "login" THEN "load" ELSE procs[p].how)
         /\ procs'[p].prog = procs[p].prog /\ procs'[p].key = procs[p].key
         /\ procs'[p].tok = procs[p].tok /\ procs'[p].got = procs[p].got
         /\ procs'[p].exp = procs[p].exp /\ procs'[p].real = procs[p].real
<1>1. procs[p] \in Process
  OBVIOUS
<1> QED
  BY <1>1 DEF Serves, Becomes, Process

\* A token source is made.
LEMMA MakesFields ==
  ASSUME procs \in [Proc -> Process], NEW p \in Proc, NEW t, Makes(p, t)
  PROVE  /\ \A q \in Proc \ {p} : procs'[q] = procs[q]
         /\ procs'[p].pc = "token"
         /\ procs'[p].tok = t
         /\ procs'[p].prog = procs[p].prog /\ procs'[p].key = procs[p].key
         /\ procs'[p].how = procs[p].how /\ procs'[p].got = procs[p].got
         /\ procs'[p].exp = procs[p].exp /\ procs'[p].real = procs[p].real
<1>1. procs[p] \in Process
  OBVIOUS
<1> QED
  BY <1>1 DEF Makes, Becomes, Process

\* Pair.
LEMMA ClaimsFields ==
  ASSUME procs \in [Proc -> Process], NEW p \in Proc, Claims(p)
  PROVE  /\ \A q \in Proc \ {p} : procs'[q] = procs[q]
         /\ procs'[p].pc = "sign in"
         /\ procs'[p].how = "login"
         /\ procs'[p].prog = procs[p].prog /\ procs'[p].key = procs[p].key
         /\ procs'[p].tok = procs[p].tok /\ procs'[p].got = procs[p].got
         /\ procs'[p].exp = procs[p].exp /\ procs'[p].real = procs[p].real
<1>1. procs[p] \in Process
  OBVIOUS
<1> QED
  BY <1>1 DEF Claims, Becomes, Process

\* Google answers.
LEMMA IssuesFields ==
  ASSUME procs \in [Proc -> Process], NEW p \in Proc, NEW t, Issues(p, t)
  PROVE  /\ \A q \in Proc \ {p} : procs'[q] = procs[q]
         /\ procs'[p].pc = "reply"
         /\ procs'[p].real = Life
         /\ procs'[p].got = (IF t = Absent THEN procs[p].got ELSE t)
         /\ procs'[p].prog = procs[p].prog /\ procs'[p].key = procs[p].key
         /\ procs'[p].how = procs[p].how /\ procs'[p].tok = procs[p].tok
         /\ procs'[p].exp = procs[p].exp
<1>1. procs[p] \in Process
  OBVIOUS
<1> QED
  BY <1>1 DEF Issues, Becomes, Process

\* The answer arrives.
LEMMA TakesFields ==
  ASSUME procs \in [Proc -> Process], NEW p \in Proc, NEW e, NEW t, NEW l, Takes(p, e, t, l)
  PROVE  /\ \A q \in Proc \ {p} : procs'[q] = procs[q]
         /\ procs'[p].pc = l
         /\ procs'[p].exp = e
         /\ procs'[p].tok = t
         /\ procs'[p].prog = procs[p].prog /\ procs'[p].key = procs[p].key
         /\ procs'[p].how = procs[p].how /\ procs'[p].got = procs[p].got
         /\ procs'[p].real = procs[p].real
<1>1. procs[p] \in Process
  OBVIOUS
<1> QED
  BY <1>1 DEF Takes, Becomes, Process

\* writeTokenFile.
LEMMA SavesFields ==
  ASSUME procs \in [Proc -> Process], NEW p \in Proc, NEW e, NEW l, Saves(p, e, l)
  PROVE  /\ \A q \in Proc \ {p} : procs'[q] = procs[q]
         /\ procs'[p].pc = l
         /\ procs'[p].exp = e
         /\ procs'[p].got = Absent
         /\ procs'[p].prog = procs[p].prog /\ procs'[p].key = procs[p].key
         /\ procs'[p].how = procs[p].how /\ procs'[p].tok = procs[p].tok
         /\ procs'[p].real = procs[p].real
<1>1. procs[p] \in Process
  OBVIOUS
<1> QED
  BY <1>1 DEF Saves, Becomes, Process

\* Token returns an error.
LEMMA RecoversFields ==
  ASSUME procs \in [Proc -> Process], NEW p \in Proc, Recovers(p)
  PROVE  /\ \A q \in Proc \ {p} : procs'[q] = procs[q]
         /\ procs'[p].pc = "serve"
         /\ procs'[p].got = Absent
         /\ procs'[p].prog = procs[p].prog /\ procs'[p].key = procs[p].key
         /\ procs'[p].how = procs[p].how /\ procs'[p].tok = procs[p].tok
         /\ procs'[p].exp = procs[p].exp /\ procs'[p].real = procs[p].real
<1>1. procs[p] \in Process
  OBVIOUS
<1> QED
  BY <1>1 DEF Recovers, Becomes, Process

\* A process is started.
LEMMA StartFields ==
  ASSUME may \in Mays, procs \in [Proc -> Process], NEW p \in Proc, NEW g \in may[p],
         NEW how \in Sources, NEW only \in BOOLEAN, Start(p, g, how, only)
  PROVE  /\ \A q \in Proc \ {p} : procs'[q] = procs[q]
         /\ procs'[p].prog = g /\ procs'[p].pc = First(g) /\ procs'[p].how = how
         /\ procs'[p].got = Absent /\ procs'[p].tok = Absent /\ procs'[p].exp = 0
         /\ g \in {"host", "cli", "update"}
<1>1. g \in {"host", "cli", "update"}
  BY MayPrograms
<1>2. procs' = [procs EXCEPT ![p] = Started(g, how, only)]
  BY DEF Start, Started
<1> QED
  BY <1>1, <1>2, StartRecord

\* A process ends.
LEMMA EndsFields ==
  ASSUME procs \in [Proc -> Process], NEW p \in Proc, Ends(p)
  PROVE  /\ \A q \in Proc \ {p} : procs'[q] = procs[q]
         /\ procs'[p] = Off
         /\ procs'[p].prog = "none" /\ procs'[p].pc = "off" /\ procs'[p].got = Absent
         /\ procs'[p].tok = Absent /\ procs'[p].exp = 0 /\ procs'[p].how = "none"
BY DEF Ends, Becomes, Off

\* Time passes for every process.
LEMMA TickFields ==
  ASSUME procs \in [Proc -> Process], Tick, NEW p \in Proc
  PROVE  /\ procs'[p] \in Process
         /\ procs'[p].prog = procs[p].prog /\ procs'[p].pc = procs[p].pc
         /\ procs'[p].key = procs[p].key /\ procs'[p].how = procs[p].how
         /\ procs'[p].tok = procs[p].tok /\ procs'[p].got = procs[p].got
         /\ procs'[p].exp = Minus1(procs[p].exp)
         /\ procs'[p].real = IF procs[p].exp = 1 THEN 0 ELSE Minus1(procs[p].real)
<1> DEFINE r == procs[p]
           e == Minus1(r.exp)
           f == IF r.exp = 1 THEN 0 ELSE Minus1(r.real)
<1>1. r \in Process /\ r.exp \in 0 .. Life /\ r.real \in 0 .. Life
  BY Fields
<1>2. e \in 0 .. Life /\ f \in 0 .. Life
  BY <1>1, Constants DEF Minus1
<1>3. procs'[p] = [r EXCEPT !.exp = e, !.real = f]
  BY DEF Tick
<1> HIDE DEF r, e, f
<1>4. [r EXCEPT !.exp = e, !.real = f] \in Process
  BY <1>1, <1>2 DEF Process
<1>5. /\ procs'[p].prog = r.prog /\ procs'[p].pc = r.pc /\ procs'[p].key = r.key
      /\ procs'[p].how = r.how /\ procs'[p].tok = r.tok /\ procs'[p].got = r.got
      /\ procs'[p].exp = e /\ procs'[p].real = f
  BY <1>1, <1>3 DEF Process
<1> QED
  BY <1>3, <1>4, <1>5 DEF r, e, f

\* Time does not change a type.
LEMMA TickType ==
  ASSUME TypeOK, Tick
  PROVE  TypeOK'
<1>1. procs \in [Proc -> Process]
  BY DEF TypeOK
<1>2. DOMAIN procs' = Proc /\ procs' = [p \in Proc |-> procs'[p]]
  BY DEF Tick
<1>3. procs' \in [Proc -> Process]
  BY <1>1, <1>2, TickFields
<1>4. \A p \in Proc :
        procs'[p].got # Absent => procs'[p].pc \in {"reply", "truncate token", "write token"}
  BY <1>1, TickFields DEF TypeOK
<1>5. UNCHANGED <<key, tokenFile, exe, new, old, valid, ids>>
  BY DEF Tick, files
<1> QED
  BY <1>3, <1>4, <1>5 DEF TypeOK

-----------------------------------------------------------------------------
(* The parts of the inductive invariant.                                   *)

\* A step leaves the other processes alone, and what may be run.
LEMMA Others ==
  ASSUME may \in Mays, TypeOK, NEW p \in Proc, Does(p)
  PROVE  may' = may /\ \A q \in Proc \ {p} : procs'[q] = procs[q]
<1>1. procs' = [procs EXCEPT ![p] = procs'[p]] /\ may' = may
  <2>1. procs \in [Proc -> Process]
    BY DEF TypeOK
  <2> QED
    BY <2>1 DEF Does, Start, Ends, Moves, Updates, Truncates, Loads, Binds, Serves, Makes,
       Claims, Issues, Takes, Saves, Recovers, Becomes
<1> QED
  BY <1>1 DEF TypeOK

\* main: each program goes its own way.
LEMMA StepControl ==
  ASSUME may \in Mays, TypeOK, Control, NEW p \in Proc, Does(p)
  PROVE  Control'
<1>1. procs \in [Proc -> Process] /\ ControlOf(p)
  BY DEF TypeOK, Control
<1>2. may' = may /\ \A q \in Proc \ {p} : ControlOf(q)'
  BY Others DEF Control, ControlOf, At
<1>3. ASSUME NEW g \in may[p], NEW how \in Sources, NEW only \in BOOLEAN,
             Start(p, g, how, only)
      PROVE  ControlOf(p)'
  <2>1. /\ procs'[p].prog = g /\ procs'[p].pc = First(g) /\ g \in {"host", "cli", "update"}
        /\ g \in may[p]
    BY <1>1, <1>3, StartFields
  <2>2. CASE g = "host"
    BY <1>2, <2>1, <2>2 DEF ControlOf, At, First, UpdatePc, KeyPc
  <2>3. CASE g = "cli"
    BY <1>2, <2>1, <2>3 DEF ControlOf, At, First, UpdatePc, KeyPc
  <2>4. CASE g = "update"
    BY <1>2, <2>1, <2>4 DEF ControlOf, At, First, UpdatePc, KeyPc
  <2> QED
    BY <2>1, <2>2, <2>3, <2>4
<1>4. ASSUME Ends(p) PROVE ControlOf(p)'
  BY <1>4, <1>1, <1>2, EndsFields DEF Ends, ControlOf, At, UpdatePc, KeyPc, AnswerPc
<1>5. ASSUME NEW l, Moves(p, l) PROVE ControlOf(p)'
  BY <1>5, <1>1, <1>2, MovesFields DEF Moves, ControlOf, At, UpdatePc, KeyPc, AnswerPc,
     SourceIs
<1>6. ASSUME NEW l, Updates(p, l) PROVE ControlOf(p)'
  BY <1>6, <1>1, <1>2, UpdatesFields DEF Updates, ControlOf, At, UpdatePc, KeyPc, AnswerPc
<1>7. ASSUME NEW l, Truncates(p, l) PROVE ControlOf(p)'
  BY <1>7, <1>1, <1>2, TruncatesFields DEF Truncates, ControlOf, At, UpdatePc, KeyPc,
     AnswerPc
<1>8. ASSUME NEW k, NEW l, Loads(p, k, l) PROVE ControlOf(p)'
  <2>1. procs'[p].prog = procs[p].prog /\ procs'[p].pc = l /\ procs'[p].key = k
    BY <1>1, <1>8, LoadsFields
  <2>2. procs[p].pc = "key" /\ k \in 1 .. MaxKey /\ l \in {"bind", "truncate key"}
    <3>1. k \in 1 .. MaxKey
      BY <1>8 DEF Loads
    <3>2. procs[p].pc = "key" /\ l \in {"bind", "truncate key"}
      BY <1>8 DEF Loads, At
    <3> QED
      BY <3>1, <3>2
  <2>3. procs[p].prog = "host" /\ procs[p].prog \in may[p]
    BY <1>1, <2>2 DEF ControlOf, At, KeyPc
  <2> QED
    BY <1>2, <2>1, <2>2, <2>3 DEF ControlOf, At, UpdatePc, KeyPc
<1>9. ASSUME Binds(p) PROVE ControlOf(p)'
  BY <1>9, <1>1, <1>2, BindsFields DEF Binds, ControlOf, At, UpdatePc, KeyPc, AnswerPc
<1>10. ASSUME Serves(p) PROVE ControlOf(p)'
  BY <1>10, <1>1, <1>2, ServesFields DEF Serves, ControlOf, At, UpdatePc, KeyPc, AnswerPc
<1>11. ASSUME NEW t, Makes(p, t) PROVE ControlOf(p)'
  BY <1>11, <1>1, <1>2, MakesFields DEF Makes, ControlOf, At, UpdatePc, KeyPc, AnswerPc,
     SourceIs
<1>12. ASSUME Claims(p) PROVE ControlOf(p)'
  BY <1>12, <1>1, <1>2, ClaimsFields DEF Claims, ControlOf, At, UpdatePc, KeyPc,
     AnswerPc, SourceIs
<1>13. ASSUME NEW t, Issues(p, t) PROVE ControlOf(p)'
  BY <1>13, <1>1, <1>2, IssuesFields DEF Issues, ControlOf, At, UpdatePc, KeyPc, AnswerPc
<1>14. ASSUME NEW e, NEW t, NEW l, Takes(p, e, t, l) PROVE ControlOf(p)'
  <2>1. /\ procs'[p].prog = procs[p].prog /\ procs'[p].pc = l /\ procs'[p].key = procs[p].key
        /\ procs'[p].how = procs[p].how
    BY <1>1, <1>14, TakesFields
  <2>2. procs[p].pc = "reply" /\ l \in {"use", "truncate token"}
    BY <1>14 DEF Takes, At
  <2> QED
    BY <1>1, <1>2, <2>1, <2>2 DEF ControlOf, At, UpdatePc, KeyPc
<1>15. ASSUME NEW e, NEW l, Saves(p, e, l) PROVE ControlOf(p)'
  <2>1. /\ procs'[p].prog = procs[p].prog /\ procs'[p].pc = l /\ procs'[p].key = procs[p].key
        /\ procs'[p].how = procs[p].how
    BY <1>1, <1>15, SavesFields
  <2>2. procs[p].pc = "write token" /\ l \in {"token", "use"}
    BY <1>15 DEF Saves, At
  <2> QED
    BY <1>1, <1>2, <2>1, <2>2 DEF ControlOf, At, UpdatePc, KeyPc
<1>16. ASSUME Recovers(p) PROVE ControlOf(p)'
  BY <1>16, <1>1, <1>2, RecoversFields DEF Recovers, ControlOf, At, UpdatePc, KeyPc,
     AnswerPc
<1> QED
  BY <1>2, <1>3, <1>4, <1>5, <1>6, <1>7, <1>8, <1>9, <1>10, <1>11, <1>12, <1>13, <1>14,
     <1>15,
     <1>16 DEF Does, Control

\* RefreshAuthSource.Token: the time for which an ID token is returned.
LEMMA CachedBounds ==
  ASSUME NEW p \in Proc
  PROVE  /\ Cached(p) \in Nat /\ Cached(p) > 0 /\ Cached(p) <= Life - Margin
         /\ procs[p].how # "credentials" => Cached(p) = Life - Margin
BY Constants DEF Cached

\* An ID token's expiry is reckoned from the arrival of the answer and less a
\* margin that no delay exceeds.
LEMMA StepTimely ==
  ASSUME may \in Mays, TypeOK, Timely, Tokens, NEW p \in Proc, Does(p)
  PROVE  Timely'
<1> USE Constants
<1>1. procs \in [Proc -> Process] /\ TimelyOf(p)
  BY DEF TypeOK, Timely
<1>2. /\ procs[p].exp \in 0 .. Life /\ procs[p].real \in 0 .. Life
      /\ \A q \in Proc \ {p} : TimelyOf(q)'
  BY <1>1, Fields, Others DEF Timely, TimelyOf
<1>3. ASSUME NEW g \in may[p], NEW how \in Sources, NEW only \in BOOLEAN,
             Start(p, g, how, only)
      PROVE  TimelyOf(p)'
  <2>1. procs'[p].exp = 0 /\ procs'[p].pc = First(g) /\ g \in {"host", "cli", "update"}
    BY <1>1, <1>3, StartFields
  <2>2. procs'[p].pc \in {"key", "source", "release"} /\ ~(procs'[p].exp > 0)
    BY <2>1 DEF First
  <2> QED
    BY <2>1, <2>2 DEF TimelyOf, WritePc, AnswerPc
<1>4. ASSUME Ends(p) PROVE TimelyOf(p)'
  <2>1. procs'[p].exp = 0 /\ procs'[p].pc = "off"
    BY <1>1, <1>4, EndsFields
  <2> QED
    BY <2>1 DEF TimelyOf, WritePc, AnswerPc
<1>5. ASSUME NEW l, Moves(p, l) PROVE TimelyOf(p)'
  <2>1. /\ procs'[p].exp = procs[p].exp /\ procs'[p].real = procs[p].real
        /\ procs'[p].pc = l
    BY <1>1, <1>5, MovesFields
  <2>2. CASE l = "ask"
    <3>1. ~(procs[p].exp > 0)
      BY <1>5, <2>2 DEF Moves
    <3>2. procs'[p].exp = 0
      BY <1>2, <2>1, <3>1
    <3> QED
      BY <2>1, <2>2, <3>2 DEF TimelyOf, WritePc, AnswerPc
  <2>3. CASE l \in {"source", "sign in"}
    <3>1. procs[p].pc \in {"listen", "source"}
      BY <1>5, <2>3 DEF Moves, At, SourceIs
    <3> QED
      BY <1>1, <1>2, <2>1, <2>3, <3>1 DEF TimelyOf, WritePc, AnswerPc
  <2>4. CASE l \in {"token", "use"}
    BY <1>1, <1>2, <2>1, <2>4 DEF TimelyOf, WritePc, AnswerPc
  <2> QED
    BY <1>5, <2>2, <2>3, <2>4 DEF Moves
<1>6. ASSUME NEW l, Updates(p, l) PROVE TimelyOf(p)'
  BY <1>6, <1>1, <1>2, UpdatesFields DEF Updates, TimelyOf, At, WritePc, AnswerPc
<1>7. ASSUME NEW l, Truncates(p, l) PROVE TimelyOf(p)'
  BY <1>7, <1>1, <1>2, TruncatesFields DEF Truncates, TimelyOf, At, WritePc, AnswerPc
<1>8. ASSUME NEW k, NEW l, Loads(p, k, l) PROVE TimelyOf(p)'
  BY <1>8, <1>1, <1>2, LoadsFields DEF Loads, TimelyOf, At, WritePc, AnswerPc
<1>9. ASSUME Binds(p) PROVE TimelyOf(p)'
  BY <1>9, <1>1, <1>2, BindsFields DEF Binds, TimelyOf, At, WritePc, AnswerPc
<1>10. ASSUME Serves(p) PROVE TimelyOf(p)'
  BY <1>10, <1>1, <1>2, ServesFields DEF Serves, TimelyOf, At, WritePc, AnswerPc
<1>11. ASSUME NEW t, Makes(p, t) PROVE TimelyOf(p)'
  BY <1>11, <1>1, <1>2, MakesFields DEF Makes, TimelyOf, At, WritePc, AnswerPc, SourceIs
<1>12. ASSUME Claims(p) PROVE TimelyOf(p)'
  BY <1>12, <1>1, <1>2, ClaimsFields DEF Claims, TimelyOf, At, WritePc, AnswerPc, SourceIs
<1>13. ASSUME NEW t, Issues(p, t) PROVE TimelyOf(p)'
  <2>1. procs'[p].exp = procs[p].exp /\ procs'[p].real = Life /\ procs'[p].pc = "reply"
    BY <1>1, <1>13, IssuesFields
  <2>2. procs[p].exp = 0
    BY <1>1, <1>13 DEF Issues, TimelyOf, WritePc
  <2> QED
    BY <2>1, <2>2 DEF TimelyOf, WritePc, AnswerPc
<1>14. ASSUME NEW e, NEW t, NEW l, Takes(p, e, t, l) PROVE TimelyOf(p)'
  <2>1. procs'[p].exp = e /\ procs'[p].real = procs[p].real /\ procs'[p].pc = l
    BY <1>1, <1>14, TakesFields
  <2>2. procs[p].exp = 0 /\ Life - procs[p].real <= MaxDelay
    BY <1>1, <1>14 DEF Takes, At, TimelyOf, WritePc, AnswerPc
  <2>3. e = 0 \/ e = Cached(p)
    BY <1>14, <2>2 DEF Takes
  <2>4. l = "truncate token" => procs[p].how # "credentials"
    BY <1>14 DEF Takes, Tokens, TokensOf
  <2>5. l \in {"use", "truncate token"}
    BY <1>14 DEF Takes
  <2>6. e \in 0 .. Life /\ e <= Life - Margin
    BY <2>3, CachedBounds
  <2>7. l = "truncate token" => e = 0 \/ e = Life - Margin
    BY <2>3, <2>4, CachedBounds
  <2>8. procs'[p].exp <= procs'[p].real
    BY <1>2, <2>1, <2>2, <2>6
  <2>9. procs'[p].pc = "truncate token" /\ procs'[p].exp > 0
          => procs'[p].real <= procs'[p].exp + Margin
    <3>1. ASSUME l = "truncate token", e > 0 PROVE procs[p].real <= e + Margin
      <4>1. e = 0 \/ e = Life - Margin
        BY <2>7, <3>1, Zenon
      <4>2. e > 0
        BY <3>1
      <4> QED
        BY <1>2, <2>6, <4>1, <4>2
    <3> QED
      BY <2>1, <3>1
  <2> QED
    BY <2>1, <2>2, <2>5, <2>8, <2>9 DEF TimelyOf, WritePc, AnswerPc
<1>15. ASSUME NEW e, NEW l, Saves(p, e, l) PROVE TimelyOf(p)'
  <2>1. procs'[p].exp = e /\ procs'[p].real = procs[p].real /\ procs'[p].pc = l
    BY <1>1, <1>15, SavesFields
  <2>2. l \in {"token", "use"} /\ procs[p].pc = "write token"
    BY <1>15 DEF Saves, At
  <2>3. /\ Life - procs[p].real <= MaxDelay
        /\ procs[p].exp > 0 => procs[p].exp <= procs[p].real
    BY <1>1, <2>2 DEF TimelyOf, WritePc, AnswerPc
  <2>4. e = procs[p].exp \/ e = Cached(p)
    BY <1>15 DEF Saves
  <2>5. e > 0 => e <= procs[p].real
    BY <1>2, <2>3, <2>4, CachedBounds
  <2> QED
    BY <2>1, <2>2, <2>5 DEF TimelyOf, WritePc, AnswerPc
<1>16. ASSUME Recovers(p) PROVE TimelyOf(p)'
  BY <1>16, <1>1, <1>2, RecoversFields DEF Recovers, TimelyOf, At, WritePc, AnswerPc
<1> QED
  BY <1>2, <1>3, <1>4, <1>5, <1>6, <1>7, <1>8, <1>9, <1>10, <1>11, <1>12, <1>13, <1>14,
     <1>15,
     <1>16 DEF Does, Timely

\* Time shortens both alike, and an answer is not under way for longer than the
\* longest delay.
LEMMA TickTimely ==
  ASSUME TypeOK, Timely, Tick
  PROVE  Timely'
<1> USE Constants
<1> SUFFICES ASSUME NEW p \in Proc PROVE TimelyOf(p)'
  BY DEF Timely
<1> DEFINE r == procs[p]
<1>1. procs \in [Proc -> Process] /\ TimelyOf(p)
  BY DEF TypeOK, Timely
<1>2. r.exp \in 0 .. Life /\ r.real \in 0 .. Life
  BY <1>1, Fields
<1>3. procs'[p].pc = r.pc /\ procs'[p].exp = Minus1(r.exp)
      /\ procs'[p].real = IF r.exp = 1 THEN 0 ELSE Minus1(r.real)
  BY <1>1, TickFields
<1>4. r.pc \in AnswerPc => Life - r.real < MaxDelay
  BY DEF Tick, AnswerPc
<1>5. procs'[p].exp > 0 => procs'[p].exp <= procs'[p].real
  <2>1. r.exp > 0 => r.exp <= r.real
    BY <1>1 DEF TimelyOf
  <2> QED
    BY <1>2, <1>3, <2>1 DEF Minus1
<1>6. r.pc \notin {"token", "use", "serve"} \cup WritePc => procs'[p].exp = 0
  <2>1. r.exp = 0 => procs'[p].exp = 0
    BY <1>3 DEF Minus1
  <2> QED
    BY <1>1, <2>1 DEF TimelyOf
<1>7. ASSUME r.pc \in AnswerPc
      PROVE  Life - procs'[p].real <= MaxDelay
             /\ (procs'[p].exp > 0 => procs'[p].real <= procs'[p].exp + Margin)
  <2>1. Life - r.real < MaxDelay
    BY <1>4, <1>7
  <2>2. r.exp > 0 => r.real <= r.exp + Margin
    <3>1. CASE r.pc = "reply"
      BY <1>1, <3>1 DEF TimelyOf, WritePc
    <3>2. CASE r.pc \in WritePc
      BY <1>1, <3>2 DEF TimelyOf
    <3> QED
      BY <1>7, <3>1, <3>2 DEF AnswerPc, WritePc
  <2>3. r.exp # 1 /\ r.real > 0
    BY <1>2, <2>1, <2>2
  <2>4. procs'[p].real = r.real - 1 /\ (r.exp > 0 => procs'[p].exp = r.exp - 1)
    BY <1>2, <1>3, <2>3 DEF Minus1
  <2>5. r.exp = 0 => procs'[p].exp = 0
    BY <1>3 DEF Minus1
  <2> QED
    BY <1>2, <2>1, <2>2, <2>4, <2>5
<1> QED
  BY <1>3, <1>5, <1>6, <1>7 DEF TimelyOf, AnswerPc, WritePc

\* Time changes nothing else.
LEMMA TickRest ==
  ASSUME TypeOK, Tick
  PROVE  /\ Control => Control'
         /\ Tokens => Tokens'
         /\ Updating => Updating'
         /\ Keyed => Keyed'
<1>1. /\ UNCHANGED <<may, key, tokenFile, exe, new, old, valid, ids>>
  BY DEF Tick, files
<1>2. \A p \in Proc :
        /\ procs'[p].prog = procs[p].prog /\ procs'[p].pc = procs[p].pc
        /\ procs'[p].key = procs[p].key /\ procs'[p].how = procs[p].how
        /\ procs'[p].tok = procs[p].tok /\ procs'[p].got = procs[p].got
  BY TickFields DEF TypeOK
<1>3. Control => Control'
  BY <1>1, <1>2 DEF Control, ControlOf, At
<1>4. Tokens => Tokens'
  BY <1>1, <1>2 DEF Tokens, TokensOf
<1>5. Updating => Updating'
  BY <1>1, <1>2 DEF Updating, OneUpdate, Installed, At
<1>6. Keyed => Keyed'
  BY <1>1, <1>2 DEF Keyed, KeyOf, OneHost, IdStable, At
<1> QED
  BY <1>3, <1>4, <1>5, <1>6

\* runUpdate replaces the executable by what it has verified.
LEMMA StepUpdating ==
  ASSUME may \in Mays, TypeOK, Control, Updating, NEW p \in Proc, Does(p)
  PROVE  Updating'
<1>1. procs \in [Proc -> Process]
  BY DEF TypeOK
<1>2. may' = may /\ \A q \in Proc \ {p} : procs'[q] = procs[q]
  BY Others
<1>3. SUFFICES ASSUME OneUpdate PROVE Updating'
  BY <1>2 DEF Updating, OneUpdate
<1> DEFINE Upd(q) == /\ procs[q].pc \in UpdatePc \ {"install"} => exe \in Good
                     /\ procs[q].pc \in {"keep", "install"} => new = "release"
                     /\ procs[q].pc = "install" => exe = "none"
<1>4. Installed /\ \A q \in Proc : Upd(q)
  BY <1>3 DEF Updating, At
<1>5. \A q \in Proc \ {p} : procs[p].pc \in UpdatePc => procs[q].pc \notin UpdatePc
  BY <1>3 DEF Control, ControlOf, At, UpdatePc, OneUpdate
<1>6. ASSUME Installed', Upd(p)', \A q \in Proc \ {p} : Upd(q)' PROVE Updating'
  BY <1>6 DEF Updating, At
<1>7. ASSUME UNCHANGED <<exe, new, old>>,
             procs'[p].pc \in UpdatePc => procs[p].pc \in {"release", "compare", "assets"}
                                          \/ (exe \in Good /\ procs'[p].pc = "release"),
             procs'[p].pc \notin {"keep", "install"}
      PROVE  Updating'
  <2>1. Installed' /\ \A q \in Proc \ {p} : Upd(q)'
    BY <1>2, <1>4, <1>7 DEF Installed
  <2>2. Upd(p)'
    BY <1>4, <1>7 DEF UpdatePc
  <2> QED
    BY <1>6, <2>1, <2>2
<1>8. ASSUME NEW g \in may[p], NEW how \in Sources, NEW only \in BOOLEAN, Start(p, g, how, only)
      PROVE  Updating'
  <2>1. procs'[p].pc = First(g) /\ g \in {"host", "cli", "update"}
    BY <1>1, <1>8, StartFields
  <2>2. UNCHANGED <<exe, new, old>> /\ (g = "update" => exe \in Good)
    BY <1>8 DEF Start, files
  <2>3. procs'[p].pc \in {"key", "source", "release"}
        /\ (procs'[p].pc = "release" => g = "update")
    BY <2>1 DEF First
  <2> QED
    BY <1>7, <2>2, <2>3 DEF UpdatePc
<1>9. ASSUME Ends(p) PROVE Updating'
  <2>1. procs'[p].pc = "off"
    BY <1>1, <1>9, EndsFields
  <2>2. CASE UNCHANGED <<exe, new, old>>
    BY <1>7, <2>1, <2>2 DEF UpdatePc
  <2>3. CASE ~UNCHANGED <<exe, new, old>>
    <3>1. procs[p].pc \in UpdatePc
      BY <1>9, <2>3 DEF Ends, At, UpdatePc
    <3>2. \A q \in Proc \ {p} : procs'[q].pc \notin UpdatePc
      BY <1>2, <1>5, <3>1
    <3>3. (\A q \in Proc \ {p} : Upd(q)') /\ Upd(p)'
      BY <2>1, <3>2 DEF UpdatePc
    <3>4. Installed'
      <4>1. Upd(p) /\ Installed
        BY <1>4
      <4> QED
        BY <1>9, <2>3, <4>1 DEF Ends, At, UpdatePc, Installed, Good
    <3> QED
      BY <1>6, <3>3, <3>4
  <2> QED
    BY <2>2, <2>3
<1>10. ASSUME NEW l, Updates(p, l) PROVE Updating'
  <2>1. procs'[p].pc = l
    BY <1>1, <1>10, UpdatesFields
  <2>2. procs[p].pc \in UpdatePc
    BY <1>10 DEF Updates, At, UpdatePc
  <2>3. \A q \in Proc \ {p} : Upd(q)'
    BY <1>2, <1>5, <2>2 DEF UpdatePc
  <2>4. Upd(p) /\ Installed
    BY <1>4
  <2>5. Upd(p)' /\ Installed'
    BY <1>10, <2>1, <2>4 DEF Updates, At, UpdatePc, Installed, Good
  <2> QED
    BY <1>6, <2>3, <2>5
<1>11. ASSUME NEW l, Moves(p, l) PROVE Updating'
  <2>1. procs'[p].pc = l /\ l \in {"source", "sign in", "token", "use", "ask"}
    BY <1>1, <1>11, MovesFields DEF Moves
  <2> QED
    BY <1>7, <1>11, <2>1 DEF Moves, files, UpdatePc
<1>12. ASSUME NEW l, Truncates(p, l) PROVE Updating'
  <2>1. procs'[p].pc \in {"write key", "bind", "write token"}
    BY <1>1, <1>12, TruncatesFields DEF Truncates
  <2> QED
    BY <1>7, <1>12, <2>1 DEF Truncates, UpdatePc
<1>13. ASSUME NEW k, NEW l, Loads(p, k, l) PROVE Updating'
  <2>1. procs'[p].pc \in {"bind", "truncate key"}
    <3>1. procs'[p].pc = l
      BY <1>1, <1>13, LoadsFields
    <3>2. l \in {"bind", "truncate key"}
      BY <1>13 DEF Loads
    <3> QED
      BY <3>1, <3>2
  <2> QED
    BY <1>7, <1>13, <2>1 DEF Loads, files, UpdatePc
<1>14. ASSUME Binds(p) PROVE Updating'
  <2>1. procs'[p].pc \in {"listen"}
    BY <1>1, <1>14, BindsFields DEF Binds
  <2> QED
    BY <1>7, <1>14, <2>1 DEF Binds, files, UpdatePc
<1>15. ASSUME Serves(p) PROVE Updating'
  <2>1. procs'[p].pc \in {"serve"}
    BY <1>1, <1>15, ServesFields DEF Serves
  <2> QED
    BY <1>7, <1>15, <2>1 DEF Serves, files, UpdatePc
<1>16. ASSUME NEW t, Makes(p, t) PROVE Updating'
  <2>1. procs'[p].pc \in {"token"}
    BY <1>1, <1>16, MakesFields DEF Makes
  <2> QED
    BY <1>7, <1>16, <2>1 DEF Makes, files, UpdatePc
<1>17. ASSUME Claims(p) PROVE Updating'
  <2>1. procs'[p].pc \in {"sign in"}
    BY <1>1, <1>17, ClaimsFields DEF Claims
  <2> QED
    BY <1>7, <1>17, <2>1 DEF Claims, files, UpdatePc
<1>18. ASSUME NEW t, Issues(p, t) PROVE Updating'
  <2>1. procs'[p].pc \in {"reply"}
    BY <1>1, <1>18, IssuesFields DEF Issues
  <2> QED
    BY <1>7, <1>18, <2>1 DEF Issues, files, UpdatePc
<1>19. ASSUME NEW e, NEW t, NEW l, Takes(p, e, t, l) PROVE Updating'
  <2>1. procs'[p].pc \in {"use", "truncate token"}
    <3>1. procs'[p].pc = l
      BY <1>1, <1>19, TakesFields
    <3>2. l \in {"use", "truncate token"}
      BY <1>19 DEF Takes
    <3> QED
      BY <3>1, <3>2
  <2> QED
    BY <1>7, <1>19, <2>1 DEF Takes, files, UpdatePc
<1>20. ASSUME NEW e, NEW l, Saves(p, e, l) PROVE Updating'
  <2>1. procs'[p].pc \in {"token", "use"}
    <3>1. procs'[p].pc = l
      BY <1>1, <1>20, SavesFields
    <3>2. l \in {"token", "use"}
      BY <1>20 DEF Saves
    <3> QED
      BY <3>1, <3>2
  <2> QED
    BY <1>7, <1>20, <2>1 DEF Saves, UpdatePc
<1>21. ASSUME Recovers(p) PROVE Updating'
  <2>1. procs'[p].pc \in {"serve"}
    BY <1>1, <1>21, RecoversFields DEF Recovers
  <2> QED
    BY <1>7, <1>21, <2>1 DEF Recovers, UpdatePc
<1> QED
  BY <1>8, <1>9, <1>10, <1>11, <1>12, <1>13, <1>14, <1>15, <1>16, <1>17, <1>18, <1>19,
     <1>20, <1>21 DEF Does

\* LoadOrGenerateKey: the key on the disk is the one that was served with.
LEMMA StepKeyed ==
  ASSUME may \in Mays, TypeOK, Control, Keyed, NEW p \in Proc, Does(p)
  PROVE  Keyed'
<1>1. procs \in [Proc -> Process] /\ ControlOf(p)
  BY DEF TypeOK, Control
<1>2. may' = may /\ \A q \in Proc \ {p} : procs'[q] = procs[q]
  BY Others
<1>3. SUFFICES ASSUME OneHost, ~ReadFails PROVE Keyed'
  BY <1>2 DEF Keyed, OneHost
<1>4. IdStable /\ KeyOf(p) /\ \A q \in Proc : KeyOf(q)
  BY <1>3 DEF Keyed
<1>5. ASSUME UNCHANGED <<key, ids>>, KeyOf(p)' PROVE Keyed'
  <2>1. \A q \in Proc \ {p} : KeyOf(q)'
    BY <1>2, <1>4, <1>5 DEF KeyOf, At
  <2> QED
    BY <1>4, <1>5, <2>1 DEF Keyed, IdStable
<1>6. ASSUME UNCHANGED <<key, ids>>, procs'[p].pc \notin KeyPc, procs[p].pc \notin KeyPc,
             procs'[p].prog = procs[p].prog, procs'[p].key = procs[p].key
      PROVE  Keyed'
  <2>1. KeyOf(p)'
    BY <1>4, <1>6 DEF KeyOf, At, KeyPc
  <2> QED
    BY <1>5, <1>6, <2>1
<1>7. ASSUME procs[p].pc \in KeyPc PROVE \A q \in Proc \ {p} : procs[q].prog # "host"
                                            /\ procs[q].pc \notin KeyPc
  BY <1>3, <1>7 DEF Control, ControlOf, At, KeyPc, OneHost
<1>8. ASSUME NEW g \in may[p], NEW how \in Sources, NEW only \in BOOLEAN, Start(p, g, how, only)
      PROVE  Keyed'
  <2>1. procs'[p].prog = g /\ procs'[p].pc = First(g) /\ g \in {"host", "cli", "update"}
    BY <1>1, <1>8, StartFields
  <2>2. UNCHANGED <<key, ids>>
    BY <1>8 DEF Start, files
  <2>3. procs'[p].pc \in {"key", "source", "release"} /\ (g = "host" => procs'[p].pc = "key")
    BY <2>1 DEF First
  <2>4. KeyOf(p)'
    BY <2>1, <2>3 DEF KeyOf, At, KeyPc
  <2> QED
    BY <1>5, <2>2, <2>4
<1>9. ASSUME Ends(p) PROVE Keyed'
  <2>1. procs'[p].prog = "none" /\ procs'[p].pc = "off"
    BY <1>1, <1>9, EndsFields
  <2>2. KeyOf(p)'
    BY <2>1 DEF KeyOf, At
  <2> QED
    BY <1>5, <1>9, <2>2 DEF Ends
<1>10. ASSUME NEW k, NEW l, Loads(p, k, l) PROVE Keyed'
  <2>1. procs'[p].prog = procs[p].prog /\ procs'[p].pc = l /\ procs'[p].key = k
    BY <1>1, <1>10, LoadsFields
  <2>2. (l = "bind" /\ k = key) \/ (l = "truncate key" /\ key = Absent)
    <3>1. (l = "bind" /\ k = key) \/ (l = "truncate key" /\ (key = Absent \/ ReadFails))
      BY <1>10, Zenon DEF Loads
    <3> QED
      BY <1>3, <3>1, Zenon
  <2>3. UNCHANGED <<key, ids>>
    BY <1>10 DEF Loads, files
  <2>4. KeyOf(p)'
    <3>1. CASE l = "bind" /\ k = key
      BY <2>1, <2>3, <3>1 DEF KeyOf, At
    <3>2. CASE l = "truncate key" /\ key = Absent
      BY <2>1, <2>3, <3>2 DEF KeyOf, At, KeyPc
    <3> QED
      BY <2>2, <3>1, <3>2
  <2> QED
    BY <1>5, <2>3, <2>4
<1>11. ASSUME Serves(p) PROVE Keyed'
  <2>1. procs'[p].pc = "serve" /\ procs'[p].prog = procs[p].prog /\ procs'[p].key = procs[p].key
    BY <1>1, <1>11, ServesFields
  <2>2. key' = key /\ procs[p].pc \notin KeyPc
    BY <1>11 DEF Serves, files, KeyPc
  <2>3. procs[p].prog = "host" => procs[p].key = key
    BY <1>4, <2>2 DEF KeyOf
  <2>4. ids' \subseteq {key'}
    BY <1>4, <1>11, <2>2, <2>3 DEF Serves, IdStable
  <2>5. KeyOf(p)'
    BY <2>1, <2>2, <2>3 DEF KeyOf, At
  <2>6. \A q \in Proc \ {p} : KeyOf(q)'
    BY <1>2, <1>4, <2>2 DEF KeyOf, At
  <2> QED
    BY <2>4, <2>5, <2>6 DEF Keyed, IdStable
<1>12. ASSUME NEW l, Truncates(p, l) PROVE Keyed'
  <2>1. procs'[p].pc = l /\ procs'[p].prog = procs[p].prog /\ procs'[p].key = procs[p].key
    BY <1>1, <1>12, TruncatesFields
  <2>2. CASE procs[p].pc = "truncate token"
    BY <1>6, <1>12, <2>1, <2>2 DEF Truncates, At, KeyPc
  <2>3. CASE procs[p].pc \in {"truncate key", "write key"}
    <3>1. key \in {Absent, Empty}
      BY <1>4, <2>3 DEF KeyOf, At
    <3>2. ids = {}
      <4>1. key \notin 1 .. MaxKey
        BY <3>1, Constants DEF Absent, Empty
      <4>2. ids \subseteq {key} /\ ids \subseteq 1 .. MaxKey
        BY <1>4 DEF IdStable, TypeOK
      <4> QED
        BY <4>1, <4>2, Zenon
    <3>3. \A q \in Proc \ {p} : KeyOf(q)'
      <4>1. \A q \in Proc \ {p} : procs'[q].prog # "host" /\ procs'[q].pc \notin KeyPc
        BY <1>2, <1>7, <2>3 DEF KeyPc
      <4> QED
        BY <4>1 DEF KeyOf, At, KeyPc
    <3>4. KeyOf(p)' /\ ids' = ids
      BY <1>12, <2>1, <2>3 DEF Truncates, KeyOf, At, KeyPc
    <3> QED
      BY <3>2, <3>3, <3>4 DEF Keyed, IdStable
  <2> QED
    BY <1>12, <2>2, <2>3 DEF Truncates, At
<1>13. ASSUME NEW l, Updates(p, l) PROVE Keyed'
  <2>1. procs'[p].pc = l /\ procs'[p].prog = procs[p].prog /\ procs'[p].key = procs[p].key
    BY <1>1, <1>13, UpdatesFields
  <2>2. UNCHANGED <<key, ids>>
    BY <1>13 DEF Updates
  <2>3. procs[p].pc \notin KeyPc /\ l \notin KeyPc
    BY <1>13 DEF Updates, KeyPc, At
  <2> QED
    BY <1>6, <2>1, <2>2, <2>3
<1>14. ASSUME NEW l, Moves(p, l) PROVE Keyed'
  <2>1. procs'[p].pc = l /\ procs'[p].prog = procs[p].prog /\ procs'[p].key = procs[p].key
    BY <1>1, <1>14, MovesFields
  <2>2. UNCHANGED <<key, ids>>
    BY <1>14 DEF Moves, files
  <2>3. procs[p].pc \notin KeyPc /\ l \notin KeyPc
    BY <1>14 DEF Moves, KeyPc, At, SourceIs
  <2> QED
    BY <1>6, <2>1, <2>2, <2>3
<1>15. ASSUME Binds(p) PROVE Keyed'
  <2>1. procs'[p].pc = "listen" /\ procs'[p].prog = procs[p].prog /\ procs'[p].key = procs[p].key
    BY <1>1, <1>15, BindsFields
  <2>2. UNCHANGED <<key, ids>>
    BY <1>15 DEF Binds, files
  <2>3. procs[p].pc \notin KeyPc /\ "listen" \notin KeyPc
    BY <1>15 DEF Binds, KeyPc, At
  <2> QED
    BY <1>6, <2>1, <2>2, <2>3
<1>16. ASSUME NEW t, Makes(p, t) PROVE Keyed'
  <2>1. procs'[p].pc = "token" /\ procs'[p].prog = procs[p].prog /\ procs'[p].key = procs[p].key
    BY <1>1, <1>16, MakesFields
  <2>2. UNCHANGED <<key, ids>>
    BY <1>16 DEF Makes, files
  <2>3. procs[p].pc \notin KeyPc /\ "token" \notin KeyPc
    BY <1>16 DEF Makes, KeyPc, At, SourceIs
  <2> QED
    BY <1>6, <2>1, <2>2, <2>3
<1>17. ASSUME Claims(p) PROVE Keyed'
  <2>1. procs'[p].pc = "sign in" /\ procs'[p].prog = procs[p].prog /\ procs'[p].key = procs[p].key
    BY <1>1, <1>17, ClaimsFields
  <2>2. UNCHANGED <<key, ids>>
    BY <1>17 DEF Claims, files
  <2>3. procs[p].pc \notin KeyPc /\ "sign in" \notin KeyPc
    BY <1>17 DEF Claims, KeyPc, At, SourceIs
  <2> QED
    BY <1>6, <2>1, <2>2, <2>3
<1>18. ASSUME NEW t, Issues(p, t) PROVE Keyed'
  <2>1. procs'[p].pc = "reply" /\ procs'[p].prog = procs[p].prog /\ procs'[p].key = procs[p].key
    BY <1>1, <1>18, IssuesFields
  <2>2. UNCHANGED <<key, ids>>
    BY <1>18 DEF Issues, files
  <2>3. procs[p].pc \notin KeyPc /\ "reply" \notin KeyPc
    BY <1>18 DEF Issues, KeyPc, At
  <2> QED
    BY <1>6, <2>1, <2>2, <2>3
<1>19. ASSUME NEW e, NEW t, NEW l, Takes(p, e, t, l) PROVE Keyed'
  <2>1. procs'[p].pc = l /\ procs'[p].prog = procs[p].prog /\ procs'[p].key = procs[p].key
    BY <1>1, <1>19, TakesFields
  <2>2. UNCHANGED <<key, ids>>
    BY <1>19 DEF Takes, files
  <2>3. procs[p].pc \notin KeyPc /\ l \notin KeyPc
    BY <1>19 DEF Takes, KeyPc, At
  <2> QED
    BY <1>6, <2>1, <2>2, <2>3
<1>20. ASSUME NEW e, NEW l, Saves(p, e, l) PROVE Keyed'
  <2>1. procs'[p].pc = l /\ procs'[p].prog = procs[p].prog /\ procs'[p].key = procs[p].key
    BY <1>1, <1>20, SavesFields
  <2>2. UNCHANGED <<key, ids>>
    BY <1>20 DEF Saves
  <2>3. procs[p].pc \notin KeyPc /\ l \notin KeyPc
    BY <1>20 DEF Saves, KeyPc, At
  <2> QED
    BY <1>6, <2>1, <2>2, <2>3
<1>21. ASSUME Recovers(p) PROVE Keyed'
  <2>1. procs'[p].pc = "serve" /\ procs'[p].prog = procs[p].prog /\ procs'[p].key = procs[p].key
    BY <1>1, <1>21, RecoversFields
  <2>2. UNCHANGED <<key, ids>>
    BY <1>21 DEF Recovers
  <2>3. procs[p].pc \notin KeyPc /\ "serve" \notin KeyPc
    BY <1>21 DEF Recovers, KeyPc, At, AnswerPc
  <2> QED
    BY <1>6, <2>1, <2>2, <2>3
<1> QED
  BY <1>8, <1>9, <1>10, <1>11, <1>12, <1>13, <1>14, <1>15, <1>16, <1>17, <1>18, <1>19, <1>20,
     <1>21 DEF Does

\* writeTokenFile: a refresh token is in the hands of one process until it is on
\* the disk.
LEMMA StepTokens ==
  ASSUME may \in Mays, TypeOK, Control, Tokens, NEW p \in Proc, Does(p)
  PROVE  Tokens'
<1>1. procs \in [Proc -> Process] /\ ControlOf(p) /\ TokensOf(p)
  BY DEF TypeOK, Control, Tokens
<1>2. may' = may /\ \A q \in Proc \ {p} : procs'[q] = procs[q]
  BY Others
<1>3. \A q \in Proc : procs[q].got # Absent => procs[q].pc \in AnswerPc
  BY DEF TypeOK, AnswerPc
<1>4. \A q \in Proc : procs[q].got \in 0 .. MaxTok
  BY <1>1, Fields
<1>5. \A q \in Proc : procs[q].got # Garbage
  BY <1>4, Constants DEF Garbage
<1> DEFINE Own(q) == /\ procs[q].pc \in WritePc => procs[q].got # Absent
                                                   /\ procs[q].tok = procs[q].got
                     /\ procs[q].how = "credentials" => procs[q].got = Absent
<1>6. ASSUME UNCHANGED valid, tokenFile' \in {tokenFile, Garbage}, Own(p)',
             procs'[p].tok \in {procs[p].tok, procs[p].got, tokenFile, Absent},
             procs'[p].got \in {procs[p].got, Absent}
      PROVE  Tokens'
  <2>1. TokensOf(p)'
    BY <1>1, <1>2, <1>5, <1>6 DEF TokensOf
  <2>2. ASSUME NEW q \in Proc \ {p} PROVE TokensOf(q)'
    <3>1. TokensOf(q) /\ procs'[q] = procs[q]
      BY <1>2, <2>2 DEF Tokens
    <3>2. procs[q].got # Absent =>
            /\ procs[q].got # procs'[p].tok /\ procs[q].got # procs'[p].got
      BY <1>6, <3>1 DEF TokensOf
    <3>3. \A r \in Proc \ {p} : procs'[r] = procs[r]
      BY <1>2
    <3>4. procs[q].got # Absent =>
            \A r \in Proc \ {q} : procs'[r].got # procs[q].got /\ procs'[r].tok # procs[q].got
      BY <3>1, <3>2, <3>3 DEF TokensOf
    <3> QED
      BY <1>5, <1>6, <3>1, <3>4 DEF TokensOf
  <2> QED
    BY <2>1, <2>2 DEF Tokens
<1>7. ASSUME UNCHANGED <<tokenFile, valid>>,
             procs[p].pc \notin AnswerPc, procs'[p].pc \notin WritePc,
             procs'[p].got = procs[p].got,
             procs'[p].tok \in {procs[p].tok, tokenFile, Absent}
      PROVE  Tokens'
  <2>1. procs[p].got = Absent
    BY <1>3, <1>7
  <2>2. Own(p)'
    BY <1>7, <2>1
  <2> QED
    BY <1>6, <1>7, <2>2
<1>8. ASSUME NEW g \in may[p], NEW how \in Sources, NEW only \in BOOLEAN, Start(p, g, how, only)
      PROVE  Tokens'
  <2>1. /\ procs'[p].got = Absent /\ procs'[p].tok = Absent
        /\ procs'[p].pc = First(g) /\ g \in {"host", "cli", "update"}
    BY <1>1, <1>8, StartFields
  <2>2. procs[p].pc = "off" /\ UNCHANGED <<tokenFile, valid>>
    BY <1>8 DEF Start, At, files
  <2>3. procs'[p].pc \notin WritePc /\ procs[p].got = Absent /\ procs[p].pc \notin AnswerPc
    BY <1>3, <2>1, <2>2 DEF First, WritePc, AnswerPc
  <2> QED
    BY <1>7, <2>1, <2>2, <2>3
<1>9. ASSUME Ends(p) PROVE Tokens'
  <2>1. procs'[p].got = Absent /\ procs'[p].tok = Absent /\ procs'[p].pc = "off"
    BY <1>1, <1>9, EndsFields
  <2>2. Own(p)'
    BY <2>1 DEF WritePc
  <2>3. UNCHANGED valid /\ tokenFile' \in {tokenFile, Garbage}
    BY <1>9 DEF Ends, Spoils
  <2> QED
    BY <1>6, <2>1, <2>2, <2>3
<1>10. ASSUME Recovers(p) PROVE Tokens'
  <2>1. procs'[p].got = Absent /\ procs'[p].tok = procs[p].tok /\ procs'[p].pc = "serve"
    BY <1>1, <1>10, RecoversFields
  <2>2. Own(p)'
    BY <2>1 DEF WritePc
  <2>3. UNCHANGED valid /\ tokenFile' \in {tokenFile, Garbage}
    BY <1>10 DEF Recovers, Spoils
  <2> QED
    BY <1>6, <2>1, <2>2, <2>3
<1>11. ASSUME NEW e, NEW t, NEW l, Takes(p, e, t, l) PROVE Tokens'
  <2>1. /\ procs'[p].got = procs[p].got /\ procs'[p].tok = t /\ procs'[p].pc = l
        /\ procs'[p].how = procs[p].how
    BY <1>1, <1>11, TakesFields
  <2>2. IF procs[p].got = Absent THEN t = procs[p].tok /\ l = "use" ELSE t = procs[p].got
    BY <1>11 DEF Takes
  <2>3. Own(p)'
    BY <1>1, <2>1, <2>2 DEF WritePc, TokensOf
  <2>4. UNCHANGED <<tokenFile, valid>>
    BY <1>11 DEF Takes, files
  <2> QED
    BY <1>6, <2>1, <2>2, <2>3, <2>4
<1>12. ASSUME NEW t, Issues(p, t) PROVE Tokens'
  <2>1. /\ procs'[p].got = (IF t = Absent THEN procs[p].got ELSE t)
        /\ procs'[p].tok = procs[p].tok /\ procs'[p].pc = "reply"
        /\ procs'[p].how = procs[p].how
    BY <1>1, <1>12, IssuesFields
  <2>2. UNCHANGED tokenFile /\ procs[p].pc \in {"sign in", "ask"}
    BY <1>12 DEF Issues, files
  <2>3. CASE t = Absent /\ UNCHANGED valid
    <3>1. procs[p].pc \notin AnswerPc
      BY <2>2 DEF AnswerPc
    <3> QED
      BY <1>7, <2>1, <2>2, <2>3, <3>1 DEF WritePc
  <2>4. CASE ~(t = Absent /\ UNCHANGED valid)
    <3>1. /\ t \in Toks /\ procs[p].how # "credentials"
          /\ \E gone \in {{}, {procs[p].tok}} : valid' = ((valid \cap Used) \ gone) \cup {t}
      BY <1>1, <1>12, <2>4 DEF Issues, ControlOf, At
    <3>2. t # Absent /\ t \notin Used
      BY <3>1 DEF Toks, Absent
    <3>3. \A q \in Proc : procs[q].got # t /\ procs[q].tok # t
      BY <3>2 DEF Used
    <3>4. procs'[p].got = t /\ t \in valid' /\ t # tokenFile
      BY <2>1, <3>1, <3>2 DEF Used
    <3>5. TokensOf(p)'
      <4>1. \A q \in Proc \ {p} : procs'[q].got # t /\ procs'[q].tok # t
        BY <1>2, <3>3
      <4> QED
        BY <2>1, <2>2, <3>1, <3>4, <4>1 DEF TokensOf, WritePc
    <3>6. ASSUME NEW q \in Proc \ {p} PROVE TokensOf(q)'
      <4>1. TokensOf(q) /\ procs'[q] = procs[q]
        BY <1>2, <3>6 DEF Tokens
      <4>2. procs[q].got # Absent => procs[q].got \in valid'
        <5>1. procs[q].got \in Used
          BY DEF Used
        <5> QED
          BY <3>1, <4>1, <5>1 DEF TokensOf
      <4>3. procs[q].got # Absent =>
              \A r \in Proc \ {q} : procs'[r].got # procs[q].got /\ procs'[r].tok # procs[q].got
        BY <1>2, <2>1, <3>3, <3>4, <4>1 DEF TokensOf
      <4> QED
        BY <2>2, <4>1, <4>2, <4>3 DEF TokensOf
    <3> QED
      BY <3>5, <3>6 DEF Tokens
  <2> QED
    BY <2>3, <2>4
<1>13. ASSUME NEW e, NEW l, Saves(p, e, l) PROVE Tokens'
  <2>1. /\ procs'[p].got = Absent /\ procs'[p].tok = procs[p].tok /\ procs'[p].pc = l
        /\ procs'[p].how = procs[p].how
    BY <1>1, <1>13, SavesFields
  <2>2. procs[p].pc = "write token" /\ l \in {"token", "use"}
    BY <1>13 DEF Saves, At
  <2>3. procs[p].got # Absent /\ procs[p].tok = procs[p].got /\ procs[p].got \in valid
    BY <1>1, <2>2 DEF TokensOf, WritePc
  <2>4. /\ valid' = valid /\ tokenFile' \in {procs[p].tok, Garbage}
    BY <1>13 DEF Saves
  <2>5. TokensOf(p)'
    BY <2>1, <2>2 DEF TokensOf, WritePc
  <2>6. ASSUME NEW q \in Proc \ {p} PROVE TokensOf(q)'
    <3>1. TokensOf(q) /\ procs'[q] = procs[q]
      BY <1>2, <2>6 DEF Tokens
    <3>2. procs[q].got # Garbage
      BY <1>5
    <3>3. procs[q].got # Absent => procs[q].got # tokenFile'
      BY <2>4, <3>1, <3>2 DEF TokensOf
    <3>4. procs[q].got # Absent =>
            \A r \in Proc \ {q} : procs'[r].got # procs[q].got /\ procs'[r].tok # procs[q].got
      BY <1>2, <2>1, <3>1 DEF TokensOf
    <3> QED
      BY <2>4, <3>1, <3>3, <3>4 DEF TokensOf
  <2> QED
    BY <2>5, <2>6 DEF Tokens
<1>14. ASSUME NEW l, Truncates(p, l) PROVE Tokens'
  <2>1. /\ procs'[p].got = procs[p].got /\ procs'[p].tok = procs[p].tok /\ procs'[p].pc = l
        /\ procs'[p].how = procs[p].how
    BY <1>1, <1>14, TruncatesFields
  <2>2. CASE procs[p].pc = "truncate token"
    <3>1. tokenFile' = Empty /\ UNCHANGED valid /\ l = "write token"
      BY <1>14, <2>2 DEF Truncates, At
    <3>2. procs[p].got # Absent /\ procs[p].tok = procs[p].got
      BY <1>1, <2>2 DEF TokensOf, WritePc
    <3>3. \A q \in Proc : procs[q].got # Empty /\ procs'[q].got = procs[q].got
                          /\ procs'[q].tok = procs[q].tok /\ procs'[q].how = procs[q].how
                          /\ (q # p => procs'[q].pc = procs[q].pc)
      BY <1>2, <1>4, <2>1, Constants DEF Empty
    <3>4. ASSUME NEW q \in Proc PROVE TokensOf(q)'
      <4>1. TokensOf(q)
        BY DEF Tokens
      <4>2. Own(q)'
        BY <3>2, <3>3, <4>1 DEF TokensOf
      <4> QED
        BY <3>1, <3>3, <4>1, <4>2 DEF TokensOf
    <3> QED
      BY <3>4 DEF Tokens
  <2>3. CASE procs[p].pc # "truncate token"
    <3>1. UNCHANGED <<tokenFile, valid>>
      BY <1>14, <2>3 DEF Truncates, At
    <3>2. procs[p].pc \notin AnswerPc /\ l \notin WritePc
      BY <1>14, <2>3 DEF Truncates, At, AnswerPc, WritePc
    <3> QED
      BY <1>7, <2>1, <3>1, <3>2
  <2> QED
    BY <2>2, <2>3
<1>15. ASSUME NEW t, Makes(p, t) PROVE Tokens'
  <2>1. procs'[p].got = procs[p].got /\ procs'[p].tok = t /\ procs'[p].pc = "token"
    BY <1>1, <1>15, MakesFields
  <2>2. UNCHANGED <<tokenFile, valid>> /\ t \in {tokenFile, Absent}
    BY <1>15 DEF Makes, files
  <2>3. procs[p].pc \notin AnswerPc /\ "token" \notin WritePc
    BY <1>15 DEF Makes, SourceIs, At, AnswerPc, WritePc
  <2> QED
    BY <1>7, <2>1, <2>2, <2>3
<1>16. ASSUME NEW l, Updates(p, l) PROVE Tokens'
  <2>1. procs'[p].got = procs[p].got /\ procs'[p].tok = procs[p].tok /\ procs'[p].pc = l
    BY <1>1, <1>16, UpdatesFields
  <2>2. UNCHANGED <<tokenFile, valid>>
    BY <1>16 DEF Updates
  <2>3. procs[p].pc \notin AnswerPc /\ l \notin WritePc
    BY <1>16 DEF Updates, AnswerPc, WritePc, At, UpdatePc
  <2> QED
    BY <1>7, <2>1, <2>2, <2>3
<1>17. ASSUME NEW l, Moves(p, l) PROVE Tokens'
  <2>1. procs'[p].got = procs[p].got /\ procs'[p].tok = procs[p].tok /\ procs'[p].pc = l
    BY <1>1, <1>17, MovesFields
  <2>2. UNCHANGED <<tokenFile, valid>>
    BY <1>17 DEF Moves, files
  <2>3. procs[p].pc \notin AnswerPc /\ l \notin WritePc
    BY <1>17 DEF Moves, AnswerPc, WritePc, At, SourceIs
  <2> QED
    BY <1>7, <2>1, <2>2, <2>3
<1>18. ASSUME Binds(p) PROVE Tokens'
  <2>1. procs'[p].got = procs[p].got /\ procs'[p].tok = procs[p].tok /\ procs'[p].pc = "listen"
    BY <1>1, <1>18, BindsFields
  <2>2. UNCHANGED <<tokenFile, valid>>
    BY <1>18 DEF Binds, files
  <2>3. procs[p].pc \notin AnswerPc /\ "listen" \notin WritePc
    BY <1>18 DEF Binds, AnswerPc, WritePc, At
  <2> QED
    BY <1>7, <2>1, <2>2, <2>3
<1>19. ASSUME Claims(p) PROVE Tokens'
  <2>1. procs'[p].got = procs[p].got /\ procs'[p].tok = procs[p].tok /\ procs'[p].pc = "sign in"
    BY <1>1, <1>19, ClaimsFields
  <2>2. UNCHANGED <<tokenFile, valid>>
    BY <1>19 DEF Claims, files
  <2>3. procs[p].pc \notin AnswerPc /\ "sign in" \notin WritePc
    BY <1>19 DEF Claims, AnswerPc, WritePc, At, SourceIs
  <2> QED
    BY <1>7, <2>1, <2>2, <2>3
<1>20. ASSUME NEW k, NEW l, Loads(p, k, l) PROVE Tokens'
  <2>1. procs'[p].got = procs[p].got /\ procs'[p].tok = procs[p].tok /\ procs'[p].pc = l
    BY <1>1, <1>20, LoadsFields
  <2>2. UNCHANGED <<tokenFile, valid>>
    BY <1>20 DEF Loads, files
  <2>3. procs[p].pc \notin AnswerPc /\ l \notin WritePc
    BY <1>20 DEF Loads, AnswerPc, WritePc, At
  <2> QED
    BY <1>7, <2>1, <2>2, <2>3
<1>21. ASSUME Serves(p) PROVE Tokens'
  <2>1. procs'[p].got = procs[p].got /\ procs'[p].tok = procs[p].tok /\ procs'[p].pc = "serve"
    BY <1>1, <1>21, ServesFields
  <2>2. UNCHANGED <<tokenFile, valid>>
    BY <1>21 DEF Serves, files
  <2>3. procs[p].pc \notin AnswerPc /\ "serve" \notin WritePc
    BY <1>21 DEF Serves, AnswerPc, WritePc, At
  <2> QED
    BY <1>7, <2>1, <2>2, <2>3
<1> QED
  BY <1>8, <1>9, <1>10, <1>11, <1>12, <1>13, <1>14, <1>15, <1>16, <1>17, <1>18, <1>19, <1>20,
     <1>21 DEF Does

-----------------------------------------------------------------------------
(* The theorems.                                                           *)

\* At first no program runs, and no file but the executable exists.
LEMMA InitInv == Init => IInv
<1> SUFFICES ASSUME Init PROVE IInv
  OBVIOUS
<1>1. \A p \in Proc : procs[p] = Off
  BY DEF Init
<1>2. \A p \in Proc : /\ procs[p].prog = "none" /\ procs[p].pc = "off" /\ procs[p].how = "none"
                      /\ procs[p].got = Absent /\ procs[p].exp = 0
  BY <1>1 DEF Off
<1>3. procs \in [Proc -> Process]
  BY OffProcess DEF Init
<1>4. TypeOK
  BY <1>2, <1>3 DEF TypeOK, Init
<1>5. Control
  BY <1>2 DEF Control, ControlOf, At, UpdatePc, KeyPc
<1>6. Timely
  <2> SUFFICES ASSUME NEW p \in Proc PROVE TimelyOf(p)
    BY DEF Timely
  <2>1. procs[p].pc = "off" /\ procs[p].exp = 0 /\ ~(0 > 0)
    BY <1>2
  <2> QED
    BY <2>1 DEF TimelyOf, WritePc, AnswerPc
<1>7. Tokens
  BY <1>2 DEF Tokens, TokensOf, WritePc, Init
<1>8. Updating
  BY <1>2 DEF Updating, Installed, Good, At, UpdatePc, Init
<1>9. Keyed
  BY <1>2 DEF Keyed, KeyOf, At, IdStable, Init
<1> QED
  BY <1>4, <1>5, <1>6, <1>7, <1>8, <1>9 DEF IInv, Init

\* Every step of a process, and every tick, keeps the invariant.
LEMMA NextInv ==
  ASSUME IInv, [Next]_vars
  PROVE  IInv'
<1> USE DEF IInv
<1>1. ASSUME NEW p \in Proc, Step(p) PROVE IInv'
  <2>1. Does(p)
    BY <1>1, StepKinds
  <2>2. TypeOK'
    BY <2>1, StepType
  <2>3. may' \in Mays
    BY <2>1, Others
  <2>4. Control' /\ Timely'
    BY <2>1, StepControl, StepTimely
  <2>5. Tokens' /\ Updating' /\ Keyed'
    BY <2>1, StepTokens, StepUpdating, StepKeyed
  <2> QED
    BY <2>2, <2>3, <2>4, <2>5
<1>2. ASSUME Tick PROVE IInv'
  <2>1. may' = may
    BY <1>2 DEF Tick
  <2> QED
    BY <1>2, <2>1, TickType, TickTimely, TickRest
<1>3. ASSUME UNCHANGED vars PROVE IInv'
  <2>1. UNCHANGED <<may, key, tokenFile, exe, new, old, procs, valid, ids>>
    BY <1>3 DEF vars, files
  <2>2. TypeOK'
    BY <2>1 DEF TypeOK
  <2>3. Control' /\ Timely'
    BY <2>1 DEF Control, ControlOf, Timely, TimelyOf, At
  <2>4. Tokens'
    BY <2>1 DEF Tokens, TokensOf
  <2>5. Updating' /\ Keyed'
    BY <2>1 DEF Updating, OneUpdate, Installed, Keyed, KeyOf, OneHost, IdStable, At
  <2> QED
    BY <2>1, <2>2, <2>3, <2>4, <2>5
<1> QED
  BY <1>1, <1>2, <1>3 DEF Next

\* The inductive invariant holds in every reachable state.
THEOREM MachineInv == Spec => []IInv
BY InitInv, NextInv, PTL DEF Spec

\* HostMachine is type correct, whatever programs run.
THEOREM TypeCorrect == Spec => []TypeOK
<1>1. IInv => TypeOK
  BY DEF IInv
<1> QED
  BY <1>1, MachineInv, PTL

\* runUpdate: if no two updates run at one time, whichever step of one fails or
\* is the last before it is killed, the executable is the running version or a
\* verified release, or such a one is <exe>.old.
THEOREM UpdateInstalls == Spec => [](OneUpdate => Installed)
<1>1. IInv => (OneUpdate => Installed)
  BY DEF IInv, Updating
<1> QED
  BY <1>1, MachineInv, PTL

\* LoadOrGenerateKey: if no two peershd start at one time and an existing key
\* can be read, every peershd serves under the key that is on the disk,
\* wherever an earlier one was killed.
THEOREM KeyLasts == Spec => [](OneHost /\ ~ReadFails => IdStable)
<1>1. IInv => (OneHost /\ ~ReadFails => IdStable)
  BY DEF IInv, Keyed
<1> QED
  BY <1>1, MachineInv, PTL

\* Token returns an ID token that Google accepts.
LEMMA StepFresh ==
  ASSUME IInv, NEW p \in Proc, Step(p), NEW q \in Proc, ~At(q, "use"), procs'[q].pc = "use"
  PROVE  procs'[q].real > 0
<1> USE Constants DEF IInv
<1>1. Does(p) /\ procs \in [Proc -> Process]
  BY StepKinds DEF TypeOK
<1>2. q = p
  BY <1>1, Others DEF At
<1>3. procs[p].exp \in 0 .. Life /\ procs[p].real \in 0 .. Life /\ TimelyOf(p)
  BY <1>1, Fields DEF Timely
<1>4. ASSUME procs'[p].real = procs[p].real, procs[p].pc \in AnswerPc PROVE procs'[p].real > 0
  <2>1. Life - procs[p].real <= MaxDelay
    BY <1>3, <1>4 DEF TimelyOf
  <2> QED
    BY <1>3, <1>4, <2>1
<1>5. ASSUME NEW l, Moves(p, l) PROVE procs'[p].real > 0
  <2>1. procs'[p].real = procs[p].real /\ procs'[p].pc = l
    BY <1>1, <1>5, MovesFields
  <2>2. procs[p].exp > 0
    BY <1>2, <1>5, <2>1 DEF Moves
  <2>3. procs[p].exp <= procs[p].real
    BY <1>3, <2>2 DEF TimelyOf
  <2> QED
    BY <1>3, <2>1, <2>2, <2>3
<1>6. ASSUME NEW e, NEW t, NEW l, Takes(p, e, t, l) PROVE procs'[p].real > 0
  <2>1. procs'[p].real = procs[p].real
    BY <1>1, <1>6, TakesFields
  <2>2. procs[p].pc \in AnswerPc
    BY <1>6 DEF Takes, At, AnswerPc
  <2> QED
    BY <1>4, <2>1, <2>2
<1>7. ASSUME NEW e, NEW l, Saves(p, e, l) PROVE procs'[p].real > 0
  <2>1. procs'[p].real = procs[p].real
    BY <1>1, <1>7, SavesFields
  <2>2. procs[p].pc \in AnswerPc
    BY <1>7 DEF Saves, At, AnswerPc
  <2> QED
    BY <1>4, <2>1, <2>2
<1>8. ASSUME NEW g \in may[p], NEW how \in Sources, NEW only \in BOOLEAN, Start(p, g, how, only)
      PROVE  FALSE
  <2>1. procs'[p].pc = First(g) /\ g \in {"host", "cli", "update"}
    BY <1>1, <1>8, StartFields
  <2> QED
    BY <1>2, <2>1 DEF First
<1>9. ASSUME Ends(p) PROVE FALSE
  BY <1>1, <1>2, <1>9, EndsFields
<1>10. ASSUME Binds(p) \/ Serves(p) \/ Claims(p) \/ Recovers(p) PROVE FALSE
  BY <1>1, <1>2, <1>10, BindsFields, ServesFields, ClaimsFields, RecoversFields
<1>11. ASSUME NEW t, Makes(p, t) \/ Issues(p, t) PROVE FALSE
  BY <1>1, <1>2, <1>11, MakesFields, IssuesFields
<1>12. ASSUME NEW l, Updates(p, l) PROVE FALSE
  <2>1. l = "use"
    BY <1>1, <1>2, <1>12, UpdatesFields
  <2> QED
    BY <1>12, <2>1 DEF Updates
<1>13. ASSUME NEW l, Truncates(p, l) PROVE FALSE
  <2>1. l = "use"
    BY <1>1, <1>2, <1>13, TruncatesFields
  <2> QED
    BY <1>13, <2>1 DEF Truncates
<1>14. ASSUME NEW k, NEW l, Loads(p, k, l) PROVE FALSE
  <2>1. l = "use"
    BY <1>1, <1>2, <1>14, LoadsFields
  <2> QED
    BY <1>14, <2>1 DEF Loads
<1> QED
  BY <1>1, <1>2, <1>5, <1>6, <1>7, <1>8, <1>9, <1>10, <1>11, <1>12, <1>13, <1>14 DEF Does

\* RefreshAuthSource.Token and AuthSource.Token: if an answer and the write
\* after it never take longer than the margin, the ID token that Token hands
\* out has not expired.
THEOREM TokenNotExpired == Spec => TokenFresh
<1> DEFINE Handed == \A p \in Proc : ~At(p, "use") /\ procs'[p].pc = "use" => procs'[p].real > 0
<1>1. ASSUME IInv, [Next]_vars PROVE Handed \/ UNCHANGED vars
  <2>1. CASE UNCHANGED vars
    BY <2>1
  <2>2. ASSUME NEW p \in Proc, Step(p) PROVE Handed
    BY <1>1, <2>2, StepFresh
  <2>3. ASSUME Tick PROVE Handed
    <3>1. \A p \in Proc : procs'[p].pc = procs[p].pc
      BY <1>1, <2>3, TickFields DEF IInv, TypeOK
    <3> QED
      BY <3>1 DEF At
  <2> QED
    BY <1>1, <2>1, <2>2, <2>3 DEF Next
<1> QED
  BY <1>1, MachineInv, PTL DEF Spec, TokenFresh
\* Every step changes the token file as the property says.
LEMMA StepFile ==
  ASSUME IInv, NEW p \in Proc, Step(p), tokenFile' # tokenFile
  PROVE  \/ tokenFile' \in valid'
         \/ /\ tokenFile' = Empty
            /\ procs'[p].pc = "write token" /\ procs'[p].got \in valid'
         \/ tokenFile' = Garbage /\ At(p, "write token")
<1> USE DEF IInv
<1>1. Does(p) /\ procs \in [Proc -> Process] /\ TokensOf(p)
  BY StepKinds DEF TypeOK, Tokens
<1>2. ASSUME NEW e, NEW l, Saves(p, e, l)
      PROVE  tokenFile' \in valid' \/ (tokenFile' = Garbage /\ At(p, "write token"))
  <2>1. procs[p].tok \in valid
    BY <1>1, <1>2 DEF Saves, TokensOf, WritePc, At
  <2> QED
    BY <1>2, <2>1 DEF Saves
<1>3. ASSUME NEW l, Truncates(p, l)
      PROVE  /\ tokenFile' = Empty
             /\ procs'[p].pc = "write token" /\ procs'[p].got \in valid'
  <2>1. procs[p].pc = "truncate token" /\ tokenFile' = Empty /\ l = "write token" /\ valid' = valid
    BY <1>3 DEF Truncates, At
  <2>2. procs'[p].pc = l /\ procs'[p].got = procs[p].got
    BY <1>1, <1>3, TruncatesFields
  <2> QED
    BY <1>1, <2>1, <2>2 DEF TokensOf, WritePc
<1>4. ASSUME Ends(p) \/ Recovers(p) PROVE tokenFile' = Garbage /\ At(p, "write token")
  BY <1>4 DEF Ends, Recovers, Spoils
<1>5. ASSUME ~(Ends(p) \/ Recovers(p)), ~\E l : Truncates(p, l), ~\E e, l : Saves(p, e, l)
      PROVE  FALSE
  BY <1>1, <1>5 DEF Does, Start, Moves, Updates, Loads, Binds, Serves, Makes, Claims, Issues,
                    Takes, files
<1> QED
  BY <1>2, <1>3, <1>4, <1>5

\* writeTokenFile: with any number of peershd and peersh-cli that share the
\* file, kills and failed writes at any point and writes that overlap, the file is
\* truncated only by a process that has a newer token in its hands, which Google
\* accepts, and only such a token, or the debris of a write, follows.
THEOREM TokenFileReplaced == Spec => FileReplaced
<1> DEFINE Replaced == tokenFile' # tokenFile =>
       \/ tokenFile' \in valid'
       \/ /\ tokenFile' = Empty
          /\ \E p \in Proc : procs'[p].pc = "write token" /\ procs'[p].got \in valid'
       \/ tokenFile' = Garbage /\ \E p \in Proc : At(p, "write token")
<1>1. ASSUME IInv, [Next]_vars PROVE Replaced
  <2>1. CASE UNCHANGED vars
    BY <2>1 DEF vars, files
  <2>2. ASSUME NEW p \in Proc, Step(p) PROVE Replaced
    BY <1>1, <2>2, StepFile
  <2>3. ASSUME Tick PROVE Replaced
    BY <2>3 DEF Tick, files
  <2> QED
    BY <1>1, <2>1, <2>2, <2>3 DEF Next
<1> QED
  BY <1>1, MachineInv, PTL DEF Spec, FileReplaced

=============================================================================
