--------------------------- MODULE ExecHostProofs ---------------------------
(***************************************************************************)
(* Proofs about ExecHost: type correctness, and that no PowerShell process *)
(* escapes the session manager.                                            *)
(***************************************************************************)
EXTENDS ExecHost, SequenceTheorems, TLAPS

\* Every initial state is well typed.
LEMMA InitType == Init => TypeOK
<1> SUFFICES ASSUME Init PROVE TypeOK
  OBVIOUS
<1>1. 0 \in 0 .. MaxLimit /\ 0 \in 0 .. MaxLimit + 1
  BY ExecAssumption
<1>2. <<>> \in Seq(LineSet) /\ <<>> \in Seq(Exec)
  OBVIOUS
<1>3. pipe \in [Session -> [Kind -> Seq(LineSet)]] /\ chan \in [Session -> [Kind -> Seq(LineSet)]]
  BY <1>2 DEF Init
<1>4. stdin \in [Session -> Seq(Exec)] /\ got \in [Exec -> Seq(LineSet)]
  BY <1>2 DEF Init
<1> QED
  BY <1>1, <1>3, <1>4 DEF Init, TypeOK

\* An attach keeps the types of the manager's records.
LEMMA AttachType ==
  ASSUME TypeOK, NEW s \in Session, NEW t \in Limits, Attach(s, t)
  PROVE  /\ attached' \in [Session -> BOOLEAN]
         /\ limit' \in [Session -> 0 .. MaxLimit]
         /\ idle' \in [Session -> 0 .. MaxLimit + 1]
<1>1. t \in 0 .. MaxLimit /\ 0 \in 0 .. MaxLimit + 1
  BY ExecAssumption
<1> QED
  BY <1>1 DEF Attach, TypeOK

\* Every step of a connection or its client preserves the types.
LEMMA ConnStepType ==
  ASSUME TypeOK, NEW c \in Conn, ConnStep(c) \/ ClientStep(c)
  PROVE  TypeOK'
<1> USE DEF lockVars, procVars, execVars
<1>1. CASE Reply(c)
  BY <1>1 DEF Reply, TypeOK, mgrVars
<1>2. CASE ConnEnds(c)
  <2>1. 0 \in 0 .. MaxLimit + 1
    BY ExecAssumption
  <2>2. attached' \in [Session -> BOOLEAN] /\ idle' \in [Session -> 0 .. MaxLimit + 1]
    BY <1>2, <2>1 DEF ConnEnds, TypeOK
  <2> QED
    BY <1>2, <2>2 DEF ConnEnds, TypeOK
<1>3. ASSUME NEW t \in Limits, Insert(c, t) PROVE TypeOK'
  <2>1. sess[c] \in Session
    BY <1>3 DEF Insert, TypeOK
  <2>2. CASE closed
    BY <1>3, <2>1, <2>2 DEF Insert, TypeOK
  <2>3. CASE ~closed
    <3>1. Attach(sess[c], t)
      BY <1>3, <2>3 DEF Insert
    <3>2. /\ attached' \in [Session -> BOOLEAN] /\ limit' \in [Session -> 0 .. MaxLimit]
          /\ idle' \in [Session -> 0 .. MaxLimit + 1]
      BY <2>1, <3>1, AttachType
    <3>3. /\ sessions' \subseteq Session /\ pc' = [pc EXCEPT ![c] = "reply"]
          /\ UNCHANGED <<stopped, closed, closing, lockVars, procVars, live, sess, execVars>>
      BY <1>3, <2>1, <2>3 DEF Insert, TypeOK
    <3> QED
      BY <2>1, <3>2, <3>3 DEF TypeOK
  <2> QED
    BY <2>2, <2>3
<1>4. CASE HelloRefused(c)
  BY <1>4 DEF HelloRefused, TypeOK, mgrVars
<1>5. CASE ConnDrop(c)
  BY <1>5 DEF ConnDrop, TypeOK, mgrVars
<1>6. ASSUME NEW s \in Session, StartFresh(c, s) PROVE TypeOK'
  BY <1>6 DEF StartFresh, TypeOK, mgrVars
<1>7. ASSUME NEW s \in Session, NEW t \in Limits, Reattach(c, s, t) PROVE TypeOK'
  <2>1. /\ attached' \in [Session -> BOOLEAN] /\ limit' \in [Session -> 0 .. MaxLimit]
        /\ idle' \in [Session -> 0 .. MaxLimit + 1]
    BY <1>7, AttachType DEF Reattach
  <2> QED
    BY <1>7, <2>1 DEF Reattach, TypeOK
<1>8. ASSUME NEW e \in Exec, OpenExec(e, c) PROVE TypeOK'
  BY <1>8 DEF OpenExec, TypeOK, mgrVars, connVars
<1> QED
  BY <1>1, <1>2, <1>3, <1>4, <1>5, <1>6, <1>7, <1>8 DEF ConnStep, ClientStep

\* Every step of the manager, of a Host or of its process preserves the types.
LEMMA HostStepType ==
  ASSUME TypeOK, NEW s \in Session
  PROVE  /\ HostStep(s) => TypeOK'
         /\ Finish(s) => TypeOK'
         /\ ChildExit(s) => TypeOK'
         /\ \A k \in Kind : PrintLine(s, k) \/ PipeLost(s, k) => TypeOK'
<1> USE DEF lockVars, execVars, connVars, mgrVars
<1>0. /\ pipe \in [Session -> [Kind -> Seq(LineSet)]]
      /\ chan \in [Session -> [Kind -> Seq(LineSet)]]
  BY DEF TypeOK
<1>1. ASSUME NEW k \in Kind, NEW l \in Seq(LineSet), SetPipe(s, k, l)
      PROVE  pipe' \in [Session -> [Kind -> Seq(LineSet)]]
  BY <1>0, <1>1 DEF SetPipe
<1>2. CASE HostClose(s)
  BY <1>2 DEF HostClose, TypeOK, procVars
<1>3. CASE HostJoin(s)
  BY <1>3 DEF HostJoin, TypeOK, procVars
<1>4. ASSUME NEW k \in Kind, PumpLine(s, k) PROVE TypeOK'
  <2>1. chan[s][k] \o pipe[s][k] \in Seq(LineSet)
    BY <1>0
  <2>2. chan' \in [Session -> [Kind -> Seq(LineSet)]]
    BY <1>0, <1>4, <2>1 DEF PumpLine
  <2>3. pipe' \in [Session -> [Kind -> Seq(LineSet)]]
    <3>1. <<>> \in Seq(LineSet)
      OBVIOUS
    <3> QED
      BY <1>1, <1>4, <3>1 DEF PumpLine
  <2> QED
    BY <1>4, <2>2, <2>3 DEF PumpLine, TypeOK
<1>5. CASE Finish(s)
  <2>1. stdin[s] \in Seq(Exec) /\ stdin[s] # <<>>
    BY <1>5 DEF Finish, TypeOK
  <2>2. Head(stdin[s]) \in Exec /\ Tail(stdin[s]) \in Seq(Exec)
    BY <2>1
  <2>3. <<End(Head(stdin[s]))>> \in Seq(LineSet)
    BY <2>2 DEF End, LineSet
  <2>4. pipe' \in [Session -> [Kind -> Seq(LineSet)]]
    BY <1>1, <1>5, <2>3 DEF Finish, Kind
  <2> QED
    BY <1>5, <2>2, <2>4 DEF Finish, TypeOK
<1>6. CASE ChildExit(s)
  BY <1>6 DEF ChildExit, TypeOK
<1>7. ASSUME NEW k \in Kind, PrintLine(s, k) PROVE TypeOK'
  <2>1. stdin[s] \in Seq(Exec) /\ stdin[s] # <<>>
    BY <1>7 DEF PrintLine, TypeOK
  <2>2. Head(stdin[s]) \in Exec
    BY <2>1
  <2>3. printed[Head(stdin[s])] + 1 \in Nat
    BY <2>2 DEF TypeOK
  <2>4. <<Line(Head(stdin[s]), IF k = "out" THEN printed[Head(stdin[s])] + 1 ELSE 1)>> \in Seq(LineSet)
    BY <2>2, <2>3 DEF Line, LineSet
  <2>5. pipe' \in [Session -> [Kind -> Seq(LineSet)]]
    BY <1>1, <1>7, <2>4 DEF PrintLine
  <2>6. printed' \in [Exec -> Nat]
    BY <1>7, <2>2, <2>3 DEF PrintLine, TypeOK
  <2> QED
    BY <1>7, <2>5, <2>6 DEF PrintLine, TypeOK
<1>8. ASSUME NEW k \in Kind, PipeLost(s, k) PROVE TypeOK'
  <2>1. <<>> \in Seq(LineSet)
    OBVIOUS
  <2>2. pipe' \in [Session -> [Kind -> Seq(LineSet)]]
    BY <1>1, <1>8, <2>1 DEF PipeLost
  <2> QED
    BY <1>8, <2>2 DEF PipeLost, TypeOK
<1> QED
  BY <1>2, <1>3, <1>4, <1>5, <1>6, <1>7, <1>8 DEF HostStep

\* What an Exec stream may change, and within which types.
LEMMA ExecFrame ==
  ASSUME TypeOK, NEW e \in Exec, epc[e] # "idle",
         NEW p \in {"write", "recv", "released", "done", "failed", "abandoned"},
         epc' = epc \/ epc' = [epc EXCEPT ![e] = p],
         execMu' \in [Session -> Exec \cup {NoExec}], active' \in [Session -> BOOLEAN],
         stdin' \in [Session -> Seq(Exec)],
         chan' \in [Session -> [Kind -> Seq(LineSet)]], got' \in [Exec -> Seq(LineSet)],
         UNCHANGED <<mgrVars, closing, child, printed, pipe, connVars, owner>>
  PROVE  TypeOK'
<1>1. epc' \in [Exec -> {"idle", "lock", "write", "recv", "released", "done", "failed", "abandoned"}]
  BY DEF TypeOK
<1>2. \A d \in Exec : epc'[d] # "idle" => epc[d] # "idle"
  BY DEF TypeOK
<1> QED
  BY <1>1, <1>2 DEF TypeOK, mgrVars, connVars

\* Every step of an Exec stream preserves the types.
LEMMA ExecStepType ==
  ASSUME TypeOK, NEW e \in Exec, ExecStep(e)
  PROVE  TypeOK'
<1> DEFINE s == Sess(e)
<1>a. /\ execMu \in [Session -> Exec \cup {NoExec}] /\ active \in [Session -> BOOLEAN]
      /\ stdin \in [Session -> Seq(Exec)] /\ got \in [Exec -> Seq(LineSet)]
      /\ chan \in [Session -> [Kind -> Seq(LineSet)]]
  BY DEF TypeOK
<1>0. epc[e] # "idle" => s \in Session /\ owner[e] \in Conn
  BY DEF TypeOK, Sess
<1>1. CASE ExecLock(e)
  <2>1. s \in Session /\ epc[e] # "idle"
    BY <1>0, <1>1 DEF ExecLock
  <2>2. execMu' \in [Session -> Exec \cup {NoExec}] /\ active' \in [Session -> BOOLEAN]
    <3>1. \/ execMu' = execMu /\ active' = active
          \/ execMu' = [execMu EXCEPT ![s] = e] /\ active' = [active EXCEPT ![s] = TRUE]
      BY <1>1 DEF ExecLock, lockVars
    <3> QED
      BY <1>a, <2>1, <3>1
  <2>3. epc' = [epc EXCEPT ![e] = "write"] \/ epc' = [epc EXCEPT ![e] = "failed"]
    BY <1>1 DEF ExecLock
  <2> QED
    <3>1. /\ UNCHANGED <<mgrVars, closing, child, printed, pipe, connVars, owner>>
          /\ stdin' \in [Session -> Seq(Exec)] /\ got' \in [Exec -> Seq(LineSet)]
          /\ chan' \in [Session -> [Kind -> Seq(LineSet)]]
      BY <1>a, <1>1 DEF ExecLock, procVars
    <3> QED
      BY <2>1, <2>2, <2>3, <3>1, ExecFrame
<1>2. CASE ExecWrite(e)
  <2>1. s \in Session
    BY <1>0, <1>2 DEF ExecWrite
  <2>2. Append(stdin[s], e) \in Seq(Exec)
    BY <2>1 DEF TypeOK
  <2>3. stdin' \in [Session -> Seq(Exec)]
    BY <1>2, <2>1, <2>2 DEF ExecWrite, TypeOK
  <2>4. execMu' \in [Session -> Exec \cup {NoExec}] /\ active' \in [Session -> BOOLEAN]
    BY <1>2, <2>1 DEF ExecWrite, TypeOK, lockVars
  <2>5. epc' = [epc EXCEPT ![e] = "recv"] \/ epc' = [epc EXCEPT ![e] = "failed"]
    BY <1>2 DEF ExecWrite
  <2>6. epc[e] # "idle"
    BY <1>2 DEF ExecWrite
  <2> QED
    BY <1>2, <2>3, <2>4, <2>5, <2>6, <1>a, ExecFrame DEF ExecWrite
<1>3. ASSUME NEW k \in Kind, epc[e] = "recv", chan[s][k] # <<>>
      PROVE  /\ [chan EXCEPT ![s][k] = Tail(@)] \in [Session -> [Kind -> Seq(LineSet)]]
             /\ Head(chan[s][k]) \in LineSet
  <2>1. chan[s][k] \in Seq(LineSet) /\ s \in Session
    BY <1>0, <1>3 DEF TypeOK
  <2>2. Tail(chan[s][k]) \in Seq(LineSet) /\ Head(chan[s][k]) \in LineSet
    BY <1>3, <2>1
  <2> QED
    BY <1>3, <2>1, <2>2 DEF TypeOK
<1>4. CASE RecvEnd(e)
  <2>1. chan' \in [Session -> [Kind -> Seq(LineSet)]]
    BY <1>3, <1>4 DEF RecvEnd, Kind
  <2>2. s \in Session /\ epc[e] # "idle"
    BY <1>0, <1>4 DEF RecvEnd
  <2>3. execMu' \in [Session -> Exec \cup {NoExec}]
    BY <1>a, <1>4, <2>2 DEF RecvEnd
  <2> QED
    BY <1>a, <1>4, <2>1, <2>2, <2>3, ExecFrame DEF RecvEnd
<1>5. CASE MarkIdle(e)
  <2>1. epc[e] # "idle" /\ active' \in [Session -> BOOLEAN]
    BY <1>0, <1>a, <1>5 DEF MarkIdle
  <2>2. epc' = [epc EXCEPT ![e] = "done"] \/ epc' = [epc EXCEPT ![e] = "failed"]
    BY <1>5 DEF MarkIdle
  <2> QED
    BY <1>a, <1>5, <2>1, <2>2, ExecFrame DEF MarkIdle, procVars
<1>6. CASE RecvCancelled(e)
  BY <1>a, <1>6, ExecFrame DEF RecvCancelled, procVars, lockVars
<1>7. ASSUME NEW k \in Kind, RecvLine(e, k) PROVE TypeOK'
  <2>1. chan' \in [Session -> [Kind -> Seq(LineSet)]] /\ Head(chan[s][k]) \in LineSet
    BY <1>3, <1>7 DEF RecvLine
  <2>2. Append(got[e], Head(chan[s][k])) \in Seq(LineSet)
    BY <2>1 DEF TypeOK
  <2>3. got' \in [Exec -> Seq(LineSet)]
    <3>1. got' = got \/ got' = [got EXCEPT ![e] = Append(got[e], Head(chan[s][k]))]
      BY <1>a, <1>7 DEF RecvLine
    <3> QED
      BY <1>a, <2>2, <3>1
  <2>4. epc' = epc \/ epc' = [epc EXCEPT ![e] = "abandoned"]
    BY <1>7 DEF RecvLine
  <2>5. epc[e] # "idle"
    BY <1>7 DEF RecvLine
  <2> QED
    BY <1>7, <2>1, <2>3, <2>4, <2>5, <1>a, ExecFrame DEF RecvLine, lockVars
<1> QED
  BY <1>1, <1>2, <1>4, <1>5, <1>6, <1>7 DEF ExecStep

\* Every step preserves the types.
LEMMA NextType == TypeOK /\ [Next]_vars => TypeOK'
<1> SUFFICES ASSUME TypeOK, [Next]_vars PROVE TypeOK'
  OBVIOUS
<1> USE DEF lockVars, procVars, connVars, execVars
<1>1. CASE Sweep
  BY <1>1 DEF Sweep, TypeOK
<1>2. CASE Stop
  BY <1>2 DEF Stop, TypeOK
<1>3. CASE ManagerClose
  BY <1>3 DEF ManagerClose, TypeOK
<1>4. CASE Tick
  <2>1. idle' \in [Session -> 0 .. MaxLimit + 1]
    BY <1>4, ExecAssumption DEF Tick, TypeOK
  <2> QED
    BY <1>4, <2>1 DEF Tick, TypeOK
<1>5. CASE UNCHANGED vars
  BY <1>5 DEF vars, mgrVars, TypeOK
<1> QED
  BY <1>1, <1>2, <1>3, <1>4, <1>5, ConnStepType, ExecStepType, HostStepType DEF Next

\* Every variable keeps its type, and a handler that uses a session has one,
\* for any number of connections, sessions and Exec streams.
THEOREM TypeCorrect == Spec => []TypeOK
<1>1. Init => TypeOK
  BY InitType
<1>2. TypeOK /\ [Next]_vars => TypeOK'
  BY NextType
<1> QED
  BY <1>1, <1>2, PTL DEF Spec

-----------------------------------------------------------------------------
(* Where the processes are.                                                 *)

\* What FreshOK and Tracked read.
trackVars == <<closed, sessions, child, closing, pc, sess>>

\* Every initial state is tracked.
LEMMA InitTrack == Init => FreshOK /\ Tracked
BY DEF Init, FreshOK, Tracked, Inserting

\* Steps that touch nothing of it keep the invariant.
LEMMA SameTrack ==
  ASSUME TrackInv, UNCHANGED trackVars
  PROVE  FreshOK' /\ Tracked'
BY DEF TrackInv, FreshOK, Tracked, Inserting, trackVars

\* So do steps that change no process and no table, and whose connection neither
\* starts nor ends an insertion.
LEMMA QuietTrack ==
  ASSUME TrackInv, NEW c \in Conn, UNCHANGED <<closed, sessions, child, closing>>,
         pc[c] # "insert", NEW p \in {"reply", "serve", "done"},
         pc' = [pc EXCEPT ![c] = p],
         \A d \in Conn : d # c => sess'[d] = sess[d]
  PROVE  FreshOK' /\ Tracked'
<1>1. ASSUME NEW d \in Conn PROVE pc'[d] = "insert" <=> pc[d] = "insert"
  BY DEF TrackInv, TypeOK
<1>2. ASSUME NEW d \in Conn, pc[d] = "insert" PROVE sess'[d] = sess[d]
  BY <1>2
<1>3. \A s \in Session : Inserting(s)' <=> Inserting(s)
  BY <1>1, <1>2 DEF Inserting
<1> QED
  BY <1>1, <1>2, <1>3 DEF TrackInv, FreshOK, Tracked

\* Every step of a connection or its client keeps track.
LEMMA ConnTrack ==
  ASSUME TrackInv, NEW c \in Conn, ConnStep(c) \/ ClientStep(c)
  PROVE  FreshOK' /\ Tracked'
<1>0. TypeOK /\ pc \in [Conn -> {"hello", "insert", "reply", "serve", "done"}]
  BY DEF TrackInv, TypeOK
<1>1. CASE Reply(c)
  BY <1>1, QuietTrack DEF Reply, mgrVars, procVars
<1>2. CASE ConnEnds(c)
  BY <1>2, QuietTrack DEF ConnEnds, procVars
<1>3. ASSUME NEW t \in Limits, Insert(c, t) PROVE FreshOK' /\ Tracked'
  <2>1. sess[c] \in Session /\ pc[c] = "insert" /\ Inserting(sess[c])
    BY <1>0, <1>3 DEF Insert, TypeOK, Inserting
  <2>2. /\ child' = child /\ sess' = sess /\ closed' = closed
        /\ \A d \in Conn : d # c => pc'[d] = pc[d]
        /\ pc'[c] # "insert"
    BY <1>0, <1>3 DEF Insert, procVars
  <2>3. \A d \in Conn : pc[d] = "insert" /\ sess[d] = sess[c] => d = c
    BY <2>1 DEF TrackInv, FreshOK
  <2>4. /\ ~Inserting(sess[c])'
        /\ \A s \in Session : s # sess[c] => (Inserting(s)' <=> Inserting(s))
    BY <2>1, <2>2, <2>3 DEF Inserting
  <2>5. child[sess[c]] # "none" /\ closing[sess[c]] = "no" /\ sess[c] \notin sessions
    BY <2>1 DEF TrackInv, FreshOK, Tracked
  <2>6. \A d, b \in Conn :
          pc'[d] = "insert" /\ pc'[b] = "insert" /\ sess'[d] = sess'[b] => d = b
    BY <2>2 DEF TrackInv, FreshOK
  <2>7. CASE closed
    <3>1. sessions' = sessions /\ closing' = [closing EXCEPT ![sess[c]] = "owed"]
      BY <1>3, <2>7 DEF Insert
    <3> QED
      BY <1>0, <2>1, <2>2, <2>4, <2>5, <2>6, <2>7, <3>1 DEF TrackInv, FreshOK, Tracked, TypeOK
  <2>8. CASE ~closed
    <3>1. sessions' = sessions \cup {sess[c]} /\ closing' = closing
      BY <1>3, <2>8 DEF Insert
    <3> QED
      BY <2>1, <2>2, <2>4, <2>5, <2>6, <2>8, <3>1 DEF TrackInv, FreshOK, Tracked
  <2> QED
    BY <2>7, <2>8
<1>4. CASE HelloRefused(c)
  BY <1>4, QuietTrack DEF HelloRefused, mgrVars, procVars
<1>5. CASE ConnDrop(c)
  BY <1>5, SameTrack DEF ConnDrop, mgrVars, procVars, trackVars
<1>6. ASSUME NEW s \in Session, StartFresh(c, s) PROVE FreshOK' /\ Tracked'
  <2>1. /\ pc[c] = "hello" /\ child[s] = "none" /\ ~closed
        /\ child' = [child EXCEPT ![s] = "running"] /\ sess' = [sess EXCEPT ![c] = s]
        /\ pc' = [pc EXCEPT ![c] = "insert"]
        /\ closed' = closed /\ sessions' = sessions /\ closing' = closing
    BY <1>6 DEF StartFresh, mgrVars
  <2>2. s \notin sessions /\ ~Inserting(s) /\ closing[s] = "no"
    BY <2>1 DEF TrackInv, FreshOK
  <2>3. /\ Inserting(s)'
        /\ \A u \in Session : u # s => (Inserting(u)' <=> Inserting(u))
    BY <1>0, <2>1 DEF Inserting, TypeOK
  <2>4. \A d \in Conn : pc[d] = "insert" => sess[d] # s
    BY <2>2 DEF Inserting
  <2>5. \A d, b \in Conn :
          pc'[d] = "insert" /\ pc'[b] = "insert" /\ sess'[d] = sess'[b] => d = b
    BY <1>0, <2>1, <2>4 DEF TrackInv, FreshOK, TypeOK
  <2> QED
    BY <1>0, <2>1, <2>2, <2>3, <2>5 DEF TrackInv, FreshOK, Tracked, TypeOK
<1>7. ASSUME NEW s \in Session, NEW t \in Limits, Reattach(c, s, t) PROVE FreshOK' /\ Tracked'
  <2>1. \A d \in Conn : d # c => sess'[d] = sess[d]
    BY <1>0, <1>7 DEF Reattach, TypeOK
  <2> QED
    BY <1>7, <2>1, QuietTrack DEF Reattach, procVars
<1>8. ASSUME NEW e \in Exec, OpenExec(e, c) PROVE FreshOK' /\ Tracked'
  BY <1>8, SameTrack DEF OpenExec, mgrVars, procVars, connVars, trackVars
<1> QED
  BY <1>1, <1>2, <1>3, <1>4, <1>5, <1>6, <1>7, <1>8 DEF ConnStep, ClientStep

\* Steps that only move closing on, or end a process, keep track.
LEMMA HostTrack ==
  ASSUME TrackInv, NEW s \in Session,
         HostStep(s) \/ Finish(s) \/ ChildExit(s) \/ \E k \in Kind : PrintLine(s, k) \/ PipeLost(s, k)
  PROVE  FreshOK' /\ Tracked'
<1> USE DEF mgrVars, connVars, trackVars
<1>0. TypeOK
  BY DEF TrackInv
<1>1. CASE HostClose(s) \/ HostJoin(s)
  <2>1. UNCHANGED <<closed, sessions, child, pc, sess>>
    BY <1>1 DEF HostClose, HostJoin, procVars
  <2>2. \A u \in Session : closing'[u] = "no" <=> closing[u] = "no"
    BY <1>0, <1>1 DEF HostClose, HostJoin, TypeOK
  <2>3. \A u \in Session : Inserting(u)' <=> Inserting(u)
    BY <2>1 DEF Inserting
  <2> QED
    BY <2>1, <2>2, <2>3 DEF TrackInv, FreshOK, Tracked
<1>2. CASE ChildExit(s)
  <2>1. UNCHANGED <<closed, sessions, closing, pc, sess>>
    BY <1>2 DEF ChildExit
  <2>2. \A u \in Session : child'[u] = "none" <=> child[u] = "none"
    BY <1>0, <1>2 DEF ChildExit, TypeOK
  <2>3. \A u \in Session : Inserting(u)' <=> Inserting(u)
    BY <2>1 DEF Inserting
  <2> QED
    BY <2>1, <2>2, <2>3 DEF TrackInv, FreshOK, Tracked
<1>3. CASE Finish(s)
  BY <1>3, SameTrack DEF Finish
<1>4. ASSUME NEW k \in Kind, PrintLine(s, k) \/ PipeLost(s, k) \/ PumpLine(s, k)
      PROVE  FreshOK' /\ Tracked'
  BY <1>4, SameTrack DEF PrintLine, PipeLost, PumpLine
<1> QED
  BY <1>1, <1>2, <1>3, <1>4 DEF HostStep

\* An Exec stream does not touch the table, the processes or the connections.
LEMMA ExecTrack ==
  ASSUME TrackInv, NEW e \in Exec, ExecStep(e)
  PROVE  FreshOK' /\ Tracked'
<1>1. UNCHANGED trackVars
  BY DEF ExecStep, ExecLock, ExecWrite, RecvEnd, MarkIdle, RecvCancelled, RecvLine,
         mgrVars, procVars, connVars, trackVars
<1> QED
  BY <1>1, SameTrack

\* The invariant is inductive.
LEMMA NextTrack == TrackInv /\ [Next]_vars => TrackInv'
<1> SUFFICES ASSUME TrackInv, [Next]_vars PROVE FreshOK' /\ Tracked'
  BY NextType DEF TrackInv
<1> USE DEF procVars, connVars, trackVars
<1>0. TypeOK
  BY DEF TrackInv
<1>1. CASE Sweep
  <2>1. /\ UNCHANGED <<closed, child, pc, sess>> /\ sessions' \subseteq sessions
        /\ \A s \in Session : closing'[s] = IF s \in sessions \ sessions' THEN "owed" ELSE closing[s]
    BY <1>0, <1>1 DEF Sweep, TypeOK
  <2>2. \A u \in Session : Inserting(u)' <=> Inserting(u)
    BY <2>1 DEF Inserting
  <2> QED
    BY <2>1, <2>2 DEF TrackInv, FreshOK, Tracked
<1>2. CASE Stop
  BY <1>2, SameTrack DEF Stop
<1>3. CASE ManagerClose
  <2>1. /\ UNCHANGED <<child, pc, sess>> /\ sessions' = {}
        /\ \A s \in Session : closing'[s] = IF s \in sessions THEN "queued" ELSE closing[s]
    BY <1>3 DEF ManagerClose
  <2>2. \A u \in Session : Inserting(u)' <=> Inserting(u)
    BY <2>1 DEF Inserting
  <2> QED
    BY <2>1, <2>2 DEF TrackInv, FreshOK, Tracked
<1>4. CASE Tick
  BY <1>4, SameTrack DEF Tick
<1>5. CASE UNCHANGED vars
  BY <1>5, SameTrack DEF vars, mgrVars
<1> QED
  BY <1>1, <1>2, <1>3, <1>4, <1>5, ConnTrack, ExecTrack, HostTrack DEF Next

\* No PowerShell process escapes the session manager: each is in the table, on
\* its way into it, or being closed, and never two of these, however starts,
\* sweeps and the shutdown interleave.
THEOREM AlwaysTracked == Spec => []Tracked
<1>1. Init => TrackInv
  BY InitType, InitTrack DEF TrackInv
<1>2. TrackInv /\ [Next]_vars => TrackInv'
  BY NextTrack
<1>3. TrackInv => Tracked
  BY DEF TrackInv
<1> QED
  BY <1>1, <1>2, <1>3, PTL DEF Spec

-----------------------------------------------------------------------------
(* Each command gets its own output.                                        *)

\* The Exec streams that have execMu of their session, one of them for good, and
\* those that are not done with the session.
Holding  == {"write", "recv", "abandoned"}
Occupied == Holding \cup {"released"}

\* The lines of command e from n + 1 on.
Lines(q, e, n) == \A i \in 1 .. Len(q) : q[i] = Line(e, n + i)

\* What is on its way to a handler that has had n of the p lines that e printed:
\* the stdout channel q, the line r that pumpLines has, the stdin w of the
\* process and its state c.  A line is lost only when the process has ended, and
\* then nothing follows it.
Flow(e, q, r, w, n, p, c) ==
  \/ /\ Lines(q, e, n)
     /\ \/ w = <<e>> /\ r = <<>> /\ (c # "exited" => p = n + Len(q))
        \/ w = <<e>> /\ r = <<Line(e, p)>> /\ p = n + Len(q) + 1
        \/ w = <<>> /\ r = <<End(e)>> /\ p = n + Len(q)
        \/ w = <<>> /\ r = <<>> /\ c = "exited"
  \/ /\ w = <<>> /\ r = <<>> /\ Len(q) # 0 /\ p = n + Len(q) - 1
     /\ \A i \in 1 .. Len(q) - 1 : q[i] = Line(e, n + i)
     /\ q[Len(q)] = End(e)

Out(e) == LET s == Sess(e) IN
  Flow(e, chan[s]["out"], pipe[s]["out"], stdin[s], Len(got[e]), printed[e], child[s])

\* An Exec stream belongs to a connection that has its session, and occupies it.
HoldOK(e) ==
  /\ epc[e] # "idle" => pc[owner[e]] \in {"serve", "done"}
  /\ epc[e] \in Holding => execMu[Sess(e)] = e /\ active[Sess(e)]
  /\ epc[e] = "released" => execMu[Sess(e)] = NoExec /\ active[Sess(e)]

\* What it has received, and what it will.
OutOK(e) ==
  /\ epc[e] \in {"idle", "lock", "write"} => printed[e] = 0 /\ got[e] = <<>>
  /\ \A i \in DOMAIN got[e] : got[e][i] = Line(e, i)
  /\ epc[e] \in {"released", "done"} => Len(got[e]) = printed[e]
  /\ epc[e] = "recv" => Out(e)

\* execMu has one holder; without one that has written its command, the session
\* is drained.
FreeOK(s) ==
  /\ execMu[s] # NoExec => epc[execMu[s]] \in Holding /\ Sess(execMu[s]) = s
  /\ execMu[s] = NoExec \/ epc[execMu[s]] = "write" =>
       stdin[s] = <<>> /\ chan[s]["out"] = <<>> /\ pipe[s]["out"] = <<>>
  /\ stdin[s] # <<>> => stdin[s] = <<execMu[s]>>

\* Between the two steps of release, nobody else is between them.
OneRelease ==
  \A e, f \in Exec : epc[e] = "released" /\ epc[f] = "released" /\ Sess(e) = Sess(f) => e = f

OutInv ==
  /\ TypeOK /\ OneRelease
  /\ \A e \in Exec : HoldOK(e) /\ OutOK(e)
  /\ \A s \in Session : FreeOK(s)

\* A line is not a sentinel.
LEMMA LineEnd ==
  ASSUME NEW e \in Exec
  PROVE  /\ End(e) \in LineSet
         /\ \A n \in Nat : Line(e, n) \in LineSet
         /\ \A n \in Nat : Line(e, n + 1) # End(e)
<1>1. End(e).n = 0 /\ \A n \in Nat : Line(e, n + 1).n = n + 1
  BY DEF Line, End
<1>2. \A n \in Nat : n + 1 # 0
  OBVIOUS
<1>3. \A n \in Nat : Line(e, n + 1) # End(e)
  BY <1>1, <1>2
<1> QED
  BY <1>3 DEF Line, End, LineSet

\* PrintLine: the next line.
LEMMA FlowPrint ==
  ASSUME NEW e \in Exec, NEW q \in Seq(LineSet), NEW r, r = <<>>, NEW w, w # <<>>,
         NEW n \in Nat, NEW p \in Nat, NEW c, c # "exited", Flow(e, q, r, w, n, p, c)
  PROVE  Flow(e, q, <<Line(e, p + 1)>>, w, n, p + 1, c)
<1>1. Len(q) \in Nat
  OBVIOUS
<1>2. r # <<Line(e, p)>> /\ r # <<End(e)>>
  OBVIOUS
<1>3. Lines(q, e, n) /\ w = <<e>> /\ p = n + Len(q)
  BY <1>2 DEF Flow
<1>4. p + 1 = n + Len(q) + 1
  BY <1>1, <1>3
<1> QED
  BY <1>3, <1>4 DEF Flow

\* Finish: the sentinel.
LEMMA FlowFinish ==
  ASSUME NEW e \in Exec, NEW q, NEW r, r = <<>>, NEW w, w # <<>>,
         NEW n \in Nat, NEW p \in Nat, NEW c, c # "exited", Flow(e, q, r, w, n, p, c)
  PROVE  w = <<e>> /\ Flow(e, q, <<End(e)>>, <<>>, n, p, c)
<1>1. r # <<Line(e, p)>> /\ r # <<End(e)>>
  OBVIOUS
<1>2. Lines(q, e, n) /\ w = <<e>> /\ p = n + Len(q)
  BY <1>1 DEF Flow
<1> QED
  BY <1>2 DEF Flow

\* PipeLost: the line is dropped.
LEMMA FlowLost ==
  ASSUME NEW e \in Exec, NEW q, NEW r, r # <<>>, NEW w, NEW n, NEW p, NEW c, c = "exited",
         Flow(e, q, r, w, n, p, c)
  PROVE  Flow(e, q, <<>>, w, n, p, c)
BY DEF Flow

\* pumpLines: the line goes into the channel.
LEMMA FlowPump ==
  ASSUME NEW e \in Exec, NEW q \in Seq(LineSet), NEW r, r # <<>>, NEW w,
         NEW n \in Nat, NEW p \in Nat, NEW c, Flow(e, q, r, w, n, p, c)
  PROVE  Flow(e, q \o r, <<>>, w, n, p, c)
<1>0. Len(q) \in Nat
  OBVIOUS
<1>1. ASSUME NEW l \in LineSet, r = <<l>>
      PROVE  /\ Len(q \o r) = Len(q) + 1 /\ (q \o r)[Len(q) + 1] = l
             /\ \A i \in 1 .. Len(q) : (q \o r)[i] = q[i]
  BY <1>1
<1>2. CASE r = <<Line(e, p)>> /\ Lines(q, e, n) /\ w = <<e>> /\ p = n + Len(q) + 1
  <2> PICK l : l = Line(e, p)
    OBVIOUS
  <2>1. l \in LineSet /\ r = <<l>>
    BY <1>2, LineEnd
  <2> PICK k : k = q \o r
    OBVIOUS
  <2>2. /\ Len(k) = Len(q) + 1 /\ k[Len(q) + 1] = l
        /\ \A i \in 1 .. Len(q) : k[i] = q[i]
    BY <1>1, <2>1
  <2>3. l = Line(e, n + (Len(q) + 1)) /\ p = n + Len(k)
    <3>1. p = n + (Len(q) + 1)
      BY <1>0, <1>2
    <3> QED
      BY <2>2, <3>1
  <2>4. ASSUME NEW i \in 1 .. Len(k) PROVE k[i] = Line(e, n + i)
    <3>1. i \in 1 .. Len(q) \/ i = Len(q) + 1
      BY <1>0, <2>2
    <3> QED
      BY <1>2, <2>2, <2>3, <3>1 DEF Lines
  <2> QED
    BY <1>2, <2>3, <2>4 DEF Flow, Lines
<1>3. CASE r = <<End(e)>> /\ Lines(q, e, n) /\ w = <<>> /\ p = n + Len(q)
  <2> PICK l : l = End(e)
    OBVIOUS
  <2>1. l \in LineSet /\ r = <<l>>
    BY <1>3, LineEnd
  <2> PICK k : k = q \o r
    OBVIOUS
  <2>2. /\ Len(k) = Len(q) + 1 /\ k[Len(q) + 1] = l
        /\ \A i \in 1 .. Len(q) : k[i] = q[i]
    BY <1>1, <2>1
  <2>3. Len(k) # 0 /\ p = n + Len(k) - 1 /\ Len(k) - 1 = Len(q)
    BY <1>0, <1>3, <2>2
  <2>4. \A i \in 1 .. Len(k) - 1 : k[i] = Line(e, n + i)
    BY <1>3, <2>2, <2>3 DEF Lines
  <2>5. k[Len(k)] = End(e)
    BY <2>2
  <2> QED
    BY <1>3, <2>3, <2>4, <2>5 DEF Flow
<1> QED
  BY <1>2, <1>3 DEF Flow

\* Output.Recv takes the next line of its command ...
LEMMA FlowRecv ==
  ASSUME NEW e \in Exec, NEW q \in Seq(LineSet), q # <<>>, Head(q) # End(e), NEW r, NEW w,
         NEW n \in Nat, NEW p \in Nat, NEW c, Flow(e, q, r, w, n, p, c)
  PROVE  Head(q) = Line(e, n + 1) /\ Flow(e, Tail(q), r, w, n + 1, p, c)
<1> PICK t : t = Tail(q)
  OBVIOUS
<1>1. /\ Len(q) \in Nat \ {0} /\ Head(q) = q[1]
      /\ Len(t) = Len(q) - 1 /\ \A i \in 1 .. Len(q) - 1 : t[i] = q[i + 1]
  OBVIOUS
<1>2. \A i \in Nat : n + (i + 1) = n + 1 + i
  OBVIOUS
<1>3. CASE Lines(q, e, n)
  <2>1. q[1] = Line(e, n + 1)
    BY <1>1, <1>3 DEF Lines
  <2>2. ASSUME NEW i \in 1 .. Len(t) PROVE t[i] = Line(e, n + 1 + i)
    <3>1. i \in 1 .. Len(q) - 1 /\ i + 1 \in 1 .. Len(q) /\ i \in Nat
      BY <1>1
    <3>2. t[i] = Line(e, n + (i + 1))
      BY <1>1, <1>3, <3>1 DEF Lines
    <3> QED
      BY <1>2, <3>1, <3>2
  <2>3. n + 1 + Len(t) = n + Len(q)
    BY <1>1
  <2>4. Lines(t, e, n + 1)
    BY <2>2 DEF Lines
  <2>5. Len(t) = 0 \/ q[Len(q)] # End(e)
    <3>1. q[Len(q)] = Line(e, n + Len(q)) /\ n + Len(q) = (n + Len(q) - 1) + 1
          /\ n + Len(q) - 1 \in Nat
      BY <1>1, <1>3 DEF Lines
    <3> QED
      BY <3>1, LineEnd
  <2>6. CASE w = <<e>> /\ r = <<>> /\ (c # "exited" => p = n + Len(q))
    BY <1>1, <2>1, <2>3, <2>4, <2>6 DEF Flow
  <2>7. CASE w = <<e>> /\ r = <<Line(e, p)>> /\ p = n + Len(q) + 1
    BY <1>1, <2>1, <2>3, <2>4, <2>7 DEF Flow
  <2>8. CASE w = <<>> /\ r = <<End(e)>> /\ p = n + Len(q)
    BY <1>1, <2>1, <2>3, <2>4, <2>8 DEF Flow
  <2>9. CASE w = <<>> /\ r = <<>> /\ c = "exited"
    BY <1>1, <2>1, <2>4, <2>9 DEF Flow
  <2>10. q[Len(q)] # End(e)
    BY <1>1, <2>5
  <2> QED
    BY <2>6, <2>7, <2>8, <2>9, <2>10 DEF Flow
<1>4. CASE /\ w = <<>> /\ r = <<>> /\ p = n + Len(q) - 1
           /\ \A i \in 1 .. Len(q) - 1 : q[i] = Line(e, n + i)
           /\ q[Len(q)] = End(e)
  <2>1. Len(q) # 1
    BY <1>1, <1>4
  <2>2. Len(t) \in Nat /\ Len(t) # 0 /\ p = n + 1 + Len(t) - 1 /\ 1 \in 1 .. Len(q) - 1
    BY <1>1, <1>4, <2>1
  <2>3. q[1] = Line(e, n + 1)
    BY <1>4, <2>2
  <2>4. ASSUME NEW i \in 1 .. Len(t) - 1 PROVE t[i] = Line(e, n + 1 + i)
    <3>1. i \in 1 .. Len(q) - 1 /\ i + 1 \in 1 .. Len(q) - 1 /\ i \in Nat
      BY <1>1
    <3>2. t[i] = Line(e, n + (i + 1))
      BY <1>1, <1>4, <3>1
    <3> QED
      BY <1>2, <3>1, <3>2
  <2>5. t[Len(t)] = End(e)
    <3>1. Len(t) \in 1 .. Len(q) - 1 /\ Len(t) + 1 = Len(q)
      BY <1>1, <2>2
    <3> QED
      BY <1>1, <1>4, <3>1
  <2> QED
    BY <1>1, <1>4, <2>2, <2>3, <2>4, <2>5 DEF Flow
<1> QED
  BY <1>3, <1>4 DEF Flow

\* ... or the sentinel, which comes after all of them.
LEMMA FlowEnd ==
  ASSUME NEW e \in Exec, NEW q \in Seq(LineSet), q # <<>>, Head(q) = End(e), NEW r, NEW w,
         NEW n \in Nat, NEW p \in Nat, NEW c, Flow(e, q, r, w, n, p, c)
  PROVE  n = p /\ Tail(q) = <<>> /\ r = <<>> /\ w = <<>>
<1>1. Len(q) \in Nat \ {0} /\ Head(q) = q[1] /\ 1 \in 1 .. Len(q)
  OBVIOUS
<1>2. q[1] # Line(e, n + 1)
  BY <1>1, LineEnd
<1>3. ~Lines(q, e, n)
  BY <1>1, <1>2 DEF Lines
<1>4. /\ w = <<>> /\ r = <<>> /\ p = n + Len(q) - 1
      /\ \A i \in 1 .. Len(q) - 1 : q[i] = Line(e, n + i)
  BY <1>3 DEF Flow
<1>5. Len(q) = 1
  <2> PICK k \in Nat : k = Len(q) /\ k # 0
    BY <1>1
  <2>1. ~(1 \in 1 .. k - 1)
    BY <1>2, <1>4
  <2>2. k = 1
    BY <2>1
  <2> QED
    BY <2>2
<1>6. Tail(q) \in Seq(LineSet) /\ Len(Tail(q)) = 0
  BY <1>1, <1>5
<1>7. Tail(q) = <<>>
  BY <1>6, EmptySeq
<1> QED
  BY <1>4, <1>5, <1>7

\* What the parts of OutInv read of session u is as before, or its process ended.
SameSess(u) ==
  /\ execMu'[u] = execMu[u] /\ active'[u] = active[u] /\ stdin'[u] = stdin[u]
  /\ chan'[u]["out"] = chan[u]["out"] /\ pipe'[u]["out"] = pipe[u]["out"]
  /\ child[u] = "exited" => child'[u] = "exited"

\* What they read of Exec stream f is as before.
SameExec(f) ==
  /\ epc'[f] = epc[f] /\ owner'[f] = owner[f] /\ got'[f] = got[f] /\ printed'[f] = printed[f]
  /\ epc[f] # "idle" => /\ sess'[owner[f]] = sess[owner[f]]
                        /\ pc'[owner[f]] \in {"serve", "done"}

\* Flow where the process may have ended.
LEMMA FlowExit ==
  ASSUME NEW e, NEW q, NEW r, NEW w, NEW n, NEW p, NEW c, NEW d,
         c = "exited" => d = "exited", Flow(e, q, r, w, n, p, c)
  PROVE  Flow(e, q, r, w, n, p, d)
BY DEF Flow

\* A stream that a step leaves alone, in a session that it leaves alone or does
\* not occupy.
LEMMA KeepExec ==
  ASSUME OutInv, NEW f \in Exec, SameExec(f),
         epc[f] \in Occupied => SameSess(Sess(f))
  PROVE  HoldOK(f)' /\ OutOK(f)'
<1>1. HoldOK(f) /\ OutOK(f)
  BY DEF OutInv
<1>2. epc[f] # "idle" => Sess(f)' = Sess(f)
  BY DEF SameExec, Sess
<1>3. HoldOK(f)'
  BY <1>1, <1>2 DEF HoldOK, SameExec, SameSess, Occupied, Holding
<1>4. epc[f] = "recv" => Out(f)'
  <2> SUFFICES ASSUME epc[f] = "recv" PROVE Out(f)'
    OBVIOUS
  <2> PICK u : u = Sess(f)
    OBVIOUS
  <2>1. SameSess(u) /\ Sess(f)' = u /\ (child[u] = "exited" => child'[u] = "exited")
    BY <1>2 DEF Occupied, Holding, SameSess
  <2>2. Flow(f, chan[u]["out"], pipe[u]["out"], stdin[u], Len(got[f]), printed[f], child[u])
    BY <1>1 DEF OutOK, Out
  <2>3. Flow(f, chan[u]["out"], pipe[u]["out"], stdin[u], Len(got[f]), printed[f], child'[u])
    BY <2>1, <2>2, FlowExit
  <2> QED
    BY <2>1, <2>3 DEF Out, SameSess, SameExec
<1>5. OutOK(f)'
  BY <1>1, <1>4 DEF OutOK, SameExec
<1> QED
  BY <1>3, <1>5

\* A session that a step leaves alone, and the holder of its execMu.
LEMMA KeepSess ==
  ASSUME OutInv, NEW u \in Session, SameSess(u),
         execMu[u] # NoExec => SameExec(execMu[u])
  PROVE  FreeOK(u)'
<1> PICK g : g = execMu[u]
  OBVIOUS
<1>1. FreeOK(u) /\ execMu'[u] = g
  BY DEF OutInv, SameSess
<1>2. g # NoExec => Sess(g)' = u /\ epc'[g] = epc[g]
  BY <1>1 DEF FreeOK, SameExec, Sess, Holding
<1> QED
  BY <1>1, <1>2 DEF FreeOK, SameSess

\* No stream comes between the two steps of release.
LEMMA KeepRelease ==
  ASSUME OutInv,
         \A f \in Exec : epc'[f] = "released" => epc[f] = "released" /\ Sess(f)' = Sess(f)
  PROVE  OneRelease'
BY DEF OutInv, OneRelease

\* Steps that leave all streams and sessions alone.
LEMMA KeepAll ==
  ASSUME OutInv, \A f \in Exec : SameExec(f),
         \A u \in Session : SameSess(u)
  PROVE  /\ \A f \in Exec : HoldOK(f)' /\ OutOK(f)'
         /\ \A u \in Session : FreeOK(u)'
         /\ OneRelease'
<1>0. /\ \A f \in Exec : epc[f] # "idle" => Sess(f) \in Session
      /\ \A u \in Session : execMu[u] # NoExec => execMu[u] \in Exec
  BY DEF OutInv, TypeOK, Sess
<1>1. ASSUME NEW f \in Exec PROVE HoldOK(f)' /\ OutOK(f)'
  BY <1>0, KeepExec DEF Occupied, Holding
<1>2. ASSUME NEW u \in Session PROVE FreeOK(u)'
  BY <1>0, KeepSess
<1>3. OneRelease'
  <2>1. ASSUME NEW f \in Exec, epc'[f] = "released"
        PROVE  epc[f] = "released" /\ Sess(f)' = Sess(f)
    BY <2>1 DEF SameExec, Sess
  <2> QED
    BY <2>1, KeepRelease
<1> QED
  BY <1>1, <1>2, <1>3

\* Steps of a connection or its client.
LEMMA ConnOut ==
  ASSUME OutInv, NEW c \in Conn,
         \/ ConnStep(c) \/ HelloRefused(c) \/ ConnDrop(c)
         \/ \E s \in Session : StartFresh(c, s) \/ \E t \in Limits : Reattach(c, s, t)
  PROVE  /\ \A f \in Exec : HoldOK(f)' /\ OutOK(f)'
         /\ \A u \in Session : FreeOK(u)'
         /\ OneRelease'
<1> USE DEF mgrVars, lockVars, procVars, connVars, execVars
<1>1. UNCHANGED <<execVars, lockVars, stdin, printed, pipe, chan>>
  BY DEF ConnStep, Reply, ConnEnds, Insert, HelloRefused, ConnDrop, StartFresh, Reattach
<1>2. \A u \in Session : child[u] = "exited" => child'[u] = "exited"
  BY DEF ConnStep, Reply, ConnEnds, Insert, HelloRefused, ConnDrop, StartFresh, Reattach,
         OutInv, TypeOK
<1>3. \A d \in Conn : pc[d] \in {"serve", "done"} =>
        sess'[d] = sess[d] /\ pc'[d] \in {"serve", "done"}
  BY DEF ConnStep, Reply, ConnEnds, Insert, HelloRefused, ConnDrop, StartFresh, Reattach,
         OutInv, TypeOK
<1>4. \A f \in Exec : SameExec(f)
  BY <1>1, <1>3 DEF SameExec, OutInv, HoldOK, TypeOK
<1>5. \A u \in Session : SameSess(u)
  BY <1>1, <1>2 DEF SameSess
<1> QED
  BY <1>4, <1>5, KeepAll

\* Steps of the manager and of Close, and the end of a process.
LEMMA HostOut ==
  ASSUME OutInv,
         \/ Sweep \/ Stop \/ ManagerClose \/ Tick \/ UNCHANGED vars
         \/ \E s \in Session : HostClose(s) \/ HostJoin(s) \/ ChildExit(s)
  PROVE  /\ \A f \in Exec : HoldOK(f)' /\ OutOK(f)'
         /\ \A u \in Session : FreeOK(u)'
         /\ OneRelease'
<1> USE DEF mgrVars, lockVars, procVars, connVars, execVars
<1>1. UNCHANGED <<execVars, connVars, lockVars, stdin, printed, pipe, chan>>
  BY DEF Sweep, Stop, ManagerClose, Tick, vars, HostClose, HostJoin, ChildExit
<1>2. \A u \in Session : child[u] = "exited" => child'[u] = "exited"
  BY DEF Sweep, Stop, ManagerClose, Tick, vars, HostClose, HostJoin, ChildExit,
         OutInv, TypeOK
<1>3. \A f \in Exec : SameExec(f)
  BY <1>1 DEF SameExec, OutInv, HoldOK
<1>4. \A u \in Session : SameSess(u)
  BY <1>1, <1>2 DEF SameSess
<1> QED
  BY <1>3, <1>4, KeepAll

\* A step of the process or of pumpLines in session s that changes what is on
\* its way to the holder e of execMu, who has written its command.
LEMMA PipeOut ==
  ASSUME OutInv, NEW s \in Session, NEW e \in Exec,
         execMu[s] = e, epc[e] # "write",
         UNCHANGED <<lockVars, connVars, execVars, child>>,
         \A f \in Exec \ {e} : printed'[f] = printed[f],
         \A u \in Session \ {s} : SameSess(u),
         stdin'[s] # <<>> => stdin'[s] = <<e>>,
         epc[e] = "recv" =>
           Flow(e, chan'[s]["out"], pipe'[s]["out"], stdin'[s], Len(got[e]), printed'[e], child[s])
  PROVE  /\ \A f \in Exec : HoldOK(f)' /\ OutOK(f)'
         /\ \A u \in Session : FreeOK(u)'
         /\ OneRelease'
<1> USE DEF lockVars, connVars, execVars
<1>1. /\ epc[e] \in {"recv", "abandoned"} /\ Sess(e) = s
      /\ \A f \in Exec : Sess(f)' = Sess(f)
      /\ \A f \in Exec : epc[f] # "idle" => Sess(f) \in Session
      /\ NoExec \notin Exec
  BY ExecAssumption DEF OutInv, FreeOK, Holding, Sess, TypeOK
<1>2. \A f \in Exec \ {e} : SameExec(f)
  BY DEF SameExec, OutInv, HoldOK
<1>3. \A f \in Exec \ {e} : epc[f] \in Occupied => Sess(f) # s
  BY <1>1 DEF OutInv, HoldOK, Occupied
<1>4. ASSUME NEW f \in Exec PROVE HoldOK(f)' /\ OutOK(f)'
  <2>1. CASE f # e
    BY <1>1, <1>2, <1>3, <2>1, KeepExec DEF Occupied, Holding
  <2>2. CASE f = e
    <3>1. HoldOK(e) /\ OutOK(e)
      BY DEF OutInv
    <3>2. HoldOK(e)'
      BY <1>1, <3>1 DEF HoldOK
    <3>3. epc[e] = "recv" => Out(e)'
      BY <1>1 DEF Out
    <3>4. OutOK(e)'
      BY <1>1, <3>1, <3>3 DEF OutOK
    <3> QED
      BY <2>2, <3>2, <3>4
  <2> QED
    BY <2>1, <2>2
<1>5. ASSUME NEW u \in Session PROVE FreeOK(u)'
  <2>1. FreeOK(u)
    BY DEF OutInv
  <2>2. CASE u = s
    BY <1>1, <2>1, <2>2 DEF FreeOK
  <2>3. CASE u # s
    <3> PICK g : g = execMu[u]
      OBVIOUS
    <3>1. g # NoExec => g \in Exec
      BY DEF OutInv, TypeOK
    <3>2. g # NoExec => g # e
      BY <1>1, <2>1, <2>3 DEF FreeOK
    <3> QED
      BY <1>2, <2>3, <3>1, <3>2, KeepSess
  <2> QED
    BY <2>2, <2>3
<1>6. OneRelease'
  BY <1>1, KeepRelease
<1> QED
  BY <1>4, <1>5, <1>6

\* A process or pumpLines has something to do only for a command that was written.
LEMMA HasHolder ==
  ASSUME OutInv, NEW s \in Session, stdin[s] # <<>> \/ pipe[s]["out"] # <<>>
  PROVE  /\ execMu[s] \in Exec /\ epc[execMu[s]] # "write"
         /\ stdin[s] # <<>> => stdin[s] = <<execMu[s]>> /\ Head(stdin[s]) = execMu[s]
                               /\ Tail(stdin[s]) = <<>>
         /\ epc[execMu[s]] = "recv" =>
              Flow(execMu[s], chan[s]["out"], pipe[s]["out"], stdin[s], Len(got[execMu[s]]),
                   printed[execMu[s]], child[s])
<1> PICK e : e = execMu[s]
  OBVIOUS
<1>1. FreeOK(s) /\ e \in Exec \cup {NoExec}
  BY DEF OutInv, TypeOK
<1>2. e \in Exec /\ epc[e] # "write" /\ Sess(e) = s
  BY <1>1 DEF FreeOK
<1>3. epc[e] = "recv" => Out(e)
  BY <1>2 DEF OutInv, OutOK
<1>4. stdin[s] # <<>> => stdin[s] = <<e>> /\ Head(stdin[s]) = e /\ Tail(stdin[s]) = <<>>
  <2>1. <<e>> \in Seq(Exec) /\ Head(<<e>>) = e /\ Tail(<<e>>) = <<>>
    BY <1>2
  <2> QED
    BY <1>1, <2>1 DEF FreeOK
<1> QED
  BY <1>2, <1>3, <1>4 DEF Out

\* What pumpLines has on stdout after a change to its line.
LEMMA PipeSet ==
  ASSUME OutInv, NEW s \in Session, NEW l, SetPipe(s, "out", l)
  PROVE  pipe'[s]["out"] = l
<1>1. pipe \in [Session -> [Kind -> Seq(LineSet)]] /\ "out" \in Kind
  BY DEF OutInv, TypeOK, Kind
<1> QED
  BY <1>1 DEF SetPipe

\* Steps of the process and of pumpLines.
LEMMA ProcOut ==
  ASSUME OutInv, NEW s \in Session,
         \/ Finish(s)
         \/ \E k \in Kind : PrintLine(s, k) \/ PipeLost(s, k) \/ PumpLine(s, k)
  PROVE  /\ \A f \in Exec : HoldOK(f)' /\ OutOK(f)'
         /\ \A u \in Session : FreeOK(u)'
         /\ OneRelease'
<1> USE DEF mgrVars, lockVars, connVars, execVars
<1> PICK e : e = execMu[s]
  OBVIOUS
<1> DEFINE q == chan[s]["out"]
           r == pipe[s]["out"]
           w == stdin[s]
           n == Len(got[e])
<1>0. /\ q \in Seq(LineSet) /\ r \in Seq(LineSet) /\ Kind = {"out", "err"}
      /\ e \in Exec => n \in Nat /\ printed[e] \in Nat
  BY DEF OutInv, TypeOK, Kind
<1>1. UNCHANGED <<lockVars, connVars, execVars, child>>
  BY DEF Finish, PrintLine, PipeLost, PumpLine
<1>2. \A u \in Session \ {s} : SameSess(u)
  <2>1. ASSUME NEW k \in Kind, PrintLine(s, k) \/ PipeLost(s, k) \/ PumpLine(s, k),
               NEW u \in Session \ {s}
        PROVE  stdin'[u] = stdin[u] /\ pipe'[u] = pipe[u] /\ chan'[u] = chan[u]
    BY <2>1 DEF PrintLine, PipeLost, PumpLine, SetPipe, OutInv, TypeOK
  <2>2. ASSUME Finish(s), NEW u \in Session \ {s}
        PROVE  stdin'[u] = stdin[u] /\ pipe'[u] = pipe[u] /\ chan'[u] = chan[u]
    BY <2>2 DEF Finish, SetPipe, OutInv, TypeOK
  <2> QED
    BY <1>1, <2>1, <2>2 DEF SameSess
<1>3. CASE UNCHANGED <<stdin, printed>> /\ q' = q /\ r' = r
  <2>1. \A f \in Exec : SameExec(f)
    BY <1>1, <1>3 DEF SameExec, OutInv, HoldOK
  <2>2. SameSess(s)
    BY <1>1, <1>3 DEF SameSess
  <2> QED
    BY <1>2, <2>1, <2>2, KeepAll
<1>4. CASE Finish(s)
  <2>1. /\ w # <<>> /\ r = <<>> /\ child[s] # "exited" /\ UNCHANGED <<printed, chan>>
        /\ stdin'[s] = Tail(w) /\ r' = <<End(Head(w))>>
    <3>1. stdin'[s] = Tail(w)
      BY <1>4 DEF Finish, OutInv, TypeOK
    <3>2. r' = <<End(Head(w))>>
      BY <1>4, PipeSet DEF Finish
    <3> QED
      BY <1>4, <3>1, <3>2 DEF Finish
  <2>2. /\ e \in Exec /\ epc[e] # "write" /\ Head(w) = e /\ Tail(w) = <<>>
        /\ epc[e] = "recv" => Flow(e, q, r, w, n, printed[e], child[s])
    BY <2>1, HasHolder
  <2> HIDE DEF q, r, w, n
  <2>3. epc[e] = "recv" => Flow(e, q, <<End(e)>>, <<>>, n, printed[e], child[s])
    BY <1>0, <2>1, <2>2, FlowFinish
  <2> QED
    BY <1>1, <1>2, <2>1, <2>2, <2>3, PipeOut DEF q, r, w, n
<1>5. CASE PrintLine(s, "out")
  <2>1. /\ w # <<>> /\ r = <<>> /\ child[s] # "exited" /\ UNCHANGED <<stdin, chan>>
        /\ printed' = [printed EXCEPT ![Head(w)] = @ + 1]
        /\ r' = <<Line(Head(w), printed[Head(w)] + 1)>>
    <3>1. r' = <<Line(Head(w), printed[Head(w)] + 1)>>
      BY <1>5, PipeSet DEF PrintLine
    <3> QED
      BY <1>5, <3>1 DEF PrintLine
  <2>2. /\ e \in Exec /\ epc[e] # "write" /\ Head(w) = e /\ w = <<e>>
        /\ epc[e] = "recv" => Flow(e, q, r, w, n, printed[e], child[s])
    BY <2>1, HasHolder
  <2>3. printed'[e] = printed[e] + 1 /\ \A f \in Exec \ {e} : printed'[f] = printed[f]
    BY <2>1, <2>2 DEF OutInv, TypeOK
  <2> HIDE DEF q, r, w, n
  <2>4. epc[e] = "recv" => Flow(e, q, <<Line(e, printed[e] + 1)>>, w, n, printed[e] + 1, child[s])
    BY <1>0, <2>1, <2>2, FlowPrint
  <2> QED
    BY <1>1, <1>2, <2>1, <2>2, <2>3, <2>4, PipeOut DEF q, r, w, n
<1>6. CASE PumpLine(s, "out")
  <2>0. r # <<>> /\ UNCHANGED <<stdin, printed>> /\ r' = <<>>
    BY <1>6, PipeSet DEF PumpLine
  <2>1. q' = q \o r
    <3> PICK l : l = q \o r
      OBVIOUS
    <3>1. chan' = [chan EXCEPT ![s]["out"] = l]
      BY <1>6 DEF PumpLine
    <3>2. chan'[s]["out"] = l
      BY <3>1 DEF OutInv, TypeOK, Kind
    <3> QED
      BY <3>2
  <2>2. /\ e \in Exec /\ epc[e] # "write" /\ (w # <<>> => w = <<e>>)
        /\ epc[e] = "recv" => Flow(e, q, r, w, n, printed[e], child[s])
    BY <2>0, HasHolder
  <2> HIDE DEF q, r, w, n
  <2>3. epc[e] = "recv" => Flow(e, q \o r, <<>>, w, n, printed[e], child[s])
    BY <1>0, <2>0, <2>2, FlowPump
  <2> QED
    BY <1>1, <1>2, <2>0, <2>1, <2>2, <2>3, PipeOut DEF q, r, w, n
<1>7. CASE PipeLost(s, "out")
  <2>1. /\ r # <<>> /\ child[s] = "exited" /\ UNCHANGED <<stdin, printed, chan>> /\ r' = <<>>
    BY <1>7, PipeSet DEF PipeLost
  <2>2. /\ e \in Exec /\ epc[e] # "write" /\ (w # <<>> => w = <<e>>)
        /\ epc[e] = "recv" => Flow(e, q, r, w, n, printed[e], child[s])
    BY <2>1, HasHolder
  <2> HIDE DEF q, r, w, n
  <2>3. epc[e] = "recv" => Flow(e, q, <<>>, w, n, printed[e], child[s])
    BY <1>0, <2>1, <2>2, FlowLost
  <2> QED
    BY <1>1, <1>2, <2>1, <2>2, <2>3, PipeOut DEF q, r, w, n
<1>8. CASE PrintLine(s, "err") \/ PumpLine(s, "err") \/ PipeLost(s, "err")
  <2>1. ASSUME NEW x PROVE [pipe EXCEPT ![s]["err"] = x][s]["out"] = r
    BY DEF OutInv, TypeOK, Kind
  <2>2. ASSUME NEW x PROVE [chan EXCEPT ![s]["err"] = x][s]["out"] = q
    BY DEF OutInv, TypeOK, Kind
  <2>3. printed \in [Exec -> Nat] /\ "err" # "out"
    BY DEF OutInv, TypeOK
  <2>4. CASE PrintLine(s, "err")
    BY <1>3, <2>1, <2>3, <2>4 DEF PrintLine, SetPipe
  <2>5. CASE PumpLine(s, "err")
    BY <1>3, <2>1, <2>2, <2>5 DEF PumpLine, SetPipe
  <2>6. CASE PipeLost(s, "err")
    BY <1>3, <2>1, <2>6 DEF PipeLost, SetPipe
  <2> QED
    BY <1>8, <2>4, <2>5, <2>6
<1> QED
  BY <1>0, <1>4, <1>5, <1>6, <1>7, <1>8

\* OpenExec: a new stream has nothing.
LEMMA OpenOut ==
  ASSUME OutInv, NEW c \in Conn, NEW e \in Exec, OpenExec(e, c)
  PROVE  /\ \A f \in Exec : HoldOK(f)' /\ OutOK(f)'
         /\ \A u \in Session : FreeOK(u)'
         /\ OneRelease'
<1> USE DEF mgrVars, lockVars, procVars, connVars
<1>1. /\ epc[e] = "idle" /\ pc[c] = "serve" /\ owner' = [owner EXCEPT ![e] = c]
      /\ epc' = [epc EXCEPT ![e] = "lock"] /\ UNCHANGED <<lockVars, procVars, connVars, got>>
  BY DEF OpenExec
<1>2. epc'[e] = "lock" /\ owner'[e] = c
  BY <1>1 DEF OutInv, TypeOK
<1>3. \A f \in Exec \ {e} : SameExec(f)
  BY <1>1 DEF SameExec, OutInv, HoldOK, TypeOK
<1>4. \A u \in Session : SameSess(u)
  BY <1>1 DEF SameSess
<1>5. ASSUME NEW f \in Exec PROVE HoldOK(f)' /\ OutOK(f)'
  <2>1. CASE f # e
    <3>1. epc[f] # "idle" => Sess(f) \in Session
      BY DEF OutInv, TypeOK, Sess
    <3> QED
      BY <1>3, <1>4, <2>1, <3>1, KeepExec DEF Occupied, Holding
  <2>2. CASE f = e
    <3>1. OutOK(e)
      BY DEF OutInv
    <3>2. HoldOK(e)'
      BY <1>1, <1>2 DEF HoldOK, Holding
    <3>3. OutOK(e)'
      BY <1>1, <1>2, <3>1 DEF OutOK
    <3> QED
      BY <2>2, <3>2, <3>3
  <2> QED
    BY <2>1, <2>2
<1>6. ASSUME NEW u \in Session PROVE FreeOK(u)'
  <2>1. execMu[u] # NoExec => execMu[u] \in Exec /\ execMu[u] # e
    BY <1>1 DEF OutInv, FreeOK, Holding, TypeOK
  <2> QED
    BY <1>3, <1>4, <2>1, KeepSess
<1>7. OneRelease'
  <2>1. ASSUME NEW f \in Exec, epc'[f] = "released"
        PROVE  epc[f] = "released" /\ Sess(f)' = Sess(f)
    <3>1. f # e
      BY <1>2, <2>1
    <3> QED
      BY <1>3, <2>1, <3>1 DEF SameExec, Sess
  <2> QED
    BY <2>1, KeepRelease
<1> QED
  BY <1>5, <1>6, <1>7

\* A step of stream e that leaves its session alone, or has it for itself.
LEMMA StreamOut ==
  ASSUME OutInv, NEW e \in Exec, NEW s \in Session, s = Sess(e), epc[e] # "idle",
         UNCHANGED <<connVars, owner, child, printed>>,
         \A f \in Exec \ {e} : epc'[f] = epc[f] /\ got'[f] = got[f],
         \A u \in Session \ {s} : SameSess(u),
         \/ SameSess(s) /\ epc'[e] # "released"
         \/ \A f \in Exec \ {e} : Sess(f) = s => epc[f] \notin Occupied,
         HoldOK(e)', OutOK(e)', FreeOK(s)'
  PROVE  /\ \A f \in Exec : HoldOK(f)' /\ OutOK(f)'
         /\ \A u \in Session : FreeOK(u)'
         /\ OneRelease'
<1> USE DEF connVars
<1>1. \A f \in Exec \ {e} : SameExec(f)
  BY DEF SameExec, OutInv, HoldOK
<1>2. \A f \in Exec : (epc[f] # "idle" => Sess(f) \in Session) /\ Sess(f)' = Sess(f)
  BY DEF OutInv, TypeOK, Sess
<1>3. ASSUME NEW f \in Exec PROVE HoldOK(f)' /\ OutOK(f)'
  <2>1. CASE f # e
    <3>1. epc[f] \in Occupied => SameSess(Sess(f))
      BY <1>2, <2>1 DEF Occupied, Holding
    <3> QED
      BY <1>1, <2>1, <3>1, KeepExec
  <2> QED
    BY <2>1
<1>4. ASSUME NEW u \in Session, u # s PROVE FreeOK(u)'
  <2>1. execMu[u] # NoExec => execMu[u] \in Exec /\ execMu[u] # e
    BY <1>4 DEF OutInv, FreeOK, TypeOK
  <2> QED
    BY <1>1, <1>4, <2>1, KeepSess
<1>5. OneRelease'
  <2>1. ASSUME NEW f \in Exec, NEW g \in Exec, epc'[f] = "released", epc'[g] = "released",
               Sess(f) = Sess(g), f # e, f # g
        PROVE  FALSE
    <3>1. epc[f] = "released"
      BY <2>1
    <3>2. CASE g = e
      BY <2>1, <3>1, <3>2 DEF Occupied
    <3>3. CASE g # e
      BY <2>1, <3>1, <3>3 DEF OutInv, OneRelease
    <3> QED
      BY <3>2, <3>3
  <2> QED
    BY <1>2, <2>1 DEF OneRelease
<1> QED
  BY <1>3, <1>4, <1>5

\* The holder of execMu has its session for itself.
LEMMA Alone ==
  ASSUME OutInv, NEW e \in Exec, epc[e] \in Holding
  PROVE  /\ Sess(e) \in Session /\ execMu[Sess(e)] = e /\ e # NoExec
         /\ \A f \in Exec \ {e} : Sess(f) = Sess(e) => epc[f] \notin Occupied
<1>1. execMu[Sess(e)] = e /\ Sess(e) \in Session /\ e # NoExec
  BY ExecAssumption DEF OutInv, HoldOK, TypeOK, Sess, Holding
<1> QED
  BY <1>1 DEF OutInv, HoldOK, Occupied

\* Host.Exec.
LEMMA StartOut ==
  ASSUME OutInv, NEW e \in Exec, ExecLock(e) \/ ExecWrite(e)
  PROVE  /\ \A f \in Exec : HoldOK(f)' /\ OutOK(f)'
         /\ \A u \in Session : FreeOK(u)'
         /\ OneRelease'
<1> USE DEF mgrVars, lockVars, procVars, connVars
<1> PICK s : s = Sess(e)
  OBVIOUS
<1>1. /\ s \in Session /\ epc[e] \in {"lock", "write"}
      /\ UNCHANGED <<connVars, owner, got, child, printed, chan, pipe>> /\ e # NoExec
      /\ HoldOK(e) /\ OutOK(e) /\ FreeOK(s) /\ Sess(e)' = s
  BY ExecAssumption DEF ExecLock, ExecWrite, OutInv, TypeOK, Sess
<1>2. ASSUME epc' = [epc EXCEPT ![e] = "failed"], UNCHANGED <<lockVars, stdin>>,
             epc[e] = "lock"
      PROVE  /\ \A f \in Exec : HoldOK(f)' /\ OutOK(f)'
             /\ \A u \in Session : FreeOK(u)'
             /\ OneRelease'
  <2>1. epc'[e] = "failed" /\ \A f \in Exec \ {e} : epc'[f] = epc[f]
    BY <1>2 DEF OutInv, TypeOK
  <2>2. \A u \in Session : SameSess(u)
    BY <1>1, <1>2 DEF SameSess
  <2>3. HoldOK(e)' /\ OutOK(e)'
    BY <1>1, <1>2, <2>1 DEF HoldOK, OutOK, Holding
  <2>4. FreeOK(s)'
    <3> PICK g : g = execMu[s]
      OBVIOUS
    <3>1. g # NoExec => g \in Exec /\ g # e
      BY <1>1, <1>2 DEF FreeOK, Holding, OutInv, TypeOK
    <3>2. g # NoExec => SameExec(g)
      BY <1>1, <2>1, <3>1 DEF SameExec, OutInv, HoldOK
    <3> QED
      BY <1>1, <2>2, <3>2, KeepSess
  <2> QED
    BY <1>1, <1>2, <2>1, <2>2, <2>3, <2>4, StreamOut
<1>3. CASE ExecLock(e) /\ ~(Closed(s) \/ active[s])
  <2>1. /\ epc[e] = "lock" /\ execMu[s] = NoExec /\ active[s] # TRUE
        /\ epc' = [epc EXCEPT ![e] = "write"] /\ UNCHANGED stdin
        /\ execMu' = [execMu EXCEPT ![s] = e] /\ active' = [active EXCEPT ![s] = TRUE]
    BY <1>3 DEF ExecLock
  <2>2. /\ epc'[e] = "write" /\ execMu'[s] = e /\ active'[s]
        /\ \A f \in Exec \ {e} : epc'[f] = epc[f]
        /\ \A u \in Session \ {s} : SameSess(u)
    BY <1>1, <2>1 DEF OutInv, TypeOK, SameSess
  <2>3. \A f \in Exec \ {e} : Sess(f) = s => epc[f] \notin Occupied
    BY <1>3, <2>1, ExecAssumption DEF OutInv, HoldOK, Occupied
  <2>4. HoldOK(e)'
    BY <1>1, <2>1, <2>2 DEF HoldOK, Holding
  <2>5. OutOK(e)'
    BY <1>1, <2>1, <2>2 DEF OutOK
  <2>6. FreeOK(s)'
    BY <1>1, <2>1, <2>2 DEF FreeOK, Holding
  <2> QED
    BY <1>1, <2>2, <2>3, <2>4, <2>5, <2>6, StreamOut
<1>4. ASSUME epc[e] = "write", epc' = [epc EXCEPT ![e] = "recv"], UNCHANGED lockVars,
             stdin' = [stdin EXCEPT ![s] = Append(@, e)], child[s] # "exited"
      PROVE  /\ \A f \in Exec : HoldOK(f)' /\ OutOK(f)'
             /\ \A u \in Session : FreeOK(u)'
             /\ OneRelease'
  <2>1. execMu[s] = e /\ \A f \in Exec \ {e} : Sess(f) = s => epc[f] \notin Occupied
    BY <1>4, Alone DEF Holding
  <2>2. stdin[s] = <<>> /\ chan[s]["out"] = <<>> /\ pipe[s]["out"] = <<>>
    BY <1>1, <1>4, <2>1 DEF FreeOK
  <2>3. printed[e] = 0 /\ got[e] = <<>>
    BY <1>1, <1>4 DEF OutOK
  <2>4. /\ epc'[e] = "recv" /\ stdin'[s] = <<e>>
        /\ \A f \in Exec \ {e} : epc'[f] = epc[f]
        /\ \A u \in Session \ {s} : SameSess(u)
    BY <1>1, <1>4, <2>2 DEF OutInv, TypeOK, SameSess
  <2>5. Flow(e, <<>>, <<>>, <<e>>, 0, 0, child[s])
    BY DEF Flow, Lines
  <2>6. Out(e)'
    <3>1. Len(got[e]) = 0
      BY <2>3
    <3> QED
      BY <1>1, <2>2, <2>3, <2>4, <2>5, <3>1 DEF Out
  <2>7. HoldOK(e)'
    BY <1>1, <1>4, <2>4 DEF HoldOK, Holding
  <2>8. OutOK(e)'
    BY <1>1, <2>3, <2>4, <2>6 DEF OutOK
  <2>9. FreeOK(s)'
    BY <1>1, <1>4, <2>1, <2>4 DEF FreeOK, Holding
  <2> QED
    BY <1>1, <2>1, <2>4, <2>7, <2>8, <2>9, StreamOut
<1>5. ASSUME epc[e] = "write", epc' = [epc EXCEPT ![e] = "failed"], UNCHANGED stdin,
             execMu' = [execMu EXCEPT ![s] = NoExec], active' = [active EXCEPT ![s] = FALSE]
      PROVE  /\ \A f \in Exec : HoldOK(f)' /\ OutOK(f)'
             /\ \A u \in Session : FreeOK(u)'
             /\ OneRelease'
  <2>1. execMu[s] = e /\ \A f \in Exec \ {e} : Sess(f) = s => epc[f] \notin Occupied
    BY <1>5, Alone DEF Holding
  <2>2. stdin[s] = <<>> /\ chan[s]["out"] = <<>> /\ pipe[s]["out"] = <<>>
    BY <1>1, <1>5, <2>1 DEF FreeOK
  <2>3. /\ epc'[e] = "failed" /\ execMu'[s] = NoExec
        /\ \A f \in Exec \ {e} : epc'[f] = epc[f]
        /\ \A u \in Session \ {s} : SameSess(u)
    BY <1>1, <1>5 DEF OutInv, TypeOK, SameSess
  <2>4. HoldOK(e)' /\ OutOK(e)'
    BY <1>1, <1>5, <2>3 DEF HoldOK, OutOK, Holding
  <2>5. FreeOK(s)'
    BY <1>1, <1>5, <2>2, <2>3 DEF FreeOK
  <2> QED
    BY <1>1, <1>5, <2>1, <2>3, <2>4, <2>5, StreamOut
<1>6. CASE ExecLock(e) /\ (Closed(s) \/ active[s])
  BY <1>2, <1>6 DEF ExecLock
<1>7. CASE ExecWrite(e)
  BY <1>4, <1>5, <1>7 DEF ExecWrite
<1> QED
  BY <1>3, <1>6, <1>7

\* Output.Recv and release.
LEMMA RecvOut ==
  ASSUME OutInv, NEW e \in Exec,
         RecvEnd(e) \/ MarkIdle(e) \/ RecvCancelled(e) \/ \E k \in Kind : RecvLine(e, k)
  PROVE  /\ \A f \in Exec : HoldOK(f)' /\ OutOK(f)'
         /\ \A u \in Session : FreeOK(u)'
         /\ OneRelease'
<1> USE DEF mgrVars, lockVars, procVars, connVars
<1> PICK s : s = Sess(e)
  OBVIOUS
<1> DEFINE q == chan[s]["out"]
           r == pipe[s]["out"]
           w == stdin[s]
           n == Len(got[e])
<1>1. /\ s \in Session /\ epc[e] \in {"recv", "released"}
      /\ UNCHANGED <<connVars, owner, child, printed, pipe, stdin>> /\ e # NoExec
      /\ HoldOK(e) /\ OutOK(e) /\ FreeOK(s) /\ Sess(e)' = s
      /\ q \in Seq(LineSet) /\ n \in Nat /\ printed[e] \in Nat /\ got[e] \in Seq(LineSet)
  BY ExecAssumption
     DEF RecvEnd, MarkIdle, RecvCancelled, RecvLine, OutInv, TypeOK, Sess, Kind
<1>2. CASE MarkIdle(e)
  <2>1. /\ epc[e] = "released" /\ active' = [active EXCEPT ![s] = FALSE]
        /\ UNCHANGED <<execMu, chan, got>>
        /\ epc' = [epc EXCEPT ![e] = IF live[owner[e]] THEN "done" ELSE "failed"]
    BY <1>2 DEF MarkIdle
  <2>2. execMu[s] = NoExec
    BY <1>1, <2>1 DEF HoldOK
  <2>3. \A f \in Exec \ {e} : Sess(f) = s => epc[f] \notin Occupied
    BY <2>1, <2>2, ExecAssumption DEF OutInv, HoldOK, OneRelease, Occupied
  <2>4. /\ epc'[e] \in {"done", "failed"}
        /\ \A f \in Exec \ {e} : epc'[f] = epc[f]
        /\ \A u \in Session \ {s} : SameSess(u)
    BY <1>1, <2>1 DEF OutInv, TypeOK, SameSess
  <2>5. HoldOK(e)'
    BY <1>1, <2>1, <2>4 DEF HoldOK, Holding
  <2>6. OutOK(e)'
    BY <1>1, <2>1, <2>4 DEF OutOK
  <2>7. FreeOK(s)'
    BY <1>1, <2>1, <2>2 DEF FreeOK
  <2> QED
    BY <1>1, <2>1, <2>3, <2>4, <2>5, <2>6, <2>7, StreamOut
<1>3. ASSUME epc[e] = "recv"
      PROVE  /\ execMu[s] = e /\ (w # <<>> => w = <<e>>) /\ active[s]
             /\ \A f \in Exec \ {e} : Sess(f) = s => epc[f] \notin Occupied
             /\ Flow(e, q, r, w, n, printed[e], child[s])
  <2>1. execMu[s] = e /\ \A f \in Exec \ {e} : Sess(f) = s => epc[f] \notin Occupied
    BY <1>3, Alone DEF Holding
  <2>2. Out(e) /\ active[s]
    BY <1>1, <1>3 DEF OutOK, HoldOK, Holding
  <2> QED
    BY <1>1, <2>1, <2>2 DEF FreeOK, Out
<1>4. ASSUME epc[e] = "recv", epc' = [epc EXCEPT ![e] = "abandoned"],
             UNCHANGED <<lockVars, got>>, \A u \in Session \ {s} : SameSess(u)
      PROVE  /\ \A f \in Exec : HoldOK(f)' /\ OutOK(f)'
             /\ \A u \in Session : FreeOK(u)'
             /\ OneRelease'
  <2>1. epc'[e] = "abandoned" /\ \A f \in Exec \ {e} : epc'[f] = epc[f]
    BY <1>4 DEF OutInv, TypeOK
  <2>2. HoldOK(e)'
    BY <1>1, <1>4, <2>1 DEF HoldOK, Holding
  <2>3. OutOK(e)'
    BY <1>1, <1>4, <2>1 DEF OutOK
  <2>4. FreeOK(s)'
    BY <1>1, <1>3, <1>4, <2>1 DEF FreeOK, Holding
  <2> QED
    BY <1>1, <1>3, <1>4, <2>1, <2>2, <2>3, <2>4, StreamOut
<1>5. CASE RecvCancelled(e)
  <2>1. \A u \in Session \ {s} : SameSess(u)
    BY <1>5 DEF RecvCancelled, SameSess
  <2> QED
    BY <1>4, <1>5, <2>1 DEF RecvCancelled
<1>6. ASSUME NEW k \in Kind, NEW l, chan' = [chan EXCEPT ![s][k] = l], UNCHANGED active,
             \A u \in Session \ {s} : execMu'[u] = execMu[u]
      PROVE  \A u \in Session \ {s} : SameSess(u)
  <2>1. \A u \in Session \ {s} : chan'[u] = chan[u]
    BY <1>1, <1>6 DEF OutInv, TypeOK
  <2> QED
    BY <1>1, <1>6, <2>1 DEF SameSess
<1>7. CASE RecvEnd(e)
  <2>1. /\ epc[e] = "recv" /\ q # <<>> /\ Head(q) = End(e) /\ UNCHANGED <<active, got>>
        /\ execMu' = [execMu EXCEPT ![s] = NoExec] /\ epc' = [epc EXCEPT ![e] = "released"]
    BY <1>7 DEF RecvEnd
  <2>2. /\ epc'[e] = "released" /\ execMu'[s] = NoExec
        /\ \A f \in Exec \ {e} : epc'[f] = epc[f]
        /\ \A u \in Session \ {s} : execMu'[u] = execMu[u]
    BY <1>1, <2>1 DEF OutInv, TypeOK
  <2> PICK l : l = Tail(q)
    OBVIOUS
  <2>3. chan' = [chan EXCEPT ![s]["out"] = l]
    BY <1>7 DEF RecvEnd
  <2>4. chan'[s]["out"] = l /\ \A u \in Session \ {s} : SameSess(u)
    <3>1. chan'[s]["out"] = l
      BY <1>1, <2>3 DEF OutInv, TypeOK, Kind
    <3>2. "out" \in Kind
      BY DEF Kind
    <3>3. \A u \in Session \ {s} : SameSess(u)
      BY <1>6, <2>1, <2>2, <2>3, <3>2
    <3> QED
      BY <3>1, <3>3
  <2>5. Flow(e, q, r, w, n, printed[e], child[s]) /\ active[s]
    BY <1>3, <2>1
  <2> HIDE DEF q, r, w, n
  <2>6. n = printed[e] /\ l = <<>> /\ r = <<>> /\ w = <<>>
    BY <1>1, <2>1, <2>5, FlowEnd
  <2>7. HoldOK(e)'
    BY <1>1, <2>1, <2>2, <2>5 DEF HoldOK, Holding
  <2>8. OutOK(e)'
    BY <1>1, <2>1, <2>2, <2>6 DEF OutOK, n
  <2>9. FreeOK(s)'
    BY <1>1, <2>2, <2>4, <2>6 DEF FreeOK, r, w
  <2> QED
    BY <1>1, <1>3, <2>1, <2>2, <2>4, <2>7, <2>8, <2>9, StreamOut
<1>8. ASSUME NEW k \in Kind, RecvLine(e, k)
      PROVE  /\ \A f \in Exec : HoldOK(f)' /\ OutOK(f)'
             /\ \A u \in Session : FreeOK(u)'
             /\ OneRelease'
  <2> PICK l : l = Tail(chan[s][k])
    OBVIOUS
  <2>1. /\ epc[e] = "recv" /\ UNCHANGED lockVars /\ chan' = [chan EXCEPT ![s][k] = l]
        /\ k = "out" => q # <<>> /\ Head(q) # End(e)
    BY <1>8 DEF RecvLine
  <2>2. \A u \in Session \ {s} : SameSess(u)
    BY <1>6, <2>1
  <2>3. CASE ~live[owner[e]]
    BY <1>4, <1>8, <2>1, <2>2, <2>3 DEF RecvLine
  <2>4. CASE live[owner[e]] /\ k = "err"
    <3>1. UNCHANGED <<epc, got>> /\ q' = q
      BY <1>1, <1>8, <2>1, <2>4 DEF RecvLine, OutInv, TypeOK, Kind
    <3>2. \A f \in Exec : SameExec(f)
      BY <1>1, <3>1 DEF SameExec, OutInv, HoldOK
    <3>3. SameSess(s)
      BY <1>1, <2>1, <3>1 DEF SameSess
    <3> QED
      BY <2>2, <3>2, <3>3, KeepAll
  <2>5. CASE live[owner[e]] /\ k = "out"
    <3>1. /\ epc' = epc /\ got' = [got EXCEPT ![e] = Append(@, Head(q))]
      BY <1>8, <2>5 DEF RecvLine
    <3>2. /\ got'[e] = Append(got[e], Head(q)) /\ chan'[s]["out"] = Tail(q)
          /\ \A f \in Exec \ {e} : got'[f] = got[f]
      BY <1>1, <2>1, <2>5, <3>1 DEF OutInv, TypeOK, Kind
    <3>3. Flow(e, q, r, w, n, printed[e], child[s]) /\ q # <<>> /\ Head(q) # End(e)
      BY <1>3, <2>1, <2>5
    <3> HIDE DEF q, r, w, n
    <3>4. Head(q) = Line(e, n + 1) /\ Flow(e, Tail(q), r, w, n + 1, printed[e], child[s])
      BY <1>1, <3>3, FlowRecv
    <3>5. Head(q) \in LineSet
      BY <1>1, <3>3
    <3>6. /\ Len(got'[e]) = n + 1 /\ got'[e][n + 1] = Head(q) /\ DOMAIN got'[e] = 1 .. n + 1
          /\ \A i \in 1 .. n : got'[e][i] = got[e][i]
          /\ DOMAIN got[e] = 1 .. n
      BY <1>1, <3>2, <3>5, AppendProperties, LenProperties DEF n
    <3>7. ASSUME NEW i \in DOMAIN got'[e] PROVE got'[e][i] = Line(e, i)
      <4>1. i \in 1 .. n \/ i = n + 1
        BY <1>1, <3>6
      <4>2. \A j \in 1 .. n : got[e][j] = Line(e, j)
        BY <1>1, <3>6 DEF OutOK
      <4> QED
        BY <3>4, <3>6, <4>1, <4>2
    <3>8. Out(e)'
      BY <1>1, <3>2, <3>4, <3>6 DEF Out, q, r, w
    <3>9. HoldOK(e)'
      BY <1>1, <2>1, <3>1 DEF HoldOK
    <3>10. OutOK(e)'
      BY <2>1, <3>1, <3>7, <3>8 DEF OutOK
    <3>11. FreeOK(s)'
      <4>1. execMu'[s] = e /\ epc'[e] = "recv" /\ (stdin'[s] # <<>> => stdin'[s] = <<e>>)
        BY <1>1, <1>3, <2>1, <3>1 DEF w
      <4> QED
        BY <1>1, <4>1 DEF FreeOK, Holding
    <3> QED
      BY <1>1, <1>3, <2>1, <2>2, <3>1, <3>2, <3>9, <3>10, <3>11, StreamOut
  <2> QED
    BY <2>3, <2>4, <2>5 DEF Kind
<1> QED
  BY <1>2, <1>5, <1>7, <1>8

\* OutInv is inductive.
LEMMA NextOut == OutInv /\ [Next]_vars => OutInv'
<1> SUFFICES ASSUME OutInv, [Next]_vars
             PROVE  /\ \A f \in Exec : HoldOK(f)' /\ OutOK(f)'
                    /\ \A u \in Session : FreeOK(u)'
                    /\ OneRelease'
  BY NextType DEF OutInv
<1>1. ASSUME NEW c \in Conn, ConnStep(c) \/ ClientStep(c)
      PROVE  /\ \A f \in Exec : HoldOK(f)' /\ OutOK(f)'
             /\ \A u \in Session : FreeOK(u)'
             /\ OneRelease'
  BY <1>1, ConnOut, OpenOut DEF ClientStep
<1>2. ASSUME NEW e \in Exec, ExecStep(e)
      PROVE  /\ \A f \in Exec : HoldOK(f)' /\ OutOK(f)'
             /\ \A u \in Session : FreeOK(u)'
             /\ OneRelease'
  BY <1>2, StartOut, RecvOut DEF ExecStep
<1>3. ASSUME NEW s \in Session,
             \/ HostStep(s) \/ Finish(s) \/ ChildExit(s)
             \/ \E k \in Kind : PrintLine(s, k) \/ PipeLost(s, k)
      PROVE  /\ \A f \in Exec : HoldOK(f)' /\ OutOK(f)'
             /\ \A u \in Session : FreeOK(u)'
             /\ OneRelease'
  BY <1>3, HostOut, ProcOut DEF HostStep
<1> QED
  BY <1>1, <1>2, <1>3, HostOut DEF Next

\* OutInv holds in every reachable state.
THEOREM OutInvariant == Spec => []OutInv
<1>1. Init => OutInv
  <2> SUFFICES ASSUME Init PROVE OutInv
    OBVIOUS
  <2>1. \A e \in Exec : HoldOK(e) /\ OutOK(e)
    BY DEF Init, HoldOK, OutOK, Holding
  <2>2. \A s \in Session : FreeOK(s)
    BY DEF Init, FreeOK, Kind
  <2> QED
    BY <2>1, <2>2, InitType DEF OutInv, OneRelease, Init
<1> QED
  BY <1>1, NextOut, PTL DEF Spec

\* Each Exec stream carries the output of its own command, whole and in order,
\* for any number of connections that share, abandon and resume sessions:
\* execMu is given back only when the sentinel has been read, and a stream that
\* is abandoned keeps it (Exec, Recv, release).
THEOREM OutputIsOwn == Spec => []OwnOutput
<1>1. OutInv => OwnOutput
  BY DEF OutInv, OutOK, OwnOutput
<1> QED
  BY <1>1, OutInvariant, PTL
=============================================================================
