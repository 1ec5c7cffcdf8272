------------------------ MODULE MailcartServer_proofs ------------------------
(* Proofs about MailcartServer and the Subprocess it uses: types, that the   *)
(* output of a child is read whole, and that starts do not all give way, for *)
(* any number of starts, threads and sizes of pipes.                         *)
EXTENDS MailcartServer, TLAPS

LEMMA OpenPipesType ==
    ASSUME RunTypeOK, NEW t \in Threads, OpenPipes(t)
    PROVE  RunTypeOK'
  BY DEF RunTypeOK, OpenPipes, Go

LEMMA RunStepType ==
    ASSUME RunTypeOK, NEW t \in Threads, RunStep(t)
    PROVE  RunTypeOK'
  <1> USE DEF RunTypeOK
  <1>c. child[t] \in Child
    OBVIOUS
  <1>1. CASE Spawn(t)
    <2>1. 0 \in 0..Capacity /\ Leaking(t) \in SUBSET Threads
      BY SubprocessAssumption DEF Leaking
    <2>2. QED
      BY <1>1, <2>1 DEF Spawn, Go, Child
  <1>2. CASE SpawnFails(t) \/ CloseWriteEnds(t) \/ WaitPid(t)
    BY <1>2 DEF SpawnFails, CloseWriteEnds, WaitPid, Go
  <1>3. CASE ReadOut(t)
    <2>1. child[t].out > 0 => [child[t] EXCEPT !.out = @ - 1] \in Child
      BY <1>c, SubprocessAssumption DEF Child
    <2>2. QED
      BY <1>3, <2>1 DEF ReadOut, Go
  <1>4. CASE ReadErr(t)
    <2>1. child[t].err > 0 => [child[t] EXCEPT !.err = @ - 1] \in Child
      BY <1>c, SubprocessAssumption DEF Child
    <2>2. QED
      BY <1>4, <2>1 DEF ReadErr, Go
  <1>5. QED
    BY <1>1, <1>2, <1>3, <1>4 DEF RunStep

LEMMA ChildStepType ==
    ASSUME RunTypeOK, NEW t \in Threads, ChildStep(t)
    PROVE  RunTypeOK'
  <1> USE DEF RunTypeOK
  <1>c. child[t] \in Child
    OBVIOUS
  <1>1. child[t].leftOut > 0 /\ child[t].out < Capacity =>
            [child[t] EXCEPT !.leftOut = @ - 1, !.out = @ + 1] \in Child
    <2>1. child[t].leftOut > 0 /\ child[t].out < Capacity =>
              child[t].leftOut - 1 \in 0..MaxWritten /\ child[t].out + 1 \in 0..Capacity
      BY <1>c, SubprocessAssumption DEF Child
    <2>2. QED
      BY <1>c, <2>1 DEF Child
  <1>2. child[t].leftErr > 0 /\ child[t].err < Capacity =>
            [child[t] EXCEPT !.leftErr = @ - 1, !.err = @ + 1] \in Child
    <2>1. child[t].leftErr > 0 /\ child[t].err < Capacity =>
              child[t].leftErr - 1 \in 0..MaxWritten /\ child[t].err + 1 \in 0..Capacity
      BY <1>c, SubprocessAssumption DEF Child
    <2>2. QED
      BY <1>c, <2>1 DEF Child
  <1>3. [child[t] EXCEPT !.alive = FALSE, !.holds = {}] \in Child
    BY <1>c DEF Child
  <1>4. QED
    BY <1>1, <1>2, <1>3 DEF ChildStep, ChildWrites, ChildExits

LEMMA InitType == Init => TypeOK
  BY SubprocessAssumption DEF Init, TypeOK, RunInit, RunTypeOK, NoChild, Child, Stages

LEMMA MainStepType ==
    ASSUME TypeOK, NEW s \in Starters, MainStep(s)
    PROVE  TypeOK'
  <1> USE DEF TypeOK
  <1>1. /\ stage' \in [Starters -> Stages]
        /\ foreign' = foreign
    BY DEF MainStep, BeginTokenCheck, EndTokenCheck, CheckTls, IsPortInUse, ProbeHealth,
           TlsFails, Bind, Listen, ListenFails, Move, Stages, Ended
  <1>2. CASE BeginTokenCheck(s)
    <2>1. Main[s] \in Threads /\ OpenPipes(Main[s]) => RunTypeOK'
      BY OpenPipesType
    <2>2. UNCHANGED runVars => RunTypeOK'
      BY DEF runVars, RunTypeOK
    <2>3. QED
      BY <1>1, <1>2, <2>1, <2>2 DEF BeginTokenCheck
  <1>3. CASE ~BeginTokenCheck(s)
    <2>1. UNCHANGED runVars
      BY <1>3 DEF MainStep, EndTokenCheck, CheckTls, IsPortInUse, ProbeHealth, TlsFails,
                  Bind, Listen, ListenFails
    <2>2. QED
      BY <1>1, <2>1 DEF runVars, RunTypeOK
  <1>4. QED
    BY <1>2, <1>3

LEMMA NextType == TypeOK /\ [Next]_vars => TypeOK'
  <1> SUFFICES ASSUME TypeOK, [Next]_vars PROVE TypeOK'
    OBVIOUS
  <1> USE DEF TypeOK
  <1>1. ASSUME NEW s \in Starters, MainStep(s) PROVE TypeOK'
    BY <1>1, MainStepType
  <1>2. ASSUME NEW s \in Starters, Die(s) PROVE TypeOK'
    <2>1. NoChild \in Child
      BY SubprocessAssumption DEF NoChild, Child
    <2>2. QED
      BY <1>2, <2>1 DEF Die, Move, RunTypeOK, Stages, Ended
  <1>3. ASSUME NEW t \in Threads, AskPsa(t) PROVE TypeOK'
    BY <1>3, OpenPipesType DEF AskPsa, serverVars
  <1>4. ASSUME NEW t \in Threads, ThreadStep(t) PROVE TypeOK'
    BY <1>4, RunStepType DEF ThreadStep, serverVars
  <1>5. ASSUME NEW t \in Threads, ProgramStep(t) PROVE TypeOK'
    BY <1>5, ChildStepType DEF ProgramStep, serverVars
  <1>6. CASE ForeignEnds
    BY <1>6 DEF ForeignEnds, runVars, RunTypeOK
  <1>7. CASE UNCHANGED vars
    BY <1>7 DEF vars, serverVars, runVars, RunTypeOK
  <1>8. QED
    BY <1>1, <1>2, <1>3, <1>4, <1>5, <1>6, <1>7 DEF Next

\* Every variable has its type, for any number of starts and threads.
THEOREM ServerTypeCorrect == Spec => []TypeOK
  <1>1. QED
    BY InitType, NextType, PTL DEF Spec

-----------------------------------------------------------------------------
(* The output of a child                                                   *)

\* A child that has exited has written everything; Run is past a pipe only
\* when the child has exited and the pipe is empty.
ReadWhole(t) ==
    /\ ~child[t].alive => child[t].leftOut = 0 /\ child[t].leftErr = 0
    /\ run[t] \in {"err", "wait"} => ~child[t].alive /\ child[t].out = 0
    /\ run[t] = "wait" => child[t].err = 0

OutputInv == \A t \in Threads : ReadWhole(t)

\* A step that leaves the thread and its child alone leaves ReadWhole alone.
LEMMA ReadWholeFrame ==
    ASSUME NEW u \in Threads, ReadWhole(u), run'[u] = run[u], child'[u] = child[u]
    PROVE  ReadWhole(u)'
  BY DEF ReadWhole

LEMMA OpenPipesReadWhole ==
    ASSUME RunTypeOK, OutputInv, NEW t \in Threads, OpenPipes(t)
    PROVE  OutputInv'
  BY DEF OutputInv, ReadWhole, OpenPipes, Go, RunTypeOK

LEMMA RunStepReadWhole ==
    ASSUME RunTypeOK, OutputInv, NEW t \in Threads, RunStep(t)
    PROVE  OutputInv'
  <1> SUFFICES ASSUME NEW u \in Threads PROVE ReadWhole(u)'
    BY DEF OutputInv
  <1>i. ReadWhole(u) /\ ReadWhole(t)
    BY DEF OutputInv
  <1>c. child[t] \in Child
    BY DEF RunTypeOK
  <1>1. CASE u # t
    <2>1. run'[u] = run[u] /\ child'[u] = child[u]
      BY <1>1 DEF RunTypeOK, RunStep, Spawn, SpawnFails, CloseWriteEnds, ReadOut,
                  ReadErr, WaitPid, Go
    <2>2. QED
      BY <1>i, <2>1, ReadWholeFrame
  <1>2. CASE u = t
    <2>1. CASE Spawn(t)
      BY <1>2, <2>1 DEF ReadWhole, Spawn, Go, RunTypeOK
    <2>2. CASE SpawnFails(t) \/ CloseWriteEnds(t) \/ WaitPid(t)
      BY <1>2, <1>i, <2>2 DEF ReadWhole, SpawnFails, CloseWriteEnds, WaitPid, Go, RunTypeOK
    <2>3. CASE ReadOut(t)
      <3>1. CASE child' = [child EXCEPT ![t].out = @ - 1] /\ UNCHANGED run
        BY <1>2, <1>i, <1>c, <2>3, <3>1 DEF ReadWhole, ReadOut, At, RunTypeOK, Child
      <3>2. CASE child[t].out = 0 /\ AllClosed(t) /\ Go(t, "err") /\ UNCHANGED child
        BY <1>2, <1>i, <2>3, <3>2 DEF ReadWhole, AllClosed, Go, RunTypeOK
      <3>3. QED
        BY <2>3, <3>1, <3>2 DEF ReadOut
    <2>4. CASE ReadErr(t)
      <3>1. CASE child' = [child EXCEPT ![t].err = @ - 1] /\ UNCHANGED run
        BY <1>2, <1>i, <1>c, <2>4, <3>1 DEF ReadWhole, ReadErr, At, RunTypeOK, Child
      <3>2. CASE child[t].err = 0 /\ AllClosed(t) /\ Go(t, "wait") /\ UNCHANGED child
        BY <1>2, <1>i, <2>4, <3>2 DEF ReadWhole, ReadErr, At, Go, RunTypeOK
      <3>3. QED
        BY <2>4, <3>1, <3>2 DEF ReadErr
    <2>5. QED
      BY <2>1, <2>2, <2>3, <2>4 DEF RunStep
  <1>3. QED
    BY <1>1, <1>2

\* What is still written is written by a child that is alive.
LEMMA ChildStepReadWhole ==
    ASSUME RunTypeOK, OutputInv, NEW t \in Threads, ChildStep(t)
    PROVE  OutputInv'
  <1> SUFFICES ASSUME NEW u \in Threads PROVE ReadWhole(u)'
    BY DEF OutputInv
  <1>i. ReadWhole(u) /\ ReadWhole(t)
    BY DEF OutputInv
  <1>c. child[t] \in Child
    BY DEF RunTypeOK
  <1>r. UNCHANGED run
    BY DEF ChildStep, ChildWrites, ChildExits
  <1>1. CASE u # t
    <2>1. child'[u] = child[u]
      BY <1>1 DEF RunTypeOK, ChildStep, ChildWrites, ChildExits
    <2>2. QED
      BY <1>i, <1>r, <2>1, ReadWholeFrame
  <1>2. CASE u = t
    <2>1. CASE ChildWrites(t)
      <3>1. child[t].alive
        BY <1>i, <2>1 DEF ChildWrites, ReadWhole
      <3>2. child'[t].alive
        BY <1>c, <2>1, <3>1 DEF ChildWrites, RunTypeOK, Child
      <3>3. QED
        BY <1>2, <1>i, <1>r, <3>1, <3>2 DEF ReadWhole
    <2>2. CASE ChildExits(t)
      BY <1>2, <1>i, <1>c, <1>r, <2>2 DEF ReadWhole, ChildExits, RunTypeOK, Child
    <2>3. QED
      BY <2>1, <2>2 DEF ChildStep
  <1>3. QED
    BY <1>1, <1>2

LEMMA InitReadWhole == Init => OutputInv
  <1>1. NoChild.leftOut = 0 /\ NoChild.leftErr = 0
    BY DEF NoChild
  <1>2. QED
    BY <1>1 DEF Init, RunInit, OutputInv, ReadWhole

LEMMA NextReadWhole == TypeOK /\ OutputInv /\ [Next]_vars => OutputInv'
  <1> SUFFICES ASSUME TypeOK, OutputInv, [Next]_vars PROVE OutputInv'
    OBVIOUS
  <1>t. RunTypeOK
    BY DEF TypeOK
  <1>u. UNCHANGED runVars => OutputInv'
    BY DEF runVars, OutputInv, ReadWhole
  <1>1. ASSUME NEW s \in Starters, MainStep(s) PROVE OutputInv'
    <2>1. CASE BeginTokenCheck(s)
      BY <1>t, <1>u, <2>1, OpenPipesReadWhole DEF BeginTokenCheck
    <2>2. CASE ~BeginTokenCheck(s)
      BY <1>1, <1>u, <2>2 DEF MainStep, EndTokenCheck, CheckTls, IsPortInUse, ProbeHealth,
                              TlsFails, Bind, Listen, ListenFails
    <2>3. QED
      BY <2>1, <2>2
  <1>2. ASSUME NEW s \in Starters, Die(s) PROVE OutputInv'
    BY <1>2, <1>t DEF Die, RunTypeOK, OutputInv, ReadWhole, NoChild
  <1>3. ASSUME NEW t \in Threads, AskPsa(t) PROVE OutputInv'
    BY <1>3, <1>t, OpenPipesReadWhole DEF AskPsa
  <1>4. ASSUME NEW t \in Threads, ThreadStep(t) PROVE OutputInv'
    BY <1>4, <1>t, RunStepReadWhole DEF ThreadStep
  <1>5. ASSUME NEW t \in Threads, ProgramStep(t) PROVE OutputInv'
    BY <1>5, <1>t, ChildStepReadWhole DEF ProgramStep
  <1>6. CASE ForeignEnds
    BY <1>6, <1>u DEF ForeignEnds
  <1>7. CASE UNCHANGED vars
    BY <1>7, <1>u DEF vars
  <1>8. QED
    BY <1>1, <1>2, <1>3, <1>4, <1>5, <1>6, <1>7 DEF Next

\* Run returns the whole output of its child, whichever other children have
\* inherited its pipes, for any number of threads and any size of the pipes.
THEOREM OutputIsReadWhole == Spec => []OutputIsWhole
  <1>1. TypeOK /\ OutputInv => OutputIsWhole
    BY DEF OutputInv, OutputIsWhole, ReadWhole
  <1>2. Spec => [](TypeOK /\ OutputInv)
    BY InitType, NextType, InitReadWhole, NextReadWhole, PTL DEF Spec
  <1>3. QED
    BY <1>1, <1>2, PTL

-----------------------------------------------------------------------------
(* Starts on one port                                                      *)

\* Who has served and who has met somebody who accepts connections.
Served == {"serving", "killed"}

\* Whoever gives way, and without another program on the port whoever has found
\* it taken, was preceded by a start that got as far as serving.
YieldInv ==
    \A s \in Starters :
        \/ stage[s] = "reused"
        \/ foreign = "never" /\ stage[s] \in {"https", "occupied"}
        => \E p \in Starters : stage[p] \in Served

LEMMA InitYield == Init => YieldInv
  BY DEF Init, YieldInv

\* A start that serves does so until it is killed.
LEMMA ServedStays ==
    ASSUME TypeOK, [Next]_vars, NEW p \in Starters, stage[p] \in Served
    PROVE  stage'[p] \in Served
  <1> USE DEF TypeOK, Served
  <1>1. ASSUME NEW s \in Starters, MainStep(s) PROVE stage'[p] \in Served
    BY <1>1 DEF MainStep, BeginTokenCheck, EndTokenCheck, CheckTls, IsPortInUse, ProbeHealth,
                TlsFails, Bind, Listen, ListenFails, Stage, Move
  <1>2. ASSUME NEW s \in Starters, Die(s) PROVE stage'[p] \in Served
    BY <1>2 DEF Die, Move
  <1>3. CASE UNCHANGED stage
    BY <1>3
  <1>4. QED
    BY <1>1, <1>2, <1>3 DEF Next, AskPsa, ThreadStep, ProgramStep, ForeignEnds, serverVars, vars

LEMMA NextYield == TypeOK /\ YieldInv /\ [Next]_vars => YieldInv'
  <1> SUFFICES ASSUME TypeOK, YieldInv, [Next]_vars, NEW s \in Starters,
                      \/ stage'[s] = "reused"
                      \/ foreign' = "never" /\ stage'[s] \in {"https", "occupied"}
               PROVE  \E p \in Starters : stage'[p] \in Served
    BY DEF YieldInv
  <1>f. foreign' = "never" => foreign = "never"
    BY DEF Next, MainStep, BeginTokenCheck, EndTokenCheck, CheckTls, IsPortInUse, ProbeHealth,
           TlsFails, Bind, Listen, ListenFails, Die, AskPsa, ThreadStep, ProgramStep,
           ForeignEnds, serverVars, vars
  <1>1. \E p \in Starters : stage[p] \in Served
    <2>1. CASE stage'[s] = stage[s]
      BY <1>f, <2>1 DEF YieldInv
    <2>2. CASE stage'[s] # stage[s]
      <3>1. MainStep(s)
        BY <2>2 DEF TypeOK, Next, MainStep, BeginTokenCheck, EndTokenCheck, CheckTls,
               IsPortInUse, ProbeHealth, TlsFails, Bind, Listen, ListenFails, Die, AskPsa,
               ThreadStep, ProgramStep, ForeignEnds, serverVars, vars, Stage, Move
      <3>2. IsPortInUse(s) \/ ProbeHealth(s)
        BY <3>1 DEF TypeOK, MainStep, BeginTokenCheck, EndTokenCheck, CheckTls,
               TlsFails, Bind, Listen, ListenFails, Move
      <3>3. CASE IsPortInUse(s)
        <4>1. foreign = "never" /\ Serving # {}
          BY <1>f, <3>3 DEF TypeOK, IsPortInUse, Move
        <4>2. QED
          BY <4>1 DEF Serving, Served
      <3>4. CASE ProbeHealth(s)
        <4>1. Serving # {} \/ (foreign = "never" /\ stage[s] = "https")
          BY <1>f, <3>4 DEF TypeOK, ProbeHealth, Stage, Move
        <4>2. QED
          BY <4>1 DEF Serving, Served, YieldInv
      <3>5. QED
        BY <3>2, <3>3, <3>4
    <2>3. QED
      BY <2>1, <2>2
  <1>2. QED
    BY <1>1, ServedStays

\* A start that says that a server is already running, and one that finds the
\* port occupied where there is no other program, have met a server that served,
\* however many are started on the port at once and wherever listening fails.
THEOREM YieldsToSomebody == Spec => []NobodyYieldsToNobody
  <1>1. TypeOK /\ YieldInv => NobodyYieldsToNobody
    BY DEF YieldInv, NobodyYieldsToNobody, Served
  <1>2. Spec => [](TypeOK /\ YieldInv)
    BY InitType, NextType, InitYield, NextYield, PTL DEF Spec
  <1>3. QED
    BY <1>1, <1>2, PTL
=============================================================================
