--------------------------- MODULE ReadPoolProofs ---------------------------
(***************************************************************************)
(* Safety of the read pool for every set of workers, either refresh policy,*)
(* every channel capacity and any number of commits and attach failures.   *)
(***************************************************************************)
EXTENDS ReadPool, TLAPS

\* What was acknowledged or announced was committed.
Ordered == acked <= committed /\ published <= committed

\* No worker is ahead of the catalog or of the generation counter.
NotAhead == \A w \in Workers : view[w] <= committed /\ lastGen[w] <= writeGen

\* No query expects more than what has been acknowledged, nor was taken up
\* after more than what has been announced.
Floors ==
    \A w \in Workers :
        /\ cur[w] <= acked
        /\ heard[w] <= published
        /\ \A i \in 1..Len(queue[w]) : queue[w][i].floor <= acked

\* The dirty signal survives a failed refresh: a detached worker, and one
\* that decided to refresh, still have a reason to.
Dirty(w) == ~OnWrite \/ lastGen[w] < writeGen \/ due[w]
DirtyUntilLoaded ==
    \A w \in Workers :
        ~attached[w] \/ pc[w] \in {"detach", "attach"} => Dirty(w)

\* Between ATTACH and the load of write_gen the worker is as new as its query
\* needs, and as new as the last announced version unless a bump raced it.
JustAttached ==
    \A w \in Workers :
        pc[w] = "load" => /\ view[w] >= cur[w]
                          /\ view[w] >= published \/ raced[w]

\* A worker that holds the current generation holds the version announced
\* with it, unless a bump raced its attach.
CurrentGenCurrentView ==
    \A w \in Workers :
        OnWrite /\ pc[w] # "load" /\ lastGen[w] = writeGen
            => view[w] >= published \/ raced[w]

IInv ==
    /\ TypeOK
    /\ Ordered
    /\ NotAhead
    /\ Floors
    /\ DirtyUntilLoaded
    /\ JustAttached
    /\ CurrentGenCurrentView
    /\ RunsAttached
    /\ NoStaleRead
-----------------------------------------------------------------------------
\* A command put at the end of a channel, or taken from its head, leaves the
\* other commands as they are.
LEMMA ChannelSend ==
    ASSUME NEW s \in Seq(Command), NEW c \in Command
    PROVE  /\ Append(s, c) \in Seq(Command)
           /\ \A i \in 1..Len(Append(s, c)) :
                  \/ i \in 1..Len(s) /\ Append(s, c)[i] = s[i]
                  \/ Append(s, c)[i] = c
  OBVIOUS

\* See ChannelSend.
LEMMA ChannelReceive ==
    ASSUME NEW s \in Seq(Command), s # <<>>
    PROVE  /\ Head(s) \in Command /\ Head(s) = s[1] /\ 1 \in 1..Len(s)
           /\ Tail(s) \in Seq(Command)
           /\ \A i \in 1..Len(Tail(s)) : i + 1 \in 1..Len(s) /\ Tail(s)[i] = s[i + 1]
  OBVIOUS

\* The inductive invariant holds when the pool starts.
LEMMA InitIInv == Init => IInv
  <1> SUFFICES ASSUME Init PROVE IInv
    OBVIOUS
  <1>1. TypeOK
    BY DEF Init, TypeOK, WriterPc, WorkerPc
  <1>2. Ordered /\ NotAhead /\ Floors
    BY DEF Init, Ordered, NotAhead, Floors
  <1>3. DirtyUntilLoaded /\ JustAttached /\ CurrentGenCurrentView
    BY DEF Init, DirtyUntilLoaded, JustAttached, CurrentGenCurrentView
  <1>4. RunsAttached /\ NoStaleRead
    BY DEF Init, RunsAttached, NoStaleRead
  <1> QED
    BY <1>1, <1>2, <1>3, <1>4 DEF IInv

\* The steps of the writer preserve the invariant.
LEMMA WriterIInv == IInv /\ Writer => IInv'
  <1> SUFFICES ASSUME IInv, Writer PROVE IInv'
    OBVIOUS
  <1> USE DEF IInv, workerVars, history
  <1>1. ASSUME NEW n \in WriterPc, CommitTo(n) PROVE IInv'
    BY <1>1 DEF CommitTo, TypeOK, Ordered, NotAhead, Floors, DirtyUntilLoaded, Dirty,
                JustAttached, CurrentGenCurrentView, RunsAttached, NoStaleRead
  <1>2. ASSUME ChunkFails PROVE IInv'
    BY <1>2 DEF ChunkFails, TypeOK, WriterPc, Ordered, NotAhead, Floors,
                DirtyUntilLoaded, Dirty, JustAttached, CurrentGenCurrentView, RunsAttached,
                NoStaleRead
  <1>3. ASSUME bump_write PROVE IInv'
    <2>1. TypeOK' /\ Ordered'
      BY <1>3 DEF bump_write, TypeOK, WriterPc, Ordered
    <2>2. NotAhead' /\ RunsAttached'
      BY <1>3 DEF bump_write, TypeOK, NotAhead, RunsAttached
    <2>7. Floors'
      <3>1. /\ published' >= published /\ UNCHANGED <<acked, cur, queue, heard>>
            /\ published' \in Nat /\ published \in Nat
        BY <1>3 DEF bump_write, TypeOK, Ordered
      <3>2. \A w \in Workers : heard[w] \in Nat
        BY DEF TypeOK
      <3> QED
        BY <3>1, <3>2 DEF Floors
    <2>3. DirtyUntilLoaded'
      BY <1>3 DEF bump_write, TypeOK, NotAhead, DirtyUntilLoaded, Dirty
    <2>6. JustAttached'
      <3> SUFFICES ASSUME NEW w \in Workers, pc[w] = "load"
                   PROVE  view[w] >= cur[w] /\ raced'[w]
        BY <1>3 DEF bump_write, JustAttached
      <3> QED
        BY <1>3 DEF bump_write, JustAttached
    <2>4. CurrentGenCurrentView'
      BY <1>3 DEF bump_write, TypeOK, NotAhead, CurrentGenCurrentView
    <2>5. NoStaleRead'
      BY <1>3 DEF bump_write, TypeOK, NoStaleRead
    <2> QED
      BY <2>1, <2>2, <2>3, <2>4, <2>5, <2>6, <2>7
  <1>4. ASSUME Ack \/ AckDdl PROVE IInv'
    <2>1. TypeOK' /\ Ordered' /\ NotAhead'
      BY <1>4 DEF Ack, AckDdl, TypeOK, WriterPc, Ordered, NotAhead
    <2>2. Floors'
      <3>1. acked' >= acked
        BY <1>4 DEF Ack, AckDdl, TypeOK, Ordered
      <3>2. UNCHANGED <<cur, queue, heard, published>>
        BY <1>4 DEF Ack, AckDdl
      <3>3. \A w \in Workers : \A i \in 1..Len(queue[w]) : queue[w][i].floor \in Nat
        <4> SUFFICES ASSUME NEW w \in Workers, NEW i \in 1..Len(queue[w])
                     PROVE  queue[w][i].floor \in Nat
          OBVIOUS
        <4>1. queue[w] \in Seq(Command)
          BY DEF TypeOK
        <4>2. queue[w][i] \in Command
          BY <4>1
        <4> QED
          BY <4>2 DEF Command
      <3>4. acked \in Nat /\ acked' \in Nat /\ \A w \in Workers : cur[w] \in Nat
        BY <1>4 DEF Ack, AckDdl, TypeOK
      <3>5. ASSUME NEW w \in Workers PROVE cur[w] <= acked'
        BY <3>1, <3>4 DEF Floors
      <3>6. ASSUME NEW w \in Workers, NEW i \in 1..Len(queue[w])
            PROVE  queue[w][i].floor <= acked'
        BY <3>1, <3>3, <3>4 DEF Floors
      <3> QED
        BY <3>2, <3>5, <3>6 DEF Floors
    <2>3. DirtyUntilLoaded' /\ JustAttached' /\ CurrentGenCurrentView'
      BY <1>4 DEF Ack, AckDdl, DirtyUntilLoaded, Dirty, JustAttached, CurrentGenCurrentView
    <2>4. RunsAttached' /\ NoStaleRead'
      BY <1>4 DEF Ack, AckDdl, RunsAttached, NoStaleRead
    <2> QED
      BY <2>1, <2>2, <2>3, <2>4
  <1> QED
    BY <1>1, <1>2, <1>3, <1>4 DEF Writer, CommitTxn, CommitChunk, CommitDdl, WriterPc

\* The callers' sends preserve the invariant.
LEMMA SendIInv ==
    ASSUME IInv, NEW w \in Workers, NEW c \in Command, c.floor <= acked, Send(w, c)
    PROVE  IInv'
  <1> USE DEF IInv, catalogVars, history
  <1>1. queue[w] \in Seq(Command)
    BY DEF TypeOK
  <1>2. TypeOK'
    BY <1>1, ChannelSend DEF Send, TypeOK
  <1>3. Floors'
    BY <1>1, ChannelSend DEF Send, TypeOK, Floors
  <1>4. Ordered' /\ NotAhead' /\ DirtyUntilLoaded' /\ JustAttached'
    BY DEF Send, Ordered, NotAhead, DirtyUntilLoaded, Dirty, JustAttached
  <1>5. CurrentGenCurrentView' /\ RunsAttached' /\ NoStaleRead'
    BY DEF Send, CurrentGenCurrentView, RunsAttached, NoStaleRead
  <1> QED
    BY <1>2, <1>3, <1>4, <1>5

\* A worker taking a command from its channel preserves the invariant.
LEMMA ReceiveIInv ==
    ASSUME IInv, NEW w \in Workers, Receive(w) \/ Stop(w)
    PROVE  IInv'
  <1> USE DEF IInv, catalogVars, history
  <1>1. queue[w] \in Seq(Command) /\ queue[w] # <<>>
    BY DEF TypeOK, Receive, Stop
  <1>2. Head(queue[w]).floor \in Nat /\ Head(queue[w]).floor <= acked
    BY <1>1, ChannelReceive DEF Floors, Command
  <1> DEFINE rest == IF Stop(w) THEN <<>> ELSE Tail(queue[w])
  <1>8. /\ rest \in Seq(Command)
        /\ \A i \in 1..Len(rest) : rest[i].floor <= acked
    BY <1>1, ChannelReceive DEF Floors
  <1>9. queue' = [queue EXCEPT ![w] = rest]
    BY <1>1 DEF Receive, Stop, TypeOK
  <1> HIDE DEF rest
  <1>3. TypeOK'
    <2>1. pc' \in [Workers -> WorkerPc] /\ cur' \in [Workers -> Nat]
      BY <1>2 DEF Receive, Stop, TypeOK, WorkerPc
    <2>2. heard' \in [Workers -> Nat]
      BY DEF Receive, Stop, TypeOK
    <2>3. queue' \in [Workers -> Seq(Command)]
      BY <1>8, <1>9 DEF TypeOK
    <2> QED
      BY <2>1, <2>2, <2>3 DEF Receive, Stop, TypeOK
  <1>4. Floors'
    <2> SUFFICES ASSUME NEW v \in Workers
                 PROVE  /\ cur'[v] <= acked
                        /\ heard'[v] <= published
                        /\ \A i \in 1..Len(queue'[v]) : queue'[v][i].floor <= acked
      BY DEF Receive, Stop, Floors
    <2>1. cur'[v] <= acked
      BY <1>2 DEF Receive, Stop, TypeOK, Floors
    <2>2. queue'[v] = IF v = w THEN rest ELSE queue[v]
      BY <1>9 DEF TypeOK
    <2>3. heard'[v] <= published
      <3>1. heard'[v] = heard[v] \/ heard'[v] = published
        BY DEF Receive, Stop, TypeOK
      <3>2. published \in Nat /\ heard[v] <= published
        BY DEF TypeOK, Floors
      <3> QED
        BY <3>1, <3>2
    <2> QED
      BY <2>1, <2>2, <2>3, <1>8 DEF Floors
  <1>5. Ordered' /\ NotAhead' /\ JustAttached' /\ CurrentGenCurrentView'
    <2>1. UNCHANGED <<committed, writeGen, published, acked, view, lastGen, raced>>
      BY DEF Receive, Stop
    <2>2. \A v \in Workers : v # w => pc'[v] = pc[v] /\ cur'[v] = cur[v]
      BY DEF Receive, Stop, TypeOK
    <2>3. pc[w] = "idle" /\ pc'[w] # "load"
      BY DEF Receive, Stop, TypeOK
    <2>4. Ordered' /\ NotAhead'
      BY <2>1 DEF Ordered, NotAhead
    <2>5. JustAttached'
      BY <2>1, <2>2, <2>3 DEF JustAttached
    <2>6. CurrentGenCurrentView'
      BY <2>1, <2>2, <2>3 DEF CurrentGenCurrentView
    <2> QED
      BY <2>4, <2>5, <2>6
  <1>6. DirtyUntilLoaded' /\ RunsAttached'
    <2>1. CASE Receive(w)
      <3>1. NeedsRefresh(w) => Dirty(w)
        BY DEF NeedsRefresh, Dirty, TypeOK, NotAhead
      <3>2. ~NeedsRefresh(w) => attached[w]
        BY DEF NeedsRefresh, DirtyUntilLoaded, Dirty, TypeOK
      <3>3. Dirty(w)' = Dirty(w) /\ \A v \in Workers : Dirty(v)' = Dirty(v)
        BY <2>1 DEF Receive, Dirty
      <3>4. \A v \in Workers : v # w => pc'[v] = pc[v]
        BY <2>1 DEF Receive, TypeOK
      <3>5. pc'[w] = IF NeedsRefresh(w) THEN "detach" ELSE "run"
        BY <2>1 DEF Receive, TypeOK
      <3>6. UNCHANGED attached
        BY <2>1 DEF Receive
      <3> QED
        BY <3>1, <3>2, <3>3, <3>4, <3>5, <3>6 DEF DirtyUntilLoaded, RunsAttached
    <2>2. CASE Stop(w)
      BY <2>2 DEF Stop, TypeOK, DirtyUntilLoaded, Dirty, RunsAttached
    <2> QED
      BY <2>1, <2>2
  <1>7. NoStaleRead'
    <2> SUFFICES ASSUME NEW v \in Workers, pc'[v] = "run", ~(OnWrite /\ raced[v])
                 PROVE  view[v] >= cur'[v] \/ (OnWrite /\ view[v] >= heard'[v])
      BY DEF Receive, Stop, NoStaleRead
    <2>1. CASE v # w \/ Stop(w)
      <3>1. pc[v] = "run" /\ cur'[v] = cur[v] /\ heard'[v] = heard[v]
        BY <2>1 DEF Receive, Stop, TypeOK
      <3> QED
        BY <3>1 DEF NoStaleRead
    <2>2. CASE v = w /\ Receive(w)
      <3>1. heard'[v] = published /\ ~NeedsRefresh(w) /\ pc[w] = "idle"
        BY <2>2 DEF Receive, TypeOK
      <3>2. OnWrite /\ view[w] >= published
        BY <2>2, <3>1 DEF NeedsRefresh, CurrentGenCurrentView
      <3> QED
        BY <2>2, <3>1, <3>2
    <2> QED
      BY <2>1, <2>2
  <1> QED
    BY <1>3, <1>4, <1>5, <1>6, <1>7

\* The refresh and the run of the query preserve the invariant.
LEMMA RefreshIInv ==
    ASSUME IInv, NEW w \in Workers,
           Detach(w) \/ Attach(w) \/ AttachFails(w) \/ Load(w) \/ Run(w) \/ Tick(w)
    PROVE  IInv'
  <1> USE DEF IInv, catalogVars, history
  <1>1. CASE Detach(w)
    BY <1>1 DEF Detach, TypeOK, WorkerPc, Ordered, NotAhead, Floors, DirtyUntilLoaded, Dirty,
                JustAttached, CurrentGenCurrentView, RunsAttached, NoStaleRead
  <1>2. CASE Attach(w)
    BY <1>2 DEF Attach, TypeOK, WorkerPc, Ordered, NotAhead, Floors, DirtyUntilLoaded, Dirty,
                JustAttached, CurrentGenCurrentView, RunsAttached, NoStaleRead
  <1>3. CASE AttachFails(w)
    BY <1>3 DEF AttachFails, TypeOK, WorkerPc, Ordered, NotAhead, Floors, DirtyUntilLoaded,
                Dirty, JustAttached, CurrentGenCurrentView, RunsAttached, NoStaleRead
  <1>4. CASE Load(w)
    BY <1>4 DEF Load, TypeOK, WorkerPc, Ordered, NotAhead, Floors, DirtyUntilLoaded, Dirty,
                JustAttached, CurrentGenCurrentView, RunsAttached, NoStaleRead
  <1>5. CASE Run(w)
    BY <1>5 DEF Run, TypeOK, WorkerPc, Ordered, NotAhead, Floors, DirtyUntilLoaded, Dirty,
                JustAttached, CurrentGenCurrentView, RunsAttached, NoStaleRead
  <1>6. CASE Tick(w)
    BY <1>6 DEF Tick, TypeOK, Ordered, NotAhead, Floors, DirtyUntilLoaded, Dirty,
                JustAttached, CurrentGenCurrentView, RunsAttached, NoStaleRead
  <1> QED
    BY <1>1, <1>2, <1>3, <1>4, <1>5, <1>6

\* IInv is an invariant of the read pool.
LEMMA Inductive == Spec => []IInv
  <1>1. IInv /\ [Next]_vars => IInv'
    <2> SUFFICES ASSUME IInv, [Next]_vars PROVE IInv'
      OBVIOUS
    <2>1. CASE Writer
      BY <2>1, WriterIInv
    <2>2. ASSUME NEW w \in Workers, query_with_params(w) PROVE IInv'
      <3>1. [op |-> "query", floor |-> acked] \in Command
        BY DEF IInv, TypeOK, Command
      <3>2. [op |-> "query", floor |-> acked].floor <= acked
        BY DEF IInv, TypeOK
      <3> QED
        BY <2>2, <3>1, <3>2, SendIInv DEF query_with_params
    <2>3. ASSUME NEW w \in Workers, shutdown(w) PROVE IInv'
      <3>1. [op |-> "shutdown", floor |-> 0] \in Command
        BY DEF Command
      <3>2. [op |-> "shutdown", floor |-> 0].floor <= acked
        BY DEF IInv, TypeOK
      <3> QED
        BY <2>3, <3>1, <3>2, SendIInv DEF shutdown
    <2>4. ASSUME NEW w \in Workers, worker_loop(w) \/ Tick(w) PROVE IInv'
      BY <2>4, ReceiveIInv, RefreshIInv DEF worker_loop
    <2>5. CASE UNCHANGED vars
      BY <2>5 DEF vars, catalogVars, workerVars, history, IInv, TypeOK, Ordered, NotAhead, Floors,
                  DirtyUntilLoaded, Dirty, JustAttached, CurrentGenCurrentView, RunsAttached,
                  NoStaleRead
    <2> QED
      BY <2>1, <2>2, <2>3, <2>4, <2>5 DEF Next
  <1> QED
    BY <1>1, InitIInv, PTL DEF Spec

-----------------------------------------------------------------------------
\* The variables keep their types.
THEOREM TypeCorrect == Spec => []TypeOK
  BY Inductive, PTL DEF IInv

\* A pooled worker serves every write answered Ok before the query was sent,
\* unless a bump raced the attach it is pinned to, or the write was answered
\* without a bump and the worker serves all that was announced; a worker that
\* always refreshes serves it.
THEOREM StaleReadsOnlyAfterRace == Spec => []NoStaleRead
  BY Inductive, PTL DEF IInv

\* No query runs on a connection whose re-attach failed.
THEOREM NeverRunsDetached == Spec => []RunsAttached
  BY Inductive, PTL DEF IInv

\* The snapshot a worker serves from only gets newer.
THEOREM WorkerViewsAdvance == Spec => ViewsAdvance
  <1>1. IInv /\ [Next]_vars => [\A w \in Workers : view'[w] >= view[w]]_vars
    <2> SUFFICES ASSUME IInv, Next PROVE \A w \in Workers : view'[w] >= view[w]
      OBVIOUS
    <2>1. ASSUME UNCHANGED view PROVE \A w \in Workers : view'[w] >= view[w]
      BY <2>1 DEF IInv, TypeOK
    <2>2. ASSUME NEW v \in Workers, Attach(v) PROVE \A w \in Workers : view'[w] >= view[w]
      BY <2>2 DEF Attach, IInv, TypeOK, NotAhead
    <2> QED
      BY <2>1, <2>2 DEF Next, Writer, CommitTxn, CommitChunk, CommitDdl, CommitTo, ChunkFails,
           AckDdl, bump_write, Ack, query_with_params, shutdown, Send, worker_loop, Receive,
           Detach, AttachFails, Load, Run, Stop, Tick, workerVars
  <1> QED
    BY <1>1, Inductive, PTL DEF Spec, ViewsAdvance
=============================================================================
