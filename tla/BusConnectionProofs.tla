------------------------- MODULE BusConnectionProofs -------------------------
(***************************************************************************)
(* Proofs about BusConnection, for any number of connections, calls, event   *)
(* types, attempts and faults.                                               *)
(***************************************************************************)
EXTENDS BusConnection, TLAPS

-----------------------------------------------------------------------------
(* Types.                                                                    *)

LEMMA IdleTyped == Idle \in Task
<1>1. (CHOOSE x \in Types : TRUE) \in Types
  BY BusAssumption
<1>. QED BY <1>1, BusAssumption DEF Idle, Task, TaskPc, ConnectPc, SetupPc, ConnOrNone

(* A call of handleReconnect starts a timer or finds the attempts used up.   *)
LEMMA ReconnectStarts ==
  ASSUME reconnectAttempts \in 0 .. MaxReconnectAttempts, timers \in Nat,
         NEW n \in Nat, handleReconnect(n)
  PROVE  /\ reconnectAttempts' \in 0 .. MaxReconnectAttempts /\ timers' \in Nat
         /\ reconnectAttempts' >= reconnectAttempts /\ timers' >= timers
         /\ n > 0 => timers' > 0 \/ reconnectAttempts' = MaxReconnectAttempts
  BY BusAssumption DEF handleReconnect, Least

LEMMA ConnectFailsTyped ==
  ASSUME TypeOK, NEW t \in Tasks, ConnectFails(t)
  PROVE  /\ task' \in [Tasks -> Task]
         /\ reconnectAttempts' \in 0 .. MaxReconnectAttempts /\ timers' \in Nat
<1>1. Reconnects(t) \in Nat
  BY DEF Reconnects
<1>2. handleReconnect(Reconnects(t))
  BY DEF ConnectFails
<1>. QED BY <1>1, <1>2, ReconnectStarts, IdleTyped DEF TypeOK, ConnectFails, End

LEMMA StoreTyped ==
  ASSUME TypeOK, NEW x \in Types, Store(x)
  PROVE  keys' \in Seq(Types) /\ handlers' \in [Types -> 0 .. MaxHandlers]
<1>1. Least(handlers[x] + 1, MaxHandlers) \in 0 .. MaxHandlers
  BY BusAssumption DEF TypeOK, Least
<1>. QED BY <1>1 DEF TypeOK, Store

LEMMA CloseTyped ==
  ASSUME TypeOK, NEW c \in Conns, Close(c)
  PROVE  /\ isConnected' \in BOOLEAN
         /\ reconnectAttempts' \in 0 .. MaxReconnectAttempts /\ timers' \in Nat
         /\ alive' \subseteq Conns /\ open' \subseteq alive'
         /\ watched' \in [Conns -> Nat]
         /\ consumers' \subseteq open' \X Types
<1>1. watched[c] \in Nat
  BY DEF TypeOK
<1>2. reconnectAttempts' \in 0 .. MaxReconnectAttempts /\ timers' \in Nat
  BY <1>1, ReconnectStarts DEF TypeOK, Close
<1>3. watched' \in [Conns -> Nat]
  BY DEF TypeOK, Close
<1>4. consumers' \subseteq open' \X Types
  BY DEF TypeOK, Close
<1>5. isConnected' \in BOOLEAN
  BY DEF Close
<1>. QED BY <1>2, <1>3, <1>4, <1>5 DEF TypeOK, Close

LEMMA TypeConnect ==
  ASSUME TypeOK, NEW t \in Tasks,
         Connected(t) \/ ConnectionLimit(t) \/ ConnectRefused(t) \/ CreateChannel(t)
           \/ Setup(t) \/ Fire(t)
  PROVE  TypeOK'
<1>1. CASE Connected(t)
  <2>1. PICK c \in Conns :
          /\ connection' = c
          /\ alive' = alive \cup {c}
          /\ watched' = [watched EXCEPT ![c] = 0]
          /\ task' = [task EXCEPT ![t].pc = "createChannel", ![t].own = c]
    BY <1>1 DEF Connected
  <2>2. task' \in [Tasks -> Task]
    BY <2>1 DEF TypeOK, Task, TaskPc, ConnectPc, SetupPc, ConnOrNone
  <2>3. watched' \in [Conns -> Nat]
    BY <2>1 DEF TypeOK
  <2>. QED BY <1>1, <2>1, <2>2, <2>3
       DEF TypeOK, Connected, ConnOrNone, retryVars, handlerVars, historyVars
<1>2. CASE ConnectionLimit(t)
  BY <1>2, ConnectFailsTyped
  DEF TypeOK, ConnectionLimit, ConnectFails, fieldVars, handlerVars, brokerVars, historyVars
<1>3. CASE ConnectRefused(t)
  BY <1>3, ConnectFailsTyped
  DEF TypeOK, ConnectRefused, ConnectFails, fieldVars, handlerVars, brokerVars
<1>4. CASE CreateChannel(t)
  <2>1. CASE task[t].own \in alive /\ connection # NoConn
    <3>1. /\ channel' = task[t].own /\ open' = open \cup {task[t].own}
          /\ watched' = [watched EXCEPT ![connection] = @ + 1]
          /\ task' = [task EXCEPT ![t].pc = "assertEvents"]
          /\ UNCHANGED <<retryVars, connection, isConnected, handlerVars, alive, consumers, historyVars>>
      BY <1>4, <2>1 DEF CreateChannel
    <3>2. task' \in [Tasks -> Task]
      BY <3>1 DEF TypeOK, Task, TaskPc, ConnectPc, SetupPc, ConnOrNone
    <3>3. watched' \in [Conns -> Nat]
      BY <2>1, <3>1 DEF TypeOK, ConnOrNone
    <3>. QED BY <2>1, <3>1, <3>2, <3>3
         DEF TypeOK, ConnOrNone, retryVars, handlerVars, historyVars
  <2>2. CASE task[t].own \in alive /\ connection = NoConn
    <3>1. /\ channel' = task[t].own /\ open' = open \cup {task[t].own}
          /\ End(t) /\ handleReconnect(Reconnects(t))
          /\ UNCHANGED <<watched, connection, isConnected, handlerVars, alive, consumers, historyVars>>
      BY <1>4, <2>2 DEF CreateChannel
    <3>2. Reconnects(t) \in Nat
      BY DEF Reconnects
    <3>3. reconnectAttempts' \in 0 .. MaxReconnectAttempts /\ timers' \in Nat
      BY <3>1, <3>2, ReconnectStarts DEF TypeOK
    <3>4. task' \in [Tasks -> Task]
      BY <3>1, IdleTyped DEF TypeOK, End
    <3>. QED BY <2>2, <3>1, <3>3, <3>4 DEF TypeOK, ConnOrNone, handlerVars, historyVars
  <2>3. CASE task[t].own \notin alive
    <3>1. ConnectFails(t) /\ UNCHANGED <<alive, open, watched, consumers, historyVars>>
      BY <1>4, <2>3 DEF CreateChannel
    <3>. QED BY <3>1, ConnectFailsTyped
         DEF TypeOK, ConnectFails, fieldVars, handlerVars, historyVars
  <2>. QED BY <2>1, <2>2, <2>3
<1>5. CASE Setup(t)
  <2>0. UNCHANGED <<brokerVars, historyVars>>
    BY <1>5 DEF Setup
  <2>1. ASSUME NEW l, NEW next \in SetupPc, SetupPasses(t, l, next)
        PROVE  TypeOK'
    <3>1. [task[t] EXCEPT !.pc = next, !.own = channel] \in Task
      BY <2>1 DEF TypeOK, Task, TaskPc, ConnectPc
    <3>2. task' = [task EXCEPT ![t] = [task[t] EXCEPT !.pc = next, !.own = channel]]
      BY <2>1 DEF TypeOK, SetupPasses
    <3>3. task' \in [Tasks -> Task]
      BY <3>1, <3>2 DEF TypeOK
    <3>. QED BY <2>0, <2>1, <3>3
         DEF TypeOK, SetupPasses, fieldVars, retryVars, handlerVars, brokerVars, historyVars
  <2>2. CASE SetupEnds(t)
    <3>1. [Idle EXCEPT !.pc = "walk", !.byTimer = TRUE] \in Task
      BY IdleTyped DEF Task, TaskPc
    <3>2. /\ isConnected' = TRUE /\ reconnectAttempts' = 0
          /\ task' = [task EXCEPT ![t] = IF task[t].byTimer
                        THEN [Idle EXCEPT !.pc = "walk", !.byTimer = TRUE] ELSE Idle]
          /\ UNCHANGED <<connection, channel, timers, handlerVars>>
      BY <2>2 DEF SetupEnds
    <3>3. task' \in [Tasks -> Task]
      BY <3>1, <3>2, IdleTyped DEF TypeOK
    <3>. QED BY <2>0, <3>2, <3>3, BusAssumption DEF TypeOK, handlerVars, brokerVars, historyVars
  <2>3. CASE SetupFails(t)
    <3>1. ConnectFails(t)
      BY <2>3 DEF SetupFails
    <3>. QED BY <2>0, <3>1, ConnectFailsTyped
         DEF TypeOK, ConnectFails, fieldVars, handlerVars, brokerVars, historyVars
  <2>. QED BY <1>5, <2>1, <2>2, <2>3 DEF Setup, SetupPc
<1>6. CASE Fire(t)
  <2>1. task' \in [Tasks -> Task]
    BY <1>6 DEF TypeOK, Fire, Task, TaskPc, ConnectPc, SetupPc
  <2>2. timers' \in Nat /\ overlapped' \in BOOLEAN
    BY <1>6 DEF TypeOK, Fire
  <2>. QED BY <1>6, <2>1, <2>2 DEF TypeOK, Fire, fieldVars, handlerVars, brokerVars
<1>. QED BY <1>1, <1>2, <1>3, <1>4, <1>5, <1>6

LEMMA SubscribeFailsTyped ==
  ASSUME TypeOK, NEW t \in Tasks, SubscribeFails(t)
  PROVE  /\ task' \in [Tasks -> Task]
         /\ reconnectAttempts' \in 0 .. MaxReconnectAttempts /\ timers' \in Nat
<1> DEFINE n == IF task[t].byTimer THEN 1 ELSE 0
<1>1. n \in Nat /\ handleReconnect(n)
  BY DEF SubscribeFails
<1>2. task' \in [Tasks -> Task]
  BY IdleTyped DEF TypeOK, SubscribeFails, End
<1>. HIDE DEF n
<1>. QED BY <1>1, <1>2, ReconnectStarts DEF TypeOK

LEMMA TypeSubscribe ==
  ASSUME TypeOK, NEW t \in Tasks,
         Subscribed(t) \/ Walk(t) \/ \E x \in Types : Subscribe(t, x)
  PROVE  TypeOK'
<1>1. ASSUME NEW x \in Types, Subscribe(t, x) PROVE TypeOK'
  <2>a. [task[t] EXCEPT !.pc = "subscribe", !.type = x] \in Task
    BY DEF TypeOK, Task, TaskPc, ConnectPc, SetupPc
  <2>b. task' = [task EXCEPT ![t] = [task[t] EXCEPT !.pc = "subscribe", !.type = x]]
    BY <1>1 DEF TypeOK, Subscribe
  <2>1. task' \in [Tasks -> Task]
    BY <2>a, <2>b DEF TypeOK
  <2>2. keys' \in Seq(Types) /\ handlers' \in [Types -> 0 .. MaxHandlers]
    BY <1>1, StoreTyped DEF Subscribe
  <2>c. subscriptions' = subscriptions + 1
    BY <1>1 DEF Subscribe
  <2>3. subscriptions' \in Nat
    BY <2>c DEF TypeOK
  <2>4. UNCHANGED <<fieldVars, retryVars, brokerVars, overlapped, disconnected, broken, faults>>
    BY <1>1 DEF Subscribe
  <2>. QED BY <2>1, <2>2, <2>3, <2>4 DEF TypeOK, fieldVars, retryVars, brokerVars
<1>2. CASE Subscribed(t)
  <2>1. CASE channel \in open
    <3>1. /\ consumers' = consumers \cup {<<channel, task[t].type>>}
          /\ IF task[t].byTimer THEN Become(t, "walk") ELSE End(t)
          /\ UNCHANGED <<retryVars, fieldVars, handlerVars, alive, open, watched, historyVars>>
      BY <1>2, <2>1 DEF Subscribed
    <3>a. [task[t] EXCEPT !.pc = "walk"] \in Task
      BY DEF TypeOK, Task, TaskPc, ConnectPc, SetupPc
    <3>b. task' = [task EXCEPT ![t] = [task[t] EXCEPT !.pc = "walk"]] \/ End(t)
      BY <3>1 DEF TypeOK, Become
    <3>2. task' \in [Tasks -> Task]
      BY <3>a, <3>b, IdleTyped DEF TypeOK, End
    <3>3. task[t].type \in Types
      BY DEF TypeOK, Task
    <3>. QED BY <2>1, <3>1, <3>2, <3>3 DEF TypeOK, retryVars, fieldVars, handlerVars, historyVars
  <2>2. CASE channel \notin open
    <3>1. SubscribeFails(t)
          /\ UNCHANGED <<consumers, fieldVars, handlerVars, alive, open, watched, historyVars>>
      BY <1>2, <2>2 DEF Subscribed
    <3>. QED BY <3>1, SubscribeFailsTyped DEF TypeOK, fieldVars, handlerVars, historyVars
  <2>. QED BY <2>1, <2>2
<1>3. CASE Walk(t)
  <2> DEFINE k == task[t].key
  <2>1. k \in Nat \ {0} /\ task[t].done \in 0 .. MaxHandlers
    BY DEF TypeOK, Task
  <2>2. UNCHANGED <<fieldVars, brokerVars, historyVars>>
    BY <1>3 DEF Walk
  <2>3. CASE End(t) /\ UNCHANGED <<retryVars, handlerVars>>
    BY <2>2, <2>3, IdleTyped
    DEF TypeOK, End, fieldVars, retryVars, handlerVars, brokerVars, historyVars
  <2>4. CASE /\ task' = [task EXCEPT ![t].key = k + 1, ![t].done = 0]
             /\ UNCHANGED <<retryVars, handlerVars>>
    <3>a. [task[t] EXCEPT !.key = k + 1, !.done = 0] \in Task
      <4>1. task[t] \in Task /\ k + 1 \in Nat \ {0} /\ 0 \in 0 .. MaxHandlers
        BY <2>1, BusAssumption DEF TypeOK
      <4>. HIDE DEF k
      <4>. QED BY <4>1 DEF Task
    <3>b. task' = [task EXCEPT ![t] = [task[t] EXCEPT !.key = k + 1, !.done = 0]]
      BY <2>4 DEF TypeOK
    <3>1. task' \in [Tasks -> Task]
      BY <3>a, <3>b DEF TypeOK
    <3>. QED BY <2>2, <2>4, <3>1
         DEF TypeOK, fieldVars, retryVars, handlerVars, brokerVars, historyVars
  <2>5. CASE /\ k <= Len(keys) /\ Store(keys[k])
             /\ task' = [task EXCEPT ![t].pc = "subscribe", ![t].type = keys[k],
                           ![t].done = Least(@ + 1, MaxHandlers - 1)]
             /\ UNCHANGED retryVars
    <3>1. keys[k] \in Types
      BY <2>1, <2>5 DEF TypeOK
    <3>2. Least(task[t].done + 1, MaxHandlers - 1) \in 0 .. MaxHandlers
      BY <2>1, BusAssumption DEF Least
    <3> DEFINE r == [task[t] EXCEPT !.pc = "subscribe", !.type = keys[k],
                                    !.done = Least(@ + 1, MaxHandlers - 1)]
    <3>a. r \in Task
      BY <3>1, <3>2 DEF TypeOK, Task, TaskPc, ConnectPc, SetupPc
    <3>b. task' = [task EXCEPT ![t] = r]
      BY <2>5 DEF TypeOK
    <3>3. task' \in [Tasks -> Task]
      BY <3>a, <3>b DEF TypeOK
    <3>4. keys' \in Seq(Types) /\ handlers' \in [Types -> 0 .. MaxHandlers]
      BY <2>5, <3>1, StoreTyped
    <3>. QED BY <2>2, <2>5, <3>3, <3>4
         DEF TypeOK, fieldVars, retryVars, brokerVars, historyVars
  <2>6. CASE SubscribeFails(t) /\ UNCHANGED handlerVars
    BY <2>2, <2>6, SubscribeFailsTyped
    DEF TypeOK, fieldVars, handlerVars, brokerVars, historyVars
  <2>. QED BY <1>3, <2>3, <2>4, <2>5, <2>6 DEF Walk
<1>. QED BY <1>1, <1>2, <1>3

LEMMA TypeDisconnect ==
  ASSUME TypeOK, NEW t \in Tasks, Disconnect(t) \/ CloseChannel(t) \/ CloseConnection(t)
  PROVE  TypeOK'
<1>1. BeforeConnectionClose \in Task
  BY IdleTyped DEF BeforeConnectionClose, Task, TaskPc, ConnectPc, SetupPc, TypeOK, ConnOrNone
<1>2. CASE Disconnect(t)
  <2>1. channel \in open => [Idle EXCEPT !.pc = "closeChannel", !.own = channel] \in Task
    BY IdleTyped DEF TypeOK, Task, TaskPc, ConnectPc, SetupPc
  <2>2. task' \in [Tasks -> Task]
    BY <1>1, <1>2, <2>1, IdleTyped DEF TypeOK, Disconnect
  <2>. QED BY <1>2, <2>2 DEF TypeOK, Disconnect, retryVars, handlerVars, brokerVars
<1>3. CASE CloseChannel(t)
  <2>1. task' \in [Tasks -> Task]
    BY <1>1, <1>3, IdleTyped DEF TypeOK, CloseChannel, End
  <2>2. open' \subseteq alive' /\ consumers' \subseteq open' \X Types /\ channel' \in ConnOrNone
    BY <1>3 DEF TypeOK, CloseChannel, ConnOrNone
  <2>. QED BY <1>3, <2>1, <2>2
       DEF TypeOK, CloseChannel, retryVars, handlerVars, historyVars
<1>4. CASE CloseConnection(t)
  <2>1. task' \in [Tasks -> Task]
    BY <1>4, IdleTyped DEF TypeOK, CloseConnection, End
  <2>2. CASE task[t].own \in alive
    <3>1. task[t].own \in Conns /\ Close(task[t].own) /\ connection' = NoConn
      BY <1>4, <2>2 DEF TypeOK, CloseConnection
    <3>. QED BY <1>4, <2>1, <3>1, CloseTyped
         DEF TypeOK, CloseConnection, ConnOrNone, handlerVars, historyVars
  <2>3. CASE task[t].own \notin alive
    BY <1>4, <2>1, <2>3
    DEF TypeOK, CloseConnection, retryVars, handlerVars, brokerVars, historyVars
  <2>. QED BY <2>2, <2>3
<1>. QED BY <1>2, <1>3, <1>4

LEMMA TypeFaults ==
  ASSUME TypeOK, NEW c \in Conns, ConnectionLost(c) \/ ChannelError(c)
  PROVE  TypeOK'
<1>1. CASE ConnectionLost(c)
  BY <1>1, CloseTyped DEF TypeOK, ConnectionLost, handlerVars
<1>2. CASE ChannelError(c)
  <2>1. open' \subseteq alive' /\ consumers' \subseteq open' \X Types
    BY <1>2 DEF TypeOK, ChannelError
  <2>. QED BY <1>2, <2>1 DEF TypeOK, ChannelError, fieldVars, retryVars, handlerVars
<1>. QED BY <1>1, <1>2

LEMMA TypeInit == Init => TypeOK
<1> SUFFICES ASSUME Init PROVE TypeOK
  OBVIOUS
<1>1. PICK t \in Tasks : task = [[u \in Tasks |-> Idle] EXCEPT ![t].pc = "connect"]
  BY DEF Init
<1>a. [Idle EXCEPT !.pc = "connect"] \in Task
  BY IdleTyped DEF Task, TaskPc, ConnectPc, SetupPc
<1>b. task = [u \in Tasks |-> IF u = t THEN [Idle EXCEPT !.pc = "connect"] ELSE Idle]
  BY <1>1
<1>2. task \in [Tasks -> Task]
  BY <1>a, <1>b, IdleTyped
<1>3. keys \in Seq(Types) /\ handlers \in [Types -> 0 .. MaxHandlers] /\ watched \in [Conns -> Nat]
  BY BusAssumption DEF Init
<1>4. reconnectAttempts \in 0 .. MaxReconnectAttempts /\ timers \in Nat
      /\ subscriptions \in Nat /\ faults \in Nat
  BY BusAssumption DEF Init
<1>. QED BY <1>2, <1>3, <1>4 DEF Init, TypeOK, ConnOrNone

LEMMA TypeStep == TypeOK /\ [Next]_vars => TypeOK'
<1> SUFFICES ASSUME TypeOK, [Next]_vars PROVE TypeOK'
  OBVIOUS
<1>1. ASSUME NEW t \in Tasks, Step(t) PROVE TypeOK'
  BY <1>1, TypeConnect, TypeSubscribe, TypeDisconnect DEF Step
<1>2. CASE UNCHANGED vars
  BY <1>2 DEF vars, fieldVars, retryVars, handlerVars, brokerVars, historyVars, TypeOK
<1>. QED BY <1>1, <1>2, TypeConnect, TypeSubscribe, TypeDisconnect, TypeFaults DEF Next

(* The fields, the timers and the tasks keep their types, and a consumer is  *)
(* on an open channel of a connection that is up.                            *)
THEOREM TypeCorrect == Spec => []TypeOK
  BY TypeInit, TypeStep, PTL DEF Spec

-----------------------------------------------------------------------------
(* RepairUnderWay is inductive with the types.                               *)

(* A step that loses no connection, timer or connect keeps the repair going. *)
LEMMA RepairGoesOn ==
  ASSUME TypeOK, TypeOK', RepairUnderWay,
         disconnected => disconnected', isConnected => isConnected',
         timers' >= timers, reconnectAttempts' >= reconnectAttempts,
         Connecting \subseteq Connecting'
  PROVE  RepairUnderWay'
<1>1. timers > 0 => timers' > 0
  BY DEF TypeOK
<1>2. GaveUp => GaveUp'
  BY DEF TypeOK, GaveUp
<1>. QED BY <1>1, <1>2 DEF RepairUnderWay

LEMMA FailureRepairs ==
  ASSUME TypeOK, NEW t \in Tasks, ConnectFails(t) \/ handleReconnect(Reconnects(t))
  PROVE  RepairUnderWay'
<1>1. Reconnects(t) \in Nat /\ Reconnects(t) > 0
  BY DEF Reconnects
<1>2. handleReconnect(Reconnects(t))
  BY DEF ConnectFails
<1>. QED BY <1>1, <1>2, ReconnectStarts DEF TypeOK, RepairUnderWay, GaveUp

(* Only a task that is not connecting, or goes on connecting, changes.       *)
LEMMA ConnectingKept ==
  ASSUME TypeOK, NEW t \in Tasks, NEW r,
         task' = [task EXCEPT ![t] = r],
         t \in Connecting => r.pc \in ConnectPc
  PROVE  Connecting \subseteq Connecting'
  BY DEF TypeOK, Connecting, ConnectPc, SetupPc

LEMMA CloseRepairs ==
  ASSUME TypeOK, TypeOK', RepairUnderWay, NEW c \in Conns, Close(c),
         disconnected' = disconnected, Connecting \subseteq Connecting'
  PROVE  RepairUnderWay'
<1>1. watched[c] \in Nat
  BY DEF TypeOK
<1>2. handleReconnect(watched[c]) /\ isConnected' = (isConnected /\ watched[c] = 0)
  BY DEF Close
<1>3. /\ timers' >= timers /\ reconnectAttempts' >= reconnectAttempts
      /\ watched[c] > 0 => timers' > 0 \/ GaveUp'
  BY <1>1, <1>2, ReconnectStarts DEF TypeOK, GaveUp
<1>4. CASE watched[c] > 0
  BY <1>3, <1>4 DEF RepairUnderWay
<1>5. CASE watched[c] = 0
  BY <1>2, <1>3, <1>5, RepairGoesOn
<1>. QED BY <1>1, <1>4, <1>5

LEMMA RepairInit == Init => RepairUnderWay
<1> SUFFICES ASSUME Init PROVE RepairUnderWay
  OBVIOUS
<1>1. PICK t \in Tasks : task = [[u \in Tasks |-> Idle] EXCEPT ![t].pc = "connect"]
  BY DEF Init
<1>2. task[t].pc = "connect"
  BY <1>1 DEF Idle
<1>. QED BY <1>2 DEF Connecting, ConnectPc, RepairUnderWay, SetupPc

LEMMA RepairConnect ==
  ASSUME TypeOK, TypeOK', RepairUnderWay, NEW t \in Tasks,
         Connected(t) \/ ConnectionLimit(t) \/ ConnectRefused(t) \/ CreateChannel(t)
           \/ Setup(t) \/ Fire(t)
  PROVE  RepairUnderWay'
<1>1. CASE Connected(t)
  <2>1. PICK c \in Conns : task' = [task EXCEPT ![t].pc = "createChannel", ![t].own = c]
    BY <1>1 DEF Connected
  <2>2. task'[t].pc = "createChannel"
    BY <2>1 DEF TypeOK, Task
  <2>. QED BY <2>2 DEF Connecting, ConnectPc, RepairUnderWay, SetupPc
<1>2. CASE ConnectionLimit(t) \/ ConnectRefused(t)
  BY <1>2, FailureRepairs DEF ConnectionLimit, ConnectRefused
<1>3. CASE CreateChannel(t)
  <2>1. CASE task[t].own \in alive /\ connection # NoConn
    <3>1. task' = [task EXCEPT ![t].pc = "assertEvents"]
      BY <1>3, <2>1 DEF CreateChannel
    <3>2. task'[t].pc = "assertEvents"
      BY <3>1 DEF TypeOK, Task
    <3>. QED BY <3>2 DEF Connecting, ConnectPc, RepairUnderWay, SetupPc
  <2>2. CASE ~(task[t].own \in alive /\ connection # NoConn)
    <3>1. ConnectFails(t) \/ handleReconnect(Reconnects(t))
      BY <1>3, <2>2 DEF CreateChannel
    <3>. QED BY <3>1, FailureRepairs
  <2>. QED BY <2>1, <2>2
<1>4. CASE Setup(t)
  <2>1. ASSUME NEW l, NEW next \in SetupPc, SetupPasses(t, l, next)
        PROVE  RepairUnderWay'
    <3>1. task'[t].pc = next
      BY <2>1 DEF SetupPasses, TypeOK, Task
    <3>. QED BY <3>1 DEF Connecting, ConnectPc, RepairUnderWay, SetupPc
  <2>2. isConnected' = TRUE \/ ConnectFails(t)
           \/ \E l, next \in SetupPc : SetupPasses(t, l, next)
    BY <1>4 DEF Setup, SetupEnds, SetupFails, SetupPc
  <2>. QED BY <2>1, <2>2, FailureRepairs DEF RepairUnderWay
<1>5. CASE Fire(t)
  <2>1. task' = [task EXCEPT ![t].pc = "connect", ![t].byTimer = TRUE]
    BY <1>5 DEF Fire
  <2>2. task'[t].pc = "connect"
    BY <2>1 DEF TypeOK, Task
  <2>. QED BY <2>2 DEF Connecting, ConnectPc, RepairUnderWay, SetupPc
<1>. QED BY <1>1, <1>2, <1>3, <1>4, <1>5

LEMMA SubscribeFailsKeeps ==
  ASSUME TypeOK, NEW t \in Tasks, SubscribeFails(t), t \notin Connecting
  PROVE  /\ timers' >= timers /\ reconnectAttempts' >= reconnectAttempts
         /\ Connecting \subseteq Connecting'
<1> DEFINE n == IF task[t].byTimer THEN 1 ELSE 0
<1>1. n \in Nat /\ handleReconnect(n)
  BY DEF SubscribeFails
<1>2. Connecting \subseteq Connecting'
  BY ConnectingKept DEF SubscribeFails, End
<1>. HIDE DEF n
<1>. QED BY <1>1, <1>2, ReconnectStarts DEF TypeOK

(* Subscriptions, closing and channel errors leave timers and connects alone. *)
LEMMA RepairOthers ==
  ASSUME TypeOK, TypeOK', RepairUnderWay, NEW t \in Tasks,
         Subscribed(t) \/ Walk(t) \/ CloseChannel(t) \/ \E x \in Types : Subscribe(t, x)
  PROVE  RepairUnderWay'
<1>1. t \notin Connecting
  BY DEF Connecting, ConnectPc, At, Subscribed, Walk, CloseChannel, Subscribe, SetupPc
<1>2. disconnected' = disconnected /\ isConnected' = isConnected
  BY DEF Subscribed, Walk, CloseChannel, Subscribe, fieldVars, historyVars
<1>3. SubscribeFails(t) \/ (UNCHANGED retryVars /\ \E r : task' = [task EXCEPT ![t] = r])
  <2>1. CASE Subscribed(t)
    BY <2>1 DEF Subscribed, Become, End
  <2>2. CASE Walk(t)
    BY <2>2 DEF Walk, End
  <2>3. CASE CloseChannel(t)
    BY <2>3 DEF CloseChannel, End
  <2>4. CASE \E x \in Types : Subscribe(t, x)
    BY <2>4 DEF Subscribe
  <2>. QED BY <2>1, <2>2, <2>3, <2>4
<1>4. CASE SubscribeFails(t)
  BY <1>1, <1>2, <1>4, SubscribeFailsKeeps, RepairGoesOn
<1>5. CASE UNCHANGED retryVars /\ \E r : task' = [task EXCEPT ![t] = r]
  <2>1. timers' >= timers /\ reconnectAttempts' >= reconnectAttempts
    BY <1>5 DEF retryVars, TypeOK
  <2>2. Connecting \subseteq Connecting'
    BY <1>1, <1>5, ConnectingKept
  <2>. QED BY <1>2, <2>1, <2>2, RepairGoesOn
<1>. QED BY <1>3, <1>4, <1>5

LEMMA RepairClosing ==
  ASSUME TypeOK, TypeOK', RepairUnderWay, NEW t \in Tasks, CloseConnection(t)
  PROVE  RepairUnderWay'
<1>1. Connecting \subseteq Connecting'
  BY ConnectingKept DEF CloseConnection, End, At, Connecting, ConnectPc, SetupPc
<1>2. disconnected' = disconnected
  BY DEF CloseConnection, historyVars
<1>3. CASE task[t].own \in alive
  <2>1. task[t].own \in Conns /\ Close(task[t].own)
    BY <1>3 DEF CloseConnection, TypeOK
  <2>. QED BY <1>1, <1>2, <2>1, CloseRepairs
<1>4. CASE task[t].own \notin alive
  <2>1. UNCHANGED <<isConnected, retryVars>>
    BY <1>4 DEF CloseConnection
  <2>2. timers' >= timers /\ reconnectAttempts' >= reconnectAttempts
    BY <2>1 DEF retryVars, TypeOK
  <2>. QED BY <1>1, <1>2, <2>1, <2>2, RepairGoesOn
<1>. QED BY <1>3, <1>4

LEMMA RepairFaults ==
  ASSUME TypeOK, TypeOK', RepairUnderWay, NEW c \in Conns,
         ConnectionLost(c) \/ ChannelError(c)
  PROVE  RepairUnderWay'
<1>1. Connecting' = Connecting /\ disconnected' = disconnected
  BY DEF Connecting, ConnectPc, ConnectionLost, ChannelError, SetupPc
<1>2. CASE ConnectionLost(c)
  BY <1>1, <1>2, CloseRepairs DEF ConnectionLost
<1>3. CASE ChannelError(c)
  BY <1>1, <1>3, RepairGoesOn DEF ChannelError, fieldVars, retryVars, TypeOK
<1>. QED BY <1>2, <1>3

LEMMA RepairStep ==
  TypeOK /\ TypeOK' /\ RepairUnderWay /\ [Next]_vars => RepairUnderWay'
<1> SUFFICES ASSUME TypeOK, TypeOK', RepairUnderWay, [Next]_vars PROVE RepairUnderWay'
  OBVIOUS
<1>1. ASSUME NEW t \in Tasks, Step(t) PROVE RepairUnderWay'
  BY <1>1, RepairConnect, RepairOthers, RepairClosing DEF Step
<1>2. ASSUME NEW t \in Tasks, Disconnect(t) PROVE RepairUnderWay'
  BY <1>2 DEF Disconnect, RepairUnderWay
<1>3. CASE UNCHANGED vars
  BY <1>3 DEF vars, fieldVars, retryVars, historyVars, RepairUnderWay, Connecting,
              ConnectPc, SetupPc, GaveUp
<1>. QED BY <1>1, <1>2, <1>3, RepairConnect, RepairOthers, RepairFaults DEF Next

(* A bus that is not connected is being repaired until it has used up its    *)
(* attempts, however its calls, timers and losses interleave.                *)
THEOREM RepairUnderWayCorrect == Spec => []RepairUnderWay
  BY TypeInit, TypeStep, RepairInit, RepairStep, PTL DEF Spec

-----------------------------------------------------------------------------
(* LossWillBeNoticed.  Without overlap there is one connect at a time, and   *)
(* this.connection is its own until it has attached the close handler.       *)
Orderly == ~overlapped /\ ~disconnected

OneConnect == \A t, u \in Connecting : t = u

Watched(c) == c \in Conns /\ (c \in alive => watched[c] > 0)

ConnectsOrderly ==
  \A t \in Tasks :
    /\ task[t].pc \notin {"closeChannel", "closeConnection"}
    /\ At(t, "createChannel") => connection = task[t].own /\ connection \in Conns
    /\ task[t].pc \in SetupPc => task[t].own = channel /\ Watched(channel)

NoticeInv ==
  Orderly => /\ OneConnect /\ ConnectsOrderly
             /\ isConnected => channel \in alive /\ watched[channel] > 0

LEMMA NoticeInit == Init => NoticeInv
<1> SUFFICES ASSUME Init PROVE NoticeInv
  OBVIOUS
<1>1. PICK t \in Tasks : task = [[u \in Tasks |-> Idle] EXCEPT ![t].pc = "connect"]
  BY DEF Init
<1>2. \A u \in Tasks : task[u].pc = IF u = t THEN "connect" ELSE "idle"
  BY <1>1 DEF Idle
<1>3. OneConnect
  BY <1>2 DEF OneConnect, Connecting, ConnectPc, SetupPc
<1>4. ConnectsOrderly
  BY <1>2 DEF ConnectsOrderly, At, SetupPc
<1>5. ~isConnected
  BY DEF Init
<1>. QED BY <1>3, <1>4, <1>5 DEF NoticeInv

(* A task that is, or comes to be, none of a connect's disturbs nothing.     *)
LEMMA NoticeKept ==
  ASSUME TypeOK, NoticeInv, Orderly' => Orderly, NEW t \in Tasks, NEW r,
         task' = [task EXCEPT ![t] = r],
         r.pc \in {"idle", "walk", "subscribe"},
         UNCHANGED <<connection, channel, alive, watched>>,
         (isConnected' /\ Orderly') => isConnected \/ (channel \in alive /\ watched[channel] > 0)
  PROVE  NoticeInv'
<1> SUFFICES ASSUME Orderly'
             PROVE  /\ OneConnect' /\ ConnectsOrderly'
                    /\ isConnected' => channel' \in alive' /\ watched'[channel'] > 0
  BY DEF NoticeInv
<1>1. OneConnect /\ ConnectsOrderly /\ (isConnected => channel \in alive /\ watched[channel] > 0)
  BY DEF NoticeInv
<1>2. \A u \in Tasks : task'[u] = IF u = t THEN r ELSE task[u]
  BY DEF TypeOK
<1>3. OneConnect'
  BY <1>1, <1>2 DEF OneConnect, Connecting, ConnectPc, SetupPc
<1>4. ConnectsOrderly'
  BY <1>1, <1>2 DEF ConnectsOrderly, At, Watched, SetupPc
<1>. QED BY <1>1, <1>3, <1>4

LEMMA NoticeConnectFails ==
  ASSUME TypeOK, NoticeInv, Orderly' => Orderly, NEW t \in Tasks, ConnectFails(t),
         UNCHANGED <<alive, watched>>
  PROVE  NoticeInv'
<1>1. task' = [task EXCEPT ![t] = Idle] /\ UNCHANGED <<connection, channel, isConnected>>
  BY DEF ConnectFails, End, fieldVars
<1>2. Idle.pc = "idle"
  BY DEF Idle
<1>. QED BY <1>1, <1>2, NoticeKept

LEMMA NoticeConnect ==
  ASSUME TypeOK, NoticeInv, NEW t \in Tasks,
         Connected(t) \/ ConnectionLimit(t) \/ ConnectRefused(t) \/ CreateChannel(t)
           \/ Setup(t) \/ Fire(t)
  PROVE  NoticeInv'
<1>1. Orderly' => Orderly
  BY DEF Orderly, Connected, ConnectionLimit, ConnectRefused, CreateChannel, Setup, Fire, historyVars
<1>2. Orderly => OneConnect /\ ConnectsOrderly
                   /\ (isConnected => channel \in alive /\ watched[channel] > 0)
  BY DEF NoticeInv
<1>3. CASE Connected(t)
  <2>1. PICK c \in Conns :
          /\ Unused(c)
          /\ connection' = c
          /\ alive' = alive \cup {c}
          /\ watched' = [watched EXCEPT ![c] = 0]
          /\ task' = [task EXCEPT ![t].pc = "createChannel", ![t].own = c]
    BY <1>3 DEF Connected
  <2>2. t \in Connecting /\ channel' = channel /\ isConnected' = isConnected
    BY <1>3 DEF Connected, Connecting, ConnectPc, At, SetupPc
  <2>3. /\ task'[t].pc = "createChannel" /\ task'[t].own = c
        /\ \A u \in Tasks \ {t} : task'[u] = task[u]
    BY <2>1 DEF TypeOK, Task
  <2>4. ASSUME Orderly' PROVE OneConnect' /\ ConnectsOrderly'
    <3>1. \A u \in Tasks \ {t} : u \notin Connecting
      BY <1>1, <1>2, <2>2, <2>4 DEF OneConnect
    <3>2. OneConnect'
      BY <2>3, <3>1 DEF OneConnect, Connecting, ConnectPc, SetupPc
    <3>3. ConnectsOrderly'
      BY <1>1, <1>2, <2>1, <2>3, <2>4, <3>1 DEF ConnectsOrderly, Connecting, ConnectPc, At, SetupPc
    <3>. QED BY <3>2, <3>3
  <2>5. channel # c
    BY <2>1 DEF Unused
  <2>6. ASSUME Orderly', isConnected' PROVE channel' \in alive' /\ watched'[channel'] > 0
    BY <1>1, <1>2, <2>1, <2>2, <2>5, <2>6 DEF TypeOK
  <2>. QED BY <2>4, <2>6 DEF NoticeInv
<1>4. CASE ConnectionLimit(t) \/ ConnectRefused(t)
  BY <1>1, <1>4, NoticeConnectFails DEF ConnectionLimit, ConnectRefused, brokerVars
<1>5. CASE CreateChannel(t)
  <2>1. CASE task[t].own \notin alive
    BY <1>1, <1>5, <2>1, NoticeConnectFails DEF CreateChannel
  <2>2. CASE task[t].own \in alive
    <3> SUFFICES ASSUME Orderly'
                 PROVE  /\ OneConnect' /\ ConnectsOrderly'
                        /\ isConnected' => channel' \in alive' /\ watched'[channel'] > 0
      BY DEF NoticeInv
    <3>1. Orderly /\ OneConnect /\ ConnectsOrderly
      BY <1>1, <1>2
    <3>2. At(t, "createChannel") /\ t \in Connecting
      BY <1>5 DEF CreateChannel, At, Connecting, ConnectPc, SetupPc
    <3>3. connection = task[t].own /\ connection \in Conns /\ connection # NoConn
      BY <3>1, <3>2, BusAssumption DEF ConnectsOrderly, SetupPc
    <3>4. /\ channel' = connection /\ connection' = connection /\ alive' = alive
          /\ watched' = [watched EXCEPT ![connection] = @ + 1]
          /\ task' = [task EXCEPT ![t].pc = "assertEvents"]
      BY <1>5, <2>2, <3>3 DEF CreateChannel
    <3>5. /\ task'[t].pc = "assertEvents" /\ task'[t].own = channel'
          /\ \A u \in Tasks \ {t} : task'[u] = task[u]
      BY <3>3, <3>4 DEF TypeOK, Task
    <3>6. watched'[channel'] > 0 /\ channel' \in alive' /\ channel' \in Conns
      BY <2>2, <3>3, <3>4 DEF TypeOK
    <3>7. \A u \in Tasks \ {t} : u \notin Connecting
      BY <3>1, <3>2 DEF OneConnect
    <3>8. OneConnect'
      BY <3>5, <3>7 DEF OneConnect, Connecting, ConnectPc, SetupPc
    <3>9. ConnectsOrderly'
      BY <3>1, <3>5, <3>6, <3>7 DEF ConnectsOrderly, Connecting, ConnectPc, At, Watched, SetupPc
    <3>. QED BY <3>6, <3>8, <3>9
  <2>. QED BY <2>1, <2>2
<1>6. CASE Setup(t)
  <2>0. UNCHANGED <<alive, open, watched>>
    BY <1>6 DEF Setup, brokerVars
  <2>1. ASSUME NEW l \in SetupPc, NEW next \in SetupPc, SetupPasses(t, l, next)
        PROVE  NoticeInv'
    <3> SUFFICES ASSUME Orderly'
                 PROVE  /\ OneConnect' /\ ConnectsOrderly'
                        /\ isConnected' => channel' \in alive' /\ watched'[channel'] > 0
      BY DEF NoticeInv
    <3>1. Orderly /\ OneConnect /\ ConnectsOrderly
      BY <1>1, <1>2
    <3>2. /\ UNCHANGED <<connection, channel, isConnected>> /\ task[t].pc = l
          /\ task' = [task EXCEPT ![t].pc = next, ![t].own = channel]
      BY <2>1 DEF SetupPasses, fieldVars, At
    <3>3. /\ task'[t].pc = next /\ task'[t].own = channel
          /\ \A u \in Tasks \ {t} : task'[u] = task[u]
      BY <3>2 DEF TypeOK, Task
    <3>4. Watched(channel)' /\ t \in Connecting
      BY <2>0, <3>1, <3>2 DEF ConnectsOrderly, Watched, Connecting, ConnectPc, SetupPc
    <3>5. OneConnect'
      BY <3>1, <3>3, <3>4 DEF OneConnect, Connecting, ConnectPc, SetupPc
    <3>6. ConnectsOrderly'
      <4>1. SUFFICES ASSUME NEW u \in Tasks
                     PROVE  /\ task'[u].pc \notin {"closeChannel", "closeConnection"}
                            /\ At(u, "createChannel")' => /\ connection' = task'[u].own
                                                          /\ connection' \in Conns
                            /\ task'[u].pc \in SetupPc => /\ task'[u].own = channel'
                                                          /\ Watched(channel)'
        BY DEF ConnectsOrderly, SetupPc
      <4>2. CASE u = t
        BY <3>2, <3>3, <3>4, <4>2 DEF At, SetupPc
      <4>3. CASE u # t
        BY <3>1, <3>2, <3>3, <3>4, <4>3 DEF ConnectsOrderly, At, SetupPc
      <4>. QED BY <4>2, <4>3
    <3>. QED BY <1>2, <2>0, <3>1, <3>2, <3>5, <3>6
  <2>2. CASE SetupEnds(t)
    <3> DEFINE r == IF task[t].byTimer THEN [Idle EXCEPT !.pc = "walk", !.byTimer = TRUE] ELSE Idle
    <3>1. task' = [task EXCEPT ![t] = r] /\ UNCHANGED <<connection, channel, alive, watched>>
      BY <2>0, <2>2 DEF SetupEnds
    <3>2. r.pc \in {"idle", "walk", "subscribe"}
      BY DEF Idle
    <3>3. ASSUME Orderly' PROVE channel \in alive /\ watched[channel] > 0
      <4>1. task[t].pc \in SetupPc /\ task[t].own \in open
        BY <2>2 DEF SetupEnds, SetupOver, SetupPc, At
      <4>2. task[t].own = channel /\ Watched(channel)
        BY <1>1, <1>2, <3>3, <4>1 DEF ConnectsOrderly, SetupPc
      <4>. QED BY <4>1, <4>2 DEF Watched, TypeOK
    <3>. HIDE DEF r
    <3>. QED BY <1>1, <3>1, <3>2, <3>3, NoticeKept
  <2>3. CASE SetupFails(t)
    BY <1>1, <2>0, <2>3, NoticeConnectFails DEF SetupFails
  <2>. QED BY <1>6, <2>1, <2>2, <2>3 DEF Setup, SetupPc
<1>7. CASE Fire(t)
  <2> SUFFICES ASSUME Orderly'
               PROVE  /\ OneConnect' /\ ConnectsOrderly'
                      /\ isConnected' => channel' \in alive' /\ watched'[channel'] > 0
    BY DEF NoticeInv
  <2>1. Orderly /\ Connecting = {}
    BY <1>1, <1>7 DEF Fire, Orderly
  <2>2. /\ task' = [task EXCEPT ![t].pc = "connect", ![t].byTimer = TRUE]
        /\ UNCHANGED <<fieldVars, brokerVars>>
    BY <1>7 DEF Fire
  <2>3. task'[t].pc = "connect" /\ \A u \in Tasks \ {t} : task'[u] = task[u]
    BY <2>2 DEF TypeOK, Task
  <2>4. OneConnect'
    BY <2>1, <2>3 DEF OneConnect, Connecting, ConnectPc, SetupPc
  <2>5. ConnectsOrderly'
    BY <1>2, <2>1, <2>2, <2>3
       DEF ConnectsOrderly, At, Watched, Connecting, ConnectPc, SetupPc, fieldVars, brokerVars
  <2>. QED BY <1>2, <2>1, <2>2, <2>4, <2>5 DEF fieldVars, brokerVars
<1>. QED BY <1>3, <1>4, <1>5, <1>6, <1>7

LEMMA NoticeSubscribe ==
  ASSUME TypeOK, NoticeInv, NEW t \in Tasks,
         Subscribed(t) \/ Walk(t) \/ \E x \in Types : Subscribe(t, x)
  PROVE  NoticeInv'
<1>1. Orderly' => Orderly
  BY DEF Orderly, Subscribed, Walk, Subscribe, historyVars
<1>2. UNCHANGED <<connection, channel, isConnected, alive, watched>>
  BY DEF Subscribed, Walk, Subscribe, fieldVars, brokerVars
<1>3. Idle.pc = "idle"
  BY DEF Idle
<1>4. task[t] \in Task
  BY DEF TypeOK
<1>5. \E r : task' = [task EXCEPT ![t] = r] /\ r.pc \in {"idle", "walk", "subscribe"}
  <2>1. CASE Subscribed(t)
    <3>1. [task[t] EXCEPT !.pc = "walk"].pc = "walk"
      BY <1>4 DEF Task
    <3>2. End(t) \/ task' = [task EXCEPT ![t] = [task[t] EXCEPT !.pc = "walk"]]
      BY <2>1 DEF Subscribed, SubscribeFails, Become, TypeOK
    <3>. QED BY <1>3, <3>1, <3>2 DEF End
  <2>2. ASSUME NEW x \in Types, Subscribe(t, x)
        PROVE  \E r : task' = [task EXCEPT ![t] = r] /\ r.pc \in {"idle", "walk", "subscribe"}
    <3>1. [task[t] EXCEPT !.pc = "subscribe", !.type = x].pc = "subscribe"
      BY <1>4 DEF Task
    <3>2. task' = [task EXCEPT ![t] = [task[t] EXCEPT !.pc = "subscribe", !.type = x]]
      BY <2>2 DEF Subscribe, TypeOK
    <3>. QED BY <3>1, <3>2
  <2>3. CASE Walk(t)
    <3> DEFINE k == task[t].key
               p == [task[t] EXCEPT !.key = k + 1, !.done = 0]
               q == [task[t] EXCEPT !.pc = "subscribe", !.type = keys[k],
                                    !.done = Least(@ + 1, MaxHandlers - 1)]
    <3>1. p.pc = "walk" /\ q.pc = "subscribe"
      BY <1>4, <2>3 DEF Task, Walk, At
    <3>2. End(t) \/ task' = [task EXCEPT ![t] = p] \/ task' = [task EXCEPT ![t] = q]
      BY <2>3 DEF Walk, SubscribeFails, TypeOK
    <3>. QED BY <1>3, <3>1, <3>2 DEF End
  <2>. QED BY <2>1, <2>2, <2>3
<1>. QED BY <1>1, <1>2, <1>5, NoticeKept

LEMMA NoticeFaults ==
  ASSUME TypeOK, NoticeInv, NEW c \in Conns, ConnectionLost(c) \/ ChannelError(c)
  PROVE  NoticeInv'
<1> SUFFICES ASSUME Orderly'
             PROVE  /\ OneConnect' /\ ConnectsOrderly'
                    /\ isConnected' => channel' \in alive' /\ watched'[channel'] > 0
  BY DEF NoticeInv
<1>1. Orderly /\ UNCHANGED <<connection, channel, task>>
  BY DEF Orderly, ConnectionLost, ChannelError, fieldVars
<1>2. OneConnect /\ ConnectsOrderly /\ (isConnected => channel \in alive /\ watched[channel] > 0)
  BY <1>1 DEF NoticeInv
<1>3. OneConnect'
  BY <1>1, <1>2 DEF OneConnect, Connecting, ConnectPc, SetupPc
<1>4. CASE ConnectionLost(c)
  <2>1. /\ alive' = alive \ {c} /\ watched' = [watched EXCEPT ![c] = 0]
        /\ isConnected' = (isConnected /\ watched[c] = 0)
    BY <1>4 DEF ConnectionLost, Close
  <2>2. Watched(channel) => Watched(channel)'
    BY <1>1, <2>1 DEF Watched, TypeOK
  <2>3. ConnectsOrderly'
    BY <1>1, <1>2, <2>2 DEF ConnectsOrderly, At, SetupPc
  <2>4. ASSUME isConnected' PROVE channel' \in alive' /\ watched'[channel'] > 0
    <3>1. isConnected /\ watched[c] = 0
      BY <2>1, <2>4
    <3>2. channel \in alive /\ watched[channel] > 0
      BY <1>2, <3>1
    <3>3. channel # c
      BY <3>1, <3>2
    <3>4. watched'[channel] = watched[channel]
      BY <2>1, <3>2, <3>3 DEF TypeOK
    <3>. QED BY <1>1, <2>1, <3>2, <3>3, <3>4
  <2>. QED BY <1>3, <2>3, <2>4
<1>5. CASE ChannelError(c)
  <2>1. UNCHANGED <<alive, watched, isConnected>>
    BY <1>5 DEF ChannelError, fieldVars
  <2>2. ConnectsOrderly'
    BY <1>1, <1>2, <2>1 DEF ConnectsOrderly, At, Watched, SetupPc
  <2>. QED BY <1>1, <1>2, <1>3, <2>1, <2>2
<1>. QED BY <1>4, <1>5

LEMMA NoticeStep == TypeOK /\ NoticeInv /\ [Next]_vars => NoticeInv'
<1> SUFFICES ASSUME TypeOK, NoticeInv, [Next]_vars PROVE NoticeInv'
  OBVIOUS
<1>1. ASSUME NEW t \in Tasks, CloseChannel(t) \/ CloseConnection(t) PROVE NoticeInv'
  <2>1. Orderly' => Orderly
    BY <1>1 DEF Orderly, CloseChannel, CloseConnection, historyVars
  <2>2. ~Orderly
    BY <1>1 DEF NoticeInv, ConnectsOrderly, CloseChannel, CloseConnection, At, SetupPc
  <2>. QED BY <2>1, <2>2 DEF NoticeInv
<1>2. ASSUME NEW t \in Tasks, Disconnect(t) PROVE NoticeInv'
  BY <1>2 DEF Disconnect, NoticeInv, Orderly
<1>3. ASSUME NEW t \in Tasks, Step(t) PROVE NoticeInv'
  BY <1>1, <1>3, NoticeConnect, NoticeSubscribe DEF Step
<1>4. CASE UNCHANGED vars
  BY <1>4 DEF vars, fieldVars, brokerVars, historyVars, NoticeInv, Orderly, OneConnect,
              ConnectsOrderly, Watched, Connecting, At
<1>. QED BY <1>2, <1>3, <1>4, NoticeConnect, NoticeSubscribe, NoticeFaults DEF Next

(* As long as connects do not overlap, the connection under the channel of a *)
(* connected bus is up and its close handler attached.                       *)
THEOREM LossWillBeNoticedCorrect == Spec => []LossWillBeNoticed
<1>1. NoticeInv => LossWillBeNoticed
  BY DEF NoticeInv, LossWillBeNoticed, Orderly
<1>. QED BY <1>1, TypeCorrect, NoticeInit, NoticeStep, PTL DEF Spec

=============================================================================
