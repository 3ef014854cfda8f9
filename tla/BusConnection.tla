---------------------------- MODULE BusConnection ----------------------------
(***************************************************************************)
(* The connection of one MessageBus to RabbitMQ: connect, disconnect and     *)
(* subscribe, the handlers of connection and channel events, and             *)
(* handleReconnect with its timers and its loop over the handlers.           *)
(*                                                                           *)
(* this.connection and this.channel are shared by everything that is under   *)
(* way: each await of a connect, a subscription or a disconnect is a step of *)
(* a task, and the fields are read anew at the next step.  Each connection   *)
(* has one channel, known by the connection it belongs to.                   *)
(***************************************************************************)
EXTENDS Integers, Sequences, FiniteSets

CONSTANTS
  MaxConns,              \* connections RabbitMQ accepts at the same time
  NoConn,                \* null
  Types,                 \* event types
  Tasks,                 \* calls under way at the same time
  MaxReconnectAttempts,  \* maxReconnectAttempts: 10
  MaxHandlers,           \* handlers of one type, counted up to this number
  MaxSubscriptions,      \* bound: calls of subscribe by the service
  MaxFaults              \* bound: refused, lost and broken connections and channels

Conns == 1 .. MaxConns

ASSUME BusAssumption ==
  /\ NoConn \notin Conns
  /\ Tasks # {} /\ Types # {}
  /\ MaxReconnectAttempts \in Nat \ {0}
  /\ MaxHandlers \in Nat \ {0, 1}

VARIABLES
  connection, channel,   \* this.connection, this.channel
  isConnected, reconnectAttempts,
  keys, handlers,        \* this.handlers: its keys in order, how many of each
  timers,                \* pending setTimeouts of handleReconnect
  task,                  \* the local variables of the calls under way
  alive, open,           \* connections that are up, and whose channel is, too
  watched,               \* close handlers attached to each connection
  consumers,             \* <<connection, type>>: consumers at RabbitMQ
  overlapped,            \* history: two connects were under way at once
  disconnected,          \* history: disconnect() was called
  broken,                \* history: a channel was closed by an error of its own
  subscriptions, faults

fieldVars   == <<connection, channel, isConnected>>
retryVars   == <<reconnectAttempts, timers>>
handlerVars == <<keys, handlers>>
brokerVars  == <<alive, open, watched, consumers>>
historyVars == <<overlapped, disconnected, broken, subscriptions, faults>>
vars == <<fieldVars, retryVars, handlerVars, task, brokerVars, historyVars>>

-----------------------------------------------------------------------------
ConnOrNone == Conns \cup {NoConn}
SetupPc == {"assertEvents", "assertDeadLetters", "assertQueue", "bindQueue"}
ConnectPc == {"connect", "createChannel"} \cup SetupPc
TaskPc == ConnectPc \cup {"idle", "walk", "subscribe", "closeChannel", "closeConnection"}

(* own: the connection an await works on.  byTimer: handleReconnect started  *)
(* the task.  key, done: where the loop over the handlers is.                *)
Idle == [pc |-> "idle", own |-> NoConn, byTimer |-> FALSE, key |-> 1, done |-> 0,
         type |-> CHOOSE x \in Types : TRUE]

At(t, l) == task[t].pc = l
Become(t, l) == task' = [task EXCEPT ![t].pc = l]
End(t) == task' = [task EXCEPT ![t] = Idle]

Connecting == {t \in Tasks : task[t].pc \in ConnectPc}

Least(a, b) == IF a <= b THEN a ELSE b

(* EventCoordinator.initialize has called connect().                         *)
Init ==
  /\ connection = NoConn /\ channel = NoConn /\ isConnected = FALSE
  /\ reconnectAttempts = 0 /\ timers = 0
  /\ keys = <<>> /\ handlers = [x \in Types |-> 0]
  /\ \E t \in Tasks : task = [[u \in Tasks |-> Idle] EXCEPT ![t].pc = "connect"]
  /\ alive = {} /\ open = {} /\ consumers = {}
  /\ watched = [c \in Conns |-> 0]
  /\ overlapped = FALSE /\ disconnected = FALSE /\ broken = FALSE
  /\ subscriptions = 0 /\ faults = 0

(* Mutant: the limit is not checked.                                         *)
handleReconnectForever(n) ==
  /\ reconnectAttempts' = reconnectAttempts + n
  /\ timers' = timers + n

(* n calls of handleReconnect: each starts a timer unless the attempts are   *)
(* used up.                                                                  *)
handleReconnect(n) ==
  /\ reconnectAttempts' = Least(reconnectAttempts + n, MaxReconnectAttempts)
  /\ timers' = timers + (reconnectAttempts' - reconnectAttempts)

-----------------------------------------------------------------------------
(* connect().                                                                *)

(* Mutant: connect() leaves it to its caller to reconnect.                   *)
ReconnectsOfTimer(t) == IF task[t].byTimer THEN 1 ELSE 0

(* How often a failed connect() calls handleReconnect: once itself, and once *)
(* more in the catch block of the timer that called it.                      *)
Reconnects(t) == IF task[t].byTimer THEN 2 ELSE 1

ConnectFails(t) ==
  /\ End(t)
  /\ handleReconnect(Reconnects(t))
  /\ UNCHANGED <<fieldVars, handlerVars>>

(* A connection that is down and nothing refers to any more is reused.       *)
Unused(c) ==
  /\ c \notin alive \cup {connection, channel}
  /\ \A t \in Tasks : task[t].own # c

(* this.connection = await amqp.connect(url)                                 *)
Connected(t) ==
  /\ At(t, "connect")
  /\ \E c \in Conns :
       /\ Unused(c) /\ \A b \in 1 .. (c - 1) : ~Unused(b)
       /\ connection' = c
       /\ alive' = alive \cup {c}
       /\ watched' = [watched EXCEPT ![c] = 0]
       /\ task' = [task EXCEPT ![t].pc = "createChannel", ![t].own = c]
  /\ UNCHANGED <<channel, isConnected, retryVars, handlerVars, open, consumers, historyVars>>

ConnectRefused(t) ==
  /\ At(t, "connect")
  /\ faults < MaxFaults
  /\ faults' = faults + 1
  /\ ConnectFails(t)
  /\ UNCHANGED <<brokerVars, overlapped, disconnected, broken, subscriptions>>

(* RabbitMQ accepts no more connections: those that are lost from sight are  *)
(* never closed.                                                             *)
ConnectionLimit(t) ==
  /\ At(t, "connect")
  /\ \A c \in Conns : ~Unused(c)
  /\ ConnectFails(t)
  /\ UNCHANGED <<brokerVars, historyVars>>

(* Mutant: the handlers are attached by the first connect() only.            *)
CreateChannelUnwatched(t) ==
  /\ At(t, "createChannel")
  /\ \/ /\ task[t].own \in alive
        /\ connection # NoConn
        /\ channel' = task[t].own
        /\ open' = open \cup {task[t].own}
        /\ watched' = IF task[t].byTimer THEN watched ELSE [watched EXCEPT ![connection] = @ + 1]
        /\ task' = [task EXCEPT ![t].pc = "assertEvents"]
        /\ UNCHANGED <<connection, isConnected, retryVars, handlerVars, alive>>
     \/ /\ task[t].own \notin alive
        /\ ConnectFails(t)
        /\ UNCHANGED <<alive, open, watched>>
  /\ UNCHANGED <<consumers, historyVars>>

(* this.channel = await createChannel(), the handlers are attached to what   *)
(* this.connection is by now, and setupExchanges asks for the first exchange.*)
CreateChannel(t) ==
  /\ At(t, "createChannel")
  /\ LET c == task[t].own
     IN  \/ /\ c \in alive
            /\ channel' = c
            /\ open' = open \cup {c}
            /\ \/ /\ connection # NoConn
                  /\ watched' = [watched EXCEPT ![connection] = @ + 1]
                  /\ task' = [task EXCEPT ![t].pc = "assertEvents"]
                  /\ UNCHANGED retryVars
               \/ /\ connection = NoConn
                  /\ End(t)
                  /\ handleReconnect(Reconnects(t))
                  /\ UNCHANGED watched
            /\ UNCHANGED <<connection, isConnected, handlerVars, alive>>
         \/ /\ c \notin alive
            /\ ConnectFails(t)
            /\ UNCHANGED <<alive, open, watched>>
  /\ UNCHANGED <<consumers, historyVars>>

(* setupExchanges and setupDeadLetterQueue: each of their four awaits is on  *)
(* what this.channel was then, and is followed by the next.  There the field *)
(* is read again, and a channel that is closed, or null, makes connect fail: *)
(* only at its start does setupDeadLetterQueue return if it is null.         *)
SetupPasses(t, l, next) ==
  /\ At(t, l) /\ task[t].own \in open
  /\ channel \in open
  /\ task' = [task EXCEPT ![t].pc = next, ![t].own = channel]
  /\ UNCHANGED <<fieldVars, retryVars, handlerVars>>

SetupOver(t) ==
  \/ At(t, "bindQueue")
  \/ At(t, "assertDeadLetters") /\ channel = NoConn

(* A timer goes on with the handlers.                                        *)
SetupEnds(t) ==
  /\ SetupOver(t) /\ task[t].own \in open
  /\ isConnected' = TRUE
  /\ reconnectAttempts' = 0
  /\ task' = [task EXCEPT ![t] = IF task[t].byTimer
                                 THEN [Idle EXCEPT !.pc = "walk", !.byTimer = TRUE]
                                 ELSE Idle]
  /\ UNCHANGED <<connection, channel, timers, handlerVars>>

SetupFails(t) ==
  /\ task[t].pc \in SetupPc
  /\ task[t].own \notin open \/ (channel \notin open /\ ~SetupOver(t))
  /\ ConnectFails(t)

Setup(t) ==
  /\ \/ SetupPasses(t, "assertEvents", "assertDeadLetters")
     \/ SetupPasses(t, "assertDeadLetters", "assertQueue")
     \/ SetupPasses(t, "assertQueue", "bindQueue")
     \/ SetupEnds(t)
     \/ SetupFails(t)
  /\ UNCHANGED <<brokerVars, historyVars>>

(* A timer of handleReconnect fires.                                         *)
Fire(t) ==
  /\ timers > 0
  /\ At(t, "idle")
  /\ timers' = timers - 1
  /\ task' = [task EXCEPT ![t].pc = "connect", ![t].byTimer = TRUE]
  /\ overlapped' = (overlapped \/ Connecting # {})
  /\ UNCHANGED <<fieldVars, reconnectAttempts, handlerVars, brokerVars, disconnected,
                 broken, subscriptions, faults>>

-----------------------------------------------------------------------------
(* subscribe(), by the service and by the loop over the handlers.            *)

(* The handler is stored before anything is asked of RabbitMQ.               *)
Store(x) ==
  /\ keys' = IF handlers[x] = 0 THEN Append(keys, x) ELSE keys
  /\ handlers' = [handlers EXCEPT ![x] = Least(@ + 1, MaxHandlers)]

Subscribe(t, x) ==
  /\ At(t, "idle")
  /\ subscriptions < MaxSubscriptions
  /\ isConnected /\ channel # NoConn
  /\ subscriptions' = subscriptions + 1
  /\ Store(x)
  /\ task' = [task EXCEPT ![t].pc = "subscribe", ![t].type = x]
  /\ UNCHANGED <<fieldVars, retryVars, brokerVars, overlapped, disconnected, broken, faults>>

(* An error of a subscription goes to the service, or to the timer's catch.  *)
SubscribeFails(t) ==
  /\ End(t)
  /\ handleReconnect(IF task[t].byTimer THEN 1 ELSE 0)

(* Queue, binding and consumer are declared on this.channel.                 *)
Subscribed(t) ==
  /\ At(t, "subscribe")
  /\ \/ /\ channel \in open
        /\ consumers' = consumers \cup {<<channel, task[t].type>>}
        /\ IF task[t].byTimer THEN Become(t, "walk") ELSE End(t)
        /\ UNCHANGED retryVars
     \/ /\ channel \notin open
        /\ SubscribeFails(t)
        /\ UNCHANGED consumers
  /\ UNCHANGED <<fieldVars, handlerVars, alive, open, watched, historyVars>>

(* for (const [eventType, handlers] of this.handlers)                        *)
(*   for (const handler of handlers) await this.subscribe(handler)           *)
(* subscribe() appends the handler to the array the loop walks.  Counts stop *)
(* at MaxHandlers, and done stays one below, so that "one more" stays true.  *)
Walk(t) ==
  /\ At(t, "walk")
  /\ LET k == task[t].key
     IN  \/ /\ k > Len(keys)
            /\ End(t)
            /\ UNCHANGED <<retryVars, handlerVars>>
         \/ /\ k <= Len(keys) /\ task[t].done >= handlers[keys[k]]
            /\ task' = [task EXCEPT ![t].key = k + 1, ![t].done = 0]
            /\ UNCHANGED <<retryVars, handlerVars>>
         \/ /\ k <= Len(keys) /\ task[t].done < handlers[keys[k]]
            /\ \/ /\ isConnected /\ channel # NoConn
                  /\ Store(keys[k])
                  /\ task' = [task EXCEPT ![t].pc = "subscribe", ![t].type = keys[k],
                                ![t].done = Least(@ + 1, MaxHandlers - 1)]
                  /\ UNCHANGED retryVars
               \/ /\ ~isConnected \/ channel = NoConn
                  /\ SubscribeFails(t)
                  /\ UNCHANGED handlerVars
  /\ UNCHANGED <<fieldVars, brokerVars, historyVars>>

-----------------------------------------------------------------------------
(* disconnect().                                                             *)

(* channel.close() and connection.close() throw for what is closed already;  *)
(* that ends the call.                                                       *)
BeforeConnectionClose ==
  IF connection \in alive
  THEN [Idle EXCEPT !.pc = "closeConnection", !.own = connection] ELSE Idle

Disconnect(t) ==
  /\ At(t, "idle")
  /\ ~disconnected
  /\ disconnected' = TRUE
  /\ isConnected' = FALSE
  /\ task' = [task EXCEPT ![t] =
       IF channel = NoConn THEN BeforeConnectionClose
       ELSE IF channel \in open THEN [Idle EXCEPT !.pc = "closeChannel", !.own = channel]
       ELSE Idle]
  /\ UNCHANGED <<connection, channel, retryVars, handlerVars, brokerVars, overlapped,
                 broken, subscriptions, faults>>

(* A connection that is lost meanwhile makes the close fail.                 *)
CloseChannel(t) ==
  /\ At(t, "closeChannel")
  /\ \/ /\ task[t].own \in open
        /\ open' = open \ {task[t].own}
        /\ consumers' = {x \in consumers : x[1] # task[t].own}
        /\ channel' = NoConn
        /\ task' = [task EXCEPT ![t] = BeforeConnectionClose]
     \/ /\ task[t].own \notin open
        /\ End(t)
        /\ UNCHANGED <<channel, open, consumers>>
  /\ UNCHANGED <<connection, isConnected, retryVars, handlerVars, alive, watched, historyVars>>

(* What happens to a connection that closes, for whatever reason: each of    *)
(* its close handlers marks the bus as not connected and reconnects.         *)
Close(c) ==
  /\ alive' = alive \ {c}
  /\ open' = open \ {c}
  /\ consumers' = {x \in consumers : x[1] # c}
  /\ isConnected' = (isConnected /\ watched[c] = 0)
  /\ handleReconnect(watched[c])
  /\ watched' = [watched EXCEPT ![c] = 0]

CloseConnection(t) ==
  /\ At(t, "closeConnection")
  /\ End(t)
  /\ \/ /\ task[t].own \in alive
        /\ Close(task[t].own)
        /\ connection' = NoConn
     \/ /\ task[t].own \notin alive
        /\ UNCHANGED <<connection, isConnected, retryVars, brokerVars>>
  /\ UNCHANGED <<channel, handlerVars, historyVars>>

-----------------------------------------------------------------------------
(* Faults of the network and the broker.                                     *)

(* Mutant: the close handler only clears the flag.                           *)
CloseOnly(c) ==
  /\ c \in alive
  /\ faults < MaxFaults
  /\ faults' = faults + 1
  /\ alive' = alive \ {c}
  /\ open' = open \ {c}
  /\ consumers' = {x \in consumers : x[1] # c}
  /\ isConnected' = (isConnected /\ watched[c] = 0)
  /\ watched' = [watched EXCEPT ![c] = 0]
  /\ UNCHANGED <<connection, channel, retryVars, handlerVars, task, overlapped, disconnected,
                 broken, subscriptions>>

ConnectionLost(c) ==
  /\ c \in alive
  /\ faults < MaxFaults
  /\ faults' = faults + 1
  /\ Close(c)
  /\ UNCHANGED <<connection, channel, handlerVars, task, overlapped, disconnected, broken,
                 subscriptions>>

(* A channel error closes the channel and is logged.  One cause is the bus   *)
(* itself: a message that came on an older channel is acknowledged on        *)
(* this.channel, which knows no such message.                                *)
ChannelError(c) ==
  /\ c \in open
  /\ faults < MaxFaults
  /\ faults' = faults + 1
  /\ broken' = TRUE
  /\ open' = open \ {c}
  /\ consumers' = {x \in consumers : x[1] # c}
  /\ UNCHANGED <<fieldVars, retryVars, handlerVars, task, alive, watched, overlapped,
                 disconnected, subscriptions>>

Step(t) ==
  \/ Connected(t) \/ ConnectionLimit(t) \/ CreateChannel(t) \/ Setup(t)
  \/ Subscribed(t) \/ Walk(t)
  \/ CloseChannel(t) \/ CloseConnection(t)

Next ==
  \/ \E t \in Tasks : Step(t) \/ Fire(t) \/ ConnectRefused(t) \/ Disconnect(t)
  \/ \E t \in Tasks, x \in Types : Subscribe(t, x)
  \/ \E c \in Conns : ConnectionLost(c) \/ ChannelError(c)

Spec == Init /\ [][Next]_vars

(* Timers fire, and what is asked of the broker is answered.                 *)
Fairness ==
  /\ \A t \in Tasks : WF_vars(Step(t))
  /\ WF_vars(\E t \in Tasks : Fire(t))

FairSpec == Spec /\ Fairness

-----------------------------------------------------------------------------
Task == [pc : TaskPc, own : ConnOrNone, byTimer : BOOLEAN, key : Nat \ {0},
         done : 0 .. MaxHandlers, type : Types]

TypeOK ==
  /\ connection \in ConnOrNone /\ channel \in ConnOrNone
  /\ isConnected \in BOOLEAN
  /\ reconnectAttempts \in 0 .. MaxReconnectAttempts
  /\ timers \in Nat
  /\ keys \in Seq(Types)
  /\ handlers \in [Types -> 0 .. MaxHandlers]
  /\ task \in [Tasks -> Task]
  /\ alive \subseteq Conns
  /\ open \subseteq alive
  /\ watched \in [Conns -> Nat]
  /\ consumers \subseteq open \X Types
  /\ overlapped \in BOOLEAN /\ disconnected \in BOOLEAN /\ broken \in BOOLEAN
  /\ subscriptions \in Nat /\ faults \in Nat

GaveUp == reconnectAttempts = MaxReconnectAttempts

(* However refusals, losses, timers and loops overlap, a bus that is not     *)
(* connected is being repaired, unless its attempts are used up or it was    *)
(* disconnected: a timer is pending or a connect under way (connect,         *)
(* handleConnectionClose, handleReconnect).                                  *)
RepairUnderWay ==
  ~isConnected /\ ~disconnected => timers > 0 \/ Connecting # {} \/ GaveUp

(* As long as connects do not overlap, a connected bus will notice the loss  *)
(* of the connection its channel is on: it is up and has its close handler.  *)
LossWillBeNoticed ==
  isConnected /\ ~overlapped /\ ~disconnected =>
    channel \in alive /\ watched[channel] > 0

Usable == isConnected /\ channel \in open

(* When the faults end the bus becomes usable and stays so, or has given up: *)
(* unless connects overlapped or a channel broke, which nothing repairs.     *)
EndsUsable ==
  <>[](Usable \/ GaveUp \/ disconnected \/ overlapped \/ broken)

-----------------------------------------------------------------------------
(* What a comment of the code says of the bus and it does not do; refuted by *)
(* a run of its own (README.md, findings).                                   *)

(* "Re-subscribe to all handlers": after a reconnect every event type with a *)
(* handler has a consumer again.                                             *)
ResubscribesAll ==
  <>[](\/ \A i \in DOMAIN keys : <<channel, keys[i]>> \in consumers
       \/ GaveUp \/ disconnected \/ overlapped \/ broken)

=============================================================================
