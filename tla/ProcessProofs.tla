--------------------------- MODULE ProcessProofs ---------------------------
(***************************************************************************)
(* Proofs about the processes of the API, for any calls, nodes, timeouts,  *)
(* workers and checks.                                                     *)
(*                                                                         *)
(* TaskAgent: types, that callbacks are removed, that counting the answers *)
(* does as well as keeping the nodes apart, that a call implements         *)
(* TaskCall, and what a caller has of that.  Cluster: the count never      *)
(* promises a worker that is gone, READY means all of them and is said     *)
(* once, and the last exit leaves STOPPING.  ServiceState: types, and that *)
(* what keeps the API down never outlasts its cause.                       *)
(***************************************************************************)
EXTENDS TaskAgent, Cluster, ServiceState, FiniteSetTheorems, TLAPS

-----------------------------------------------------------------------------
\* Calls of the task agents

(* Before the request is published nobody knows of it. *)
Unpublished(c) == pc[c] \in {"idle", "subscribe", "publish"}

Untouched(c) == /\ accepted[c] = 0
                /\ completed[c] = 0
                /\ result[c] = {}
                /\ \A n \in Node : work[c][n] = "none"

(* What an agent has sent and is not delivered yet: the end of the sequence *)
(* accepted, w, where w is how it finished.                                 *)
QueueOf(w, q) ==
    /\ w \in {"none", "asked"} => Len(q) = 0
    /\ w = "accepted" => Len(q) <= 1 /\ (Len(q) = 1 => q[1] = "accepted")
    /\ w \in Finish => /\ Len(q) <= 2
                       /\ Len(q) = 1 => q[1] = w
                       /\ Len(q) = 2 => q[1] = "accepted" /\ q[2] = w

Queues == \A c \in Call, n \in Node : QueueOf(work[c][n], net[c][n])

Fresh == \A c \in Call : Unpublished(c) => Untouched(c)

ResultRan == \A c \in Call : \A n \in result[c] : work[c][n] = "data"

ValuePending == \A c \in Call : pc[c] # "ended" => value[c] = Pending

(* While the loop polls, all that was not lost has been counted. *)
Counted ==
    \A c \in Call : pc[c] = "poll" /\ c \notin lost =>
        /\ accepted[c] = Cardinality(Heard(c))
        /\ completed[c] = Cardinality(HeardOut(c))

Subscribed == \A c \in Call : pc[c] \in {"publish", "poll"} => c \in subs

IInv == /\ TypeOK /\ Queues /\ Fresh /\ ResultRan
        /\ ValuePending /\ Subscribed /\ Registered /\ Counted

(***************************************************************************)
(* Types.                                                                  *)
(***************************************************************************)

LEMMA InitType == Init => TypeOK
BY TimeoutAssumption DEF Init, TypeOK, Pc, Work, Value, Message

LEMMA QueueType == ASSUME NEW q \in Seq(Message), q # <<>>
                   PROVE  Head(q) \in Message /\ Tail(q) \in Seq(Message)
OBVIOUS

LEMMA DeliverType ==
    ASSUME TypeOK, NEW c \in Call, NEW n \in Node, Deliver(c, n)
    PROVE  TypeOK'
<1>1. net[c][n] \in Seq(Message) /\ net[c][n] # <<>>
  BY DEF TypeOK, Deliver
<1>2. Head(net[c][n]) \in Message /\ Tail(net[c][n]) \in Seq(Message)
  BY <1>1, QueueType
<1>3. net' \in [Call -> [Node -> Seq(Message)]]
  BY <1>2 DEF TypeOK, Deliver
<1>4. counts' = counts \/ Callback(c, n, Head(net[c][n]))
  BY DEF Deliver, counts
<1>5. /\ accepted' \in [Call -> Nat]
      /\ completed' \in [Call -> Nat]
      /\ result' \in [Call -> SUBSET Node]
  <2>1. CASE counts' = counts
    BY <2>1 DEF TypeOK, counts
  <2>2. ASSUME NEW m, Callback(c, n, m)
        PROVE  /\ accepted' \in [Call -> Nat]
               /\ completed' \in [Call -> Nat]
               /\ result' \in [Call -> SUBSET Node]
    BY <2>2 DEF TypeOK, Callback
  <2>3. QED
    BY <1>4, <2>1, <2>2
<1>6. QED
  BY <1>3, <1>5 DEF TypeOK, Deliver, call

LEMMA StepType ==
    ASSUME TypeOK, NEW c \in Call, NEW l \in Pc, Step(c, l)
    PROVE  pc' \in [Call -> Pc] /\ value' \in [Call -> Value \cup {Pending}]
BY DEF TypeOK, Step, Goto

LEMMA EndType ==
    ASSUME TypeOK, NEW c \in Call, NEW v \in Value, End(c, v)
    PROVE  pc' \in [Call -> Pc] /\ value' \in [Call -> Value \cup {Pending}]
BY DEF TypeOK, End, Goto, Pc

(* What the call and the helper do leaves the call typed. *)
LEMMA CallType ==
    ASSUME TypeOK, NEW c \in Call, Invoke(c) \/ Run(c)
    PROVE  pc' \in [Call -> Pc] /\ value' \in [Call -> Value \cup {Pending}]
<1>1. /\ {"subscribe", "publish", "poll", "unsubscribe", "giveup"} \subseteq Pc
      /\ {Undefined, Failed, result[c]} \subseteq Value
  BY DEF TypeOK, Pc, Value
<1>2. \/ \E l \in {"subscribe", "publish", "poll", "unsubscribe", "giveup"} : Step(c, l)
      \/ \E v \in {Undefined, Failed, result[c]} : End(c, v)
  <2>1. CASE Invoke(c)
    BY <2>1 DEF Invoke
  <2>2. CASE Subscribe(c)
    BY <2>2 DEF Subscribe
  <2>3. CASE Publish(c)
    BY <2>3 DEF Publish
  <2>4. CASE Poll(c)
    BY <2>4 DEF Poll, PollTimeout, PollCompleted, PollExpired
  <2>5. CASE Unsubscribe(c)
    BY <2>5 DEF Unsubscribe
  <2>6. QED
    BY <2>1, <2>2, <2>3, <2>4, <2>5 DEF Run
<1>3. QED
  BY <1>1, <1>2, StepType, EndType

LEMMA NextType == TypeOK /\ [Next]_vars => TypeOK'
<1>. SUFFICES ASSUME TypeOK, [Next]_vars PROVE TypeOK'
  OBVIOUS
<1>1. ASSUME NEW c \in Call, Invoke(c) \/ Run(c) PROVE TypeOK'
  <2>1. pc' \in [Call -> Pc] /\ value' \in [Call -> Value \cup {Pending}]
    BY <1>1, CallType
  <2>2. /\ UNCHANGED <<elapsed, accepted, completed, result, net, lost>>
        /\ subs' \in {subs, subs \cup {c}, subs \ {c}}
    BY <1>1 DEF Invoke, Run, Subscribe, Publish, Poll, PollTimeout, PollCompleted,
       PollExpired, Unsubscribe, counts, agents
  <2>3. work' \in [Call -> [Node -> Work]]
    <3>1. CASE Publish(c)
      BY <3>1 DEF Publish, TypeOK, Work
    <3>2. CASE UNCHANGED work
      BY <3>2 DEF TypeOK
    <3>3. QED
      BY <1>1, <3>1, <3>2 DEF Invoke, Run, Subscribe, Poll, PollTimeout, PollCompleted,
         PollExpired, Unsubscribe, agents
  <2>4. QED
    BY <2>1, <2>2, <2>3 DEF TypeOK
<1>4. ASSUME NEW c \in Call, NEW n \in Node, Deliver(c, n) PROVE TypeOK'
  BY <1>4, DeliverType
<1>5. ASSUME NEW c \in Call, NEW n \in Node, Lose(c, n) PROVE TypeOK'
  <2>1. net[c][n] \in Seq(Message) /\ net[c][n] # <<>>
    BY <1>5 DEF TypeOK, Lose
  <2>2. net' \in [Call -> [Node -> Seq(Message)]]
    BY <1>5, <2>1, QueueType DEF TypeOK, Lose
  <2>3. QED
    BY <1>5, <2>2 DEF TypeOK, Lose, call, counts
<1>6. ASSUME NEW c \in Call, NEW n \in Node, NEW m \in Message, Send(c, n, m)
      PROVE  TypeOK'
  <2>1. Append(net[c][n], m) \in Seq(Message)
    BY DEF TypeOK
  <2>2. net' \in [Call -> [Node -> Seq(Message)]]
    BY <1>6, <2>1 DEF TypeOK, Send
  <2>3. QED
    BY <1>6, <2>2 DEF TypeOK, Send, Message, Finish, Work, call, counts
<1>7. CASE Tick
  BY <1>7, TimeoutAssumption DEF TypeOK, Tick, counts, agents
<1>8. CASE UNCHANGED vars
  BY <1>8 DEF TypeOK, vars, call, counts, agents
<1>9. QED
  BY <1>1, <1>4, <1>5, <1>6, <1>7, <1>8
     DEF Next, AgentAccepts, AgentFinishes, Message

(***************************************************************************)
(* Messages on their way.                                                  *)
(***************************************************************************)

Has(q) == \E i \in DOMAIN q : q[i] = "accepted"

(* The acceptance comes first, and nothing after how the agent finished. *)
LEMMA TakeOne ==
    ASSUME NEW w \in Work, NEW q \in Seq(Message), QueueOf(w, q), q # <<>>
    PROVE  /\ QueueOf(w, Tail(q))
           /\ ~Has(Tail(q))
           /\ \/ /\ Head(q) = "accepted"
                 /\ Has(q)
                 /\ w = "accepted" \/ (w \in Finish /\ Tail(q) # <<>>)
              \/ /\ Head(q) = w
                 /\ w \in Finish
                 /\ ~Has(q)
                 /\ Tail(q) = <<>>
<1>1. /\ Len(q) \in Nat \ {0} /\ Len(q) <= 2
      /\ Tail(q) \in Seq(Message) /\ Len(Tail(q)) = Len(q) - 1
      /\ Head(q) = q[1]
      /\ DOMAIN q = 1 .. Len(q) /\ DOMAIN Tail(q) = 1 .. Len(q) - 1
      /\ Len(q) = 2 => Tail(q)[1] = q[2]
      /\ w \in {"accepted"} \cup Finish
  BY DEF QueueOf, Work, Finish
<1>2. CASE Len(q) = 1
  <2>1. /\ Tail(q) = <<>> /\ q[1] = w /\ ~Has(Tail(q))
        /\ Has(q) <=> w = "accepted"
    BY <1>1, <1>2 DEF QueueOf, Has, Finish
  <2>2. Len(Tail(q)) = 0
    BY <1>1, <1>2
  <2>3. QueueOf(w, Tail(q))
    BY <2>2 DEF QueueOf, Finish
  <2>4. QED
    BY <1>1, <2>1, <2>3 DEF Finish
<1>3. CASE Len(q) = 2
  <2>1. /\ w \in Finish /\ Tail(q) # <<>> /\ q[1] = "accepted" /\ Tail(q)[1] = w
    BY <1>1, <1>3 DEF QueueOf, Finish
  <2>2. ~Has(Tail(q)) /\ Has(q)
    BY <1>1, <1>3, <2>1 DEF Has, Finish
  <2>3. QueueOf(w, Tail(q))
    BY <1>1, <1>3, <2>1 DEF QueueOf, Finish
  <2>4. QED
    BY <1>1, <2>1, <2>2, <2>3
<1>4. QED
  BY <1>1, <1>2, <1>3

LEMMA SendOne ==
    ASSUME NEW w, NEW q \in Seq(Message), NEW m, QueueOf(w, q),
           \/ w = "asked" /\ m = "accepted"
           \/ w = "accepted" /\ m \in Finish
    PROVE  /\ QueueOf(m, Append(q, m))
           /\ Append(q, m) # <<>>
           /\ Has(Append(q, m)) <=> m = "accepted" \/ Has(q)
<1>1. m \in Message
  BY DEF Message
<1>2. /\ Len(q) \in Nat /\ Len(q) <= 1
      /\ Append(q, m) \in Seq(Message)
      /\ Len(Append(q, m)) = Len(q) + 1
      /\ Append(q, m)[Len(q) + 1] = m
      /\ Len(q) = 1 => Append(q, m)[1] = q[1]
      /\ DOMAIN q = 1 .. Len(q) /\ DOMAIN Append(q, m) = 1 .. Len(q) + 1
  BY <1>1 DEF QueueOf
<1>3. Append(q, m) # <<>>
  BY <1>2
<1>4. QueueOf(m, Append(q, m))
  BY <1>2 DEF QueueOf, Finish
<1>5. Has(Append(q, m)) <=> m = "accepted" \/ Has(q)
  BY <1>2 DEF Has, QueueOf
<1>6. QED
  BY <1>3, <1>4, <1>5

(* Which steps touch what agents did and sent. *)
LEMMA AgentsKept ==
    ASSUME NEW c \in Call, Invoke(c) \/ Subscribe(c) \/ Poll(c) \/ Unsubscribe(c)
    PROVE  UNCHANGED <<work, net, accepted, completed, result, lost>>
BY DEF Invoke, Subscribe, Poll, PollTimeout, PollCompleted, PollExpired, Unsubscribe,
   counts, agents

LEMMA PublishMeets ==
    ASSUME TypeOK, Fresh, NEW c \in Call, Publish(c)
    PROVE  /\ Untouched(c)
           /\ \A n \in Node : work'[c][n] \in {"none", "asked"}
           /\ \A d \in Call \ {c} : work'[d] = work[d]
           /\ UNCHANGED <<net, accepted, completed, result, lost>>
<1>1. Untouched(c)
  BY DEF Publish, Fresh, Unpublished
<1>2. QED
  BY <1>1 DEF Publish, TypeOK, counts

LEMMA NextQueues == TypeOK /\ Fresh /\ Queues /\ [Next]_vars => Queues'
<1>. SUFFICES ASSUME TypeOK, Fresh, Queues, [Next]_vars, NEW d \in Call, NEW k \in Node
              PROVE  QueueOf(work'[d][k], net'[d][k])
  BY DEF Queues
<1>0. /\ QueueOf(work[d][k], net[d][k])
      /\ work[d][k] \in Work /\ net[d][k] \in Seq(Message)
  BY DEF Queues, TypeOK
<1>1. ASSUME NEW c \in Call, Invoke(c) \/ Subscribe(c) \/ Poll(c) \/ Unsubscribe(c)
      PROVE  QueueOf(work'[d][k], net'[d][k])
  BY <1>0, <1>1, AgentsKept
<1>2. ASSUME NEW c \in Call, Publish(c) PROVE QueueOf(work'[d][k], net'[d][k])
  <2>1. /\ net' = net
        /\ d # c => work'[d] = work[d]
        /\ \A n \in Node : work[c][n] = "none" /\ work'[c][n] \in {"none", "asked"}
    BY <1>2, PublishMeets DEF Untouched
  <2>2. CASE d # c
    BY <1>0, <2>1, <2>2
  <2>3. CASE d = c
    BY <1>0, <2>1, <2>3 DEF QueueOf, Finish
  <2>4. QED
    BY <2>2, <2>3
<1>3. ASSUME NEW c \in Call, NEW n \in Node, Deliver(c, n) \/ Lose(c, n)
      PROVE  QueueOf(work'[d][k], net'[d][k])
  <2>1. /\ work' = work /\ net[c][n] # <<>>
        /\ net' = [net EXCEPT ![c][n] = Tail(@)]
    BY <1>3 DEF Deliver, Lose
  <2>2. net'[d][k] = IF d = c /\ k = n THEN Tail(net[d][k]) ELSE net[d][k]
    BY <2>1 DEF TypeOK
  <2>3. QED
    BY <1>0, <2>1, <2>2, TakeOne
<1>4. ASSUME NEW c \in Call, NEW n \in Node, AgentAccepts(c, n) \/ AgentFinishes(c, n)
      PROVE  QueueOf(work'[d][k], net'[d][k])
  <2>1. PICK m \in Message : /\ Send(c, n, m)
                             /\ \/ work[c][n] = "asked" /\ m = "accepted"
                                \/ work[c][n] = "accepted" /\ m \in Finish
    BY <1>4 DEF AgentAccepts, AgentFinishes, Message
  <2>2. IF d = c /\ k = n
        THEN work'[d][k] = m /\ net'[d][k] = Append(net[d][k], m)
        ELSE work'[d][k] = work[d][k] /\ net'[d][k] = net[d][k]
    BY <2>1 DEF Send, TypeOK
  <2>3. QED
    BY <1>0, <2>1, <2>2, SendOne
<1>5. CASE Tick \/ UNCHANGED vars
  BY <1>0, <1>5 DEF Tick, vars, agents
<1>6. QED
  BY <1>1, <1>2, <1>3, <1>4, <1>5 DEF Next, Run

(***************************************************************************)
(* The call.                                                               *)
(***************************************************************************)

(* One call moves at a time, from one label to the next. *)
LEMMA Moves ==
    ASSUME TypeOK, NEW c \in Call, Invoke(c) \/ Run(c), NEW d \in Call
    PROVE  /\ pc'[d] # pc[d] => d = c
           /\ Unpublished(d)' => Unpublished(d)
           /\ pc'[c] # "ended" => value' = value
           /\ d # c => value'[d] = value[d] /\ (d \in subs' <=> d \in subs)
           /\ pc'[c] \in {"publish", "poll"} => c \in subs' \/ (subs' = subs /\ pc[c] = "publish")
           /\ pc'[c] \notin {"idle", pc[c]} /\ pc[c] # "ended"
<1>1. pc[c] \in Pc
  BY DEF TypeOK
<1>2. CASE Invoke(c)
  BY <1>2 DEF TypeOK, Invoke, Step, Goto, Unpublished
<1>3. CASE Subscribe(c)
  BY <1>3 DEF TypeOK, Subscribe, Step, End, Goto, Unpublished
<1>4. CASE Publish(c)
  BY <1>4 DEF TypeOK, Publish, Step, End, Goto, Unpublished
<1>5. CASE Poll(c)
  BY <1>5 DEF TypeOK, Poll, PollTimeout, PollCompleted, PollExpired, InLoop, Step, End,
     Goto, Unpublished
<1>6. CASE Unsubscribe(c)
  BY <1>6 DEF TypeOK, Unsubscribe, Step, End, Goto, Unpublished
<1>7. QED
  BY <1>2, <1>3, <1>4, <1>5, <1>6 DEF Run

(* The steps that are not a call's own leave where calls are. *)
Environment ==
    \/ \E c \in Call, n \in Node : \/ Deliver(c, n) \/ Lose(c, n)
                                   \/ AgentAccepts(c, n) \/ AgentFinishes(c, n)
    \/ Tick
    \/ UNCHANGED vars

LEMMA EnvironmentKeeps == Environment => UNCHANGED <<pc, value, subs>>
BY DEF Environment, Deliver, Lose, AgentAccepts, AgentFinishes, Send, Tick, vars, call

LEMMA Steps == [Next]_vars => Environment \/ \E c \in Call : Invoke(c) \/ Run(c)
BY DEF Next, Environment

LEMMA NextPending ==
    TypeOK /\ ValuePending /\ [Next]_vars => ValuePending'
<1>. SUFFICES ASSUME TypeOK, ValuePending, [Next]_vars, NEW d \in Call,
                     pc'[d] # "ended"
              PROVE  value'[d] = Pending
  BY DEF ValuePending
<1>1. CASE Environment
  BY <1>1, EnvironmentKeeps DEF ValuePending
<1>2. ASSUME NEW c \in Call, Invoke(c) \/ Run(c) PROVE value'[d] = Pending
  BY <1>2, Moves DEF ValuePending
<1>3. QED
  BY <1>1, <1>2, Steps

LEMMA NextSubscribed ==
    TypeOK /\ Subscribed /\ [Next]_vars => Subscribed'
<1>. SUFFICES ASSUME TypeOK, Subscribed, [Next]_vars, NEW d \in Call,
                     pc'[d] \in {"publish", "poll"}
              PROVE  d \in subs'
  BY DEF Subscribed
<1>1. CASE Environment
  BY <1>1, EnvironmentKeeps DEF Subscribed
<1>2. ASSUME NEW c \in Call, Invoke(c) \/ Run(c) PROVE d \in subs'
  BY <1>2, Moves DEF Subscribed
<1>3. QED
  BY <1>1, <1>2, Steps

(* A callback outlives its call only when that threw or stalled. *)
LEMMA NextRegistered ==
    TypeOK /\ Registered /\ [Next]_vars => Registered'
<1>. DEFINE Held(c) == \/ pc[c] \in {"publish", "poll", "unsubscribe", "giveup"}
                       \/ pc[c] = "ended" /\ value[c] = Failed
                       \/ pc[c] = "ended" /\ elapsed[c] = ExceptionTimeout
<1>. SUFFICES ASSUME TypeOK, Registered, [Next]_vars, NEW d \in Call, d \in subs'
              PROVE  Held(d)'
  BY NextType DEF Registered, TypeOK
<1>1. d \in subs => Held(d)
  BY DEF Registered
<1>2. CASE Tick
  BY <1>1, <1>2 DEF Tick, TypeOK, Running
<1>3. CASE Environment /\ ~Tick
  <2>1. UNCHANGED <<pc, value, subs, elapsed>>
    BY <1>3 DEF Environment, Deliver, Lose, AgentAccepts, AgentFinishes, Send, vars, call
  <2>2. QED
    BY <1>1, <2>1
<1>4. ASSUME NEW c \in Call, Invoke(c) \/ Run(c) PROVE Held(d)'
  <2>1. elapsed' = elapsed
    BY <1>4 DEF Invoke, Run, Subscribe, Publish, Poll, PollTimeout, PollCompleted,
       PollExpired, Unsubscribe
  <2>2. CASE d # c
    BY <1>1, <1>4, <2>1, <2>2, Moves
  <2>3. CASE d = c
    <3>1. CASE Invoke(c)
      BY <1>1, <2>3, <3>1 DEF Invoke, TypeOK
    <3>2. CASE Subscribe(c)
      BY <1>1, <2>3, <3>2 DEF Subscribe, Step, End, Goto, TypeOK
    <3>3. CASE Publish(c)
      BY <1>1, <2>3, <3>3 DEF Publish, Step, End, Goto, TypeOK
    <3>4. CASE PollTimeout(c) \/ PollCompleted(c)
      BY <2>3, <3>4 DEF PollTimeout, PollCompleted, Step, Goto, TypeOK
    <3>5. CASE PollExpired(c)
      <4>1. elapsed[c] = ExceptionTimeout
        BY <3>5, TimeoutAssumption DEF PollExpired, InLoop, TypeOK
      <4>2. QED
        BY <2>1, <2>3, <3>5, <4>1 DEF PollExpired, End, Goto, TypeOK
    <3>6. CASE Unsubscribe(c)
      BY <2>3, <3>6 DEF Unsubscribe, End, Goto, TypeOK
    <3>7. QED
      BY <1>4, <3>1, <3>2, <3>3, <3>4, <3>5, <3>6 DEF Run, Poll
  <2>4. QED
    BY <2>2, <2>3
<1>5. QED
  BY <1>2, <1>3, <1>4, Steps

(***************************************************************************)
(* What is counted.                                                        *)
(***************************************************************************)

LEMMA HeardIs ==
    ASSUME NEW c, NEW n
    PROVE  /\ n \in Heard(c) <=> /\ n \in Node
                                 /\ work[c][n] \in {"accepted"} \cup Finish
                                 /\ ~Has(net[c][n])
           /\ n \in HeardOut(c) <=> n \in Node /\ work[c][n] \in Finish /\ net[c][n] = <<>>
BY DEF Heard, HeardOut, Has

LEMMA HeardFinite ==
    ASSUME NEW c
    PROVE  /\ IsFiniteSet(Heard(c)) /\ IsFiniteSet(HeardOut(c))
           /\ HeardOut(c) \subseteq Heard(c)
<1>1. Heard(c) \subseteq Node /\ HeardOut(c) \subseteq Node
  BY DEF Heard, HeardOut
<1>2. ~Has(<<>>)
  BY DEF Has
<1>3. QED
  BY <1>1, <1>2, HeardIs, NodeAssumption, FS_Subset

(* A message that arrives adds its agent to the heard or to the heard out. *)
LEMMA DeliverHeard ==
    ASSUME TypeOK, Queues, NEW c \in Call, NEW n \in Node, net[c][n] # <<>>,
           work' = work, net' = [net EXCEPT ![c][n] = Tail(@)]
    PROVE  \/ /\ Head(net[c][n]) = "accepted"
              /\ n \notin Heard(c) /\ Heard(c)' = Heard(c) \cup {n}
              /\ HeardOut(c)' = HeardOut(c)
           \/ /\ Head(net[c][n]) \in Finish /\ Head(net[c][n]) = work[c][n]
              /\ n \notin HeardOut(c) /\ HeardOut(c)' = HeardOut(c) \cup {n}
              /\ Heard(c)' = Heard(c)
<1>. DEFINE q == net[c][n]
<1>1. /\ q \in Seq(Message) /\ work[c][n] \in Work
      /\ QueueOf(work[c][n], q)
  BY DEF TypeOK, Queues
<1>2. /\ net'[c][n] = Tail(q)
      /\ \A k \in Node \ {n} : net'[c][k] = net[c][k]
  BY DEF TypeOK
<1>3. \A k \in Node \ {n} : /\ k \in Heard(c)' <=> k \in Heard(c)
                            /\ k \in HeardOut(c)' <=> k \in HeardOut(c)
  BY <1>2 DEF Heard, HeardOut
<1>4. /\ n \in Heard(c)' <=> work[c][n] \in {"accepted"} \cup Finish /\ ~Has(Tail(q))
      /\ n \in HeardOut(c)' <=> work[c][n] \in Finish /\ Tail(q) = <<>>
  BY <1>2 DEF Heard, HeardOut, Has
<1>5. Heard(c)' \subseteq Node /\ HeardOut(c)' \subseteq Node
  BY DEF Heard, HeardOut
<1>6. CASE /\ Head(q) = "accepted" /\ Has(q)
           /\ work[c][n] = "accepted" \/ (work[c][n] \in Finish /\ Tail(q) # <<>>)
  <2>1. n \notin Heard(c) /\ n \in Heard(c)'
    BY <1>1, <1>4, <1>6, TakeOne, HeardIs
  <2>2. n \notin HeardOut(c) /\ n \notin HeardOut(c)'
    BY <1>4, <1>6, HeardIs DEF Finish
  <2>3. QED
    BY <1>3, <1>5, <1>6, <2>1, <2>2 DEF Heard, HeardOut
<1>7. CASE Head(q) = work[c][n] /\ work[c][n] \in Finish /\ ~Has(q) /\ Tail(q) = <<>>
  <2>1. n \in Heard(c) /\ n \in Heard(c)'
    BY <1>1, <1>4, <1>7, TakeOne, HeardIs
  <2>2. n \notin HeardOut(c) /\ n \in HeardOut(c)'
    BY <1>4, <1>7, HeardIs
  <2>3. QED
    BY <1>3, <1>5, <1>7, <2>1, <2>2 DEF Heard, HeardOut
<1>8. QED
  BY <1>1, <1>6, <1>7, TakeOne

(* What an agent sends is not heard before it is delivered. *)
LEMMA SendHeard ==
    ASSUME TypeOK, Queues, NEW c \in Call, NEW n \in Node, NEW m, Send(c, n, m),
           \/ work[c][n] = "asked" /\ m = "accepted"
           \/ work[c][n] = "accepted" /\ m \in Finish
    PROVE  Heard(c)' = Heard(c) /\ HeardOut(c)' = HeardOut(c)
<1>. DEFINE q == net[c][n]
<1>1. /\ work'[c][n] = m /\ net'[c][n] = Append(q, m)
      /\ \A k \in Node \ {n} : work'[c][k] = work[c][k] /\ net'[c][k] = net[c][k]
  BY DEF Send, TypeOK
<1>2. /\ Append(q, m) # <<>>
      /\ Has(Append(q, m)) <=> m = "accepted" \/ Has(q)
  <2>1. q \in Seq(Message) /\ QueueOf(work[c][n], q)
    BY DEF Queues, TypeOK
  <2>2. QED
    BY <2>1, SendOne
<1>3. /\ n \in Heard(c)' <=> m \in {"accepted"} \cup Finish /\ ~Has(Append(q, m))
      /\ n \in HeardOut(c)' <=> m \in Finish /\ Append(q, m) = <<>>
  BY <1>1 DEF Heard, HeardOut, Has
<1>4. n \notin HeardOut(c)' /\ n \notin HeardOut(c)
  BY <1>2, <1>3, HeardIs DEF Finish
<1>5. n \in Heard(c)' <=> n \in Heard(c)
  <2>1. CASE m = "accepted"
    BY <1>2, <1>3, <2>1, HeardIs DEF Finish
  <2>2. CASE m \in Finish
    BY <1>2, <1>3, <2>2, HeardIs DEF Finish
  <2>3. QED
    BY <2>1, <2>2
<1>6. \A k \in Node \ {n} : /\ k \in Heard(c)' <=> k \in Heard(c)
                            /\ k \in HeardOut(c)' <=> k \in HeardOut(c)
  BY <1>1 DEF Heard, HeardOut
<1>7. /\ Heard(c) \subseteq Node /\ HeardOut(c) \subseteq Node
      /\ Heard(c)' \subseteq Node /\ HeardOut(c)' \subseteq Node
  BY DEF Heard, HeardOut
<1>8. QED
  BY <1>4, <1>5, <1>6, <1>7

LEMMA NextFresh ==
    TypeOK /\ Fresh /\ Queues /\ [Next]_vars => Fresh'
<1>. SUFFICES ASSUME TypeOK, Fresh, Queues, [Next]_vars, NEW d \in Call, Unpublished(d)'
              PROVE  Untouched(d)'
  BY DEF Fresh
<1>1. ASSUME NEW c \in Call, Invoke(c) \/ Subscribe(c) \/ Poll(c) \/ Unsubscribe(c)
      PROVE  Untouched(d)'
  BY <1>1, AgentsKept, Moves DEF Fresh, Untouched, Run
<1>2. ASSUME NEW c \in Call, Publish(c) PROVE Untouched(d)'
  <2>1. d # c
    BY <1>2 DEF Publish, Step, End, Goto, Unpublished, TypeOK
  <2>2. Unpublished(d)
    BY <1>2, Moves DEF Run
  <2>3. QED
    BY <1>2, <2>1, <2>2, PublishMeets DEF Fresh, Untouched
<1>3. ASSUME Environment PROVE Untouched(d)'
  <2>1. Untouched(d) /\ Unpublished(d)
    BY <1>3, EnvironmentKeeps DEF Fresh, Unpublished
  <2>2. \A k \in Node : Len(net[d][k]) = 0
    BY <2>1 DEF Queues, QueueOf, Untouched
  <2>3. ASSUME NEW c \in Call, NEW n \in Node, Deliver(c, n) PROVE Untouched(d)'
    <3>1. net[c][n] # <<>> /\ net[c][n] \in Seq(Message)
      BY <2>3 DEF Deliver, TypeOK
    <3>2. c # d
      BY <2>2, <3>1
    <3>3. accepted'[d] = accepted[d] /\ completed'[d] = completed[d] /\ result'[d] = result[d]
      BY <2>3, <3>2 DEF Deliver, Callback, counts, TypeOK
    <3>4. QED
      BY <2>1, <2>3, <3>3 DEF Deliver, Untouched
  <2>4. ASSUME NEW c \in Call, NEW n \in Node, AgentAccepts(c, n) \/ AgentFinishes(c, n)
        PROVE  Untouched(d)'
    <3>1. c # d
      BY <2>1, <2>4 DEF AgentAccepts, AgentFinishes, Untouched
    <3>2. work'[d] = work[d] /\ UNCHANGED counts
      BY <2>4, <3>1 DEF AgentAccepts, AgentFinishes, Send, TypeOK
    <3>3. QED
      BY <2>1, <3>2 DEF Untouched, counts
  <2>5. CASE (\E c \in Call, n \in Node : Lose(c, n)) \/ Tick \/ UNCHANGED vars
    BY <2>1, <2>5 DEF Lose, Tick, vars, agents, counts, Untouched
  <2>6. QED
    BY <1>3, <2>3, <2>4, <2>5 DEF Environment
<1>4. QED
  BY <1>1, <1>2, <1>3, Steps DEF Run

(* Data that is counted came from an agent that ran the task. *)
LEMMA NextRan ==
    TypeOK /\ Fresh /\ Queues /\ ResultRan /\ [Next]_vars => ResultRan'
<1>. SUFFICES ASSUME TypeOK, Fresh, Queues, ResultRan, [Next]_vars, NEW d \in Call,
                     NEW k \in result'[d]
              PROVE  work'[d][k] = "data"
  BY DEF ResultRan
<1>1. ASSUME NEW c \in Call, Invoke(c) \/ Subscribe(c) \/ Poll(c) \/ Unsubscribe(c)
      PROVE  work'[d][k] = "data"
  BY <1>1, AgentsKept DEF ResultRan
<1>2. ASSUME NEW c \in Call, Publish(c) PROVE work'[d][k] = "data"
  BY <1>2, PublishMeets DEF ResultRan, Untouched
<1>3. ASSUME NEW c \in Call, NEW n \in Node, Deliver(c, n) PROVE work'[d][k] = "data"
  <2>1. work' = work /\ net' = [net EXCEPT ![c][n] = Tail(@)] /\ net[c][n] # <<>>
    BY <1>3 DEF Deliver
  <2>2. k \notin result[d] => d = c /\ k = n /\ Head(net[c][n]) = "data"
    BY <1>3 DEF Deliver, Callback, counts, TypeOK
  <2>3. CASE k \in result[d]
    BY <2>1, <2>3 DEF ResultRan
  <2>4. CASE k \notin result[d]
    BY <2>1, <2>2, <2>4, DeliverHeard
  <2>5. QED
    BY <2>3, <2>4
<1>4. ASSUME NEW c \in Call, NEW n \in Node, AgentAccepts(c, n) \/ AgentFinishes(c, n)
      PROVE  work'[d][k] = "data"
  <2>1. result' = result
    BY <1>4 DEF AgentAccepts, AgentFinishes, Send, counts
  <2>2. work[d][k] = "data" /\ ~(d = c /\ k = n)
    BY <1>4, <2>1 DEF AgentAccepts, AgentFinishes, ResultRan
  <2>3. work'[d][k] = work[d][k]
    BY <1>4, <2>1, <2>2 DEF AgentAccepts, AgentFinishes, Send, TypeOK
  <2>4. QED
    BY <2>2, <2>3
<1>5. CASE (\E c \in Call, n \in Node : Lose(c, n)) \/ Tick \/ UNCHANGED vars
  BY <1>5 DEF Lose, Tick, vars, agents, counts, ResultRan
<1>6. QED
  BY <1>1, <1>2, <1>3, <1>4, <1>5 DEF Next, Run

LEMMA NextCounted ==
    TypeOK /\ Fresh /\ Queues /\ Subscribed /\ Counted /\ [Next]_vars => Counted'
<1>. SUFFICES ASSUME TypeOK, Fresh, Queues, Subscribed, Counted, [Next]_vars,
                     NEW d \in Call, pc'[d] = "poll", d \notin lost'
              PROVE  /\ accepted'[d] = Cardinality(Heard(d)')
                     /\ completed'[d] = Cardinality(HeardOut(d)')
  BY DEF Counted
<1>. DEFINE Goal == /\ accepted'[d] = Cardinality(Heard(d)')
                    /\ completed'[d] = Cardinality(HeardOut(d)')
<1>1. ASSUME pc[d] = "poll", d \notin lost, accepted'[d] = accepted[d],
             completed'[d] = completed[d], Heard(d)' = Heard(d), HeardOut(d)' = HeardOut(d)
      PROVE  Goal
  BY <1>1 DEF Counted
<1>2. ASSUME NEW c \in Call, Invoke(c) \/ Subscribe(c) \/ Poll(c) \/ Unsubscribe(c)
      PROVE  Goal
  <2>1. UNCHANGED <<work, net, accepted, completed, lost>>
    BY <1>2, AgentsKept
  <2>2. pc[d] = "poll"
    BY <1>2 DEF Invoke, Subscribe, Poll, PollTimeout, PollCompleted, PollExpired,
       Unsubscribe, Step, End, Goto, TypeOK
  <2>3. QED
    BY <1>1, <2>1, <2>2 DEF Heard, HeardOut
<1>3. ASSUME NEW c \in Call, Publish(c) PROVE Goal
  <2>1. CASE c = d
    <3>1. Heard(d)' = {} /\ HeardOut(d)' = {}
      BY <1>3, <2>1, PublishMeets DEF Heard, HeardOut, Finish
    <3>2. accepted'[d] = 0 /\ completed'[d] = 0
      BY <1>3, <2>1, PublishMeets DEF Untouched
    <3>3. QED
      BY <3>1, <3>2, FS_EmptySet
  <2>2. CASE c # d
    <3>1. pc[d] = "poll" /\ work'[d] = work[d] /\ UNCHANGED <<net, accepted, completed, lost>>
      BY <1>3, <2>2, PublishMeets, Moves DEF Run
    <3>2. QED
      BY <1>1, <3>1 DEF Heard, HeardOut
  <2>3. QED
    BY <2>1, <2>2
<1>4. ASSUME NEW c \in Call, NEW n \in Node, Deliver(c, n) PROVE Goal
  <2>0. /\ UNCHANGED <<pc, work, lost>> /\ net[c][n] # <<>>
        /\ net' = [net EXCEPT ![c][n] = Tail(@)]
    BY <1>4 DEF Deliver, call
  <2>1. CASE c # d
    <3>1. net'[d] = net[d] /\ accepted'[d] = accepted[d] /\ completed'[d] = completed[d]
      BY <1>4, <2>1 DEF Deliver, Callback, counts, TypeOK
    <3>2. QED
      BY <1>1, <2>0, <3>1 DEF Heard, HeardOut
  <2>2. CASE c = d
    <3>1. Callback(c, n, Head(net[c][n]))
      BY <1>4, <2>0, <2>2 DEF Deliver, Subscribed
    <3>2. /\ accepted[d] = Cardinality(Heard(d)) /\ completed[d] = Cardinality(HeardOut(d))
          /\ accepted[d] \in Nat /\ completed[d] \in Nat
      BY <2>0 DEF Counted, TypeOK
    <3>3. CASE /\ Head(net[c][n]) = "accepted"
               /\ n \notin Heard(c) /\ Heard(c)' = Heard(c) \cup {n}
               /\ HeardOut(c)' = HeardOut(c)
      <4>1. accepted'[d] = accepted[d] + 1 /\ completed'[d] = completed[d]
        BY <2>2, <3>1, <3>3 DEF Callback, TypeOK, Finish
      <4>2. Cardinality(Heard(d) \cup {n}) = Cardinality(Heard(d)) + 1
        BY <2>2, <3>3, HeardFinite, FS_AddElement
      <4>3. QED
        BY <2>2, <3>2, <3>3, <4>1, <4>2
    <3>4. CASE /\ Head(net[c][n]) \in Finish
               /\ n \notin HeardOut(c) /\ HeardOut(c)' = HeardOut(c) \cup {n}
               /\ Heard(c)' = Heard(c)
      <4>1. accepted'[d] = accepted[d] /\ completed'[d] = completed[d] + 1
        BY <2>2, <3>1, <3>4 DEF Callback, TypeOK, Finish
      <4>2. Cardinality(HeardOut(d) \cup {n}) = Cardinality(HeardOut(d)) + 1
        BY <2>2, <3>4, HeardFinite, FS_AddElement
      <4>3. QED
        BY <2>2, <3>2, <3>4, <4>1, <4>2
    <3>5. QED
      BY <2>0, <3>3, <3>4, DeliverHeard
  <2>3. QED
    BY <2>1, <2>2
<1>5. ASSUME NEW c \in Call, NEW n \in Node, Lose(c, n) PROVE Goal
  <2>1. c # d /\ UNCHANGED <<pc, work, accepted, completed>> /\ d \notin lost
    BY <1>5 DEF Lose, call, counts
  <2>2. net'[d] = net[d]
    BY <1>5, <2>1 DEF Lose, TypeOK
  <2>3. QED
    BY <1>1, <2>1, <2>2 DEF Heard, HeardOut
<1>6. ASSUME NEW c \in Call, NEW n \in Node, NEW m \in Message, Send(c, n, m),
             \/ work[c][n] = "asked" /\ m = "accepted"
             \/ work[c][n] = "accepted" /\ m \in Finish
      PROVE  Goal
  <2>1. UNCHANGED <<pc, accepted, completed, lost>>
    BY <1>6 DEF Send, call, counts
  <2>2. CASE c # d
    <3>1. work'[d] = work[d] /\ net'[d] = net[d]
      BY <1>6, <2>2 DEF Send, TypeOK
    <3>2. QED
      BY <1>1, <2>1, <3>1 DEF Heard, HeardOut
  <2>3. CASE c = d
    BY <1>1, <1>6, <2>1, <2>3, SendHeard
  <2>4. QED
    BY <2>2, <2>3
<1>7. CASE Tick \/ UNCHANGED vars
  BY <1>1, <1>7 DEF Tick, vars, call, counts, agents, Heard, HeardOut
<1>8. QED
  BY <1>2, <1>3, <1>4, <1>5, <1>6, <1>7
     DEF Next, Run, AgentAccepts, AgentFinishes, Message

(***************************************************************************)
(* Theorems.                                                               *)
(***************************************************************************)

LEMMA InitInv == Init => IInv
<1>. SUFFICES ASSUME Init PROVE IInv
  OBVIOUS
<1>1. TypeOK
  BY InitType
<1>2. Queues
  BY DEF Init, Queues, QueueOf, Finish
<1>3. Fresh /\ ResultRan /\ ValuePending /\ Subscribed /\ Registered /\ Counted
  BY DEF Init, Fresh, Untouched, ResultRan, ValuePending, Subscribed, Registered, Counted
<1>4. QED
  BY <1>1, <1>2, <1>3 DEF IInv

LEMMA NextInv == IInv /\ [Next]_vars => IInv'
BY NextType, NextQueues, NextFresh, NextRan, NextPending, NextSubscribed, NextRegistered,
   NextCounted DEF IInv

LEMMA Invariance == Spec => []IInv
BY InitInv, NextInv, PTL DEF Spec

(* Type correctness of a call, for any nodes and timeouts. *)
THEOREM TypeCorrect == Spec => []TypeOK
<1>1. QED
  BY InitType, NextType, PTL DEF Spec

(* A callback stays registered after its call only if that threw or stalled *)
(* (157-195 of task-agent.helper.ts).                                       *)
THEOREM CallbacksRemoved == Spec => []Registered
<1>1. IInv => Registered
  BY DEF IInv
<1>2. QED
  BY <1>1, Invariance, PTL

(* Two counters are enough to know that every agent heard of has finished,  *)
(* unless a message was lost: a call is complete no sooner (185).           *)
THEOREM CountingSuffices == Spec => CountsSuffice
<1>1. ASSUME IInv, NEW c \in Call, PollCompleted(c), c \notin lost
      PROVE  Heard(c) # {} /\ Heard(c) = HeardOut(c)
  <2>1. /\ accepted[c] > 0 /\ completed[c] >= accepted[c]
        /\ accepted[c] = Cardinality(Heard(c)) /\ accepted[c] \in Nat
        /\ completed[c] = Cardinality(HeardOut(c)) /\ completed[c] \in Nat
    BY <1>1 DEF PollCompleted, InLoop, AllCompleted, IInv, Counted, TypeOK
  <2>2. Cardinality(HeardOut(c)) <= Cardinality(Heard(c))
    BY HeardFinite, FS_Subset
  <2>3. Cardinality(Heard(c)) = Cardinality(HeardOut(c))
    BY <2>1, <2>2
  <2>4. Heard(c) = HeardOut(c)
    BY <2>3, HeardFinite, FS_Subset
  <2>5. QED
    BY <2>1, <2>4, FS_EmptySet
<1>2. IInv => [\A c \in Call : PollCompleted(c) /\ c \notin lost
                 => Heard(c) # {} /\ Heard(c) = HeardOut(c)]_vars
  BY <1>1
<1>3. QED
  BY <1>2, Invariance, PTL DEF CountsSuffice

(* What a caller sees of a call is a call of TaskCall: it ends at most once, *)
(* with `undefined', an error, or data of agents that ran the task.          *)
THEOREM Refinement == Spec => CallerSpec
<1>. DEFINE opened == {c \in Call : pc[c] # "idle"}
            rans == [c \in Call |-> {n \in Node : work[c][n] = "data"}]
<1>1. Init => Caller!CallInit
  BY DEF Init, Caller!CallInit
<1>2. ASSUME IInv, [Next]_vars
      PROVE  [Caller!CallNext]_(Caller!callVars)
  <2>. USE DEF IInv
  <2>1. ASSUME NEW c \in Call, Invoke(c) PROVE Caller!Open(c)
    <3>1. opened' = opened \cup {c} /\ c \notin opened
      BY <1>2, <2>1 DEF Invoke, Step, Goto, TypeOK, Pc
    <3>2. rans' = rans /\ value' = value
      BY <2>1 DEF Invoke, Step, agents
    <3>3. QED
      BY <3>1, <3>2 DEF Caller!Open
  <2>2. ASSUME NEW c \in Call, Run(c)
        PROVE  UNCHANGED Caller!callVars \/ \E v \in Caller!Value : Caller!Close(c, v)
    <3>1. opened' = opened /\ c \in opened
      BY <1>2, <2>2, Moves DEF Run, Subscribe, Publish, Poll, PollTimeout, PollCompleted,
         PollExpired, Unsubscribe, Step, End, Goto, TypeOK, Pc, InLoop
    <3>2. rans' = rans
      <4>1. CASE Publish(c)
        BY <1>2, <4>1, PublishMeets DEF Untouched
      <4>2. CASE ~Publish(c)
        BY <2>2, <4>2, AgentsKept DEF Run
      <4>3. QED
        BY <4>1, <4>2
    <3>3. value' = value \/ \E v \in {Undefined, Failed, result[c]} : End(c, v)
      BY <2>2 DEF Run, Subscribe, Publish, Poll, PollTimeout, PollCompleted, PollExpired,
         Unsubscribe, Step
    <3>4. CASE value' = value
      BY <3>1, <3>2, <3>4 DEF Caller!callVars
    <3>5. ASSUME NEW v \in {Undefined, Failed, result[c]}, End(c, v)
          PROVE  v \in Caller!Value /\ Caller!Close(c, v)
      <4>1. value[c] = Pending
        BY <1>2, <2>2, Moves DEF ValuePending
      <4>2. result[c] \in SUBSET rans[c]
        BY <1>2 DEF ResultRan, TypeOK
      <4>3. v \in Caller!Value
        BY <1>2 DEF Caller!Value, TypeOK
      <4>4. QED
        BY <3>1, <3>2, <3>5, <4>1, <4>2, <4>3 DEF Caller!Close, End
    <3>6. QED
      BY <3>3, <3>4, <3>5
  <2>3. ASSUME NEW c \in Call, NEW n \in Node, NEW m \in Message, Send(c, n, m),
               work[c][n] \in {"asked", "accepted"}
        PROVE  UNCHANGED Caller!callVars \/ Caller!Run(c, n)
    <3>1. opened' = opened /\ value' = value
      BY <2>3 DEF Send, call
    <3>2. c \in opened
      BY <1>2, <2>3 DEF Fresh, Unpublished, Untouched
    <3>3. CASE m = "data"
      <4>1. rans' = [rans EXCEPT ![c] = @ \cup {n}]
        BY <1>2, <2>3, <3>3 DEF Send, TypeOK
      <4>2. QED
        BY <3>1, <3>2, <4>1 DEF Caller!Run
    <3>4. CASE m # "data"
      <4>1. rans' = rans
        BY <1>2, <2>3, <3>4 DEF Send, TypeOK
      <4>2. QED
        BY <3>1, <4>1 DEF Caller!callVars
    <3>5. QED
      BY <3>3, <3>4
  <2>4. CASE \/ \E c \in Call, n \in Node : Deliver(c, n) \/ Lose(c, n)
             \/ Tick
             \/ UNCHANGED vars
    BY <2>4 DEF Deliver, Lose, Tick, vars, call, agents, Caller!callVars
  <2>5. QED
    BY <1>2, <2>1, <2>2, <2>3, <2>4
       DEF Next, Caller!CallNext, AgentAccepts, AgentFinishes, Message
<1>3. QED
  BY <1>1, <1>2, Invariance, PTL DEF Spec, CallerSpec, Caller!CallSpec

(* What the refinement gives a caller: data of nodes that ran the task, all *)
(* of them done when it is returned, and never another value after it.      *)
ReturnedRan == \A c \in Call : value[c] \notin {Undefined, Failed, Pending} =>
               \A n \in value[c] : n \in Node /\ work[c][n] = "data"

ValueFinal == [][\A c \in Call : value[c] # Pending => value'[c] = value[c]]_vars

LEMMA CallSteps ==
    ASSUME TypeOK, TypeOK', [Caller!CallNext]_(Caller!callVars), NEW c \in Call
    PROVE  /\ value[c] # Pending => value'[c] = value[c]
           /\ \/ value'[c] = value[c]
              \/ value'[c] \in {Undefined, Failed}
              \/ \A n \in value'[c] : n \in Node /\ work'[c][n] = "data"
           /\ \A n \in Node : work[c][n] = "data" => work'[c][n] = "data"
<1> DEFINE rans == [d \in Call |-> {n \in Node : work[d][n] = "data"}]
<1>1. \A n \in Node : /\ n \in rans[c] <=> work[c][n] = "data"
                      /\ n \in rans'[c] <=> work'[c][n] = "data"
  OBVIOUS
<1>2. DOMAIN value = Call /\ DOMAIN rans = Call /\ rans[c] \subseteq Node
  BY DEF TypeOK
<1> HIDE DEF rans
<1>3. CASE UNCHANGED Caller!callVars
  <2>1. value' = value /\ rans' = rans
    BY <1>3 DEF Caller!callVars, rans
  <2>2. QED
    BY <1>1, <2>1
<1>4. ASSUME NEW d \in Call, Caller!Open(d) PROVE value' = value /\ rans' = rans
  BY <1>4 DEF Caller!Open, rans
<1>5. ASSUME NEW d \in Call, NEW n \in Node, Caller!Run(d, n)
      PROVE  value' = value /\ rans' = [rans EXCEPT ![d] = @ \cup {n}]
  BY <1>5 DEF Caller!Run, rans
<1>6. ASSUME NEW d \in Call, NEW v \in Caller!Value, Caller!Close(d, v)
      PROVE  /\ rans' = rans /\ value[d] = Pending
             /\ v \in (SUBSET rans[d]) \cup {Undefined, Failed}
             /\ value' = [value EXCEPT ![d] = v]
  BY <1>6 DEF Caller!Close, rans
<1>7. ASSUME NEW d \in Call, NEW n \in Node, Caller!Run(d, n)
      PROVE  value' = value /\ \A m \in Node : m \in rans[c] => m \in rans'[c]
  BY <1>2, <1>5, <1>7
<1>8. CASE \E d \in Call : Caller!Open(d) \/ \E n \in Node : Caller!Run(d, n)
  BY <1>1, <1>4, <1>7, <1>8
<1>9. CASE \E d \in Call : \E v \in Caller!Value : Caller!Close(d, v)
  <2>1. PICK d \in Call, v \in Caller!Value : Caller!Close(d, v)
    BY <1>9
  <2>2. /\ rans' = rans /\ value[d] = Pending
        /\ v \in (SUBSET rans[d]) \cup {Undefined, Failed}
        /\ value' = [value EXCEPT ![d] = v]
    BY <1>6, <2>1
  <2>3. CASE d = c
    BY <1>1, <1>2, <2>2, <2>3
  <2>4. CASE d # c
    BY <1>1, <1>2, <2>2, <2>4
  <2>5. QED
    BY <2>3, <2>4
<1>10. QED
  BY <1>3, <1>8, <1>9 DEF Caller!CallNext

(* Nothing a node answers late takes the place of what was returned, and    *)
(* what was returned is never made up (invokeTask, 91-195).                 *)
THEOREM CallersServed == Spec => []ReturnedRan /\ ValueFinal
<1>1. Init => ReturnedRan
  BY DEF Init, ReturnedRan
<1>2. TypeOK /\ TypeOK' /\ ReturnedRan /\ [Caller!CallNext]_(Caller!callVars) => ReturnedRan'
  <2> SUFFICES ASSUME TypeOK, TypeOK', ReturnedRan, [Caller!CallNext]_(Caller!callVars),
                      NEW c \in Call, value'[c] \notin {Undefined, Failed, Pending},
                      NEW n \in value'[c]
               PROVE  n \in Node /\ work'[c][n] = "data"
    BY DEF ReturnedRan
  <2>1. QED
    BY CallSteps DEF ReturnedRan
<1>3. TypeOK /\ TypeOK' /\ [Caller!CallNext]_(Caller!callVars)
        => [\A c \in Call : value[c] # Pending => value'[c] = value[c]]_vars
  BY CallSteps
<1>4. QED
  BY <1>1, <1>2, <1>3, TypeCorrect, Refinement, PTL
     DEF Spec, CallerSpec, Caller!CallSpec, ValueFinal

-----------------------------------------------------------------------------
\* The primary process and its workers

(* An exit or a disconnect follows a death, and is handled after listening; *)
(* a worker that is yet to listen has no events.                            *)
EventsFollow ==
    \A w \in Worker : /\ "exit" \in events[w] => life[w] = "dead"
                      /\ "disconnect" \in events[w] => life[w] = "dead"
                      /\ life[w] = "forked" => events[w] = {}
                      /\ life[w] = "dead" /\ "listening" \in events[w]
                            => {"exit", "disconnect"} \subseteq events[w]

(* Workers that are counted, or were never to be. *)
CountedOnline == {w \in Online : "listening" \notin events[w]}

CountBounded == workersOnline <= Cardinality(CountedOnline)

(* Workers that are yet to listen, and those whose death is settled. *)
ToCome == {w \in Worker : life[w] = "forked" \/ "listening" \in events[w]}
Gone == {w \in Worker : life[w] = "dead" /\ "exit" \notin events[w]}

(* After READY or STOPPING either all have listened or one is gone for good. *)
Announced == status # "" => ToCome = {} \/ Gone # {}

(* A disconnect that was handled stopped the server or came before READY. *)
DisconnectsHandled ==
    \A w \in Worker : life[w] = "dead" /\ "disconnect" \notin events[w]
                          => w \in unheard \/ status = "STOPPING=1"

ClusterInv == /\ ClusterTypeOK /\ EventsFollow /\ CountBounded /\ Announced
              /\ DisconnectsHandled /\ ReadyMeansAll

LEMMA WorkersCount == Cardinality(Worker) \in Nat \ {0}
BY WorkerAssumption, FS_CardinalityType, FS_EmptySet

LEMMA SetsFinite ==
    /\ IsFiniteSet(CountedOnline) /\ Cardinality(CountedOnline) \in Nat
    /\ IsFiniteSet(Online) /\ Cardinality(Online) \in Nat
    /\ Cardinality(CountedOnline) <= Cardinality(Online)
    /\ Cardinality(CountedOnline) <= Cardinality(Worker)
    /\ Cardinality(Worker) = Cardinality(CountedOnline) => CountedOnline = Worker
<1>1. CountedOnline \subseteq Online /\ Online \subseteq Worker /\ CountedOnline \subseteq Worker
  BY DEF Online, CountedOnline
<1>2. QED
  BY <1>1, WorkerAssumption, FS_Subset, FS_CardinalityType, FS_EmptySet

LEMMA CountNumbers ==
    ASSUME ClusterTypeOK, CountBounded
    PROVE  /\ workersOnline \in Nat
           /\ Cardinality(CountedOnline) \in Nat
           /\ workersOnline <= Cardinality(CountedOnline)
<1>1. workersOnline \in 0 .. Cardinality(Worker)
  BY DEF ClusterTypeOK
<1>2. workersOnline \in Nat
  BY <1>1, WorkersCount
<1>3. QED
  BY <1>2, SetsFinite DEF CountBounded

(* A count that the counted workers bound is one of 0 .. workersAmount. *)
LEMMA CountInRange ==
    ASSUME NEW n \in Nat, NEW S \in SUBSET Worker, n <= Cardinality(S)
    PROVE  n \in 0 .. Cardinality(Worker)
<1>1. Cardinality(S) \in Nat /\ Cardinality(S) <= Cardinality(Worker)
  BY WorkerAssumption, FS_Subset, FS_CardinalityType
<1>2. n <= Cardinality(Worker)
  BY <1>1, WorkersCount
<1>3. QED
  BY <1>2, WorkersCount

(* When every worker is counted, none is still to come and none gone. *)
LEMMA AllCounted == CountedOnline = Worker => ToCome = {} /\ Gone = {}
<1>. SUFFICES ASSUME CountedOnline = Worker, NEW w \in Worker
              PROVE  w \notin ToCome /\ w \notin Gone
  BY DEF ToCome, Gone
<1>1. w \in CountedOnline
  OBVIOUS
<1>2. QED
  BY <1>1 DEF CountedOnline, Online, ToCome, Gone

LEMMA InitCluster == ClusterInit => ClusterInv
<1>. SUFFICES ASSUME ClusterInit PROVE ClusterInv
  OBVIOUS
<1>1. ClusterTypeOK
  <2>1. workersOnline \in 0 .. Cardinality(Worker)
    <3>1. workersOnline = 0
      BY DEF ClusterInit
    <3>2. QED
      BY <3>1, WorkersCount
  <2>2. QED
    BY <2>1 DEF ClusterInit, ClusterTypeOK, Event
<1>2. EventsFollow /\ Announced /\ DisconnectsHandled /\ ReadyMeansAll
  BY DEF ClusterInit, EventsFollow, Announced, DisconnectsHandled, ReadyMeansAll
<1>3. CountBounded
  <2>1. workersOnline = 0
    BY DEF ClusterInit
  <2>2. QED
    BY <2>1, SetsFinite DEF CountBounded
<1>4. QED
  BY <1>1, <1>2, <1>3 DEF ClusterInv

-----------------------------------------------------------------------------
(* The events of a worker. *)

LEMMA ListenInv == ASSUME ClusterInv, NEW w \in Worker, Listen(w) PROVE ClusterInv'
<1>. USE DEF ClusterInv
<1>1. /\ life[w] = "forked" /\ life'[w] = "serving" /\ events'[w] = {"listening"}
      /\ \A v \in Worker \ {w} : life'[v] = life[v] /\ events'[v] = events[v]
  BY DEF Listen, ClusterTypeOK, EventsFollow
<1>2. ClusterTypeOK'
  BY DEF Listen, ClusterTypeOK, Event
<1>3. EventsFollow' /\ DisconnectsHandled' /\ ReadyMeansAll'
  BY <1>1 DEF Listen, EventsFollow, DisconnectsHandled, ReadyMeansAll
<1>4. CountedOnline' = CountedOnline /\ Gone' = Gone /\ w \in ToCome
  BY <1>1 DEF CountedOnline, Online, Gone, ToCome
<1>5. Announced' /\ CountBounded'
  BY <1>4 DEF Listen, Announced, CountBounded
<1>6. QED
  BY <1>2, <1>3, <1>5

LEMMA DieInv == ASSUME ClusterInv, NEW w \in Worker, Die(w) PROVE ClusterInv'
<1>. USE DEF ClusterInv
<1>1. /\ life[w] # "dead" /\ life'[w] = "dead"
      /\ events'[w] = events[w] \cup {"exit", "disconnect"}
      /\ \A v \in Worker \ {w} : life'[v] = life[v] /\ events'[v] = events[v]
  BY DEF Die, ClusterTypeOK
<1>2. ClusterTypeOK'
  BY DEF Die, ClusterTypeOK, Event
<1>3. EventsFollow' /\ DisconnectsHandled' /\ ReadyMeansAll'
  BY <1>1 DEF Die, EventsFollow, DisconnectsHandled, ReadyMeansAll
<1>4. CountedOnline \subseteq CountedOnline' /\ Gone' = Gone /\ ToCome' \subseteq ToCome
  BY <1>1 DEF CountedOnline, Online, Gone, ToCome
<1>5. Cardinality(CountedOnline) <= Cardinality(CountedOnline') /\ Cardinality(CountedOnline') \in Nat
  <2>1. IsFiniteSet(CountedOnline') /\ Cardinality(CountedOnline') \in Nat
    <3>1. CountedOnline' \subseteq Worker
      BY DEF CountedOnline, Online
    <3>2. QED
      BY <3>1, WorkerAssumption, FS_Subset, FS_CardinalityType
  <2>2. QED
    BY <1>4, <2>1, FS_Subset
<1>6. Announced'
  BY <1>4 DEF Die, Announced
<1>7. CountBounded'
  <2>1. workersOnline' = workersOnline
    BY DEF Die
  <2>2. QED
    BY <1>5, <2>1, CountNumbers DEF CountBounded
<1>8. QED
  BY <1>2, <1>3, <1>6, <1>7

(* What the primary does when it takes an event of a worker. *)
LEMMA TakeIs ==
    ASSUME ClusterTypeOK, NEW w \in Worker, NEW e, Take(w, e)
    PROVE  /\ life' = life
           /\ events'[w] = events[w] \ {e}
           /\ \A v \in Worker \ {w} : events'[v] = events[v]
           /\ events' \in [Worker -> SUBSET Event]
BY DEF Take, ClusterTypeOK

LEMMA ExitInv == ASSUME ClusterInv, NEW w \in Worker, OnExit(w) PROVE ClusterInv'
<1>. USE DEF ClusterInv
<1>1. /\ life' = life /\ events'[w] = events[w] \ {"exit"}
      /\ \A v \in Worker \ {w} : events'[v] = events[v]
      /\ events' \in [Worker -> SUBSET Event]
      /\ "exit" \in events[w] /\ "listening" \notin events[w] /\ life[w] = "dead"
      /\ unheard' = unheard
  BY TakeIs DEF OnExit, Take, EventsFollow
<1>2. /\ CountedOnline' = CountedOnline \ {w} /\ w \in CountedOnline
      /\ w \in Gone' /\ Gone \subseteq Gone' /\ ToCome' = ToCome
  BY <1>1 DEF CountedOnline, Online, Gone, ToCome
<1>3. Cardinality(CountedOnline') = Cardinality(CountedOnline) - 1
  BY <1>2, SetsFinite, FS_RemoveElement
<1>4. workersOnline' \in Nat /\ workersOnline' <= Cardinality(CountedOnline')
  <2>1. CASE workersOnline > 0
    BY <1>3, <2>1, CountNumbers DEF OnExit
  <2>2. CASE ~(workersOnline > 0)
    <3>1. workersOnline' = 0
      BY <2>2 DEF OnExit
    <3>2. IsFiniteSet(CountedOnline \ {w})
      BY SetsFinite, FS_RemoveElement
    <3>3. QED
      BY <1>2, <3>1, <3>2, FS_CardinalityType
  <2>3. QED
    BY <2>1, <2>2
<1>5. ClusterTypeOK'
  <2>1. CountedOnline' \in SUBSET Worker
    BY DEF CountedOnline, Online
  <2>2. workersOnline' \in 0 .. Cardinality(Worker)
    BY <1>4, <2>1, CountInRange
  <2>3. QED
    BY <1>1, <2>2 DEF OnExit, Stopped, ClusterTypeOK
<1>6. EventsFollow' /\ DisconnectsHandled' /\ ReadyMeansAll'
  BY <1>1 DEF OnExit, Stopped, EventsFollow, DisconnectsHandled, ReadyMeansAll
<1>7. Announced'
  BY <1>2 DEF Announced
<1>8. QED
  BY <1>4, <1>5, <1>6, <1>7 DEF CountBounded

LEMMA DisconnectInv == ASSUME ClusterInv, NEW w \in Worker, OnDisconnect(w) PROVE ClusterInv'
<1>. USE DEF ClusterInv
<1>1. /\ life' = life /\ events'[w] = events[w] \ {"disconnect"}
      /\ \A v \in Worker \ {w} : events'[v] = events[v]
      /\ events' \in [Worker -> SUBSET Event]
      /\ workersOnline' = workersOnline /\ "listening" \notin events[w]
  BY TakeIs DEF OnDisconnect, Take
<1>2. CountedOnline' = CountedOnline /\ Gone' = Gone /\ ToCome' = ToCome
  BY <1>1 DEF CountedOnline, Online, Gone, ToCome
<1>3. ClusterTypeOK'
  BY <1>1 DEF OnDisconnect, Stopped, Hear, ClusterTypeOK
<1>4. EventsFollow'
  BY <1>1 DEF EventsFollow
<1>5. DisconnectsHandled' /\ ReadyMeansAll'
  BY <1>1 DEF OnDisconnect, Stopped, Hear, DisconnectsHandled, ReadyMeansAll
<1>6. Announced'
  BY <1>2 DEF OnDisconnect, Stopped, Announced, ReadyMeansAll
<1>7. CountBounded'
  BY <1>1, <1>2 DEF CountBounded
<1>8. QED
  BY <1>3, <1>4, <1>5, <1>6, <1>7

(* The listening of a worker counts it. *)
LEMMA ListeningCounts ==
    ASSUME ClusterInv, NEW w \in Worker, OnListening(w)
    PROVE  /\ life' = life
           /\ events'[w] = events[w] \ {"listening"} /\ "listening" \in events[w]
           /\ \A v \in Worker \ {w} : events'[v] = events[v]
           /\ events' \in [Worker -> SUBSET Event]
           /\ CountedOnline' = CountedOnline \cup {w} /\ w \notin CountedOnline
           /\ Gone' = Gone /\ ToCome' \subseteq ToCome /\ w \in ToCome
           /\ workersOnline' = workersOnline + 1 /\ workersOnline' \in Nat
           /\ Cardinality(CountedOnline') = Cardinality(CountedOnline) + 1
           /\ workersOnline' <= Cardinality(CountedOnline')
<1>. USE DEF ClusterInv
<1>1. /\ life' = life
      /\ events'[w] = events[w] \ {"listening"} /\ "listening" \in events[w]
      /\ \A v \in Worker \ {w} : events'[v] = events[v]
      /\ events' \in [Worker -> SUBSET Event]
      /\ workersOnline' = workersOnline + 1
  BY TakeIs DEF OnListening, Take
<1>2. life[w] \in {"serving", "dead"} /\ (life[w] = "dead" => "exit" \in events[w])
  BY <1>1 DEF EventsFollow, ClusterTypeOK
<1>3. /\ CountedOnline' = CountedOnline \cup {w} /\ w \notin CountedOnline
      /\ Gone' = Gone /\ ToCome' \subseteq ToCome /\ w \in ToCome
  BY <1>1, <1>2 DEF CountedOnline, Online, Gone, ToCome
<1>4. Cardinality(CountedOnline') = Cardinality(CountedOnline) + 1
  BY <1>3, SetsFinite, FS_AddElement
<1>5. QED
  BY <1>1, <1>3, <1>4, CountNumbers

(* READY is said by the listening of the last worker, with none gone. *)
LEMMA ReadyIs ==
    ASSUME ClusterInv, NEW w \in Worker, OnListening(w), ~started,
           workersOnline' = Cardinality(Worker)
    PROVE  CountedOnline' = Worker /\ ToCome' = {} /\ status = ""
<1>. USE DEF ClusterInv
<1>1. CountedOnline' \subseteq Worker
  BY DEF CountedOnline, Online
<1>2. CountedOnline' = Worker
  <2>1. /\ Cardinality(CountedOnline') <= Cardinality(Worker)
        /\ Cardinality(CountedOnline') \in Nat
    BY <1>1, WorkerAssumption, FS_Subset, FS_CardinalityType
  <2>2. Cardinality(Worker) <= Cardinality(CountedOnline')
    BY ListeningCounts
  <2>3. Cardinality(CountedOnline') = Cardinality(Worker)
    BY <2>1, <2>2, WorkersCount
  <2>4. QED
    BY <1>1, <2>3, WorkerAssumption, FS_Subset
<1>3. \A v \in Worker : v \notin ToCome' /\ v \notin Gone'
  BY <1>2, ListeningCounts DEF CountedOnline, Online, ToCome, Gone, EventsFollow
<1>4. ToCome' = {} /\ Gone' = {}
  BY <1>3 DEF ToCome, Gone
<1>5. status = ""
  BY <1>4, ListeningCounts DEF Announced
<1>6. QED
  BY <1>2, <1>4, <1>5

LEMMA ListeningInv == ASSUME ClusterInv, NEW w \in Worker, OnListening(w) PROVE ClusterInv'
<1>. USE DEF ClusterInv
<1>1. ClusterTypeOK'
  <2>1. CountedOnline' \in SUBSET Worker
    BY DEF CountedOnline, Online
  <2>2. workersOnline' \in 0 .. Cardinality(Worker)
    BY <2>1, ListeningCounts, CountInRange
  <2>3. QED
    BY <2>2, ListeningCounts DEF OnListening, ClusterTypeOK
<1>2. CountBounded'
  BY ListeningCounts DEF CountBounded
<1>3. EventsFollow'
  BY ListeningCounts DEF EventsFollow
<1>4. unheard' = unheard
  BY DEF OnListening
<1>5. CASE ~started /\ workersOnline' = Cardinality(Worker)
  <2>1. started' = TRUE /\ pidfile' = TRUE /\ status' = "READY=1"
    BY <1>5 DEF OnListening
  <2>2. CountedOnline' = Worker /\ ToCome' = {} /\ status = ""
    BY <1>5, ReadyIs
  <2>3. Announced'
    BY <2>2 DEF Announced
  <2>4. DisconnectsHandled'
    BY <1>4, <2>2, ListeningCounts DEF DisconnectsHandled
  <2>5. \A v \in Worker : life'[v] \in {"serving", "dead"}
    BY <2>2 DEF CountedOnline, Online
  <2>6. ReadyMeansAll'
    BY <2>1, <2>4, <2>5 DEF ReadyMeansAll, DisconnectsHandled
  <2>7. QED
    BY <1>1, <1>2, <1>3, <2>3, <2>4, <2>6
<1>6. CASE ~(~started /\ workersOnline' = Cardinality(Worker))
  <2>1. UNCHANGED <<started, pidfile, status>>
    BY <1>6 DEF OnListening
  <2>2. Announced' /\ DisconnectsHandled' /\ ReadyMeansAll'
    BY <1>4, <2>1, ListeningCounts DEF Announced, DisconnectsHandled, ReadyMeansAll
  <2>3. QED
    BY <1>1, <1>2, <1>3, <2>2
<1>7. QED
  BY <1>5, <1>6

-----------------------------------------------------------------------------
LEMMA NextCluster == ClusterInv /\ [ClusterNext]_clusterVars => ClusterInv'
<1>1. ASSUME ClusterInv, UNCHANGED clusterVars PROVE ClusterInv'
  BY <1>1 DEF ClusterInv, clusterVars, ClusterTypeOK, EventsFollow, CountBounded, CountedOnline, Online, Announced,
     ToCome, Gone, DisconnectsHandled, ReadyMeansAll
<1>2. QED
  BY <1>1, ListenInv, DieInv, ExitInv, DisconnectInv, ListeningInv DEF ClusterNext

LEMMA ClusterHolds == ClusterSpec => []ClusterInv
BY InitCluster, NextCluster, PTL DEF ClusterSpec

(* The counter never promises a worker that is gone for good, for any       *)
(* number of workers (36-49, 60-73 of app-cluster.service.ts).              *)
THEOREM CountCorrect == ClusterSpec => []CountsNoGhost
<1>1. ClusterInv => CountsNoGhost
  BY CountNumbers, SetsFinite DEF ClusterInv, CountsNoGhost
<1>2. QED
  BY <1>1, ClusterHolds, PTL

(* READY and the pid file mean that every worker serves, or that its        *)
(* disconnect is on its way or came before (36-73).                         *)
THEOREM ReadyCorrect == ClusterSpec => []ReadyMeansAll
<1>1. ClusterInv => ReadyMeansAll
  BY DEF ClusterInv
<1>2. QED
  BY <1>1, ClusterHolds, PTL

(* READY is announced once: STOPPING is the last word (50-73). *)
THEOREM ReadyAtMostOnce == ClusterSpec => ReadyOnce
<1>1. ASSUME ClusterInv, [ClusterNext]_clusterVars, status = "STOPPING=1" PROVE status' = "STOPPING=1"
  <2>1. ASSUME NEW w \in Worker, OnListening(w) PROVE status' = "STOPPING=1"
    BY <1>1, <2>1, ReadyIs DEF OnListening
  <2>2. QED
    BY <1>1, <2>1 DEF ClusterNext, Listen, Die, OnExit, OnDisconnect, Stopped, clusterVars
<1>2. ClusterInv /\ [ClusterNext]_clusterVars => [status = "STOPPING=1" => status' = "STOPPING=1"]_clusterVars
  BY <1>1
<1>3. QED
  BY <1>2, ClusterHolds, PTL DEF ClusterSpec, ReadyOnce

(* The last exit finds the count at zero, so it reports; an event handled   *)
(* later finds nothing started, and none of them is a worker that listens.  *)
THEOREM LastExitReports == ClusterSpec => []ExitsStop
<1>1. ClusterInit => ExitsStop
  BY WorkerAssumption DEF ClusterInit, ExitsStop
<1>2. ASSUME ClusterInv, ClusterInv', ExitsStop, [ClusterNext]_clusterVars,
             \A w \in Worker : life'[w] = "dead" /\ "exit" \notin events'[w]
      PROVE  status' = "STOPPING=1" /\ ~pidfile' /\ ~started'
  <2>1. ASSUME NEW w \in Worker, OnExit(w)
        PROVE  status' = "STOPPING=1" /\ ~pidfile' /\ ~started'
    <3>1. CountedOnline' = {}
      BY <1>2 DEF CountedOnline, Online
    <3>2. Cardinality(CountedOnline') = 0
      BY <3>1, FS_EmptySet
    <3>3. workersOnline' <= 0
      BY <1>2, <3>1, <3>2 DEF ClusterInv, CountBounded
    <3>4. workersOnline \in Nat
      BY <1>2, CountNumbers DEF ClusterInv
    <3>5. workersOnline' = 0
      BY <2>1, <3>3, <3>4 DEF OnExit
    <3>6. QED
      BY <2>1, <3>5 DEF OnExit, Stopped
  <2>2. ASSUME NEW w \in Worker, OnListening(w) PROVE FALSE
    <3>1. life' = life /\ events' = [events EXCEPT ![w] = @ \ {"listening"}]
          /\ "listening" \in events[w]
      BY <2>2 DEF OnListening, Take
    <3>2. "exit" \in events[w]
      BY <1>2, <3>1 DEF ClusterInv, EventsFollow
    <3>3. "exit" \in events'[w]
      BY <1>2, <3>1, <3>2 DEF ClusterInv, ClusterTypeOK
    <3>4. QED
      BY <1>2, <3>3
  <2>3. ASSUME NEW w \in Worker, Listen(w) \/ Die(w) PROVE FALSE
    <3>1. life'[w] = "serving" \/ "exit" \in events'[w]
      BY <1>2, <2>3 DEF Listen, Die, ClusterInv, ClusterTypeOK
    <3>2. QED
      BY <1>2, <3>1
  <2>4. ASSUME NEW w \in Worker, OnDisconnect(w)
        PROVE  status' = "STOPPING=1" /\ ~pidfile' /\ ~started'
    <3>1. \A v \in Worker : life[v] = "dead" /\ "exit" \notin events[v]
      BY <1>2, <2>4 DEF OnDisconnect, Take, ClusterInv, ClusterTypeOK
    <3>2. QED
      BY <1>2, <2>4, <3>1 DEF OnDisconnect, Stopped, ExitsStop
  <2>5. CASE UNCHANGED clusterVars
    BY <1>2, <2>5 DEF clusterVars, ExitsStop
  <2>6. QED
    BY <1>2, <2>1, <2>2, <2>3, <2>4, <2>5 DEF ClusterNext
<1>3. ClusterInv /\ ClusterInv' /\ ExitsStop /\ [ClusterNext]_clusterVars => ExitsStop'
  BY <1>2 DEF ExitsStop
<1>4. QED
  BY <1>1, <1>3, ClusterHolds, PTL DEF ClusterSpec

-----------------------------------------------------------------------------
\* What each worker believes of Redis and the database

(* Labels a check may come to. *)
LEMMA ServiceLabels ==
    /\ Idle \in {Idle} \cup Awaiting
    /\ \A c \in Conn, a \in {"ping", "cut", "connect"} :
           <<a, c>> \in {Idle} \cup Awaiting
BY DEF Awaiting

(* What runs without an await keeps the types of the three it writes. *)
LEMMA ServiceParts ==
    ASSUME ServiceTypeOK, NEW k \in Check, NEW flag \in BOOLEAN,
           PingPubSub(k, flag) \/ MainPart(k, flag)
    PROVE  /\ connections' \in [Conn -> {"end", "connecting", "ready"}]
           /\ redisAvailable' \in BOOLEAN
           /\ checkPc' \in [Check -> {Idle} \cup Awaiting]
<1>1. ASSUME NEW label \in {Idle} \cup Awaiting, NEW f \in BOOLEAN, Wait(k, label, f)
      PROVE  /\ connections' \in [Conn -> {"end", "connecting", "ready"}]
             /\ redisAvailable' \in BOOLEAN
             /\ checkPc' \in [Check -> {Idle} \cup Awaiting]
  BY <1>1 DEF Wait, ServiceTypeOK
<1>2. ASSUME NEW c \in Conn, Connecting(k, c, flag)
      PROVE  /\ connections' \in [Conn -> {"end", "connecting", "ready"}]
             /\ redisAvailable' \in BOOLEAN
             /\ checkPc' \in [Check -> {Idle} \cup Awaiting]
  BY <1>2, ServiceLabels DEF Connecting, ServiceTypeOK
<1>3. "main" \in Conn /\ "pubsub" \in Conn
  BY DEF Conn
<1>4. CASE MainPart(k, flag)
  BY <1>1, <1>2, <1>3, <1>4, ServiceLabels DEF MainPart, PubSubPart
<1>5. CASE PingPubSub(k, flag)
  BY <1>1, <1>3, <1>4, <1>5, ServiceLabels DEF PingPubSub
<1> QED BY <1>4, <1>5

(* One step of a Redis check. *)
LEMMA ServiceCheckStep ==
    ASSUME ServiceTypeOK, NEW k \in Check, StartCheck(k) \/ Answer(k)
    PROVE  ServiceTypeOK'
<1>1. CASE StartCheck(k)
  <2>1. CASE Wait(k, <<"ping", "main">>, redisAvailable)
    BY <1>1, <2>1, ServiceLabels DEF StartCheck, Wait, ServiceTypeOK, Conn, database
  <2>2. CASE PingPubSub(k, redisAvailable)
    BY <1>1, <2>2, ServiceParts DEF StartCheck, ServiceTypeOK, database
  <2> QED BY <1>1, <2>1, <2>2 DEF StartCheck
<1>2. ASSUME NEW c \in Conn, PingAnswered(k, c) \/ PingCut(k, c)
      PROVE  ServiceTypeOK'
  <2>1. ASSUME NEW flag \in BOOLEAN, AfterPing(k, c, flag)
        PROVE  PingPubSub(k, flag) \/ MainPart(k, flag)
    BY <2>1 DEF AfterPing
  <2>2. CASE PingAnswered(k, c)
    BY <2>1, <2>2, ServiceParts DEF PingAnswered, ServiceTypeOK, database
  <2>3. CASE PingCut(k, c)
    BY <2>1, <2>3, ServiceParts DEF PingCut, ServiceTypeOK, database
  <2> QED BY <1>2, <2>2, <2>3
<1>3. ASSUME NEW c \in Conn, PingRefused(k, c)
      PROVE  ServiceTypeOK'
  <2>1. PingPubSub(k, FALSE) \/ MainPart(k, FALSE)
    BY <1>3 DEF PingRefused, AfterPing
  <2> QED BY <1>3, <2>1, ServiceParts DEF PingRefused, ServiceTypeOK, database
<1>4. ASSUME NEW c \in Conn, Connected(k, c)
      PROVE  ServiceTypeOK'
  <2>1. <<"connect", "pubsub">> \in {Idle} \cup Awaiting /\ Idle \in {Idle} \cup Awaiting
    BY ServiceLabels DEF Conn
  <2>2. CASE c = "main" /\ connections["pubsub"] # "ready"
    <3>1. connections' \in [Conn -> {"end", "connecting", "ready"}]
      <4>1. [main |-> "ready", pubsub |-> "connecting"]
              \in [Conn -> {"end", "connecting", "ready"}]
        BY DEF Conn
      <4> QED BY <1>4, <2>2, <4>1 DEF Connected, ServiceTypeOK
    <3>2. checkPc' \in [Check -> {Idle} \cup Awaiting] /\ redisAvailable' \in BOOLEAN
      BY <1>4, <2>1, <2>2 DEF Connected, ServiceTypeOK
    <3> QED BY <1>4, <3>1, <3>2 DEF Connected, ServiceTypeOK, database
  <2>3. CASE ~(c = "main" /\ connections["pubsub"] # "ready")
    BY <1>4, <2>1, <2>3 DEF Connected, ServiceTypeOK, database
  <2> QED BY <2>2, <2>3
<1>5. ASSUME NEW c \in Conn, ConnectFailed(k, c)
      PROVE  ServiceTypeOK'
  BY <1>5, ServiceLabels DEF ConnectFailed, ServiceTypeOK, database
<1> QED BY <1>1, <1>2, <1>3, <1>4, <1>5 DEF Answer

(* The flags, connections and checks of a worker keep their types, however *)
(* many checks the timers of AppService have in flight.                    *)
THEOREM ServiceTypes == ServiceSpec => []ServiceTypeOK
<1>1. ServiceInit => ServiceTypeOK
  BY DEF ServiceInit, ServiceTypeOK, Conn
<1>2. ServiceTypeOK /\ [ServiceNext]_(serviceVars) => ServiceTypeOK'
  <2> SUFFICES ASSUME ServiceTypeOK, [ServiceNext]_(serviceVars) PROVE ServiceTypeOK'
    OBVIOUS
  <2>1. ASSUME NEW k \in Check, StartCheck(k) \/ Answer(k)
        PROVE  ServiceTypeOK'
    BY <2>1, ServiceCheckStep
  <2>2. ASSUME NEW k \in DbCheck, StartDbCheck(k) \/ DbAnswers(k)
        PROVE  ServiceTypeOK'
    <3>1. dbPc' \in [DbCheck -> {"idle", "initialize", "query"}]
      BY <2>2 DEF StartDbCheck, DbAnswers, ServiceTypeOK
    <3>2. isInitialized' \in BOOLEAN /\ dbAvailable' \in BOOLEAN
      <4>1. CASE StartDbCheck(k)
        BY <4>1 DEF StartDbCheck, ServiceTypeOK
      <4>2. CASE DbAnswers(k)
        <5>1. dbAvailable' = ("db" \in up)
          BY <4>2 DEF DbAnswers
        <5>2. isInitialized' = (isInitialized \/ (dbPc[k] = "initialize" /\ "db" \in up))
          BY <4>2 DEF DbAnswers
        <5>3. ("db" \in up) \in BOOLEAN
          OBVIOUS
        <5>4. (isInitialized \/ (dbPc[k] = "initialize" /\ "db" \in up)) \in BOOLEAN
          OBVIOUS
        <5>5. dbAvailable' \in BOOLEAN
          BY <5>1, <5>3
        <5>6. isInitialized' \in BOOLEAN
          BY <5>2, <5>4, Zenon
        <5> QED BY <5>5, <5>6
      <4> QED BY <2>2, <4>1, <4>2
    <3>3. UNCHANGED <<up, connections, redisAvailable, checkPc, refused>>
      BY <2>2 DEF StartDbCheck, DbAnswers, redis
    <3> QED BY <3>1, <3>2, <3>3 DEF ServiceTypeOK
  <2>3. ASSUME NEW c \in Conn \cup {"db"}, Restore(c)
        PROVE  ServiceTypeOK'
    BY <2>3 DEF Restore, ServiceTypeOK, redis, database
  <2>4. ASSUME NEW c \in Conn \cup {"db"}, Drop(c)
        PROVE  ServiceTypeOK'
    <3>1. CASE c \in Conn /\ connections[c] = "ready"
      <4>1. <<"cut", c>> \in {Idle} \cup Awaiting
        BY <3>1, ServiceLabels
      <4> QED BY <2>4, <3>1, <4>1 DEF Drop, ServiceTypeOK, database
    <3>2. CASE ~(c \in Conn /\ connections[c] = "ready")
      BY <2>4, <3>2 DEF Drop, ServiceTypeOK, database
    <3> QED BY <3>1, <3>2
  <2>5. CASE UNCHANGED serviceVars
    BY <2>5 DEF serviceVars, redis, database, ServiceTypeOK
  <2> QED BY <2>1, <2>2, <2>3, <2>4, <2>5 DEF ServiceNext
<1> QED BY <1>1, <1>2, PTL DEF ServiceSpec

-----------------------------------------------------------------------------
\* What keeps the API down never outlasts its cause

(* A check whose PING was cut off finds its connection not ready. *)
CutClosed ==
    \A k \in Check, c \in Conn : checkPc[k] = <<"cut", c>> => connections[c] # "ready"

ServiceInv == ServiceTypeOK /\ Recoverable /\ CutClosed

(* What runs without an await closes no gap by itself: no connection becomes *)
(* ready, a flag it puts down has a connection that is not, and a connection *)
(* that begins to connect has this check to wait for it.                     *)
LEMMA PartsExplain ==
    ASSUME ServiceTypeOK, NEW k \in Check, NEW flag \in BOOLEAN,
           PingPubSub(k, flag) \/ MainPart(k, flag)
    PROVE  /\ \A c \in Conn : connections[c] # "ready" => connections'[c] # "ready"
           /\ redisAvailable' \/ ~flag \/ \E c \in Conn : connections'[c] # "ready"
           /\ \A c \in Conn : connections'[c] = "connecting" =>
                  connections[c] = "connecting" \/ checkPc'[k] = <<"connect", c>>
           /\ \A j \in Check \ {k} : checkPc'[j] = checkPc[j]
           /\ \A c \in Conn : checkPc'[k] # <<"cut", c>>
<1> DEFINE Explained == /\ \A c \in Conn : connections[c] # "ready" => connections'[c] # "ready"
                        /\ redisAvailable' \/ ~flag \/ \E c \in Conn : connections'[c] # "ready"
                        /\ \A c \in Conn : connections'[c] = "connecting" =>
                               connections[c] = "connecting" \/ checkPc'[k] = <<"connect", c>>
                        /\ \A j \in Check \ {k} : checkPc'[j] = checkPc[j]
                        /\ \A c \in Conn : checkPc'[k] # <<"cut", c>>
<1>1. "main" \in Conn /\ "pubsub" \in Conn
  BY DEF Conn
<1>2. ASSUME NEW label \in {Idle, <<"ping", "pubsub">>}, Wait(k, label, flag)
      PROVE  Explained
  BY <1>2 DEF Wait, ServiceTypeOK, Idle
<1>3. ASSUME NEW c \in Conn, connections[c] = "connecting",
             Wait(k, Idle, FALSE)
      PROVE  Explained
  BY <1>3 DEF Wait, ServiceTypeOK, Idle
<1>4. ASSUME NEW c \in Conn, connections[c] = "end", Connecting(k, c, flag)
      PROVE  Explained
  <2>1. /\ connections' = [connections EXCEPT ![c] = "connecting"]
        /\ checkPc' = [checkPc EXCEPT ![k] = <<"connect", c>>]
        /\ redisAvailable' = flag
    BY <1>4 DEF Connecting
  <2>2. connections \in [Conn -> {"end", "connecting", "ready"}]
        /\ DOMAIN checkPc = Check
    BY DEF ServiceTypeOK
  <2>3. QED
    BY <1>4, <2>1, <2>2
<1>5. CASE MainPart(k, flag)
  BY <1>1, <1>2, <1>3, <1>4, <1>5 DEF MainPart, PubSubPart
<1>6. CASE PingPubSub(k, flag)
  BY <1>2, <1>5, <1>6 DEF PingPubSub
<1>7. QED
  BY <1>5, <1>6

(* A step of a check that ends in such a part keeps the invariant, when this *)
(* check waited for no connection and what put the flag down is still there. *)
LEMMA PartKeeps ==
    ASSUME ServiceInv, NEW k \in Check, NEW flag \in BOOLEAN,
           PingPubSub(k, flag) \/ MainPart(k, flag),
           \A c \in Conn : checkPc[k] # <<"connect", c>>,
           refused => refused',
           flag \/ refused' \/ \E c \in Conn : connections[c] # "ready"
    PROVE  Recoverable' /\ CutClosed'
<1>1. /\ \A c \in Conn : connections[c] # "ready" => connections'[c] # "ready"
      /\ redisAvailable' \/ ~flag \/ \E c \in Conn : connections'[c] # "ready"
      /\ \A c \in Conn : connections'[c] = "connecting" =>
             connections[c] = "connecting" \/ checkPc'[k] = <<"connect", c>>
      /\ \A j \in Check \ {k} : checkPc'[j] = checkPc[j]
      /\ \A c \in Conn : checkPc'[k] # <<"cut", c>>
  BY PartsExplain DEF ServiceInv
<1>2. redisAvailable' \/ refused' \/ \E c \in Conn : connections'[c] # "ready"
  BY <1>1
<1>3. ASSUME NEW c \in Conn, connections'[c] = "connecting"
      PROVE  \E j \in Check : checkPc'[j] = <<"connect", c>>
  <2>1. CASE connections[c] = "connecting"
    <3>1. PICK j \in Check : checkPc[j] = <<"connect", c>>
      BY <2>1 DEF ServiceInv, Recoverable
    <3>2. QED
      BY <1>1, <3>1
  <2>2. CASE checkPc'[k] = <<"connect", c>>
    BY <2>2
  <2>3. QED
    BY <1>1, <1>3, <2>1, <2>2
<1>4. CutClosed'
  <2>1. ASSUME NEW j \in Check, NEW c \in Conn, checkPc'[j] = <<"cut", c>>
        PROVE  connections'[c] # "ready"
    BY <1>1, <2>1 DEF ServiceInv, CutClosed
  <2>2. QED
    BY <2>1 DEF CutClosed, Conn
<1>5. Recoverable'
  BY <1>2, <1>3 DEF Recoverable, Conn
<1>6. QED
  BY <1>4, <1>5

(* A step that leaves the checks and the connections as they are. *)
LEMMA ServiceFrame ==
    ASSUME ServiceInv, UNCHANGED <<connections, redisAvailable, checkPc, refused>>
    PROVE  Recoverable' /\ CutClosed'
BY DEF ServiceInv, Recoverable, CutClosed, Conn

LEMMA StartKeeps ==
    ASSUME ServiceInv, NEW k \in Check, StartCheck(k)
    PROVE  Recoverable' /\ CutClosed'
<1>1. /\ checkPc[k] = Idle /\ refused' = refused /\ redisAvailable \in BOOLEAN
      /\ DOMAIN checkPc = Check
  BY DEF StartCheck, ServiceInv, ServiceTypeOK
<1>2. \A c \in Conn : checkPc[k] # <<"connect", c>>
  BY <1>1 DEF Idle
<1>3. redisAvailable \/ refused' \/ \E c \in Conn : connections[c] # "ready"
  BY <1>1 DEF ServiceInv, Recoverable
<1>4. CASE Wait(k, <<"ping", "main">>, redisAvailable)
  <2>1. /\ connections' = connections /\ redisAvailable' = redisAvailable
        /\ checkPc' = [checkPc EXCEPT ![k] = <<"ping", "main">>]
    BY <1>4 DEF Wait
  <2>2. \A c \in Conn : connections'[c] = "connecting" =>
            \E j \in Check : checkPc'[j] = <<"connect", c>>
    BY <1>1, <1>2, <2>1 DEF ServiceInv, Recoverable
  <2>3. \A j \in Check, c \in Conn :
            checkPc'[j] = <<"cut", c>> => connections'[c] # "ready"
    BY <1>1, <2>1 DEF ServiceInv, CutClosed
  <2>4. QED
    BY <1>1, <1>3, <2>1, <2>2, <2>3 DEF Recoverable, CutClosed, Conn
<1>5. CASE PingPubSub(k, redisAvailable)
  BY <1>1, <1>2, <1>3, <1>5, PartKeeps
<1>6. QED
  BY <1>4, <1>5 DEF StartCheck

(* The three ends of a PING: answered, refused, or cut off. *)
LEMMA PingKeeps ==
    ASSUME ServiceInv, NEW k \in Check, NEW c \in Conn,
           \/ PingAnswered(k, c) \/ PingRefused(k, c) \/ PingCut(k, c)
    PROVE  Recoverable' /\ CutClosed'
<1>1. \A d \in Conn : checkPc[k] # <<"connect", d>>
  <2>1. checkPc[k] = <<"ping", c>> \/ checkPc[k] = <<"cut", c>>
    BY DEF PingAnswered, PingRefused, PingCut
  <2>2. \A d : <<"ping", c>> # <<"connect", d>> /\ <<"cut", c>> # <<"connect", d>>
    OBVIOUS
  <2>3. QED
    BY <2>1, <2>2
<1>2. ASSUME NEW flag \in BOOLEAN, AfterPing(k, c, flag)
      PROVE  PingPubSub(k, flag) \/ MainPart(k, flag)
  BY <1>2 DEF AfterPing
<1>3. CASE PingAnswered(k, c)
  <2>1. redisAvailable \in BOOLEAN /\ refused' = refused
    BY <1>3 DEF PingAnswered, ServiceInv, ServiceTypeOK
  <2>2. redisAvailable \/ refused' \/ \E d \in Conn : connections[d] # "ready"
    BY <2>1 DEF ServiceInv, Recoverable
  <2>3. QED
    BY <1>1, <1>2, <1>3, <2>1, <2>2, PartKeeps DEF PingAnswered
<1>4. CASE PingRefused(k, c)
  BY <1>1, <1>2, <1>4, PartKeeps DEF PingRefused
<1>5. CASE PingCut(k, c)
  <2>1. connections[c] # "ready"
    BY <1>5 DEF PingCut, ServiceInv, CutClosed
  <2>2. QED
    BY <1>1, <1>2, <1>5, <2>1, PartKeeps DEF PingCut
<1>6. QED
  BY <1>3, <1>4, <1>5

(* connect() has ended: only here does a connection become ready. *)
LEMMA ConnectKeeps ==
    ASSUME ServiceInv, NEW k \in Check, NEW c \in Conn,
           Connected(k, c) \/ ConnectFailed(k, c)
    PROVE  Recoverable' /\ CutClosed'
<1>1. /\ checkPc[k] = <<"connect", c>> /\ NoCut
      /\ connections \in [Conn -> {"end", "connecting", "ready"}]
      /\ DOMAIN checkPc = Check /\ refused' = refused
  BY DEF Connected, ConnectFailed, ServiceInv, ServiceTypeOK
<1>2. \A j \in Check, d \in Conn : checkPc[j] # <<"cut", d>>
  BY <1>1 DEF NoCut
<1>3. \A d \in Conn : connections[d] = "connecting" =>
          \E j \in Check : checkPc[j] = <<"connect", d>>
  BY DEF ServiceInv, Recoverable
<1>4. PICK label : checkPc' = [checkPc EXCEPT ![k] = label]
                   /\ label \in {Idle, <<"connect", "pubsub">>}
  BY DEF Connected, ConnectFailed
<1>5. \A j \in Check, d \in Conn : checkPc'[j] # <<"cut", d>>
  BY <1>1, <1>2, <1>4 DEF Idle
<1>6. CutClosed'
  BY <1>5 DEF CutClosed, Conn
<1>7. CASE ConnectFailed(k, c)
  <2>1. connections' = [connections EXCEPT ![c] = "end"]
    BY <1>7 DEF ConnectFailed
  <2>2. connections'[c] = "end"
    BY <1>1, <2>1
  <2>3. \A d \in Conn : connections'[d] = "connecting" =>
            \E j \in Check : checkPc'[j] = <<"connect", d>>
    BY <1>1, <1>3, <1>4, <2>1
  <2>4. QED
    BY <1>6, <2>2, <2>3 DEF Recoverable, Conn
<1>8. CASE Connected(k, c) /\ c = "main" /\ connections["pubsub"] = "end"
  <2>1. /\ connections' = [main |-> "ready", pubsub |-> "connecting"]
        /\ checkPc' = [checkPc EXCEPT ![k] = <<"connect", "pubsub">>]
        /\ redisAvailable' = TRUE
    BY <1>8 DEF Connected
  <2>2. checkPc'[k] = <<"connect", "pubsub">>
    BY <1>1, <2>1
  <2>3. QED
    BY <1>6, <2>1, <2>2 DEF Recoverable, Conn
<1>9. CASE Connected(k, c) /\ ~(c = "main" /\ connections["pubsub"] = "end")
  <2>1. /\ connections' = [connections EXCEPT ![c] = "ready"]
        /\ redisAvailable' \/ (c = "main" /\ connections["pubsub"] = "connecting")
    BY <1>1, <1>9 DEF Connected, Conn
  <2>2. redisAvailable' \/ \E d \in Conn : connections'[d] # "ready"
    BY <1>1, <2>1 DEF Conn
  <2>3. \A d \in Conn : connections'[d] = "connecting" =>
            \E j \in Check : checkPc'[j] = <<"connect", d>>
    BY <1>1, <1>3, <1>4, <2>1
  <2>4. QED
    BY <1>6, <2>2, <2>3 DEF Recoverable, Conn
<1>10. QED
  BY <1>7, <1>8, <1>9

(* A server that goes away closes the connection and cuts the PINGs on it. *)
LEMMA DropKeeps ==
    ASSUME ServiceInv, NEW c \in Conn \cup {"db"}, Drop(c)
    PROVE  Recoverable' /\ CutClosed'
<1>1. CASE c \in Conn /\ connections[c] = "ready"
  <2>1. /\ connections' = [connections EXCEPT ![c] = "end"]
        /\ checkPc' = [k \in Check |-> IF checkPc[k] = <<"ping", c>>
                                       THEN <<"cut", c>> ELSE checkPc[k]]
        /\ NoCut /\ refused' = refused /\ redisAvailable' = redisAvailable
        /\ connections \in [Conn -> {"end", "connecting", "ready"}]
    BY <1>1 DEF Drop, ServiceInv, ServiceTypeOK
  <2>2. connections'[c] = "end"
    BY <1>1, <2>1
  <2>3. \A k \in Check, d \in Conn : checkPc'[k] = <<"cut", d>> => d = c
    BY <2>1 DEF NoCut
  <2>4. CutClosed'
    BY <2>2, <2>3 DEF CutClosed, Conn
  <2>5. ASSUME NEW d \in Conn, connections'[d] = "connecting"
        PROVE  \E j \in Check : checkPc'[j] = <<"connect", d>>
    <3>1. connections[d] = "connecting"
      BY <2>1, <2>2, <2>5
    <3>2. PICK j \in Check : checkPc[j] = <<"connect", d>>
      BY <3>1 DEF ServiceInv, Recoverable
    <3>3. QED
      BY <2>1, <3>2
  <2>6. QED
    BY <1>1, <2>2, <2>4, <2>5 DEF Recoverable, Conn
<1>2. CASE ~(c \in Conn /\ connections[c] = "ready")
  BY <1>2, ServiceFrame DEF Drop
<1>3. QED
  BY <1>1, <1>2

(* With any number of overlapping checks: while the API is down for Redis, a *)
(* connection is not ready that a check will connect, and what is connecting *)
(* is waited for, unless a live connection refused a PING                    *)
(* (redisstate.schedule.ts 17-62).                                           *)
THEOREM DownForReason == ServiceSpec => []Recoverable
<1>1. ServiceInit => ServiceInv
  <2>1. ServiceInit => Recoverable /\ CutClosed
    BY DEF ServiceInit, Recoverable, CutClosed, Idle, Conn
  <2>2. ServiceInit => ServiceTypeOK
    BY DEF ServiceInit, ServiceTypeOK, Conn
  <2>3. QED
    BY <2>1, <2>2 DEF ServiceInv
<1>2. ServiceInv /\ ServiceTypeOK' /\ [ServiceNext]_(serviceVars) => ServiceInv'
  <2> SUFFICES ASSUME ServiceInv, ServiceTypeOK', [ServiceNext]_(serviceVars)
               PROVE  Recoverable' /\ CutClosed'
    BY DEF ServiceInv
  <2>1. ASSUME NEW k \in Check, StartCheck(k) \/ Answer(k)
        PROVE  Recoverable' /\ CutClosed'
    BY <2>1, StartKeeps, PingKeeps, ConnectKeeps DEF Answer
  <2>2. ASSUME NEW k \in DbCheck, StartDbCheck(k) \/ DbAnswers(k)
        PROVE  Recoverable' /\ CutClosed'
    BY <2>2, ServiceFrame DEF StartDbCheck, DbAnswers, redis
  <2>3. ASSUME NEW c \in Conn \cup {"db"}, Restore(c) \/ Drop(c)
        PROVE  Recoverable' /\ CutClosed'
    BY <2>3, ServiceFrame, DropKeeps DEF Restore, redis
  <2>4. CASE UNCHANGED serviceVars
    BY <2>4, ServiceFrame DEF serviceVars, redis
  <2>5. QED
    BY <2>1, <2>2, <2>3, <2>4 DEF ServiceNext
<1>3. ServiceInv => Recoverable
  BY DEF ServiceInv
<1>4. QED
  BY <1>1, <1>2, <1>3, ServiceTypes, PTL DEF ServiceSpec
=============================================================================
