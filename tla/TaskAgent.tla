----------------------------- MODULE TaskAgent ------------------------------
(***************************************************************************)
(* invokeTask of TaskAgentHelper: a request is published to the task       *)
(* agents of the platform's nodes over Redis, each agent that takes it     *)
(* answers `accepted' and later `done' or `error' on a feedback channel of *)
(* the call, and a loop looks every 100 ms whether to go on waiting.       *)
(*                                                                         *)
(* buildRequest makes a new uuid and a new channel for every call, so a    *)
(* call is named by its channel.  Redis pub/sub delivers at most once and  *)
(* in the order of one publisher: `net' holds one queue per call and node, *)
(* and Lose takes a message away.  The agents are not part of the          *)
(* repository: they answer or fall silent as they like.                    *)
(***************************************************************************)
EXTENDS Integers, Sequences, FiniteSets

CONSTANTS
    Call,              \* calls of invokeTask
    Node,              \* nodes with a task agent
    InitialTimeout,    \* initialTimeout, in ticks
    MaxTimeout,        \* maxTimeout
    ExceptionTimeout,  \* exceptionTimeout
    Undefined, Failed, Pending  \* values of a call, as in TaskCall

ASSUME NodeAssumption == IsFiniteSet(Node)
ASSUME TimeoutAssumption == /\ InitialTimeout \in Nat
                            /\ MaxTimeout \in Nat
                            /\ ExceptionTimeout \in Nat
                            /\ InitialTimeout < MaxTimeout
                            /\ MaxTimeout < ExceptionTimeout

VARIABLES
    pc,         \* where each call is
    elapsed,    \* Date.now() - startTime
    subs,       \* this.subs: the channels with a callback, subscribed in Redis
    accepted,   \* acceptedCount
    completed,  \* completedCount
    result,     \* the nodes whose data is in `result'
    value,      \* what the call returned
    work,       \* what each agent did about the call
    net,        \* messages of each agent on their way
    lost        \* history: the calls that lost a message

call == <<pc, elapsed, value>>
counts == <<accepted, completed, result>>
agents == <<work, net>>
vars == <<call, subs, counts, agents, lost>>

Pc == {"idle", "subscribe", "publish", "poll", "unsubscribe", "giveup", "ended"}
Running == Pc \ {"idle", "ended"}
Work == {"none", "asked", "accepted", "data", "done", "error"}
Finish == {"data", "done", "error"}    \* "data": done, with data
Message == {"accepted"} \cup Finish

Value == (SUBSET Node) \cup {Undefined, Failed}

TypeOK == /\ pc \in [Call -> Pc]
          /\ elapsed \in [Call -> 0..ExceptionTimeout]
          /\ subs \subseteq Call
          /\ accepted \in [Call -> Nat]
          /\ completed \in [Call -> Nat]
          /\ result \in [Call -> SUBSET Node]
          /\ value \in [Call -> Value \cup {Pending}]
          /\ work \in [Call -> [Node -> Work]]
          /\ net \in [Call -> [Node -> Seq(Message)]]
          /\ lost \subseteq Call

Init == /\ pc = [c \in Call |-> "idle"]
        /\ elapsed = [c \in Call |-> 0]
        /\ subs = {}
        /\ accepted = [c \in Call |-> 0]
        /\ completed = [c \in Call |-> 0]
        /\ result = [c \in Call |-> {}]
        /\ value = [c \in Call |-> Pending]
        /\ work = [c \in Call |-> [n \in Node |-> "none"]]
        /\ net = [c \in Call |-> [n \in Node |-> <<>>]]
        /\ lost = {}

Goto(c, label) == pc' = [pc EXCEPT ![c] = label]
Step(c, label) == Goto(c, label) /\ UNCHANGED value
End(c, v) == Goto(c, "ended") /\ value' = [value EXCEPT ![c] = v]

-----------------------------------------------------------------------------
(* The call. *)

Invoke(c) == /\ pc[c] = "idle"
             /\ Step(c, "subscribe")
             /\ UNCHANGED <<elapsed, subs, counts, agents, lost>>

Subscribe(c) ==
    /\ pc[c] = "subscribe"
    /\ \/ subs' = subs \cup {c} /\ Step(c, "publish")
       \/ subs' = subs /\ End(c, Failed)
    /\ UNCHANGED <<elapsed, counts, agents, lost>>

(* The agents whose state and role match `dst' take the request; a publish *)
(* that throws may have reached them.                                      *)
Publish(c) ==
    /\ pc[c] = "publish"
    /\ \E S \in SUBSET Node :
           work' = [work EXCEPT ![c] = [n \in Node |-> IF n \in S THEN "asked"
                                                       ELSE "none"]]
    /\ Step(c, "poll") \/ End(c, Failed)
    /\ UNCHANGED <<elapsed, subs, counts, net, lost>>

InLoop(c) == pc[c] = "poll" /\ elapsed[c] < ExceptionTimeout
NoAnswer(c) == accepted[c] = 0 /\ elapsed[c] > InitialTimeout
TimedOut(c) == NoAnswer(c) \/ elapsed[c] > MaxTimeout

(* Mutant: any answer is taken for the last one. *)
AllCompletedSome(c) == accepted[c] > 0 /\ completed[c] > 0

AllCompleted(c) == accepted[c] > 0 /\ completed[c] >= accepted[c]

(* Mutant: the request is published again instead. *)
PollTimeoutRetry(c) == /\ InLoop(c)
                       /\ TimedOut(c)
                       /\ Step(c, "publish")
                       /\ elapsed' = [elapsed EXCEPT ![c] = 0]
                       /\ UNCHANGED <<subs, counts, agents, lost>>

PollTimeout(c) == /\ InLoop(c)
                  /\ TimedOut(c)
                  /\ Step(c, "giveup")
                  /\ UNCHANGED <<elapsed, subs, counts, agents, lost>>

PollCompleted(c) == /\ InLoop(c)
                    /\ ~TimedOut(c)
                    /\ AllCompleted(c)
                    /\ Step(c, "unsubscribe")
                    /\ UNCHANGED <<elapsed, subs, counts, agents, lost>>

(* The loop's condition fails, after a stall: the subscription is kept. *)
PollExpired(c) == /\ pc[c] = "poll"
                  /\ ~InLoop(c)
                  /\ End(c, result[c])
                  /\ UNCHANGED <<elapsed, subs, counts, agents, lost>>

(* Mutant: the callback is not removed. *)
UnsubscribeKept(c) ==
    /\ pc[c] \in {"unsubscribe", "giveup"}
    /\ End(c, IF pc[c] = "giveup" THEN Undefined ELSE result[c])
    /\ UNCHANGED <<elapsed, subs, counts, agents, lost>>

(* Callbacks run until the channel is removed, so data that arrives while *)
(* Redis unsubscribes is still part of what is returned.                  *)
Unsubscribe(c) ==
    /\ pc[c] \in {"unsubscribe", "giveup"}
    /\ \/ /\ subs' = subs \ {c}
          /\ End(c, IF pc[c] = "giveup" THEN Undefined ELSE result[c])
       \/ subs' = subs /\ End(c, Failed)
    /\ UNCHANGED <<elapsed, counts, agents, lost>>

-----------------------------------------------------------------------------
(* Messages and agents. *)

(* Mutant: the data is taken from the acceptance. *)
CallbackEarly(c, n, m) ==
    /\ accepted' = [accepted EXCEPT ![c] = IF m = "accepted" THEN @ + 1 ELSE @]
    /\ completed' = [completed EXCEPT ![c] = IF m \in Finish THEN @ + 1 ELSE @]
    /\ result' = [result EXCEPT ![c] = @ \cup {n}]

Callback(c, n, m) ==
    /\ accepted' = [accepted EXCEPT ![c] = IF m = "accepted" THEN @ + 1 ELSE @]
    /\ completed' = [completed EXCEPT ![c] = IF m \in Finish THEN @ + 1 ELSE @]
    /\ result' = [result EXCEPT ![c] = IF m = "data" THEN @ \cup {n} ELSE @]

(* The 'message' handler drops what no callback waits for. *)
Deliver(c, n) ==
    /\ net[c][n] # <<>>
    /\ net' = [net EXCEPT ![c][n] = Tail(@)]
    /\ IF c \in subs THEN Callback(c, n, Head(net[c][n])) ELSE UNCHANGED counts
    /\ UNCHANGED <<call, subs, work, lost>>

Lose(c, n) == /\ net[c][n] # <<>>
              /\ net' = [net EXCEPT ![c][n] = Tail(@)]
              /\ lost' = lost \cup {c}
              /\ UNCHANGED <<call, subs, counts, work>>

Send(c, n, m) == /\ work' = [work EXCEPT ![c][n] = m]
                 /\ net' = [net EXCEPT ![c][n] = Append(@, m)]
                 /\ UNCHANGED <<call, subs, counts, lost>>

AgentAccepts(c, n) == work[c][n] = "asked" /\ Send(c, n, "accepted")
AgentFinishes(c, n) == /\ work[c][n] = "accepted"
                       /\ \E m \in Finish : Send(c, n, m)

Tick == /\ elapsed' = [c \in Call |->
              IF pc[c] \in Running /\ elapsed[c] < ExceptionTimeout
              THEN elapsed[c] + 1 ELSE elapsed[c]]
        /\ UNCHANGED <<pc, value, subs, counts, agents, lost>>

-----------------------------------------------------------------------------
Poll(c) == PollTimeout(c) \/ PollCompleted(c) \/ PollExpired(c)
Run(c) == Subscribe(c) \/ Publish(c) \/ Poll(c) \/ Unsubscribe(c)

Next == \/ \E c \in Call : Invoke(c)
        \/ \E c \in Call : Run(c)
        \/ \E c \in Call, n \in Node : \/ Deliver(c, n)
                                       \/ Lose(c, n)
                                       \/ AgentAccepts(c, n)
                                       \/ AgentFinishes(c, n)
        \/ Tick

Spec == Init /\ [][Next]_vars

(* Redis answers or fails, timers fire and time passes; agents and messages *)
(* owe nothing.                                                             *)
FairSpec == /\ Spec
            /\ WF_vars(Tick)
            /\ \A c \in Call : WF_vars(Run(c))

-----------------------------------------------------------------------------
(* A channel has a callback only while its call runs, except for a call     *)
(* that threw, or whose loop ended by its own condition after a stall:      *)
(* nobody removes those (157-195).                                          *)
Registered ==
    \A c \in subs : \/ pc[c] \in {"publish", "poll", "unsubscribe", "giveup"}
                    \/ pc[c] = "ended" /\ value[c] = Failed
                    \/ pc[c] = "ended" /\ elapsed[c] = ExceptionTimeout

(* The agents heard of, and those heard to the end. *)
Heard(c) == {n \in Node : /\ work[c][n] \in {"accepted"} \cup Finish
                          /\ \A i \in DOMAIN net[c][n] : net[c][n][i] # "accepted"}
HeardOut(c) == {n \in Node : work[c][n] \in Finish /\ net[c][n] = <<>>}

(* Counting does as well as keeping the nodes apart (97-102): while no      *)
(* message was lost, the loop calls a task complete only when every agent   *)
(* it heard of has finished, and at least one has.                          *)
CountsSuffice ==
    [][\A c \in Call : PollCompleted(c) /\ c \notin lost
           => Heard(c) # {} /\ Heard(c) = HeardOut(c)]_vars

Caller == INSTANCE TaskCall WITH
              open <- {c \in Call : pc[c] # "idle"},
              ran <- [c \in Call |-> {n \in Node : work[c][n] = "data"}]

(* What a caller gets is once and for all `undefined', an error, or data of *)
(* agents that did run the task: invokeTask implements TaskCall (91-195).   *)
CallerSpec == Caller!CallSpec

(* ... and every call ends, even if no agent ever answers (160-192). *)
CallerFairSpec == Caller!CallFairSpec
=============================================================================
