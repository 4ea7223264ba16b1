------------------------------ MODULE TaskCall ------------------------------
(***************************************************************************)
(* What the task agent helper promises its callers: a call is opened,      *)
(* nodes run its task on their own time, and the call is closed once, with *)
(* data of nodes that did run it, with `undefined', or with an error.      *)
(* What a node answers after that changes nothing for the caller.          *)
(***************************************************************************)
EXTENDS FiniteSets

CONSTANTS
    Call,       \* calls of invokeTask
    Node,       \* nodes with a task agent
    Undefined,  \* the call's value after a timeout
    Failed,     \* the call threw
    Pending     \* the call has no value yet

Value == (SUBSET Node) \cup {Undefined, Failed}

ASSUME ValueAssumption == /\ Undefined \notin (SUBSET Node) \cup {Failed}
                          /\ Failed \notin SUBSET Node
                          /\ Pending \notin Value

VARIABLES
    open,    \* the calls that were made
    ran,     \* the nodes that completed each call's task with data
    value    \* what each call returned

callVars == <<open, ran, value>>

CallTypeOK == /\ open \subseteq Call
              /\ ran \in [Call -> SUBSET Node]
              /\ value \in [Call -> Value \cup {Pending}]

CallInit ==
  /\ open = {}
  /\ ran = [c \in Call |-> {}]
  /\ value = [c \in Call |-> Pending]

Open(c) == /\ c \notin open
           /\ open' = open \cup {c}
           /\ UNCHANGED <<ran, value>>

Run(c, n) == /\ c \in open
             /\ ran' = [ran EXCEPT ![c] = @ \cup {n}]
             /\ UNCHANGED <<open, value>>

Close(c, v) == /\ c \in open
               /\ value[c] = Pending
               /\ v \in (SUBSET ran[c]) \cup {Undefined, Failed}
               /\ value' = [value EXCEPT ![c] = v]
               /\ UNCHANGED <<open, ran>>

CallNext == \E c \in Call : \/ Open(c)
                            \/ \E n \in Node : Run(c, n)
                            \/ \E v \in Value : Close(c, v)

CallSpec == CallInit /\ [][CallNext]_callVars

(* A call that was made is closed, whatever the nodes do. *)
CallFairSpec == CallSpec /\ \A c \in Call : WF_callVars(\E v \in Value : Close(c, v))
=============================================================================
