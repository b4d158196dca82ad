---------------------------- MODULE EventHistory ----------------------------
(***************************************************************************)
(* What the event log promises its callers, without database, checkpoint   *)
(* file or chain: each engagement has one history of events that is only   *)
(* ever continued and in which an idempotency key names one event.  An     *)
(* append is told an event of the history for its own request; a query is  *)
(* told the beginning of the history, with everything any caller had been  *)
(* told when it began.  Any call may end without an answer.                *)
(***************************************************************************)
EXTENDS Naturals, Sequences

CONSTANT Engagements

VARIABLES
    history,  \* the events of each engagement
    told,     \* the events some caller has been told of
    waiting   \* the calls under way

vars == <<history, told, waiting>>

Init ==
    /\ history = [e \in Engagements |-> <<>>]
    /\ told = [e \in Engagements |-> {}]
    /\ waiting = {}

\* A caller asks for one thing at a time.
Ask ==
    \E c \in waiting' :
        /\ \A d \in waiting : d.by # c.by
        /\ waiting' = waiting \cup {c}
        /\ c.known = told[c.eng]
        /\ UNCHANGED <<history, told>>

Forget == \E c \in waiting : waiting' = waiting \ {c} /\ UNCHANGED <<history, told>>

\* The history of an engagement goes on, and the others stay as they are.
Continues(e) ==
    LET old == history[e]
        new == history'[e]
    IN  /\ Len(old) <= Len(new) /\ \A i \in 1..Len(old) : new[i] = old[i]
        /\ \A i, j \in 1..Len(new) : new[i].key = new[j].key => i = j
        /\ \A f \in Engagements \ {e} : history'[f] = history[f]

AnswerAppend(c) ==
    /\ c.kind = "append"
    /\ \E i \in 1..Len(history'[c.eng]) : LET event == history'[c.eng][i] IN
          /\ event.key = c.req.key /\ event.body = c.req.body
          /\ told' = [told EXCEPT ![c.eng] = @ \cup {event}]

AnswerList(c) ==
    /\ c.kind = "list"
    /\ \E n \in 0..Len(history'[c.eng]) :
          LET events == {history'[c.eng][i] : i \in 1..n} IN
          /\ c.known \subseteq events
          /\ told' = [told EXCEPT ![c.eng] = @ \cup events]

Answer ==
    \E c \in waiting :
        /\ waiting' = waiting \ {c}
        /\ Continues(c.eng)
        /\ AnswerAppend(c) \/ AnswerList(c)

Next == Ask \/ Forget \/ Answer

Spec == Init /\ [][Next]_vars
=============================================================================
