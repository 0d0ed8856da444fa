--------------------------- MODULE DirectiveLifecycle ---------------------------
(***************************************************************************)
(* What the directive processor promises, without its queues, threads and  *)
(* locks: every directive goes once through the stages of its life, only   *)
(* forwards, and a directive is started only when no directive that is     *)
(* being handled needs one of its mediums.                                 *)
(*                                                                         *)
(*   expected -> preHandling -> queued -> handling -> left                 *)
(*                                                                         *)
(* From each of the stages a directive can leave early (refused, reported  *)
(* by its handler), and from each of the middle ones it can be condemned   *)
(* to be cancelled; several directives are condemned at once when their    *)
(* dialog ends.  DirectiveProcessor implements this specification.         *)
(***************************************************************************)
CONSTANTS
    Directives,
    Medium

VARIABLES
    stage,      \* how far each directive has come
    needs       \* the mediums of each directive, known once it is received

vars == <<stage, needs>>

\* The stages in which the processor owes the directive something.
Alive == {"preHandling", "queued", "handling"}

Handling == {d \in Directives : stage[d] = "handling"}

Init ==
    /\ stage = [d \in Directives |-> "expected"]
    /\ needs = [d \in Directives |-> {}]

\* The directive is received, with its policy, or refused.
Receive(d) ==
    /\ stage[d] = "expected"
    /\ \E s \in {"preHandling", "left"} : stage' = [stage EXCEPT ![d] = s]
    /\ \E m \in SUBSET Medium : needs' = [needs EXCEPT ![d] = m]

\* Its handler has pre-handled it.
Queue(d) ==
    /\ stage[d] = "preHandling"
    /\ stage' = [stage EXCEPT ![d] = "queued"]
    /\ UNCHANGED needs

\* Its handler is called; one that needs no medium is of no more concern.
Start(d) ==
    /\ stage[d] = "queued"
    /\ \A e \in Handling : needs[d] \cap needs[e] = {}
    /\ stage' = [stage EXCEPT ![d] = IF needs[d] = {} THEN "left" ELSE "handling"]
    /\ UNCHANGED needs

\* The directives of S are to be cancelled; at most one other directive leaves,
\* the one whose failure ended the dialog.
Condemn(S, L) ==
    /\ S \cap L = {}
    /\ \A d \in S : stage[d] \in Alive
    /\ \A d \in L : stage[d] \in Alive \cup {"condemned"}
    /\ \A d, e \in L : d = e
    /\ stage' = [d \in Directives |-> IF d \in S THEN "condemned"
                                      ELSE IF d \in L THEN "left" ELSE stage[d]]
    /\ UNCHANGED needs

\* Its handler is told to cancel it.
Cancel(d) ==
    /\ stage[d] = "condemned"
    /\ stage' = [stage EXCEPT ![d] = "cancelled"]
    /\ UNCHANGED needs

Next ==
    \/ \E d \in Directives : Receive(d) \/ Queue(d) \/ Start(d) \/ Cancel(d)
    \/ \E S, L \in SUBSET Directives : Condemn(S, L)

Spec == Init /\ [][Next]_vars
=============================================================================
