------------------------------- MODULE Scopes -------------------------------
(***************************************************************************)
(* What the evaluator expects of env.c: scopes that bind a variable to at  *)
(* most one value, each within another, the global one outermost. A scope  *)
(* never goes away nor moves, as procedures hold on to it, and a step      *)
(* touches one variable of one scope.                                      *)
(***************************************************************************)
CONSTANTS
  Vars, Vals,
  Unbound,     (* not a value                *)
  ScopeIds,    (* the scopes there may be    *)
  Global       (* the one that always exists *)

VARIABLES
  made,        (* the scopes that exist            *)
  binds,       (* what each scope binds            *)
  outer        (* the scope each scope lies within *)

svars == <<made, binds, outer>>

Init ==
  /\ made = {Global}
  /\ binds = [s \in ScopeIds |-> [x \in Vars |-> Unbound]]
  /\ outer = [s \in ScopeIds |-> Global]

(* A procedure is entered: a fresh scope in the one it was made in.        *)
Enter(s, base) ==
  /\ s \in ScopeIds \ made /\ base \in made
  /\ made' = made \cup {s}
  /\ outer' = [outer EXCEPT ![s] = base]
  /\ binds'[s] \in [Vars -> Vals \cup {Unbound}]
  /\ binds' = [binds EXCEPT ![s] = binds'[s]]

(* define and set! give a variable of a scope a value. *)
Bind(s, x) ==
  /\ s \in made
  /\ binds'[s][x] \in Vals
  /\ binds' = [binds EXCEPT ![s][x] = binds'[s][x]]
  /\ UNCHANGED <<made, outer>>

Next ==
  \E s \in ScopeIds :
    \/ \E base \in made : Enter(s, base)
    \/ \E x \in Vars : Bind(s, x)

Spec == Init /\ [][Next]_svars

=============================================================================
