--------------------------- MODULE AliasRegistry ---------------------------
(***************************************************************************)
(* What the API promises about the identifiers it hands out: an internal   *)
(* id has at most one public id, for ever, and whatever a client was       *)
(* given for an id leads back to that id.                                  *)
(***************************************************************************)
CONSTANTS Ref,     \* internal ids, [kind, name]
          Public   \* public ids

VARIABLES bound,   \* bound[x]: the public id of x, for those that have one
          handed   \* the pairs <<x, v>>: v was sent to a client for x

Init == bound = << >> /\ handed = {}

Bind(x, u) ==
    /\ x \notin DOMAIN bound
    /\ \A y \in DOMAIN bound : bound[y] # u
    /\ bound' = [y \in DOMAIN bound \cup {x} |-> IF y = x THEN u ELSE bound[y]]
    /\ UNCHANGED handed

\* The public id, or the internal one when the registry is out of reach.
Hand(x, v) ==
    /\ v = x.name \/ (x \in DOMAIN bound /\ v = bound[x])
    /\ handed' = handed \cup {<<x, v>>}
    /\ UNCHANGED bound

Next == \E x \in Ref : (\E u \in Public : Bind(x, u)) \/ (\E v \in Public \cup {x.name} : Hand(x, v))

Spec == Init /\ [][Next]_<<bound, handed>>
===========================================================================
