------------------------------ MODULE Aliases ------------------------------
(***************************************************************************)
(* Identifiers (internal/service/identifiers) over the id_aliases_v2       *)
(* table: EnsureAlias and ResolveAlias, one statement per step, so that    *)
(* requests for the same id interleave.                                    *)
(*                                                                         *)
(* An internal id is [kind, name]; its name is qualified (provider:slug),  *)
(* a public id is not.  The table's two unique indexes are on (kind,       *)
(* internal id) and on the public id.                                      *)
(***************************************************************************)
EXTENDS FiniteSets

CONSTANTS
    Worker,   \* requests being handled
    Ref,      \* internal ids, [kind, name]
    Uuid,     \* what newUUID may return
    NoRef     \* no id

VARIABLES
    alias,    \* the rows of the table, [ref, public]
    ids,      \* ids[w]: [pc, ref, id] of the worker's call of public
    handed    \* the pairs <<ref, id>> clients were sent
aliasVars == <<alias, ids, handed>>

ASSUME QualifiedAssumption ==
    /\ \A x, y \in Ref : x.kind = y.kind /\ x.name = y.name => x = y
    /\ \A x \in Ref : x.name \notin Uuid

NoAsk == [pc |-> "none", ref |-> NoRef, id |-> NoRef]

AliasInit ==
    /\ alias = {} /\ handed = {}
    /\ ids = [w \in Worker |-> NoAsk]

RowsOf(x) == {r \in alias : r.ref = x}

\* resolve: a qualified id is an internal one, another is looked up.
Resolves(kind, id, x) ==
    /\ x.kind = kind
    /\ \/ id = x.name
       \/ \E r \in alias : r.public = id /\ r.ref = x

public(w, x) ==
    /\ ids[w].pc = "none"
    /\ ids' = [ids EXCEPT ![w] = [pc |-> "find", ref |-> x, id |-> x.name]]
    /\ UNCHANGED <<alias, handed>>

Found(w, label) ==
    \/ \E r \in RowsOf(ids[w].ref) :
          ids' = [ids EXCEPT ![w].pc = "got", ![w].id = r.public]
    \/ /\ RowsOf(ids[w].ref) = {}
       /\ ids' = [ids EXCEPT ![w].pc = label]
    \/ ids' = [ids EXCEPT ![w].pc = "got"]

\* An error leaves the internal id, which is what public then returns.
EnsureAliasFind(w) ==
    /\ ids[w].pc = "find"
    /\ Found(w, "create")
    /\ UNCHANGED <<alias, handed>>

\* Variant without the unique index on (kind, internal id).
EnsureAliasCreateTwice(w) ==
    /\ ids[w].pc = "create"
    /\ \E u \in Uuid :
          /\ \A r \in alias : r.public # u
          /\ alias' = alias \cup {[ref |-> ids[w].ref, public |-> u]}
          /\ ids' = [ids EXCEPT ![w].pc = "got", ![w].id = u]
    /\ UNCHANGED handed

\* The unique indexes refuse a second row for the id, or a public id in use.
EnsureAliasCreate(w) ==
    /\ ids[w].pc = "create"
    /\ \/ \E u \in Uuid :
             /\ RowsOf(ids[w].ref) = {} /\ \A r \in alias : r.public # u
             /\ alias' = alias \cup {[ref |-> ids[w].ref, public |-> u]}
             /\ ids' = [ids EXCEPT ![w].pc = "got", ![w].id = u]
       \/ ids' = [ids EXCEPT ![w].pc = "again"] /\ UNCHANGED alias
    /\ UNCHANGED handed

\* Variant that returns the id it made itself although it was not stored.
EnsureAliasAgainOwn(w) ==
    /\ ids[w].pc = "again"
    /\ \E u \in Uuid : ids' = [ids EXCEPT ![w].pc = "got", ![w].id = u]
    /\ UNCHANGED <<alias, handed>>

EnsureAliasAgain(w) ==
    /\ ids[w].pc = "again"
    /\ Found(w, "got")
    /\ UNCHANGED <<alias, handed>>

\* The id becomes part of the response.
Send(w) ==
    /\ ids[w].pc = "got"
    /\ handed' = handed \cup {<<ids[w].ref, ids[w].id>>}
    /\ ids' = [ids EXCEPT ![w] = NoAsk]
    /\ UNCHANGED alias

AliasStep(w) ==
    EnsureAliasFind(w) \/ EnsureAliasCreate(w) \/ EnsureAliasAgain(w) \/ Send(w)

AliasRestart == ids' = [w \in Worker |-> NoAsk] /\ UNCHANGED <<alias, handed>>
---------------------------------------------------------------------------
\* Whatever a client was sent for an id resolves to that id and to no other,
\* for concurrent creators, failing statements and restarts alike.
HandedResolve ==
    \A h \in handed : \A y \in Ref : Resolves(h[1].kind, h[2], y) <=> y = h[1]

\* The public id of each internal id that has a row.
Bound == [x \in {r.ref : r \in alias} |-> (CHOOSE r \in alias : r.ref = x).public]
===========================================================================
