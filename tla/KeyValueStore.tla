--------------------------- MODULE KeyValueStore ---------------------------
(***************************************************************************)
(* What a client expects of the store: one map, each request taking effect *)
(* at one instant between the call and the answer, and the answers of the  *)
(* README's message list.  An abstract specification: StoreService is      *)
(* shown to implement it for one client, and for clients that share no     *)
(* key, as long as nobody puts a key that exists.                          *)
(***************************************************************************)
EXTENDS Naturals

CONSTANTS Client, Key, Value, NoValue, NoCall, Op

VARIABLES
  store,     \* what each key maps to, NoValue when it does not exist
  call,      \* the request each client waits for, or NoCall
  result     \* the answer that is on its way to it, or NoCall

vars == <<store, call, result>>

(* What a request answers in store s, and what it leaves of the key.       *)
Outcome(s, o) ==
  CASE o.kind = "get" -> IF s[o.key] = NoValue THEN "failure" ELSE s[o.key]
    [] o.kind = "put" -> IF s[o.key] = NoValue THEN "success" ELSE "exists"
    [] o.kind = "update" -> IF s[o.key] = NoValue THEN "added" ELSE "exists"
    [] o.kind = "delete" -> IF s[o.key] = NoValue THEN "nexists" ELSE "success"

Effect(s, o) ==
  CASE o.kind = "get" -> s[o.key]
    [] o.kind = "put" -> IF s[o.key] = NoValue THEN o.value ELSE s[o.key]
    [] o.kind = "update" -> o.value
    [] o.kind = "delete" -> NoValue
----------------------------------------------------------------------------
Init ==
  /\ store = [k \in Key |-> NoValue]
  /\ call = [c \in Client |-> NoCall]
  /\ result = [c \in Client |-> NoCall]

Call(c, o) ==
  /\ call[c] = NoCall
  /\ call' = [call EXCEPT ![c] = o]
  /\ UNCHANGED <<store, result>>

Perform(c) ==
  /\ call[c] # NoCall /\ result[c] = NoCall
  /\ result' = [result EXCEPT ![c] = Outcome(store, call[c])]
  /\ store' = [store EXCEPT ![call[c].key] = Effect(store, call[c])]
  /\ call' = call

Answer(c) ==
  /\ result[c] # NoCall
  /\ call' = [call EXCEPT ![c] = NoCall]
  /\ result' = [result EXCEPT ![c] = NoCall]
  /\ store' = store

Next == \E c \in Client : Perform(c) \/ Answer(c) \/ \E o \in Op : Call(c, o)

Spec == Init /\ [][Next]_vars
=============================================================================
