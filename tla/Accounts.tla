------------------------------ MODULE Accounts ------------------------------
(***************************************************************************)
(* What the clients of the coordinator expect of create_user and login: a  *)
(* name belongs to whoever creates it first, and every request takes       *)
(* effect at one instant between the call and the answer.  An abstract     *)
(* specification that Sessions is shown to implement.                      *)
(***************************************************************************)
CONSTANTS Client, User, Password, NoPassword, NoCall, NoResult, Request

VARIABLES
  accounts,  \* the password of each user, NoPassword when there is no such user
  call,      \* the request each client has made last, or none
  result     \* the answer that is on its way to it, or none

vars == <<accounts, call, result>>

Outcome(r) ==
  CASE r.purpose = "create_user" /\ accounts[r.user] = NoPassword -> "success"
    [] r.purpose = "create_user" /\ accounts[r.user] # NoPassword -> "exists"
    [] r.purpose = "login" /\ accounts[r.user] = NoPassword -> "failure"
    [] r.purpose = "login" /\ accounts[r.user] = r.password -> "success"
    [] OTHER -> "invalid"

Init ==
  /\ accounts = [u \in User |-> NoPassword]
  /\ call = [c \in Client |-> NoCall]
  /\ result = [c \in Client |-> NoResult]

Call(c, r) ==
  /\ call[c] = NoCall
  /\ call' = [call EXCEPT ![c] = r]
  /\ UNCHANGED <<accounts, result>>

Perform(c) ==
  /\ call[c] # NoCall /\ result[c] = NoResult
  /\ LET r == call[c] IN
     /\ result' = [result EXCEPT ![c] = Outcome(r)]
     /\ accounts' = IF r.purpose = "create_user" /\ Outcome(r) = "success"
                    THEN [accounts EXCEPT ![r.user] = r.password] ELSE accounts
  /\ call' = call

Return(c) ==
  /\ result[c] # NoResult
  /\ call' = [call EXCEPT ![c] = NoCall]
  /\ result' = [result EXCEPT ![c] = NoResult]
  /\ accounts' = accounts

Next == \E c \in Client : Perform(c) \/ Return(c) \/ \E r \in Request : Call(c, r)

Spec == Init /\ [][Next]_vars
=============================================================================
