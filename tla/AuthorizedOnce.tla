--------------------------- MODULE AuthorizedOnce ---------------------------
(***************************************************************************)
(* What the production control plane promises for every execution request, *)
(* whatever its database rows, its transactions and its workers look like: *)
(* a request is asked for by one actor, authorised by another one, started *)
(* at most once, and launched in the cloud at most once after its start; a *)
(* request withdrawn before its start never starts.                        *)
(***************************************************************************)
EXTENDS Naturals

CONSTANTS
  Requests,   \* execution requests
  Actors,     \* authenticated subjects
  None        \* "no actor yet"

VARIABLES
  stage,      \* how far each request has come
  requester,  \* who asked for it
  approver,   \* who authorised it
  launches    \* how many jobs the cloud was asked to run for it

vars == <<stage, requester, approver, launches>>

Init ==
  /\ stage = [r \in Requests |-> "none"]
  /\ requester = [r \in Requests |-> None]
  /\ approver = [r \in Requests |-> None]
  /\ launches = [r \in Requests |-> 0]

Request(r, a) ==
  /\ stage[r] = "none"
  /\ stage' = [stage EXCEPT ![r] = "requested"]
  /\ requester' = [requester EXCEPT ![r] = a]
  /\ UNCHANGED <<approver, launches>>

Authorize(r, a) ==
  /\ stage[r] = "requested"
  /\ a # requester[r]
  /\ stage' = [stage EXCEPT ![r] = "approved"]
  /\ approver' = [approver EXCEPT ![r] = a]
  /\ UNCHANGED <<requester, launches>>

Withdraw(r) ==
  /\ stage[r] \in {"requested", "approved"}
  /\ stage' = [stage EXCEPT ![r] = "withdrawn"]
  /\ UNCHANGED <<requester, approver, launches>>

Start(r) ==
  /\ stage[r] = "approved"
  /\ stage' = [stage EXCEPT ![r] = "started"]
  /\ UNCHANGED <<requester, approver, launches>>

Launch(r) ==
  /\ stage[r] = "started"
  /\ launches[r] = 0
  /\ launches' = [launches EXCEPT ![r] = 1]
  /\ UNCHANGED <<stage, requester, approver>>

Next ==
  \E r \in Requests :
    \/ \E a \in Actors : Request(r, a) \/ Authorize(r, a)
    \/ Withdraw(r)
    \/ Start(r)
    \/ Launch(r)

Spec == Init /\ [][Next]_vars
-----------------------------------------------------------------------------
\* What follows for every request: it is launched once at most, after its start,
\* and whoever authorised it is not who asked for it.
LaunchedWasAuthorized ==
  \A r \in Requests :
    /\ launches[r] \in {0, 1}
    /\ launches[r] = 1 => stage[r] = "started"
    /\ stage[r] \in {"approved", "started"} =>
         approver[r] \in Actors /\ approver[r] # requester[r]
=============================================================================
