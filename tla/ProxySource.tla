----------------------------- MODULE ProxySource ----------------------------
(***************************************************************************)
(* What a process may rely on when it asks WebNativeMessagingClient for    *)
(* the proxy of the service, however a call gets it and whatever goes      *)
(* wrong: it gets null or a start of the service that there has been, and  *)
(* its death callback is called for starts that have ended, for some of    *)
(* them and perhaps more than once.  SaClient implements it                *)
(* (SaClient!ImplementsProxySource).                                       *)
(*                                                                         *)
(* Every start of the service has a number; 0 stands for null.             *)
(***************************************************************************)
EXTENDS Naturals

CONSTANTS
    Call,       \* calls of GetWebNativeMessagingProxy
    MaxStarts,  \* how often the service may be started
    MayDie      \* starts of it that may end

SourceAssumption == MaxStarts \in Nat /\ MayDie \subseteq 1..MaxStarts
ASSUME PSAssumption == SourceAssumption

VARIABLES
    running,   \* the start that runs, or 0
    starts,    \* how often it has been started
    told,      \* starts whose death the callback was called for
    returned,  \* calls that have returned
    result     \* what they returned

serviceVars == <<running, starts>>
callVars == <<returned, result>>
vars == <<serviceVars, told, callVars>>

Start == 1..MaxStarts

Init ==
    /\ running = 0
    /\ starts = 0
    /\ told = {}
    /\ returned = {}
    /\ result = [c \in Call |-> 0]

SaStarts ==
    /\ running = 0
    /\ starts < MaxStarts
    /\ starts' = starts + 1
    /\ running' = starts + 1
    /\ UNCHANGED <<told, callVars>>

SaDies ==
    /\ running \in MayDie
    /\ running' = 0
    /\ UNCHANGED <<starts, told, callVars>>

(* The start may have ended before, or the call may have found it dead.    *)
GetProxy(c) ==
    /\ c \notin returned
    /\ returned' = returned \cup {c}
    /\ \E i \in 0..starts : result' = [result EXCEPT ![c] = i]
    /\ UNCHANGED <<serviceVars, told>>

CallDeathCallback(i) ==
    /\ i \in 1..starts /\ i # running
    /\ told' = told \cup {i}
    /\ UNCHANGED <<serviceVars, callVars>>

Next ==
    \/ SaStarts \/ SaDies
    \/ \E c \in Call : GetProxy(c)
    \/ \E i \in Start : CallDeathCallback(i)

Spec == Init /\ [][Next]_vars

----------------------------------------------------------------------------
(* The types.                                                              *)
TypeOK ==
    /\ running \in 0..starts
    /\ starts \in 0..MaxStarts
    /\ told \subseteq 1..starts
    /\ returned \subseteq Call
    /\ result \in [Call -> 0..starts]
=============================================================================
