--------------------------- MODULE ToolAuthority ---------------------------
(***************************************************************************)
(* What the approval pipeline in front of the tools promises, with no      *)
(* prompt, cache, timer or lock: a call may run when the policy lets its   *)
(* request through, and otherwise only once a person has allowed the call  *)
(* itself or every request of its scope.  ToolApproval implements this.    *)
(***************************************************************************)
CONSTANTS Calls,             \* the tool calls the agents make
          Scopes,            \* authority::ApprovalScope, the identity of a request
          ScopeOf,           \* the scope each call is classified into
          Admitted,          \* scopes the policy lets through without asking
          Askable            \* scopes it lets through once a person allows them

VARIABLES granted,           \* calls a person allowed, one by one
          scopeGranted,      \* scopes a person allowed for later requests too
          ran                \* calls handed to the tools

vars == <<granted, scopeGranted, ran>>

TypeOK == /\ granted \subseteq Calls
          /\ scopeGranted \subseteq Scopes
          /\ ran \subseteq Calls

Authorised(c) == \/ ScopeOf[c] \in Admitted
                 \/ /\ ScopeOf[c] \in Askable
                    /\ c \in granted \/ ScopeOf[c] \in scopeGranted

Init == granted = {} /\ scopeGranted = {} /\ ran = {}

\* A person answers the question asked about one call.
Grant(c) == /\ granted' = granted \cup {c}
            /\ UNCHANGED <<scopeGranted, ran>>

\* A person answers it for every later request of the same scope as well.
GrantScope(c) == /\ granted' = granted \cup {c}
                 /\ scopeGranted' = scopeGranted \cup {ScopeOf[c]}
                 /\ UNCHANGED ran

\* A batch of calls reaches the tools.
Run(S) == /\ \A c \in S : Authorised(c)
          /\ ran' = ran \cup S
          /\ UNCHANGED <<granted, scopeGranted>>

Next == \/ \E c \in Calls : Grant(c) \/ GrantScope(c)
        \/ \E S \in SUBSET Calls : Run(S)

Spec == Init /\ [][Next]_vars
=============================================================================
