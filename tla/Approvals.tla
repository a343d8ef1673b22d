----------------------------- MODULE Approvals ------------------------------
(***************************************************************************)
(* Access requests: a member submits one from the page of a dataset        *)
(* ((app)/catalog/[id]), administrators decide it and the requester may    *)
(* withdraw it ((app)/approvals).  An action reads the request, and then   *)
(* updates it whatever it has become, with an audit row in the same        *)
(* transaction.                                                            *)
(***************************************************************************)
EXTENDS Integers, FiniteSets, Sequences

CONSTANTS
    Requests,     \* ids of access requests
    Admins,       \* administrators, each with the approval page open
    Requester,    \* the member who submits the requests; may be one of the administrators
    Missing       \* a request that has not been submitted

VARIABLES
    request,   \* the requests: status, decidedBy
    trail,     \* the audit rows of each request: the actions on it, in order
    tab,       \* what each page shows as pending
    action,    \* what each member's action is doing
    overtaken  \* history: requests on which an action committed between the read and the update
               \* of another

approvalVars == <<request, trail, tab, action, overtaken>>
Members == Admins \cup {Requester}
Waiting == [pc |-> "idle"]
Submitted == {r \in Requests : request[r] # Missing}

\* getApprovalData: administrators see all requests, others their own.
Pending == {r \in Submitted : request[r].status = "pending"}

\* Administrators approve and reject what their page lists; the requester cancels.
Buttons(m) == (IF m \in Admins THEN {"approved", "rejected"} ELSE {})
              \cup (IF m = Requester THEN {"cancelled"} ELSE {})

ApprovalsInit ==
    /\ request = [r \in Requests |-> Missing]
    /\ trail = [r \in Requests |-> <<>>]
    /\ tab = [m \in Members |-> {}]
    /\ action = [m \in Members |-> Waiting]
    /\ overtaken = {}

\* submitAccessRequest.
Submit == \E r \in Requests \ Submitted :
    /\ request' = [request EXCEPT ![r] = [status |-> "pending", decidedBy |-> Missing]]
    /\ UNCHANGED <<trail, tab, action, overtaken>>

Open(m) ==
    /\ action[m] = Waiting /\ tab[m] # Pending
    /\ tab' = [tab EXCEPT ![m] = Pending]
    /\ UNCHANGED <<request, trail, action, overtaken>>

\* A page runs one action at a time.
Press(m) == \E r \in tab[m], to \in Buttons(m) :
    /\ action[m] = Waiting
    /\ action' = [action EXCEPT ![m] = [pc |-> "read", id |-> r, to |-> to]]
    /\ UNCHANGED <<request, trail, tab, overtaken>>

\* The first half of decideRequest and cancelRequest; a refusal leaves the page as it is.
ReadRequestBlindly(m) ==      \* mutant: the status is not checked
    /\ action[m].pc = "read"
    /\ action' = [action EXCEPT ![m].pc = "write"]
    /\ UNCHANGED <<request, trail, tab, overtaken>>
ReadRequest(m) ==
    /\ action[m].pc = "read"
    /\ action' = [action EXCEPT ![m] = IF request[action[m].id].status = "pending"
                                       THEN [action[m] EXCEPT !.pc = "write"] ELSE Waiting]
    /\ UNCHANGED <<request, trail, tab, overtaken>>

\* The second half; the page is rendered anew.
WriteRequest(m) ==
    /\ action[m].pc = "write"
    /\ LET r == action[m].id
           to == action[m].to
       IN  /\ request' = [request EXCEPT ![r].status = to,
                              ![r].decidedBy = IF to = "cancelled" THEN @ ELSE m]
           /\ trail' = [trail EXCEPT ![r] = Append(@, to)]
           /\ overtaken' = IF \E o \in Members \ {m} : action[o].pc = "write" /\ action[o].id = r
                           THEN overtaken \cup {r} ELSE overtaken
           /\ tab' = [tab EXCEPT ![m] = {q \in Submitted : request'[q].status = "pending"}]
    /\ action' = [action EXCEPT ![m] = Waiting]

ApprovalsNext == Submit \/ \E m \in Members : Open(m) \/ Press(m) \/ ReadRequest(m) \/ WriteRequest(m)
ApprovalsSpec == ApprovalsInit /\ [][ApprovalsNext]_approvalVars

-----------------------------------------------------------------------------
(* Properties. *)

ApprovalsTypeOK == \A r \in Requests :
    \/ request[r] = Missing
    \/ /\ request[r].status \in {"pending", "approved", "rejected", "cancelled"}
       /\ request[r].decidedBy \in Admins \cup {Missing}

\* A request leaves "pending" once, and for good: it has at most one outcome in the audit
\* trail, it is the one it carries, and a withdrawn request names nobody who decided it -
\* unless two actions had both read it as pending ((app)/approvals/actions.ts:23).  Even then
\* it carries the outcome of the last action that was audited.
DecidedOnceUnlessRaced == \A r \in Submitted :
    /\ request[r].status = IF trail[r] = <<>> THEN "pending" ELSE trail[r][Len(trail[r])]
    /\ r \notin overtaken =>
           Len(trail[r]) <= 1 /\ (request[r].status = "cancelled" => request[r].decidedBy = Missing)
=============================================================================
