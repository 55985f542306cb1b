------------------------------ MODULE MCService ------------------------------
(***************************************************************************)
(* The HTTP service: what its endpoints hand to models, its sandbox, and    *)
(* its limiter and audit trail.  They share nothing but the process, so     *)
(* each is explored while the others have not started: a property of one    *)
(* holds of the three together if it holds so.                              *)
(*                                                                          *)
(* One tenant and one user, a text of each class but Internal, which the    *)
(* gatekeeper treats as Public, a policy stricter and one laxer than the    *)
(* default, and models of the roles both on the premises and in the cloud.  *)
(* Two clients, and a limiter that cleans up between the ends of two        *)
(* windows.                                                                 *)
(***************************************************************************)
EXTENDS PrivateInference, Server

CONSTANTS c1, c2, t1, t2

MCProvider == {"openai"}
MCText ==
    {[pii |-> {}, keyword |-> c, quasi |-> NoRisk, residue |-> FALSE] : c \in {Public, Restricted}}
        \union {[pii |-> {c}, keyword |-> Internal, quasi |-> Medium, residue |-> c = Regulated] : c \in {Confidential, Regulated}}
MCDefault == [maxClass |-> Confidential, providers |-> MCProvider, requireConsent |-> FALSE]
MCPolicy == {[maxClass |-> Public, providers |-> {}, requireConsent |-> TRUE],
             [maxClass |-> Restricted, providers |-> MCProvider, requireConsent |-> FALSE]}
MCRoleModels == {"local", "cloud"}
MCCost == {1, 2}

MCClient == {c1, c2}
MCTenant == {t1, t2}

SandboxUnused == sandboxVars = <<"created", 0, <<>>, FALSE>>
RequestsUnused == <<policy, file, consented, requestVars>> = <<Default, Absent, {}, <<Idle, Nothing>>>>

MCInit == Init /\ ServerInit

MCNext ==
    \/ ServerInit /\ Next /\ UNCHANGED serverVars /\ (SandboxUnused' \/ RequestsUnused')
    \/ Init /\ ServerNext /\ UNCHANGED vars

MCSpec == MCInit /\ [][MCNext]_<<vars, serverVars>>

=============================================================================
