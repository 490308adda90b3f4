-------------------------- MODULE DocumentedClaims --------------------------
(* Sentences of the repository's documents about the execution boundary,   *)
(* as formulas.  TLC refutes each of them against what the code does.      *)
EXTENDS ControlledExecution

\* docs/architecture.md: "`FAILED` is definitive non-completion".  add_contact_tag
\* raises every answer other than 201 as DEFINITIVE, 5xx included.
FailedIsDefinitive ==
  \A a \in ApprovalIds :
    executions[a].status = "FAILED" => requests[a] \in {<<>>, <<"refused">>}

\* README.md: "Ambiguous external outcomes become UNKNOWN."  When nobody is left to
\* record the outcome of a request that was sent, complete has recorded it.
AmbiguousBecomesUnknown ==
  \A a \in ApprovalIds :
    requests[a] # <<>> /\ (\A r \in Runners : ~Holds(r, a)) =>
      executions[a].status \in CompletedStatuses

ClaimRefusals == {"APPROVAL_EXPIRED", "APPROVAL_NOT_APPROVED", "ACTION_NOT_ALLOWED",
                  "EXECUTION_ALREADY_CLAIMED", "EXECUTION_ALREADY_COMPLETED"}

\* docs/security.md: a failed check before the claim "invokes no handler and appends
\* `EXECUTION_REJECTED` when the existing chain is trustworthy".
RefusedClaimIsLogged ==
  [][\A r \in Runners :
       runs[r].pc = "execute" /\ runs'[r].reply \in ClaimRefusals =>
         Len(audit'[runs[r].approval_id]) = Len(audit[runs[r].approval_id]) + 1]_vars
=============================================================================
