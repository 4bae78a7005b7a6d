---------------------------- MODULE AckConditions ----------------------------
(***************************************************************************)
(* The conditions a resource manager keeps in a resource's status, and how *)
(* the result of an operation changes them: updateConditions and           *)
(* terminalAWSError of pkg/resource/<kind>/sdk.go, onError and onSuccess   *)
(* of manager.go.  The four kinds have the same text.  A condition is      *)
(* absent until it is first set; its message is left out.                  *)
(***************************************************************************)

ConditionStatus == {"absent", "False", "True"}

Conditions == [terminal : ConditionStatus, recoverable : ConditionStatus]

NoConditions == [terminal |-> "absent", recoverable |-> "absent"]

\* Errors by what the code tells apart.
Errors == {"nil", "NotFound", "Requeue", "Retryable", "InvalidParameter",
           "TerminalError", "NotResolved", "Terminal"}

\* The only ECS error code generator.yaml declares terminal.
terminalAWSError(err) == err = "InvalidParameter"

IsTerminal(err) == terminalAWSError(err) \/ err = "TerminalError"

\* Mutant: a condition that no longer holds becomes "Unknown".
ClearToUnknown(status) == IF status = "absent" THEN "absent" ELSE "Unknown"

\* A condition that no longer holds is kept, as False.
Clear(status) == IF status = "absent" THEN "absent" ELSE "False"

\* Mutant: success leaves a failure of an earlier reconcile in place.
updateConditionsKeepRecoverable(c, err) ==
    IF IsTerminal(err)
    THEN [c EXCEPT !.terminal = "True"]
    ELSE [c EXCEPT !.terminal = Clear(c.terminal),
                   !.recoverable = IF err = "nil" THEN c.recoverable
                                                  ELSE "True"]

\* The terminal branch leaves the recoverable condition as it was.
updateConditions(c, err) ==
    IF IsTerminal(err)
    THEN [c EXCEPT !.terminal = "True"]
    ELSE [terminal |-> Clear(c.terminal),
          recoverable |-> IF err = "nil" THEN Clear(c.recoverable) ELSE "True"]

\* onError hands the runtime ackerr.Terminal in place of the error when the
\* terminal condition is now true, so that it does not requeue.
onError(c, err) ==
    LET c1 == updateConditions(c, err)
    IN  [conditions |-> c1,
         error |-> IF c1.terminal = "True" THEN "Terminal" ELSE err]

onSuccess(c) == [conditions |-> updateConditions(c, "nil"), error |-> "nil"]
=============================================================================
