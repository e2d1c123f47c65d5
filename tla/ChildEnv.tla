------------------------------- MODULE ChildEnv -------------------------------
(***************************************************************************)
(* The environment inspect-capture gives to the processes it starts        *)
(* (child_execution.c).  The observed command may be inspect-capture       *)
(* again, so captures nest: the environment of the innermost command has   *)
(* gone through the setup of every capture around it.                      *)
(*                                                                         *)
(* The setup runs in the child between fork and exec, one setenv or        *)
(* unsetenv after another.  Each may fail, which does not stop the others; *)
(* a child with an error does not execute its command.                     *)
(***************************************************************************)
EXTENDS Naturals, Sequences

CONSTANTS
    FaultFields, \* the fields of a fault request: call, errno, log, ...
    MaxDepth,    \* how deep captures nest here
    MaxFailures, \* how many calls fail in one setup here
    Unset,       \* the variable does not exist
    Empty,       \* it is the empty string
    On,          \* it is "1"
    Own,         \* a value for the tools started from this shell
    Asked        \* a value asked for the observed command

VARIABLES
    depth,       \* how many captures have started their command
    environment, \* 0: of the first capture; k: of the command of capture k
    optedIn,     \* capture -> which of the opt-in options it was given
    kind,        \* what the child being set up will execute
    child,       \* the environment of that child
    done,        \* how many calls of its setup have been made
    failures     \* how many of them failed

envVars == <<depth, environment, optedIn, kind, child, done, failures>>

\* The seven fields are set and cleared one by one, in a fixed order.
ASSUME FaultFieldsAssumption ==
    /\ FaultFields \in Seq(STRING)
    /\ \A i, j \in DOMAIN FaultFields : FaultFields[i] = FaultFields[j] => i = j
ASSUME DepthAssumption == MaxDepth \in Nat \ {0}
ASSUME FailuresAssumption == MaxFailures \in Nat

\* A missing variable is told from any value, and "" and "1" from the others.
ASSUME ValuesAssumption ==
    /\ Unset \notin {Empty, On, Own, Asked} \cup 0 .. MaxDepth
    /\ Empty \notin {On, Own, Asked} \cup 0 .. MaxDepth
    /\ On \notin {Own, Asked} \cup 0 .. MaxDepth
    /\ Asked # Own

Identity == {<<"run_id">>, <<"resource_log">>, <<"call_log">>}
OptIn    == {<<"call_log_args">>, <<"call_log_result">>}
Fault(i)      == <<"fault", FaultFields[i]>>
ChildFault(i) == <<"child_fault", FaultFields[i]>>
Faults      == {Fault(i) : i \in DOMAIN FaultFields}
ChildFaults == {ChildFault(i) : i \in DOMAIN FaultFields}
Variables   == Identity \cup OptIn \cup Faults \cup ChildFaults

Environments == [Variables -> {Unset, Empty, On, Own, Asked} \cup 0 .. MaxDepth]

\* The shell may itself run under an outer capture, with any of the options,
\* may fault its own tools and may ask for faults in the observed command.
ShellEnvironment(e) ==
    /\ \E value \in {Unset, Own} : \A v \in Identity : e[v] = value
    /\ \A v \in OptIn : e[v] \in {Unset, On}
    /\ \A v \in Faults : e[v] \in {Unset, Own}
    /\ \A v \in ChildFaults : e[v] \in {Unset, Empty, Asked}

-----------------------------------------------------------------------------
(* The calls of a setup, each as what it makes of which variables.  A call *)
(* that finds nothing to set returns without setenv, and cannot fail.      *)

Assign(v, value) == [u \in {v} |-> value]
NoCall == [u \in {} |-> Unset]

\* Mutation: what a capture outside opted in to is inherited.
MutantClearObserveEnvironment ==
    << Assign(<<"run_id">>, Unset), Assign(<<"resource_log">>, Unset),
       Assign(<<"call_log">>, Unset), Assign(<<"call_log_result">>, Unset) >>

ClearObserveEnvironment ==
    << Assign(<<"run_id">>, Unset), Assign(<<"resource_log">>, Unset),
       Assign(<<"call_log">>, Unset), Assign(<<"call_log_args">>, Unset),
       Assign(<<"call_log_result">>, Unset) >>

\* Mutation: a request that was made empty is passed on.
MutantSetenvIfPresent(i, env) ==
    IF env[ChildFault(i)] = Unset THEN NoCall
    ELSE Assign(Fault(i), env[ChildFault(i)])

\* setenv_if_present.
SetenvIfPresent(i, env) ==
    IF env[ChildFault(i)] \in {Unset, Empty} THEN NoCall
    ELSE Assign(Fault(i), env[ChildFault(i)])

\* set_fault_environment_from_parent_request.
SetFaultEnvironment(env) ==
    [i \in DOMAIN FaultFields |-> SetenvIfPresent(i, env)]

\* The two options that the capture was given, or not.
SetOptIn(v, given) == IF v \in given THEN Assign(v, On) ELSE NoCall

SetObservedEnvironment(k, given, env) ==
    << Assign(<<"run_id">>, k), Assign(<<"resource_log">>, k),
       Assign(<<"call_log">>, k), SetOptIn(<<"call_log_args">>, given),
       SetOptIn(<<"call_log_result">>, given) >>
    \o SetFaultEnvironment(env)

SetupObservedChild(k, given, env) ==
    ClearObserveEnvironment \o SetObservedEnvironment(k, given, env)

\* Mutation: the requests for the observed command stay.
MutantClearHelperEnvironment ==
    ClearObserveEnvironment
    \o [i \in DOMAIN FaultFields |-> Assign(Fault(i), Unset)]

ClearHelperEnvironment ==
    ClearObserveEnvironment
    \o [i \in DOMAIN FaultFields |-> Assign(Fault(i), Unset)]
    \o [i \in DOMAIN FaultFields |-> Assign(ChildFault(i), Unset)]

\* The calls the child of capture k makes.
Calls ==
    IF kind = "helper" THEN ClearHelperEnvironment
    ELSE SetupObservedChild(depth + 1, optedIn[depth + 1], environment[depth])

-----------------------------------------------------------------------------
EnvInit ==
    /\ depth = 0
    /\ \E e \in [Variables -> {Unset, Empty, On, Own, Asked}] :
          /\ ShellEnvironment(e)
          /\ environment = [k \in 0 .. MaxDepth |-> e]
    /\ optedIn \in [1 .. MaxDepth -> SUBSET OptIn]
    /\ kind = "none"
    /\ child = environment[0]
    /\ done = 0
    /\ failures = 0

\* p101_observe_run_observed_command, or p101_observe_run_tool_capture: the
\* fork.
Fork ==
    /\ kind = "none"
    /\ depth < MaxDepth
    /\ kind' \in {"observed", "helper"}
    /\ child' = environment[depth]
    /\ done' = 0
    /\ failures' = 0
    /\ UNCHANGED <<depth, environment, optedIn>>

\* One setenv or unsetenv.
Call ==
    /\ kind \in {"observed", "helper"}
    /\ done < Len(Calls)
    /\ LET call == Calls[done + 1] IN
       \/ /\ child' = [v \in Variables |->
                         IF v \in DOMAIN call THEN call[v] ELSE child[v]]
          /\ UNCHANGED failures
       \/ /\ DOMAIN call # {}
          /\ failures < MaxFailures
          /\ failures' = failures + 1
          /\ UNCHANGED child
    /\ done' = done + 1
    /\ UNCHANGED <<depth, environment, optedIn, kind>>

\* The child executes the command, which may be the next capture.
Exec ==
    /\ kind = "observed"
    /\ done = Len(Calls)
    /\ failures = 0
    /\ depth' = depth + 1
    /\ environment' = [environment EXCEPT ![depth + 1] = child]
    /\ kind' = "none"
    /\ UNCHANGED <<optedIn, child, done, failures>>

\* A helper, once started, or a child with an error, ends.
ChildEnds ==
    /\ kind \in {"observed", "helper"}
    /\ done = Len(Calls)
    /\ kind = "helper" \/ failures > 0
    /\ kind' = "ended"
    /\ UNCHANGED <<depth, environment, optedIn, child, done, failures>>

EnvTerminating ==
    /\ kind = "ended" \/ depth = MaxDepth
    /\ UNCHANGED envVars

EnvNext == Fork \/ Call \/ Exec \/ ChildEnds \/ EnvTerminating

EnvSpec == EnvInit /\ [][EnvNext]_envVars

-----------------------------------------------------------------------------
(* Properties.                                                             *)

\* The types, and that a request may be empty but what comes of it is not: a
\* variable that exists is one the tools act on.
EnvTypeOK ==
    /\ depth \in 0 .. MaxDepth
    /\ environment \in [0 .. MaxDepth -> Environments]
    /\ optedIn \in [1 .. MaxDepth -> SUBSET OptIn]
    /\ kind \in {"none", "observed", "helper", "ended"}
    /\ child \in Environments
    /\ \A v \in Variables \ ChildFaults : child[v] # Empty
    /\ done \in 0 .. 10 + 2 * Len(FaultFields)
    /\ failures \in 0 .. MaxFailures

\* An observed command writes to the logs of its own capture and names its
\* run, all three, however deep the captures nest; and argument and result
\* values, which may be sensitive, are recorded only when the capture that
\* observes the command was asked to, never because one around it was.
OwnObservation ==
    \A k \in 1 .. depth :
        /\ \A v \in Identity : environment[k][v] = k
        /\ \A v \in OptIn : environment[k][v] = On <=> v \in optedIn[k]

\* A fault asked for the observed command reaches it, and every command
\* nested in it, and displaces what the tools are faulted with.  A field that
\* is not asked for keeps the value meant for the tools, so that only a
\* complete request is sure to be carried out as made.
FaultsAsRequested ==
    \A k \in 1 .. depth : \A i \in DOMAIN FaultFields :
        environment[k][Fault(i)] =
            IF environment[0][ChildFault(i)] = Asked
            THEN Asked ELSE environment[0][Fault(i)]

\* A helper sees no log, no option and no fault of the tool that starts it.
HelperSeesNothing ==
    kind = "helper" /\ done = Len(Calls) /\ failures = 0 =>
        \A v \in Variables : child[v] = Unset
=============================================================================
