------------------------------- MODULE MCLaunch -------------------------------
(***************************************************************************)
(* What happens before a command is observed, for TLC: the command lines,  *)
(* the paths of the captures and the environments of their children.  The  *)
(* three share no state, so each behaviour is of one of them, `component', *)
(* while the other two stand still.                                        *)
(***************************************************************************)
EXTENDS RunArguments, ReportPaths, ChildEnv

VARIABLE component

launchVars == <<cliVars, runVars, pathsVars, envVars>>

-----------------------------------------------------------------------------
(* Command lines of run, of up to four options, values and terminators and *)
(* a command of up to two words, and command lines of inspect-capture, of  *)
(* up to four arguments.                                                   *)

Clusters == "-A" :> <<"A">> @@ "-R" :> <<"R">> @@ "-AR" :> <<"A", "R">>
            @@ "-h" :> <<"h">> @@ "-v" :> <<"v">> @@ "-Z" :> <<"Z">>
            @@ "-o" :> <<"o">> @@ "-vod" :> <<"v", "o">>
            @@ "--help" :> <<"-", "h">> @@ "--observe-tool" :> <<"-">>
            @@ "-A/capture" :> <<"A", "/">>
Values == "-vod" :> "d"
Dictionary == DOMAIN Clusters \cup {"--", "w", "d", "", "d/capture"}

CaptureWords == {"-A", "-AR", "-h", "-Z", "-o", "-vod", "--help", "--", "w", ""}
CaptureLines == UNION {[1 .. n -> CaptureWords] : n \in 0 .. 4}

Heads == UNION {[1 .. n -> {"-o", "-A", "-R", "--observe-tool", "d", "--"}] :
                    n \in 0 .. 4}
Observed == UNION {[1 .. n -> {"w", "-h", "--", ""}] : n \in 0 .. 2}
RunLines == {head \o tail : head \in Heads, tail \in Observed}
CapturePaths == "d" :> "d/capture" @@ "-A" :> "-A/capture"

NoRun ==
    /\ runArgv = <<>> /\ index = 1 /\ given = Nothing
    /\ capture_argv = <<>> /\ capture_argc = 0
    /\ runPc = "none" /\ runExit = "none"

NoArguments ==
    /\ NoRun
    /\ posix = FALSE /\ Start(<<>>, FALSE) /\ pc = "done"

-----------------------------------------------------------------------------
(* All paths of up to three characters, some that all names fit behind,    *)
(* that one does not, that none does, and two that do not fit themselves.  *)

ShortPaths ==
    UNION {[1 .. n -> {"/", "a"}] : n \in 1 .. 3}
    \cup {<<"a", "/", "a", "b">>, <<"a", "/", "/", "b">>,
          <<"a", "/", "b", "/", "a">>, <<"a", "/", "b", "/", "a", "b">>,
          <<"a", "/", "b", "/", "a", "/", "b", "/", "a">>,
          <<"a", "/", "b", "/", "a", "/", "b", "b", "b", "b">>}
NameLengths == [summary |-> 2, toolReceipt |-> 3]
FileNames == DOMAIN NameLengths
PlainFiles == {<<"a">>, <<"a", "/", "b">>}

NoPaths ==
    /\ wanted = [m \in Makers |-> <<"a">>]
    /\ dir = [m \in Makers |-> <<>>]
    /\ reached = [m \in Makers |-> 0]
    /\ at = [m \in Makers |-> "paths"]
    /\ tree = {<<>>} /\ plain = {}

-----------------------------------------------------------------------------
(* Two of the seven fields of a fault request.                             *)

TwoFields == <<"call", "mode">>

NoEnvironment ==
    /\ environment = [k \in 0 .. MaxDepth |-> [v \in Variables |-> Unset]]
    /\ optedIn = [k \in 1 .. MaxDepth |-> {}]
    /\ depth = 0 /\ kind = "none" /\ child = environment[0]
    /\ done = 0 /\ failures = 0

-----------------------------------------------------------------------------
LaunchInit ==
    \/ component = "run" /\ RunInit /\ NoPaths /\ NoEnvironment
    \/ component = "capture" /\ CliInit /\ NoRun /\ NoPaths /\ NoEnvironment
    \/ component = "paths" /\ NoArguments /\ PathsInit /\ NoEnvironment
    \/ component = "environment" /\ NoArguments /\ NoPaths /\ EnvInit

ArgumentsMove ==
    /\ component \in {"run", "capture"}
    /\ RunNext
    /\ UNCHANGED <<component, pathsVars, envVars>>

PathsMove ==
    /\ component = "paths"
    /\ PathsNext
    /\ UNCHANGED <<component, cliVars, runVars, envVars>>

EnvironmentMoves ==
    /\ component = "environment"
    /\ EnvNext
    /\ UNCHANGED <<component, cliVars, runVars, pathsVars>>

LaunchNext == ArgumentsMove \/ PathsMove \/ EnvironmentMoves

LaunchSpec == LaunchInit /\ [][LaunchNext]_<<component, launchVars>>

-----------------------------------------------------------------------------
\* The type invariants of the three components: getopt stays within argv, a
\* path and its terminator within their buffer, and a variable that exists is
\* one the tools act on.
LaunchTypeOK == CliTypeOK /\ PathsTypeOK /\ EnvTypeOK
=============================================================================
