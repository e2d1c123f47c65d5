------------------------------ MODULE MCCommands ------------------------------
(***************************************************************************)
(* p101-inspect for TLC: its main and loaded analysis (Commands), and the  *)
(* judgements of model verify (Expectations) and model check (RulePacks).  *)
(* The three share no state, so each behaviour is of one of them,          *)
(* `component', while the other two stand still.                           *)
(***************************************************************************)
EXTENDS Commands, Expectations, RulePacks

VARIABLE component

-----------------------------------------------------------------------------
(* Every name of up to seven characters for a buffer of six, vectors for   *)
(* every command, and two findings in two files.                           *)

TwoChars == {"/", "x"}
ShortName == <<"x", "x">>
EveryProgram == UNION {[1 .. n -> TwoChars] : n \in 0 .. 7}
SomeVectors ==
    {<<>>, <<"analyze">>, <<"run">>, <<"capture">>, <<"view">>, <<"-h">>,
     <<"--help">>, <<"other">>, <<"model">>,
     <<"lesson">>, <<"lesson", "ID">>, <<"lesson", "NoID">>,
     <<"interleaving">>, <<"interleaving", "D">>,
     <<"model", "verify">>, <<"model", "verify", "D">>,
     <<"model", "verify", "-e", "F", "D">>,
     <<"model", "verify", "x", "F", "D">>,
     <<"model", "check", "D", "--rules">>,
     <<"model", "check", "D", "--rules", "P">>,
     <<"model", "explain", "D", "ID">>, <<"model", "explain", "D">>,
     <<"model", "compare", "D", "E">>}
Sources == {"a.c", "b.c"}
Found == [diagnostic_id : {"ID", "NoID"}, file_name : Sources]
SomeLoads ==
    [findings : UNION {[1 .. n -> Found] : n \in 0 .. 2},
     edges : {<<[from |-> f, to |-> t]>> : f, t \in Sources \cup {"NULL"}}]

NoCommand ==
    /\ program = <<>> /\ argv = <<>> /\ capture_program = Initially
    /\ command = "none" /\ loaded = {} /\ failed = FALSE
    /\ made = [o \in Objects |-> 0] /\ destroyed = made
    /\ counterexamples = FALSE /\ analysis = Nothing /\ shown = Nothing
    /\ pc = "locate" /\ exit = "none"

-----------------------------------------------------------------------------
(* Every expectation file of up to two lines of each kind, with numbers up *)
(* to and beyond the range of an unsigned long of three bits.              *)

Numeral(sign, digits, empty, tail) ==
    [sign |-> sign, digits |-> digits, empty |-> empty, tail |-> tail]
Numerals ==
    {Numeral("", n, FALSE, FALSE) : n \in {0, 1, 2, 8, 9}}
    \cup {Numeral("-", 7, FALSE, FALSE)}
    \cup {Numeral("", 0, TRUE, tail) : tail \in BOOLEAN}
EdgeValues ==
    [name : {"call-parent"}, colon : {TRUE}, number : Numerals, long : {FALSE}]
    \cup [name : {"call-return"}, colon : {FALSE},
          number : {Numeral("", 0, FALSE, FALSE)}, long : BOOLEAN]
Lines ==
    [key : {"", "#", "no separator"}]
    \cup [key : {"result"}, value : {"clean", "findings"}]
    \cup [key : {"finding_count", "min_nodes"}, value : Numerals]
    \cup [key : {"require_edge", "min_edges"}, value : EdgeValues]
    \cup [key : PatternKeys, value : {"P101-FD-*", "open"}]
EveryFile ==
    {<<Header>> \o body : body \in UNION {[1 .. n -> Lines] : n \in 0 .. 2}}
    \cup {<<[key |-> "#"]>>, <<>>}
Node(domain, kind) == [domain |-> domain, kind |-> kind, name |-> "open"]
Verified == {
    [findings |-> <<>>, nodes |-> <<>>, edges |-> <<>>],
    [findings |-> <<"P101-FD-001">>,
     nodes |-> <<Node("call", "enter"), Node("call", "return")>>,
     edges |-> <<"call-parent", "other", "call-parent">>],
    [findings |-> <<"P101-ALLOC-001", "P101-FD-001">>,
     nodes |-> <<Node("resource", "enter")>>,
     edges |-> <<"call-return">>]}

NoExpectations ==
    /\ file = NoFile /\ rest = <<>>
    /\ facts = [findings |-> <<>>, nodes |-> <<>>, edges |-> <<>>]
    /\ receipt_status = "success" /\ line_number = 0 /\ failures = 0
    /\ reported = {} /\ verifyFailed = FALSE
    /\ verifyPc = "load" /\ verifyExit = "none"

-----------------------------------------------------------------------------
(* Up to six arguments of model check, and every two findings.             *)

CheckWords == {"--rules", "concurrency", "resource-clean", "secure-c", "other"}
EveryVector == UNION {[1 .. n -> CheckWords] : n \in {2, 3, 4}}
               \cup {<<"--rules", p, "--rules", q, "--rules", r>> :
                        p, q, r \in CheckWords}
FindingIds == {"P101-SYNC-001", "P101-FD-001", "P101-ALLOC-001",
               "P101-RESOURCE-001", "P101-OTHER-001"}
Checked == [findings : UNION {[1 .. n -> FindingIds] : n \in 0 .. 2},
            nodes : {<<>>}, edges : {<<>>}]

NoCheck ==
    /\ checkArgv = <<"--rules", "secure-c">> /\ index = 0 /\ rule_index = 0
    /\ checkLoaded = [findings |-> <<>>, nodes |-> <<>>, edges |-> <<>>]
    /\ violations = 0 /\ checkPc = "load" /\ checkExit = "none"

Pairs == {<<"P101-SYNC-*", "P101-SYNC-001">>, <<"P101-FD-*", "P101-FD-001">>,
          <<"P101-ALLOC-*", "P101-ALLOC-001">>,
          <<"P101-RESOURCE-*", "P101-RESOURCE-001">>, <<"open", "open">>}

-----------------------------------------------------------------------------
InspectInit ==
    \/ component = "commands" /\ Init /\ NoExpectations /\ NoCheck
    \/ component = "expectations" /\ NoCommand /\ VerifyInit /\ NoCheck
    \/ component = "rules" /\ NoCommand /\ NoExpectations /\ CheckInit

CommandMoves ==
    /\ component = "commands"
    /\ Next
    /\ UNCHANGED <<component, verifyVars, checkVars>>

VerifyMoves ==
    /\ component = "expectations"
    /\ VerifyNext
    /\ UNCHANGED <<component, vars, checkVars>>

CheckMoves ==
    /\ component = "rules"
    /\ CheckNext
    /\ UNCHANGED <<component, vars, verifyVars>>

InspectNext == CommandMoves \/ VerifyMoves \/ CheckMoves

InspectSpec ==
    InspectInit /\ [][InspectNext]_<<component, vars, verifyVars, checkVars>>
=============================================================================
