----------------------------- MODULE Expectations -----------------------------
(***************************************************************************)
(* model_verify with a file of expectations: the header, a line at a time, *)
(* and a status at the end.                                                *)
(*                                                                         *)
(* A line is what fgets returns of it: a key and a value.  (A line longer  *)
(* than the buffer is read as several.)  How a value is read depends on    *)
(* the key; a number is a sign, digits (empty: none, which count as zero)  *)
(* and what follows them (tail).                                           *)
(***************************************************************************)
EXTENDS Facts

CONSTANTS
    ExpectationFiles, \* sequences of lines, the header being the first
    VerifyLoads,      \* loaded analyses
    Modulus           \* ULONG_MAX + 1

VARIABLES
    file,           \* the expectation file's lines, or NoFile
    rest,           \* those the stream has not returned yet
    facts,          \* what load_analysis_directory built
    receipt_status, \* what analysis_result read from the receipt
    line_number,    \* lines read
    failures,       \* expectations not satisfied
    reported,       \* the line numbers of the diagnostics
    verifyFailed,   \* operation_status is not zero
    verifyPc,       \* the next call
    verifyExit      \* the status of model_verify

verifyVars == <<file, rest, facts, receipt_status, line_number, failures,
                reported, verifyFailed, verifyPc, verifyExit>>

\* What is loaded has fewer findings, nodes and edges than memory has bytes.
ASSUME AmountsAssumption ==
    /\ Modulus \in Nat
    /\ \A load \in VerifyLoads :
          \A amount \in {Len(load.findings), Len(load.nodes), Len(load.edges)} :
              amount \in 0 .. Modulus - 1

\* Files are sequences of lines, and digits make a number.
ASSUME FilesAssumption ==
    \A lines \in ExpectationFiles :
        /\ lines \in Seq({lines[i] : i \in DOMAIN lines})
        /\ \A i \in DOMAIN lines :
              lines[i].key \in {"finding_count", "min_nodes"} =>
                  lines[i].value.digits \in Nat

NoFile == <<[key |-> "NULL"]>>
Header == [key |-> "p101-expectations-v1"]

VerifyInit ==
    /\ file \in ExpectationFiles \cup {NoFile}
    /\ rest = <<>>
    /\ facts \in VerifyLoads
    /\ receipt_status \in {"success", "findings"}
    /\ line_number = 0
    /\ failures = 0
    /\ reported = {}
    /\ verifyFailed = FALSE
    /\ verifyPc = "load"
    /\ verifyExit = "none"

-----------------------------------------------------------------------------
(* One line.                                                               *)

\* strtoul in base ten and the checks of errno and *end.  Nothing at all is
\* zero, a minus sign negates in the unsigned type.
Strtoul(numeral) ==
    [value |-> IF numeral.sign = "-" THEN (Modulus - numeral.digits) % Modulus
               ELSE numeral.digits,
     ok |-> /\ numeral.digits < Modulus
            /\ ~numeral.tail
            /\ numeral.empty => numeral.sign = ""]

Counted(actual, numeral) ==
    Strtoul(numeral).ok /\ actual = Strtoul(numeral).value

AtLeast(actual, numeral) ==
    Strtoul(numeral).ok /\ actual >= Strtoul(numeral).value

\* min_edges has a name, a colon and a number, or is malformed; edge names are
\* limited to 63 bytes.
EdgeLineOK(line) ==
    /\ ~line.value.long
    /\ line.key = "min_edges" =>
          line.value.colon /\ Strtoul(line.value.number).ok

IsSkipped(line) == line.key \in {"", "#"}

PatternKeys == {"forbid", "require", "require_call", "forbid_call",
                "require_resource"}

\* What keeps a line from being an expectation.
IsMalformed(line) ==
    \/ line.key \notin {"", "#", "result", "finding_count", "min_nodes",
                        "require_edge", "min_edges"} \cup PatternKeys
    \/ line.key \in {"require_edge", "min_edges"} /\ ~EdgeLineOK(line)

Satisfied(line) ==
    \/ /\ line.key = "result"
       /\ line.value = IF receipt_status = "success" THEN "clean"
                                                      ELSE "findings"
    \/ line.key = "finding_count" /\ Counted(Len(facts.findings), line.value)
    \/ line.key = "min_nodes" /\ AtLeast(Len(facts.nodes), line.value)
    \/ line.key = "forbid" /\ ~AnalysisHasFinding(facts, line.value)
    \/ line.key = "require" /\ AnalysisHasFinding(facts, line.value)
    \/ line.key = "require_edge" /\ EdgeCount(facts, line.value.name) >= 1
    \/ /\ line.key = "min_edges"
       /\ AtLeast(EdgeCount(facts, line.value.name), line.value.number)
    \/ line.key = "require_call" /\ HasCall(facts, line.value)
    \/ line.key = "forbid_call" /\ ~HasCall(facts, line.value)
    \/ line.key = "require_resource" /\ HasResource(facts, line.value)

-----------------------------------------------------------------------------
VerifyExits(status) ==
    /\ verifyPc' = "done"
    /\ verifyExit' = status

\* analysis_result and load_analysis_directory; without a file, that is all.
LoadToVerify ==
    /\ verifyPc = "load"
    /\ \/ VerifyExits("trouble")
       \/ file # NoFile /\ verifyPc' = "open" /\ UNCHANGED verifyExit
       \/ file = NoFile /\ VerifyExits("success")
    /\ UNCHANGED <<file, facts, receipt_status, line_number, failures, reported,
                   verifyFailed, rest>>

OpenExpectations ==
    /\ verifyPc = "open"
    /\ \/ VerifyExits("trouble") /\ UNCHANGED rest
       \/ verifyPc' = "header" /\ rest' = file /\ UNCHANGED verifyExit
    /\ UNCHANGED <<file, facts, receipt_status, line_number, failures, reported,
                   verifyFailed>>

\* The first fgets; it may fail, and what it reads must be the header.
ReadHeader ==
    /\ verifyPc = "header"
    /\ \/ /\ rest # <<>> /\ Head(rest) = Header
          /\ rest' = Tail(rest)
          /\ verifyPc' = "line"
          /\ UNCHANGED verifyFailed
       \/ /\ verifyFailed' = TRUE
          /\ verifyPc' = "close"
          /\ UNCHANGED rest
    /\ line_number' = 1
    /\ UNCHANGED <<file, facts, receipt_status, failures, reported, verifyExit>>

\* Mutation: skipped lines are not counted.
MutantNextLine(line) ==
    line_number' = IF IsSkipped(line) THEN line_number ELSE line_number + 1

NextLine(line) == line_number' = line_number + 1

\* fgets and one line.  A diagnostic that cannot be written ends it.
ReadLine ==
    /\ verifyPc = "line"
    /\ rest # <<>>
    /\ rest' = Tail(rest)
    /\ LET line == Head(rest) IN
       /\ NextLine(line)
       /\ \/ /\ IsSkipped(line) \/ (~IsMalformed(line) /\ Satisfied(line))
             /\ UNCHANGED <<failures, reported, verifyFailed, verifyPc>>
          \/ /\ ~IsSkipped(line) /\ ~IsMalformed(line) /\ ~Satisfied(line)
             /\ reported' = reported \cup {line_number'}
             /\ failures' = failures + 1
             /\ UNCHANGED <<verifyFailed, verifyPc>>
          \/ /\ ~IsSkipped(line)
             /\ IsMalformed(line) \/ ~Satisfied(line)
             /\ verifyFailed' = TRUE
             /\ verifyPc' = "close"
             /\ UNCHANGED <<failures, reported>>
    /\ UNCHANGED <<file, facts, receipt_status, verifyExit>>

\* The end of the file, or a read error, which ferror tells from it.
EndOfFile ==
    /\ verifyPc = "line"
    /\ verifyPc' = "close"
    /\ \/ rest = <<>> /\ UNCHANGED verifyFailed
       \/ verifyFailed' = TRUE
    /\ UNCHANGED <<file, rest, facts, receipt_status, line_number, failures,
                   reported, verifyExit>>

\* Mutation: failures reported so far decide, also when reading failed.
MutantVerdictStatus ==
    IF failures > 0 THEN "findings"
    ELSE IF verifyFailed THEN "trouble" ELSE "success"

VerdictStatus ==
    IF verifyFailed THEN "trouble"
    ELSE IF failures > 0 THEN "findings" ELSE "success"

CloseExpectations ==
    /\ verifyPc = "close"
    /\ \/ VerifyExits("trouble")
       \/ VerifyExits(VerdictStatus)
    /\ UNCHANGED <<file, rest, facts, receipt_status, line_number, failures,
                   reported, verifyFailed>>

VerifyTerminating == verifyPc = "done" /\ UNCHANGED verifyVars

VerifyNext ==
    \/ LoadToVerify \/ OpenExpectations \/ ReadHeader \/ ReadLine \/ EndOfFile
    \/ CloseExpectations \/ VerifyTerminating

VerifySpec == VerifyInit /\ [][VerifyNext]_verifyVars

-----------------------------------------------------------------------------
(* Properties.                                                             *)

\* A number as a reader of the file means it.  (An empty one and one with a
\* sign have no such meaning; strtoul gives them one.)
IsPlain(numeral) == ~numeral.empty /\ numeral.sign = ""

Means(line) ==
    CASE line.key = "finding_count" ->
            ~line.value.tail /\ Len(facts.findings) = line.value.digits
      [] line.key = "min_nodes" ->
            ~line.value.tail /\ Len(facts.nodes) >= line.value.digits
      [] line.key = "min_edges" ->
            EdgeCount(facts, line.value.name) >= line.value.number.digits
      [] OTHER -> Satisfied(line)

HasPlainNumber(line) ==
    CASE line.key \in {"finding_count", "min_nodes"} -> IsPlain(line.value)
      [] line.key = "min_edges" ->
            line.value.colon => IsPlain(line.value.number)
      [] OTHER -> TRUE

\* An expectation file is a set of conditions: the status depends on neither
\* their order nor their number.  Success means that every line was read and
\* every condition holds, with its numbers read as the numbers they are;
\* findings, that every line is well formed and some condition does not hold;
\* and a file that cannot be read to its end is trouble, whatever was
\* reported before.
VerdictIsOfTheLines ==
    LET Body == {file[i] : i \in 2 .. Len(file)} IN
    verifyPc = "done" /\ verifyExit # "trouble" /\ file # NoFile =>
        /\ file[1] = Header
        /\ \A line \in Body : IsSkipped(line) \/ ~IsMalformed(line)
        /\ (\A line \in Body : HasPlainNumber(line)) =>
              (verifyExit = "success" <=>
                 \A line \in Body : IsSkipped(line) \/ Means(line))

\* Each condition that does not hold is reported once, at its own line of the
\* file: comments and blank lines count.
DiagnosticsNameTheirLines ==
    verifyPc = "done" /\ verifyExit # "trouble" =>
        /\ reported = {i \in 2 .. Len(file) :
                          ~IsSkipped(file[i]) /\ ~Satisfied(file[i])}
        /\ failures = Cardinality(reported)
=============================================================================
