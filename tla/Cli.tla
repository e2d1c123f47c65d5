--------------------------------- MODULE Cli ---------------------------------
(***************************************************************************)
(* The command line of inspect-capture: p101_observe_parse_arguments,      *)
(* p101_observe_check_arguments and main, up to the call of                *)
(* p101_observe_run.                                                       *)
(*                                                                         *)
(* getopt is external.  It reads a cluster of letters from one argument    *)
(* ("-AR"), and by default goes on behind operands, which it moves to the  *)
(* end; with POSIXLY_CORRECT in the environment, or on a system that is    *)
(* not GNU, it stops at the first.                                         *)
(***************************************************************************)
EXTENDS Naturals, Sequences

CONSTANTS
    Vectors,  \* the argument vectors, without the program's name
    Words,    \* the arguments they are made of
    Letters,  \* an argument that starts with "-" -> its letters
    Attached, \* an argument that ends in a value -> that value
    Null      \* the pointer

VARIABLES
    posix,    \* getopt stops at the first operand
    argv,     \* argv[1] and on
    optind,   \* the next argument getopt looks at
    cluster,  \* the letters of the present one it has not returned
    value,    \* what is attached to the last of them
    operands, \* what it has moved behind the options
    options,  \* struct arguments, but for command_argv
    command,  \* args->command_argv
    err,      \* an error is pending
    pc,       \* what main is about to do; "unborn" before it is called
    exit      \* its status

cliVars == <<posix, argv, optind, cluster, value, operands, options, command,
             err, pc, exit>>

ASSUME WordsAssumption ==
    /\ Vectors \subseteq Seq(Words)
    /\ DOMAIN Attached \subseteq DOMAIN Letters
    /\ DOMAIN Letters \subseteq Words \ {"--"}
    /\ Null \notin Words \cup Seq(Words)

\* The letter o takes the rest of its argument, if there is any, as its value.
ASSUME LettersAssumption ==
    \A word \in DOMAIN Letters :
        LET last == Len(Letters[word]) IN
        /\ Letters[word] \in Seq(STRING) \ {<<>>}
        /\ \A k \in 1 .. last - 1 : Letters[word][k] # "o"
        /\ word \in DOMAIN Attached =>
              Letters[word][last] = "o" /\ Attached[word] # Null

Flags == {"h", "v", "A", "R"}

\* p101_observe_arguments_init.
NoOptions == [flags |-> {}, report_dir |-> Null]

Start(vector, failed) ==
    /\ argv = vector
    /\ optind = 1
    /\ cluster = <<>>
    /\ value = Null
    /\ operands = <<>>
    /\ options = NoOptions
    /\ command = Null
    /\ err = failed
    /\ exit = "none"

\* p101_env_create may have left an error.
CliInit ==
    /\ posix \in BOOLEAN
    /\ \E vector \in Vectors, failed \in BOOLEAN : Start(vector, failed)
    /\ pc = "parse"

-----------------------------------------------------------------------------
IsOption(word) == word \in DOMAIN Letters
IsOperand(word) == word # "--" /\ ~IsOption(word)

Left == SubSeq(argv, optind, Len(argv))

\* --help counts only when it is all there is.
HelpAlone ==
    /\ pc = "parse"
    /\ argv = <<"--help">>
    /\ options' = [options EXCEPT !.flags = @ \cup {"h"}]
    /\ pc' = "parsed"
    /\ UNCHANGED <<posix, argv, optind, cluster, value, operands, command,
                   err, exit>>

\* getopt comes to an argument with options.
NextArgument ==
    /\ pc = "parse"
    /\ argv # <<"--help">>
    /\ ~err
    /\ cluster = <<>>
    /\ optind <= Len(argv)
    /\ IsOption(argv[optind])
    /\ cluster' = Letters[argv[optind]]
    /\ value' = IF argv[optind] \in DOMAIN Attached
                THEN Attached[argv[optind]] ELSE Null
    /\ optind' = optind + 1
    /\ UNCHANGED <<posix, argv, operands, options, command, err, pc, exit>>

\* getopt passes over an operand.
PassOperand ==
    /\ pc = "parse"
    /\ ~posix
    /\ ~err
    /\ cluster = <<>>
    /\ optind <= Len(argv)
    /\ IsOperand(argv[optind])
    /\ operands' = Append(operands, argv[optind])
    /\ optind' = optind + 1
    /\ UNCHANGED <<posix, argv, cluster, value, options, command, err, pc, exit>>

\* Mutation: -o takes the next argument without looking whether there is one.
MutantTakeOptarg ==
    /\ options' = [options EXCEPT !.report_dir =
                      IF value # Null THEN value
                      ELSE IF optind <= Len(argv) THEN argv[optind] ELSE Null]
    /\ optind' = IF value # Null THEN optind ELSE optind + 1
    /\ UNCHANGED err

\* Mutation: the value of -o is read again as an argument.
MutantTakeOptargTwice ==
    /\ options' = [options EXCEPT !.report_dir =
                      IF value # Null THEN value
                      ELSE IF optind <= Len(argv) THEN argv[optind] ELSE Null]
    /\ err' = (value = Null /\ optind > Len(argv))
    /\ UNCHANGED optind

\* -o takes what is left of its argument or the next one, whatever that is;
\* the last -o wins.
TakeOptarg ==
    \/ /\ value # Null
       /\ options' = [options EXCEPT !.report_dir = value]
       /\ UNCHANGED <<optind, err>>
    \/ /\ value = Null
       /\ optind <= Len(argv)
       /\ options' = [options EXCEPT !.report_dir = argv[optind]]
       /\ optind' = optind + 1
       /\ UNCHANGED err
    \/ /\ value = Null
       /\ optind > Len(argv)
       /\ err' = TRUE
       /\ UNCHANGED <<options, optind>>

\* getopt returns a letter, and the switch acts on it.
Option ==
    /\ pc = "parse"
    /\ ~err
    /\ cluster # <<>>
    /\ \/ /\ Head(cluster) \in Flags
          /\ options' = [options EXCEPT !.flags = @ \cup {Head(cluster)}]
          /\ UNCHANGED <<optind, err>>
       \/ Head(cluster) = "o" /\ TakeOptarg
       \/ /\ Head(cluster) \notin Flags \cup {"o"}
          /\ err' = TRUE
          /\ UNCHANGED <<options, optind>>
    /\ cluster' = Tail(cluster)
    /\ UNCHANGED <<posix, argv, value, operands, command, pc, exit>>

\* &argv[optind]: the operands getopt moved, and what is behind "--".
CommandArgv ==
    operands \o IF Left # <<>> /\ Head(Left) = "--" THEN Tail(Left) ELSE Left

\* getopt returns -1, or an error ends the loop.
EndOfOptions ==
    /\ pc = "parse"
    /\ argv # <<"--help">>
    /\ \/ /\ err
          /\ UNCHANGED command
       \/ /\ ~err
          /\ cluster = <<>>
          /\ optind <= Len(argv) =>
                argv[optind] = "--" \/ (posix /\ IsOperand(argv[optind]))
          /\ command' = CommandArgv
    /\ pc' = "parsed"
    /\ UNCHANGED <<posix, argv, optind, cluster, value, operands, options,
                   err, exit>>

Exits(status) ==
    /\ pc' = "done"
    /\ exit' = status
    /\ UNCHANGED <<posix, argv, optind, cluster, value, operands, options,
                   command>>

\* Mutation: help is shown before the error is looked at.
MutantShowHelp ==
    /\ pc = "parsed"
    /\ "h" \in options.flags
    /\ Exits("success")
    /\ UNCHANGED err

\* Help, unless there is an error; writing it may fail.
ShowHelp ==
    /\ pc = "parsed"
    /\ "h" \in options.flags
    /\ ~err
    /\ \/ Exits("success") /\ UNCHANGED err
       \/ Exits("trouble") /\ err' = TRUE

\* p101_observe_check_arguments.
Acceptable ==
    /\ command \notin {Null, <<>>}
    /\ options.report_dir # ""

\* An error of the parser or of p101_observe_check_arguments.
Refuse ==
    /\ pc = "parsed"
    /\ \/ err
       \/ "h" \notin options.flags /\ ~Acceptable
    /\ Exits("trouble")
    /\ err' = TRUE

\* p101_observe_run is called, which is where Capture starts.
CallRun ==
    /\ pc = "parsed"
    /\ ~err
    /\ "h" \notin options.flags
    /\ Acceptable
    /\ pc' = "run"
    /\ UNCHANGED <<posix, argv, optind, cluster, value, operands, options,
                   command, err, exit>>

CliStep ==
    \/ HelpAlone \/ NextArgument \/ PassOperand \/ Option \/ EndOfOptions
    \/ ShowHelp \/ Refuse \/ CallRun

CliTerminating == pc \in {"run", "done"} /\ UNCHANGED cliVars

CliNext == CliStep \/ CliTerminating

CliSpec == CliInit /\ [][CliNext]_cliVars

-----------------------------------------------------------------------------
(* Properties.                                                             *)

AttachedValues == {Attached[word] : word \in DOMAIN Attached}

\* The types, and that getopt never reads past the terminating NULL of argv.
CliTypeOK ==
    /\ posix \in BOOLEAN
    /\ argv \in Seq(Words)
    /\ optind \in 1 .. Len(argv) + 1
    /\ cluster \in Seq(STRING)
    /\ value \in {Null} \cup AttachedValues
    /\ operands \in Seq(Words)
    /\ options \in [flags : SUBSET Flags,
                    report_dir : {Null} \cup Words \cup AttachedValues]
    /\ command = Null \/ command \in Seq(Words)
    /\ err \in BOOLEAN
    /\ pc \in {"unborn", "parse", "parsed", "run", "done"}
    /\ exit \in {"none", "success", "trouble"}

\* The command line read from left to right, without getopt: which arguments
\* are values of an -o before them, where the options end, and by what.
WantsValue(word) ==
    /\ IsOption(word)
    /\ Letters[word][Len(Letters[word])] = "o"
    /\ word \notin DOMAIN Attached

IsValue[i \in 0 .. Len(argv) + 1] ==
    i > 1 /\ WantsValue(argv[i - 1]) /\ ~IsValue[i - 1]

Terminators == {i \in DOMAIN argv : argv[i] = "--" /\ ~IsValue[i]}

OptionsBefore(t) == {i \in 1 .. t - 1 : ~IsValue[i]}

EndRead ==
    IF Terminators = {} THEN Len(argv) + 1
    ELSE CHOOSE t \in Terminators : \A u \in Terminators : t <= u

OperandsTo[i \in 0 .. Len(argv)] ==
    IF i = 0 THEN <<>>
    ELSE IF ~IsValue[i] /\ IsOperand(argv[i])
         THEN Append(OperandsTo[i - 1], argv[i]) ELSE OperandsTo[i - 1]

OperandsRead == OperandsTo[EndRead - 1] \o SubSeq(argv, EndRead + 1, Len(argv))

\* With nothing but options before the first "--", as the usage asks for, the
\* command is exactly what follows it, and every setting is from before it:
\* no option of the command is taken for one of inspect-capture, and argument
\* or result values are logged only if asked for, whatever getopt does with
\* operands.  No operand gets lost either when getopt reads on behind one: the
\* command has every argument before the first terminator that is not an
\* option or its value, and every argument after it, in their order.
ParsedAsMeant ==
    pc = "run" =>
        /\ ~posix => command = OperandsRead
        /\ \A t \in Terminators :
            (\A i \in OptionsBefore(t) : IsOption(argv[i])) =>
                /\ command = SubSeq(argv, t + 1, Len(argv))
                /\ \A flag \in Flags :
                      flag \in options.flags <=>
                          \E i \in OptionsBefore(t) :
                              \E k \in DOMAIN Letters[argv[i]] :
                                  Letters[argv[i]][k] = flag
                /\ options.report_dir = Null <=>
                      ~\E i \in OptionsBefore(t) :
                          argv[i] \in DOMAIN Attached \/ WantsValue(argv[i])

\* A mistake before the command, a letter that is no option or an -o without
\* its value, is trouble, also beside a request for help: nothing is run and
\* the status is not zero.
MistakesAreTrouble ==
    \A i \in DOMAIN argv :
        LET known == Flags \cup {"o"} IN
        /\ pc \in {"run", "done"} /\ exit # "trouble" /\ argv # <<"--help">>
        /\ IsOption(argv[i]) /\ ~IsValue[i]
        /\ \A j \in OptionsBefore(i) : IsOption(argv[j])
        => /\ \A k \in DOMAIN Letters[argv[i]] : Letters[argv[i]][k] \in known
           /\ WantsValue(argv[i]) => i < Len(argv)
=============================================================================
