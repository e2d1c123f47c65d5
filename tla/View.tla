---------------------------------- MODULE View ----------------------------------
(***************************************************************************)
(* p101-inspect view: its arguments, the artifact they select, the copy to *)
(* a standard stream or to the file of -o, and the status, which is the    *)
(* one of the analysis loaded anew from the directory's inputs.            *)
(*                                                                         *)
(* A file is a sequence of blocks, which the copy moves one by one.        *)
(***************************************************************************)
EXTENDS Naturals, Sequences

CONSTANTS
    Vectors,  \* the arguments behind "view"
    Contents, \* the directories as they may be at the start: path -> blocks
    Null      \* the pointer

VARIABLES
    disk,      \* path -> blocks; a path that names no file is not in it
    argv,      \* the arguments
    index,     \* the one looked at
    asked,     \* what the ones before it ask for
    todo,      \* the artifacts to render
    copied,    \* blocks of the first of them copied
    rendering, \* its destination is open
    failed,    \* operation_status is not zero
    viewPc,    \* where view_command is
    viewExit   \* its status

viewVars == <<argv, index, asked, todo, copied, rendering, failed, viewPc, viewExit>>

\* Standard output, and standard error, which takes the human text when both
\* forms are asked for.  Nobody reads back what went to either.
Streams == "streams"
Listed == {"resource-report.txt", "resource-report.json",
           "concurrency-report.txt", "concurrency-report.json",
           "trace-tree.txt", "trace-summary.txt",
           "sanitizer-report.txt", "sanitizer-report.json",
           "correlated-report.txt", "correlated-report.json",
           "resource-lifetimes.md", "run-model.json", "summary.md",
           "finding-index.tsv", "input-resources.log", "input-calls.log",
           "input-stderr.txt"}
Inputs == {"input-resources.log", "input-calls.log", "input-stderr.txt"}

IsFile(blocks) == blocks \in Seq({blocks[i] : i \in DOMAIN blocks})

ASSUME ContentsAssumption ==
    \A contents \in Contents :
        /\ Streams \in DOMAIN contents
        /\ \A path \in DOMAIN contents : IsFile(contents[path])

\* join_path.
Path(directory, name) == directory \o "/" \o name

ViewInit ==
    /\ disk \in Contents
    /\ argv \in Vectors
    /\ index = 1
    /\ asked = [outputs |-> {"human"}, mermaid |-> FALSE, summary |-> FALSE,
                output_path |-> Null, words |-> <<>>]
    /\ todo = <<>>
    /\ copied = 0
    /\ rendering = FALSE
    /\ failed = FALSE
    /\ viewPc = "parse"
    /\ viewExit = "none"

Exits(status) ==
    /\ viewPc' = "done"
    /\ viewExit' = status

-----------------------------------------------------------------------------
(* The arguments.                                                          *)

\* p101_tool_report_parse_output_option; the last one counts.
OutputOptions ==
    [word \in {"-d:human", "-d:json", "-d:human,json"} |->
        CASE word = "-d:human" -> {"human"}
          [] word = "-d:json" -> {"json"}
          [] word = "-d:human,json" -> {"human", "json"}]

ParseArgument ==
    LET word == argv[index]
        refused == Exits("trouble") /\ UNCHANGED <<index, asked>>
        takes(settings, amount) ==
            /\ asked' = settings
            /\ index' = index + amount
            /\ UNCHANGED <<viewPc, viewExit>>
    IN
    /\ viewPc = "parse"
    /\ index <= Len(argv)
    /\ \/ /\ word \in DOMAIN OutputOptions
          /\ takes([asked EXCEPT !.outputs = OutputOptions[word]], 1)
       \/ word = "-d:other" /\ refused
       \/ /\ word \in {"-m", "--mermaid"}
          /\ takes([asked EXCEPT !.mermaid = TRUE], 1)
       \/ /\ word \in {"-s", "--summary"}
          /\ takes([asked EXCEPT !.summary = TRUE], 1)
       \/ /\ word \in {"-o", "--output"}
          /\ IF index < Len(argv) /\ asked.output_path = Null
             THEN takes([asked EXCEPT !.output_path = argv[index + 1]], 2)
             ELSE refused
       \/ /\ word \notin DOMAIN OutputOptions \cup
                {"-d:other", "-m", "--mermaid", "-s", "--summary", "-o", "--output"}
          /\ IF Len(asked.words) < 2
             THEN takes([asked EXCEPT !.words = Append(@, word)], 1)
             ELSE refused
    /\ UNCHANGED <<disk, argv, todo, copied, rendering, failed>>

view == asked.words[1]
directory == asked.words[2]

HumanName ==
    CASE view = "resource" -> "resource-report.txt"
      [] view = "sync" -> "concurrency-report.txt"
      [] view = "trace" /\ asked.summary -> "trace-summary.txt"
      [] view = "trace" /\ ~asked.summary -> "trace-tree.txt"
      [] view = "report" /\ asked.mermaid -> "resource-lifetimes.md"
      [] view = "report" /\ ~asked.mermaid /\ asked.summary -> "summary.md"
      [] view = "report" /\ ~asked.mermaid /\ ~asked.summary ->
            "correlated-report.txt"
      [] OTHER -> Null

JsonName ==
    CASE view = "resource" -> "resource-report.json"
      [] view = "sync" -> "concurrency-report.json"
      [] view = "report" -> "correlated-report.json"
      [] OTHER -> Null

\* One file cannot take two artifacts.
OneOutput == asked.output_path # Null => asked.outputs # {"human", "json"}

Selectable ==
    /\ HumanName # Null
    /\ "json" \in asked.outputs => JsonName # Null
    /\ asked.mermaid => view = "report"
    /\ asked.summary => view \in {"report", "trace"}

\* The arguments are at their end: usage, or what is to be rendered.
Select ==
    /\ viewPc = "parse"
    /\ index > Len(argv)
    /\ \/ /\ Len(asked.words) = 2 /\ OneOutput /\ Selectable
          /\ todo' = (IF "human" \in asked.outputs THEN <<HumanName>> ELSE <<>>)
                     \o (IF "json" \in asked.outputs THEN <<JsonName>> ELSE <<>>)
          /\ viewPc' = "render"
          /\ UNCHANGED viewExit
       \/ /\ Len(asked.words) = 2 => ~OneOutput \/ ~Selectable
          /\ Exits("trouble")
          /\ UNCHANGED todo
    /\ UNCHANGED <<disk, argv, index, asked, copied, rendering, failed>>

-----------------------------------------------------------------------------
(* render_artifact and copy_file_to_stream.                                *)

Destination == IF asked.output_path = Null THEN Streams ELSE asked.output_path
Source == Path(directory, Head(todo))

\* fopen for writing.
Emptied(file) ==
    [path \in DOMAIN disk \cup {file} |->
        IF path = file THEN <<>> ELSE disk[path]]

\* The destination is emptied before the source is looked at.
OpenDestination ==
    /\ viewPc = "render"
    /\ todo # <<>> /\ ~rendering /\ ~failed
    /\ \/ /\ asked.output_path = Null
          /\ rendering' = TRUE
          /\ UNCHANGED <<disk, failed>>
       \/ /\ asked.output_path # Null
          /\ disk' = Emptied(asked.output_path)
          /\ rendering' = TRUE
          /\ UNCHANGED failed
       \/ /\ asked.output_path # Null
          /\ failed' = TRUE
          /\ UNCHANGED <<disk, rendering>>
    /\ UNCHANGED <<argv, index, asked, todo, copied, viewPc, viewExit>>

Unread == Source \in DOMAIN disk /\ copied < Len(disk[Source])

\* fread and fwrite of one block, either of which may fail.
CopyBlock ==
    /\ viewPc = "render"
    /\ rendering /\ ~failed /\ Unread
    /\ \/ /\ disk' = [disk EXCEPT ![Destination] = Append(@, disk[Source][copied + 1])]
          /\ copied' = copied + 1
          /\ UNCHANGED failed
       \/ failed' = TRUE /\ UNCHANGED <<disk, copied>>
    /\ UNCHANGED <<argv, index, asked, todo, rendering, viewPc, viewExit>>

\* Mutation: what fclose returns is not looked at.
MutantCloseNotes(lost) == failed' = failed

CloseNotes(lost) == failed' \in {failed \/ lost, TRUE}

\* The end of the source, or it could not be opened; the two closes.  The last
\* block may have been in a buffer and get lost then.  The streams stay open,
\* and what is lost of them at the end of the process nobody notices.
CloseRender ==
    /\ viewPc = "render"
    /\ rendering
    /\ failed \/ ~Unread
    /\ rendering' = FALSE
    /\ copied' = 0
    /\ todo' = Tail(todo)
    /\ \E lost \in {FALSE, asked.output_path # Null /\ copied > 0} :
          /\ disk' = IF lost THEN [disk EXCEPT ![Destination] =
                                      SubSeq(@, 1, Len(@) - 1)]
                     ELSE disk
          /\ IF Source \in DOMAIN disk THEN CloseNotes(lost) ELSE failed' = TRUE
    /\ UNCHANGED <<argv, index, asked, viewPc, viewExit>>

\* load_analysis_directory, and the status of the whole or of one policy.
LoadAndExit ==
    /\ viewPc = "render"
    /\ ~rendering
    /\ \/ failed /\ Exits("trouble")
       \/ ~failed /\ todo = <<>> /\ Exits("trouble")
       \/ /\ ~failed /\ todo = <<>>
          /\ \A name \in Inputs : Path(directory, name) \in DOMAIN disk
          /\ \E status \in {"success", "findings"} : Exits(status)
    /\ UNCHANGED <<disk, argv, index, asked, todo, copied, rendering, failed>>

ViewStep ==
    \/ ParseArgument \/ Select \/ OpenDestination \/ CopyBlock \/ CloseRender
    \/ LoadAndExit

ViewTerminating == viewPc = "done" /\ UNCHANGED <<disk, viewVars>>

ViewNext == ViewStep \/ ViewTerminating

ViewSpec == ViewInit /\ [][ViewNext]_<<disk, viewVars>>

-----------------------------------------------------------------------------
(* Properties.                                                             *)

\* Every artifact that a combination of arguments selects is one the analysis
\* writes and its manifest lists.  When view -o does not end in trouble, the
\* file has the whole artifact that was asked for and nothing else, whatever
\* was in it before and whatever failed, unless it was told to write the
\* artifact over itself.
ViewDelivers ==
    /\ \A i \in DOMAIN todo : todo[i] \in Listed
    /\ viewExit \in {"success", "findings"} /\ asked.output_path # Null =>
        \E name \in Listed :
            LET source == Path(directory, name) IN
            /\ name \in {HumanName, JsonName}
            /\ asked.outputs = {IF name = HumanName THEN "human" ELSE "json"}
            /\ asked.output_path # source =>
                  disk[asked.output_path] = disk[source]
=============================================================================
