----------------------------- MODULE AnalyzeProofs -----------------------------
(***************************************************************************)
(* Theorems about p101-inspect analyze, for any number of invocations with *)
(* one output directory, any policy, with and without a late writer.       *)
(* Types are kept whatever happens; IInv until two invocations overlap.    *)
(***************************************************************************)
EXTENDS Analyze, EvidenceProofs

-----------------------------------------------------------------------------
(* The strengthened invariant.                                             *)

\* The order in which the names of the analysis directory are written.
Rank(n) ==
    CASE n = "reports"               -> 1
      [] n = "run-model.json"        -> 2
      [] n = "input-resources.log"   -> 3
      [] n = "input-calls.log"       -> 4
      [] n = "input-stderr.txt"      -> 5
      [] n = "finding-index.tsv"     -> 6
      [] n = "summary.md"            -> 7
      [] n = "analysis-manifest.txt" -> 8
      [] n = "analysis-receipt.json" -> 9
      [] n = "finish"                -> 10

Verifying == {"verify_capture", "verify_artifact"}
Preparing == Verifying \cup {"ingest_resources", "ingest_calls", "run", "reports"}
Writing   == (Names \ {"reports"}) \cup {"finish"}

\* The stages at which an input has been read.
HasRead(a, r) ==
    CASE r = "resources" -> pc[a] \in Writing \cup {"ingest_calls", "run", "reports"}
      [] r = "calls"     -> pc[a] \in Writing \cup {"run", "reports"}
      [] r = "stderr"    -> pc[a] \in Writing \cup {"reports"}

\* Invocations with one output path do not overlap.
Exclusive == \A a, b \in Analyzers : AtWork(a) /\ AtWork(b) => a = b

\* Who gets past the look at the output path finds nothing there.
Untouched ==
    /\ ~exists => \A n \in Names : product[n] = Absent
    /\ \A a \in Analyzers : pc[a] \in Preparing => ~exists
    /\ \A a \in Analyzers :
          open[a] => pc[a] \in (Names \ {"reports"}) \cup {"crashed"}

\* At a stage, everything before it is written, nothing after it is there.
Progress ==
    \A a \in Analyzers : pc[a] \in Writing =>
        \A n \in Names :
            /\ Rank(n) < Rank(pc[a]) => IsWhole(n) /\ product[n].by = a
            /\ Rank(n) > Rank(pc[a]) => product[n] = Absent
            /\ n = pc[a] => product[n] = IF open[a] THEN Ragged(a) ELSE Absent

\* A receipt written to its end closes a directory of one author.
OneAuthor ==
    IsWhole("analysis-receipt.json") =>
        \E a \in Analyzers : \A n \in Names : IsWhole(n) /\ product[n].by = a

\* What a written file shows agrees with what its author's analysis was fed.
Right(a, n, data) ==
    /\ n \in Shown => data = analysis[a]
    /\ n = "summary.md" => data.result = Verdict(analysis[a])
    /\ n = "analysis-receipt.json" => data.outcome = Verdict(analysis[a])

\* A copy is between what was analyzed and what the capture holds now.
CopyRight(a, r, data) ==
    /\ data \in Content
    /\ artifact[r] # Absent
    /\ Grown(data, artifact[r])
    /\ verified[a] => analysis[a][r] # Absent /\ Grown(analysis[a][r], data)

Products ==
    /\ \A n \in Names :
          IsWhole(n) => Right(product[n].by, n, product[n].holds)
    /\ \A r \in Inputs :
          IsWhole(Copies[r]) =>
              CopyRight(product[Copies[r]].by, r, product[Copies[r]].holds)

\* The manifest and the receipt tell the fingerprints of what is there.
Bound ==
    /\ IsWhole("analysis-manifest.txt") =>
          LET lines == product["analysis-manifest.txt"].holds IN
          /\ DOMAIN lines = Listed
          /\ \A n \in Listed :
                product[n] # Absent /\ lines[n] = Fingerprint(product[n])
    /\ IsWhole("analysis-receipt.json") =>
          product["analysis-receipt.json"].holds.input
              = Fingerprint(product["analysis-manifest.txt"])

\* While the capture is verified its receipt is there, and no longer than a
\* receipt can be.
ReceiptRead ==
    /\ receipt # Absent => Len(receipt.lines) <= 7
    /\ \A a \in Analyzers :
          /\ pc[a] = "verify_artifact" => receipt # Absent
          /\ verified[a] => receipt # Absent
          /\ verified[a] \/ pc[a] = "verify_artifact" =>
                command[a] = CommandStatus(receipt.status)
          /\ pc[a] \in {"start"} \cup Verifying =>
                ~verified[a] /\ analysis[a] = Nothing
          /\ observed[a] > 0 => receipt # Absent /\ observed[a] <= Len(receipt.lines)

\* A line whose fingerprint was that of a state its file has grown from.
SealsUpTo(i, content) ==
    \E old \in Content :
        /\ receipt.lines[i].print = Bytes(receipt.lines[i].role, old)
        /\ Grown(old, content)

Sealing(r, content) ==
    \E i \in DOMAIN receipt.lines :
        receipt.lines[i].role = r /\ SealsUpTo(i, content)

\* What verification saw, and what was read after it.
Seals ==
    \A a \in Analyzers :
        /\ \A i \in 1 .. observed[a] :
              LET r == receipt.lines[i].role IN
              artifact[r] # Absent /\ SealsUpTo(i, artifact[r])
        /\ verified[a] =>
              \A r \in Inputs :
                  /\ artifact[r] # Absent
                  /\ Sealing(r, artifact[r])
                  /\ HasRead(a, r) => analysis[a][r] # Absent
                  /\ analysis[a][r] # Absent =>
                        /\ Sealing(r, analysis[a][r])
                        /\ Grown(analysis[a][r], artifact[r])

\* Without a late writer what was read is what is there.
Quiet ==
    ~Lingering =>
        /\ \A a \in Analyzers, r \in Inputs :
              HasRead(a, r) => analysis[a][r] = artifact[r]
        /\ IsWhole("analysis-receipt.json") =>
              \A a \in Analyzers, r \in Inputs :
                  product["analysis-receipt.json"].by = a =>
                      analysis[a][r] = artifact[r]
        /\ \A r \in Inputs :
              IsWhole(Copies[r]) => product[Copies[r]].holds = artifact[r]

IInv ==
    /\ ProgramTypeOK /\ Exclusive /\ Untouched /\ Progress
    /\ OneAuthor /\ Products /\ Bound
    /\ ReceiptRead /\ Seals /\ Quiet

-----------------------------------------------------------------------------
(* Facts about the names and the data.                                     *)

\* The names are written one after the other.
LEMMA RankFacts ==
    /\ \A n \in Writing \cup Names : Rank(n) \in 1 .. 10
    /\ \A m, n \in Writing \cup Names : Rank(m) = Rank(n) => m = n
    /\ \A n \in Names : Rank(n) < 10
    /\ \A n \in Listed : Rank(n) < 8
    /\ Rank("reports") = 1 /\ Rank("run-model.json") = 2
    /\ Rank("analysis-manifest.txt") = 8 /\ Rank("analysis-receipt.json") = 9
    /\ Rank("finish") = 10
BY DEF Rank, Writing, Names, Listed

\* A copied input is a listed file that does not show the analysis.
LEMMA CopiesFacts ==
    /\ \A r \in Inputs : Copies[r] \in Listed \ Shown
    /\ \A r \in Inputs : Copies[r] # "summary.md" /\ Copies[r] # "reports"
    /\ \A q, r \in Inputs : Copies[q] = Copies[r] => q = r
    /\ Inputs \subseteq Roles
    /\ Listed \subseteq Names
BY DEF Copies, Inputs, Listed, Shown, Roles, Names

\* Every kind of data is something a file may hold.
LEMMA FileTypes ==
    ASSUME NEW a \in Analyzers
    PROVE  /\ Ragged(a) \in Files /\ Ragged(a) # Absent
           /\ \A n \in Names : \A data :
                 Holds(n, data) => /\ Written(a, data) \in Files
                                   /\ Written(a, data) # Absent
<1>1. Ragged(a) \in Files
  BY DEF Ragged, Files
<1>2. ASSUME NEW n \in Names, NEW data, Holds(n, data)
      PROVE  Written(a, data) \in Files
  <2>1. data \in Content \cup Analyses \cup Summaries \cup Manifests \cup OutcomeReceipts
    BY <1>2 DEF Holds
  <2> QED
    BY <2>1 DEF Written, Files
<1> QED
  BY <1>1, <1>2, AbsentFileAssumption

\* An analysis has a verdict.
LEMMA VerdictType ==
    ASSUME NEW inputs
    PROVE  Verdict(inputs) \in {"success", "findings"}
BY DEF Verdict

\* The inputs of a capture are an analysis.
LEMMA ReadType ==
    ASSUME ProgramTypeOK, NEW a \in Analyzers, NEW r \in Inputs
    PROVE  [analysis EXCEPT ![a][r] = artifact[r]] \in [Analyzers -> Analyses]
BY CopiesFacts DEF ProgramTypeOK, Analyses

-----------------------------------------------------------------------------
(* What each kind of step does to the state.                               *)

\* Data that may be written to a name at this time.
GoodData(a, name, data) ==
    /\ Holds(name, data)
    /\ Right(a, name, data)
    /\ \A r \in Inputs : name = Copies[r] =>
          CopyRight(a, r, data) /\ (~Lingering => data = artifact[r])
    /\ name = "analysis-manifest.txt" =>
          /\ DOMAIN data = Listed
          /\ \A n \in Listed :
                product[n] # Absent /\ data[n] = Fingerprint(product[n])
    /\ name = "analysis-receipt.json" =>
          data.input = Fingerprint(product["analysis-manifest.txt"])

\* A write takes place at its name and leaves the rest alone: nothing comes
\* of it, or a file that is not whole yet, or the data.
WriteOutcome(a, name, data, next) ==
    /\ UNCHANGED <<captureVars, exists, admission, analysis>>
    /\ pc[a] = name
    /\ \A b \in Analyzers \ {a} : pc'[b] = pc[b] /\ open'[b] = open[b]
    /\ DOMAIN product' = Names
    /\ \A n \in Names \ {name} : product'[n] = product[n]
    /\ \/ /\ product'[name] = product[name]
          /\ pc'[a] = "done" /\ open'[a] = FALSE
       \/ /\ product'[name] = Ragged(a)
          /\ pc'[a] = name /\ open'[a] = TRUE
       \/ /\ product'[name] = Written(a, data) /\ GoodData(a, name, data)
          /\ pc'[a] \in {next, "done"} /\ open'[a] = FALSE

\* The body every writer shares, Writes, has one of these outcomes.
LEMMA WriteStep ==
    ASSUME IInv, NEW a \in Analyzers, NEW name \in Names \ {"reports"},
           NEW next \in Writing, NEW readable \in BOOLEAN, NEW data,
           Writes(a, name, readable, data, next),
           readable => GoodData(a, name, data)
    PROVE  /\ WriteOutcome(a, name, data, next)
           /\ pc' \in [Analyzers -> Stages]
           /\ open' \in [Analyzers -> BOOLEAN]
           /\ exit' \in [Analyzers -> {"none", "success", "findings", "trouble"}]
<1> USE DEF IInv, ProgramTypeOK
<1>1. next \in Stages /\ "done" \in Stages
  BY DEF Writing, Stages
<1>2. CASE Opens(a, name)
  <2>1. /\ UNCHANGED <<captureVars, exists, admission, analysis>>
        /\ pc[a] = name
    BY DEF Writes, setting
  <2>2. CASE /\ open' = [open EXCEPT ![a] = TRUE]
             /\ product' = [product EXCEPT ![name] = Ragged(a)]
             /\ UNCHANGED <<pc, exit>>
    <3>1. /\ DOMAIN product' = Names
          /\ product'[name] = Ragged(a)
          /\ \A n \in Names \ {name} : product'[n] = product[n]
      BY <2>2
    <3>2. /\ open'[a] = TRUE
          /\ \A b \in Analyzers \ {a} : open'[b] = open[b]
          /\ open' \in [Analyzers -> BOOLEAN]
          /\ UNCHANGED <<pc, exit>>
      BY <2>2
    <3> QED
      BY <2>1, <3>1, <3>2 DEF WriteOutcome
  <2>3. CASE Trouble(a) /\ UNCHANGED <<open, product>>
    <3>1. ~open[a]
      BY <1>2 DEF Opens
    <3> QED
      BY <1>1, <2>1, <2>3, <3>1 DEF Trouble, WriteOutcome
  <2> QED
    BY <1>2, <2>2, <2>3 DEF Opens
<1>3. CASE Closes(a, name, readable, data, next)
  <2>1. open[a] /\ pc[a] = name /\ open' = [open EXCEPT ![a] = FALSE]
    BY <1>3 DEF Writes, Closes
  <2>2. CASE Trouble(a) /\ UNCHANGED product
    BY <1>1, <2>1, <2>2 DEF Writes, Trouble, WriteOutcome, setting
  <2>3. CASE /\ readable
             /\ product' = [product EXCEPT ![name] = Written(a, data)]
             /\ Goto(a, next) \/ Trouble(a)
    <3>1. /\ pc'[a] \in {next, "done"}
          /\ \A b \in Analyzers \ {a} : pc'[b] = pc[b]
          /\ pc' \in [Analyzers -> Stages]
          /\ exit' \in [Analyzers -> {"none", "success", "findings", "trouble"}]
      <4>1. CASE Goto(a, next)
        BY <1>1, <4>1 DEF Goto
      <4>2. CASE Trouble(a)
        BY <1>1, <4>2 DEF Trouble
      <4> QED
        BY <2>3, <4>1, <4>2
    <3>2. /\ product'[name] = Written(a, data)
          /\ DOMAIN product' = Names
          /\ \A n \in Names \ {name} : product'[n] = product[n]
      BY <2>3
    <3>3. GoodData(a, name, data)
      BY <2>3
    <3>4. UNCHANGED <<captureVars, exists, admission, analysis>>
      BY DEF Writes, setting
    <3>5. /\ open'[a] = FALSE
          /\ open' \in [Analyzers -> BOOLEAN]
          /\ \A b \in Analyzers \ {a} : open'[b] = open[b]
      BY <2>1
    <3> HIDE DEF IInv, ProgramTypeOK
    <3> QED
      BY <2>1, <3>1, <3>2, <3>3, <3>4, <3>5 DEF WriteOutcome
  <2>4. product[name] = Ragged(a)
    BY <2>1 DEF Progress, Writing
  <2> QED
    BY <1>3, <2>2, <2>3, <2>4 DEF Closes
<1> QED
  BY <1>2, <1>3 DEF Writes

\* Which names are written when, and that their data is good.
WriterStep(a) ==
    \/ WriteModelFile(a) \/ CopyAnalysisInputs(a) \/ WriteFindingIndex(a)
    \/ WriteAnalysisSummary(a) \/ WriteAnalysisManifest(a)
    \/ WriteAnalysisReceipt(a)

\* Model and finding index hold the analysis itself.
LEMMA ModelGood ==
    ASSUME IInv, NEW a \in Analyzers, NEW name \in {"run-model.json", "finding-index.tsv"}
    PROVE  GoodData(a, name, analysis[a])
<1>1. analysis[a] \in Analyses /\ name \in Shown
  BY DEF IInv, ProgramTypeOK, Shown
<1>2. Holds(name, analysis[a])
  BY <1>1 DEF Holds, Shown
<1>3. \A r \in Inputs : name # Copies[r]
  BY <1>1, CopiesFacts
<1> QED
  BY <1>1, <1>2, <1>3 DEF GoodData, Right, Shown

\* What CopyInput copies is of the input the analysis read: a log may have
\* grown since, nothing else.
LEMMA CopyGood ==
    ASSUME IInv, NEW a \in Analyzers, NEW role \in Inputs,
           pc[a] = Copies[role], artifact[role] # Absent
    PROVE  GoodData(a, Copies[role], artifact[role])
<1>1. artifact[role] \in Content
  BY CopiesFacts DEF IInv, ProgramTypeOK
<1>2. Holds(Copies[role], artifact[role])
  BY <1>1 DEF Holds, Copies, Inputs, Shown
<1>3. HasRead(a, role)
  <2>1. CASE role = "resources"
    BY <2>1 DEF HasRead, Copies, Writing, Names, Listed
  <2>2. CASE role = "calls"
    BY <2>2 DEF HasRead, Copies, Writing, Names, Listed
  <2>3. CASE role = "stderr"
    BY <2>3 DEF HasRead, Copies, Writing, Names, Listed
  <2> QED
    BY <2>1, <2>2, <2>3 DEF Inputs
<1>4. verified[a] => analysis[a][role] # Absent /\ Grown(analysis[a][role], artifact[role])
  BY <1>3 DEF IInv, Seals
<1>5. CopyRight(a, role, artifact[role])
  BY <1>1, <1>4 DEF CopyRight, Grown
<1>6. \A r \in Inputs : Copies[role] = Copies[r] => r = role
  BY CopiesFacts
<1>7. Right(a, Copies[role], artifact[role])
  BY CopiesFacts DEF Right, Copies, Inputs, Shown
<1> QED
  BY <1>2, <1>5, <1>6, <1>7 DEF GoodData, Copies, Inputs

\* The summary holds the verdict of the analysis.
LEMMA SummaryGood ==
    ASSUME IInv, NEW a \in Analyzers
    PROVE  GoodData(a, "summary.md",
               [result |-> Verdict(analysis[a]), verification |-> "VERIFIED"])
<1> DEFINE data == [result |-> Verdict(analysis[a]), verification |-> "VERIFIED"]
<1>1. data \in Summaries
  BY VerdictType DEF Summaries
<1>2. Holds("summary.md", data)
  BY <1>1 DEF Holds, Shown
<1> QED
  BY <1>2, CopiesFacts DEF GoodData, Right, Shown

\* A fingerprint of a product is one the manifest may hold.
LEMMA FingerprintType ==
    ASSUME ProgramTypeOK, NEW n \in Listed, product[n] # Absent
    PROVE  Fingerprint(product[n]) \in
              [whole : BOOLEAN,
               holds : {Absent} \cup Content \cup Analyses \cup Summaries]
<1>1. n \in Names /\ n # "analysis-manifest.txt" /\ n # "analysis-receipt.json"
  BY DEF Listed, Names
<1>2. product[n] \in Files
  BY <1>1 DEF ProgramTypeOK
<1>3. product[n].whole \in BOOLEAN
  BY <1>2 DEF Files
<1>4. CASE product[n].whole
  <2>1. Holds(n, product[n].holds)
    BY <1>1, <1>4 DEF ProgramTypeOK
  <2>2. product[n].holds \in Content \cup Analyses \cup Summaries
    BY <1>1, <2>1 DEF Holds
  <2> QED
    BY <1>3, <2>2 DEF Fingerprint
<1>5. CASE ~product[n].whole
  <2>1. product[n].holds = Absent
    BY <1>1, <1>5 DEF ProgramTypeOK
  <2> QED
    BY <1>3, <2>1 DEF Fingerprint
<1> QED
  BY <1>4, <1>5

\* The manifest lists the products that precede it, as they are.
LEMMA ManifestGood ==
    ASSUME IInv, NEW a \in Analyzers, \A n \in Listed : product[n] # Absent
    PROVE  GoodData(a, "analysis-manifest.txt",
               [n \in {m \in Listed : product[m] # Absent} |-> Fingerprint(product[n])])
<1> DEFINE data == [n \in {m \in Listed : product[m] # Absent} |-> Fingerprint(product[n])]
<1>1. {m \in Listed : product[m] # Absent} = Listed
  OBVIOUS
<1>2. data = [n \in Listed |-> Fingerprint(product[n])]
  BY <1>1
<1>3. data \in Manifests
  BY <1>2, FingerprintType DEF IInv, Manifests
<1>4. Holds("analysis-manifest.txt", data)
  BY <1>3 DEF Holds, Shown
<1>5. \A r \in Inputs : "analysis-manifest.txt" # Copies[r]
  BY DEF Copies, Inputs
<1> QED
  BY <1>2, <1>4, <1>5 DEF GoodData, Right, Shown

\* The receipt binds the manifest, which is whole by then.
LEMMA ReceiptGood ==
    ASSUME IInv, NEW a \in Analyzers, pc[a] = "analysis-receipt.json"
    PROVE  GoodData(a, "analysis-receipt.json",
               [input   |-> Fingerprint(product["analysis-manifest.txt"]),
                outcome |-> Verdict(analysis[a])])
<1> DEFINE data == [input   |-> Fingerprint(product["analysis-manifest.txt"]),
                    outcome |-> Verdict(analysis[a])]
<1>1. /\ "analysis-manifest.txt" \in Names
      /\ pc[a] \in Writing
  BY DEF Names, Writing
<1>2. IsWhole("analysis-manifest.txt")
  BY <1>1, RankFacts DEF IInv, Progress
<1>3. product["analysis-manifest.txt"].holds \in Manifests
  BY <1>1, <1>2 DEF IInv, ProgramTypeOK, IsWhole, Holds, Shown
<1>4. product["analysis-manifest.txt"].whole \in BOOLEAN
  BY <1>1, <1>2 DEF IInv, ProgramTypeOK, IsWhole, Files
<1>5. data \in OutcomeReceipts
  BY <1>3, <1>4, VerdictType DEF OutcomeReceipts, Fingerprint
<1>6. Holds("analysis-receipt.json", data)
  BY <1>5 DEF Holds, Shown
<1>7. \A r \in Inputs : "analysis-receipt.json" # Copies[r]
  BY DEF Copies, Inputs
<1> QED
  BY <1>6, <1>7 DEF GoodData, Right, Shown

\* So every write is of the next name and of good data.
LEMMA WriterOutcome ==
    ASSUME IInv, NEW a \in Analyzers, WriterStep(a)
    PROVE  \E name \in Names \ {"reports"}, next \in Writing : \E data :
              /\ WriteOutcome(a, name, data, next)
              /\ Rank(next) = Rank(name) + 1
              /\ pc' \in [Analyzers -> Stages]
              /\ open' \in [Analyzers -> BOOLEAN]
              /\ exit' \in [Analyzers -> {"none", "success", "findings", "trouble"}]
<1>1. /\ Names \ {"reports"} \subseteq Writing
      /\ "run-model.json" \in Names \ {"reports"}
      /\ "finding-index.tsv" \in Names \ {"reports"}
      /\ "summary.md" \in Names \ {"reports"}
      /\ "analysis-manifest.txt" \in Names \ {"reports"}
      /\ "analysis-receipt.json" \in Names \ {"reports"}
      /\ "finish" \in Writing
      /\ \A r \in Inputs : Copies[r] \in Names \ {"reports"}
  BY DEF Writing, Names, Listed, Copies, Inputs
<1>2. CASE WriteModelFile(a)
  <2>1. "input-resources.log" \in Writing /\ Rank("input-resources.log") = 3
    BY DEF Writing, Names, Listed, Rank
  <2>2. /\ WriteOutcome(a, "run-model.json", analysis[a], "input-resources.log")
        /\ pc' \in [Analyzers -> Stages]
        /\ open' \in [Analyzers -> BOOLEAN]
        /\ exit' \in [Analyzers -> {"none", "success", "findings", "trouble"}]
    BY <1>1, <1>2, <2>1, ModelGood, WriteStep DEF WriteModelFile
  <2> QED
    BY <1>1, <2>2, RankFacts, <2>1
<1>3. CASE CopyAnalysisInputs(a)
  <2>1. ASSUME NEW role \in Inputs, NEW next \in Writing, CopyInput(a, role, next),
               Rank(next) = Rank(Copies[role]) + 1
        PROVE  /\ WriteOutcome(a, Copies[role], artifact[role], next)
               /\ pc' \in [Analyzers -> Stages]
               /\ open' \in [Analyzers -> BOOLEAN]
               /\ exit' \in [Analyzers -> {"none", "success", "findings", "trouble"}]
    <3>1. pc[a] = Copies[role]
      BY <2>1 DEF CopyInput, Writes
    <3>2. (artifact[role] # Absent) => GoodData(a, Copies[role], artifact[role])
      BY <3>1, CopyGood
    <3>3. (artifact[role] # Absent) \in BOOLEAN
      OBVIOUS
    <3> QED
      BY <1>1, <2>1, <3>2, <3>3, WriteStep DEF CopyInput
  <2>2. /\ {"resources", "calls", "stderr"} \subseteq Inputs
        /\ {"input-calls.log", "input-stderr.txt", "finding-index.tsv"} \subseteq Writing
        /\ Rank("input-calls.log") = Rank(Copies["resources"]) + 1
        /\ Rank("input-stderr.txt") = Rank(Copies["calls"]) + 1
        /\ Rank("finding-index.tsv") = Rank(Copies["stderr"]) + 1
    BY DEF Inputs, Writing, Names, Listed, Copies, Rank
  <2> QED
    BY <1>1, <1>3, <2>1, <2>2 DEF CopyAnalysisInputs
<1>4. CASE WriteFindingIndex(a)
  <2>1. Rank("finding-index.tsv") = 6 /\ Rank("summary.md") = 7
    BY DEF Rank
  <2>2. /\ WriteOutcome(a, "finding-index.tsv", analysis[a], "summary.md")
        /\ pc' \in [Analyzers -> Stages]
        /\ open' \in [Analyzers -> BOOLEAN]
        /\ exit' \in [Analyzers -> {"none", "success", "findings", "trouble"}]
    BY <1>1, <1>4, ModelGood, WriteStep DEF WriteFindingIndex
  <2> QED
    BY <1>1, <2>2, RankFacts, <2>1
<1>5. CASE WriteAnalysisSummary(a)
  <2>1. Rank("summary.md") = 7
    BY DEF Rank
  <2>2. /\ WriteOutcome(a, "summary.md",
              [result |-> Verdict(analysis[a]), verification |-> "VERIFIED"],
              "analysis-manifest.txt")
        /\ pc' \in [Analyzers -> Stages]
        /\ open' \in [Analyzers -> BOOLEAN]
        /\ exit' \in [Analyzers -> {"none", "success", "findings", "trouble"}]
    BY <1>1, <1>5, SummaryGood, WriteStep DEF WriteAnalysisSummary
  <2> QED
    BY <1>1, <2>2, RankFacts, <2>1
<1>6. CASE WriteAnalysisManifest(a)
  <2>1. (\A n \in Listed : product[n] # Absent) \in BOOLEAN
    OBVIOUS
  <2>2. /\ WriteOutcome(a, "analysis-manifest.txt",
              [n \in {m \in Listed : product[m] # Absent} |-> Fingerprint(product[n])],
              "analysis-receipt.json")
        /\ pc' \in [Analyzers -> Stages]
        /\ open' \in [Analyzers -> BOOLEAN]
        /\ exit' \in [Analyzers -> {"none", "success", "findings", "trouble"}]
    BY <1>1, <1>6, <2>1, ManifestGood, WriteStep DEF WriteAnalysisManifest
  <2> QED
    BY <1>1, <2>2, RankFacts
<1>7. CASE WriteAnalysisReceipt(a)
  <2>1. pc[a] = "analysis-receipt.json"
    BY <1>7 DEF WriteAnalysisReceipt, Writes
  <2>2. /\ WriteOutcome(a, "analysis-receipt.json",
              [input   |-> Fingerprint(product["analysis-manifest.txt"]),
               outcome |-> Verdict(analysis[a])],
              "finish")
        /\ pc' \in [Analyzers -> Stages]
        /\ open' \in [Analyzers -> BOOLEAN]
        /\ exit' \in [Analyzers -> {"none", "success", "findings", "trouble"}]
    BY <1>1, <1>7, <2>1, ReceiptGood, WriteStep DEF WriteAnalysisReceipt
  <2> QED
    BY <1>1, <2>2, RankFacts
<1> QED
  BY <1>2, <1>3, <1>4, <1>5, <1>6, <1>7 DEF WriterStep

-----------------------------------------------------------------------------
(* A write keeps the invariant.                                            *)

\* Past the bundle everything has been read.
LEMMA ReadWhenWriting ==
    ASSUME NEW a \in Analyzers, NEW r \in Inputs, pc[a] \in Writing
    PROVE  HasRead(a, r)
<1>1. CASE r = "resources"
  BY <1>1 DEF HasRead
<1>2. CASE r = "calls"
  BY <1>2 DEF HasRead
<1>3. CASE r = "stderr"
  BY <1>3 DEF HasRead
<1> QED
  BY <1>1, <1>2, <1>3 DEF Inputs

\* An invocation that is neither at work nor leaves it has read nothing more.
LEMMA ReadStays ==
    ASSUME NEW a \in Analyzers, NEW r \in Inputs,
           pc'[a] = pc[a] \/ pc'[a] \in {"start", "done", "crashed"}
                          \/ pc[a] \in Writing
    PROVE  HasRead(a, r)' => HasRead(a, r)
<1>1. CASE pc'[a] = pc[a]
  BY <1>1 DEF HasRead
<1>2. CASE pc'[a] \in {"start", "done", "crashed"}
  <2>1. ~HasRead(a, r)'
    <3>1. pc'[a] \notin Writing \cup {"ingest_calls", "run", "reports"}
      BY <1>2 DEF Writing, Names, Listed
    <3> QED
      BY <3>1 DEF HasRead, Inputs
  <2> QED
    BY <2>1
<1>3. CASE pc[a] \in Writing
  BY <1>3, ReadWhenWriting
<1> QED
  BY <1>1, <1>2, <1>3

\* A write of any of the products keeps the invariant.
LEMMA WriterKeeps ==
    ASSUME IInv, NEW a \in Analyzers, WriterStep(a)
    PROVE  IInv'
<1>0. PICK name \in Names \ {"reports"}, next \in Writing : \E data :
              /\ WriteOutcome(a, name, data, next)
              /\ Rank(next) = Rank(name) + 1
              /\ pc' \in [Analyzers -> Stages]
              /\ open' \in [Analyzers -> BOOLEAN]
              /\ exit' \in [Analyzers -> {"none", "success", "findings", "trouble"}]
  BY WriterOutcome
<1>1. PICK data :
              /\ WriteOutcome(a, name, data, next)
              /\ Rank(next) = Rank(name) + 1
              /\ pc' \in [Analyzers -> Stages]
              /\ open' \in [Analyzers -> BOOLEAN]
              /\ exit' \in [Analyzers -> {"none", "success", "findings", "trouble"}]
  BY <1>0
<1>2. /\ UNCHANGED <<artifact, receipt, exists, force, observed, verified,
                     command, analysis>>
      /\ pc[a] = name
      /\ \A b \in Analyzers \ {a} : pc'[b] = pc[b] /\ open'[b] = open[b]
      /\ DOMAIN product' = Names
      /\ \A n \in Names \ {name} : product'[n] = product[n]
  BY <1>1 DEF WriteOutcome, setting, captureVars, admission
<1>3. \/ /\ product'[name] = product[name]
         /\ pc'[a] = "done" /\ open'[a] = FALSE
      \/ /\ product'[name] = Ragged(a)
         /\ pc'[a] = name /\ open'[a] = TRUE
      \/ /\ product'[name] = Written(a, data) /\ GoodData(a, name, data)
         /\ pc'[a] \in {next, "done"} /\ open'[a] = FALSE
  BY <1>1 DEF WriteOutcome
<1>4. /\ name \in Writing /\ name \in Names
      /\ AtWork(a)
      /\ pc'[a] \in Writing \cup {"done"}
      /\ Rank(name) \in 1 .. 9 /\ Rank(name) # 1
  <2>1. name \in Writing /\ name \in Names /\ AtWork(a)
    BY <1>2 DEF Writing, AtWork, Names, Listed
  <2>2. Rank(name) \in 1 .. 10 /\ Rank(name) < 10 /\ "reports" \in Names
    BY <2>1, RankFacts DEF Names, Listed
  <2>3. Rank(name) # 1
    BY <2>1, <2>2, RankFacts
  <2> QED
    BY <1>3, <2>1, <2>2, <2>3
<1>5. \A n \in Names :
         /\ Rank(n) < Rank(name) => IsWhole(n) /\ product[n].by = a
         /\ Rank(n) > Rank(name) => product[n] = Absent
         /\ n = name => product[n] = IF open[a] THEN Ragged(a) ELSE Absent
  BY <1>2, <1>4 DEF IInv, Progress
<1>6. /\ Ragged(a).whole = FALSE /\ Ragged(a).by = a /\ Ragged(a).holds = Absent
      /\ Written(a, data).whole = TRUE /\ Written(a, data).by = a
      /\ Written(a, data).holds = data
      /\ Ragged(a) \in Files /\ Ragged(a) # Absent
  BY FileTypes DEF Ragged, Written
<1>7. ~IsWhole(name)
  BY <1>5, <1>4, <1>6 DEF IsWhole
<1>8. IsWhole(name)' => /\ product'[name] = Written(a, data)
                        /\ GoodData(a, name, data)
                        /\ product'[name].by = a /\ product'[name].holds = data
  BY <1>3, <1>6, <1>7 DEF IsWhole
<1>9. \A n \in Names \ {name} : IsWhole(n)' <=> IsWhole(n)
  BY <1>2 DEF IsWhole
<1>10. ProgramTypeOK'
  <2>1. \A n \in Names : product'[n] # Absent =>
            /\ product'[n] \in Files
            /\ IF product'[n].whole THEN Holds(n, product'[n].holds)
                                    ELSE product'[n].holds = Absent
    <3>1. CASE product'[name] = product[name]
      BY <1>2, <3>1 DEF IInv, ProgramTypeOK
    <3>2. CASE product'[name] = Ragged(a)
      BY <1>2, <1>6, <3>2 DEF IInv, ProgramTypeOK
    <3>3. CASE product'[name] = Written(a, data) /\ GoodData(a, name, data)
      <4>1. Holds(name, data) /\ Written(a, data) \in Files
        BY <1>4, <3>3, FileTypes DEF GoodData
      <4>2. product'[name].whole = TRUE /\ product'[name].holds = data
        BY <1>6, <3>3
      <4>3. Holds(name, product'[name].holds)
        BY <4>1, <4>2
      <4>4. \A n \in Names \ {name} : product'[n] # Absent =>
                /\ product'[n] \in Files
                /\ IF product'[n].whole THEN Holds(n, product'[n].holds)
                                        ELSE product'[n].holds = Absent
        BY <1>2 DEF IInv, ProgramTypeOK
      <4> QED
        BY <3>3, <4>1, <4>2, <4>3, <4>4
    <3> QED
      BY <1>3, <3>1, <3>2, <3>3
  <2> QED
    BY <1>1, <1>2, <2>1 DEF IInv, ProgramTypeOK
<1>11. Exclusive'
  <2>1. \A b \in Analyzers : AtWork(b)' => AtWork(b)
    BY <1>2, <1>4 DEF AtWork
  <2> QED
    BY <2>1 DEF IInv, Exclusive
<1>12. Untouched'
  <2>1. "reports" \in Names /\ IsWhole("reports")
    BY <1>4, <1>5, RankFacts DEF Names, Listed
  <2>2. exists = TRUE
    BY <2>1 DEF IInv, Untouched, IsWhole, ProgramTypeOK
  <2>3. pc'[a] \notin Preparing
    BY <1>4 DEF Preparing, Writing, Verifying, Names, Listed
  <2>4. \A b \in Analyzers : pc[b] \notin Preparing
    BY <2>2 DEF IInv, Untouched
  <2>5. open'[a] => pc'[a] \in Names \ {"reports"}
    BY <1>3
  <2> QED
    BY <1>2, <2>2, <2>3, <2>4, <2>5 DEF IInv, Untouched

<1>13. Progress'
  <2> SUFFICES ASSUME NEW b \in Analyzers, (pc[b] \in Writing)', NEW n \in Names
               PROVE  /\ Rank(n) < Rank(pc'[b]) => IsWhole(n)' /\ product'[n].by = b
                      /\ Rank(n) > Rank(pc'[b]) => product'[n] = Absent
                      /\ n = pc'[b] => product'[n] = IF open'[b] THEN Ragged(b) ELSE Absent
    BY DEF Progress
  <2>1. b = a
    <3>1. AtWork(b)'
      BY DEF AtWork, Writing, Names, Listed
    <3> QED
      BY <1>4, <1>11, <3>1, <1>2 DEF IInv, Exclusive, AtWork
  <2>2. CASE pc'[a] = name
    <3>1. product'[name] = Ragged(a) /\ open'[a] = TRUE
      <4>1. name # "done" /\ next # name
        <5>1. Rank(next) # Rank(name)
          BY <1>1, <1>4
        <5> QED
          BY <1>4, <5>1 DEF Writing, Names, Listed
      <4> QED
        BY <1>3, <2>2, <4>1
    <3>2. Rank(n) # Rank(name) => n # name
      OBVIOUS
    <3>3. CASE n = name
      BY <1>4, <2>1, <2>2, <3>1, <3>3
    <3>4. CASE n # name
      BY <1>2, <1>5, <1>9, <2>1, <2>2, <3>4
    <3> QED
      BY <3>3, <3>4
  <2>3. CASE pc'[a] = next /\ pc'[a] # name
    <3>1. product'[name] = Written(a, data) /\ open'[a] = FALSE
      <4>1. next # "done"
        BY DEF Writing, Names, Listed
      <4> QED
        BY <1>3, <2>3, <4>1
    <3>2. IsWhole(name)' /\ product'[name].by = a
      <4>1. Written(a, data) # Absent
        <5>1. GoodData(a, name, data)
          BY <1>3, <2>3, <3>1, <1>6 DEF Writing, Names, Listed
        <5> QED
          BY <1>4, <5>1, FileTypes DEF GoodData
      <4> QED
        BY <1>6, <3>1, <4>1 DEF IsWhole
    <3>3. Rank(n) \in 1 .. 10 /\ Rank(next) = Rank(name) + 1
      BY <1>1, RankFacts
    <3>4. CASE n = name
      BY <1>4, <2>1, <2>3, <3>2, <3>3, <3>4
    <3>5. CASE n # name
      <4>1. Rank(n) # Rank(name)
        BY <1>4, <3>5, RankFacts
      <4>2. Rank(n) < Rank(next) => Rank(n) < Rank(name)
        BY <1>4, <3>3, <4>1
      <4>3. Rank(n) >= Rank(next) => Rank(n) > Rank(name)
        BY <1>4, <3>3
      <4>4. Rank(n) > Rank(next) \/ n = next => Rank(n) >= Rank(next)
        BY <1>4, <3>3
      <4> QED
        BY <1>2, <1>5, <1>9, <2>1, <2>3, <3>1, <3>5, <4>2, <4>3, <4>4
    <3> QED
      BY <3>4, <3>5
  <2>4. pc'[a] # "done"
    BY <2>1 DEF Writing, Names, Listed
  <2> QED
    BY <1>3, <2>2, <2>3, <2>4
<1>14. \A n \in Names : Rank(n) > Rank(name) => ~IsWhole(n)'
  BY <1>4, <1>5, <1>9 DEF IsWhole
<1>15. OneAuthor'
  <2> DEFINE last == "analysis-receipt.json"
  <2>1. last \in Names /\ Rank(last) = 9
    BY RankFacts DEF Names
  <2>2. CASE name = last
    <3> SUFFICES ASSUME IsWhole(last)'
                 PROVE  \A n \in Names : IsWhole(n)' /\ product'[n].by = a
      BY DEF OneAuthor
    <3> TAKE n \in Names
    <3>1. CASE n = name
      BY <1>8, <2>2, <3>1
    <3>2. CASE n # name
      <4>1. Rank(n) # 9 /\ Rank(n) < 10 /\ Rank(n) \in 1 .. 10
        BY <1>4, <2>1, <2>2, <3>2, RankFacts
      <4>2. Rank(n) < Rank(name)
        BY <2>1, <2>2, <4>1
      <4> QED
        BY <1>2, <1>5, <1>9, <3>2, <4>2
    <3> QED
      BY <3>1, <3>2
  <2>3. CASE name # last
    <3>1. Rank(name) # 9
      BY <1>4, <2>1, <2>3, RankFacts
    <3> QED
      BY <1>4, <1>14, <2>1, <3>1 DEF OneAuthor
  <2> QED
    BY <2>2, <2>3
<1>16. Products'
  <2>1. \A n \in Names : IsWhole(n)' => Right(product[n].by, n, product[n].holds)'
    <3> SUFFICES ASSUME NEW n \in Names, IsWhole(n)'
                 PROVE  Right(product[n].by, n, product[n].holds)'
      OBVIOUS
    <3>1. CASE n = name
      <4>1. Right(a, name, data)
        BY <1>8, <3>1 DEF GoodData
      <4> QED
        BY <1>2, <1>8, <3>1, <4>1 DEF Right
    <3>2. CASE n # name
      <4>1. Right(product[n].by, n, product[n].holds)
        BY <1>9, <3>2 DEF IInv, Products
      <4> QED
        BY <1>2, <3>2, <4>1 DEF Right
    <3> QED
      BY <3>1, <3>2
  <2>2. \A r \in Inputs : IsWhole(Copies[r])' =>
            CopyRight(product[Copies[r]].by, r, product[Copies[r]].holds)'
    <3> SUFFICES ASSUME NEW r \in Inputs, IsWhole(Copies[r])'
                 PROVE  CopyRight(product[Copies[r]].by, r, product[Copies[r]].holds)'
      OBVIOUS
    <3>0. Copies[r] \in Names
      BY CopiesFacts
    <3>1. CASE Copies[r] = name
      <4>1. CopyRight(a, r, data)
        BY <1>8, <3>1 DEF GoodData
      <4> QED
        BY <1>2, <1>8, <3>1, <4>1 DEF CopyRight
    <3>2. CASE Copies[r] # name
      <4>1. CopyRight(product[Copies[r]].by, r, product[Copies[r]].holds)
        BY <1>9, <3>0, <3>2 DEF IInv, Products
      <4> QED
        BY <1>2, <3>0, <3>2, <4>1 DEF CopyRight
    <3> QED
      BY <3>1, <3>2
  <2> QED
    BY <2>1, <2>2 DEF Products
<1>17. Bound'
  <2> DEFINE manifest == "analysis-manifest.txt"
             last     == "analysis-receipt.json"
  <2>1. /\ manifest \in Names /\ last \in Names /\ manifest # last
        /\ Rank(manifest) = 8 /\ Rank(last) = 9
        /\ manifest \notin Listed /\ last \notin Listed
        /\ Listed \subseteq Names
    BY RankFacts DEF Names, Listed
  <2>2. CASE name = manifest
    <3>1. ~IsWhole(last)'
      BY <1>14, <2>1, <2>2
    <3>2. \A n \in Listed : product'[n] = product[n]
      BY <1>2, <2>1, <2>2
    <3> QED
      BY <1>8, <2>2, <3>1, <3>2 DEF Bound, GoodData
  <2>3. CASE name = last
    <3>1. \A n \in Listed \cup {manifest} : product'[n] = product[n]
      BY <1>2, <2>1, <2>3
    <3>2. IsWhole(manifest)' <=> IsWhole(manifest)
      BY <1>9, <2>1, <2>3
    <3> QED
      BY <1>8, <2>3, <3>1, <3>2 DEF IInv, Bound, GoodData
  <2>4. CASE name # manifest /\ name # last
    <3>1. Rank(name) # 8 /\ Rank(name) # 9
      BY <1>4, <2>1, <2>4, RankFacts
    <3>2. ~IsWhole(manifest)' /\ ~IsWhole(last)'
      BY <1>4, <1>14, <2>1, <3>1
    <3> QED
      BY <3>2 DEF Bound
  <2> QED
    BY <2>2, <2>3, <2>4
<1>18. ReceiptRead'
  <2>1. pc'[a] \notin {"start"} \cup Verifying
    BY <1>4 DEF Writing, Verifying, Names, Listed
  <2> QED
    BY <1>2, <2>1 DEF IInv, ReceiptRead, Verifying
<1>19. \A b \in Analyzers, r \in Inputs : HasRead(b, r)' => HasRead(b, r)
  BY <1>2, <1>4, ReadStays
<1>20. Seals'
  BY <1>2, <1>19 DEF IInv, Seals, Sealing, SealsUpTo
<1>21. Quiet'
  <2> SUFFICES ASSUME ~Lingering
               PROVE  /\ \A b \in Analyzers, r \in Inputs :
                            HasRead(b, r)' => analysis[b][r] = artifact[r]
                      /\ IsWhole("analysis-receipt.json")' =>
                            \A b \in Analyzers, r \in Inputs :
                               product'["analysis-receipt.json"].by = b =>
                                  analysis[b][r] = artifact[r]
                      /\ \A r \in Inputs :
                            IsWhole(Copies[r])' => product'[Copies[r]].holds = artifact[r]
    BY <1>2 DEF Quiet
  <2>1. \A b \in Analyzers, r \in Inputs : HasRead(b, r)' => analysis[b][r] = artifact[r]
    BY <1>19 DEF IInv, Quiet
  <2>2. \A r \in Inputs : analysis[a][r] = artifact[r]
    BY <1>2, <1>4, ReadWhenWriting DEF IInv, Quiet
  <2>3. "analysis-receipt.json" \in Names
    BY DEF Names
  <2>4. IsWhole("analysis-receipt.json")' =>
            \A b \in Analyzers, r \in Inputs :
               product'["analysis-receipt.json"].by = b => analysis[b][r] = artifact[r]
    <3>1. CASE name = "analysis-receipt.json"
      BY <1>8, <2>2, <3>1
    <3>2. CASE name # "analysis-receipt.json"
      BY <1>2, <1>9, <2>3, <3>2 DEF IInv, Quiet
    <3> QED
      BY <3>1, <3>2
  <2>5. \A r \in Inputs : IsWhole(Copies[r])' => product'[Copies[r]].holds = artifact[r]
    <3> TAKE r \in Inputs
    <3>0. Copies[r] \in Names
      BY CopiesFacts
    <3>1. CASE Copies[r] = name
      BY <1>8, <3>1 DEF GoodData
    <3>2. CASE Copies[r] # name
      BY <1>2, <1>9, <3>0, <3>2 DEF IInv, Quiet
    <3> QED
      BY <3>1, <3>2
  <2> QED
    BY <2>1, <2>4, <2>5
<1> QED
  BY <1>10, <1>11, <1>12, <1>13, <1>15, <1>16, <1>17, <1>18, <1>20, <1>21 DEF IInv

-----------------------------------------------------------------------------
(* The other steps.                                                        *)

\* Ending, in whatever way and at whatever point, keeps the invariant.
LEMMA LeaveKeeps ==
    ASSUME IInv, NEW a \in Analyzers, NEW stage \in {"done", "crashed"},
           pc' = [pc EXCEPT ![a] = stage],
           stage = "crashed" \/ ~open[a],
           UNCHANGED <<artifact, receipt, product, exists, observed, verified,
                       command, analysis, open>>,
           force' \in [Analyzers -> BOOLEAN],
           exit' \in [Analyzers -> {"none", "success", "findings", "trouble"}]
    PROVE  IInv'
<1>1. stage \in Stages
  BY DEF Stages
<1>2. ProgramTypeOK'
  BY <1>1 DEF IInv, ProgramTypeOK
<1>3. \A b \in Analyzers : pc'[b] = pc[b] \/ (b = a /\ pc'[b] = stage)
  BY DEF IInv, ProgramTypeOK
<1>4. stage \notin Preparing \cup Writing \cup Verifying \cup {"start"}
  BY DEF Preparing, Writing, Verifying, Names, Listed
<1>5. Exclusive'
  BY <1>3 DEF IInv, Exclusive, AtWork
<1>6. Untouched'
  <2>1. \A b \in Analyzers : pc'[b] \in Preparing => pc[b] \in Preparing
    BY <1>3, <1>4
  <2>2. \A b \in Analyzers : open'[b] => pc'[b] \in (Names \ {"reports"}) \cup {"crashed"}
    <3> SUFFICES ASSUME NEW b \in Analyzers, open[b]
                 PROVE  pc'[b] \in (Names \ {"reports"}) \cup {"crashed"}
      OBVIOUS
    <3>1. CASE pc'[b] = pc[b]
      BY <3>1 DEF IInv, Untouched
    <3>2. CASE b = a /\ pc'[b] = stage
      BY <3>2
    <3> QED
      BY <1>3, <3>1, <3>2
  <2> QED
    BY <2>1, <2>2 DEF IInv, Untouched
<1>7. Progress'
  <2> SUFFICES ASSUME NEW b \in Analyzers, (pc[b] \in Writing)'
               PROVE  pc'[b] = pc[b]
    BY DEF IInv, Progress, IsWhole
  <2> QED
    BY <1>3, <1>4
<1>8. OneAuthor' /\ Products' /\ Bound'
  BY DEF IInv, OneAuthor, Products, Bound, Right, CopyRight, IsWhole
<1>9. ReceiptRead'
  BY <1>3, <1>4 DEF IInv, ReceiptRead, Verifying
<1>10. \A b \in Analyzers, r \in Inputs : HasRead(b, r)' => HasRead(b, r)
  BY <1>3, ReadStays
<1>11. Seals'
  BY <1>10 DEF IInv, Seals, Sealing, SealsUpTo
<1>12. Quiet'
  <2>1. ~Lingering => \A b \in Analyzers, r \in Inputs :
            HasRead(b, r)' => analysis[b][r] = artifact[r]
    BY <1>10 DEF IInv, Quiet
  <2> QED
    BY <2>1 DEF IInv, Quiet, IsWhole
<1> QED
  BY <1>2, <1>5, <1>6, <1>7, <1>8, <1>9, <1>11, <1>12 DEF IInv

\* What is left to show of a step that prepares an analysis: nothing has been
\* written yet, and nobody else is at work.
LEMMA PrepareKeeps ==
    ASSUME IInv, NEW a \in Analyzers, NEW stage \in Preparing,
           pc' = [pc EXCEPT ![a] = stage], ~exists,
           \A b \in Analyzers \ {a} : ~AtWork(b),
           UNCHANGED <<artifact, receipt, product, exists, open>>, ~open[a],
           ProgramTypeOK', ReceiptRead', Seals',
           ~Lingering => \A r \in Inputs :
               HasRead(a, r)' => analysis'[a][r] = artifact[r]
    PROVE  IInv'
<1>1. \A n \in Names : product'[n] = Absent
  BY DEF IInv, Untouched
<1>2. /\ pc'[a] = stage
      /\ \A b \in Analyzers \ {a} : pc'[b] = pc[b] /\ ~AtWork(b)'
  BY DEF IInv, ProgramTypeOK, AtWork
<1>3. stage \notin Writing
  BY DEF Preparing, Verifying, Writing, Names, Listed
<1>4. \A b \in Analyzers \ {a} : pc'[b] \notin Writing \cup Preparing
  BY <1>2 DEF AtWork, Preparing, Verifying, Writing, Names, Listed
<1>5. Exclusive'
  BY <1>2 DEF Exclusive
<1>6. Untouched'
  BY <1>1, <1>2 DEF IInv, Untouched
<1>7. Progress'
  BY <1>2, <1>3, <1>4 DEF Progress
<1>8. "analysis-receipt.json" \in Names /\ "analysis-manifest.txt" \in Names
  BY DEF Names
<1>9. OneAuthor' /\ Products' /\ Bound'
  BY <1>1, <1>8, CopiesFacts DEF OneAuthor, Products, Bound, IsWhole
<1>10. \A b \in Analyzers \ {a}, r \in Inputs : ~HasRead(b, r)'
  <2> TAKE b \in Analyzers \ {a}, r \in Inputs
  <2>1. pc'[b] \notin Writing \cup {"ingest_calls", "run", "reports"}
    BY <1>4 DEF Preparing
  <2> QED
    BY <2>1 DEF HasRead, Inputs
<1>11. Quiet'
  BY <1>1, <1>8, <1>10, CopiesFacts DEF Quiet, IsWhole
<1> QED
  BY <1>5, <1>6, <1>7, <1>9, <1>11 DEF IInv

\* An invocation at work is the only one.
LEMMA OthersInactive ==
    ASSUME IInv, NEW a \in Analyzers, AtWork(a)
    PROVE  \A b \in Analyzers \ {a} : ~AtWork(b)
BY DEF IInv, Exclusive

\* Trouble of an invocation that has no file open.
LEMMA TroubleKeeps ==
    ASSUME IInv, NEW a \in Analyzers, Trouble(a), ~open[a],
           UNCHANGED <<artifact, receipt, product, exists, observed, verified,
                       command, analysis, open>>,
           force' \in [Analyzers -> BOOLEAN]
    PROVE  IInv'
<1>1. exit' \in [Analyzers -> {"none", "success", "findings", "trouble"}]
  BY DEF Trouble, IInv, ProgramTypeOK
<1> QED
  BY <1>1, LeaveKeeps DEF Trouble

\* Start claims the output path only if nobody has it, and alone if there is
\* no overlap.
LEMMA StartKeeps ==
    ASSUME IInv, NEW a \in Analyzers, Start(a), ~overlapped'
    PROVE  IInv'
<1>1. force' \in [Analyzers -> BOOLEAN]
  BY DEF Start, IInv, ProgramTypeOK
<1>2. /\ UNCHANGED <<artifact, receipt, product, exists, observed, verified,
                     command, analysis, open>>
      /\ pc[a] = "start"
  BY DEF Start, setting, captureVars
<1>3. ~open[a]
  BY <1>2 DEF IInv, Untouched, Names, Listed
<1>4. CASE ~exists /\ GoOn(a)
  <2>1. "verify_capture" \in Preparing /\ "verify_capture" \in Stages
    BY DEF Preparing, Verifying, Stages
  <2>2. \A b \in Analyzers \ {a} : ~AtWork(b)
    BY <1>4 DEF GoOn
  <2>3. /\ pc' = [pc EXCEPT ![a] = "verify_capture"] /\ UNCHANGED exit
        /\ \A b \in Analyzers \ {a} : pc'[b] = pc[b]
        /\ pc'[a] = "verify_capture"
    BY <1>4 DEF GoOn, Goto, IInv, ProgramTypeOK
  <2>4. ProgramTypeOK'
    BY <1>1, <1>2, <2>1, <2>3 DEF IInv, ProgramTypeOK
  <2>5. ReceiptRead'
    BY <1>2, <2>3 DEF IInv, ReceiptRead, Verifying
  <2>6. \A r \in Inputs : ~HasRead(a, r)'
    <3>1. pc'[a] \notin Writing \cup {"ingest_calls", "run", "reports"}
      BY <2>3 DEF Writing, Names, Listed
    <3> QED
      BY <3>1 DEF HasRead, Inputs
  <2>7. ~verified'[a]
    BY <1>2 DEF IInv, ReceiptRead
  <2>8. \A b \in Analyzers \ {a}, r \in Inputs : HasRead(b, r)' => HasRead(b, r)
    BY <2>3, ReadStays
  <2>9. Seals'
    BY <1>2, <2>7, <2>8 DEF IInv, Seals, Sealing, SealsUpTo
  <2> QED
    BY <1>2, <1>3, <1>4, <2>1, <2>2, <2>3, <2>4, <2>5, <2>6, <2>9, PrepareKeeps
<1>5. CASE Trouble(a)
  BY <1>1, <1>2, <1>3, <1>5, TroubleKeeps
<1> QED
  BY <1>4, <1>5 DEF Start

\* While an invocation prepares, it has no file open, the output directory is
\* not there, and it is alone.
LEMMA Prepared ==
    ASSUME IInv, NEW a \in Analyzers, pc[a] \in Preparing
    PROVE  /\ ~open[a] /\ ~exists
           /\ \A b \in Analyzers \ {a} : ~AtWork(b)
<1>1. AtWork(a) /\ pc[a] \notin (Names \ {"reports"}) \cup {"crashed"}
  BY DEF AtWork, Preparing, Verifying, Names, Listed
<1> QED
  BY <1>1, OthersInactive DEF IInv, Untouched

\* A failed verification that --force passes over.
LEMMA ForcedKeeps ==
    ASSUME IInv, NEW a \in Analyzers, pc[a] \in Verifying, VerifyFails(a),
           UNCHANGED <<artifact, receipt, product, exists, force, observed,
                       verified, command, analysis, open>>
    PROVE  IInv'
<1>1. pc[a] \in Preparing /\ ~verified[a]
  BY DEF Preparing, IInv, ReceiptRead
<1>2. CASE force[a]
  <2>1. "ingest_resources" \in Preparing /\ "ingest_resources" \in Stages
    BY DEF Preparing, Stages
  <2>2. /\ pc' = [pc EXCEPT ![a] = "ingest_resources"] /\ UNCHANGED exit
        /\ \A b \in Analyzers \ {a} : pc'[b] = pc[b]
        /\ pc'[a] = "ingest_resources"
    BY <1>2 DEF VerifyFails, Goto, IInv, ProgramTypeOK
  <2>3. ProgramTypeOK'
    BY <2>1, <2>2 DEF IInv, ProgramTypeOK
  <2>4. ReceiptRead'
    BY <1>1, <2>2 DEF IInv, ReceiptRead, Verifying
  <2>5. \A r \in Inputs : ~HasRead(a, r)'
    <3>1. pc'[a] \notin Writing \cup {"ingest_calls", "run", "reports"}
      BY <2>2 DEF Writing, Names, Listed
    <3> QED
      BY <3>1 DEF HasRead, Inputs
  <2>6. \A b \in Analyzers \ {a}, r \in Inputs : HasRead(b, r)' => HasRead(b, r)
    BY <2>2, ReadStays
  <2>7. Seals'
    BY <1>1, <2>6 DEF IInv, Seals, Sealing, SealsUpTo
  <2> QED
    BY <1>1, <2>1, <2>2, <2>3, <2>4, <2>5, <2>7, Prepared, PrepareKeeps
<1>3. CASE ~force[a]
  <2>1. Trouble(a) /\ force' \in [Analyzers -> BOOLEAN]
    BY <1>3 DEF VerifyFails, IInv, ProgramTypeOK
  <2> QED
    BY <1>1, <2>1, Prepared, TroubleKeeps
<1> QED
  BY <1>2, <1>3

\* Reading the receipt keeps the invariant.
LEMMA VerifyCaptureKeeps ==
    ASSUME IInv, NEW a \in Analyzers, VerifyCapture(a)
    PROVE  IInv'
<1>1. /\ UNCHANGED <<artifact, receipt, product, exists, force, observed,
                     verified, analysis, open>>
      /\ pc[a] = "verify_capture"
  BY DEF VerifyCapture, setting, captureVars
<1>2. pc[a] \in Verifying /\ pc[a] \in Preparing
  BY <1>1 DEF Verifying, Preparing
<1>3. CASE VerifyFails(a) /\ UNCHANGED command
  BY <1>1, <1>2, <1>3, ForcedKeeps
<1>4. CASE /\ receipt # Absent
           /\ command' = [command EXCEPT ![a] = CommandStatus(receipt.status)]
           /\ Goto(a, "verify_artifact")
  <2>1. "verify_artifact" \in Preparing /\ "verify_artifact" \in Stages
    BY DEF Preparing, Verifying, Stages
  <2>2. /\ pc' = [pc EXCEPT ![a] = "verify_artifact"] /\ UNCHANGED exit
        /\ \A b \in Analyzers \ {a} : pc'[b] = pc[b]
        /\ pc'[a] = "verify_artifact"
    BY <1>4 DEF Goto, IInv, ProgramTypeOK
  <2>3. CommandStatus(receipt.status) \in {"success", "findings", "trouble"}
    <3>1. receipt.status \in Statuses
      BY <1>4 DEF IInv, ProgramTypeOK, Receipts
    <3> QED
      BY <3>1 DEF Statuses, CommandStatus
  <2>4. ProgramTypeOK'
    BY <1>1, <1>4, <2>1, <2>2, <2>3 DEF IInv, ProgramTypeOK
  <2>5. /\ command'[a] = CommandStatus(receipt.status)
        /\ \A b \in Analyzers \ {a} : command'[b] = command[b]
    BY <1>4 DEF IInv, ProgramTypeOK
  <2>6. ReceiptRead'
    BY <1>1, <1>4, <2>2, <2>5 DEF IInv, ReceiptRead, Verifying
  <2>7. \A r \in Inputs : ~HasRead(a, r)'
    <3>1. pc'[a] \notin Writing \cup {"ingest_calls", "run", "reports"}
      BY <2>2 DEF Writing, Names, Listed
    <3> QED
      BY <3>1 DEF HasRead, Inputs
  <2>8. \A b \in Analyzers \ {a}, r \in Inputs : HasRead(b, r)' => HasRead(b, r)
    BY <2>2, ReadStays
  <2>9. ~verified[a]
    BY <1>2 DEF IInv, ReceiptRead
  <2>10. Seals'
    BY <1>1, <2>8, <2>9 DEF IInv, Seals, Sealing, SealsUpTo
  <2> QED
    BY <1>1, <1>2, <2>1, <2>2, <2>4, <2>6, <2>7, <2>10, Prepared, PrepareKeeps
<1> QED
  BY <1>3, <1>4 DEF VerifyCapture

\* What a line of the receipt is.
LEMMA LineFacts ==
    ASSUME ProgramTypeOK, receipt # Absent, NEW i \in DOMAIN receipt.lines
    PROVE  /\ receipt.lines[i].role \in Roles
           /\ DOMAIN receipt.lines = 1 .. Len(receipt.lines)
           /\ Len(receipt.lines) \in Nat
<1>1. receipt.lines \in Seq(Lines)
  BY DEF ProgramTypeOK, Receipts
<1>2. /\ DOMAIN receipt.lines = 1 .. Len(receipt.lines)
      /\ Len(receipt.lines) \in Nat
  BY <1>1, LenProperties
<1>3. receipt.lines[i] \in Lines
  BY <1>1, <1>2, ElementOfSeq
<1> QED
  BY <1>2, <1>3 DEF Lines

\* A line more that matches: Seals holds of one line more.
LEMMA VerifyArtifactKeeps ==
    ASSUME IInv, NEW a \in Analyzers, VerifyArtifact(a)
    PROVE  IInv'
<1>1. /\ UNCHANGED <<artifact, receipt, product, exists, force, verified,
                     command, analysis, open>>
      /\ pc[a] = "verify_artifact" /\ observed[a] < Len(receipt.lines)
  BY DEF VerifyArtifact, setting, captureVars
<1>2. /\ pc[a] \in Verifying /\ pc[a] \in Preparing /\ receipt # Absent
      /\ ~verified[a]
  BY <1>1 DEF Verifying, Preparing, IInv, ReceiptRead
<1>3. CASE VerifyFails(a) /\ UNCHANGED observed
  BY <1>1, <1>2, <1>3, ForcedKeeps
<1>4. CASE /\ Matches(artifact, receipt.lines[observed[a] + 1])
           /\ observed' = [observed EXCEPT ![a] = @ + 1]
           /\ UNCHANGED <<pc, exit>>
  <2> DEFINE line == receipt.lines[observed[a] + 1]
  <2>1. /\ observed[a] \in 0 .. 7 /\ Len(receipt.lines) <= 7
        /\ receipt.lines \in Seq(Lines)
    BY <1>2, RoleOrderType DEF IInv, ProgramTypeOK, ReceiptRead, Receipts
  <2>2. observed[a] + 1 \in DOMAIN receipt.lines
    BY <1>1, <2>1
  <2>3. line.role \in Roles
    BY <1>2, <2>2, LineFacts DEF IInv
  <2>4. /\ artifact[line.role] # Absent
        /\ line.print = Bytes(line.role, artifact[line.role])
    BY <1>4 DEF Matches
  <2>5. artifact[line.role] \in Content
    BY <2>3, <2>4 DEF IInv, ProgramTypeOK
  <2>6. SealsUpTo(observed[a] + 1, artifact[line.role])
    BY <2>4, <2>5 DEF SealsUpTo, Grown
  <2>7. /\ observed'[a] = observed[a] + 1
        /\ \A b \in Analyzers \ {a} : observed'[b] = observed[b]
        /\ observed' \in [Analyzers -> 0 .. Len(RoleOrder)]
    <3>1. observed[a] + 1 \in 0 .. Len(RoleOrder)
      BY <1>1, <2>1, RoleOrderType
    <3> QED
      BY <1>4, <3>1 DEF IInv, ProgramTypeOK
  <2>8. ProgramTypeOK'
    BY <1>1, <1>4, <2>7 DEF IInv, ProgramTypeOK
  <2>9. ReceiptRead'
    <3>1. observed[a] + 1 <= Len(receipt.lines)
      BY <1>1, <2>1
    <3> QED
      BY <1>1, <1>2, <1>4, <2>7, <3>1 DEF IInv, ReceiptRead
  <2>10. Seals'
    <3>1. \A b \in Analyzers : \A i \in 1 .. observed'[b] :
              /\ artifact[receipt.lines[i].role] # Absent
              /\ SealsUpTo(i, artifact[receipt.lines[i].role])
      <4> TAKE b \in Analyzers
      <4> TAKE i \in 1 .. observed'[b]
      <4>1. CASE b = a /\ i = observed[a] + 1
        BY <2>4, <2>6, <4>1
      <4>2. CASE ~(b = a /\ i = observed[a] + 1)
        <5>1. i \in 1 .. observed[b]
          BY <2>1, <2>7, <4>2
        <5> QED
          BY <5>1 DEF IInv, Seals
      <4> QED
        BY <4>1, <4>2
    <3>2. \A b \in Analyzers, r \in Inputs : HasRead(b, r)' <=> HasRead(b, r)
      BY <1>4 DEF HasRead
    <3> QED
      BY <1>1, <3>1, <3>2 DEF IInv, Seals, Sealing, SealsUpTo
  <2>11. ~Lingering => \A r \in Inputs : HasRead(a, r)' => analysis'[a][r] = artifact[r]
    <3>1. \A r \in Inputs : HasRead(a, r)' => HasRead(a, r)
      BY <1>4, ReadStays
    <3> QED
      BY <1>1, <3>1 DEF IInv, Quiet
  <2>12. pc' = [pc EXCEPT ![a] = "verify_artifact"] /\ "verify_artifact" \in Preparing
    BY <1>1, <1>2, <1>4 DEF IInv, ProgramTypeOK
  <2> QED
    BY <1>1, <1>2, <2>8, <2>9, <2>10, <2>11, <2>12, Prepared, PrepareKeeps
<1> QED
  BY <1>3, <1>4 DEF VerifyArtifact

\* All lines matched: the capture is verified, and every line seals its file.
LEMMA VerifyDoneKeeps ==
    ASSUME IInv, NEW a \in Analyzers, VerifyDone(a)
    PROVE  IInv'
<1>1. /\ UNCHANGED <<artifact, receipt, product, exists, force, observed,
                     command, analysis, open>>
      /\ pc[a] = "verify_artifact" /\ observed[a] = Len(receipt.lines)
  BY DEF VerifyDone, setting, captureVars
<1>2. /\ pc[a] \in Verifying /\ pc[a] \in Preparing /\ receipt # Absent
      /\ ~verified[a] /\ analysis[a] = Nothing
  BY <1>1 DEF Verifying, Preparing, IInv, ReceiptRead
<1>3. CASE VerifyFails(a) /\ UNCHANGED verified
  BY <1>1, <1>2, <1>3, ForcedKeeps
<1>4. CASE /\ Roles \subseteq {receipt.lines[i].role : i \in DOMAIN receipt.lines}
           /\ verified' = [verified EXCEPT ![a] = TRUE]
           /\ Goto(a, "ingest_resources")
  <2>1. "ingest_resources" \in Preparing /\ "ingest_resources" \in Stages
    BY DEF Preparing, Stages
  <2>2. /\ pc' = [pc EXCEPT ![a] = "ingest_resources"] /\ UNCHANGED exit
        /\ \A b \in Analyzers \ {a} : pc'[b] = pc[b]
        /\ pc'[a] = "ingest_resources"
    BY <1>4 DEF Goto, IInv, ProgramTypeOK
  <2>3. /\ verified'[a] = TRUE
        /\ \A b \in Analyzers \ {a} : verified'[b] = verified[b]
        /\ verified' \in [Analyzers -> BOOLEAN]
    BY <1>4 DEF IInv, ProgramTypeOK
  <2>4. ProgramTypeOK'
    BY <1>1, <2>1, <2>2, <2>3 DEF IInv, ProgramTypeOK
  <2>5. ReceiptRead'
    BY <1>1, <1>2, <2>2, <2>3 DEF IInv, ReceiptRead, Verifying
  <2>6. \A r \in Inputs : ~HasRead(a, r)'
    <3>1. pc'[a] \notin Writing \cup {"ingest_calls", "run", "reports"}
      BY <2>2 DEF Writing, Names, Listed
    <3> QED
      BY <3>1 DEF HasRead, Inputs
  <2>7. \A b \in Analyzers \ {a}, r \in Inputs : HasRead(b, r)' => HasRead(b, r)
    BY <2>2, ReadStays
  <2>8. \A r \in Inputs : artifact[r] # Absent /\ Sealing(r, artifact[r])
    <3> TAKE r \in Inputs
    <3>1. PICK i \in DOMAIN receipt.lines : receipt.lines[i].role = r
      BY <1>4, CopiesFacts
    <3>2. i \in 1 .. observed[a]
      BY <1>1, <1>2, LineFacts DEF IInv
    <3>3. artifact[r] # Absent /\ SealsUpTo(i, artifact[r])
      BY <3>1, <3>2 DEF IInv, Seals
    <3> QED
      BY <3>1, <3>3 DEF Sealing
  <2>9. \A r \in Inputs : analysis[a][r] = Absent
    BY <1>2 DEF Nothing
  <2>10. Seals'
    <3>1. \A r \in Inputs :
              /\ artifact[r] # Absent /\ Sealing(r, artifact[r])
              /\ ~HasRead(a, r)' /\ analysis[a][r] = Absent
      BY <2>6, <2>8, <2>9
    <3> QED
      BY <1>1, <2>3, <2>7, <3>1 DEF IInv, Seals, Sealing, SealsUpTo
  <2> QED
    BY <1>1, <1>2, <2>1, <2>2, <2>4, <2>5, <2>6, <2>10, Prepared, PrepareKeeps
<1> QED
  BY <1>3, <1>4 DEF VerifyDone

\* One of the three reads.
LEMMA ReadKeeps ==
    ASSUME IInv, NEW a \in Analyzers, NEW role \in Inputs,
           NEW next \in {"ingest_calls", "run", "reports"},
           pc[a] \in Preparing, pc[a] \notin Verifying,
           Reads(a, role, next),
           pc'[a] = next =>
               \A r \in Inputs : HasRead(a, r)' => r = role \/ HasRead(a, r)
    PROVE  IInv'
<1>1. UNCHANGED <<artifact, receipt, product, exists, force, observed,
                  verified, command, open>>
  BY DEF Reads, setting, captureVars, admission
<1>2. CASE Trouble(a) /\ UNCHANGED analysis
  BY <1>1, <1>2, Prepared, TroubleKeeps DEF IInv, ProgramTypeOK
<1>3. CASE /\ analysis' = [analysis EXCEPT ![a][role] = artifact[role]]
           /\ Goto(a, next)
  <2>1. next \in Preparing /\ next \in Stages /\ next \notin {"start"} \cup Verifying
    BY DEF Preparing, Stages, Names, Listed, Verifying
  <2>2. /\ pc' = [pc EXCEPT ![a] = next] /\ UNCHANGED exit
        /\ \A b \in Analyzers \ {a} : pc'[b] = pc[b]
        /\ pc'[a] = next
    BY <1>3 DEF Goto, IInv, ProgramTypeOK
  <2>3. /\ analysis' \in [Analyzers -> Analyses]
        /\ analysis'[a][role] = artifact[role]
        /\ \A r \in Inputs \ {role} : analysis'[a][r] = analysis[a][r]
        /\ \A b \in Analyzers \ {a} : analysis'[b] = analysis[b]
    BY <1>3, ReadType DEF IInv, ProgramTypeOK, Analyses
  <2>4. ProgramTypeOK'
    BY <1>1, <2>1, <2>2, <2>3 DEF IInv, ProgramTypeOK
  <2>5. ReceiptRead'
    BY <1>1, <2>1, <2>2, <2>3 DEF IInv, ReceiptRead, Verifying
  <2>6. \A b \in Analyzers \ {a}, r \in Inputs : HasRead(b, r)' => HasRead(b, r)
    BY <2>2, ReadStays
  <2>7. Seals'
    <3> SUFFICES ASSUME NEW b \in Analyzers, verified[b], NEW r \in Inputs
                 PROVE  /\ artifact[r] # Absent
                        /\ Sealing(r, artifact[r])
                        /\ HasRead(b, r)' => analysis'[b][r] # Absent
                        /\ analysis'[b][r] # Absent =>
                              /\ Sealing(r, analysis'[b][r])
                              /\ Grown(analysis'[b][r], artifact[r])
      BY <1>1 DEF IInv, Seals, Sealing, SealsUpTo
    <3>1. artifact[r] # Absent /\ Sealing(r, artifact[r])
      BY DEF IInv, Seals
    <3>2. CASE b = a /\ r = role
      BY <2>3, <3>1, <3>2 DEF Grown
    <3>3. CASE ~(b = a /\ r = role)
      <4>1. analysis'[b][r] = analysis[b][r]
        BY <2>3, <3>3
      <4>2. HasRead(b, r)' => HasRead(b, r)
        BY <2>2, <2>6, <3>3
      <4> QED
        BY <3>1, <4>1, <4>2 DEF IInv, Seals
    <3> QED
      BY <3>2, <3>3
  <2>8. ~Lingering => \A r \in Inputs : HasRead(a, r)' => analysis'[a][r] = artifact[r]
    <3> SUFFICES ASSUME ~Lingering, NEW r \in Inputs, HasRead(a, r)'
                 PROVE  analysis'[a][r] = artifact[r]
      OBVIOUS
    <3>1. CASE r = role
      BY <2>3, <3>1
    <3>2. CASE r # role
      <4>1. HasRead(a, r)
        BY <2>2, <3>2
      <4> QED
        BY <2>3, <3>2, <4>1 DEF IInv, Quiet
    <3> QED
      BY <3>1, <3>2
  <2> QED
    BY <1>1, <2>1, <2>2, <2>4, <2>5, <2>7, <2>8, Prepared, PrepareKeeps
<1> QED
  BY <1>2, <1>3 DEF Reads

\* Ingestion and policy take the inputs as they are now, grown or not.
LEMMA ReadsKeep ==
    ASSUME IInv, NEW a \in Analyzers,
           IngestResources(a) \/ IngestCalls(a) \/ RunAnalysis(a)
    PROVE  IInv'
<1>1. /\ {"ingest_resources", "ingest_calls", "run"} \subseteq Preparing
      /\ {"ingest_resources", "ingest_calls", "run"} \cap Verifying = {}
      /\ {"resources", "calls", "stderr"} = Inputs
      /\ {"ingest_calls", "run", "reports"} \cap Writing = {}
  BY DEF Preparing, Verifying, Inputs, Writing, Names, Listed
<1>2. CASE IngestResources(a)
  <2>1. pc'[a] = "ingest_calls" => ~HasRead(a, "calls")' /\ ~HasRead(a, "stderr")'
    BY <1>1 DEF HasRead
  <2> QED
    BY <1>1, <1>2, <2>1, ReadKeeps DEF IngestResources
<1>3. CASE IngestCalls(a)
  <2>1. pc[a] = "ingest_calls"
    BY <1>3 DEF IngestCalls
  <2>2. HasRead(a, "resources")
    BY <2>1 DEF HasRead
  <2>3. pc'[a] = "run" => ~HasRead(a, "stderr")'
    BY <1>1 DEF HasRead
  <2> QED
    BY <1>1, <1>3, <2>1, <2>2, <2>3, ReadKeeps DEF IngestCalls
<1>4. CASE RunAnalysis(a)
  <2>1. pc[a] = "run"
    BY <1>4 DEF RunAnalysis
  <2>2. HasRead(a, "resources") /\ HasRead(a, "calls")
    BY <2>1 DEF HasRead
  <2> QED
    BY <1>1, <1>4, <2>1, <2>2, ReadKeeps DEF RunAnalysis
<1> QED
  BY <1>2, <1>3, <1>4

\* The bundle is the first product; there was none before.
LEMMA WriteBundleKeeps ==
    ASSUME IInv, NEW a \in Analyzers, WriteBundle(a)
    PROVE  IInv'
<1>1. /\ UNCHANGED <<artifact, receipt, force, observed, verified, command,
                     analysis, open>>
      /\ pc[a] = "reports"
  BY DEF WriteBundle, setting, captureVars, admission
<1>2. pc[a] \in Preparing
  BY <1>1 DEF Preparing
<1>3. /\ ~open[a] /\ ~exists
      /\ \A b \in Analyzers \ {a} : ~AtWork(b)
      /\ \A n \in Names : product[n] = Absent
  BY <1>2, Prepared DEF IInv, Untouched
<1>4. CASE Trouble(a) /\ UNCHANGED <<product, exists>>
  BY <1>1, <1>3, <1>4, TroubleKeeps DEF IInv, ProgramTypeOK
<1>5. ASSUME NEW file, NEW stage \in {"run-model.json", "done"},
             exists' = TRUE, product' = [product EXCEPT !["reports"] = file],
             pc' = [pc EXCEPT ![a] = stage],
             exit' \in [Analyzers -> {"none", "success", "findings", "trouble"}],
             \/ file = Ragged(a) /\ stage = "done"
             \/ file = Written(a, analysis[a])
      PROVE  IInv'
  <2>1. /\ "reports" \in Names /\ "reports" \in Shown
        /\ \A r \in Inputs : Copies[r] # "reports" /\ Copies[r] \in Names
        /\ "analysis-receipt.json" \in Names /\ "analysis-manifest.txt" \in Names
        /\ stage \in Stages /\ stage \in Writing \cup {"done"}
        /\ stage \notin Preparing \cup {"start", "reports"}
    BY CopiesFacts DEF Names, Shown, Stages, Listed, Preparing, Verifying, Writing
  <2>2. /\ pc'[a] = stage
        /\ \A b \in Analyzers \ {a} : pc'[b] = pc[b] /\ ~AtWork(b)'
        /\ product'["reports"] = file
        /\ DOMAIN product' = Names
        /\ \A n \in Names \ {"reports"} : product'[n] = Absent
    BY <1>3, <1>5, <2>1 DEF IInv, ProgramTypeOK, AtWork
  <2>3. \A b \in Analyzers \ {a} : pc'[b] \notin Writing \cup Preparing \cup Verifying
    BY <2>2 DEF AtWork, Preparing, Verifying, Writing, Names, Listed
  <2>4. Holds("reports", analysis[a])
    BY DEF IInv, ProgramTypeOK, Holds, Shown
  <2>5. /\ file \in Files /\ file # Absent /\ file.by = a
        /\ file.whole => file.holds = analysis[a]
        /\ ~file.whole => file.holds = Absent
        /\ stage # "done" => file.whole
    <3>1. CASE file = Ragged(a) /\ stage = "done"
      BY <3>1, FileTypes DEF Ragged
    <3>2. CASE file = Written(a, analysis[a])
      <4>1. file \in Files /\ file # Absent
        BY <2>1, <2>4, <3>2, FileTypes
      <4>2. file.whole = TRUE /\ file.holds = analysis[a] /\ file.by = a
        BY <3>2 DEF Written
      <4> QED
        BY <4>1, <4>2
    <3> QED
      BY <1>5, <3>1, <3>2
  <2>6. ProgramTypeOK'
    <3>1. product'["reports"].whole => Holds("reports", product'["reports"].holds)
      BY <2>2, <2>4, <2>5
    <3>2. \A n \in Names : product'[n] # Absent =>
              /\ product'[n] \in Files
              /\ IF product'[n].whole THEN Holds(n, product'[n].holds)
                                      ELSE product'[n].holds = Absent
      BY <2>2, <2>5, <3>1
    <3> QED
      BY <1>1, <1>5, <2>1, <2>2, <3>2 DEF IInv, ProgramTypeOK
  <2>7. Exclusive'
    BY <2>2 DEF Exclusive
  <2>8. Untouched'
    BY <1>1, <1>3, <1>5, <2>1, <2>2, <2>3 DEF IInv, Untouched
  <2>9. Progress'
    <3> SUFFICES ASSUME NEW b \in Analyzers, (pc[b] \in Writing)', NEW n \in Names
                 PROVE  /\ Rank(n) < Rank(pc'[b]) => IsWhole(n)' /\ product'[n].by = b
                        /\ Rank(n) > Rank(pc'[b]) => product'[n] = Absent
                        /\ n = pc'[b] => product'[n] = IF open'[b] THEN Ragged(b) ELSE Absent
      BY DEF Progress
    <3>1. b = a
      BY <2>3
    <3>2. pc'[b] = "run-model.json" /\ Rank(pc'[b]) = 2
      BY <2>2, <3>1, RankFacts DEF Writing, Names, Listed
    <3>3. CASE n = "reports"
      BY <2>2, <2>5, <3>1, <3>2, <3>3, RankFacts DEF IsWhole
    <3>4. CASE n # "reports"
      <4>1. Rank(n) # 1 /\ Rank(n) \in 1 .. 10
        BY <2>1, <3>4, RankFacts
      <4> QED
        BY <1>1, <1>3, <2>2, <3>1, <3>2, <3>4, <4>1
    <3> QED
      BY <3>3, <3>4
  <2>10. OneAuthor' /\ Bound'
    BY <2>1, <2>2 DEF OneAuthor, Bound, IsWhole
  <2>11. Products'
    <3>1. \A n \in Names : IsWhole(n)' => n = "reports" /\ product'[n].holds = analysis[a]
                                            /\ product'[n].by = a
      BY <2>2, <2>5 DEF IsWhole
    <3>2. \A r \in Inputs : ~IsWhole(Copies[r])'
      BY <2>1, <2>2 DEF IsWhole
    <3> QED
      BY <1>1, <3>1, <3>2 DEF Products, Right
  <2>12. ReceiptRead'
    BY <1>1, <2>1, <2>2, <2>3 DEF IInv, ReceiptRead, Verifying, Preparing
  <2>13. \A b \in Analyzers, r \in Inputs : HasRead(b, r)' => HasRead(b, r)
    <3> TAKE b \in Analyzers, r \in Inputs
    <3>1. CASE b = a
      <4>1. HasRead(a, r)
        BY <1>1 DEF HasRead, Inputs
      <4> QED
        BY <3>1, <4>1
    <3>2. CASE b # a
      BY <2>2, <3>2, ReadStays
    <3> QED
      BY <3>1, <3>2
  <2>14. Seals'
    BY <1>1, <2>13 DEF IInv, Seals, Sealing, SealsUpTo
  <2>15. Quiet'
    BY <1>1, <2>1, <2>2, <2>13 DEF IInv, Quiet, IsWhole
  <2> QED
    BY <2>6, <2>7, <2>8, <2>9, <2>10, <2>11, <2>12, <2>14, <2>15 DEF IInv
<1>6. CASE /\ exists' = TRUE
           /\ product' = [product EXCEPT !["reports"] = Written(a, analysis[a])]
           /\ Goto(a, "run-model.json")
  BY <1>5, <1>6 DEF Goto, IInv, ProgramTypeOK
<1>7. CASE /\ Trouble(a) /\ exists' = TRUE
           /\ product' = [product EXCEPT !["reports"] = Ragged(a)]
  <2>1. exit' \in [Analyzers -> {"none", "success", "findings", "trouble"}]
    BY <1>7 DEF Trouble, IInv, ProgramTypeOK
  <2> QED
    BY <1>5, <1>7, <2>1 DEF Trouble
<1> QED
  BY <1>3, <1>4, <1>6, <1>7 DEF WriteBundle

\* Leaving analyze_command by its last return.
LEMMA FinishKeeps ==
    ASSUME IInv, NEW a \in Analyzers, FinishAnalyze(a)
    PROVE  IInv'
<1>1. /\ UNCHANGED <<artifact, receipt, product, exists, force, observed,
                     verified, command, analysis, open>>
      /\ pc[a] = "finish" /\ pc' = [pc EXCEPT ![a] = "done"]
  BY DEF FinishAnalyze, setting, captureVars, admission
<1>2. ~open[a]
  BY <1>1 DEF IInv, Untouched, Names, Listed
<1>3. exit' \in [Analyzers -> {"none", "success", "findings", "trouble"}]
  BY VerdictType DEF FinishAnalyze, IInv, ProgramTypeOK
<1> QED
  BY <1>1, <1>2, <1>3, LeaveKeeps DEF IInv, ProgramTypeOK

\* A kill leaves the products where they are and one author fewer.
LEMMA CrashKeeps ==
    ASSUME IInv, NEW a \in Analyzers, Crash(a)
    PROVE  IInv'
<1>1. /\ UNCHANGED <<artifact, receipt, product, exists, force, observed,
                     verified, command, analysis, open, exit>>
      /\ pc' = [pc EXCEPT ![a] = "crashed"]
  BY DEF Crash, setting, captureVars, admission
<1> QED
  BY <1>1, LeaveKeeps DEF IInv, ProgramTypeOK

\* A late writer makes a log grow, and nothing else.
LEMMA LateGrows ==
    ASSUME ProgramTypeOK, NEW role \in Outputs, LateWrite(role)
    PROVE  /\ Lingering
           /\ UNCHANGED <<receipt, product, exists, pc, force, observed,
                          verified, command, analysis, open, exit>>
           /\ artifact' \in [Roles -> Content \cup {Absent}]
           /\ \A r \in Roles : artifact[r] # Absent =>
                 artifact'[r] # Absent /\ Grown(artifact[r], artifact'[r])
<1>1. role \in Roles
  BY OutputsAssumption, CopiesFacts DEF Roles
<1>2. artifact[role] \in Content /\ artifact \in [Roles -> Content \cup {Absent}]
  BY <1>1 DEF LateWrite, ProgramTypeOK
<1> DEFINE new == [artifact[role] EXCEPT !.chunks = @ \cup {artifact[role].by}]
<1>3. new \in Content /\ Grown(artifact[role], new)
  BY <1>2 DEF Content, Grown
<1>4. artifact' = [artifact EXCEPT ![role] = new]
  BY <1>1, <1>2 DEF LateWrite
<1>5. /\ artifact'[role] = new /\ new # Absent
      /\ \A r \in Roles \ {role} : artifact'[r] = artifact[r]
      /\ artifact' \in [Roles -> Content \cup {Absent}]
  <2> HIDE DEF new
  <2> QED
    BY <1>1, <1>2, <1>3, <1>4, AbsentAssumption
<1>6. \A r \in Roles : artifact[r] # Absent =>
         artifact'[r] # Absent /\ Grown(artifact[r], artifact'[r])
  <2> HIDE DEF new
  <2> QED
    BY <1>3, <1>5 DEF Grown
<1> QED
  BY <1>5, <1>6 DEF LateWrite, admission

\* Files of the capture grow: what was read of them stays a part of them.
LEMMA GrowthKeeps ==
    ASSUME IInv, Lingering,
           UNCHANGED <<receipt, product, exists, pc, force, observed,
                       verified, command, analysis, open, exit>>,
           artifact' \in [Roles -> Content \cup {Absent}],
           \A r \in Roles : artifact[r] # Absent =>
               artifact'[r] # Absent /\ Grown(artifact[r], artifact'[r])
    PROVE  IInv'
<1>1. /\ Lingering
      /\ UNCHANGED <<receipt, product, exists, pc, force, observed,
                     verified, command, analysis, open, exit>>
      /\ artifact' \in [Roles -> Content \cup {Absent}]
      /\ \A r \in Roles : artifact[r] # Absent =>
            artifact'[r] # Absent /\ Grown(artifact[r], artifact'[r])
  OBVIOUS
<1>2. ProgramTypeOK'
  BY <1>1 DEF IInv, ProgramTypeOK
<1>3. Exclusive' /\ Untouched' /\ Progress' /\ OneAuthor' /\ Bound' /\ ReceiptRead'
  BY <1>1 DEF IInv, Exclusive, AtWork, Untouched, Progress, OneAuthor, Bound,
     ReceiptRead, IsWhole
<1>4. Products'
  <2>1. \A n \in Names : IsWhole(n)' => Right(product[n].by, n, product[n].holds)'
    BY <1>1 DEF IInv, Products, Right, IsWhole
  <2>2. \A r \in Inputs : IsWhole(Copies[r])' =>
            CopyRight(product[Copies[r]].by, r, product[Copies[r]].holds)'
    <3> SUFFICES ASSUME NEW r \in Inputs, IsWhole(Copies[r])'
                 PROVE  CopyRight(product[Copies[r]].by, r, product[Copies[r]].holds)'
      OBVIOUS
    <3>1. CopyRight(product[Copies[r]].by, r, product[Copies[r]].holds)
      BY <1>1 DEF IInv, Products, IsWhole
    <3>2. /\ artifact'[r] # Absent
          /\ Grown(product[Copies[r]].holds, artifact'[r])
      BY <1>1, <3>1, CopiesFacts, GrownTransitive DEF CopyRight
    <3> QED
      BY <1>1, <3>1, <3>2 DEF CopyRight
  <2> QED
    BY <2>1, <2>2 DEF Products
<1>5. \A i, x, y : SealsUpTo(i, x) /\ Grown(x, y) => SealsUpTo(i, y)
  BY GrownTransitive DEF SealsUpTo
<1>6. Seals'
  <2>1. \A a \in Analyzers : \A i \in 1 .. observed[a] :
            /\ artifact'[receipt.lines[i].role] # Absent
            /\ SealsUpTo(i, artifact'[receipt.lines[i].role])
    <3> TAKE a \in Analyzers
    <3> TAKE i \in 1 .. observed[a]
    <3>1. /\ artifact[receipt.lines[i].role] # Absent
          /\ SealsUpTo(i, artifact[receipt.lines[i].role])
      BY DEF IInv, Seals
    <3>2. receipt.lines[i].role \in Roles
      <4>1. observed[a] > 0 /\ receipt # Absent /\ observed[a] <= Len(receipt.lines)
        BY DEF IInv, ReceiptRead, ProgramTypeOK
      <4>2. i \in DOMAIN receipt.lines
        <5>1. receipt.lines \in Seq(Lines) /\ observed[a] \in Nat
          BY <4>1 DEF IInv, ProgramTypeOK, Receipts
        <5> QED
          BY <4>1, <5>1, LenProperties
      <4> QED
        BY <4>1, <4>2, LineFacts DEF IInv
    <3> QED
      BY <1>1, <1>5, <3>1, <3>2
  <2>2. \A a \in Analyzers, r \in Inputs : HasRead(a, r)' <=> HasRead(a, r)
    BY <1>1 DEF HasRead
  <2>3. \A a \in Analyzers : verified[a] => \A r \in Inputs :
            /\ artifact'[r] # Absent
            /\ Sealing(r, artifact'[r])
            /\ HasRead(a, r)' => analysis[a][r] # Absent
            /\ analysis[a][r] # Absent =>
                  /\ Sealing(r, analysis[a][r])
                  /\ Grown(analysis[a][r], artifact'[r])
    <3> SUFFICES ASSUME NEW a \in Analyzers, verified[a], NEW r \in Inputs
                 PROVE  /\ artifact'[r] # Absent
                        /\ Sealing(r, artifact'[r])
                        /\ HasRead(a, r)' => analysis[a][r] # Absent
                        /\ analysis[a][r] # Absent =>
                              /\ Sealing(r, analysis[a][r])
                              /\ Grown(analysis[a][r], artifact'[r])
      OBVIOUS
    <3>1. /\ artifact[r] # Absent
          /\ Sealing(r, artifact[r])
          /\ HasRead(a, r) => analysis[a][r] # Absent
          /\ analysis[a][r] # Absent =>
                /\ Sealing(r, analysis[a][r])
                /\ Grown(analysis[a][r], artifact[r])
      BY DEF IInv, Seals
    <3>2. artifact'[r] # Absent /\ Grown(artifact[r], artifact'[r])
      BY <1>1, <3>1, CopiesFacts
    <3>3. Sealing(r, artifact'[r])
      BY <1>5, <3>1, <3>2 DEF Sealing
    <3>4. analysis[a][r] # Absent => Grown(analysis[a][r], artifact'[r])
      BY <3>1, <3>2, GrownTransitive
    <3> QED
      BY <2>2, <3>1, <3>2, <3>3, <3>4
  <2> QED
    BY <1>1, <2>1, <2>3 DEF Seals, Sealing, SealsUpTo
<1>7. Quiet'
  BY <1>1 DEF Quiet
<1> QED
  BY <1>2, <1>3, <1>4, <1>6, <1>7 DEF IInv

LEMMA LateWriteKeeps ==
    ASSUME IInv, NEW role \in Outputs, LateWrite(role)
    PROVE  IInv'
<1>1. ProgramTypeOK
  BY DEF IInv
<1> QED
  BY <1>1, LateGrows, GrowthKeeps

-----------------------------------------------------------------------------
(* The initial states.                                                     *)

\* The directories a capture can leave are well typed.
LEMMA InitTypes ==
    ASSUME Init
    PROVE  /\ artifact \in [Roles -> Content \cup {Absent}]
           /\ receipt \in Receipts \cup {Absent}
           /\ receipt # Absent => Len(receipt.lines) <= 7
<1>1. ASSUME NEW c \in Captures, NEW wrote \in SUBSET Outputs
      PROVE  LeftBy(c, wrote) \in [Roles -> Content]
  BY DEF LeftBy, Content
<1>2. ASSUME NEW c \in Captures
      PROVE  Died(c) \in [Roles -> Content \cup {Absent}]
  BY DEF Died, Whole, Content
<1>3. ASSUME NEW c \in Captures, NEW files \in [Roles -> Content],
             NEW s \in Statuses, NEW n \in 0 .. Len(RoleOrder)
      PROVE  ReceiptOf(c, files, s, n) \in Receipts
             /\ Len(ReceiptOf(c, files, s, n).lines) <= 7
  <2> DEFINE lines == [i \in 1 .. n |-> Line(RoleOrder[i], files[RoleOrder[i]])]
  <2>1. n \in 0 .. 7 /\ n \in Nat
    BY RoleOrderType
  <2>2. \A i \in 1 .. n : Line(RoleOrder[i], files[RoleOrder[i]]) \in Lines
    BY <2>1, LineType, RoleOrderType
  <2>3. lines \in Seq(Lines) /\ Len(lines) = n
    BY <2>1, <2>2, IsASeq
  <2>4. ReceiptOf(c, files, s, n) = [by |-> c, status |-> s, lines |-> lines]
    BY DEF ReceiptOf
  <2> HIDE DEF lines
  <2> QED
    BY <2>1, <2>3, <2>4 DEF Receipts
<1>4. PICK c \in Captures :
          \/ \E wrote \in SUBSET Outputs :
                /\ artifact = LeftBy(c, wrote)
                /\ \/ receipt = Absent
                   \/ \E s \in Statuses, n \in 0 .. Len(RoleOrder) :
                         receipt = ReceiptOf(c, artifact, s, n)
          \/ /\ artifact = Died(c)
             /\ receipt = Absent
  BY DEF Init
<1> QED
  BY <1>1, <1>2, <1>3, <1>4

\* Before the first analysis there is no product and nobody at work.
Untried ==
    /\ product = [n \in Names |-> Absent]
    /\ exists = FALSE
    /\ pc = [a \in Analyzers |-> "start"]
    /\ force = [a \in Analyzers |-> FALSE]
    /\ observed = [a \in Analyzers |-> 0]
    /\ verified = [a \in Analyzers |-> FALSE]
    /\ command = [a \in Analyzers |-> "success"]
    /\ analysis = [a \in Analyzers |-> Nothing]
    /\ open = [a \in Analyzers |-> FALSE]
    /\ exit = [a \in Analyzers |-> "none"]

\* So the invariant holds, whatever the capture directory has in it.
LEMMA UntriedHolds ==
    ASSUME Untried,
           artifact \in [Roles -> Content \cup {Absent}],
           receipt \in Receipts \cup {Absent},
           receipt # Absent => Len(receipt.lines) <= 7
    PROVE  IInv
<1>1. /\ \A n \in Names : product[n] = Absent
      /\ exists = FALSE
      /\ \A a \in Analyzers :
            /\ pc[a] = "start" /\ observed[a] = 0 /\ verified[a] = FALSE
            /\ analysis[a] = Nothing /\ open[a] = FALSE
  BY DEF Untried
<1>2. /\ "start" \notin Preparing \cup Writing \cup Verifying
      /\ "start" \notin {"ingest_calls", "run", "reports"}
      /\ "analysis-receipt.json" \in Names /\ "analysis-manifest.txt" \in Names
      /\ "start" \in Stages
  BY DEF Preparing, Writing, Verifying, Names, Listed, Stages
<1>3. ProgramTypeOK
  <2>1. Nothing \in Analyses
    BY DEF Nothing, Analyses
  <2>2. /\ pc \in [Analyzers -> Stages]
        /\ observed \in [Analyzers -> 0 .. Len(RoleOrder)]
        /\ analysis \in [Analyzers -> Analyses]
    BY <1>2, <2>1, RoleOrderType DEF Untried
  <2>3. /\ force \in [Analyzers -> BOOLEAN]
        /\ verified \in [Analyzers -> BOOLEAN]
        /\ open \in [Analyzers -> BOOLEAN]
        /\ command \in [Analyzers -> {"success", "findings", "trouble"}]
        /\ exit \in [Analyzers -> {"none", "success", "findings", "trouble"}]
        /\ DOMAIN product = Names /\ exists \in BOOLEAN
    BY DEF Untried
  <2> QED
    BY <1>1, <1>2, <2>1, <2>2, <2>3 DEF ProgramTypeOK
<1>4. \A a \in Analyzers, r \in Inputs : ~HasRead(a, r)
  BY <1>1, <1>2 DEF HasRead, Inputs
<1>5. Exclusive /\ Untouched /\ Progress
  BY <1>1, <1>2 DEF Exclusive, AtWork, Untouched, Progress
<1>6. OneAuthor /\ Products /\ Bound
  BY <1>1, <1>2, CopiesFacts DEF OneAuthor, Products, Bound, IsWhole
<1>7. ReceiptRead
  BY <1>1 DEF ReceiptRead
<1>8. Seals
  BY <1>1 DEF Seals
<1>9. Quiet
  BY <1>1, <1>2, <1>4, CopiesFacts DEF Quiet, IsWhole
<1> QED
  BY <1>3, <1>5, <1>6, <1>7, <1>8, <1>9 DEF IInv

LEMMA InitHolds == Init => IInv
BY InitTypes, UntriedHolds DEF Init, Untried

-----------------------------------------------------------------------------
(* The theorems.                                                           *)

\* A file that only its writer has opened is not flushed over another's.
LEMMA FlushesOwn == ASSUME IInv, NEW a \in Analyzers, Flush(a) PROVE FALSE
<1>1. open[a] /\ pc[a] # "crashed" /\ product[pc[a]] # Ragged(a)
  BY DEF Flush, AtWork
<1>2. pc[a] \in Names \ {"reports"}
  BY <1>1 DEF IInv, Untouched
<1>3. product[pc[a]] = Ragged(a)
  BY <1>1, <1>2 DEF IInv, Progress, Writing
<1> QED
  BY <1>1, <1>3

\* What an invocation puts in the directory is its own.
LEMMA WritesOwn ==
    ASSUME IInv, NEW a \in Analyzers, Step(a)
    PROVE  /\ DOMAIN product' = Names
           /\ \A n \in Names : product'[n] = product[n] \/ product'[n].by = a
<1>1. DOMAIN product = Names
  BY DEF IInv, ProgramTypeOK
<1>2. CASE WriterStep(a)
  <2>1. PICK name \in Names \ {"reports"}, next \in Writing : \E data :
            WriteOutcome(a, name, data, next)
    BY <1>2, WriterOutcome
  <2>2. PICK data : WriteOutcome(a, name, data, next)
    BY <2>1
  <2> QED
    BY <2>2 DEF WriteOutcome, Ragged, Written
<1>3. CASE WriteBundle(a)
  <2>1. ~exists
    BY <1>3 DEF WriteBundle, IInv, Untouched, Preparing
  <2> QED
    BY <1>1, <1>3, <2>1 DEF WriteBundle, Ragged, Written
<1>4. CASE UNCHANGED product
  BY <1>1, <1>4
<1> QED
  BY <1>2, <1>3, <1>4, FlushesOwn DEF Step, WriterStep, Start, VerifyCapture,
     VerifyArtifact, VerifyDone, IngestResources, IngestCalls, RunAnalysis,
     Reads, FinishAnalyze

\* Invocations come to overlap when one begins while another is at work.
LEMMA OverlapBegins ==
    ASSUME overlapped \in BOOLEAN, NEW a \in Analyzers, Step(a)
    PROVE  /\ overlapped' \in BOOLEAN
           /\ overlapped' =>
                 overlapped \/ (pc[a] = "start" /\ \E b \in Analyzers : AtWork(b))
<1>1. CASE Start(a)
  <2>1. CASE UNCHANGED overlapped
    BY <2>1
  <2>2. CASE overlapped' = (overlapped \/ \E b \in Analyzers : AtWork(b))
    <3>1. pc[a] = "start"
      BY <1>1 DEF Start
    <3>2. overlapped' \in BOOLEAN
      BY <2>2, Zenon
    <3> QED
      BY <2>2, <3>1, <3>2
  <2> QED
    BY <1>1, <2>1, <2>2 DEF Start, GoOn
<1>2. CASE UNCHANGED overlapped
  BY <1>2
<1> QED
  BY <1>1, <1>2 DEF Step, VerifyCapture, VerifyArtifact, VerifyDone,
     IngestResources, IngestCalls, RunAnalysis, Reads, WriteBundle,
     WriteModelFile, CopyAnalysisInputs, CopyInput, WriteFindingIndex,
     WriteAnalysisSummary, WriteAnalysisManifest, WriteAnalysisReceipt, Writes,
     Flush, FinishAnalyze, setting

\* Every step keeps the invariant, unless it makes invocations overlap.
LEMMA NextKeeps == IInv /\ [Next]_vars /\ ~overlapped' => IInv'
<1> SUFFICES ASSUME IInv, [Next]_vars, ~overlapped' PROVE IInv'
  OBVIOUS
<1>1. ASSUME NEW a \in Analyzers, Step(a) PROVE IInv'
  BY <1>1, StartKeeps, VerifyCaptureKeeps, VerifyArtifactKeeps, VerifyDoneKeeps,
     ReadsKeep, WriteBundleKeeps, WriterKeeps, FlushesOwn, FinishKeeps
     DEF Step, WriterStep
<1>2. CASE UNCHANGED vars
  <2>1. UNCHANGED <<artifact, receipt, product, exists, pc, force, observed,
                    verified, command, analysis, open, exit>>
    BY <1>2 DEF vars, setting, captureVars, admission
  <2>2. ProgramTypeOK' /\ Exclusive' /\ Untouched' /\ Progress' /\ ReceiptRead'
    BY <2>1 DEF IInv, ProgramTypeOK, Exclusive, AtWork, Untouched, Progress,
       ReceiptRead, IsWhole
  <2>3. OneAuthor' /\ Products' /\ Bound'
    BY <2>1 DEF IInv, OneAuthor, Products, Right, CopyRight, Bound, IsWhole
  <2>4. \A a \in Analyzers, r \in Inputs : HasRead(a, r)' => HasRead(a, r)
    BY <2>1 DEF HasRead
  <2>5. Seals'
    BY <2>1, <2>4 DEF IInv, Seals, Sealing, SealsUpTo
  <2>6. Quiet'
    BY <2>1, <2>4 DEF IInv, Quiet, IsWhole
  <2> QED
    BY <2>2, <2>3, <2>5, <2>6 DEF IInv
<1> QED
  BY <1>1, <1>2, CrashKeeps, LateWriteKeeps DEF Next, Terminating

\* That invocations overlapped is never forgotten.
LEMMA OverlapStays == [Next]_vars /\ ~overlapped' => ~overlapped
<1> SUFFICES ASSUME [Next]_vars, overlapped PROVE overlapped'
  OBVIOUS
<1>1. ASSUME NEW a \in Analyzers, Start(a) PROVE overlapped'
  BY <1>1 DEF Start, GoOn
<1>2. ASSUME NEW a \in Analyzers, Step(a), ~Start(a) PROVE UNCHANGED overlapped
  BY <1>2 DEF Step, VerifyCapture, VerifyArtifact, VerifyDone, IngestResources,
     IngestCalls, RunAnalysis, Reads, WriteBundle, WriteModelFile,
     CopyAnalysisInputs, CopyInput, WriteFindingIndex, WriteAnalysisSummary,
     WriteAnalysisManifest, WriteAnalysisReceipt, Writes, Flush, FinishAnalyze,
     setting
<1> QED
  BY <1>1, <1>2 DEF Next, Crash, LateWrite, Terminating, vars, setting

\* The invariant holds for any number of analyses, until two overlap.
THEOREM Invariance == Spec => [](~overlapped => IInv)
<1>1. Init => (~overlapped => IInv)
  BY InitHolds
<1>2. (~overlapped => IInv) /\ [Next]_vars => (~overlapped' => IInv')
  BY NextKeeps, OverlapStays
<1> QED
  BY <1>1, <1>2, PTL DEF Spec

-----------------------------------------------------------------------------
(* Types, also where invocations overlap.                                  *)

\* What can be said of the files whoever overlaps: there is no product without
\* a directory, and the receipt is written after a manifest.
TypeInv ==
    /\ TypeOK
    /\ receipt # Absent => Len(receipt.lines) <= 7
    /\ \A n \in Names : product[n] # Absent => exists
    /\ \A a \in Analyzers :
          /\ pc[a] = "verify_artifact" => receipt # Absent
          /\ pc[a] \in Writing => exists
          /\ pc[a] = "analysis-receipt.json" =>
                product["analysis-manifest.txt"] # Absent
          /\ open[a] => pc[a] \in (Names \ {"reports"}) \cup {"crashed"}

\* What a file may be at a name.
FileOK(n, file) ==
    /\ file # Absent /\ file \in Files
    /\ IF file.whole THEN Holds(n, file.holds) ELSE file.holds = Absent

\* Unfinished, mixed and whole files are such files.
LEMMA FilesOK ==
    ASSUME NEW a \in Analyzers, NEW n \in Names
    PROVE  /\ FileOK(n, Ragged(a)) /\ FileOK(n, Mixed)
           /\ \A data : Holds(n, data) => FileOK(n, Written(a, data))
<1>1. Mixed \in Files
  BY DEF Mixed, Files
<1>2. FileOK(n, Mixed)
  BY <1>1, AbsentFileAssumption DEF FileOK, Mixed
<1>3. FileOK(n, Ragged(a))
  BY FileTypes DEF FileOK, Ragged
<1>4. ASSUME NEW data, Holds(n, data) PROVE FileOK(n, Written(a, data))
  <2>1. Written(a, data) \in Files /\ Written(a, data) # Absent
    BY <1>4, FileTypes
  <2>2. Written(a, data).whole = TRUE /\ Written(a, data).holds = data
    BY DEF Written
  <2> QED
    BY <1>4, <2>1, <2>2 DEF FileOK
<1> QED
  BY <1>2, <1>3, <1>4

\* A step of one invocation that gives at most one name another file.
LEMMA TypesKept ==
    ASSUME TypeInv, NEW a \in Analyzers, NEW stage \in Stages, NEW opened \in BOOLEAN,
           pc' = [pc EXCEPT ![a] = stage], open' = [open EXCEPT ![a] = opened],
           \/ UNCHANGED product
           \/ \E n \in Names : \E file :
                 FileOK(n, file) /\ product' = [product EXCEPT ![n] = file] /\ exists',
           exists' \in BOOLEAN, exists => exists',
           UNCHANGED <<artifact, receipt>>,
           force' \in [Analyzers -> BOOLEAN],
           observed' \in [Analyzers -> 0 .. Len(RoleOrder)],
           verified' \in [Analyzers -> BOOLEAN],
           command' \in [Analyzers -> {"success", "findings", "trouble"}],
           analysis' \in [Analyzers -> Analyses],
           exit' \in [Analyzers -> {"none", "success", "findings", "trouble"}],
           overlapped' \in BOOLEAN,
           stage = "verify_artifact" => receipt # Absent,
           stage \in Writing => exists',
           stage = "analysis-receipt.json" => product'["analysis-manifest.txt"] # Absent,
           opened => stage \in (Names \ {"reports"}) \cup {"crashed"}
    PROVE  TypeInv'
<1>1. /\ pc \in [Analyzers -> Stages] /\ open \in [Analyzers -> BOOLEAN]
      /\ DOMAIN product = Names
      /\ \A n \in Names : product[n] # Absent => FileOK(n, product[n])
  BY DEF TypeInv, TypeOK, ProgramTypeOK, FileOK
<1>2. /\ pc' \in [Analyzers -> Stages] /\ open' \in [Analyzers -> BOOLEAN]
      /\ pc'[a] = stage /\ open'[a] = opened
      /\ \A b \in Analyzers \ {a} : pc'[b] = pc[b] /\ open'[b] = open[b]
  BY <1>1
<1>3. /\ DOMAIN product' = Names
      /\ \A n \in Names : product'[n] # Absent => FileOK(n, product'[n]) /\ exists'
      /\ \A n \in Names : product[n] # Absent => product'[n] # Absent
  <2>1. CASE UNCHANGED product
    BY <1>1, <2>1 DEF TypeInv
  <2>2. CASE \E n \in Names : \E file :
                FileOK(n, file) /\ product' = [product EXCEPT ![n] = file] /\ exists'
    <3>1. PICK n \in Names : \E file :
             FileOK(n, file) /\ product' = [product EXCEPT ![n] = file] /\ exists'
      BY <2>2
    <3>2. PICK file :
             FileOK(n, file) /\ product' = [product EXCEPT ![n] = file] /\ exists'
      BY <3>1
    <3>3. /\ DOMAIN product' = Names /\ product'[n] = file /\ file # Absent
          /\ \A m \in Names \ {n} : product'[m] = product[m]
      BY <1>1, <3>2 DEF FileOK
    <3> QED
      BY <1>1, <3>2, <3>3
  <2> QED
    BY <2>1, <2>2
<1>4. TypeOK'
  BY <1>2, <1>3 DEF TypeInv, TypeOK, ProgramTypeOK, FileOK
<1>5. "analysis-manifest.txt" \in Names
  BY DEF Names
<1>6. ASSUME NEW b \in Analyzers
      PROVE  /\ pc'[b] = "verify_artifact" => receipt' # Absent
             /\ pc'[b] \in Writing => exists'
             /\ pc'[b] = "analysis-receipt.json" =>
                   product'["analysis-manifest.txt"] # Absent
             /\ open'[b] => pc'[b] \in (Names \ {"reports"}) \cup {"crashed"}
  <2>1. CASE b = a
    BY <1>2, <2>1
  <2>2. CASE b # a
    BY <1>2, <1>3, <1>5, <2>2 DEF TypeInv
  <2> QED
    BY <2>1, <2>2
<1> QED
  BY <1>3, <1>4, <1>6 DEF TypeInv

\* The steps that leave the output directory alone.
LEMMA TypesStand ==
    ASSUME TypeInv, NEW a \in Analyzers, NEW stage \in Stages,
           pc' = [pc EXCEPT ![a] = stage],
           UNCHANGED <<artifact, receipt, product, exists, open>>,
           force' \in [Analyzers -> BOOLEAN],
           observed' \in [Analyzers -> 0 .. Len(RoleOrder)],
           verified' \in [Analyzers -> BOOLEAN],
           command' \in [Analyzers -> {"success", "findings", "trouble"}],
           analysis' \in [Analyzers -> Analyses],
           exit' \in [Analyzers -> {"none", "success", "findings", "trouble"}],
           overlapped' \in BOOLEAN,
           stage = "verify_artifact" => receipt # Absent,
           stage \notin Writing,
           open[a] => stage = "crashed"
    PROVE  TypeInv'
<1>1. /\ open[a] \in BOOLEAN /\ open' = [open EXCEPT ![a] = open[a]]
      /\ exists' \in BOOLEAN
  BY DEF TypeInv, TypeOK, ProgramTypeOK
<1>2. stage # "analysis-receipt.json"
  BY DEF Writing, Names
<1> QED
  BY <1>1, <1>2, TypesKept

\* A write keeps the types if its data has one.
LEMMA WriteTypes ==
    ASSUME TypeInv, NEW a \in Analyzers, NEW name \in Names \ {"reports"},
           NEW next \in Writing, NEW readable, NEW data,
           Writes(a, name, readable, data, next),
           readable => Holds(name, data),
           next = "analysis-receipt.json" => name = "analysis-manifest.txt"
    PROVE  TypeInv'
<1>1. /\ pc[a] = name /\ UNCHANGED <<artifact, receipt, exists, force, observed,
                                     verified, command, analysis, overlapped>>
  BY DEF Writes, setting, captureVars, admission
<1>2. /\ pc \in [Analyzers -> Stages] /\ open \in [Analyzers -> BOOLEAN]
      /\ exit \in [Analyzers -> {"none", "success", "findings", "trouble"}]
      /\ DOMAIN product = Names
      /\ exists /\ exists \in BOOLEAN
      /\ force \in [Analyzers -> BOOLEAN]
      /\ observed \in [Analyzers -> 0 .. Len(RoleOrder)]
      /\ verified \in [Analyzers -> BOOLEAN]
      /\ command \in [Analyzers -> {"success", "findings", "trouble"}]
      /\ analysis \in [Analyzers -> Analyses]
      /\ overlapped \in BOOLEAN
  BY <1>1 DEF TypeInv, TypeOK, ProgramTypeOK, Writing
<1>3. /\ name \in Names /\ name \in Writing /\ name \in Stages
      /\ next \in Stages /\ next # "verify_artifact" /\ name # "verify_artifact"
      /\ "done" \in Stages /\ "done" \notin Writing
      /\ "analysis-manifest.txt" \in Names
  BY DEF Names, Listed, Writing, Stages
<1>4. name = "analysis-receipt.json" => product["analysis-manifest.txt"] # Absent
  BY <1>1 DEF TypeInv
<1>5. ASSUME NEW stage \in {name, next, "done"}, NEW opened \in BOOLEAN,
             pc' = [pc EXCEPT ![a] = stage], open' = [open EXCEPT ![a] = opened],
             opened => stage = name,
             exit' \in [Analyzers -> {"none", "success", "findings", "trouble"}],
             \/ UNCHANGED product /\ stage # next
             \/ \E file : FileOK(name, file) /\ product' = [product EXCEPT ![name] = file]
      PROVE  TypeInv'
  <2>1. stage = "analysis-receipt.json" => product'["analysis-manifest.txt"] # Absent
    <3> SUFFICES ASSUME stage = "analysis-receipt.json"
                 PROVE  product'["analysis-manifest.txt"] # Absent
      OBVIOUS
    <3>1. CASE UNCHANGED product /\ stage # next
      BY <1>4, <1>5, <3>1
    <3>2. CASE \E file : FileOK(name, file) /\ product' = [product EXCEPT ![name] = file]
      <4>1. PICK file : FileOK(name, file) /\ product' = [product EXCEPT ![name] = file]
        BY <3>2
      <4>2. file # Absent
        BY <4>1 DEF FileOK
      <4> QED
        BY <1>2, <1>3, <1>4, <1>5, <4>1, <4>2
    <3> QED
      BY <1>5, <3>1, <3>2
  <2>2. /\ stage \in Stages /\ stage # "verify_artifact"
        /\ opened => stage \in (Names \ {"reports"}) \cup {"crashed"}
    BY <1>3, <1>5
  <2>3. \/ UNCHANGED product
        \/ \E n \in Names : \E file :
              FileOK(n, file) /\ product' = [product EXCEPT ![n] = file] /\ exists'
    BY <1>1, <1>2, <1>3, <1>5
  <2> QED
    BY <1>1, <1>2, <1>5, <2>1, <2>2, <2>3, TypesKept
<1>6. CASE Opens(a, name)
  <2>1. CASE /\ open' = [open EXCEPT ![a] = TRUE]
             /\ product' = [product EXCEPT ![name] = Ragged(a)]
             /\ UNCHANGED <<pc, exit>>
    <3>1. pc' = [pc EXCEPT ![a] = name]
      BY <1>1, <1>2, <2>1
    <3> QED
      BY <1>2, <1>3, <1>5, <2>1, <3>1, FilesOK
  <2>2. CASE Trouble(a) /\ UNCHANGED <<open, product>>
    <3>1. /\ open' = [open EXCEPT ![a] = FALSE] /\ pc' = [pc EXCEPT ![a] = "done"]
          /\ exit' \in [Analyzers -> {"none", "success", "findings", "trouble"}]
      BY <1>2, <1>6, <2>2 DEF Opens, Trouble
    <3>2. "done" # next
      BY <1>3
    <3> QED
      BY <1>5, <2>2, <3>1, <3>2
  <2> QED
    BY <1>6, <2>1, <2>2 DEF Opens
<1>7. CASE Closes(a, name, readable, data, next)
  <2>1. open' = [open EXCEPT ![a] = FALSE]
    BY <1>7 DEF Closes
  <2>2. ASSUME Goto(a, next) \/ Trouble(a)
        PROVE  /\ \E stage \in {next, "done"} : pc' = [pc EXCEPT ![a] = stage]
               /\ exit' \in [Analyzers -> {"none", "success", "findings", "trouble"}]
    BY <1>2, <2>2 DEF Goto, Trouble
  <2>3. CASE Trouble(a) /\ UNCHANGED product
    <3>1. pc' = [pc EXCEPT ![a] = "done"] /\ "done" # next
      BY <1>3, <2>3 DEF Trouble
    <3> QED
      BY <1>5, <2>1, <2>2, <2>3, <3>1
  <2>4. CASE /\ readable
             /\ \/ product' = [product EXCEPT ![name] = Written(a, data)]
                \/ product' = [product EXCEPT ![name] = Mixed]
             /\ Goto(a, next) \/ Trouble(a)
    <3>1. FileOK(name, Written(a, data)) /\ FileOK(name, Mixed)
      BY <1>3, <2>4, FilesOK
    <3> QED
      BY <1>5, <2>1, <2>2, <2>4, <3>1
  <2> QED
    BY <1>7, <2>3, <2>4 DEF Closes
<1> QED
  BY <1>6, <1>7 DEF Writes

\* Every writer writes what its name may hold.
LEMMA WritersTyped ==
    ASSUME TypeInv, NEW a \in Analyzers, WriterStep(a)
    PROVE  TypeInv'
<1>1. /\ Names \ {"reports"} \subseteq Writing
      /\ "run-model.json" \in Names \ {"reports"}
      /\ "finding-index.tsv" \in Names \ {"reports"}
      /\ "summary.md" \in Names \ {"reports"}
      /\ "analysis-manifest.txt" \in Names \ {"reports"}
      /\ "analysis-receipt.json" \in Names \ {"reports"}
      /\ "finish" \in Writing
      /\ \A r \in Inputs : Copies[r] \in Names \ {"reports"}
      /\ {"input-resources.log", "input-calls.log", "input-stderr.txt"} \subseteq Writing
  BY DEF Writing, Names, Listed, Copies, Inputs
<1>2. CASE WriteModelFile(a) \/ WriteFindingIndex(a)
  <2>1. Holds("run-model.json", analysis[a]) /\ Holds("finding-index.tsv", analysis[a])
    BY DEF Holds, Shown, TypeInv, TypeOK, ProgramTypeOK
  <2>2. CASE WriteModelFile(a)
    BY <1>1, <2>1, <2>2, WriteTypes DEF WriteModelFile
  <2>3. CASE WriteFindingIndex(a)
    BY <1>1, <2>1, <2>3, WriteTypes DEF WriteFindingIndex
  <2> QED
    BY <1>2, <2>2, <2>3
<1>3. CASE CopyAnalysisInputs(a)
  <2>1. ASSUME NEW role \in Inputs, NEW next \in Writing, CopyInput(a, role, next),
               next # "analysis-receipt.json"
        PROVE  TypeInv'
    <3>1. artifact[role] # Absent => artifact[role] \in Content
      BY CopiesFacts DEF TypeInv, TypeOK, ProgramTypeOK
    <3>2. artifact[role] # Absent => Holds(Copies[role], artifact[role])
      BY <3>1 DEF Holds, Copies, Inputs, Shown
    <3> QED
      BY <1>1, <2>1, <3>2, WriteTypes DEF CopyInput
  <2>2. {"resources", "calls", "stderr"} \subseteq Inputs
    BY DEF Inputs
  <2> QED
    BY <1>1, <1>3, <2>1, <2>2 DEF CopyAnalysisInputs
<1>4. CASE WriteAnalysisSummary(a)
  <2>1. [result |-> Verdict(analysis[a]), verification |-> "VERIFIED"] \in Summaries
    BY VerdictType DEF Summaries
  <2>2. Holds("summary.md", [result |-> Verdict(analysis[a]), verification |-> "VERIFIED"])
    BY <2>1 DEF Holds, Shown
  <2> QED
    BY <1>1, <1>4, <2>2, WriteTypes DEF WriteAnalysisSummary
<1>5. CASE WriteAnalysisManifest(a)
  <2> DEFINE data == [n \in {m \in Listed : product[m] # Absent} |-> Fingerprint(product[n])]
  <2>1. ASSUME \A n \in Listed : product[n] # Absent
        PROVE  Holds("analysis-manifest.txt", data)
    <3>1. {m \in Listed : product[m] # Absent} = Listed
      BY <2>1
    <3>2. data = [n \in Listed |-> Fingerprint(product[n])]
      BY <3>1
    <3>3. data \in Manifests
      BY <2>1, <3>2, FingerprintType DEF TypeInv, TypeOK, Manifests
    <3> QED
      BY <3>3 DEF Holds, Shown
  <2> QED
    BY <1>1, <1>5, <2>1, WriteTypes DEF WriteAnalysisManifest
<1>6. CASE WriteAnalysisReceipt(a)
  <2> DEFINE manifest == product["analysis-manifest.txt"]
             data == [input |-> Fingerprint(manifest), outcome |-> Verdict(analysis[a])]
  <2>1. pc[a] = "analysis-receipt.json"
    BY <1>6 DEF WriteAnalysisReceipt, Writes
  <2>2. "analysis-manifest.txt" \in Names /\ manifest # Absent
    BY <2>1 DEF TypeInv, Names
  <2>3. /\ manifest \in Files
        /\ IF manifest.whole THEN Holds("analysis-manifest.txt", manifest.holds)
                             ELSE manifest.holds = Absent
    BY <2>2 DEF TypeInv, TypeOK, ProgramTypeOK
  <2> HIDE DEF manifest
  <2>4. manifest.whole \in BOOLEAN
    BY <2>3 DEF Files
  <2>5. manifest.holds \in {Absent} \cup Manifests
    BY <2>3, <2>4 DEF Holds, Shown
  <2>6. data \in OutcomeReceipts
    BY <2>4, <2>5, VerdictType DEF OutcomeReceipts, Fingerprint
  <2>7. Holds("analysis-receipt.json", data)
    BY <2>6 DEF Holds, Shown
  <2> USE DEF manifest
  <2>8. Writes(a, "analysis-receipt.json", TRUE, data, "finish")
    BY <1>6 DEF WriteAnalysisReceipt
  <2> HIDE DEF data, manifest
  <2> QED
    BY <1>1, <2>7, <2>8, WriteTypes
<1> QED
  BY <1>2, <1>3, <1>4, <1>5, <1>6 DEF WriterStep

\* The bundle, and what reaches a file of two writers early.
LEMMA BundleTyped ==
    ASSUME TypeInv, NEW a \in Analyzers, WriteBundle(a) \/ Flush(a)
    PROVE  TypeInv'
<1>1. /\ pc \in [Analyzers -> Stages] /\ open \in [Analyzers -> BOOLEAN]
      /\ exit \in [Analyzers -> {"none", "success", "findings", "trouble"}]
      /\ exists \in BOOLEAN
      /\ force \in [Analyzers -> BOOLEAN]
      /\ observed \in [Analyzers -> 0 .. Len(RoleOrder)]
      /\ verified \in [Analyzers -> BOOLEAN]
      /\ command \in [Analyzers -> {"success", "findings", "trouble"}]
      /\ analysis \in [Analyzers -> Analyses]
      /\ overlapped \in BOOLEAN
  BY DEF TypeInv, TypeOK, ProgramTypeOK
<1>2. /\ UNCHANGED <<artifact, receipt, force, observed, verified, command,
                     analysis, open, overlapped>>
  BY DEF WriteBundle, Flush, setting, captureVars, admission
<1>3. open[a] \in BOOLEAN /\ open' = [open EXCEPT ![a] = open[a]]
  BY <1>1, <1>2
<1>4. CASE WriteBundle(a)
  <2>1. /\ pc[a] = "reports" /\ "reports" \in Names
        /\ {"run-model.json", "done"} \subseteq Stages
    BY <1>4 DEF WriteBundle, Names, Listed, Stages
  <2>2. /\ Holds("reports", analysis[a])
    BY <1>1 DEF Holds, Shown
  <2>3. /\ FileOK("reports", Written(a, analysis[a])) /\ FileOK("reports", Mixed)
        /\ FileOK("reports", Ragged(a))
    BY <2>1, <2>2, FilesOK
  <2>4. PICK stage \in {"run-model.json", "done"} :
           /\ pc' = [pc EXCEPT ![a] = stage]
           /\ exit' \in [Analyzers -> {"none", "success", "findings", "trouble"}]
           /\ \/ UNCHANGED <<product, exists>> /\ stage = "done"
              \/ /\ exists' = TRUE
                 /\ \E file : /\ FileOK("reports", file)
                              /\ product' = [product EXCEPT !["reports"] = file]
    BY <1>1, <1>4, <2>3 DEF WriteBundle, Goto, Trouble
  <2>5. ~open[a]
    BY <2>1 DEF TypeInv
  <2>6. /\ stage \in Stages /\ stage # "verify_artifact"
        /\ stage # "analysis-receipt.json" /\ "done" \notin Writing
    BY <2>1 DEF Writing, Names, Listed
  <2>7. /\ exists' \in BOOLEAN
        /\ exists => exists'
        /\ stage \in Writing => exists'
        /\ \/ UNCHANGED product
           \/ \E n \in Names : \E file :
                 FileOK(n, file) /\ product' = [product EXCEPT ![n] = file] /\ exists'
    <3> HIDE DEF FileOK
    <3>1. CASE UNCHANGED <<product, exists>> /\ stage = "done"
      BY <1>1, <2>6, <3>1
    <3>2. CASE /\ exists' = TRUE
               /\ \E file : /\ FileOK("reports", file)
                            /\ product' = [product EXCEPT !["reports"] = file]
      BY <2>1, <3>2
    <3> QED
      BY <2>4, <3>1, <3>2
  <2>8. open' = [open EXCEPT ![a] = FALSE]
    BY <1>3, <2>5
  <2>9. /\ analysis' \in [Analyzers -> Analyses]
        /\ observed' \in [Analyzers -> 0 .. Len(RoleOrder)]
        /\ verified' \in [Analyzers -> BOOLEAN] /\ force' \in [Analyzers -> BOOLEAN]
        /\ command' \in [Analyzers -> {"success", "findings", "trouble"}]
        /\ overlapped' \in BOOLEAN /\ UNCHANGED <<artifact, receipt>>
    BY <1>1, <1>2
  <2> HIDE DEF Mixed
  <2> QED
    BY <2>4, <2>6, <2>7, <2>8, <2>9, TypesKept
<1>5. CASE Flush(a)
  <2>1. /\ pc[a] \in Names \ {"reports"} /\ pc[a] \in Writing /\ exists
        /\ product' = [product EXCEPT ![pc[a]] = Mixed]
        /\ UNCHANGED <<exists, pc, exit>>
    BY <1>5 DEF Flush, TypeInv, AtWork, Writing
  <2>2. /\ pc[a] \in Stages /\ pc' = [pc EXCEPT ![a] = pc[a]]
        /\ pc[a] # "verify_artifact" /\ "analysis-manifest.txt" \in Names
    BY <1>1, <2>1 DEF Names, Listed
  <2>3. FileOK(pc[a], Mixed)
    BY <2>1, FilesOK
  <2>4. pc[a] = "analysis-receipt.json" => product'["analysis-manifest.txt"] # Absent
    BY <2>1, <2>2 DEF TypeInv, TypeOK, ProgramTypeOK
  <2> HIDE DEF Mixed
  <2> QED
    BY <1>1, <1>2, <1>3, <2>1, <2>2, <2>3, <2>4, TypesKept
<1> QED
  BY <1>4, <1>5

\* The steps before the output directory.
LEMMA AdmissionTyped ==
    ASSUME TypeInv, NEW a \in Analyzers,
           Start(a) \/ VerifyCapture(a) \/ VerifyArtifact(a) \/ VerifyDone(a)
    PROVE  TypeInv'
<1>1. /\ pc \in [Analyzers -> Stages]
      /\ exit \in [Analyzers -> {"none", "success", "findings", "trouble"}]
      /\ force \in [Analyzers -> BOOLEAN]
      /\ observed \in [Analyzers -> 0 .. Len(RoleOrder)]
      /\ verified \in [Analyzers -> BOOLEAN]
      /\ command \in [Analyzers -> {"success", "findings", "trouble"}]
      /\ analysis \in [Analyzers -> Analyses]
      /\ overlapped \in BOOLEAN
  BY DEF TypeInv, TypeOK, ProgramTypeOK
<1>2. /\ {"verify_capture", "verify_artifact", "ingest_resources", "done"}
            \subseteq Stages \ Writing
      /\ {"start", "verify_capture", "verify_artifact"} \cap Names = {}
  BY DEF Stages, Writing, Names, Listed
<1>3. pc[a] \in {"start", "verify_capture", "verify_artifact"} /\ ~open[a]
  <2>1. pc[a] \in {"start", "verify_capture", "verify_artifact"}
    BY DEF Start, VerifyCapture, VerifyArtifact, VerifyDone
  <2> QED
    BY <1>2, <2>1 DEF TypeInv
<1>4. UNCHANGED <<artifact, receipt, product, exists, open, analysis>>
  BY DEF Start, VerifyCapture, VerifyArtifact, VerifyDone, setting, captureVars
<1>5. ASSUME NEW stage \in {"verify_capture", "verify_artifact",
                            "ingest_resources", "done"},
             pc' = [pc EXCEPT ![a] = stage],
             stage = "verify_artifact" => receipt # Absent,
             force' \in [Analyzers -> BOOLEAN],
             observed' \in [Analyzers -> 0 .. Len(RoleOrder)],
             verified' \in [Analyzers -> BOOLEAN],
             command' \in [Analyzers -> {"success", "findings", "trouble"}],
             exit' \in [Analyzers -> {"none", "success", "findings", "trouble"}],
             overlapped' \in BOOLEAN
      PROVE  TypeInv'
  <2>1. stage \in Stages /\ stage \notin Writing
    BY <1>2
  <2> QED
    BY <1>1, <1>3, <1>4, <1>5, <2>1, TypesStand
<1>6. ASSUME NEW stage, Goto(a, stage)
      PROVE  /\ pc' = [pc EXCEPT ![a] = stage]
             /\ exit' \in [Analyzers -> {"none", "success", "findings", "trouble"}]
  BY <1>1, <1>6 DEF Goto
<1>7. ASSUME Trouble(a)
      PROVE  /\ pc' = [pc EXCEPT ![a] = "done"]
             /\ exit' \in [Analyzers -> {"none", "success", "findings", "trouble"}]
  BY <1>1, <1>7 DEF Trouble
<1>8. ASSUME VerifyFails(a)
      PROVE  \E stage \in {"ingest_resources", "done"} :
                /\ pc' = [pc EXCEPT ![a] = stage]
                /\ exit' \in [Analyzers -> {"none", "success", "findings", "trouble"}]
  BY <1>6, <1>7, <1>8 DEF VerifyFails
<1>9. CASE Start(a)
  <2>1. /\ UNCHANGED <<observed, verified, command>>
        /\ force' \in [Analyzers -> BOOLEAN]
    BY <1>1, <1>9 DEF Start
  <2>2. CASE GoOn(a)
    <3>1. Goto(a, "verify_capture") /\ overlapped' \in BOOLEAN
      BY <1>1, <2>2 DEF GoOn
    <3> QED
      BY <1>1, <1>5, <1>6, <2>1, <3>1
  <2>3. CASE Trouble(a) /\ UNCHANGED overlapped
    BY <1>1, <1>5, <1>7, <2>1, <2>3
  <2> QED
    BY <1>9, <2>2, <2>3 DEF Start
<1>10. CASE VerifyCapture(a)
  <2>1. UNCHANGED <<force, observed, verified, overlapped>>
    BY <1>10 DEF VerifyCapture, setting
  <2>2. CASE /\ receipt # Absent
             /\ command' = [command EXCEPT ![a] = CommandStatus(receipt.status)]
             /\ Goto(a, "verify_artifact")
    <3>1. CommandStatus(receipt.status) \in {"success", "findings", "trouble"}
      BY <2>2 DEF TypeInv, TypeOK, ProgramTypeOK, Receipts, Statuses, CommandStatus
    <3>2. command' \in [Analyzers -> {"success", "findings", "trouble"}]
      BY <1>1, <2>2, <3>1
    <3> QED
      BY <1>1, <1>5, <1>6, <2>1, <2>2, <3>2
  <2>3. CASE VerifyFails(a) /\ UNCHANGED command
    BY <1>1, <1>5, <1>8, <2>1, <2>3
  <2> QED
    BY <1>10, <2>2, <2>3 DEF VerifyCapture
<1>11. CASE VerifyArtifact(a)
  <2>1. UNCHANGED <<force, verified, command, overlapped>>
    BY <1>11 DEF VerifyArtifact, setting
  <2>2. /\ pc[a] = "verify_artifact" /\ receipt # Absent
        /\ observed[a] < Len(receipt.lines)
    BY <1>11 DEF VerifyArtifact, TypeInv
  <2>3. CASE /\ observed' = [observed EXCEPT ![a] = @ + 1]
             /\ UNCHANGED <<pc, exit>>
    <3>1. receipt.lines \in Seq(Lines) /\ Len(receipt.lines) <= 7
      BY <2>2 DEF TypeInv, TypeOK, ProgramTypeOK, Receipts
    <3>2. Len(receipt.lines) \in Nat /\ Len(RoleOrder) = 7 /\ observed[a] \in Nat
      BY <1>1, <3>1, RoleOrderType, LenProperties
    <3>3. observed[a] + 1 \in 0 .. Len(RoleOrder)
      BY <2>2, <3>1, <3>2
    <3>4. observed' \in [Analyzers -> 0 .. Len(RoleOrder)]
      BY <1>1, <2>3, <3>3
    <3>5. pc' = [pc EXCEPT ![a] = "verify_artifact"]
      BY <1>1, <2>2, <2>3
    <3> QED
      BY <1>1, <1>5, <2>1, <2>2, <2>3, <3>4, <3>5
  <2>4. CASE VerifyFails(a) /\ UNCHANGED observed
    BY <1>1, <1>5, <1>8, <2>1, <2>4
  <2> QED
    BY <1>11, <2>3, <2>4 DEF VerifyArtifact
<1>12. CASE VerifyDone(a)
  <2>1. UNCHANGED <<force, observed, command, overlapped>>
    BY <1>12 DEF VerifyDone, setting
  <2>2. CASE verified' = [verified EXCEPT ![a] = TRUE] /\ Goto(a, "ingest_resources")
    <3>1. verified' \in [Analyzers -> BOOLEAN]
      BY <1>1, <2>2
    <3> QED
      BY <1>1, <1>5, <1>6, <2>1, <2>2, <3>1
  <2>3. CASE VerifyFails(a) /\ UNCHANGED verified
    BY <1>1, <1>5, <1>8, <2>1, <2>3
  <2> QED
    BY <1>12, <2>2, <2>3 DEF VerifyDone
<1> QED
  BY <1>9, <1>10, <1>11, <1>12

\* The reads, the return and the end of an invocation.
LEMMA RestTyped ==
    ASSUME TypeInv, NEW a \in Analyzers,
           \/ IngestResources(a) \/ IngestCalls(a) \/ RunAnalysis(a)
           \/ FinishAnalyze(a) \/ Crash(a)
    PROVE  TypeInv'
<1>1. /\ exit \in [Analyzers -> {"none", "success", "findings", "trouble"}]
      /\ analysis \in [Analyzers -> Analyses]
      /\ UNCHANGED <<artifact, receipt, product, exists, open, force, observed,
                     verified, command, overlapped>>
  BY DEF IngestResources, IngestCalls, RunAnalysis, Reads, FinishAnalyze, Crash,
     setting, captureVars, admission, TypeInv, TypeOK, ProgramTypeOK
<1>2. /\ {"ingest_calls", "run", "reports", "done", "crashed"} \subseteq Stages \ Writing
      /\ {"ingest_resources", "ingest_calls", "run", "finish"} \cap Names = {}
  BY DEF Stages, Writing, Names, Listed
<1>3. ASSUME NEW stage \in {"ingest_calls", "run", "reports", "done", "crashed"},
             pc' = [pc EXCEPT ![a] = stage],
             analysis' \in [Analyzers -> Analyses],
             exit' \in [Analyzers -> {"none", "success", "findings", "trouble"}],
             open[a] => stage = "crashed"
      PROVE  TypeInv'
  <2>1. stage \in Stages /\ stage \notin Writing /\ stage # "verify_artifact"
    BY <1>2
  <2>2. /\ force' \in [Analyzers -> BOOLEAN]
        /\ observed' \in [Analyzers -> 0 .. Len(RoleOrder)]
        /\ verified' \in [Analyzers -> BOOLEAN]
        /\ command' \in [Analyzers -> {"success", "findings", "trouble"}]
        /\ overlapped' \in BOOLEAN
    BY <1>1 DEF TypeInv, TypeOK, ProgramTypeOK
  <2> QED
    BY <1>1, <1>3, <2>1, <2>2, TypesStand
<1>4. ASSUME NEW r \in Inputs, NEW next \in {"ingest_calls", "run", "reports"},
             pc[a] \in {"ingest_resources", "ingest_calls", "run"}, Reads(a, r, next)
      PROVE  TypeInv'
  <2>1. ~open[a]
    BY <1>2, <1>4 DEF TypeInv
  <2>2. [analysis EXCEPT ![a][r] = artifact[r]] \in [Analyzers -> Analyses]
    BY ReadType DEF TypeInv, TypeOK
  <2>3. \E stage \in {next, "done"} :
           /\ pc' = [pc EXCEPT ![a] = stage]
           /\ analysis' \in [Analyzers -> Analyses]
           /\ exit' \in [Analyzers -> {"none", "success", "findings", "trouble"}]
    BY <1>1, <1>4, <2>2 DEF Reads, Goto, Trouble
  <2> QED
    BY <1>3, <2>1, <2>3
<1>5. {"resources", "calls", "stderr"} \subseteq Inputs
  BY DEF Inputs
<1>6. CASE IngestResources(a)
  BY <1>4, <1>5, <1>6 DEF IngestResources
<1>7. CASE IngestCalls(a)
  BY <1>4, <1>5, <1>7 DEF IngestCalls
<1>8. CASE RunAnalysis(a)
  BY <1>4, <1>5, <1>8 DEF RunAnalysis
<1>9. CASE FinishAnalyze(a)
  <2>1. ~open[a]
    BY <1>2, <1>9 DEF TypeInv, FinishAnalyze
  <2>2. /\ pc' = [pc EXCEPT ![a] = "done"] /\ UNCHANGED analysis
        /\ exit' \in [Analyzers -> {"none", "success", "findings", "trouble"}]
    BY <1>1, <1>9, VerdictType DEF FinishAnalyze
  <2> QED
    BY <1>1, <1>3, <2>1, <2>2
<1>10. CASE Crash(a)
  BY <1>1, <1>3, <1>10 DEF Crash
<1> QED
  BY <1>6, <1>7, <1>8, <1>9, <1>10

\* Every step keeps it, and it holds initially.
LEMMA TypeInvNext == TypeInv /\ [Next]_vars => TypeInv'
<1> SUFFICES ASSUME TypeInv, [Next]_vars PROVE TypeInv'
  OBVIOUS
<1>1. ASSUME NEW a \in Analyzers, Step(a) \/ Crash(a) PROVE TypeInv'
  BY <1>1, AdmissionTyped, RestTyped, BundleTyped, WritersTyped DEF Step, WriterStep
<1>2. ASSUME NEW role \in Outputs, LateWrite(role) PROVE TypeInv'
  <2>1. /\ UNCHANGED <<receipt, product, exists, pc, force, observed, verified,
                       command, analysis, open, exit, overlapped>>
        /\ artifact' \in [Roles -> Content \cup {Absent}]
    BY <1>2, LateGrows DEF TypeInv, TypeOK, LateWrite
  <2> QED
    BY <2>1 DEF TypeInv, TypeOK, ProgramTypeOK
<1>3. CASE UNCHANGED vars
  BY <1>3 DEF vars, captureVars, admission, TypeInv, TypeOK, ProgramTypeOK
<1> QED
  BY <1>1, <1>2, <1>3 DEF Next, Terminating

LEMMA TypeInit == Init => TypeInv
<1> SUFFICES ASSUME Init PROVE TypeInv
  OBVIOUS
<1>1. IInv /\ overlapped = FALSE
  BY InitHolds DEF Init
<1>2. /\ \A n \in Names : product[n] = Absent
      /\ \A a \in Analyzers : pc[a] = "start" /\ open[a] = FALSE
  BY DEF Init
<1>3. "start" \notin Writing
  BY DEF Writing, Names, Listed
<1> QED
  BY <1>1, <1>2, <1>3 DEF TypeInv, TypeOK, IInv, ReceiptRead

\* What was said of the types and the files holds for any number of analyses.
THEOREM TypeInvariance == Spec => []TypeInv
BY TypeInit, TypeInvNext, PTL DEF Spec

\* The types hold for any number of analyses, whether or not they overlap.
THEOREM TypeCorrect == Spec => []TypeOK
<1>1. TypeInv => TypeOK
  BY DEF TypeInv
<1> QED
  BY <1>1, TypeInvariance, PTL

\* What the reader accepts has a receipt written to its end, so one author.
LEMMA AcceptedOne ==
    ASSUME IInv, AnalysisResult
    PROVE  \E a \in Analyzers :
              /\ \A n \in Names : IsWhole(n) /\ product[n].by = a
              /\ \A n \in Shown : product[n].holds = analysis[a]
              /\ product["summary.md"].holds.result = Verdict(analysis[a])
              /\ Outcome = Verdict(analysis[a])
<1>1. IsWhole("analysis-receipt.json")
  BY DEF AnalysisResult
<1>2. PICK a \in Analyzers : \A n \in Names : IsWhole(n) /\ product[n].by = a
  BY <1>1 DEF IInv, OneAuthor
<1>3. \A n \in Names : Right(a, n, product[n].holds)
  BY <1>2 DEF IInv, Products
<1>4. Shown \subseteq Names /\ {"summary.md", "analysis-receipt.json"} \subseteq Names
  BY DEF Shown, Names, Listed
<1> QED
  BY <1>2, <1>3, <1>4 DEF Right, Outcome

\* What analysis_result accepts is one analysis, written to its end, unless
\* invocations overlapped.
THEOREM AcceptedIsOneAnalysisHolds == Spec => []AcceptedIsOneAnalysis
<1>1. (~overlapped => IInv) => AcceptedIsOneAnalysis
  BY AcceptedOne DEF AcceptedIsOneAnalysis
<1> QED
  BY <1>1, Invariance, PTL

\* What was copied is what was read, if no process outlives the capture.
LEMMA ReplayedAgrees ==
    ASSUME IInv, ~Lingering, AnalysisResult
    PROVE  Verdict(Replayed) = Outcome
<1>1. PICK a \in Analyzers :
         /\ \A n \in Names : IsWhole(n) /\ product[n].by = a
         /\ Outcome = Verdict(analysis[a])
  BY AcceptedOne
<1>2. \A r \in Inputs : product[Copies[r]].holds = analysis[a][r]
  <2>1. /\ IsWhole("analysis-receipt.json")
        /\ product["analysis-receipt.json"].by = a
    BY <1>1 DEF Names
  <2> QED
    BY <1>1, <2>1, CopiesFacts DEF IInv, Quiet
<1>3. analysis[a] = [r \in Inputs |-> analysis[a][r]]
  BY DEF IInv, ProgramTypeOK, Analyses
<1>4. Replayed = analysis[a]
  BY <1>2, <1>3 DEF Replayed
<1> QED
  BY <1>1, <1>4

\* load_analysis_directory recomputes the outcome the receipt states, if no
\* process outlives the capture and no invocations overlapped.
THEOREM ReplayAgreesHolds == ~Lingering => (Spec => []ReplayAgrees)
<1>1. ASSUME ~Lingering PROVE (~overlapped => IInv) => ReplayAgrees
  BY <1>1, ReplayedAgrees DEF ReplayAgrees
<1>2. ASSUME ~Lingering PROVE Spec => []ReplayAgrees
  BY <1>1, <1>2, Invariance, PTL
<1> QED
  BY <1>2

\* The fingerprint taken by verify_artifact lies before what was read and
\* copied, the present file behind: if it still matches, so do those between.
LEMMA VerifiedSealed ==
    ASSUME IInv, NEW a \in Analyzers, verified[a], AnalysisResult,
           product["summary.md"].by = a, NEW r \in Inputs
    PROVE  \E i \in DOMAIN receipt.lines :
              /\ receipt.lines[i].role = r
              /\ \/ ~Matches(artifact, receipt.lines[i])
                 \/ /\ Bytes(r, product[Copies[r]].holds) = receipt.lines[i].print
                    /\ Bytes(r, analysis[a][r]) = receipt.lines[i].print
<1> DEFINE read == analysis[a][r]
           copy == product[Copies[r]].holds
           now  == artifact[r]
<1>1. IsWhole(Copies[r]) /\ product[Copies[r]].by = a
  <2>1. PICK b \in Analyzers : \A n \in Names : IsWhole(n) /\ product[n].by = b
    BY AcceptedOne
  <2>2. "summary.md" \in Names /\ Copies[r] \in Names
    BY CopiesFacts DEF Names, Listed
  <2> QED
    BY <2>1, <2>2
<1>2. /\ copy \in Content /\ now # Absent /\ Grown(copy, now)
      /\ read # Absent /\ Grown(read, copy)
  BY <1>1 DEF IInv, Products, CopyRight
<1>3. read \in Content /\ now \in Content
  BY <1>2, CopiesFacts DEF IInv, ProgramTypeOK, Analyses
<1>4. PICK i \in DOMAIN receipt.lines : receipt.lines[i].role = r /\ SealsUpTo(i, read)
  BY <1>2 DEF IInv, Seals, Sealing
<1>5. PICK old \in Content :
         receipt.lines[i].print = Bytes(r, old) /\ Grown(old, read)
  BY <1>4 DEF SealsUpTo
<1>6. ASSUME Matches(artifact, receipt.lines[i])
      PROVE  /\ Bytes(r, copy) = receipt.lines[i].print
             /\ Bytes(r, read) = receipt.lines[i].print
  <2>1. Bytes(r, old) = Bytes(r, now) /\ r \in Roles
    BY <1>4, <1>5, <1>6, CopiesFacts DEF Matches
  <2>2. Grown(old, copy) /\ Grown(read, now)
    BY <1>2, <1>5, GrownTransitive
  <2>3. Bytes(r, copy) = Bytes(r, old)
    BY <1>2, <1>3, <2>1, <2>2, FingerprintBetween
  <2>4. Bytes(r, read) = Bytes(r, old)
    BY <1>3, <1>5, <2>1, <2>2, FingerprintBetween
  <2> QED
    BY <1>5, <2>3, <2>4
<1> QED
  BY <1>4, <1>6

\* If the capture still matches its receipt, what was copied has the bytes that
\* are there now, and gives the verdict of what was analyzed, late writer or not.
LEMMA AcceptedReplays ==
    ASSUME IInv, AnalysisResult, NEW a \in Analyzers, verified[a],
           product["summary.md"].by = a, Accepts(artifact, receipt)
    PROVE  /\ \A r \in Inputs :
                 Bytes(r, product[Copies[r]].holds) = Bytes(r, artifact[r])
           /\ Verdict(Replayed) = Outcome
<1>1. PICK b \in Analyzers :
         /\ \A n \in Names : IsWhole(n) /\ product[n].by = b
         /\ Outcome = Verdict(analysis[b])
  BY AcceptedOne
<1>2. b = a
  BY <1>1 DEF Names, Listed
<1>3. ASSUME NEW r \in Inputs
      PROVE  /\ product[Copies[r]].holds \in Content
             /\ analysis[a][r] \in Content /\ artifact[r] \in Content
             /\ Bytes(r, product[Copies[r]].holds) = Bytes(r, artifact[r])
             /\ Bytes(r, analysis[a][r]) = Bytes(r, artifact[r])
  <2>1. PICK i \in DOMAIN receipt.lines :
           /\ receipt.lines[i].role = r
           /\ \/ ~Matches(artifact, receipt.lines[i])
              \/ /\ Bytes(r, product[Copies[r]].holds) = receipt.lines[i].print
                 /\ Bytes(r, analysis[a][r]) = receipt.lines[i].print
    BY VerifiedSealed
  <2>2. Matches(artifact, receipt.lines[i])
    BY <2>1 DEF Accepts
  <2>3. receipt.lines[i].print = Bytes(r, artifact[r])
    BY <2>1, <2>2 DEF Matches
  <2>4. Copies[r] \in Names
    BY CopiesFacts
  <2>5. CopyRight(a, r, product[Copies[r]].holds)
    BY <1>1, <1>2, <2>4 DEF IInv, Products
  <2>6. analysis[a][r] \in Content /\ artifact[r] \in Content
    BY <2>5, CopiesFacts DEF CopyRight, IInv, ProgramTypeOK, Analyses
  <2> QED
    BY <2>1, <2>2, <2>3, <2>5, <2>6 DEF CopyRight
<1>4. ASSUME NEW r \in Inputs
      PROVE  /\ Replayed[r] # Absent <=> analysis[a][r] # Absent
             /\ Replayed[r].chunks # {} <=> analysis[a][r].chunks # {}
  <2>1. Replayed[r] = product[Copies[r]].holds
    BY DEF Replayed
  <2>2. /\ Replayed[r] \in Content /\ analysis[a][r] \in Content
        /\ Bytes(r, Replayed[r]) = Bytes(r, analysis[a][r])
    BY <1>3, <2>1
  <2> HIDE DEF Replayed
  <2>3. Replayed[r].chunks # {} <=> analysis[a][r].chunks # {}
    BY <2>2, FingerprintShowsWhetherEmpty, CopiesFacts
  <2> QED
    BY <2>2, <2>3, AbsentAssumption
<1>5. Verdict(Replayed) = Verdict(analysis[a])
  BY <1>4, FlaggedAssumption DEF Verdict
<1> QED
  BY <1>1, <1>2, <1>3, <1>5

\* An analysis that verified its capture is of the sealed bytes, or the capture
\* no longer matches its receipt, unless invocations overlapped.
THEOREM VerifiedMeansSealedHolds == Spec => []VerifiedMeansSealed
<1>1. (~overlapped => IInv) => VerifiedMeansSealed
  BY VerifiedSealed DEF VerifiedMeansSealed
<1> QED
  BY <1>1, Invariance, PTL

\* As long as the receipt is written to its end nobody writes.
LEMMA AcceptedStays == IInv /\ [Next]_vars => [AnalysisResult => UNCHANGED product]_vars
<1> SUFFICES ASSUME IInv, [Next]_vars, AnalysisResult PROVE UNCHANGED product
  OBVIOUS
<1>1. /\ IsWhole("analysis-receipt.json")
      /\ "analysis-receipt.json" \in Names /\ Rank("analysis-receipt.json") = 9
  BY RankFacts DEF AnalysisResult, Names
<1>2. ASSUME NEW a \in Analyzers, WriterStep(a) PROVE FALSE
  <2>0. PICK name \in Names \ {"reports"}, next \in Writing : \E data :
            WriteOutcome(a, name, data, next)
    BY <1>2, WriterOutcome
  <2>1. PICK data : WriteOutcome(a, name, data, next)
    BY <2>0
  <2>2. pc[a] = name /\ name \in Writing /\ Rank(name) \in 1 .. 10 /\ Rank(name) < 10
    BY <2>1, RankFacts DEF WriteOutcome, Writing
  <2>3. CASE Rank(name) < 9
    BY <1>1, <2>2, <2>3 DEF IInv, Progress, IsWhole
  <2>4. CASE Rank(name) = 9
    <3>1. name = "analysis-receipt.json"
      BY <1>1, <2>4, RankFacts
    <3>2. product[name] \in {Ragged(a), Absent}
      BY <2>2, <3>1 DEF IInv, Progress
    <3> QED
      BY <1>1, <3>1, <3>2 DEF IsWhole, Ragged
  <2> QED
    BY <2>2, <2>3, <2>4
<1>3. ASSUME NEW a \in Analyzers, WriteBundle(a) PROVE FALSE
  <2>1. pc[a] \in Preparing
    BY <1>3 DEF WriteBundle, Preparing
  <2> QED
    BY <1>1, <2>1, Prepared DEF IInv, Untouched, IsWhole
<1>4. ASSUME NEW a \in Analyzers, Step(a) PROVE UNCHANGED product
  BY <1>2, <1>3, <1>4, FlushesOwn DEF Step, WriterStep, Start, VerifyCapture, VerifyArtifact,
     VerifyDone, IngestResources, IngestCalls, RunAnalysis, Reads, FinishAnalyze
<1> QED
  BY <1>4 DEF Next, Crash, LateWrite, Terminating, vars

\* Where there are products there is a directory, and nobody gets past lstat;
\* whoever is at rest writes nothing.
LEMMA RestStays ==
    ASSUME TypeInv, [Next]_vars, AnalysisResult, Idle
    PROVE  UNCHANGED product /\ Idle'
<1>1. exists
  <2>1. "analysis-receipt.json" \in Names
    BY DEF Names
  <2> QED
    BY <2>1 DEF TypeInv, AnalysisResult, IsWhole
<1>2. ASSUME NEW a \in Analyzers, Start(a) PROVE UNCHANGED product /\ Idle'
  <2>1. Trouble(a) /\ UNCHANGED product
    BY <1>1, <1>2 DEF Start
  <2> QED
    BY <2>1 DEF Trouble, Idle, AtWork, TypeInv, TypeOK, ProgramTypeOK
<1>3. ASSUME NEW a \in Analyzers, Step(a) PROVE Start(a)
  <2>1. pc[a] \in {"start", "done", "crashed"}
    BY DEF Idle, AtWork
  <2>2. ~WriterStep(a)
    BY <2>1, CopiesFacts DEF WriterStep, WriteModelFile, CopyAnalysisInputs,
       CopyInput, WriteFindingIndex, WriteAnalysisSummary, WriteAnalysisManifest,
       WriteAnalysisReceipt, Writes, Names, Listed, Inputs
  <2>3. ~Flush(a)
    BY <2>1 DEF Flush, AtWork
  <2>4. ~VerifyCapture(a) /\ ~VerifyArtifact(a) /\ ~VerifyDone(a)
    BY <2>1 DEF VerifyCapture, VerifyArtifact, VerifyDone
  <2>5. /\ ~IngestResources(a) /\ ~IngestCalls(a) /\ ~RunAnalysis(a)
        /\ ~WriteBundle(a) /\ ~FinishAnalyze(a)
    BY <2>1 DEF IngestResources, IngestCalls, RunAnalysis, WriteBundle, FinishAnalyze
  <2> QED
    BY <1>3, <2>2, <2>3, <2>4, <2>5 DEF Step, WriterStep
<1>4. ASSUME NEW a \in Analyzers PROVE ~Crash(a)
  BY DEF Crash, Idle
<1>5. CASE UNCHANGED <<product, pc>>
  BY <1>5 DEF Idle, AtWork
<1> QED
  BY <1>2, <1>3, <1>4, <1>5 DEF Next, LateWrite, Terminating, vars

\* Without overlap no later step changes an analysis that analysis_result
\* accepts; with overlap none does that finds every invocation at rest, and
\* none gets to work again.
THEOREM AcceptedIsFinalHolds == Spec => AcceptedIsFinal
<1>1. (~overlapped => IInv) /\ TypeInv /\ [Next]_vars =>
         [AnalysisResult => /\ ~overlapped => UNCHANGED product
                            /\ Idle => UNCHANGED product /\ Idle']_vars
  BY AcceptedStays, RestStays
<1> QED
  BY <1>1, Invariance, TypeInvariance, PTL DEF Spec, AcceptedIsFinal

\* Only the last step of analyze_command returns zero or one.
LEMMA OnlyFinishReturns ==
    ASSUME IInv, [Next]_vars, NEW a \in Analyzers,
           exit[a] = "none", exit'[a] \in {"success", "findings"}
    PROVE  FinishAnalyze(a)
<1>1. exit'[a] # exit[a] /\ exit'[a] # "trouble"
  OBVIOUS
<1>2. ASSUME NEW b \in Analyzers, NEW x, exit' = [exit EXCEPT ![b] = x],
             b # a \/ x = "trouble"
      PROVE  FALSE
  BY <1>1, <1>2 DEF IInv, ProgramTypeOK
<1>3. UNCHANGED exit => FALSE
  BY <1>1
<1>4. ASSUME NEW b \in Analyzers, Trouble(b) PROVE FALSE
  BY <1>2, <1>4 DEF Trouble
<1>5. ASSUME NEW b \in Analyzers, NEW stage, Goto(b, stage) PROVE FALSE
  BY <1>3, <1>5 DEF Goto
<1>6. ASSUME NEW b \in Analyzers, VerifyFails(b) PROVE FALSE
  BY <1>4, <1>5, <1>6 DEF VerifyFails
<1>7. ASSUME NEW b \in Analyzers, NEW name, NEW readable, NEW data, NEW next,
             Writes(b, name, readable, data, next)
      PROVE  FALSE
  BY <1>3, <1>4, <1>5, <1>7 DEF Writes, Opens, Closes
<1>8. ASSUME NEW b \in Analyzers, WriterStep(b) PROVE FALSE
  BY <1>7, <1>8 DEF WriterStep, WriteModelFile, CopyAnalysisInputs, CopyInput,
     WriteFindingIndex, WriteAnalysisSummary, WriteAnalysisManifest,
     WriteAnalysisReceipt
<1>9. ASSUME NEW b \in Analyzers, Step(b), ~FinishAnalyze(b) PROVE FALSE
  <2>1. CASE Start(b)
    BY <1>4, <1>5, <2>1 DEF Start, GoOn
  <2>2. CASE VerifyCapture(b) \/ VerifyArtifact(b) \/ VerifyDone(b)
    BY <1>3, <1>5, <1>6, <2>2 DEF VerifyCapture, VerifyArtifact, VerifyDone
  <2>3. CASE IngestResources(b) \/ IngestCalls(b) \/ RunAnalysis(b)
    BY <1>4, <1>5, <2>3 DEF IngestResources, IngestCalls, RunAnalysis, Reads
  <2>4. CASE WriteBundle(b)
    BY <1>4, <1>5, <2>4 DEF WriteBundle
  <2>5. CASE Flush(b)
    BY <1>3, <2>5 DEF Flush
  <2> QED
    BY <1>8, <1>9, <2>1, <2>2, <2>3, <2>4, <2>5 DEF Step, WriterStep
<1>10. ASSUME NEW b \in Analyzers, FinishAnalyze(b) PROVE b = a
  <2>1. exit' = [exit EXCEPT ![b] = IF command[b] = "findings" THEN "findings"
                                                  ELSE Verdict(analysis[b])]
    BY <1>10 DEF FinishAnalyze
  <2> QED
    BY <1>2, <2>1
<1> QED
  BY <1>3, <1>9, <1>10 DEF Next, Crash, LateWrite, Terminating, vars

\* At that step the directory is complete, and bound to its receipt.
LEMMA FinishedIsAccepted ==
    ASSUME IInv, NEW a \in Analyzers, FinishAnalyze(a)
    PROVE  /\ AnalysisResult' /\ Outcome' = Verdict(analysis[a])
           /\ exit'[a] = IF command[a] = "findings" THEN "findings"
                                                    ELSE Verdict(analysis[a])
<1>1. pc[a] = "finish" /\ pc[a] \in Writing /\ UNCHANGED product
  BY DEF FinishAnalyze, Writing
<1>2. \A n \in Names : IsWhole(n) /\ product[n].by = a
  BY <1>1, RankFacts DEF IInv, Progress
<1>3. /\ "analysis-receipt.json" \in Names /\ "analysis-manifest.txt" \in Names
      /\ Listed \subseteq Names
  BY DEF Names
<1>4. AnalysisResult
  BY <1>2, <1>3 DEF IInv, Bound, AnalysisResult, IsWhole
<1>5. Right(a, "analysis-receipt.json", product["analysis-receipt.json"].holds)
  BY <1>2, <1>3 DEF IInv, Products
<1>6. Outcome = Verdict(analysis[a])
  BY <1>5 DEF Right, Outcome
<1>7. exit'[a] = IF command[a] = "findings" THEN "findings"
                                            ELSE Verdict(analysis[a])
  BY DEF FinishAnalyze, IInv, ProgramTypeOK
<1>8. AnalysisResult' /\ Outcome' = Outcome
  BY <1>1, <1>4 DEF AnalysisResult, Outcome, IsWhole
<1> QED
  BY <1>6, <1>7, <1>8

\* The status analyze_command returns is of the evidence it leaves.
LEMMA ExitsMatch ==
    ASSUME IInv, [Next]_vars, NEW a \in Analyzers,
           exit[a] = "none", exit'[a] \in {"success", "findings"}
    PROVE  /\ AnalysisResult'
           /\ verified[a] =>
                 (exit'[a] = "findings" <=>
                     Outcome' = "findings" \/ receipt.status = "exitN")
<1>1. /\ AnalysisResult' /\ Outcome' = Verdict(analysis[a])
      /\ exit'[a] = IF command[a] = "findings" THEN "findings"
                                               ELSE Verdict(analysis[a])
  BY OnlyFinishReturns, FinishedIsAccepted
<1>2. ASSUME verified[a]
      PROVE  command[a] = "findings" <=> receipt.status = "exitN"
  <2>1. receipt # Absent /\ command[a] = CommandStatus(receipt.status)
    BY <1>2 DEF IInv, ReceiptRead
  <2>2. receipt.status \in Statuses
    BY <2>1 DEF IInv, ProgramTypeOK, Receipts
  <2>3. /\ CommandStatus("exit0") = "success" /\ CommandStatus("exitN") = "findings"
        /\ CommandStatus("signal") = "trouble"
    BY DEF CommandStatus
  <2> QED
    BY <2>1, <2>2, <2>3 DEF Statuses
<1> QED
  BY <1>1, <1>2, VerdictType

\* Without overlap, exit zero and one leave accepted evidence, and one says there are findings,
\* of the policy or of a command that exited nonzero.
THEOREM ExitMatchesEvidenceHolds == Spec => ExitMatchesEvidence
<1> DEFINE Match ==
       \A a \in Analyzers :
          ~overlapped /\ exit[a] = "none" /\ exit'[a] \in {"success", "findings"} =>
              /\ AnalysisResult'
              /\ verified[a] =>
                    (exit'[a] = "findings" <=>
                        Outcome' = "findings" \/ receipt.status = "exitN")
<1>1. (~overlapped => IInv) /\ [Next]_vars => [Match]_vars
  BY ExitsMatch
<1> QED
  BY <1>1, Invariance, PTL DEF Spec, ExitMatchesEvidence

-----------------------------------------------------------------------------
(* What nobody forced.                                                     *)

\* Past the verification, an invocation without --force is verified.
Unforced ==
    \A a \in Analyzers :
        pc[a] \notin Verifying \cup {"start", "done", "crashed"} =>
            verified[a] \/ force[a]

LEMMA UnforcedKept ==
    ASSUME ProgramTypeOK, Unforced, NEW a \in Analyzers, Step(a) \/ Crash(a)
    PROVE  Unforced'
<1> DEFINE After(b) == pc[b] \notin Verifying \cup {"start", "done", "crashed"}
<1> USE DEF Verifying
<1>1. ASSUME UNCHANGED <<verified, force>>,
             \A b \in Analyzers : After(b)' => After(b)
      PROVE  Unforced'
  BY <1>1 DEF Unforced
<1>2. ASSUME NEW stage, pc' = [pc EXCEPT ![a] = stage],
             UNCHANGED <<verified, force>>,
             stage \in {"done", "crashed"} \/ After(a)
      PROVE  Unforced'
  BY <1>1, <1>2 DEF ProgramTypeOK
<1>3. ASSUME VerifyFails(a), UNCHANGED <<verified, force>>
      PROVE  Unforced'
  <2>1. CASE ~force[a]
    BY <1>2, <1>3, <2>1 DEF VerifyFails, Trouble
  <2>2. CASE force[a]
    BY <1>3, <2>2 DEF VerifyFails, Goto, Unforced, ProgramTypeOK
  <2> QED
    BY <2>1, <2>2
<1>4. CASE Start(a)
  <2>1. /\ \A b \in Analyzers : b # a => pc'[b] = pc[b] /\ force'[b] = force[b]
        /\ pc'[a] \in {"verify_capture", "done"} /\ verified' = verified
    BY <1>4 DEF Start, GoOn, Goto, Trouble, ProgramTypeOK, admission
  <2> QED
    BY <2>1 DEF Unforced
<1>5. CASE VerifyCapture(a)
  <2>1. CASE Goto(a, "verify_artifact")
    <3>1. UNCHANGED <<verified, force>> /\ pc' = [pc EXCEPT ![a] = "verify_artifact"]
      BY <1>5, <2>1 DEF VerifyCapture, Goto
    <3> QED
      BY <1>1, <3>1 DEF ProgramTypeOK
  <2> QED
    BY <1>3, <1>5, <2>1 DEF VerifyCapture
<1>6. CASE VerifyArtifact(a)
  BY <1>1, <1>3, <1>6 DEF VerifyArtifact
<1>7. CASE VerifyDone(a)
  <2>1. CASE /\ verified' = [verified EXCEPT ![a] = TRUE]
             /\ Goto(a, "ingest_resources")
    BY <1>7, <2>1 DEF VerifyDone, Goto, Unforced, ProgramTypeOK
  <2> QED
    BY <1>3, <1>7, <2>1 DEF VerifyDone
<1>8. ASSUME NEW role, NEW next, Reads(a, role, next), After(a)
      PROVE  Unforced'
  BY <1>2, <1>8 DEF Reads, Goto, Trouble, admission
<1>9. CASE IngestResources(a) \/ IngestCalls(a) \/ RunAnalysis(a)
  BY <1>8, <1>9 DEF IngestResources, IngestCalls, RunAnalysis
<1>10. CASE WriteBundle(a)
  BY <1>2, <1>10 DEF WriteBundle, Goto, Trouble, admission
<1>11. ASSUME NEW name, NEW readable, NEW data, NEW next,
              Writes(a, name, readable, data, next), After(a)
       PROVE  Unforced'
  BY <1>1, <1>2, <1>11 DEF Writes, Opens, Closes, Goto, Trouble, admission
<1>12. ASSUME NEW name \in Names, NEW readable, NEW data, NEW next,
              Writes(a, name, readable, data, next)
       PROVE  Unforced'
  <2>1. pc[a] = name
    BY <1>12 DEF Writes
  <2>2. After(a)
    BY <2>1 DEF Names, Listed
  <2> QED
    BY <1>11, <1>12, <2>2
<1>13. CASE WriteModelFile(a) \/ CopyAnalysisInputs(a) \/ WriteFindingIndex(a)
            \/ WriteAnalysisSummary(a) \/ WriteAnalysisManifest(a)
            \/ WriteAnalysisReceipt(a)
  BY <1>12, <1>13, CopiesFacts DEF WriteModelFile, CopyAnalysisInputs, CopyInput,
     WriteFindingIndex, WriteAnalysisSummary, WriteAnalysisManifest,
     WriteAnalysisReceipt, Names, Listed, Inputs
<1>14. CASE FinishAnalyze(a) \/ Crash(a)
  <2>1. /\ UNCHANGED <<verified, force>>
        /\ \E stage \in {"done", "crashed"} : pc' = [pc EXCEPT ![a] = stage]
    BY <1>14 DEF FinishAnalyze, Crash, admission
  <2> QED
    BY <1>2, <2>1
<1>15. CASE Flush(a)
  BY <1>1, <1>15 DEF Flush, admission
<1> QED
  BY <1>4, <1>5, <1>6, <1>7, <1>9, <1>10, <1>13, <1>14, <1>15 DEF Step

\* A step is of an invocation that is not over, begins it if it had not begun,
\* and gives an exit status only where it ends it.
LEMMA StepActs ==
    ASSUME ProgramTypeOK, NEW a \in Analyzers, Step(a)
    PROVE  /\ pc[a] \notin {"done", "crashed"} /\ pc'[a] # "start"
           /\ exit'[a] # exit[a] => pc'[a] = "done"
           /\ \A b \in Analyzers \ {a} :
                 pc'[b] = pc[b] /\ exit'[b] = exit[b] /\ force'[b] = force[b]
<1> DEFINE Acts ==
      /\ pc[a] \notin {"done", "crashed"} /\ pc'[a] # "start"
      /\ exit'[a] # exit[a] => pc'[a] = "done"
      /\ \A b \in Analyzers \ {a} :
            pc'[b] = pc[b] /\ exit'[b] = exit[b] /\ force'[b] = force[b]
<1>1. ASSUME NEW stage, stage # "start", Goto(a, stage),
             pc[a] \notin {"done", "crashed"}, UNCHANGED force
      PROVE  Acts
  BY <1>1 DEF Goto, ProgramTypeOK
<1>2. ASSUME Trouble(a), pc[a] \notin {"done", "crashed"}, UNCHANGED force
      PROVE  Acts
  BY <1>2 DEF Trouble, ProgramTypeOK
<1>3. ASSUME UNCHANGED <<pc, exit, force>>, pc[a] \notin {"start", "done", "crashed"}
      PROVE  Acts
  BY <1>3
<1>4. ASSUME VerifyFails(a), pc[a] \in Verifying, UNCHANGED force PROVE Acts
  BY <1>1, <1>2, <1>4 DEF VerifyFails, Verifying
<1>5. CASE Start(a)
  <2>1. /\ pc[a] = "start"
        /\ \A b \in Analyzers \ {a} : force'[b] = force[b]
        /\ Goto(a, "verify_capture") \/ Trouble(a)
    BY <1>5 DEF Start, GoOn
  <2> QED
    BY <2>1 DEF Goto, Trouble, ProgramTypeOK
<1>6. CASE VerifyCapture(a)
  BY <1>1, <1>4, <1>6 DEF VerifyCapture, Verifying
<1>7. CASE VerifyArtifact(a)
  BY <1>3, <1>4, <1>7 DEF VerifyArtifact, Verifying
<1>8. CASE VerifyDone(a)
  BY <1>1, <1>4, <1>8 DEF VerifyDone, Verifying
<1>9. ASSUME NEW role, NEW next, Reads(a, role, next), next # "start",
             pc[a] \notin {"done", "crashed"}
      PROVE  Acts
  BY <1>1, <1>2, <1>9 DEF Reads, admission
<1>10. CASE IngestResources(a) \/ IngestCalls(a) \/ RunAnalysis(a)
  BY <1>9, <1>10 DEF IngestResources, IngestCalls, RunAnalysis
<1>11. CASE WriteBundle(a)
  BY <1>1, <1>2, <1>11 DEF WriteBundle, admission
<1>12. ASSUME NEW name \in Names, NEW readable, NEW data, NEW next, next # "start",
              Writes(a, name, readable, data, next)
       PROVE  Acts
  <2>1. /\ pc[a] \notin {"start", "done", "crashed"}
        /\ UNCHANGED force
    BY <1>12 DEF Writes, Names, Listed, admission
  <2> QED
    BY <1>1, <1>2, <1>3, <1>12, <2>1 DEF Writes, Opens, Closes
<1>13. CASE WriteModelFile(a) \/ CopyAnalysisInputs(a) \/ WriteFindingIndex(a)
            \/ WriteAnalysisSummary(a) \/ WriteAnalysisManifest(a)
            \/ WriteAnalysisReceipt(a)
  BY <1>12, <1>13, CopiesFacts DEF WriteModelFile, CopyAnalysisInputs, CopyInput,
     WriteFindingIndex, WriteAnalysisSummary, WriteAnalysisManifest,
     WriteAnalysisReceipt, Names, Listed, Inputs
<1>14. CASE FinishAnalyze(a)
  BY <1>14 DEF FinishAnalyze, ProgramTypeOK, admission
<1>15. CASE Flush(a)
  BY <1>3, <1>15 DEF Flush, AtWork, admission
<1> QED
  BY <1>5, <1>6, <1>7, <1>8, <1>10, <1>11, <1>13, <1>14, <1>15 DEF Step
=============================================================================
