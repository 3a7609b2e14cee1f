-------------------------- MODULE BuildPipelineProofs --------------------------
(***************************************************************************)
(* BuildPipeline, for any number of processes, hosts, command lines and    *)
(* shared directories: what a process prints and its exit code are what    *)
(* BuildContract promises, an artifact report describes the build it was   *)
(* printed by, the tools a process uses are those of its host, what it     *)
(* reads back from a dump is what the dumped file holds, and equal builds  *)
(* give equal evidence wherever their files are.                           *)
(***************************************************************************)
EXTENDS BuildPipeline, FiniteSetTheorems, TLAPS

Statuses == {"NotRequested", "Succeeded", "Unavailable", "Failed"}
Fields == {"object", "exe"}
Describing == {"object", "object size", "object -h", "object -t", "object -p",
               "exe", "exe size", "exe -h", "exe -t", "exe -p"}
Reporting == {"source", "print"} \cup Describing
Labels == {"target", "dir", "assemble", "entry", "link", "verify", "run", "finish", "done"} \cup Reporting

\* A document whose exit code Finish still has to choose.
Unanswered(d) == \/ d.kind = "doctor" /\ d.all_found \in BOOLEAN
                 \/ d.kind = "artifact" /\ d.execution.status \in Statuses

ProcessInv(p) ==
    /\ pc[p] \in Labels
    /\ pc[p] # "done" => exit[p] = "none"
    /\ pc[p] \notin {"finish", "done"} => document[p] = Nothing
    /\ pc[p] = "finish" => Unanswered(document[p])
    /\ pc[p] \in Reporting => /\ "execution" \in DOMAIN local[p]
                              /\ local[p]["execution"].status \in Statuses

TableInv ==
    /\ pc = [p \in Builds |-> pc[p]] /\ local = [p \in Builds |-> local[p]]
    /\ document = [p \in Builds |-> document[p]] /\ exit = [p \in Builds |-> exit[p]]

BuildInv == TableInv /\ \A p \in Builds : ProcessInv(p)

------------------------------------------------------------------------------

\* The field that is set, and every other one.
LEMMA SetField ==
    ASSUME NEW p \in Builds, NEW field, NEW value, TableInv, Set(p, field, value)
    PROVE  /\ local' = [q \in Builds |-> local'[q]]
           /\ \A q \in Builds \ {p} : local'[q] = local[q]
           /\ field \in DOMAIN local'[p] /\ local'[p][field] = value
           /\ \A f \in DOMAIN local[p] : f # field =>
                 f \in DOMAIN local'[p] /\ local'[p][f] = local[p][f]
  <1> DEFINE new == [f \in DOMAIN local[p] \cup {field} |-> IF f = field THEN value ELSE local[p][f]]
  <1>1. local' = [local EXCEPT ![p] = new] /\ DOMAIN local = Builds
    BY DEF Set, TableInv
  <1>2. local'[p] = new /\ (\A q \in Builds \ {p} : local'[q] = local[q])
    BY <1>1
  <1>3. local' = [q \in Builds |-> local'[q]]
    BY <1>1
  <1> QED
    BY <1>2, <1>3

\* ExecutionInfo has a status generate_report and do_build know.
LEMMA ExecutionStatus == \A o : ExecutionInfo(o).status \in Statuses
  BY DEF ExecutionInfo, Statuses

\* A fixture report is of a run with the expected exit code.
LEMMA FixtureAccepted ==
    ASSUME NEW expected, NEW o, classify_execution(expected, o) # BuildFails
    PROVE  \/ expected = "None"
           \/ /\ classify_execution(expected, o).status = "Succeeded"
              /\ classify_execution(expected, o).exit_code = expected
  BY DEF classify_execution, ExecutionInfo, ExitCode

------------------------------------------------------------------------------
(* A step of one process. *)

OnlyOf(p) ==
    /\ pc' = [q \in Builds |-> pc'[q]] /\ local' = [q \in Builds |-> local'[q]]
    /\ document' = [q \in Builds |-> document'[q]] /\ exit' = [q \in Builds |-> exit'[q]]
    /\ \A q \in Builds \ {p} : /\ pc'[q] = pc[q] /\ local'[q] = local[q]
                               /\ document'[q] = document[q] /\ exit'[q] = exit[q]

\* Nothing becomes visible, or a document, or an exit code that agrees with it.
Promised(p) ==
    \/ document'[p] = document[p] /\ exit'[p] = exit[p]
    \/ /\ exit[p] = "none"
       /\ document'[p] = document[p] \/ (document[p] = Nothing /\ document'[p] # Nothing)
       /\ exit'[p] = "none" \/ exit'[p] \in Contract!Codes(document'[p])

GoodStep(p) == OnlyOf(p) /\ ProcessInv(p)' /\ Promised(p)

\* Such a step keeps the invariant and is a step of the contract.
LEMMA OneProcess ==
    ASSUME BuildInv, NEW p \in Builds, GoodStep(p)
    PROVE  BuildInv' /\ [Contract!Next]_<<document, exit>>
  <1>1. TableInv'
    BY DEF GoodStep, OnlyOf, TableInv
  <1>2. ASSUME NEW q \in Builds PROVE ProcessInv(q)'
    <2>1. CASE q = p
      BY <2>1 DEF GoodStep
    <2>2. CASE q # p
      BY <2>2 DEF GoodStep, OnlyOf, BuildInv, ProcessInv
    <2> QED
      BY <2>1, <2>2
  <1>3. CASE document'[p] = document[p] /\ exit'[p] = exit[p]
    <2>1. document' = document /\ exit' = exit
      BY <1>3 DEF GoodStep, OnlyOf, BuildInv, TableInv
    <2> QED
      BY <2>1, <1>1, <1>2 DEF BuildInv
  <1>4. CASE ~(document'[p] = document[p] /\ exit'[p] = exit[p])
    <2>1. exit[p] = "none"
      BY <1>4 DEF GoodStep, Promised
    <2>2. /\ document' = [document EXCEPT ![p] = document'[p]]
          /\ exit' = [exit EXCEPT ![p] = exit'[p]]
      BY DEF GoodStep, OnlyOf, BuildInv, TableInv
    <2>3. document'[p] # document[p] => Contract!Emits(p)
      BY <1>4, <2>1, <2>2 DEF GoodStep, Promised, Contract!Emits
    <2>4. exit'[p] # exit[p] => Contract!Ends(p)
      BY <1>4, <2>1, <2>2 DEF GoodStep, Promised, Contract!Ends
    <2>5. document'[p] = document[p] => document' = document
      BY <2>2 DEF BuildInv, TableInv
    <2>6. exit'[p] = exit[p] => exit' = exit
      BY <2>2 DEF BuildInv, TableInv
    <2>7. Contract!Next
      BY <1>4, <2>3, <2>4, <2>5, <2>6 DEF Contract!Next
    <2> QED
      BY <2>7, <1>1, <1>2 DEF BuildInv
  <1> QED
    BY <1>3, <1>4

\* An error path: an exit code and no document.
LEMMA AbortIsGood ==
    ASSUME BuildInv, NEW p \in Builds, NEW code \in {"1", "2"},
           pc[p] \notin {"finish", "done"}, Abort(p, code)
    PROVE  GoodStep(p)
  <1>1. /\ document[p] = Nothing /\ exit[p] = "none"
        /\ pc'[p] = "done" /\ exit'[p] = code /\ document' = document /\ local' = local
    BY DEF BuildInv, ProcessInv, TableInv, Abort, Ends, Goto
  <1>2. OnlyOf(p)
    BY DEF BuildInv, TableInv, OnlyOf, Abort, Ends, Goto
  <1>3. ProcessInv(p)'
    BY <1>1 DEF ProcessInv, Labels, Reporting, Describing
  <1>4. Promised(p)
    BY <1>1 DEF Promised, Contract!Codes
  <1> QED
    BY <1>2, <1>3, <1>4 DEF GoodStep

\* A step to the next label that prints nothing, and whose local variables are
\* those the label asks for.
LEMMA GotoIsGood ==
    ASSUME BuildInv, NEW p \in Builds, NEW label \in Labels \ {"finish", "done"},
           pc[p] \notin {"finish", "done"}, Goto(p, label), UNCHANGED results,
           local' = [q \in Builds |-> local'[q]], \A q \in Builds \ {p} : local'[q] = local[q],
           label \in Reporting => /\ "execution" \in DOMAIN local'[p]
                                  /\ local'[p]["execution"].status \in Statuses
    PROVE  GoodStep(p)
  <1>1. /\ document[p] = Nothing /\ exit[p] = "none" /\ pc'[p] = label
        /\ document' = document /\ exit' = exit
    BY DEF BuildInv, ProcessInv, TableInv, Goto, results
  <1>2. OnlyOf(p)
    BY DEF BuildInv, TableInv, OnlyOf, Goto, results
  <1>3. ProcessInv(p)'
    BY <1>1 DEF ProcessInv, Labels, Reporting, Describing
  <1>4. Promised(p)
    BY <1>1 DEF Promised
  <1> QED
    BY <1>2, <1>3, <1>4 DEF GoodStep

------------------------------------------------------------------------------
(* The actions. *)

\* Steps whose effect on the local variables does not matter.
LEMMA Unreported ==
    ASSUME BuildInv, NEW p \in Builds, pc[p] \notin {"finish", "done"},
           NEW label \in {"dir", "assemble", "entry", "link", "verify", "run"},
           Goto(p, label), UNCHANGED results,
           \/ UNCHANGED local
           \/ \E field, value : Set(p, field, value)
           \/ \E tools : local' = [local EXCEPT ![p] = tools]
    PROVE  GoodStep(p)
  <1>1. local' = [q \in Builds |-> local'[q]] /\ \A q \in Builds \ {p} : local'[q] = local[q]
    BY DEF BuildInv, TableInv, Set
  <1>2. label \in Labels \ {"finish", "done"} /\ label \notin Reporting
    BY DEF Labels, Reporting, Describing
  <1> QED
    BY <1>1, <1>2, GotoIsGood

\* Steps of generate_report keep what Run has recorded.
LEMMA StillReporting ==
    ASSUME BuildInv, NEW p \in Builds, pc[p] \in Reporting, NEW label \in Reporting,
           Goto(p, label), UNCHANGED results,
           NEW field, NEW value, field # "execution", Set(p, field, value)
    PROVE  GoodStep(p)
  <1>1. "execution" \in DOMAIN local[p] /\ local[p]["execution"].status \in Statuses
    BY DEF BuildInv, ProcessInv
  <1>2. /\ local' = [q \in Builds |-> local'[q]]
        /\ \A q \in Builds \ {p} : local'[q] = local[q]
        /\ "execution" \in DOMAIN local'[p] /\ local'[p]["execution"].status \in Statuses
    BY <1>1, SetField DEF BuildInv
  <1>3. pc[p] \notin {"finish", "done"} /\ label \in Labels \ {"finish", "done"}
    BY DEF Labels, Reporting, Describing
  <1> QED
    BY <1>2, <1>3, GotoIsGood

\* The target is parsed: an unknown one ends the process with code 2, and target
\* doctor prints its document.
LEMMA ParseTargetIsGood ==
    ASSUME BuildInv, NEW p \in Builds, ParseTarget(p)
    PROVE  GoodStep(p)
  <1> DEFINE known == request[p].target \in KnownTargets
             doctor == request[p].command = "doctor"
             report == [kind |-> "doctor", all_found |-> all_found(host, request[p].target)]
  <1>0. pc[p] = "target"
    BY DEF ParseTarget, At
  <1>1. CASE Ends(p, "2") /\ UNCHANGED <<local, document>>
    <2>1. Abort(p, "2") \/ made' # made
      BY <1>1 DEF Abort
    <2>2. made' = made
      BY DEF ParseTarget
    <2> QED
      BY <1>0, <2>1, <2>2, AbortIsGood
  <1>2. CASE /\ local' = [local EXCEPT ![p] = discover(host, request[p].target)]
             /\ Goto(p, IF request[p].command = "build" THEN "dir" ELSE "assemble")
             /\ UNCHANGED results
    <2> DEFINE label == IF request[p].command = "build" THEN "dir" ELSE "assemble"
    <2>1. label \in {"dir", "assemble", "entry", "link", "verify", "run"}
      OBVIOUS
    <2>2. \E tools : local' = [local EXCEPT ![p] = tools]
      BY <1>2
    <2>3. Goto(p, label)
      BY <1>2
    <2> HIDE DEF label
    <2> QED
      BY <1>0, <1>2, <2>1, <2>2, <2>3, Unreported
  <1>3. CASE /\ document' = [document EXCEPT ![p] = report]
             /\ Goto(p, "finish") /\ UNCHANGED <<local, exit>>
    <2>1. /\ document[p] = Nothing /\ exit[p] = "none" /\ pc'[p] = "finish"
          /\ document'[p] = report /\ exit' = exit /\ local' = local
      BY <1>0, <1>3 DEF BuildInv, ProcessInv, TableInv, Goto
    <2>2. OnlyOf(p)
      BY <1>3 DEF BuildInv, TableInv, OnlyOf, Goto
    <2>3. report # Nothing /\ report.kind = "doctor" /\ report.all_found \in BOOLEAN
      BY DEF Nothing, all_found
    <2> HIDE DEF report
    <2>4. ProcessInv(p)'
      BY <2>1, <2>3 DEF ProcessInv, Labels, Reporting, Describing, Unanswered
    <2>5. Promised(p)
      BY <2>1, <2>3 DEF Promised
    <2> QED
      BY <2>2, <2>4, <2>5 DEF GoodStep
  <1> QED
    BY <1>1, <1>2, <1>3 DEF ParseTarget

\* The output directory is created, or the process ends with code 1.
LEMMA CreateDirIsGood ==
    ASSUME BuildInv, NEW p \in Builds, CreateDir(p)
    PROVE  GoodStep(p)
  <1>0. pc[p] = "dir"
    BY DEF CreateDir, At
  <1>1. CASE Goto(p, "assemble") /\ UNCHANGED <<local, made, results>>
    BY <1>0, <1>1, Unreported
  <1>2. CASE Abort(p, "1")
    BY <1>0, <1>2, AbortIsGood
  <1> QED
    BY <1>1, <1>2 DEF CreateDir

\* The assembler writes the object, or the process ends with code 1.
LEMMA AssembleIsGood ==
    ASSUME BuildInv, NEW p \in Builds, Assemble(p)
    PROVE  GoodStep(p)
  <1>0. pc[p] = "assemble"
    BY DEF Assemble, At
  <1>1. \/ Abort(p, "1")
        \/ /\ \E o : Set(p, "ao", CommandRecordJson("assemble", assemble_for_target_spec(p), o))
           /\ Goto(p, "entry") /\ UNCHANGED results
    BY DEF Assemble
  <1>2. CASE Abort(p, "1")
    BY <1>0, <1>2, AbortIsGood
  <1>3. CASE /\ \E o : Set(p, "ao", CommandRecordJson("assemble", assemble_for_target_spec(p), o))
             /\ Goto(p, "entry") /\ UNCHANGED results
    <2>1. \E field, value : Set(p, field, value)
      BY <1>3
    <2> QED
      BY <1>0, <1>3, <2>1, Unreported
  <1> QED
    BY <1>1, <1>2, <1>3

\* The name of the entry is read from the object.
LEMMA ReadEntryIsGood ==
    ASSUME BuildInv, NEW p \in Builds, ReadEntry(p)
    PROVE  GoodStep(p)
  <1>1. pc[p] = "entry" /\ Set(p, "entry", Entry(p)) /\ Goto(p, "link") /\ UNCHANGED results
    BY DEF ReadEntry, At
  <1>2. \E field, value : Set(p, field, value)
    BY <1>1
  <1> QED
    BY <1>1, <1>2, Unreported

\* The linker writes the executable, or the process ends with code 1.
LEMMA LinkIsGood ==
    ASSUME BuildInv, NEW p \in Builds, Link(p)
    PROVE  GoodStep(p)
  <1>0. pc[p] = "link"
    BY DEF Link, At
  <1>1. \/ Abort(p, "1")
        \/ /\ \E o : Set(p, "lo", CommandRecordJson("link", link_for_target_spec(p), o))
           /\ Goto(p, "verify") /\ UNCHANGED results
    BY DEF Link
  <1>2. CASE Abort(p, "1")
    BY <1>0, <1>2, AbortIsGood
  <1>3. CASE /\ \E o : Set(p, "lo", CommandRecordJson("link", link_for_target_spec(p), o))
             /\ Goto(p, "verify") /\ UNCHANGED results
    <2>1. \E field, value : Set(p, field, value)
      BY <1>3
    <2> QED
      BY <1>0, <1>3, <2>1, Unreported
  <1> QED
    BY <1>1, <1>2, <1>3

\* A linked file that does not parse ends the process.
LEMMA VerifyArchitectureIsGood ==
    ASSUME BuildInv, NEW p \in Builds, VerifyArchitecture(p)
    PROVE  GoodStep(p)
  <1>0. pc[p] = "verify"
    BY DEF VerifyArchitecture, At
  <1>1. CASE Goto(p, "run") /\ UNCHANGED <<local, made, results>>
    BY <1>0, <1>1, Unreported
  <1>2. CASE Abort(p, "1")
    BY <1>0, <1>2, AbortIsGood
  <1> QED
    BY <1>1, <1>2 DEF VerifyArchitecture

\* do_build runs the artifact and keeps going whatever the run gives.
LEMMA RunIsGood ==
    ASSUME BuildInv, NEW p \in Builds, Run(p)
    PROVE  GoodStep(p)
  <1>0. pc[p] = "run" /\ Goto(p, "source") /\ UNCHANGED results
    BY DEF Run, At
  <1>1. PICK info : Set(p, "execution", info) /\ info.status \in Statuses
    <2>1. CASE Set(p, "execution", NotRequested)
      BY <2>1 DEF NotRequested, Statuses
    <2>2. CASE \E o \in run(host, local[p].runner) : Set(p, "execution", ExecutionInfo(o))
      BY <2>2, ExecutionStatus
    <2> QED
      BY <2>1, <2>2 DEF Run
  <1>2. /\ local' = [q \in Builds |-> local'[q]]
        /\ \A q \in Builds \ {p} : local'[q] = local[q]
        /\ "execution" \in DOMAIN local'[p] /\ local'[p]["execution"].status \in Statuses
    BY <1>1, SetField DEF BuildInv
  <1>3. "source" \in Labels \ {"finish", "done"}
    BY DEF Labels, Reporting, Describing
  <1> QED
    BY <1>0, <1>2, <1>3, GotoIsGood

\* build_fixture prints only of a run with the expected exit code.
LEMMA RunFixtureIsGood ==
    ASSUME BuildInv, NEW p \in Builds, RunFixture(p)
    PROVE  GoodStep(p)
  <1>0. pc[p] = "run"
    BY DEF RunFixture, At
  <1>1. PICK o : \/ Abort(p, "1")
                 \/ /\ classify_execution(request[p].expected, o) # BuildFails
                    /\ document' = [document EXCEPT ![p] =
                          [kind |-> "fixture",
                           execution |-> classify_execution(request[p].expected, o),
                           expected |-> request[p].expected]]
                    /\ Ends(p, "0") /\ UNCHANGED <<local, made>>
    BY DEF RunFixture
  <1>2. CASE Abort(p, "1")
    BY <1>0, <1>2, AbortIsGood
  <1>3. CASE ~Abort(p, "1")
    <2> DEFINE report == [kind |-> "fixture",
                          execution |-> classify_execution(request[p].expected, o),
                          expected |-> request[p].expected]
    <2>1. /\ document[p] = Nothing /\ exit[p] = "none" /\ pc'[p] = "done"
          /\ document'[p] = report /\ exit'[p] = "0" /\ local' = local
      BY <1>0, <1>1, <1>3 DEF BuildInv, ProcessInv, TableInv, Ends, Goto
    <2>2. OnlyOf(p)
      BY <1>1, <1>3 DEF BuildInv, TableInv, OnlyOf, Ends, Goto
    <2>3. ProcessInv(p)'
      BY <2>1 DEF ProcessInv, Labels, Reporting, Describing
    <2>4. report # Nothing
      BY DEF Nothing
    <2>5. Contract!Accepts(report)
      BY <1>1, <1>3, FixtureAccepted DEF Contract!Accepts
    <2> HIDE DEF report
    <2>6. Promised(p)
      BY <2>1, <2>4, <2>5 DEF Promised, Contract!Codes
    <2> QED
      BY <2>2, <2>3, <2>6 DEF GoodStep
  <1> QED
    BY <1>2, <1>3

\* The source is hashed for the report.
LEMMA HashSourceIsGood ==
    ASSUME BuildInv, NEW p \in Builds, HashSource(p)
    PROVE  GoodStep(p)
  <1>0. pc[p] = "source" /\ pc[p] \in Reporting /\ "object" \in Reporting
    BY DEF HashSource, At, Reporting, Describing
  <1>1. CASE /\ Set(p, "source", source[request[p].source]) /\ Goto(p, "object")
             /\ UNCHANGED <<made, results>>
    BY <1>0, <1>1, StillReporting
  <1>2. CASE Abort(p, "1")
    BY <1>0, <1>2, AbortIsGood
  <1> QED
    BY <1>1, <1>2 DEF HashSource

\* The labels of the description of a file.
LEMMA StageLabels ==
    ASSUME NEW field \in Fields
    PROVE  /\ Stage[field].hash \in Describing /\ Stage[field].size \in Describing
           /\ Stage[field].h \in Describing /\ Stage[field].t \in Describing
           /\ Stage[field].p \in Describing /\ Stage[field].next \in Describing \cup {"print"}
           /\ Stage[field]["h"] \in Describing /\ Stage[field]["t"] \in Describing
           /\ Stage[field]["p"] \in Describing /\ Stage[field]["next"] \in Describing \cup {"print"}
  <1> DEFINE Placed(s) == /\ {s.hash, s.size, s.h, s.t, s.p, s["h"], s["t"], s["p"]} \subseteq Describing
                          /\ {s.next, s["next"]} \subseteq Describing \cup {"print"}
  <1>1. ASSUME NEW s, NEW hash, NEW size, NEW h, NEW t, NEW p, NEW next,
               s = Stages(hash, size, h, t, p, next),
               hash \in Describing, size \in Describing, h \in Describing, t \in Describing,
               p \in Describing, next \in Describing \cup {"print"}
        PROVE  Placed(s)
    <2>1. /\ s.hash = hash /\ s.size = size /\ s.h = h /\ s.t = t /\ s.p = p /\ s.next = next
          /\ s["h"] = h /\ s["t"] = t /\ s["p"] = p /\ s["next"] = next
      BY <1>1 DEF Stages
    <2> QED
      BY <1>1, <2>1
  <1> HIDE DEF Placed
  <1>2. ASSUME field = "object" PROVE Placed(Stage[field])
    <2>1. Stage[field] = Stages("object", "object size", "object -h", "object -t", "object -p", "exe")
      BY <1>2 DEF Stage
    <2>2. /\ "object" \in Describing /\ "object size" \in Describing /\ "object -h" \in Describing
          /\ "object -t" \in Describing /\ "object -p" \in Describing
          /\ "exe" \in Describing \cup {"print"}
      BY DEF Describing
    <2> QED
      BY <1>1, <2>1, <2>2
  <1>3. ASSUME field = "exe" PROVE Placed(Stage[field])
    <2>1. Stage[field] = Stages("exe", "exe size", "exe -h", "exe -t", "exe -p", "print")
      BY <1>3 DEF Stage
    <2>2. /\ "exe" \in Describing /\ "exe size" \in Describing /\ "exe -h" \in Describing
          /\ "exe -t" \in Describing /\ "exe -p" \in Describing
          /\ "print" \in Describing \cup {"print"}
      BY DEF Describing
    <2> QED
      BY <1>1, <2>1, <2>2
  <1>4. Placed(Stage[field])
    BY <1>2, <1>3 DEF Fields
  <1> QED
    BY <1>4 DEF Placed

\* Every step of it sets the note of the file, or gives up.
LEMMA DescribeSteps ==
    ASSUME NEW p, NEW field \in Fields, Describe(p, field)
    PROVE  /\ pc[p] \in Describing /\ UNCHANGED <<host, request, source>> /\ Keeps
           /\ \/ Abort(p, "1")
              \/ /\ \E note : Set(p, field, note)
                 /\ \E label \in Describing \cup {"print"} : Goto(p, label)
                 /\ UNCHANGED <<made, results>>
  <1>1. CASE HashFile(p, field)
    BY <1>1, StageLabels DEF HashFile, At
  <1>2. CASE StatFile(p, field)
    BY <1>2, StageLabels DEF StatFile, At
  <1>3. ASSUME NEW option \in {"h", "t", "p"}, NEW next \in {"t", "p", "next"},
               DumpFile(p, field, option, next)
        PROVE  /\ pc[p] \in Describing /\ UNCHANGED <<host, request, source>> /\ Keeps
               /\ \/ Abort(p, "1")
                  \/ /\ \E note : Set(p, field, note)
                     /\ \E label \in Describing \cup {"print"} : Goto(p, label)
                     /\ UNCHANGED <<made, results>>
    <2>1. Stage[field][option] \in Describing /\ Stage[field][next] \in Describing \cup {"print"}
      BY StageLabels
    <2>2. /\ pc[p] = Stage[field][option] /\ UNCHANGED <<host, request, source>> /\ Keeps
          /\ \/ Abort(p, "1")
             \/ /\ \E note : Set(p, field, note)
                /\ Goto(p, Stage[field][next]) /\ UNCHANGED <<made, results>>
      BY <1>3 DEF DumpFile, At
    <2> QED
      BY <2>1, <2>2
  <1> QED
    BY <1>1, <1>2, <1>3 DEF Describe

\* The result of describing an artifact is a local variable.
LEMMA DescribeIsGood ==
    ASSUME BuildInv, NEW p \in Builds, NEW field \in Fields, Describe(p, field)
    PROVE  GoodStep(p)
  <1>1. pc[p] \in Reporting /\ pc[p] \notin {"finish", "done"} /\ field # "execution"
    BY DescribeSteps DEF Reporting, Describing, Fields
  <1>2. CASE Abort(p, "1")
    BY <1>1, <1>2, AbortIsGood
  <1>3. CASE ~Abort(p, "1")
    <2>1. PICK note : Set(p, field, note) /\ \E label \in Reporting : Goto(p, label) /\ UNCHANGED results
      BY <1>3, DescribeSteps DEF Reporting
    <2> QED
      BY <1>1, <2>1, StillReporting
  <1> QED
    BY <1>2, <1>3

\* The report is printed, with the status of the run.
LEMMA PrintReportIsGood ==
    ASSUME BuildInv, NEW p \in Builds, PrintReport(p)
    PROVE  GoodStep(p)
  <1> DEFINE report == generate_report(p)
             printed == [kind |-> "artifact", execution |-> report.execution,
                         isolation |-> report.isolation, evidence |-> canonical_evidence(report)]
  <1>0. pc[p] = "print" /\ pc[p] \in Reporting
    BY DEF PrintReport, At, Reporting
  <1>1. report.execution = local[p].execution
    BY DEF generate_report
  <1>2. printed.kind = "artifact" /\ printed.execution = report.execution /\ printed # Nothing
    BY DEF Nothing
  <1>3. document' = [document EXCEPT ![p] = printed] /\ Goto(p, "finish") /\ UNCHANGED <<local, exit>>
    BY DEF PrintReport
  <1> HIDE DEF printed, report
  <1>4. /\ document[p] = Nothing /\ exit[p] = "none" /\ pc'[p] = "finish"
        /\ document'[p] = printed /\ local[p].execution.status \in Statuses
    BY <1>0, <1>3 DEF BuildInv, ProcessInv, TableInv, Goto
  <1>5. OnlyOf(p)
    BY <1>3 DEF BuildInv, TableInv, OnlyOf, Goto
  <1>6. ProcessInv(p)'
    BY <1>1, <1>2, <1>3, <1>4 DEF ProcessInv, Labels, Reporting, Describing, Unanswered
  <1>7. Promised(p)
    BY <1>2, <1>3, <1>4 DEF Promised
  <1> QED
    BY <1>5, <1>6, <1>7 DEF GoodStep

\* The exit code is the one that agrees with the document.
LEMMA FinishIsGood ==
    ASSUME BuildInv, NEW p \in Builds, Finish(p)
    PROVE  GoodStep(p)
  <1> DEFINE d == document[p]
             failed == \/ d.kind = "artifact" /\ d.execution.status \in {"Unavailable", "Failed"}
                       \/ d.kind = "doctor" /\ ~d.all_found
             code == IF failed THEN "1" ELSE "0"
  <1>0. pc[p] = "finish" /\ Ends(p, code) /\ UNCHANGED <<local, document>>
    BY DEF Finish, At
  <1>1. Unanswered(d) /\ exit[p] = "none"
    BY <1>0 DEF BuildInv, ProcessInv
  <1>2. d # Nothing
    BY <1>1 DEF Unanswered, Nothing
  <1>3. code \in Contract!Codes(d)
    <2>1. CASE d.kind = "doctor"
      BY <1>1, <1>2, <2>1 DEF Unanswered, Contract!Codes, Contract!Accepts
    <2>2. CASE d.kind = "artifact"
      BY <1>1, <1>2, <2>2 DEF Unanswered, Statuses, Contract!Codes, Contract!Accepts
    <2> QED
      BY <1>1, <2>1, <2>2 DEF Unanswered
  <1> HIDE DEF code
  <1>4. pc'[p] = "done" /\ exit'[p] = code /\ document' = document /\ local' = local
    BY <1>0 DEF BuildInv, TableInv, Ends, Goto
  <1>5. OnlyOf(p)
    BY <1>0 DEF BuildInv, TableInv, OnlyOf, Ends, Goto
  <1>6. ProcessInv(p)'
    BY <1>4 DEF ProcessInv, Labels, Reporting, Describing
  <1>7. Promised(p)
    BY <1>1, <1>3, <1>4 DEF Promised
  <1> QED
    BY <1>5, <1>6, <1>7 DEF GoodStep

------------------------------------------------------------------------------

\* What a process does.
ProcessStep(p) ==
    \/ ParseTarget(p) \/ CreateDir(p) \/ Assemble(p) \/ ReadEntry(p) \/ Link(p)
    \/ VerifyArchitecture(p) \/ Run(p) \/ RunFixture(p) \/ HashSource(p)
    \/ (\E field \in Fields : Describe(p, field))
    \/ PrintReport(p) \/ Finish(p)

\* The next-state relation.
LEMMA NextSteps ==
    Next <=> \/ \E p \in Builds : ProcessStep(p)
             \/ \E f \in Files : Save(f)
             \/ Done
  BY DEF Next, ProcessStep, Fields

\* Every step of a process is good.
LEMMA ProcessStepIsGood ==
    ASSUME BuildInv, NEW p \in Builds, ProcessStep(p)
    PROVE  GoodStep(p)
  BY ParseTargetIsGood, CreateDirIsGood, AssembleIsGood, ReadEntryIsGood, LinkIsGood,
     VerifyArchitectureIsGood, RunIsGood, RunFixtureIsGood, HashSourceIsGood,
     DescribeIsGood, PrintReportIsGood, FinishIsGood DEF ProcessStep

\* Nothing has been printed initially.
LEMMA InitBuildInv == Init => BuildInv /\ Contract!Init
  <1> SUFFICES ASSUME Init PROVE BuildInv /\ Contract!Init
    OBVIOUS
  <1>1. TableInv
    BY DEF Init, TableInv
  <1>2. ASSUME NEW p \in Builds PROVE ProcessInv(p)
    BY DEF Init, ProcessInv, Labels, Reporting, Describing
  <1>3. Contract!Init
    BY DEF Init, Contract!Init
  <1> QED
    BY <1>1, <1>2, <1>3 DEF BuildInv

\* Every step is one of a single process, or one of an editor that saves a source.
LEMMA NextBuildInv ==
    ASSUME BuildInv, [Next]_vars
    PROVE  BuildInv' /\ [Contract!Next]_<<document, exit>>
  <1>1. CASE UNCHANGED <<pc, local, document, exit>>
    BY <1>1 DEF BuildInv, TableInv, ProcessInv
  <1>2. ASSUME NEW f \in Files, Save(f)
        PROVE  UNCHANGED <<pc, local, document, exit>>
    BY <1>2 DEF Save, results
  <1>3. Done \/ UNCHANGED vars => UNCHANGED <<pc, local, document, exit>>
    BY DEF Done, vars
  <1>4. ASSUME NEW p \in Builds,
               ProcessStep(p)
        PROVE  GoodStep(p)
    BY <1>4, ProcessStepIsGood
  <1> QED
    BY <1>1, <1>2, <1>3, <1>4, OneProcess, NextSteps

\* Whatever the number of processes, the host, the command lines, the files they
\* share and the saves meanwhile: every process prints at most one document,
\* before it ends, and exits with the code that agrees with it (do_build,
\* do_target_doctor, build_fixture).
THEOREM BuildContractHolds == Spec => RefinesBuildContract
  <1>1. Spec => []BuildInv
    <2>1. BuildInv /\ [Next]_vars => BuildInv'
      BY NextBuildInv
    <2> QED
      BY InitBuildInv, <2>1, PTL DEF Spec
  <1>2. BuildInv /\ [Next]_vars => [Contract!Next]_<<document, exit>>
    BY NextBuildInv
  <1> QED
    BY <1>1, <1>2, InitBuildInv, PTL DEF Spec, RefinesBuildContract, Contract!Spec

------------------------------------------------------------------------------
(* The files of a process.                                                *)

Assembled == {"entry", "link", "verify", "run"} \cup Reporting
Linked == {"verify", "run"} \cup Reporting

Directories == {DirOf(p) : p \in Builds}

\* The files and the command lines are tables.
FileInv ==
    /\ host.temp \in Seq(STRING)
    /\ \A p \in Builds : request[p].source \in Files /\ request[p].out_dir \in Seq(STRING)
    /\ source = [f \in Files |-> source[f]]
    /\ disk = [d \in Directories |-> disk[d]]
    /\ \A d \in Directories : disk[d] = [object |-> disk[d].object, exe |-> disk[d].exe]
    /\ made = [p \in Builds |-> made[p]]
    /\ \A p \in Builds : made[p] = [source |-> made[p].source, ran |-> made[p].ran]

MadeObject(p) == Object(made[p].source, request[p].target)

\* What an undisturbed process finds in its directory.
TraceInv(p) ==
    /\ pc[p] \in Assembled => /\ made[p].source = source[request[p].source]
                              /\ Here(p).object = MadeObject(p)
    /\ pc[p] \in Linked => /\ Here(p).exe.kind = "executable"
                           /\ Here(p).exe.of = MadeObject(p)
    /\ pc[p] \in Reporting =>
          (local[p]["execution"].status = "Succeeded" => made[p].ran = Here(p).exe)
    /\ pc[p] \in Describing \cup {"print"} =>
          "source" \in DOMAIN local[p] /\ local[p]["source"] = made[p].source

ReportInv == /\ BuildInv /\ FileInv
             /\ \A p \in Builds : p \notin disturbed => TraceInv(p)

------------------------------------------------------------------------------
(* What a step of one process leaves alone. *)

\* Directories are where the scenario puts them.
LEMMA DirectoriesStay ==
    ASSUME UNCHANGED <<host, request>>
    PROVE  /\ \A q \in Builds : DirOf(q) \in Directories
           /\ \A q : DirOf(q)' = DirOf(q)
           /\ Directories' = Directories
  <1>1. \A q : DirOf(q)' = DirOf(q)
    BY DEF DirOf, TempDir
  <1> QED
    BY <1>1 DEF Directories

\* They are paths; a temporary directory is not that of another process.
LEMMA DirectoriesDiffer ==
    ASSUME ReportInv, NEW p \in Builds, DirOf(p) = TempDir(p), NEW q \in Builds \ {p}
    PROVE  DirOf(q) # DirOf(p)
  <1> DEFINE n == Len(host.temp)
  <1>1. host.temp \in Seq(STRING) /\ request[q].out_dir \in Seq(STRING) /\ p \notin STRING
    BY BuildAssumption DEF ReportInv, FileInv
  <1>2. \A r \in Builds : Len(TempDir(r)) = n + 1 /\ TempDir(r)[n + 1] = r
    BY <1>1 DEF TempDir
  <1>3. DOMAIN DirOf(p) = 1..(n + 1) /\ DirOf(p)[n + 1] = p /\ n \in Nat
    BY <1>1 DEF TempDir
  <1>4. CASE DirOf(q) = TempDir(q)
    BY <1>2, <1>4
  <1>5. CASE DirOf(q) = request[q].out_dir
    <2>1. \A i \in DOMAIN DirOf(q) : DirOf(q)[i] \in STRING
      BY <1>1, <1>5
    <2>2. n + 1 \in DOMAIN DirOf(p)
      BY <1>3
    <2> HIDE DEF n
    <2> QED
      BY <1>1, <1>3, <2>1, <2>2
  <1> QED
    BY <1>4, <1>5 DEF DirOf

Quiet(p) ==
    /\ UNCHANGED <<host, request, source>> /\ disturbed \subseteq disturbed'
    /\ \A q \in Builds \ {p} : made'[q] = made[q]
    /\ \A q \in Builds \ {p} : Working(q) /\ q \notin disturbed' => Here(q)' = Here(q)

FairStep(p) == Quiet(p) /\ FileInv' /\ (p \notin disturbed' => TraceInv(p)')

\* A process whose files are there is at work on them.
LEMMA LabelsWork ==
    ASSUME NEW q, pc[q] \in Assembled
    PROVE  Working(q)
  BY DEF Assembled, Reporting, Describing, Working

\* The other processes keep what they know.
LEMMA Bystanders ==
    ASSUME ReportInv, NEW p \in Builds, GoodStep(p), FairStep(p)
    PROVE  ReportInv'
  <1>1. BuildInv'
    BY OneProcess DEF ReportInv
  <1>2. ASSUME NEW q \in Builds, q \notin disturbed' PROVE TraceInv(q)'
    <2>1. CASE q = p
      BY <1>2, <2>1 DEF FairStep
    <2>2. CASE q # p
      <3>1. q \notin disturbed /\ TraceInv(q)
        BY <1>2 DEF FairStep, Quiet, ReportInv
      <3>2. /\ pc'[q] = pc[q] /\ local'[q] = local[q] /\ document'[q] = document[q]
            /\ made'[q] = made[q] /\ UNCHANGED <<host, request, source>>
        BY <2>2 DEF GoodStep, OnlyOf, FairStep, Quiet
      <3>3. pc[q] \in Assembled => Here(q)' = Here(q)
        BY <1>2, <2>2, LabelsWork DEF FairStep, Quiet
      <3>4. MadeObject(q)' = MadeObject(q)
        BY <3>2 DEF MadeObject, Object
      <3>6. /\ Linked \subseteq Assembled /\ Reporting \subseteq Assembled
            /\ Describing \cup {"print"} \subseteq Assembled
        BY DEF Linked, Assembled, Reporting
      <3> QED
        BY <3>1, <3>2, <3>3, <3>4, <3>6 DEF TraceInv
    <2> QED
      BY <2>1, <2>2
  <1> QED
    BY <1>1, <1>2 DEF ReportInv, FairStep

\* A step that writes no file.
LEMMA KeepsIsQuiet ==
    ASSUME ReportInv, NEW p \in Builds, Keeps, UNCHANGED <<host, request, source>>,
           \/ UNCHANGED made
           \/ \E ran : made' = [made EXCEPT ![p].ran = ran]
    PROVE  Quiet(p) /\ FileInv'
  <1>1. made' = [q \in Builds |-> made'[q]] /\ \A q \in Builds \ {p} : made'[q] = made[q]
    BY DEF ReportInv, FileInv
  <1>2. \A q \in Builds : made'[q] = [source |-> made'[q].source, ran |-> made'[q].ran]
    BY ZenonT(30) DEF ReportInv, FileInv
  <1>3. Quiet(p)
    BY <1>1, DirectoriesStay DEF Keeps, Quiet, Here
  <1>4. FileInv'
    BY <1>1, <1>2, DirectoriesStay DEF ReportInv, FileInv, Keeps
  <1> QED
    BY <1>3, <1>4

\* One of the two files replaced.
LEMMA Replaced ==
    ASSUME ReportInv, NEW p \in Builds, NEW x
    PROVE  /\ [Here(p) EXCEPT !.object = x] = [object |-> x, exe |-> Here(p).exe]
           /\ [Here(p) EXCEPT !.exe = x] = [object |-> Here(p).object, exe |-> x]
  <1>1. DirOf(p) \in Directories
    BY DEF Directories
  <1>2. PICK object, exe : Here(p) = [object |-> object, exe |-> exe]
    BY <1>1 DEF ReportInv, FileInv, Here
  <1> QED
    BY <1>2

\* A tool of p that writes into its directory.
LEMMA WritesIsQuiet ==
    ASSUME ReportInv, NEW p \in Builds, NEW object, NEW exe,
           Writes(p, [object |-> object, exe |-> exe]), UNCHANGED <<host, request, source>>,
           \/ UNCHANGED made
           \/ \E src : made' = [made EXCEPT ![p].source = src]
    PROVE  /\ Quiet(p) /\ FileInv'
           /\ Here(p)' = [object |-> object, exe |-> exe]
  <1> DEFINE files == [object |-> object, exe |-> exe]
  <1>1. made' = [q \in Builds |-> made'[q]] /\ \A q \in Builds \ {p} : made'[q] = made[q]
    BY DEF ReportInv, FileInv
  <1>2. \A q \in Builds : made'[q] = [source |-> made'[q].source, ran |-> made'[q].ran]
    BY ZenonT(30) DEF ReportInv, FileInv
  <1>3. \A q \in Builds : DirOf(q) \in Directories /\ DirOf(q)' = DirOf(q)
    BY DirectoriesStay
  <1>4. disk' = [disk EXCEPT ![DirOf(p)] = files] /\ DOMAIN disk = Directories
    BY DEF Writes, ReportInv, FileInv
  <1>5. \A d \in Directories : disk'[d] = IF d = DirOf(p) THEN files ELSE disk[d]
    BY <1>4
  <1>6. Here(p)' = files
    BY <1>3, <1>5 DEF Here
  <1>7. ASSUME NEW q \in Builds \ {p}, Working(q), q \notin disturbed'
        PROVE  Here(q)' = Here(q)
    <2>1. DirOf(q) = DirOf(p) => files = Here(p)
      BY <1>7 DEF Writes
    <2> HIDE DEF files
    <2> QED
      BY <1>3, <1>5, <2>1 DEF Here
  <1>8. Quiet(p)
    BY <1>1, <1>7 DEF Quiet, Writes
  <1>9. FileInv'
    <2>1. \A d \in Directories : disk'[d] = [object |-> disk'[d].object, exe |-> disk'[d].exe]
      BY <1>5 DEF ReportInv, FileInv
    <2>2. disk' = [d \in Directories |-> disk'[d]]
      BY <1>4
    <2> QED
      BY <1>1, <1>2, <2>1, <2>2, DirectoriesStay DEF ReportInv, FileInv
  <1> QED
    BY <1>6, <1>8, <1>9

------------------------------------------------------------------------------
(* The actions. *)

\* A process that has ended has no files any more.
LEMMA SilentEnd ==
    ASSUME NEW p \in Builds, pc'[p] = "done"
    PROVE  TraceInv(p)'
  BY DEF TraceInv, Assembled, Linked, Reporting, Describing

\* A process that gives up.
LEMMA AbortIsFair ==
    ASSUME BuildInv, NEW p \in Builds, NEW code, Abort(p, code)
    PROVE  TraceInv(p)'
  <1>1. pc'[p] = "done"
    BY DEF BuildInv, TableInv, Abort, Ends, Goto
  <1> QED
    BY <1>1, SilentEnd

\* Nothing is assembled before the directory exists.
LEMMA EarlyStepsAreFair ==
    ASSUME ReportInv, NEW p \in Builds, ParseTarget(p) \/ CreateDir(p)
    PROVE  FairStep(p)
  <1>0. BuildInv
    BY DEF ReportInv
  <1>1. pc[p] \in {"target", "dir"} /\ Keeps /\ UNCHANGED <<host, request, source, made>>
    BY DEF ParseTarget, CreateDir, At, Abort
  <1>2. Quiet(p) /\ FileInv'
    BY <1>1, KeepsIsQuiet
  <1>3. pc'[p] \in {"dir", "assemble", "finish", "done"}
    BY DEF ReportInv, BuildInv, TableInv, ParseTarget, CreateDir, Abort, Ends, Goto
  <1>6. TraceInv(p)'
    BY <1>3 DEF TraceInv, Assembled, Linked, Reporting, Describing
  <1> QED
    BY <1>2, <1>6 DEF FairStep

\* The object is that of the source as the assembler read it.
LEMMA AssembleIsFair ==
    ASSUME ReportInv, NEW p \in Builds, Assemble(p)
    PROVE  FairStep(p)
  <1> DEFINE object == Object(source[request[p].source], request[p].target)
  <1>0. BuildInv /\ pc[p] = "assemble" /\ UNCHANGED <<host, request, source>>
    BY DEF ReportInv, Assemble, At
  <1>2. CASE (\E x : Writes(p, [Here(p) EXCEPT !.object = x])) /\ Abort(p, "1")
    <2> PICK x : Writes(p, [Here(p) EXCEPT !.object = x])
      BY <1>2
    <2>0. Writes(p, [object |-> x, exe |-> Here(p).exe])
      BY Replaced
    <2>1. Quiet(p) /\ FileInv'
      BY <1>0, <1>2, <2>0, WritesIsQuiet DEF Abort
    <2> QED
      BY <1>0, <1>2, <2>1, AbortIsFair DEF FairStep
  <1>3. CASE /\ Writes(p, [Here(p) EXCEPT !.object = object])
             /\ made' = [made EXCEPT ![p].source = source[request[p].source]]
             /\ Goto(p, "entry") /\ UNCHANGED results
    <2>0. Writes(p, [object |-> object, exe |-> Here(p).exe])
      BY <1>3, Replaced
    <2>1. Quiet(p) /\ FileInv' /\ Here(p)' = [object |-> object, exe |-> Here(p).exe]
      BY <1>0, <1>3, <2>0, WritesIsQuiet
    <2>2. pc'[p] = "entry"
      BY <1>0, <1>3 DEF BuildInv, TableInv, Goto
    <2>3. made'[p].source = source[request[p].source]
      BY <1>3 DEF ReportInv, FileInv
    <2>4. MadeObject(p)' = object
      BY <1>0, <2>3 DEF MadeObject, Object
    <2>5. TraceInv(p)'
      BY <1>0, <2>1, <2>2, <2>3, <2>4 DEF TraceInv, Assembled, Linked, Reporting, Describing
    <2> QED
      BY <2>1, <2>5 DEF FairStep
  <1> QED
    BY <1>2, <1>3 DEF Assemble

\* Reading the entry changes no file.
LEMMA ReadEntryIsFair ==
    ASSUME ReportInv, NEW p \in Builds, ReadEntry(p)
    PROVE  FairStep(p)
  <1>0. /\ BuildInv /\ pc[p] = "entry" /\ pc'[p] = "link" /\ Keeps
        /\ UNCHANGED <<host, request, source, made>>
    BY DEF ReportInv, BuildInv, TableInv, ReadEntry, At, Goto
  <1>1. Quiet(p) /\ FileInv'
    BY <1>0, KeepsIsQuiet
  <1>2. ASSUME p \notin disturbed' PROVE TraceInv(p)'
    <2>1. TraceInv(p) /\ pc[p] \in Assembled
      BY <1>0, <1>2 DEF ReportInv, Keeps, Assembled
    <2>2. Here(p)' = Here(p) /\ MadeObject(p)' = MadeObject(p)
      BY <1>0, DirectoriesStay DEF Keeps, Here, MadeObject, Object
    <2> QED
      BY <1>0, <2>1, <2>2 DEF TraceInv, Assembled, Linked, Reporting, Describing
  <1> QED
    BY <1>1, <1>2 DEF FairStep

\* The executable is linked from the object that was assembled.
LEMMA LinkIsFair ==
    ASSUME ReportInv, NEW p \in Builds, Link(p)
    PROVE  FairStep(p)
  <1> DEFINE image == Executable(Here(p).object, local[p].entry)
  <1>0. BuildInv /\ pc[p] = "link" /\ UNCHANGED <<host, request, source, made>>
    BY DEF ReportInv, Link, At
  <1>2. CASE (\E x : Writes(p, [Here(p) EXCEPT !.exe = x])) /\ Abort(p, "1")
    <2> PICK x : Writes(p, [Here(p) EXCEPT !.exe = x])
      BY <1>2
    <2>0. Writes(p, [object |-> Here(p).object, exe |-> x])
      BY Replaced
    <2>1. Quiet(p) /\ FileInv'
      BY <1>0, <2>0, WritesIsQuiet
    <2> QED
      BY <1>0, <1>2, <2>1, AbortIsFair DEF FairStep
  <1>3. CASE /\ Writes(p, [Here(p) EXCEPT !.exe = image])
             /\ Goto(p, "verify") /\ UNCHANGED results
    <2>0. Writes(p, [object |-> Here(p).object, exe |-> image])
      BY <1>3, Replaced
    <2>1. Quiet(p) /\ FileInv' /\ Here(p)' = [object |-> Here(p).object, exe |-> image]
      BY <1>0, <2>0, WritesIsQuiet
    <2>2. pc'[p] = "verify"
      BY <1>0, <1>3 DEF BuildInv, TableInv, Goto
    <2>3. ASSUME p \notin disturbed' PROVE TraceInv(p)'
      <3>1. /\ made[p].source = source[request[p].source]
            /\ Here(p).object = MadeObject(p)
        BY <1>0, <2>1, <2>3 DEF ReportInv, Quiet, TraceInv, Assembled
      <3>2. MadeObject(p)' = MadeObject(p)
        BY <1>0 DEF MadeObject, Object
      <3>3. image.kind = "executable" /\ image.of = MadeObject(p)
        BY <3>1 DEF Executable
      <3> HIDE DEF image
      <3> QED
        BY <1>0, <2>1, <2>2, <3>1, <3>2, <3>3
           DEF TraceInv, Assembled, Linked, Reporting, Describing
    <2> QED
      BY <2>1, <2>3 DEF FairStep
  <1> QED
    BY <1>2, <1>3 DEF Link

\* A step of the reading half: no file is written, and what the process knew of
\* its files stays true.
LEMMA ReadingKeeps ==
    ASSUME ReportInv, NEW p \in Builds, p \notin disturbed', pc[p] \in Linked, Keeps,
           UNCHANGED <<host, request, source>>, made'[p].source = made[p].source
    PROVE  /\ made'[p].source = source'[request'[p].source]
           /\ Here(p)' = Here(p) /\ Here(p).object = MadeObject(p)
           /\ Here(p).exe.kind = "executable" /\ Here(p).exe.of = MadeObject(p)
           /\ MadeObject(p)' = MadeObject(p) /\ TraceInv(p)
  <1>1. TraceInv(p) /\ pc[p] \in Assembled
    BY DEF ReportInv, Keeps, Linked, Assembled
  <1> QED
    BY <1>1, DirectoriesStay DEF TraceInv, Keeps, Here, MadeObject, Object

\* Parsing the linked file changes no file.
LEMMA VerifyArchitectureIsFair ==
    ASSUME ReportInv, NEW p \in Builds, VerifyArchitecture(p)
    PROVE  FairStep(p)
  <1>0. /\ BuildInv /\ pc[p] = "verify" /\ pc[p] \in Linked
        /\ Keeps /\ UNCHANGED <<host, request, source, made>>
    BY DEF ReportInv, VerifyArchitecture, At, Abort, Linked
  <1>1. Quiet(p) /\ FileInv'
    BY <1>0, KeepsIsQuiet
  <1>2. CASE Abort(p, "1")
    BY <1>0, <1>1, <1>2, AbortIsFair DEF FairStep
  <1>3. CASE Goto(p, "run") /\ UNCHANGED <<local, made, results>>
    <2>1. pc'[p] = "run"
      BY <1>0, <1>3 DEF BuildInv, TableInv, Goto
    <2>2. ASSUME p \notin disturbed' PROVE TraceInv(p)'
      BY <1>0, <2>1, <2>2, ReadingKeeps DEF TraceInv, Reporting, Describing
    <2> QED
      BY <1>1, <2>2 DEF FairStep
  <1> QED
    BY <1>2, <1>3 DEF VerifyArchitecture

\* The program that runs is the executable in the directory.
LEMMA RunIsFair ==
    ASSUME ReportInv, NEW p \in Builds, Run(p)
    PROVE  FairStep(p)
  <1>0. /\ BuildInv /\ TableInv /\ pc[p] = "run" /\ pc[p] \in Linked
        /\ Keeps /\ UNCHANGED <<host, request, source, results>> /\ Goto(p, "source")
    BY DEF ReportInv, BuildInv, Run, At, Linked
  <1>1. \/ Set(p, "execution", NotRequested) /\ made' = made
        \/ /\ \E o : Set(p, "execution", ExecutionInfo(o))
           /\ made' = [made EXCEPT ![p].ran = Here(p).exe]
    BY DEF Run
  <1>2. Quiet(p) /\ FileInv'
    BY <1>0, <1>1, KeepsIsQuiet
  <1>3. made'[p].source = made[p].source
    BY <1>1 DEF ReportInv, FileInv
  <1>4. local'[p]["execution"].status = "Succeeded" => made'[p].ran = Here(p).exe
    <2>1. CASE Set(p, "execution", NotRequested)
      BY <1>0, <2>1, SetField DEF NotRequested
    <2>2. CASE made' = [made EXCEPT ![p].ran = Here(p).exe]
      BY <2>2 DEF ReportInv, FileInv
    <2> QED
      BY <1>1, <2>1, <2>2
  <1>5. pc'[p] = "source"
    BY <1>0 DEF BuildInv, TableInv, Goto
  <1>6. ASSUME p \notin disturbed' PROVE TraceInv(p)'
    BY <1>0, <1>3, <1>4, <1>5, <1>6, ReadingKeeps DEF TraceInv, Describing
  <1> QED
    BY <1>2, <1>6 DEF FairStep

\* A fixture report makes no claim about hashes.
LEMMA RunFixtureIsFair ==
    ASSUME ReportInv, NEW p \in Builds, RunFixture(p)
    PROVE  FairStep(p)
  <1>0. /\ BuildInv /\ pc[p] = "run" /\ Keeps /\ UNCHANGED <<host, request, source, made>>
    BY DEF ReportInv, RunFixture, At, Abort
  <1>1. Quiet(p) /\ FileInv'
    BY <1>0, KeepsIsQuiet
  <1>2. CASE Abort(p, "1")
    BY <1>0, <1>1, <1>2, AbortIsFair DEF FairStep
  <1>3. CASE ~Abort(p, "1")
    <2>1. Ends(p, "0")
      BY <1>3 DEF RunFixture
    <2>2. pc'[p] = "done"
      BY <1>0, <2>1 DEF BuildInv, TableInv, Ends, Goto
    <2> QED
      BY <1>1, <2>2, SilentEnd DEF FairStep
  <1> QED
    BY <1>2, <1>3

\* What is noted of the files, besides the field that is set.
LEMMA NotedStays ==
    ASSUME ReportInv, NEW p \in Builds, NEW field, NEW value, Set(p, field, value),
           pc[p] \in Reporting
    PROVE  /\ field \in DOMAIN local'[p] /\ local'[p][field] = value
           /\ \A f \in DOMAIN local[p] : f # field => f \in DOMAIN local'[p] /\ local'[p][f] = local[p][f]
           /\ "execution" \in DOMAIN local[p]
  BY SetField DEF ReportInv, BuildInv, ProcessInv

\* The hash of an undisturbed source is that of what was assembled.
LEMMA HashSourceIsFair ==
    ASSUME ReportInv, NEW p \in Builds, HashSource(p)
    PROVE  FairStep(p)
  <1>0. /\ BuildInv /\ pc[p] = "source" /\ pc[p] \in Linked /\ pc[p] \in Reporting
        /\ Keeps /\ UNCHANGED <<host, request, source, made>>
    BY DEF ReportInv, HashSource, At, Abort, Linked, Reporting
  <1>1. Quiet(p) /\ FileInv'
    BY <1>0, KeepsIsQuiet
  <1>2. CASE Abort(p, "1")
    BY <1>0, <1>1, <1>2, AbortIsFair DEF FairStep
  <1>3. CASE /\ Set(p, "source", source[request[p].source]) /\ Goto(p, "object")
             /\ UNCHANGED <<made, results>>
    <2>1. pc'[p] = "object"
      BY <1>0, <1>3 DEF BuildInv, TableInv, Goto
    <2>2. /\ "source" \in DOMAIN local'[p] /\ local'[p]["source"] = source[request[p].source]
          /\ local'[p]["execution"] = local[p]["execution"]
      BY <1>0, <1>3, NotedStays
    <2>3. ASSUME p \notin disturbed' PROVE TraceInv(p)'
      BY <1>0, <2>1, <2>2, <2>3, ReadingKeeps DEF TraceInv, Describing
    <2> QED
      BY <1>1, <2>3 DEF FairStep
  <1> QED
    BY <1>2, <1>3 DEF HashSource

\* Neither does looking at the files.
LEMMA DescribeIsFair ==
    ASSUME ReportInv, NEW p \in Builds, NEW field \in Fields, Describe(p, field)
    PROVE  FairStep(p)
  <1>0. /\ BuildInv /\ pc[p] \in Describing /\ pc[p] \in Linked /\ pc[p] \in Reporting
        /\ Keeps /\ UNCHANGED <<host, request, source, made>>
    BY DescribeSteps DEF ReportInv, Abort, Linked, Reporting
  <1>1. Quiet(p) /\ FileInv'
    BY <1>0, KeepsIsQuiet
  <1>2. CASE Abort(p, "1")
    BY <1>0, <1>1, <1>2, AbortIsFair DEF FairStep
  <1>3. ASSUME ~Abort(p, "1"), p \notin disturbed' PROVE TraceInv(p)'
    <2>1. PICK note : /\ Set(p, field, note) /\ UNCHANGED results
                      /\ \E label \in Describing \cup {"print"} : Goto(p, label)
      BY <1>3, DescribeSteps
    <2>2. TraceInv(p)
      BY <1>0, <1>3, ReadingKeeps
    <2>3. pc'[p] \in Describing \cup {"print"}
      BY <1>0, <2>1 DEF BuildInv, TableInv, Goto
    <2>4. "source" \in DOMAIN local[p] /\ local[p]["source"] = made[p].source
      BY <1>0, <2>2 DEF TraceInv
    <2>5. field # "source" /\ field # "execution"
      BY DEF Fields
    <2>6. /\ local'[p]["execution"] = local[p]["execution"]
          /\ "source" \in DOMAIN local'[p] /\ local'[p]["source"] = local[p]["source"]
      BY <1>0, <2>1, <2>4, <2>5, NotedStays
    <2> QED
      BY <1>0, <1>3, <2>2, <2>3, <2>4, <2>6, ReadingKeeps DEF TraceInv
  <1> QED
    BY <1>1, <1>2, <1>3 DEF FairStep

\* Neither does printing.
LEMMA PrintReportIsFair ==
    ASSUME ReportInv, NEW p \in Builds, PrintReport(p)
    PROVE  FairStep(p)
  <1>0. /\ BuildInv /\ Keeps /\ UNCHANGED <<host, request, source, made>> /\ pc'[p] = "finish"
    BY DEF ReportInv, BuildInv, TableInv, PrintReport, At, Goto
  <1>1. Quiet(p) /\ FileInv'
    BY <1>0, KeepsIsQuiet
  <1>2. TraceInv(p)'
    BY <1>0 DEF TraceInv, Assembled, Linked, Reporting, Describing
  <1> QED
    BY <1>1, <1>2 DEF FairStep

\* A temporary directory is its process's own.
LEMMA FinishIsFair ==
    ASSUME ReportInv, NEW p \in Builds, Finish(p)
    PROVE  FairStep(p)
  <1>0. /\ BuildInv /\ pc[p] = "finish"
        /\ UNCHANGED <<host, request, source, made, document, disturbed>>
    BY DEF ReportInv, Finish, At
  <1>1. \A q \in Builds : DirOf(q) \in Directories /\ DirOf(q)' = DirOf(q)
    BY <1>0, DirectoriesStay
  <1>2. \/ disk' = disk
        \/ /\ DirOf(p) = TempDir(p)
           /\ disk' = [disk EXCEPT ![DirOf(p)] = [object |-> Nothing, exe |-> Nothing]]
    BY DEF Finish, DirOf
  <1>4. \A q \in Builds \ {p} : Here(q)' = Here(q)
    <2>1. CASE disk' = disk
      BY <1>1, <2>1 DEF Here
    <2>2. CASE /\ DirOf(p) = TempDir(p)
               /\ disk' = [disk EXCEPT ![DirOf(p)] = [object |-> Nothing, exe |-> Nothing]]
      <3>1. \A q \in Builds \ {p} : DirOf(q) # DirOf(p)
        BY <2>2, DirectoriesDiffer
      <3> QED
        BY <1>1, <2>2, <3>1 DEF Here, ReportInv, FileInv
    <2> QED
      BY <1>2, <2>1, <2>2
  <1>5. FileInv'
    <2>1. CASE disk' = disk
      BY <1>0, <2>1, DirectoriesStay DEF ReportInv, FileInv
    <2>2. CASE disk' = [disk EXCEPT ![DirOf(p)] = [object |-> Nothing, exe |-> Nothing]]
      <3>1. disk' = [d \in Directories |-> disk'[d]]
        BY <2>2 DEF ReportInv, FileInv
      <3>2. \A d \in Directories : disk'[d] = [object |-> disk'[d].object, exe |-> disk'[d].exe]
        BY <2>2 DEF ReportInv, FileInv
      <3> QED
        BY <1>0, <3>1, <3>2, DirectoriesStay DEF ReportInv, FileInv
    <2> QED
      BY <1>2, <2>1, <2>2
  <1>6. Quiet(p)
    BY <1>0, <1>4 DEF Quiet
  <1>7. pc'[p] = "done"
    BY <1>0 DEF Finish, Ends, Goto, BuildInv, TableInv
  <1> QED
    BY <1>5, <1>6, <1>7, SilentEnd DEF FairStep

\* What a process does to its files.
LEMMA ProcessStepIsFair ==
    ASSUME ReportInv, NEW p \in Builds, ProcessStep(p)
    PROVE  FairStep(p)
  BY EarlyStepsAreFair, AssembleIsFair, ReadEntryIsFair, LinkIsFair, VerifyArchitectureIsFair,
     RunIsFair, RunFixtureIsFair, HashSourceIsFair, DescribeIsFair, PrintReportIsFair, FinishIsFair
     DEF ProcessStep

------------------------------------------------------------------------------

\* A save of a source disturbs every process that is at work on it.
LEMMA SaveIsFair ==
    ASSUME ReportInv, NEW f \in Files, Save(f)
    PROVE  ReportInv'
  <1>0. UNCHANGED <<host, request, disk, pc, local, made, document, exit>>
    BY DEF Save, results
  <1>1. BuildInv'
    BY <1>0 DEF ReportInv, BuildInv, TableInv, ProcessInv
  <1>2. FileInv'
    BY <1>0, DirectoriesStay DEF Save, ReportInv, FileInv
  <1>3. ASSUME NEW q \in Builds, q \notin disturbed' PROVE TraceInv(q)'
    <2>1. TraceInv(q)
      BY <1>3 DEF Save, ReportInv
    <2>2. pc[q] \in Assembled => source'[request[q].source] = source[request[q].source]
      BY <1>3, LabelsWork DEF Save, ReportInv, FileInv
    <2> QED
      BY <1>0, <2>1, <2>2, DirectoriesStay DEF TraceInv, Here, MadeObject, Object
  <1> QED
    BY <1>1, <1>2, <1>3 DEF ReportInv

\* No process has a file of its own initially.
LEMMA InitReportInv == Init => ReportInv
  <1> SUFFICES ASSUME Init PROVE ReportInv
    OBVIOUS
  <1>1. FileInv
    <2>1. /\ host.temp \in Seq(STRING)
          /\ \A p \in Builds : request[p].source \in Files /\ request[p].out_dir \in Seq(STRING)
      BY BuildAssumption DEF Init
    <2>2. \A d \in Directories : disk[d] = [object |-> Stale, exe |-> Executable(Stale, "_start")]
      BY DEF Init, Directories
    <2>3. disk = [d \in Directories |-> disk[d]]
      BY DEF Init, Directories
    <2> QED
      BY <2>1, <2>2, <2>3 DEF Init, FileInv
  <1>2. ASSUME NEW p \in Builds PROVE TraceInv(p)
    BY DEF Init, TraceInv, Assembled, Linked, Reporting, Describing
  <1> QED
    BY <1>1, <1>2, InitBuildInv DEF ReportInv

\* Every step keeps what every undisturbed process knows.
LEMMA NextReportInv ==
    ASSUME ReportInv, [Next]_vars
    PROVE  ReportInv'
  <1>0. BuildInv
    BY DEF ReportInv
  <1>1. ASSUME NEW p \in Builds, ProcessStep(p)
        PROVE  GoodStep(p) /\ FairStep(p)
    BY <1>0, <1>1, ProcessStepIsGood, ProcessStepIsFair
  <1>2. ASSUME UNCHANGED vars PROVE ReportInv'
    <2>1. BuildInv'
      BY <1>0, <1>2 DEF vars, BuildInv, TableInv, ProcessInv
    <2>2. FileInv'
      BY <1>2, DirectoriesStay DEF vars, ReportInv, FileInv
    <2>3. ASSUME NEW q \in Builds, q \notin disturbed' PROVE TraceInv(q)'
      <3>1. TraceInv(q)
        BY <1>2, <2>3 DEF vars, ReportInv
      <3> QED
        BY <1>2, <3>1, DirectoriesStay DEF vars, TraceInv, Here, MadeObject, Object
    <2> QED
      BY <2>1, <2>2, <2>3 DEF ReportInv
  <1>3. Done => UNCHANGED vars
    BY DEF Done
  <1> QED
    BY <1>1, <1>2, <1>3, Bystanders, SaveIsFair, NextSteps

------------------------------------------------------------------------------
(* The tools.                                                              *)

Roles == {"assembler", "linker", "disassembler", "runner"}

\* A process that has parsed its target holds the tools discover() found for it.
HasTools(p) == /\ request[p].target \in KnownTargets
               /\ \A role \in Roles : /\ role \in DOMAIN local[p]
                                      /\ local[p][role] = discover(host, request[p].target)[role]

Equipped == Labels \ {"target", "finish", "done"}

ToolsInv == /\ BuildInv
            /\ \A p \in Builds : /\ local[p] = Nothing \/ HasTools(p)
                                 /\ pc[p] \in Equipped => HasTools(p)

\* The candidates of a role: one or two, and only a runner may be native.
LEMMA RequiredTools ==
    ASSUME NEW name \in KnownTargets
    PROVE  /\ DOMAIN required_tools(name) = Roles
           /\ \A role \in Roles :
                 /\ DOMAIN required_tools(name)[role] \subseteq {1, 2}
                 /\ role # "runner" =>
                       \A i \in DOMAIN required_tools(name)[role] :
                           required_tools(name)[role][i] \notin Native
  <1>1. CASE name = "x86_64-linux"
    BY <1>1 DEF required_tools, Roles, Native
  <1>2. CASE name = "x86_64-windows"
    BY <1>2 DEF required_tools, Roles, Native
  <1>3. CASE name = "aarch64-linux"
    BY <1>3 DEF required_tools, Roles, Native
  <1>4. CASE name = "riscv64-linux"
    BY <1>4 DEF required_tools, Roles, Native
  <1> QED
    BY <1>1, <1>2, <1>3, <1>4 DEF KnownTargets

\* The effective candidate of a role that was found is on the host.
LEMMA EffectiveIsFound ==
    ASSUME NEW h, NEW slot, DOMAIN slot \subseteq {1, 2}, Found(h, slot) # {}
    PROVE  \E i \in DOMAIN slot : effective(h, slot) = slot[i] /\ probe(h, slot[i])
  <1>1. Found(h, slot) \in SUBSET {1, 2}
    BY DEF Found
  <1>2. \E i \in Found(h, slot) : \A j \in Found(h, slot) : i <= j
    BY <1>1
  <1>3. resolved(h, slot) \in Found(h, slot)
    BY <1>2, Zenon DEF resolved
  <1>4. effective(h, slot) = slot[resolved(h, slot)]
    BY DEF effective
  <1> QED
    BY <1>3, <1>4 DEF Found

\* When every role is found, discover() names programs of the host.
LEMMA DiscoverResolves ==
    ASSUME NEW h, NEW name \in KnownTargets, all_found(h, name)
    PROVE  /\ \A role \in Roles \ {"runner"} : discover(h, name)[role] \in h.path
           /\ discover(h, name).runner \in h.path \cup {"__native__"}
  <1> DEFINE tool(role) == effective(h, required_tools(name)[role])
  <1>1. ASSUME NEW role \in Roles
        PROVE  probe(h, tool(role)) /\ (role # "runner" => tool(role) \notin Native)
    <2>1. /\ DOMAIN required_tools(name)[role] \subseteq {1, 2}
          /\ Found(h, required_tools(name)[role]) # {}
      BY RequiredTools DEF all_found
    <2> QED
      BY <2>1, RequiredTools, EffectiveIsFound
  <1>2. ASSUME NEW kind, probe(h, kind), kind \notin Native PROVE binary(kind) \in h.path
    BY <1>2 DEF probe, Native
  <1>3. /\ "assembler" \in Roles /\ "linker" \in Roles /\ "disassembler" \in Roles
        /\ "runner" \in Roles
    BY DEF Roles
  <1>4. discover(h, name) =
           [assembler |-> binary(tool("assembler")), linker |-> binary(tool("linker")),
            disassembler |-> binary(tool("disassembler")),
            runner |-> IF tool("runner") \in Native /\ probe(h, tool("runner"))
                       THEN "__native__" ELSE binary(tool("runner"))]
    BY DEF discover
  <1> HIDE DEF tool
  <1>5. /\ binary(tool("assembler")) \in h.path /\ binary(tool("linker")) \in h.path
        /\ binary(tool("disassembler")) \in h.path
    BY <1>1, <1>2, <1>3
  <1>6. tool("runner") \notin Native => binary(tool("runner")) \in h.path
    BY <1>1, <1>2, <1>3
  <1>7. discover(h, name).runner \in h.path \cup {"__native__"}
    BY <1>1, <1>3, <1>4, <1>6
  <1> QED
    BY <1>4, <1>5, <1>7 DEF Roles

\* What a step of a process does to its local variables.
ToolStep(p) ==
    \/ local' = local /\ (pc'[p] \in Equipped => pc[p] \in Equipped)
    \/ /\ pc[p] \in Equipped
       /\ \E field, value : field \notin Roles /\ Set(p, field, value)
    \/ /\ request[p].target \in KnownTargets
       /\ local' = [local EXCEPT ![p] = discover(host, request[p].target)]

\* The only steps that touch a tool resolve all of them.
LEMMA StepsKeepTools ==
    ASSUME ToolsInv, NEW p \in Builds, ProcessStep(p)
    PROVE  ToolStep(p) /\ UNCHANGED <<host, request>>
  <1>1. DOMAIN pc = Builds
    BY DEF ToolsInv, BuildInv, TableInv
  <1>2. \A label : Goto(p, label) => pc'[p] = label
    BY <1>1 DEF Goto
  <1>3. UNCHANGED <<host, request>>
    BY DescribeSteps DEF ProcessStep, ParseTarget, CreateDir, Assemble, ReadEntry, Link,
       VerifyArchitecture, Run, RunFixture, HashSource, PrintReport, Finish, At
  <1>4. \A code : Abort(p, code) => ToolStep(p)
    BY <1>2 DEF Abort, Ends, ToolStep, Equipped
  <1>5. \A code : Ends(p, code) /\ local' = local => ToolStep(p)
    BY <1>2 DEF Ends, ToolStep, Equipped
  <1>6. {"dir", "assemble", "entry", "link", "verify", "run", "source", "print"} \cup Describing \subseteq Equipped
    BY DEF Equipped, Labels, Reporting, Describing
  <1>7. \A label : Goto(p, label) /\ local' = local /\ (label \in Equipped => pc[p] \in Equipped) => ToolStep(p)
    BY <1>2 DEF ToolStep
  <1>8. \A field \in {"ao", "entry", "lo", "execution", "source", "object", "exe"} : \A value :
           pc[p] \in Equipped /\ Set(p, field, value) => ToolStep(p)
    BY DEF ToolStep, Roles
  <1>9. CASE ParseTarget(p)
    <2>1. CASE Ends(p, "2") /\ UNCHANGED <<local, document>>
      BY <1>3, <1>5, <2>1
    <2>2. CASE /\ request[p].target \in KnownTargets
               /\ local' = [local EXCEPT ![p] = discover(host, request[p].target)]
      BY <1>3, <2>2 DEF ToolStep
    <2>3. CASE Goto(p, "finish") /\ UNCHANGED <<local, exit>>
      BY <1>3, <1>7, <2>3 DEF Equipped
    <2> QED
      BY <1>3, <1>9, <2>1, <2>2, <2>3 DEF ParseTarget
  <1>10. CASE CreateDir(p)
    BY <1>3, <1>4, <1>6, <1>7, <1>10 DEF CreateDir, At
  <1>11. CASE Assemble(p)
    BY <1>3, <1>4, <1>6, <1>8, <1>11 DEF Assemble, At
  <1>12. CASE Link(p)
    BY <1>3, <1>4, <1>6, <1>8, <1>12 DEF Link, At
  <1>13. CASE VerifyArchitecture(p)
    BY <1>3, <1>4, <1>6, <1>7, <1>13 DEF VerifyArchitecture, At
  <1>14. CASE Run(p)
    BY <1>3, <1>6, <1>8, <1>14 DEF Run, At
  <1>15. CASE RunFixture(p)
    BY <1>3, <1>4, <1>5, <1>15 DEF RunFixture
  <1>16. CASE HashSource(p)
    BY <1>3, <1>4, <1>6, <1>8, <1>16 DEF HashSource, At
  <1>17. CASE \E field \in Fields : Describe(p, field)
    <2> PICK field \in Fields : Describe(p, field)
      BY <1>17
    <2>1. CASE Abort(p, "1")
      BY <1>3, <1>4, <2>1
    <2>2. CASE \E note : Set(p, field, note)
      <3>1. pc[p] \in Equipped /\ field \in {"ao", "entry", "lo", "execution", "source", "object", "exe"}
        BY <1>6, DescribeSteps DEF Fields
      <3> QED
        BY <1>3, <1>8, <2>2, <3>1
    <2> QED
      BY <2>1, <2>2, DescribeSteps
  <1>18. CASE ReadEntry(p)
    BY <1>3, <1>6, <1>8, <1>18 DEF ReadEntry, At
  <1>19. CASE PrintReport(p)
    BY <1>3, <1>7, <1>19 DEF PrintReport, Equipped
  <1>20. CASE Finish(p)
    BY <1>3, <1>5, <1>20 DEF Finish
  <1> QED
    BY <1>9, <1>10, <1>11, <1>12, <1>13, <1>14, <1>15, <1>16, <1>17, <1>18, <1>19, <1>20 DEF ProcessStep

\* Every step keeps ToolsInv.
LEMMA NextToolsInv ==
    ASSUME ToolsInv, [Next]_vars
    PROVE  ToolsInv'
  <1>0. BuildInv /\ TableInv
    BY DEF ToolsInv, BuildInv
  <1>1. ASSUME NEW p \in Builds, ProcessStep(p)
        PROVE  ToolsInv'
    <2>1. GoodStep(p)
      BY <1>0, <1>1, ProcessStepIsGood
    <2>2. BuildInv' /\ \A q \in Builds \ {p} : local'[q] = local[q] /\ pc'[q] = pc[q]
      BY <1>0, <2>1, OneProcess DEF GoodStep, OnlyOf
    <2>3. ToolStep(p) /\ UNCHANGED <<host, request>>
      BY <1>1, StepsKeepTools
    <2>4. \A q \in Builds : local'[q] = local[q] /\ HasTools(q) => HasTools(q)'
      BY <2>3 DEF HasTools
    <2>5. /\ local'[p] = Nothing \/ HasTools(p)'
          /\ pc'[p] \in Equipped => HasTools(p)'
      <3>1. CASE local' = local /\ (pc'[p] \in Equipped => pc[p] \in Equipped)
        BY <2>4, <3>1 DEF ToolsInv
      <3>2. CASE /\ pc[p] \in Equipped
                 /\ \E field, value : field \notin Roles /\ Set(p, field, value)
        <4>1. PICK field, value : field \notin Roles /\ Set(p, field, value)
          BY <3>2
        <4>2. HasTools(p)
          BY <3>2 DEF ToolsInv
        <4>3. \A f \in DOMAIN local[p] : f # field =>
                 f \in DOMAIN local'[p] /\ local'[p][f] = local[p][f]
          BY <1>0, <4>1, SetField
        <4>4. HasTools(p)'
          BY <2>3, <4>1, <4>2, <4>3 DEF HasTools
        <4> QED
          BY <4>4
      <3>3. CASE /\ request[p].target \in KnownTargets
                 /\ local' = [local EXCEPT ![p] = discover(host, request[p].target)]
        <4>1. local'[p] = discover(host, request[p].target)
          BY <1>0, <3>3 DEF TableInv
        <4>2. DOMAIN discover(host, request[p].target) = Roles
          BY DEF discover, Roles
        <4>3. HasTools(p)'
          BY <2>3, <3>3, <4>1, <4>2 DEF HasTools
        <4> QED
          BY <4>3
      <3> QED
        BY <2>3, <3>1, <3>2, <3>3 DEF ToolStep
    <2> QED
      BY <2>2, <2>4, <2>5 DEF ToolsInv
  <1>2. ASSUME UNCHANGED <<host, request, pc, local, document, exit>> PROVE ToolsInv'
    <2>1. BuildInv'
      BY <1>0, <1>2 DEF BuildInv, TableInv, ProcessInv
    <2> QED
      BY <1>2, <2>1 DEF ToolsInv, HasTools
  <1>3. (\E f \in Files : Save(f)) \/ Done \/ UNCHANGED vars =>
           UNCHANGED <<host, request, pc, local, document, exit>>
    BY DEF Save, Done, vars, results
  <1> QED
    BY <1>1, <1>2, <1>3, NextSteps

\* On every host and for every target: once all roles are found, the programs the
\* pipeline starts are on the PATH it looked at, however many steps and processes
\* lie between, or the artifact is its own runner.
THEOREM ToolsAreFound == Spec => []ToolsResolve
  <1>1. Init => ToolsInv
    BY InitBuildInv DEF Init, ToolsInv, Equipped
  <1>2. ToolsInv /\ [Next]_vars => ToolsInv'
    BY NextToolsInv
  <1>3. ToolsInv => ToolsResolve
    <2> SUFFICES ASSUME ToolsInv, NEW p \in Builds, local[p] # Nothing,
                        all_found(host, request[p].target)
                 PROVE  /\ {local[p].assembler, local[p].linker, local[p].disassembler} \subseteq host.path
                        /\ local[p].runner \in host.path \cup {"__native__"}
      BY DEF ToolsResolve
    <2>1. HasTools(p)
      BY DEF ToolsInv
    <2>2. /\ \A role \in Roles \ {"runner"} : discover(host, request[p].target)[role] \in host.path
          /\ discover(host, request[p].target).runner \in host.path \cup {"__native__"}
      BY <2>1, DiscoverResolves DEF HasTools
    <2>3. /\ local[p].assembler \in host.path /\ local[p].linker \in host.path
          /\ local[p].disassembler \in host.path
          /\ local[p].runner = discover(host, request[p].target).runner
      BY <2>1, <2>2 DEF HasTools, Roles
    <2> QED
      BY <2>2, <2>3
  <1> QED
    BY <1>1, <1>2, <1>3, PTL DEF Spec

------------------------------------------------------------------------------
(* What the parsers of report.rs read is what objdump printed.             *)

\* A word that cannot be taken for the size of a symbol.
Short(word) == word.hex => word.len \in Nat /\ word.len < 8

SymbolEntry(line) ==
    LET k == Min(SizeIndexes(line)) IN
    [name |-> Last(line).s, address |-> Value(line[1]), size |-> Value(line[k]),
     section |-> line[k - 1].s, kind |-> IF line[2].len = 1 THEN line[2].s ELSE "?"]

\* The parsers read a number as it was printed.
LEMMA NumberWords ==
    \A n, len : /\ Hex(n, len).hex /\ Hex(n, len).len = len /\ Hex(n, len).s = "number"
                /\ Value(Hex(n, len)) = n /\ ~Hex(n, len).digits
                /\ Decimal(n).digits /\ Decimal(n).s = "number"
  BY DEF Hex, HexName, Word, Decimal, Value

\* A word that is not a number.
LEMMA PlainWords ==
    \A s, len : /\ ~Word(s, len).hex /\ ~Word(s, len).digits
                /\ Word(s, len).s = s /\ Word(s, len).len = len
                /\ Word(s, len).dynamic = (s = "DYNAMIC")
  BY DEF Word

\* A set with one number has that number as its least.
LEMMA MinOfOne ==
    ASSUME NEW k \in Int
    PROVE  Min({k}) = k
  <1>1. \E x \in {k} : \A y \in {k} : x =< y
    OBVIOUS
  <1> QED
    BY <1>1, Zenon DEF Min

\* Two sequences, one after the other.
LEMMA Concatenated ==
    ASSUME NEW S, NEW s \in Seq(S), NEW t \in Seq(S)
    PROVE  /\ s \o t \in Seq(S) /\ Len(s \o t) = Len(s) + Len(t)
           /\ \A i \in 1..Len(s) : (s \o t)[i] = s[i]
           /\ \A i \in 1..Len(t) : (s \o t)[Len(s) + i] = t[i]
  OBVIOUS

\* The words of a line put together of a head and three words.
LEMMA LineOf ==
    ASSUME NEW S, NEW head \in Seq(S), NEW tail \in Seq(S), Len(head) \in {1, 3}, Len(tail) = 3
    PROVE  /\ Len(head \o tail) = Len(head) + 3 /\ (head \o tail)[1] = head[1]
           /\ Len(head) = 3 => (head \o tail)[3] = head[3]
           /\ (head \o tail)[Len(head) + 1] = tail[1]
           /\ (head \o tail)[Len(head) + 2] = tail[2]
           /\ (head \o tail)[Len(head) + 3] = tail[3]
  <1>0. Len(head \o tail) = Len(head) + Len(tail)
    BY Concatenated, Zenon
  <1>1. Len(head \o tail) = Len(head) + 3
    BY <1>0
  <1>2. (head \o tail)[1] = head[1] /\ (Len(head) = 3 => (head \o tail)[3] = head[3])
    OBVIOUS
  <1>3. (head \o tail)[Len(head) + 1] = tail[1]
    OBVIOUS
  <1>4. (head \o tail)[Len(head) + 2] = tail[2]
    OBVIOUS
  <1>5. (head \o tail)[Len(head) + 3] = tail[3]
    BY <1>1
  <1> QED
    BY <1>1, <1>2, <1>3, <1>4, <1>5

\* A line of the symbol table reads back as the symbol.
LEMMA SymbolLineReads ==
    ASSUME NEW sym, Short(sym.section)
    PROVE  LET line == SymbolLine(sym) IN
           /\ Len(line) >= 4 /\ line[1].s # "SYMBOL" /\ SizeIndexes(line) # {}
           /\ SymbolEntry(line).name = sym.name.s /\ SymbolEntry(line).address = sym.address
           /\ SymbolEntry(line).size = sym.size /\ SymbolEntry(line).section = sym.section.s
  <1> DEFINE line == SymbolLine(sym)
             k == Len(line) - 1
  <1> DEFINE address == Hex(sym.address, 16)
             size == Hex(sym.size, 16)
             g == Word("g", 1)
             f == Word("F", 1)
             words == {address, size, sym.section, sym.name, g, f}
             flags == IF sym.section.s = "*UND*" THEN <<>> ELSE <<g, f>>
             head == <<address>> \o flags
             tail == <<sym.section, size, sym.name>>
  <1>1. line = head \o tail
    BY DEF SymbolLine
  <1>a. /\ address \in words /\ size \in words /\ sym.section \in words /\ sym.name \in words
        /\ g \in words /\ f \in words
    BY DEF words
  <1> HIDE DEF line, words, address, size, g, f
  <1>b. /\ tail \in Seq(words) /\ Len(tail) = 3
        /\ tail[1] = sym.section /\ tail[2] = size /\ tail[3] = sym.name
    BY <1>a
  <1>c. /\ head \in Seq(words) /\ Len(head) \in {1, 3} /\ head[1] = address
        /\ Len(head) = 3 => head[3] = f
    <2>1. <<address>> \in Seq(words) /\ Len(<<address>>) = 1 /\ <<address>>[1] = address
      BY <1>a
    <2>2. CASE flags = <<>>
      BY <2>1, <2>2
    <2>3. CASE flags = <<g, f>>
      <3>1. <<g, f>> \in Seq(words) /\ Len(<<g, f>>) = 2 /\ <<g, f>>[2] = f
        BY <1>a
      <3>2. /\ head \in Seq(words) /\ Len(head) = 1 + 2 /\ head[1] = <<address>>[1]
            /\ head[1 + 2] = <<g, f>>[2]
        BY <2>1, <2>3, <3>1, Concatenated
      <3> QED
        BY <2>1, <3>1, <3>2
    <2> QED
      BY <2>2, <2>3
  <1> HIDE DEF head, tail
  <1>d. /\ Len(line) = Len(head) + 3 /\ line[1] = address
        /\ Len(head) = 3 => line[3] = f
        /\ line[Len(head) + 1] = sym.section /\ line[Len(head) + 2] = size
        /\ line[Len(head) + 3] = sym.name
    BY <1>1, <1>b, <1>c, LineOf
  <1>2. /\ Len(line) \in {4, 6} /\ line[1] = address
        /\ line[k] = size /\ line[k - 1] = sym.section /\ line[Len(line)] = sym.name
        /\ Len(line) = 6 => line[3] = f /\ line[4] = sym.section
    <2>1. CASE Len(head) = 1
      BY <1>d, <2>1
    <2>2. CASE Len(head) = 3
      BY <1>d, <2>2
    <2> QED
      BY <1>c, <2>1, <2>2
  <1> HIDE DEF k
  <1>n. /\ address.s = "number" /\ Value(address) = sym.address /\ size.hex /\ size.len = 16
        /\ Value(size) = sym.size
    BY NumberWords DEF address, size
  <1>3. SizeIndexes(line) = {k}
    <2>0. k \in {3, 5} /\ k = Len(line) - 1 /\ 3 <= k
      <3>1. CASE Len(line) = 4
        BY <3>1 DEF k
      <3>2. CASE Len(line) = 6
        BY <3>2 DEF k
      <3> QED
        BY <1>2, <3>1, <3>2
    <2>1. ASSUME NEW i \in SizeIndexes(line) PROVE i = k
      <3>1. i \in 3..k /\ line[i].hex /\ line[i].len >= 8
        BY <2>0, <2>1 DEF SizeIndexes
      <3>2. CASE k = 3
        BY <3>1, <3>2
      <3>3. CASE k = 5
        <4>1. i # 3
          BY <1>2, <2>0, <3>1, <3>3, PlainWords DEF f
        <4>2. i # 4
          BY <1>2, <2>0, <3>1, <3>3 DEF Short
        <4> QED
          BY <3>1, <3>3, <4>1, <4>2
      <3> QED
        BY <2>0, <3>2, <3>3
    <2>2. line[k].hex /\ line[k].len >= 8
      BY <1>2, <1>n
    <2>3. ~(line[k - 1].hex /\ line[k - 1].len >= 12)
      BY <1>2 DEF Short
    <2>4. k \in SizeIndexes(line)
      BY <2>0, <2>2, <2>3 DEF SizeIndexes
    <2> QED
      BY <2>1, <2>4
  <1>4. Min(SizeIndexes(line)) = k
    BY <1>2, <1>3, MinOfOne DEF k
  <1>5. /\ SymbolEntry(line).name = line[Len(line)].s /\ SymbolEntry(line).address = Value(line[1])
        /\ SymbolEntry(line).size = Value(line[k]) /\ SymbolEntry(line).section = line[k - 1].s
    BY <1>4 DEF SymbolEntry, Last
  <1>6. line[1].s # "SYMBOL"
    BY <1>2, <1>n
  <1>7. /\ Len(line) >= 4 /\ line[1].s # "SYMBOL" /\ SizeIndexes(line) # {}
        /\ SymbolEntry(line).name = sym.name.s /\ SymbolEntry(line).address = sym.address
        /\ SymbolEntry(line).size = sym.size /\ SymbolEntry(line).section = sym.section.s
    <2>1. Len(line) >= 4 /\ SizeIndexes(line) # {}
      BY <1>2, <1>3, SMTT(30)
    <2> QED
      BY <1>2, <1>5, <1>6, <1>n, <2>1
  <1> QED
    BY <1>7 DEF line

\* A text in two pieces: its lines are those of the pieces.
LEMMA TextOf ==
    ASSUME NEW S, NEW head \in Seq(S), NEW rows \in Seq(S)
    PROVE  LET text == head \o rows IN
           /\ text \in Seq(S) /\ Len(text) = Len(head) + Len(rows)
           /\ DOMAIN text = 1..(Len(head) + Len(rows))
           /\ \A i \in 1..Len(head) : text[i] = head[i]
           /\ \A i \in 1..Len(rows) : text[Len(head) + i] = rows[i]
           /\ \A i \in DOMAIN text : \/ i \in 1..Len(head)
                                     \/ \E j \in 1..Len(rows) : i = Len(head) + j
  <1>1. Len(head) \in Nat /\ Len(rows) \in Nat
    OBVIOUS
  <1>2. head \o rows \in Seq(S) /\ Len(head \o rows) = Len(head) + Len(rows)
    OBVIOUS
  <1>3. DOMAIN (head \o rows) = 1..(Len(head) + Len(rows))
    BY <1>2
  <1>4. \A i \in 1..Len(head) : (head \o rows)[i] = head[i]
    OBVIOUS
  <1>5. \A i \in 1..Len(rows) : (head \o rows)[Len(head) + i] = rows[i]
    OBVIOUS
  <1>6. ASSUME NEW i \in 1..(Len(head) + Len(rows))
        PROVE  \/ i \in 1..Len(head)
               \/ \E j \in 1..Len(rows) : i = Len(head) + j
    <2>1. CASE i <= Len(head)
      BY <1>1, <2>1
    <2>2. CASE i > Len(head)
      <3>1. i - Len(head) \in 1..Len(rows) /\ i = Len(head) + (i - Len(head))
        BY <1>1, <2>2
      <3> QED
        BY <3>1
    <2> QED
      BY <1>1, <2>1, <2>2
  <1> QED
    BY <1>2, <1>3, <1>4, <1>5, <1>6

FirstLine(path) == <<PathWord(path), Word("file", 4), Word("format", 6), Word("elf64", 5)>>

\* What precedes a table says nothing of its rows.
LEMMA BannerLines ==
    ASSUME NEW path
    PROVE  LET line == FirstLine(path) IN
           /\ Banner(path) = <<line, <<>>>>
           /\ Len(line) = 4 /\ line[1].s = "path" /\ ~line[1].digits /\ SizeIndexes(line) = {}
           /\ line[1].dynamic = MentionsDynamic(path) /\ DOMAIN line = 1..4
           /\ ~line[2].dynamic /\ ~line[3].dynamic /\ ~line[4].dynamic
  <1> DEFINE a == PathWord(path)
             b == Word("file", 4)
             c == Word("format", 6)
             d == Word("elf64", 5)
             line == <<a, b, c, d>>
  <1>1. Banner(path) = <<line, <<>>>> /\ FirstLine(path) = line
    BY DEF Banner, FirstLine
  <1>2. /\ a.s = "path" /\ ~a.digits /\ ~c.hex /\ a.dynamic = MentionsDynamic(path)
        /\ ~b.dynamic /\ ~c.dynamic /\ ~d.dynamic
    <2>1. a.s = "path" /\ ~a.digits /\ a.dynamic = MentionsDynamic(path)
      BY DEF PathWord, Word
    <2>2. ~c.hex /\ ~b.dynamic /\ ~c.dynamic /\ ~d.dynamic
      BY PlainWords
    <2> QED
      BY <2>1, <2>2
  <1> HIDE DEF a, b, c, d
  <1>3. Len(line) = 4 /\ line[1] = a /\ line[2] = b /\ line[3] = c /\ line[4] = d /\ DOMAIN line = 1..4
    OBVIOUS
  <1> HIDE DEF line
  <1>4. SizeIndexes(line) = {}
    <2>1. ASSUME NEW i \in SizeIndexes(line) PROVE FALSE
      <3>1. i \in 3..(4 - 1) /\ line[i].hex
        BY <1>3, <2>1 DEF SizeIndexes
      <3>2. i = 3
        BY <3>1
      <3> QED
        BY <1>2, <1>3, <3>1, <3>2
    <2> QED
      BY <2>1
  <1> QED
    BY <1>1, <1>2, <1>3, <1>4

SymbolEntries(text) == {i \in DOMAIN text : /\ Len(text[i]) >= 4 /\ text[i][1].s # "SYMBOL"
                                            /\ SizeIndexes(text[i]) # {}}
SymbolParts(s) == <<s.name, s.address, s.size, s.section>>
SymbolOf(sym) == <<sym.name.s, sym.address, sym.size, sym.section.s>>

\* parse_symbols finds in a printed table the symbols of the image, all of them
\* and nothing else, whatever their names, if no section has a name that could
\* be taken for a size.
LEMMA SymbolsReadBack ==
    ASSUME NEW path, NEW image, NEW n \in Nat, DOMAIN image.symbols = 1..n,
           \A i \in 1..n : Short(image.symbols[i].section)
    PROVE  {SymbolParts(s) : s \in parse_symbols(PrintSymbols(path, image))} =
              {SymbolOf(sym) : sym \in Range(image.symbols)}
  <1> DEFINE first == FirstLine(path)
             title == <<Word("SYMBOL", 6), Word("TABLE:", 6)>>
             rows == [i \in DOMAIN image.symbols |-> SymbolLine(image.symbols[i])]
             S == {first, <<>>, title} \cup {SymbolLine(image.symbols[i]) : i \in 1..n}
             head == Banner(path) \o <<title>>
             text == PrintSymbols(path, image)
  <1>1. text = head \o rows
    BY DEF PrintSymbols
  <1>2. Len(title) = 2
    OBVIOUS
  <1>3. Banner(path) = <<first, <<>>>> /\ Len(first) = 4 /\ SizeIndexes(first) = {}
    BY BannerLines
  <1>4. first \in S /\ <<>> \in S /\ title \in S /\ \A i \in 1..n : SymbolLine(image.symbols[i]) \in S
    OBVIOUS
  <1> HIDE DEF first, title, S, text
  <1>5. /\ head \in Seq(S) /\ Len(head) = 3
        /\ head[1] = first /\ head[2] = <<>> /\ head[3] = title
    <2>1. /\ <<first, <<>>>> \in Seq(S) /\ Len(<<first, <<>>>>) = 2
          /\ <<first, <<>>>>[1] = first /\ <<first, <<>>>>[2] = <<>>
      BY <1>4
    <2>2. <<title>> \in Seq(S) /\ Len(<<title>>) = 1 /\ <<title>>[1] = title
      BY <1>4
    <2> QED
      BY <1>3, <2>1, <2>2, TextOf
  <1>6. rows \in Seq(S) /\ Len(rows) = n /\ \A i \in 1..n : rows[i] = SymbolLine(image.symbols[i])
    BY <1>4
  <1> HIDE DEF head, rows
  <1>7. /\ DOMAIN text = 1..(3 + n)
        /\ \A i \in 1..3 : text[i] = head[i]
        /\ \A i \in 1..n : text[3 + i] = SymbolLine(image.symbols[i])
        /\ \A i \in DOMAIN text : i \in 1..3 \/ \E j \in 1..n : i = 3 + j
    <2>1. head \in Seq(S) /\ rows \in Seq(S)
      BY <1>5, <1>6
    <2>2. /\ DOMAIN text = 1..(Len(head) + Len(rows))
          /\ \A i \in 1..Len(head) : text[i] = head[i]
          /\ \A i \in 1..Len(rows) : text[Len(head) + i] = rows[i]
          /\ \A i \in DOMAIN text : \/ i \in 1..Len(head)
                                    \/ \E j \in 1..Len(rows) : i = Len(head) + j
      BY <1>1, <2>1, TextOf
    <2> QED
      BY <1>5, <1>6, <2>2
  <1>8. \A i \in 1..3 : i \notin SymbolEntries(text)
    <2>1. 1 \notin SymbolEntries(text)
      BY <1>3, <1>5, <1>7 DEF SymbolEntries
    <2>2. 2 \notin SymbolEntries(text)
      BY <1>5, <1>7 DEF SymbolEntries
    <2>3. 3 \notin SymbolEntries(text)
      <3>1. text[3] = title
        BY <1>5, <1>7
      <3>2. ~(Len(text[3]) >= 4)
        BY <3>1 DEF title
      <3> QED
        BY <3>2 DEF SymbolEntries
    <2>4. \A i \in 1..3 : i = 1 \/ i = 2 \/ i = 3
      OBVIOUS
    <2> QED
      BY <2>1, <2>2, <2>3, <2>4
  <1>9. ASSUME NEW j \in 1..n
        PROVE  /\ 3 + j \in SymbolEntries(text)
               /\ SymbolParts(SymbolEntry(text[3 + j])) = SymbolOf(image.symbols[j])
    <2> DEFINE line == SymbolLine(image.symbols[j])
    <2>1. /\ Len(line) >= 4 /\ line[1].s # "SYMBOL" /\ SizeIndexes(line) # {}
          /\ SymbolParts(SymbolEntry(line)) = SymbolOf(image.symbols[j])
      BY SymbolLineReads DEF SymbolParts, SymbolOf
    <2> HIDE DEF line
    <2>2. text[3 + j] = line /\ 3 + j \in DOMAIN text
      BY <1>7 DEF line
    <2> QED
      BY <2>1, <2>2 DEF SymbolEntries
  <1>10. parse_symbols(text) = {SymbolEntry(text[i]) : i \in SymbolEntries(text)}
    BY DEF parse_symbols, SymbolEntry, SymbolEntries
  <1>11. Range(image.symbols) = {image.symbols[j] : j \in 1..n}
    BY DEF Range
  <1>12. \A i \in SymbolEntries(text) : \E j \in 1..n : i = 3 + j
    BY <1>7, <1>8 DEF SymbolEntries
  <1>13. {SymbolParts(s) : s \in parse_symbols(text)} = {SymbolParts(SymbolEntry(text[i])) : i \in SymbolEntries(text)}
    BY <1>10
  <1>14. {SymbolOf(sym) : sym \in Range(image.symbols)} = {SymbolOf(image.symbols[j]) : j \in 1..n}
    BY <1>11
  <1>15. {SymbolParts(SymbolEntry(text[i])) : i \in SymbolEntries(text)} = {SymbolOf(image.symbols[j]) : j \in 1..n}
    <2>1. ASSUME NEW i \in SymbolEntries(text)
          PROVE  \E j \in 1..n : SymbolParts(SymbolEntry(text[i])) = SymbolOf(image.symbols[j])
      BY <1>9, <1>12
    <2>2. ASSUME NEW j \in 1..n
          PROVE  \E i \in SymbolEntries(text) : SymbolOf(image.symbols[j]) = SymbolParts(SymbolEntry(text[i]))
      BY <1>9
    <2> QED
      BY <2>1, <2>2
  <1> QED
    BY <1>13, <1>14, <1>15 DEF text

SectionEntries(text) == {j \in Body(text) : Len(text[j]) >= 4 /\ text[j][1].digits}
SectionParts(s) == <<s.name, s.size, s.vma>>
SectionOf(sec) == <<sec.name.s, sec.size, sec.vma>>

\* A line that describes a section.
Describes(line, sec) ==
    /\ Len(line) >= 4 /\ line[1].digits /\ line # <<>>
    /\ line[2] = sec.name /\ Value(line[3]) = sec.size /\ Value(line[4]) = sec.vma

\* A line that cannot be a row of the table.
NoRow(line) == ~(Len(line) >= 4) \/ ~line[1].digits

\* A table of m lines whose rows, below the header, describe sections.
Table(text, m, rows, secs) ==
    /\ m \in Nat /\ m >= 4 /\ DOMAIN text = 1..m
    /\ text[4] # <<>> /\ text[4][1].s = "Idx" /\ \A i \in 5..m : text[i] # <<>>
    /\ rows \in SUBSET (5..m) /\ \A i \in rows : Describes(text[i], secs[i])
    /\ \A i \in 1..m : i \notin rows => NoRow(text[i])
Reads(text, rows, secs) ==
    {SectionParts(s) : s \in parse_sections(text)} = {SectionOf(secs[i]) : i \in rows}

\* The rows of a table are read, each as the section it describes; the other
\* lines below the header are continuations or are too short.
LEMMA TableReads ==
    ASSUME NEW text, NEW m, NEW rows, NEW secs, Table(text, m, rows, secs)
    PROVE  Reads(text, rows, secs)
  <1>0. /\ m \in Nat /\ m >= 4 /\ DOMAIN text = 1..m
        /\ text[4] # <<>> /\ text[4][1].s = "Idx" /\ \A i \in 5..m : text[i] # <<>>
        /\ rows \in SUBSET (5..m) /\ \A i \in rows : Describes(text[i], secs[i])
        /\ \A i \in 1..m : i \notin rows => NoRow(text[i])
    BY DEF Table
  <1> DEFINE entry(line) == [name |-> line[2].s, size |-> Value(line[3]), vma |-> Value(line[4]),
                             flags |-> IF Len(line) > 4 THEN line[5].s ELSE ""]
  <1>1. parse_sections(text) = {entry(text[i]) : i \in SectionEntries(text)}
    BY DEF parse_sections, SectionEntries
  <1>2. ASSUME NEW i \in rows PROVE i \in SectionEntries(text)
    <2>1. i \in 5..m /\ 4 \in 1..(i - 1) /\ \A j \in 4..i : j = 4 \/ j \in 5..m
      BY <1>0
    <2>2. i \in Body(text)
      BY <1>0, <2>1 DEF Body
    <2> QED
      BY <1>0, <2>2 DEF SectionEntries, Describes
  <1>3. SectionEntries(text) \subseteq rows
    BY <1>0 DEF SectionEntries, Body, NoRow
  <1>4. SectionEntries(text) = rows
    BY <1>2, <1>3
  <1>5. ASSUME NEW i \in rows PROVE SectionParts(entry(text[i])) = SectionOf(secs[i])
    BY <1>0 DEF Describes, SectionParts, SectionOf
  <1> HIDE DEF entry
  <1>6. {SectionParts(s) : s \in parse_sections(text)} = {SectionParts(entry(text[i])) : i \in rows}
    BY <1>1, <1>4
  <1> QED
    BY <1>5, <1>6 DEF Reads

NullRow == <<Decimal(0), Hex(0, 8), Hex(0, 16)>>
SectionsTitle == <<Word("Sections:", 9)>>
Continuation == <<Word("CONTENTS,", 9), Word("ALLOC,", 6), Word("LOAD,", 5), Word("CODE", 4)>>
SectionRow(i, sec, last) == <<Decimal(i), sec.name, Hex(sec.size, 8), Hex(sec.vma, 16), last>>

\* The lines of a table of sections that are no rows.
LEMMA OtherLines ==
    /\ NoRow(<<>>) /\ NoRow(SectionsTitle) /\ NoRow(Header) /\ NoRow(NullRow) /\ NoRow(Continuation)
    /\ Header # <<>> /\ Header[1].s = "Idx" /\ NullRow # <<>> /\ Continuation # <<>>
  <1>1. \A a, b, c, d : /\ Len(<<a>>) = 1 /\ Len(<<a, b, c>>) = 3 /\ <<a, b, c>> # <<>>
                        /\ <<a, b, c, d>> # <<>> /\ <<a, b, c, d>>[1] = a
    OBVIOUS
  <1>2. Len(<<>>) = 0
    OBVIOUS
  <1>3. NoRow(<<>>)
    BY <1>2 DEF NoRow
  <1>4. Len(SectionsTitle) = 1 /\ Len(NullRow) = 3 /\ NullRow # <<>>
    BY <1>1 DEF SectionsTitle, NullRow
  <1>5. Header # <<>> /\ Header[1] = Word("Idx", 3)
    BY <1>1 DEF Header
  <1>6. Continuation # <<>> /\ Continuation[1] = Word("CONTENTS,", 9)
    BY <1>1 DEF Continuation
  <1>7. NoRow(SectionsTitle) /\ NoRow(NullRow)
    BY <1>4 DEF NoRow
  <1>8. ~Header[1].digits /\ Header[1].s = "Idx" /\ ~Continuation[1].digits
    <2> DEFINE a == Word("Idx", 3)
               b == Word("CONTENTS,", 9)
    <2>1. ~a.digits /\ a.s = "Idx" /\ ~b.digits
      BY PlainWords
    <2>2. Header[1] = a /\ Continuation[1] = b
      BY <1>5, <1>6
    <2> HIDE DEF a, b
    <2> QED
      BY <2>1, <2>2
  <1>9. NoRow(Header) /\ NoRow(Continuation)
    BY <1>8 DEF NoRow
  <1> QED
    BY <1>3, <1>4, <1>5, <1>6, <1>7, <1>8, <1>9

\* The line of a section describes it.
LEMMA SectionLineReads ==
    ASSUME NEW i, NEW sec, NEW last
    PROVE  Describes(SectionRow(i, sec, last), sec)
  <1> DEFINE number == Decimal(i)
             size == Hex(sec.size, 8)
             vma == Hex(sec.vma, 16)
             line == <<number, sec.name, size, vma, last>>
  <1>1. number.digits /\ Value(size) = sec.size /\ Value(vma) = sec.vma
    BY NumberWords
  <1> HIDE DEF number, size, vma
  <1>2. /\ Len(line) = 5 /\ line # <<>> /\ line[1] = number /\ line[2] = sec.name
        /\ line[3] = size /\ line[4] = vma
    OBVIOUS
  <1> HIDE DEF line
  <1>3. Describes(line, sec)
    BY <1>1, <1>2 DEF Describes
  <1> QED
    BY <1>3 DEF line, number, size, vma, SectionRow

\* The lines above the rows.
TableHead(tool, path) ==
    Banner(path) \o <<SectionsTitle, Header>> \o (IF tool = "objdump" THEN <<>> ELSE <<NullRow>>)

\* None of them is a row, and the rows follow without a gap.
LEMMA TableHeadLines ==
    ASSUME NEW tool, NEW path, NEW S, Range(Banner(path)) \cup {SectionsTitle, Header, NullRow} \subseteq S
    PROVE  LET head == TableHead(tool, path) IN
           /\ head \in Seq(S) /\ Len(head) = IF tool = "objdump" THEN 4 ELSE 5
           /\ head[4] = Header /\ (tool # "objdump" => head[5] # <<>>)
           /\ \A i \in 1..Len(head) : NoRow(head[i])
  <1> DEFINE first == FirstLine(path)
             null == IF tool = "objdump" THEN <<>> ELSE <<NullRow>>
             middle == <<SectionsTitle, Header>>
             top == Banner(path) \o middle
             head == top \o null
  <1>1. Banner(path) = <<first, <<>>>> /\ NoRow(first)
    BY BannerLines DEF NoRow
  <1> HIDE DEF first, middle, null, top, head
  <1>2. /\ Banner(path) \in Seq(S) /\ Len(Banner(path)) = 2 /\ Banner(path)[1] = first /\ Banner(path)[2] = <<>>
    <2>1. Range(Banner(path)) = {Banner(path)[i] : i \in DOMAIN Banner(path)}
      BY DEF Range
    <2>2. Banner(path)[1] = first /\ Banner(path)[2] = <<>> /\ DOMAIN Banner(path) = {1, 2}
      BY <1>1
    <2>3. first \in S /\ <<>> \in S
      BY <2>1, <2>2
    <2>4. <<first, <<>>>> \in Seq(S) /\ Len(<<first, <<>>>>) = 2
      BY <2>3
    <2> QED
      BY <1>1, <2>2, <2>4
  <1>3. /\ middle \in Seq(S) /\ Len(middle) = 2
        /\ middle[1] = SectionsTitle /\ middle[2] = Header
    BY DEF middle
  <1>4. /\ top \in Seq(S) /\ Len(top) = 4 /\ top[1] = first /\ top[2] = <<>>
        /\ top[3] = SectionsTitle /\ top[4] = Header
    <2>0. Banner(path) \in Seq(S) /\ middle \in Seq(S)
      BY <1>2, <1>3
    <2>1. /\ top \in Seq(S) /\ Len(top) = Len(Banner(path)) + Len(middle)
          /\ \A i \in 1..Len(Banner(path)) : top[i] = Banner(path)[i]
          /\ \A i \in 1..Len(middle) : top[Len(Banner(path)) + i] = middle[i]
      BY <2>0, TextOf DEF top
    <2> QED
      BY <1>2, <1>3, <2>1
  <1>5. /\ null \in Seq(S) /\ Len(null) = IF tool = "objdump" THEN 0 ELSE 1
        /\ tool # "objdump" => null[1] = NullRow
    BY DEF null
  <1>6. /\ head \in Seq(S) /\ Len(head) = Len(top) + Len(null)
        /\ \A i \in 1..Len(top) : head[i] = top[i]
        /\ \A i \in 1..Len(null) : head[Len(top) + i] = null[i]
    <2>0. top \in Seq(S) /\ null \in Seq(S)
      BY <1>4, <1>5
    <2> QED
      BY <2>0, TextOf DEF head
  <1>7. /\ Len(head) = IF tool = "objdump" THEN 4 ELSE 5
        /\ head[1] = first /\ head[2] = <<>> /\ head[3] = SectionsTitle /\ head[4] = Header
        /\ tool # "objdump" => head[5] = NullRow
    BY <1>4, <1>5, <1>6
  <1>8. ASSUME NEW i \in 1..Len(head) PROVE NoRow(head[i])
    <2>1. i = 1 \/ i = 2 \/ i = 3 \/ i = 4 \/ (i = 5 /\ tool # "objdump")
      BY <1>7
    <2> QED
      BY <1>1, <1>7, <2>1, OtherLines
  <1>9. TableHead(tool, path) = head
    BY DEF TableHead, head, top, middle, null
  <1> QED
    BY <1>6, <1>7, <1>8, <1>9, OtherLines

\* parse_sections finds in what either dumper prints the sections of the image,
\* all of them and nothing else, whatever their names.
LEMMA SectionsReadBack ==
    ASSUME NEW path, NEW image, NEW tool, NEW n \in Nat, image.sections \in Seq(Range(image.sections)),
           Len(image.sections) = n
    PROVE  {SectionParts(s) : s \in parse_sections(PrintSections(tool, path, image))} =
              {SectionOf(sec) : sec \in Range(image.sections)}
  <1> DEFINE secs == image.sections
             gnuLine(k) == IF k % 2 = 1 THEN SectionRow((k + 1) \div 2, secs[(k + 1) \div 2], Hex(0, 16))
                           ELSE Continuation
             gnu == [k \in 1..(2 * n) |-> gnuLine(k)]
             llvm == [i \in 1..n |-> SectionRow(i, secs[i], Word("TEXT", 4))]
             S == Range(Banner(path)) \cup {SectionsTitle, Header, NullRow, Continuation}
                     \cup {SectionRow(i, secs[i], last) : i \in 1..n, last \in {Hex(0, 16), Word("TEXT", 4)}}
             head == TableHead(tool, path)
             text == PrintSections(tool, path, image)
  <1>0. DOMAIN secs = 1..n
    OBVIOUS
  <1>1. text = head \o (IF tool = "objdump" THEN gnu ELSE llvm)
    <2>1. SectionLines(tool, secs) = IF tool = "objdump" THEN gnu ELSE llvm
      BY <1>0 DEF SectionLines, SectionRow, Continuation
    <2> HIDE DEF gnu, llvm
    <2> QED
      BY <2>1 DEF PrintSections, TableHead, SectionsTitle, NullRow
  <1>2. gnu \in Seq(S) /\ Len(gnu) = 2 * n
    <2>1. ASSUME NEW k \in 1..(2 * n), k % 2 = 1 PROVE (k + 1) \div 2 \in 1..n
      BY <2>1
    <2>2. ASSUME NEW k \in 1..(2 * n)
          PROVE  gnuLine(k) \in S
      BY <2>1
    <2> HIDE DEF gnuLine, S
    <2> QED
      BY <2>2
  <1>3. llvm \in Seq(S) /\ Len(llvm) = n
    OBVIOUS
  <1>4. /\ \A k \in 1..(2 * n) : k % 2 = 1 => Describes(gnu[k], secs[(k + 1) \div 2])
        /\ \A k \in 1..(2 * n) : k % 2 # 1 => gnu[k] = Continuation
        /\ \A i \in 1..n : Describes(llvm[i], secs[i])
    BY SectionLineReads
  <1>5. Range(Banner(path)) \cup {SectionsTitle, Header, NullRow} \subseteq S
    OBVIOUS
  <1>6. {SectionOf(sec) : sec \in Range(secs)} = {SectionOf(secs[i]) : i \in 1..n}
    BY <1>0 DEF Range
  <1> HIDE DEF secs, gnu, llvm, S, head, text
  <1>7. /\ head \in Seq(S) /\ Len(head) = IF tool = "objdump" THEN 4 ELSE 5
        /\ head[4] = Header /\ (tool # "objdump" => head[5] # <<>>)
        /\ \A i \in 1..Len(head) : NoRow(head[i])
    BY <1>5, TableHeadLines DEF head
  <1>8. CASE tool = "objdump"
    <2> DEFINE m == 4 + 2 * n
               rows == {i \in 5..m : i % 2 = 1}
               at == [i \in rows |-> secs[(i - 3) \div 2]]
    <2>1. /\ DOMAIN text = 1..m /\ \A i \in 1..4 : text[i] = head[i]
          /\ \A k \in 1..(2 * n) : text[4 + k] = gnu[k]
      <3>1. head \in Seq(S) /\ gnu \in Seq(S) /\ text = head \o gnu
        BY <1>1, <1>2, <1>7, <1>8
      <3>2. /\ DOMAIN text = 1..(Len(head) + Len(gnu))
            /\ \A i \in 1..Len(head) : text[i] = head[i]
            /\ \A i \in 1..Len(gnu) : text[Len(head) + i] = gnu[i]
        BY <3>1, TextOf
      <3>3. Len(head) = 4 /\ Len(gnu) = 2 * n
        BY <1>2, <1>7, <1>8
      <3> QED
        BY <3>2, <3>3
    <2>2. ASSUME NEW i \in 5..m
          PROVE  /\ text[i] # <<>>
                 /\ i % 2 = 1 => Describes(text[i], secs[(i - 3) \div 2])
                 /\ i % 2 # 1 => NoRow(text[i])
      <3>1. PICK k \in 1..(2 * n) : i = 4 + k
        <4>1. i - 4 \in 1..(2 * n) /\ i = 4 + (i - 4)
          OBVIOUS
        <4> QED
          BY <4>1
      <3>2. text[i] = gnu[k] /\ (i % 2 = 1 <=> k % 2 = 1) /\ (i - 3) \div 2 = (k + 1) \div 2
        BY <2>1, <3>1
      <3>3. k % 2 = 1 => Describes(gnu[k], secs[(k + 1) \div 2])
        BY <1>4
      <3>4. k % 2 # 1 => gnu[k] = Continuation
        BY <1>4
      <3>5. CASE k % 2 = 1
        BY <3>2, <3>3, <3>5 DEF Describes
      <3>6. CASE k % 2 # 1
        BY <3>2, <3>4, <3>6, OtherLines
      <3> QED
        BY <3>5, <3>6
    <2>3. \A i \in 1..m : i \notin rows => NoRow(text[i])
      <3>1. \A i \in 1..m : i \in 1..4 \/ i \in 5..m
        OBVIOUS
      <3> QED
        BY <1>7, <1>8, <2>1, <2>2, <3>1
    <2>4. Table(text, m, rows, at)
      <3>1. text[4] # <<>> /\ text[4][1].s = "Idx"
        BY <1>7, <2>1, OtherLines
      <3>2. \A i \in rows : Describes(text[i], at[i])
        BY <2>2
      <3>3. m \in Nat /\ m >= 4 /\ rows \in SUBSET (5..m)
        OBVIOUS
      <3>4. \A i \in 5..m : text[i] # <<>>
        BY <2>2
      <3> HIDE DEF m, rows, at
      <3> QED
        BY <2>1, <2>3, <3>1, <3>2, <3>3, <3>4 DEF Table
    <2>5. {SectionOf(at[i]) : i \in rows} = {SectionOf(secs[i]) : i \in 1..n}
      <3>1. \A i \in rows : (i - 3) \div 2 \in 1..n /\ at[i] = secs[(i - 3) \div 2]
        OBVIOUS
      <3>2. \A i \in 1..n : 3 + 2 * i \in rows /\ at[3 + 2 * i] = secs[i]
        OBVIOUS
      <3> HIDE DEF rows, at
      <3> QED
        BY <3>1, <3>2
    <2>6. Reads(text, rows, at)
      <3> HIDE DEF m, rows, at
      <3> QED
        BY <2>4, TableReads, Zenon
    <2> HIDE DEF m, rows, at
    <2> QED
      BY <1>6, <2>5, <2>6 DEF text, Reads, secs
  <1>9. CASE tool # "objdump"
    <2> DEFINE m == 5 + n
               rows == 6..m
               at == [i \in rows |-> secs[i - 5]]
    <2>1. /\ DOMAIN text = 1..m /\ \A i \in 1..5 : text[i] = head[i]
          /\ \A k \in 1..n : text[5 + k] = llvm[k]
      <3>1. head \in Seq(S) /\ llvm \in Seq(S) /\ text = head \o llvm
        BY <1>1, <1>3, <1>7, <1>9
      <3>2. /\ DOMAIN text = 1..(Len(head) + Len(llvm))
            /\ \A i \in 1..Len(head) : text[i] = head[i]
            /\ \A i \in 1..Len(llvm) : text[Len(head) + i] = llvm[i]
        BY <3>1, TextOf
      <3>3. Len(head) = 5 /\ Len(llvm) = n
        BY <1>3, <1>7, <1>9
      <3> QED
        BY <3>2, <3>3
    <2>2. ASSUME NEW i \in rows
          PROVE  text[i] # <<>> /\ Describes(text[i], secs[i - 5])
      <3>1. PICK k \in 1..n : i = 5 + k
        <4>1. i - 5 \in 1..n /\ i = 5 + (i - 5)
          OBVIOUS
        <4> QED
          BY <4>1
      <3>2. text[i] = llvm[k] /\ i - 5 = k
        BY <2>1, <3>1
      <3> QED
        BY <1>4, <3>2 DEF Describes
    <2>3. \A i \in 1..m : i \notin rows => NoRow(text[i])
      <3>1. \A i \in 1..m : i \notin rows => i \in 1..5
        OBVIOUS
      <3> QED
        BY <1>7, <1>9, <2>1, <3>1
    <2>4. Table(text, m, rows, at)
      <3>1. text[4] # <<>> /\ text[4][1].s = "Idx" /\ text[5] # <<>>
        BY <1>7, <1>9, <2>1, OtherLines
      <3>2. \A i \in rows : Describes(text[i], at[i])
        BY <2>2
      <3>3. m \in Nat /\ m >= 4 /\ rows \in SUBSET (5..m)
        OBVIOUS
      <3>4. \A i \in 5..m : text[i] # <<>>
        <4>1. \A i \in 5..m : i = 5 \/ i \in rows
          OBVIOUS
        <4> QED
          BY <2>2, <3>1, <4>1
      <3> HIDE DEF m, rows, at
      <3> QED
        BY <2>1, <2>3, <3>1, <3>2, <3>3, <3>4 DEF Table
    <2>5. {SectionOf(at[i]) : i \in rows} = {SectionOf(secs[i]) : i \in 1..n}
      <3>1. \A i \in rows : i - 5 \in 1..n /\ at[i] = secs[i - 5]
        OBVIOUS
      <3>2. \A i \in 1..n : 5 + i \in rows /\ at[5 + i] = secs[i]
        OBVIOUS
      <3> HIDE DEF rows, at
      <3> QED
        BY <3>1, <3>2
    <2>6. Reads(text, rows, at)
      <3> HIDE DEF m, rows, at
      <3> QED
        BY <2>4, TableReads, Zenon
    <2> HIDE DEF m, rows, at
    <2> QED
      BY <1>6, <2>5, <2>6 DEF text, Reads, secs
  <1> QED
    BY <1>8, <1>9

------------------------------------------------------------------------------
(* What a process has noted of its commands and its files when it prints a *)
(* report.                                                                 *)

Options == {"h", "t", "p"}
All == {"size"} \cup Options

\* What objdump prints of a file, unless it was lost.
DumpOf(tool, option, path, content, lost) ==
    IF option \in lost \/ content \in {Nothing, Garbage} THEN <<>>
    ELSE Printed(tool, option, path, ImageOf(content))

\* What a report says of a file with a path and a content, once it has looked at some of it.
Info(path, content, size, sections, symbols, dynamic) ==
    [path |-> path, hash |-> content, size |-> size, sections |-> sections, symbols |-> symbols,
     is_dynamic |-> dynamic]
InfoOf(tool, path, content, lost, done) ==
    Info(path, content, IF "size" \in done THEN content ELSE [kind |-> "unread"],
         IF "h" \in done THEN parse_sections(DumpOf(tool, "h", path, content, lost)) ELSE {},
         IF "t" \in done THEN parse_symbols(DumpOf(tool, "t", path, content, lost)) ELSE {},
         IF "p" \in done THEN is_dynamic(DumpOf(tool, "p", path, content, lost)) ELSE FALSE)
NoteOf(tool, path, content, lost, done) ==
    [info |-> InfoOf(tool, path, content, lost, done), lost |-> lost]

\* The note of a file that was only hashed.
LEMMA NoteHashed ==
    ASSUME NEW tool, NEW path, NEW content
    PROVE  [info |-> ArtifactFileInfo(path, content), lost |-> {}] = NoteOf(tool, path, content, {}, {})
  BY DEF ArtifactFileInfo, NoteOf, InfoOf, Info

\* Its size is read.
LEMMA NoteSized ==
    ASSUME NEW tool, NEW path, NEW content, NEW note, note = NoteOf(tool, path, content, {}, {})
    PROVE  [note EXCEPT !.info = [@ EXCEPT !.size = content]] = NoteOf(tool, path, content, {}, {"size"})
  <1> DEFINE info == InfoOf(tool, path, content, {}, {})
  <1>1. info = Info(path, content, [kind |-> "unread"], {}, {}, FALSE)
    BY DEF InfoOf
  <1>2. InfoOf(tool, path, content, {}, {"size"}) = Info(path, content, content, {}, {}, FALSE)
    BY DEF InfoOf
  <1>4. note = [info |-> info, lost |-> {}]
    BY DEF NoteOf
  <1> HIDE DEF info
  <1>3. \A a, b, c, d, e, f, x : [Info(a, b, c, d, e, f) EXCEPT !.size = x] = Info(a, b, x, d, e, f)
    BY DEF Info
  <1>6. [info EXCEPT !.size = content] = Info(path, content, content, {}, {}, FALSE)
    <2> PICK no : no = FALSE
      OBVIOUS
    <2>1. info = Info(path, content, [kind |-> "unread"], {}, {}, no)
      BY <1>1
    <2>2. [info EXCEPT !.size = content] = Info(path, content, content, {}, {}, no)
      BY <1>3, <2>1
    <2> QED
      BY <2>2
  <1>5. [note EXCEPT !.info = [@ EXCEPT !.size = content]] =
           [info |-> [info EXCEPT !.size = content], lost |-> {}]
    BY <1>4
  <1> QED
    BY <1>2, <1>5, <1>6 DEF NoteOf

\* A dump replaces one part of it.
LEMMA ParsedParts ==
    ASSUME NEW a, NEW b, NEW c, NEW d, NEW e, NEW f, NEW text
    PROVE  /\ Parsed(Info(a, b, c, d, e, f), "h", text) = Info(a, b, c, parse_sections(text), e, f)
           /\ Parsed(Info(a, b, c, d, e, f), "t", text) = Info(a, b, c, d, parse_symbols(text), f)
           /\ Parsed(Info(a, b, c, d, e, f), "p", text) = Info(a, b, c, d, e, is_dynamic(text))
  <1> DEFINE info == Info(a, b, c, d, e, f)
  <1>1. /\ Parsed(info, "h", text) = [info EXCEPT !.sections = parse_sections(text)]
        /\ Parsed(info, "t", text) = [info EXCEPT !.symbols = parse_symbols(text)]
        /\ Parsed(info, "p", text) = [info EXCEPT !.is_dynamic = is_dynamic(text)]
    BY DEF Parsed
  <1>2. \A x : /\ [info EXCEPT !.sections = x] = Info(a, b, c, x, e, f)
               /\ [info EXCEPT !.symbols = x] = Info(a, b, c, d, x, f)
               /\ [info EXCEPT !.is_dynamic = x] = Info(a, b, c, d, e, x)
    BY DEF Info
  <1> HIDE DEF info
  <1>3. /\ Parsed(info, "h", text) = Info(a, b, c, parse_sections(text), e, f)
        /\ Parsed(info, "t", text) = Info(a, b, c, d, parse_symbols(text), f)
        /\ Parsed(info, "p", text) = Info(a, b, c, d, e, is_dynamic(text))
    BY <1>1, <1>2
  <1> QED
    BY <1>3 DEF info

\* The output of a run of objdump that is looked at.
OutputOf(tool, option, path, content, lost) ==
    IF lost # {} \/ content \in {Nothing, Garbage} THEN <<>>
    ELSE Printed(tool, option, path, ImageOf(content))

\* A dump of the file that was hashed, kept or lost, adds its part to the note.
LEMMA NoteDumped ==
    ASSUME NEW tool, NEW path, NEW content, NEW done, NEW lost \in SUBSET done,
           NEW option \in Options, option \notin done, NEW more \in SUBSET {option}, NEW note,
           note = NoteOf(tool, path, content, lost, done), NEW text,
           text = OutputOf(tool, option, path, content, more)
    PROVE  [info |-> Parsed(note.info, option, text), lost |-> note.lost \cup more] =
              NoteOf(tool, path, content, lost \cup more, done \cup {option})
  <1> DEFINE Size(d) == IF "size" \in d THEN content ELSE [kind |-> "unread"]
             Dump(o, l) == DumpOf(tool, o, path, content, l)
             Sections(l, d) == IF "h" \in d THEN parse_sections(Dump("h", l)) ELSE {}
             Symbols(l, d) == IF "t" \in d THEN parse_symbols(Dump("t", l)) ELSE {}
             Dynamic(l, d) == IF "p" \in d THEN is_dynamic(Dump("p", l)) ELSE FALSE
             l2 == lost \cup more
             d2 == done \cup {option}
             info2 == InfoOf(tool, path, content, l2, d2)
  <1>1. /\ note.info = Info(path, content, Size(done), Sections(lost, done), Symbols(lost, done),
                            Dynamic(lost, done))
        /\ note.lost = lost
    BY DEF NoteOf, InfoOf
  <1>2. info2 = Info(path, content, Size(d2), Sections(l2, d2), Symbols(l2, d2), Dynamic(l2, d2))
    BY DEF InfoOf
  <1>3. Dump(option, l2) = text
    BY DEF DumpOf, OutputOf
  <1>4. \A o : o # option => Dump(o, l2) = Dump(o, lost)
    BY DEF DumpOf
  <1>5. Size(d2) = Size(done)
    BY DEF Options
  <1>6. NoteOf(tool, path, content, l2, d2) = [info |-> info2, lost |-> l2]
    BY DEF NoteOf
  <1>7. /\ option # "h" => Sections(l2, d2) = Sections(lost, done)
        /\ option # "t" => Symbols(l2, d2) = Symbols(lost, done)
        /\ option # "p" => Dynamic(l2, d2) = Dynamic(lost, done)
    <2> HIDE DEF Dump
    <2> QED
      BY <1>4
  <1>8. /\ option = "h" => Sections(l2, d2) = parse_sections(text)
        /\ option = "t" => Symbols(l2, d2) = parse_symbols(text)
        /\ option = "p" => Dynamic(l2, d2) = is_dynamic(text)
    <2> HIDE DEF Dump
    <2> QED
      BY <1>3
  <1> HIDE DEF Size, Sections, Symbols, Dynamic, Dump, l2, d2, info2
  <1>9. Parsed(note.info, option, text) = info2
    <2>1. CASE option = "h"
      BY <1>1, <1>2, <1>5, <1>7, <1>8, <2>1, ParsedParts
    <2>2. CASE option = "t"
      BY <1>1, <1>2, <1>5, <1>7, <1>8, <2>2, ParsedParts
    <2>3. CASE option = "p"
      BY <1>1, <1>2, <1>5, <1>7, <1>8, <2>3, ParsedParts
    <2> QED
      BY <2>1, <2>2, <2>3 DEF Options
  <1>10. note.lost \cup more = l2
    BY <1>1 DEF l2
  <1> QED
    BY <1>6, <1>9, <1>10 DEF l2, d2

\* A process has noted what it has looked at of a file with a content.
FileNoted(p, field, content, done) ==
    /\ field \in DOMAIN local[p]
    /\ \E lost \in SUBSET (done \cap Options) :
          local[p][field] = NoteOf(local[p].disassembler, PathOf(p, field), content, lost, done)

\* Where a file has been hashed, and what has been looked at since.
Hashed(field) == IF field = "object" THEN (Describing \cup {"print"}) \ {"object"}
                 ELSE {"exe size", "exe -h", "exe -t", "exe -p", "print"}
Seen(field, label) ==
    CASE label = Stage[field].size -> {}
      [] label = Stage[field].h -> {"size"}
      [] label = Stage[field].t -> {"size", "h"}
      [] label = Stage[field].p -> {"size", "h", "t"}
      [] OTHER -> All

\* What is noted of a file is what is in the directory.
Looked(p, field) == FileNoted(p, field, ContentOf(p, field), Seen(field, pc[p]))

\* Entry and link_for_target_spec, for an object that was there.
EntryOf(p, object) == CASE Pe(p) -> link_entry_of(object, "main")
                        [] Target(p).dialect = "GasUnified" -> link_entry_of(object, "_start")
                        [] OTHER -> "_start"
LinkArgs(p, entry) ==
    CASE request[p].command = "fixture" \/ (~Pe(p) /\ Target(p).dialect = "NasmIntel") ->
            <<<<"--build-id=none">>, <<"--hash-style=sysv">>, <<"-o">>, ExePath(p), ObjectPath(p)>>
      [] Pe(p) ->
            <<<<"/ENTRY:", entry>>, <<"/SUBSYSTEM:console">>, kernel32(p),
              <<"/OUT:">> \o ExePath(p), ObjectPath(p)>>
      [] OTHER ->
            <<<<"-static">>, <<"-e">>, <<entry>>, <<"-o">>, ExePath(p), ObjectPath(p)>>
LinkSpec(p, entry) == [program |-> local[p].linker, args |-> LinkArgs(p, entry)]

AssembleNoted(p) ==
    /\ "ao" \in DOMAIN local[p]
    /\ \E o \in Outcomes :
          Success(o) /\ local[p]["ao"] = CommandRecordJson("assemble", assemble_for_target_spec(p), o)
\* The entry is that of the object p made, unless others replaced it.
RightEntry(p, entry) == p \notin disturbed => entry = EntryOf(p, MadeObject(p))
EntryNoted(p) == "entry" \in DOMAIN local[p] /\ RightEntry(p, local[p]["entry"])
LinkNoted(p) ==
    /\ "lo" \in DOMAIN local[p]
    /\ \E o \in Outcomes : \E entry :
          /\ Success(o) /\ local[p]["lo"] = CommandRecordJson("link", LinkSpec(p, entry), o)
          /\ RightEntry(p, entry)

\* ReportIsOfThisBuild, of one process.
ReportedRight(p) ==
    LET e == document[p].evidence IN
    /\ e.source_sha256 = made[p].source
    /\ e.object.sha256 = Object(e.source_sha256, e.target)
    /\ e.executable.sha256.of = e.object.sha256
    /\ e.execution.status = "Succeeded" => made[p].ran = e.executable.sha256

FilesNoted(p) == \A field \in Fields : \E content : content # Nothing /\ FileNoted(p, field, content, All)

CommandsInv(p) ==
    /\ pc[p] \in Assembled \/ Reported(p) => AssembleNoted(p)
    /\ pc[p] = "link" => EntryNoted(p)
    /\ pc[p] \in Linked \/ Reported(p) => LinkNoted(p)
    /\ pc[p] \in Reporting \/ Reported(p) => request[p].command = "build"
LookInv(p) ==
    p \notin disturbed => \A field \in Fields :
        pc[p] \in Hashed(field) => Looked(p, field)
PrintedInv(p) ==
    Reported(p) => /\ document[p].evidence = canonical_evidence(generate_report(p))
                   /\ p \notin disturbed => ReportedRight(p) /\ FilesNoted(p)
NoteInv(p) == CommandsInv(p) /\ LookInv(p) /\ PrintedInv(p)

NotesInv == ReportInv /\ ToolsInv /\ \A p \in Builds : NoteInv(p)

\* The command a process links with.
LEMMA LinkSpecOf == \A p : /\ link_for_target_spec(p) = LinkSpec(p, local[p].entry)
                          /\ Entry(p) = EntryOf(p, Here(p).object)
  BY DEF link_for_target_spec, LinkSpec, LinkArgs, EntryOf, Entry

\* A step after which the tools and the command line of p are what they were.
Steady(p) ==
    /\ UNCHANGED <<host, request>> /\ disturbed \subseteq disturbed'
    /\ local'[p].assembler = local[p].assembler /\ local'[p].linker = local[p].linker
    /\ local'[p].disassembler = local[p].disassembler

\* It leaves the commands and the paths of p as they were.
LEMMA SpecsStay ==
    ASSUME NEW p, Steady(p)
    PROVE  /\ assemble_for_target_spec(p)' = assemble_for_target_spec(p)
           /\ \A entry : LinkSpec(p, entry)' = LinkSpec(p, entry)
           /\ \A field : PathOf(p, field)' = PathOf(p, field)
           /\ \A object : EntryOf(p, object)' = EntryOf(p, object)
  <1>1. Target(p)' = Target(p) /\ Pe(p)' = Pe(p) /\ DirOf(p)' = DirOf(p) /\ kernel32(p)' = kernel32(p)
    BY DirectoriesStay DEF Steady, Target, Pe, kernel32
  <1>2. ObjectPath(p)' = ObjectPath(p) /\ ExePath(p)' = ExePath(p) /\ SourcePath(p)' = SourcePath(p)
    BY <1>1 DEF Steady, ObjectPath, ExePath, SourcePath
  <1>3. assemble_for_target_spec(p)' = assemble_for_target_spec(p)
    BY <1>1, <1>2 DEF Steady, assemble_for_target_spec
  <1>4. \A object : EntryOf(p, object)' = EntryOf(p, object)
    BY <1>1 DEF EntryOf
  <1>5. \A entry : LinkArgs(p, entry)' = LinkArgs(p, entry)
    BY <1>1, <1>2 DEF Steady, LinkArgs
  <1>6. \A entry : LinkSpec(p, entry)' = LinkSpec(p, entry)
    BY <1>5 DEF Steady, LinkSpec
  <1>7. \A field : PathOf(p, field)' = PathOf(p, field)
    BY <1>2 DEF PathOf
  <1> QED
    BY <1>3, <1>4, <1>6, <1>7

\* A note stays true as long as nobody writes over it.
Holds(p, field) == field \in DOMAIN local'[p] /\ local'[p][field] = local[p][field]

\* The entry of the object p made stays what it is.
LEMMA EntryStays ==
    ASSUME NEW p, Steady(p), MadeObject(p)' = MadeObject(p), NEW entry, RightEntry(p, entry)
    PROVE  p \notin disturbed' => entry = EntryOf(p, MadeObject(p))'
  <1>1. EntryOf(p, MadeObject(p))' = EntryOf(p, MadeObject(p))
    <2>1. Target(p)' = Target(p) /\ Pe(p)' = Pe(p)
      BY DEF Steady, Target, Pe
    <2> QED
      BY <2>1 DEF EntryOf
  <1> QED
    BY <1>1 DEF RightEntry, Steady

\* What a note says of a process that stays what it is, as long as its field is kept.
LEMMA NotesStay ==
    ASSUME NEW p, Steady(p)
    PROVE  /\ AssembleNoted(p) /\ Holds(p, "ao") => AssembleNoted(p)'
           /\ EntryNoted(p) /\ Holds(p, "entry") /\ MadeObject(p)' = MadeObject(p) => EntryNoted(p)'
           /\ LinkNoted(p) /\ Holds(p, "lo") /\ MadeObject(p)' = MadeObject(p) => LinkNoted(p)'
  <1>1. AssembleNoted(p) /\ Holds(p, "ao") => AssembleNoted(p)'
    BY SpecsStay DEF AssembleNoted, Holds
  <1>2. ASSUME EntryNoted(p), Holds(p, "entry"), MadeObject(p)' = MadeObject(p)
        PROVE  EntryNoted(p)'
    <2>1. PICK entry : entry = local[p]["entry"] /\ RightEntry(p, entry)
      BY <1>2 DEF EntryNoted
    <2>2. p \notin disturbed' => entry = EntryOf(p, MadeObject(p))'
      BY <1>2, <2>1, EntryStays
    <2>3. "entry" \in DOMAIN local'[p] /\ local'[p]["entry"] = entry
      BY <1>2, <2>1 DEF Holds
    <2> QED
      BY <2>2, <2>3 DEF EntryNoted, RightEntry
  <1>3. ASSUME LinkNoted(p), Holds(p, "lo"), MadeObject(p)' = MadeObject(p)
        PROVE  LinkNoted(p)'
    <2>1. PICK o, entry : /\ o \in Outcomes /\ Success(o)
                          /\ local[p]["lo"] = CommandRecordJson("link", LinkSpec(p, entry), o)
                          /\ RightEntry(p, entry)
      BY <1>3 DEF LinkNoted
    <2>2. LinkSpec(p, entry)' = LinkSpec(p, entry)
      BY SpecsStay
    <2>3. local'[p]["lo"] = CommandRecordJson("link", LinkSpec(p, entry)', o)
      BY <1>3, <2>1, <2>2 DEF Holds
    <2>4. p \notin disturbed' => entry = EntryOf(p, MadeObject(p))'
      BY <1>3, <2>1, EntryStays
    <2> QED
      BY <1>3, <2>1, <2>3, <2>4 DEF LinkNoted, Holds, RightEntry
  <1> QED
    BY <1>1, <1>2, <1>3

\* Nor does what a note says of a file.
LEMMA FileNoteStays ==
    ASSUME NEW p, Steady(p), NEW field, Holds(p, field), NEW content, NEW done,
           FileNoted(p, field, content, done)
    PROVE  FileNoted(p, field, content, done)'
  <1>1. PathOf(p, field)' = PathOf(p, field) /\ local'[p].disassembler = local[p].disassembler
    BY SpecsStay DEF Steady
  <1> QED
    BY <1>1 DEF FileNoted, Holds

\* An undisturbed process that is at work finds its files as they were.
Kept(p) == pc[p] \in Assembled /\ p \notin disturbed' => Here(p)' = Here(p)

\* The report is put together from the local variables.
LEMMA ReportStays ==
    ASSUME NEW p, UNCHANGED <<host, request>>, local'[p] = local[p]
    PROVE  generate_report(p)' = generate_report(p)
  BY DEF generate_report, SourcePath

\* What was looked at is what is there, as long as it stays.
LEMMA LookStays ==
    ASSUME NEW p, Steady(p), NEW field, Looked(p, field), Holds(p, field), Here(p)' = Here(p),
           Seen(field, pc[p])' = Seen(field, pc[p])
    PROVE  Looked(p, field)'
  <1> PICK content : content = ContentOf(p, field)
    OBVIOUS
  <1> PICK done : done = Seen(field, pc[p])
    OBVIOUS
  <1>1. FileNoted(p, field, content, done)
    BY DEF Looked
  <1>2. FileNoted(p, field, content, done)'
    BY <1>1, FileNoteStays
  <1>3. ContentOf(p, field)' = content
    BY DEF ContentOf
  <1> QED
    BY <1>2, <1>3 DEF Looked, FileNoted

\* What was printed stays true of a process that keeps its notes.
LEMMA PrintedStays ==
    ASSUME NEW p, PrintedInv(p), Steady(p), UNCHANGED <<local[p], document[p], made[p]>>
    PROVE  PrintedInv(p)'
  <1>1. Reported(p)' = Reported(p)
    BY DEF Reported
  <1>2. canonical_evidence(generate_report(p))' = canonical_evidence(generate_report(p))
    <2>1. generate_report(p)' = generate_report(p)
      BY ReportStays DEF Steady
    <2> QED
      BY <2>1 DEF canonical_evidence
  <1>3. ReportedRight(p) => ReportedRight(p)'
    BY DEF ReportedRight, Object
  <1>4. FilesNoted(p) => FilesNoted(p)'
    <2>1. ASSUME NEW field \in Fields, NEW content, content # Nothing, FileNoted(p, field, content, All)
          PROVE  FileNoted(p, field, content, All)'
      <3>1. Holds(p, field)
        BY <2>1 DEF Holds, FileNoted
      <3> PICK done : done = All
        OBVIOUS
      <3>2. FileNoted(p, field, content, done)'
        BY <2>1, <3>1, FileNoteStays
      <3> QED
        BY <3>2 DEF All, Options
    <2> QED
      BY <2>1 DEF FilesNoted, Nothing
  <1>5. p \notin disturbed' => p \notin disturbed
    BY DEF Steady
  <1> QED
    BY <1>1, <1>2, <1>3, <1>4, <1>5 DEF PrintedInv

\* Nobody else touches what a process has noted.
LEMMA OthersNotes ==
    ASSUME NEW q, NoteInv(q), UNCHANGED <<host, request>>, disturbed \subseteq disturbed',
           pc'[q] = pc[q], local'[q] = local[q], document'[q] = document[q], made'[q] = made[q],
           Kept(q)
    PROVE  NoteInv(q)'
  <1>1. Steady(q) /\ MadeObject(q)' = MadeObject(q)
    BY DEF Steady, MadeObject, Object
  <1>2. \A field \in DOMAIN local[q] : Holds(q, field)
    BY DEF Holds
  <1>3. /\ AssembleNoted(q) => AssembleNoted(q)'
        /\ EntryNoted(q) => EntryNoted(q)'
        /\ LinkNoted(q) => LinkNoted(q)'
    BY <1>1, <1>2, NotesStay DEF AssembleNoted, EntryNoted, LinkNoted
  <1>4. CommandsInv(q)'
    BY <1>3 DEF NoteInv, CommandsInv, Reported
  <1>5. ASSUME q \notin disturbed', NEW field \in Fields, pc[q] \in Hashed(field)
        PROVE  Looked(q, field)'
    <2>1. Looked(q, field) /\ Holds(q, field)
      BY <1>2, <1>5 DEF NoteInv, LookInv, Looked, FileNoted
    <2>2. Here(q)' = Here(q)
      BY <1>5 DEF Kept, Hashed, Assembled, Reporting, Describing
    <2>3. Seen(field, pc[q])' = Seen(field, pc[q])
      BY DEF Seen
    <2> QED
      BY <1>1, <2>1, <2>2, <2>3, LookStays
  <1>6. LookInv(q)'
    BY <1>5 DEF LookInv
  <1>7. PrintedInv(q)'
    BY <1>1, PrintedStays DEF NoteInv
  <1> QED
    BY <1>4, <1>6, <1>7 DEF NoteInv

\* Before a process looks at files it has nothing to say of them.
LEMMA BeforeFiles ==
    ASSUME NEW p, ~Reported(p)', \A field \in Fields : pc'[p] \notin Hashed(field), CommandsInv(p)'
    PROVE  NoteInv(p)'
  BY DEF NoteInv, LookInv, PrintedInv

\* Nothing is claimed of a process that has not assembled or has not reported.
LEMMA NothingNoted ==
    ASSUME NEW p, pc'[p] \notin Assembled, ~Reported(p)'
    PROVE  NoteInv(p)'
  <1>1. CommandsInv(p)'
    BY DEF CommandsInv, Assembled, Linked, Reporting, Describing
  <1>2. \A field \in Fields : pc'[p] \notin Hashed(field)
    BY DEF Hashed, Assembled, Reporting, Describing
  <1> QED
    BY <1>1, <1>2, BeforeFiles

\* Setting a field that is not a tool.
LEMMA SetSteady ==
    ASSUME NotesInv, NEW p \in Builds, pc[p] \in Equipped, NEW field, field \notin Roles, NEW value,
           Set(p, field, value), UNCHANGED <<host, request>>, disturbed \subseteq disturbed'
    PROVE  /\ Steady(p) /\ field \in DOMAIN local'[p] /\ local'[p][field] = value
           /\ \A f \in DOMAIN local[p] : f # field => Holds(p, f)
  <1>1. HasTools(p) /\ TableInv
    BY DEF NotesInv, ToolsInv, BuildInv
  <1>2. /\ field \in DOMAIN local'[p] /\ local'[p][field] = value
        /\ \A f \in DOMAIN local[p] : f # field =>
              f \in DOMAIN local'[p] /\ local'[p][f] = local[p][f]
    BY <1>1, SetField
  <1>3. \A role \in Roles : role \in DOMAIN local[p] /\ role # field
    BY <1>1 DEF HasTools
  <1>4. \A role \in Roles : local'[p][role] = local[p][role]
    BY <1>2, <1>3
  <1>5. Steady(p)
    BY <1>4 DEF Steady, Roles
  <1> QED
    BY <1>2, <1>5 DEF Holds

\* Before it prints, a process has reported nothing.
LEMMA NotYetReported ==
    ASSUME NotesInv, NEW p \in Builds, pc[p] \notin {"finish", "done"}, UNCHANGED results
    PROVE  ~Reported(p)'
  BY DEF NotesInv, ReportInv, BuildInv, ProcessInv, results, Reported, Nothing

\* A process that gives up.
LEMMA AbortNotes ==
    ASSUME NotesInv, NEW p \in Builds, pc[p] \notin {"finish", "done"}, NEW code, Abort(p, code)
    PROVE  NoteInv(p)'
  <1>1. pc'[p] = "done"
    BY DEF NotesInv, ReportInv, BuildInv, TableInv, Abort, Ends, Goto
  <1>2. ~Reported(p)'
    BY DEF NotesInv, ReportInv, BuildInv, ProcessInv, Abort, Reported, Nothing
  <1> QED
    BY <1>1, <1>2, NothingNoted DEF Assembled, Reporting, Describing

\* The label a process goes to is where it is next.
LEMMA LabelOf ==
    ASSUME NotesInv, NEW p \in Builds, NEW label, Goto(p, label)
    PROVE  pc'[p] = label
  BY DEF NotesInv, ReportInv, BuildInv, TableInv, Goto

\* Whatever runs returns an outcome.
LEMMA ExecOutcomes == \A h, program : Exec(h, program) \subseteq Outcomes
  BY DEF Exec, Outcomes

\* The command that assembled is noted.
LEMMA AssembleNotes ==
    ASSUME NotesInv, NEW p \in Builds, Assemble(p)
    PROVE  NoteInv(p)'
  <1>0. /\ pc[p] = "assemble" /\ UNCHANGED <<host, request>> /\ pc[p] \in Equipped
    BY DEF Assemble, At, Equipped, Labels
  <1>1. CASE Abort(p, "1")
    BY <1>0, <1>1, AbortNotes
  <1>2. CASE ~Abort(p, "1")
    <2>1. PICK o \in Outcomes :
                   /\ Success(o)
                   /\ Set(p, "ao", CommandRecordJson("assemble", assemble_for_target_spec(p), o))
                   /\ Goto(p, "entry") /\ UNCHANGED results
                   /\ disturbed \subseteq disturbed'
      BY <1>2, ExecOutcomes DEF Assemble, Writes
    <2>2. /\ Steady(p) /\ "ao" \in DOMAIN local'[p]
          /\ local'[p]["ao"] = CommandRecordJson("assemble", assemble_for_target_spec(p), o)
      BY <1>0, <2>1, SetSteady DEF Roles
    <2>3. assemble_for_target_spec(p)' = assemble_for_target_spec(p)
      BY <2>2, SpecsStay
    <2>4. AssembleNoted(p)'
      BY <2>1, <2>2, <2>3 DEF AssembleNoted
    <2>5. pc'[p] = "entry" /\ ~Reported(p)'
      BY <1>0, <2>1, LabelOf, NotYetReported
    <2>6. CommandsInv(p)'
      BY <2>4, <2>5 DEF CommandsInv, Linked, Reporting, Describing
    <2>7. \A field \in Fields : pc'[p] \notin Hashed(field)
      BY <2>5 DEF Hashed, Describing
    <2> QED
      BY <2>5, <2>6, <2>7, BeforeFiles
  <1> QED
    BY <1>1, <1>2

\* The entry is that of the object, as long as it is the one p made.
LEMMA ReadEntryNotes ==
    ASSUME NotesInv, NEW p \in Builds, ReadEntry(p)
    PROVE  NoteInv(p)'
  <1> PICK entry : entry = Entry(p)
    OBVIOUS
  <1>0. /\ pc[p] = "entry" /\ UNCHANGED <<host, request, made, disturbed, results>>
        /\ pc[p] \in Equipped /\ pc[p] \in Assembled
        /\ Set(p, "entry", entry) /\ Goto(p, "link")
    BY DEF ReadEntry, At, Keeps, Equipped, Labels, Assembled
  <1>1. /\ Steady(p) /\ "entry" \in DOMAIN local'[p] /\ local'[p]["entry"] = entry
        /\ \A f \in DOMAIN local[p] : f # "entry" => Holds(p, f)
    BY <1>0, SetSteady DEF Roles
  <1>2. MadeObject(p)' = MadeObject(p)
    BY <1>0 DEF MadeObject, Object
  <1>3. RightEntry(p, entry)
    <2>1. entry = EntryOf(p, Here(p).object)
      BY LinkSpecOf
    <2>2. p \notin disturbed => Here(p).object = MadeObject(p)
      BY <1>0 DEF NotesInv, ReportInv, TraceInv
    <2> QED
      BY <2>1, <2>2 DEF RightEntry
  <1>4. p \notin disturbed' => entry = EntryOf(p, MadeObject(p))'
    BY <1>1, <1>2, <1>3, EntryStays
  <1>5. EntryNoted(p)'
    BY <1>1, <1>4 DEF EntryNoted, RightEntry
  <1>6. AssembleNoted(p)'
    BY <1>0, <1>1, NotesStay DEF NotesInv, NoteInv, CommandsInv, AssembleNoted
  <1>7. pc'[p] = "link" /\ ~Reported(p)'
    BY <1>0, LabelOf, NotYetReported
  <1>8. CommandsInv(p)'
    BY <1>5, <1>6, <1>7 DEF CommandsInv, Linked, Reporting, Describing
  <1>9. \A field \in Fields : pc'[p] \notin Hashed(field)
    BY <1>7 DEF Hashed, Describing
  <1> QED
    BY <1>7, <1>8, <1>9, BeforeFiles

\* So is the command that linked, with that entry.
LEMMA LinkNotes ==
    ASSUME NotesInv, NEW p \in Builds, Link(p)
    PROVE  NoteInv(p)'
  <1>0. /\ pc[p] = "link" /\ UNCHANGED <<host, request, made>> /\ pc[p] \in Equipped
        /\ pc[p] \in Assembled
    BY DEF Link, At, Equipped, Labels, Assembled
  <1>1. CASE Abort(p, "1")
    BY <1>0, <1>1, AbortNotes
  <1>2. CASE ~Abort(p, "1")
    <2>1. PICK o \in Outcomes :
                   /\ Success(o)
                   /\ Set(p, "lo", CommandRecordJson("link", link_for_target_spec(p), o))
                   /\ Goto(p, "verify") /\ UNCHANGED results
                   /\ disturbed \subseteq disturbed'
      BY <1>2, ExecOutcomes DEF Link, Writes
    <2>3. PICK entry : entry = local[p].entry /\ RightEntry(p, entry)
      BY <1>0 DEF NotesInv, NoteInv, CommandsInv, EntryNoted
    <2>0. link_for_target_spec(p) = LinkSpec(p, entry)
      BY <2>3, LinkSpecOf
    <2>12. Set(p, "lo", CommandRecordJson("link", LinkSpec(p, entry), o)) /\ "lo" \notin Roles
      BY <2>0, <2>1 DEF Roles
    <2>2. /\ Steady(p) /\ "lo" \in DOMAIN local'[p]
          /\ local'[p]["lo"] = CommandRecordJson("link", LinkSpec(p, entry), o)
          /\ \A f \in DOMAIN local[p] : f # "lo" => Holds(p, f)
      BY <1>0, <2>1, <2>12, SetSteady
    <2>4. MadeObject(p)' = MadeObject(p)
      BY <1>0 DEF MadeObject, Object
    <2>5. LinkSpec(p, entry)' = LinkSpec(p, entry)
      BY <2>2, SpecsStay
    <2>9. p \notin disturbed' => entry = EntryOf(p, MadeObject(p))'
      BY <2>2, <2>3, <2>4, EntryStays
    <2>6. LinkNoted(p)'
      BY <2>1, <2>2, <2>5, <2>9 DEF LinkNoted, RightEntry
    <2>7. AssembleNoted(p)'
      BY <1>0, <2>2, NotesStay DEF NotesInv, NoteInv, CommandsInv, AssembleNoted
    <2>8. pc'[p] = "verify" /\ ~Reported(p)'
      BY <1>0, <2>1, LabelOf, NotYetReported
    <2>10. CommandsInv(p)'
      BY <2>6, <2>7, <2>8 DEF CommandsInv, Reporting, Describing
    <2>11. \A field \in Fields : pc'[p] \notin Hashed(field)
      BY <2>8 DEF Hashed, Describing
    <2> QED
      BY <2>8, <2>10, <2>11, BeforeFiles
  <1> QED
    BY <1>1, <1>2

\* What was noted of the commands lasts while a process reads.
LEMMA CommandsStay ==
    ASSUME NotesInv, NEW p \in Builds, pc[p] \in Linked, Steady(p), made'[p].source = made[p].source,
           \A f \in DOMAIN local[p] : f \in {"ao", "lo"} => Holds(p, f)
    PROVE  AssembleNoted(p)' /\ LinkNoted(p)'
  <1>1. pc[p] \in Assembled
    BY DEF Linked, Assembled
  <1>2. AssembleNoted(p) /\ LinkNoted(p)
    BY <1>1 DEF NotesInv, NoteInv, CommandsInv
  <1>3. MadeObject(p)' = MadeObject(p)
    BY DEF Steady, MadeObject, Object
  <1> QED
    BY <1>2, <1>3, NotesStay DEF AssembleNoted, LinkNoted

\* A process that looks at its files keeps what it knows of the commands.
LEMMA SetCommandsStay ==
    ASSUME NotesInv, NEW p \in Builds, pc[p] \in Linked, NEW field, field \notin Roles \cup {"ao", "lo"},
           NEW value, Set(p, field, value), UNCHANGED <<host, request, disturbed>>,
           made'[p].source = made[p].source
    PROVE  /\ AssembleNoted(p)' /\ LinkNoted(p)' /\ Steady(p)
           /\ field \in DOMAIN local'[p] /\ local'[p][field] = value
           /\ \A f \in DOMAIN local[p] : f # field => Holds(p, f)
  <1>1. pc[p] \in Equipped
    BY DEF Linked, Equipped, Labels, Reporting, Describing
  <1>2. /\ Steady(p) /\ field \in DOMAIN local'[p] /\ local'[p][field] = value
        /\ \A f \in DOMAIN local[p] : f # field => Holds(p, f)
    BY <1>1, SetSteady
  <1> QED
    BY <1>2, CommandsStay

\* The steps before a report that note nothing.
LEMMA EarlyNotes ==
    ASSUME NotesInv, NEW p \in Builds, ParseTarget(p) \/ CreateDir(p) \/ RunFixture(p)
    PROVE  NoteInv(p)'
  <1>0. TableInv
    BY DEF NotesInv, ReportInv, BuildInv
  <1>1. pc[p] \in {"target", "dir", "run"}
    BY DEF ParseTarget, CreateDir, RunFixture, At
  <1>2. pc'[p] \in {"dir", "assemble", "finish", "done"}
    BY <1>0 DEF TableInv, ParseTarget, CreateDir, RunFixture, Abort, Ends, Goto
  <1>3. document[p] = Nothing
    BY <1>1 DEF NotesInv, ReportInv, BuildInv, ProcessInv
  <1>4. ~Reported(p)'
    <2>1. CASE document' = document
      BY <1>3, <2>1 DEF Reported, Nothing
    <2>2. /\ \A all : document' = [document EXCEPT ![p] = [kind |-> "doctor", all_found |-> all]]
                      => ~Reported(p)'
          /\ \A state, expected :
                document' = [document EXCEPT ![p] =
                                [kind |-> "fixture", execution |-> state, expected |-> expected]]
                      => ~Reported(p)'
      BY <1>0 DEF TableInv, Reported
    <2>3. CASE ParseTarget(p)
      <3>1. \/ document' = document
            \/ \E all : document' = [document EXCEPT ![p] = [kind |-> "doctor", all_found |-> all]]
        BY <2>3 DEF ParseTarget, results
      <3> QED
        BY <2>1, <2>2, <3>1
    <2>4. CASE CreateDir(p)
      BY <2>1, <2>4 DEF CreateDir, Abort, results
    <2>5. CASE RunFixture(p)
      <3>1. \/ Abort(p, "1")
            \/ \E state, expected : document' = [document EXCEPT ![p] =
                  [kind |-> "fixture", execution |-> state, expected |-> expected]]
        BY <2>5 DEF RunFixture
      <3>2. Abort(p, "1") => document' = document
        BY DEF Abort
      <3> QED
        BY <2>1, <2>2, <3>1, <3>2
    <2> QED
      BY <2>3, <2>4, <2>5
  <1> QED
    BY <1>2, <1>4, NothingNoted DEF Assembled, Reporting, Describing

\* Looking at the linked file, and running it.
LEMMA VerifyNotes ==
    ASSUME NotesInv, NEW p \in Builds, VerifyArchitecture(p)
    PROVE  NoteInv(p)'
  <1>0. /\ pc[p] = "verify" /\ UNCHANGED <<host, request, disturbed>> /\ pc[p] \in Linked
    BY DEF VerifyArchitecture, At, Keeps, Linked
  <1>1. CASE Abort(p, "1")
    BY <1>0, <1>1, AbortNotes
  <1>2. CASE Goto(p, "run") /\ UNCHANGED <<local, made, results>>
    <2>1. pc'[p] = "run" /\ ~Reported(p)'
      BY <1>0, <1>2, LabelOf, NotYetReported
    <2>2. AssembleNoted(p)' /\ LinkNoted(p)'
      BY <1>0, <1>2, CommandsStay DEF Steady, Holds
    <2>3. CommandsInv(p)'
      BY <2>1, <2>2 DEF CommandsInv, Reporting, Describing
    <2>4. \A field \in Fields : pc'[p] \notin Hashed(field)
      BY <2>1 DEF Hashed, Describing
    <2> QED
      BY <2>1, <2>3, <2>4, BeforeFiles
  <1> QED
    BY <1>1, <1>2 DEF VerifyArchitecture

\* Running the artifact writes down the execution and no other field.
LEMMA RunNotes ==
    ASSUME NotesInv, NEW p \in Builds, Run(p)
    PROVE  NoteInv(p)'
  <1>0. /\ pc[p] = "run" /\ UNCHANGED <<host, request, disturbed, results>> /\ pc[p] \in Linked
        /\ Goto(p, "source") /\ request[p].command = "build"
    BY DEF Run, At, Keeps, Linked
  <1>1. made'[p].source = made[p].source
    BY DEF Run, NotesInv, ReportInv, FileInv
  <1>2. PICK value : Set(p, "execution", value)
    BY DEF Run
  <1>3. AssembleNoted(p)' /\ LinkNoted(p)'
    BY <1>0, <1>1, <1>2, SetCommandsStay DEF Roles
  <1>4. pc'[p] = "source" /\ ~Reported(p)'
    BY <1>0, LabelOf, NotYetReported
  <1>5. CommandsInv(p)'
    BY <1>0, <1>3, <1>4 DEF CommandsInv
  <1>6. \A field \in Fields : pc'[p] \notin Hashed(field)
    BY <1>4 DEF Hashed, Describing
  <1> QED
    BY <1>4, <1>5, <1>6, BeforeFiles

\* The source is hashed, or the command ends without a report.
LEMMA HashSourceNotes ==
    ASSUME NotesInv, NEW p \in Builds, HashSource(p)
    PROVE  NoteInv(p)'
  <1>0. /\ pc[p] = "source" /\ UNCHANGED <<host, request, disturbed>> /\ pc[p] \in Linked
        /\ pc[p] \in Reporting
    BY DEF HashSource, At, Keeps, Linked, Reporting
  <1>1. CASE Abort(p, "1")
    BY <1>0, <1>1, AbortNotes
  <1>2. CASE Set(p, "source", source[request[p].source]) /\ Goto(p, "object") /\ UNCHANGED <<made, results>>
    <2> PICK value : value = source[request[p].source]
      OBVIOUS
    <2>0. Set(p, "source", value) /\ made'[p].source = made[p].source
      BY <1>2
    <2>1. AssembleNoted(p)' /\ LinkNoted(p)'
      BY <1>0, <2>0, SetCommandsStay DEF Roles
    <2>2. pc'[p] = "object" /\ ~Reported(p)'
      BY <1>0, <1>2, LabelOf, NotYetReported
    <2>3. request'[p].command = "build"
      BY <1>0 DEF NotesInv, NoteInv, CommandsInv
    <2>4. CommandsInv(p)'
      BY <2>1, <2>2, <2>3 DEF CommandsInv
    <2>5. \A field \in Fields : pc'[p] \notin Hashed(field)
      BY <2>2 DEF Hashed, Describing, Fields
    <2> QED
      BY <2>2, <2>4, <2>5, BeforeFiles
  <1> QED
    BY <1>1, <1>2 DEF HashSource

\* What a process has seen of a file, along the steps that describe it.
LEMMA SeenSteps ==
    ASSUME NEW field \in Fields
    PROVE  /\ Seen(field, Stage[field].size) = {} /\ Seen(field, Stage[field].h) = {"size"}
           /\ Seen(field, Stage[field].t) = {"size", "h"}
           /\ Seen(field, Stage[field].p) = {"size", "h", "t"} /\ Seen(field, Stage[field].next) = All
           /\ Stage[field].size \in Hashed(field) /\ Stage[field].h \in Hashed(field)
           /\ Stage[field].t \in Hashed(field) /\ Stage[field].p \in Hashed(field)
  <1>1. ASSUME NEW a, NEW b, NEW c, NEW d, NEW e, NEW f,
               Stage[field] = Stages(a, b, c, d, e, f),
               a # b, b # c, b # d, b # e, b # f, c # d, c # e, c # f, d # e, d # f, e # f,
               b \in Hashed(field), c \in Hashed(field), d \in Hashed(field), e \in Hashed(field)
        PROVE  /\ Seen(field, Stage[field].size) = {} /\ Seen(field, Stage[field].h) = {"size"}
               /\ Seen(field, Stage[field].t) = {"size", "h"}
               /\ Seen(field, Stage[field].p) = {"size", "h", "t"} /\ Seen(field, Stage[field].next) = All
               /\ Stage[field].size \in Hashed(field) /\ Stage[field].h \in Hashed(field)
               /\ Stage[field].t \in Hashed(field) /\ Stage[field].p \in Hashed(field)
    <2>1. /\ Stage[field].size = b /\ Stage[field].h = c /\ Stage[field].t = d
          /\ Stage[field].p = e /\ Stage[field].next = f
      BY <1>1 DEF Stages
    <2> QED
      BY <1>1, <2>1 DEF Seen
  <1>2. ASSUME field = "object"
        PROVE  Stage[field] = Stages("object", "object size", "object -h", "object -t", "object -p", "exe")
    BY <1>2 DEF Stage
  <1>3. ASSUME field = "exe"
        PROVE  Stage[field] = Stages("exe", "exe size", "exe -h", "exe -t", "exe -p", "print")
    BY <1>3 DEF Stage
  <1>4. CASE field = "object"
    <2>1. /\ "object size" \in Hashed(field) /\ "object -h" \in Hashed(field)
          /\ "object -t" \in Hashed(field) /\ "object -p" \in Hashed(field)
      BY <1>4 DEF Hashed, Describing
    <2> QED
      BY <1>1, <1>2, <1>4, <2>1
  <1>5. CASE field = "exe"
    <2>1. /\ "exe size" \in Hashed(field) /\ "exe -h" \in Hashed(field)
          /\ "exe -t" \in Hashed(field) /\ "exe -p" \in Hashed(field)
      BY <1>5 DEF Hashed
    <2> QED
      BY <1>1, <1>3, <1>5, <2>1
  <1> QED
    BY <1>4, <1>5 DEF Fields

\* The note a step that describes a file makes of it, and the label it goes to.
Makes(p, field, label) ==
    /\ Goto(p, label)
    /\ \E lost \in SUBSET (Seen(field, label) \cap Options) :
          Set(p, field, NoteOf(local[p].disassembler, PathOf(p, field), ContentOf(p, field), lost,
                               Seen(field, label)))

\* The files of an undisturbed process are there.
LEMMA FilesAreThere ==
    ASSUME NotesInv, NEW p \in Builds, p \notin disturbed, pc[p] \in Reporting, NEW field \in Fields
    PROVE  /\ ContentOf(p, field) # Nothing
           /\ Here(p).object = MadeObject(p) /\ Here(p).exe.of = MadeObject(p)
  <1>1. TraceInv(p) /\ pc[p] \in Linked /\ pc[p] \in Assembled
    BY DEF NotesInv, ReportInv, Linked, Assembled
  <1>2. /\ Here(p).object = MadeObject(p) /\ Here(p).exe.of = MadeObject(p)
        /\ Here(p).exe.kind = "executable"
    BY <1>1 DEF TraceInv
  <1>3. MadeObject(p).kind = "object"
    BY DEF MadeObject, Object
  <1> QED
    BY <1>2, <1>3 DEF ContentOf, Fields, Nothing

\* Hashing makes a first note.
LEMMA HashMakes ==
    ASSUME NotesInv, NEW p \in Builds, p \notin disturbed, pc[p] \in Reporting, NEW field \in Fields,
           HashFile(p, field), ~Abort(p, "1")
    PROVE  Makes(p, field, Stage[field].size)
  <1> PICK tool : tool = local[p].disassembler
    OBVIOUS
  <1> PICK path : path = PathOf(p, field)
    OBVIOUS
  <1> PICK content : content = ContentOf(p, field)
    OBVIOUS
  <1>1. content # Nothing
    BY FilesAreThere
  <1>2. /\ Set(p, field, [info |-> ArtifactFileInfo(path, content), lost |-> {}])
        /\ Goto(p, Stage[field].size)
    BY <1>1 DEF HashFile
  <1>3. [info |-> ArtifactFileInfo(path, content), lost |-> {}] = NoteOf(tool, path, content, {}, {})
    BY NoteHashed
  <1>4. Set(p, field, NoteOf(tool, path, content, {}, {}))
    BY <1>2, <1>3
  <1>5. {} \in SUBSET ({} \cap Options)
    OBVIOUS
  <1>6. \E lost \in SUBSET ({} \cap Options) : Set(p, field, NoteOf(tool, path, content, lost, {}))
    BY <1>4, <1>5
  <1>7. Seen(field, Stage[field].size) = {}
    BY SeenSteps
  <1> QED
    BY <1>2, <1>6, <1>7, Zenon DEF Makes

\* The size is noted beside it.
LEMMA StatMakes ==
    ASSUME NotesInv, NEW p \in Builds, p \notin disturbed, pc[p] \in Reporting, NEW field \in Fields,
           StatFile(p, field), ~Abort(p, "1")
    PROVE  Makes(p, field, Stage[field].h)
  <1> PICK tool : tool = local[p].disassembler
    OBVIOUS
  <1> PICK path : path = PathOf(p, field)
    OBVIOUS
  <1> PICK content : content = ContentOf(p, field)
    OBVIOUS
  <1> PICK note : note = local[p][field]
    OBVIOUS
  <1>1. /\ Set(p, field, [note EXCEPT !.info = [@ EXCEPT !.size = content]])
        /\ Goto(p, Stage[field].h) /\ pc[p] = Stage[field].size
    BY DEF StatFile, At
  <1>2. Seen(field, Stage[field].size) = {} /\ Stage[field].size \in Hashed(field)
    BY SeenSteps
  <1>3. Looked(p, field)
    BY <1>1, <1>2 DEF NotesInv, NoteInv, LookInv
  <1>4. \E lost \in SUBSET ({} \cap Options) : note = NoteOf(tool, path, content, lost, {})
    BY <1>1, <1>2, <1>3 DEF Looked, FileNoted
  <1>5. note = NoteOf(tool, path, content, {}, {})
    BY <1>4
  <1>6. [note EXCEPT !.info = [@ EXCEPT !.size = content]] = NoteOf(tool, path, content, {}, {"size"})
    BY <1>5, NoteSized
  <1>7. Set(p, field, NoteOf(tool, path, content, {}, {"size"}))
    BY <1>1, <1>6
  <1>8. {} \in SUBSET ({"size"} \cap Options)
    OBVIOUS
  <1>9. \E lost \in SUBSET ({"size"} \cap Options) :
           Set(p, field, NoteOf(tool, path, content, lost, {"size"}))
    BY <1>7, <1>8
  <1>10. Seen(field, Stage[field].h) = {"size"}
    BY SeenSteps
  <1> QED
    BY <1>1, <1>9, <1>10, Zenon DEF Makes

\* A dump is added.
LEMMA DumpMakes ==
    ASSUME NotesInv, NEW p \in Builds, p \notin disturbed, pc[p] \in Reporting, NEW field \in Fields,
           NEW option \in Options, NEW next, DumpFile(p, field, option, next), ~Abort(p, "1"),
           NEW done, done = Seen(field, Stage[field][option]), option \notin done,
           Stage[field][option] \in Hashed(field),
           Seen(field, Stage[field][next]) = done \cup {option}
    PROVE  Makes(p, field, Stage[field][next])
  <1> PICK tool : tool = local[p].disassembler
    OBVIOUS
  <1> PICK path : path = PathOf(p, field)
    OBVIOUS
  <1> PICK content : content = ContentOf(p, field)
    OBVIOUS
  <1> PICK note : note = local[p][field]
    OBVIOUS
  <1> DEFINE Text(lost) == OutputOf(tool, option, path, content, lost)
  <1>1. /\ Goto(p, Stage[field][next]) /\ pc[p] = Stage[field][option]
        /\ \E more \in SUBSET {option} :
              Set(p, field, [info |-> Parsed(note.info, option, Text(more)), lost |-> note.lost \cup more])
    BY DEF DumpFile, At, OutputOf
  <1>2. PICK more \in SUBSET {option} :
            Set(p, field, [info |-> Parsed(note.info, option, Text(more)), lost |-> note.lost \cup more])
    BY <1>1
  <1>3. Looked(p, field)
    BY <1>1 DEF NotesInv, NoteInv, LookInv
  <1>4. PICK lost \in SUBSET (done \cap Options) : note = NoteOf(tool, path, content, lost, done)
    BY <1>1, <1>3 DEF Looked, FileNoted
  <1>5. PICK text : text = Text(more)
    OBVIOUS
  <1>6. [info |-> Parsed(note.info, option, text), lost |-> note.lost \cup more] =
           NoteOf(tool, path, content, lost \cup more, done \cup {option})
    <2>1. lost \in SUBSET done /\ note = NoteOf(tool, path, content, lost, done)
      BY <1>4
    <2>2. more \in SUBSET {option}
      BY <1>2
    <2> QED
      BY <1>5, <2>1, <2>2, NoteDumped
  <1> HIDE DEF Text
  <1>7. Set(p, field, NoteOf(tool, path, content, lost \cup more, done \cup {option}))
    BY <1>2, <1>5, <1>6
  <1>8. lost \cup more \in SUBSET ((done \cup {option}) \cap Options)
    BY <1>2, <1>4
  <1>9. \E l \in SUBSET ((done \cup {option}) \cap Options) :
           Set(p, field, NoteOf(tool, path, content, l, done \cup {option}))
    BY <1>7, <1>8
  <1> QED
    BY <1>1, <1>9, Zenon DEF Makes

\* Every step that describes a file makes the note of what is there.
LEMMA DescribeMakes ==
    ASSUME NotesInv, NEW p \in Builds, p \notin disturbed, pc[p] \in Reporting, NEW field \in Fields,
           Describe(p, field), ~Abort(p, "1")
    PROVE  \E label : Makes(p, field, label)
  <1>1. CASE HashFile(p, field)
    BY <1>1, HashMakes
  <1>2. CASE StatFile(p, field)
    BY <1>2, StatMakes
  <1>3. CASE DumpFile(p, field, "h", "t")
    <2>1. /\ "h" \in Options /\ "h" \notin {"size"} /\ {"size", "h"} = {"size"} \cup {"h"}
          /\ Seen(field, Stage[field]["h"]) = {"size"} /\ Stage[field]["h"] \in Hashed(field)
          /\ Seen(field, Stage[field]["t"]) = {"size", "h"}
      BY SeenSteps DEF Options
    <2>2. PICK done : done = {"size"}
      OBVIOUS
    <2> QED
      BY <1>3, <2>1, <2>2, DumpMakes
  <1>4. CASE DumpFile(p, field, "t", "p")
    <2>1. /\ "t" \in Options /\ "t" \notin {"size", "h"} /\ {"size", "h", "t"} = {"size", "h"} \cup {"t"}
          /\ Seen(field, Stage[field]["t"]) = {"size", "h"} /\ Stage[field]["t"] \in Hashed(field)
          /\ Seen(field, Stage[field]["p"]) = {"size", "h", "t"}
      BY SeenSteps DEF Options
    <2>2. PICK done : done = {"size", "h"}
      OBVIOUS
    <2> QED
      BY <1>4, <2>1, <2>2, DumpMakes
  <1>5. CASE DumpFile(p, field, "p", "next")
    <2>1. /\ "p" \in Options /\ "p" \notin {"size", "h", "t"} /\ All = {"size", "h", "t"} \cup {"p"}
          /\ Seen(field, Stage[field]["p"]) = {"size", "h", "t"} /\ Stage[field]["p"] \in Hashed(field)
          /\ Seen(field, Stage[field]["next"]) = All
      BY SeenSteps DEF Options, All
    <2>2. PICK done : done = {"size", "h", "t"}
      OBVIOUS
    <2> QED
      BY <1>5, <2>1, <2>2, DumpMakes
  <1> QED
    BY <1>1, <1>2, <1>3, <1>4, <1>5 DEF Describe

\* The last thing seen of a file.
LEMMA SeenAll ==
    /\ \A field \in Fields : Seen(field, "print") = All
    /\ \A label \in {"exe", "exe size", "exe -h", "exe -t", "exe -p", "print"} :
          Seen("object", label) = All /\ label \in Hashed("object")
  <1>1. ASSUME NEW field \in Fields, NEW label, label \notin {Stage[field][f] : f \in {"size", "h", "t", "p"}}
        PROVE  Seen(field, label) = All
    BY <1>1 DEF Seen
  <1>2. /\ Stage["object"].size = "object size" /\ Stage["object"].h = "object -h"
        /\ Stage["object"].t = "object -t" /\ Stage["object"].p = "object -p"
        /\ Stage["exe"].size = "exe size" /\ Stage["exe"].h = "exe -h"
        /\ Stage["exe"].t = "exe -t" /\ Stage["exe"].p = "exe -p"
    BY DEF Stage, Stages
  <1>3. \A field \in Fields : "print" \notin {Stage[field][f] : f \in {"size", "h", "t", "p"}}
    BY <1>2 DEF Fields
  <1>4. \A label \in {"exe", "exe size", "exe -h", "exe -t", "exe -p", "print"} :
           label \notin {Stage["object"][f] : f \in {"size", "h", "t", "p"}}
    BY <1>2
  <1>5. \A label \in {"exe", "exe size", "exe -h", "exe -t", "exe -p", "print"} :
           label \in Hashed("object")
    BY DEF Hashed, Describing
  <1> QED
    BY <1>1, <1>3, <1>4, <1>5 DEF Fields

\* The labels of the steps of the object, and those they lead to.
LEMMA ObjectLabels ==
    ASSUME NEW p, Describe(p, "object"), ~Abort(p, "1")
    PROVE  \E label \in {"object size", "object -h", "object -t", "object -p", "exe"} : Goto(p, label)
  <1>1. /\ Stage["object"].size = "object size" /\ Stage["object"].h = "object -h"
        /\ Stage["object"].t = "object -t" /\ Stage["object"].p = "object -p"
        /\ Stage["object"].next = "exe"
    BY DEF Stage, Stages
  <1> QED
    BY <1>1 DEF Describe, HashFile, StatFile, DumpFile

\* The same of the executable.
LEMMA ExeLabels ==
    ASSUME NEW p, Describe(p, "exe")
    PROVE  /\ pc[p] \in {"exe", "exe size", "exe -h", "exe -t", "exe -p"}
           /\ ~Abort(p, "1") =>
                 \E label \in {"exe size", "exe -h", "exe -t", "exe -p", "print"} : Goto(p, label)
  <1>1. /\ Stage["exe"].hash = "exe" /\ Stage["exe"].size = "exe size" /\ Stage["exe"].h = "exe -h"
        /\ Stage["exe"].t = "exe -t" /\ Stage["exe"].p = "exe -p" /\ Stage["exe"].next = "print"
    BY DEF Stage, Stages
  <1>2. pc[p] \in {"exe", "exe size", "exe -h", "exe -t", "exe -p"}
    BY <1>1 DEF Describe, HashFile, StatFile, DumpFile, At
  <1>3. ~Abort(p, "1") => \E label \in {"exe size", "exe -h", "exe -t", "exe -p", "print"} : Goto(p, label)
    BY <1>1 DEF Describe, HashFile, StatFile, DumpFile
  <1> QED
    BY <1>2, <1>3

\* Describing a file keeps every note.
LEMMA DescribeNotes ==
    ASSUME NotesInv, NEW p \in Builds, NEW field \in Fields, Describe(p, field)
    PROVE  NoteInv(p)'
  <1>0. /\ pc[p] \in Describing /\ UNCHANGED <<host, request, disk, disturbed>>
        /\ pc[p] \in Linked /\ pc[p] \in Reporting /\ pc[p] \notin {"finish", "done"}
    BY DescribeSteps DEF Keeps, Linked, Reporting, Describing
  <1>1. CASE Abort(p, "1")
    BY <1>0, <1>1, AbortNotes
  <1>2. CASE ~Abort(p, "1")
    <2>1. PICK note : Set(p, field, note)
      BY <1>2, DescribeSteps
    <2>2. PICK label \in Describing \cup {"print"} : Goto(p, label)
      BY <1>2, DescribeSteps
    <2>3. UNCHANGED <<made, results>>
      BY <1>2, DescribeSteps
    <2>4. /\ AssembleNoted(p)' /\ LinkNoted(p)' /\ Steady(p)
          /\ \A f \in DOMAIN local[p] : f # field => Holds(p, f)
      BY <1>0, <2>1, <2>3, SetCommandsStay DEF Roles, Fields
    <2>5. pc'[p] = label /\ ~Reported(p)'
      BY <1>0, <2>2, <2>3, LabelOf, NotYetReported
    <2>6. CommandsInv(p)'
      <3>1. request'[p].command = "build"
        BY <1>0 DEF NotesInv, NoteInv, CommandsInv
      <3> QED
        BY <2>4, <2>5, <3>1 DEF CommandsInv, Describing
    <2>7. Here(p)' = Here(p)
      BY <1>0, DirectoriesStay DEF Here
    <2>8. ASSUME p \notin disturbed', NEW f \in Fields, pc'[p] \in Hashed(f)
          PROVE  Looked(p, f)'
      <3>1. CASE f = field
        <4>1. PICK made_label : Makes(p, field, made_label)
          BY <1>0, <1>2, <2>8, DescribeMakes
        <4>2. made_label = label
          BY <2>5, <4>1, LabelOf DEF Makes
        <4> PICK done : done = Seen(field, label)
          OBVIOUS
        <4> PICK tool : tool = local[p].disassembler
          OBVIOUS
        <4> PICK path : path = PathOf(p, field)
          OBVIOUS
        <4> PICK content : content = ContentOf(p, field)
          OBVIOUS
        <4>3. PICK lost \in SUBSET (done \cap Options) :
                  Set(p, field, NoteOf(tool, path, content, lost, done))
          BY <4>1, <4>2 DEF Makes
        <4>4. /\ field \in DOMAIN local'[p]
              /\ local'[p][field] = NoteOf(tool, path, content, lost, done)
          BY <1>0, <2>3, <4>3, SetCommandsStay DEF Roles, Fields
        <4>5. /\ local'[p].disassembler = tool /\ PathOf(p, field)' = path
              /\ ContentOf(p, field)' = content /\ Seen(field, pc[p])' = done
          BY <2>4, <2>5, <2>7, SpecsStay DEF Steady, ContentOf
        <4>6. lost \in SUBSET (done \cap Options)
          BY <4>3
        <4>7. Looked(p, field)'
          BY <4>4, <4>5, <4>6, Zenon DEF Looked, FileNoted
        <4> QED
          BY <3>1, <4>7
      <3>2. CASE f # field
        <4>1. pc[p] \in Hashed(f) /\ Seen(f, pc[p])' = Seen(f, pc[p])
          <5>1. f = "object" /\ field = "exe"
            <6>1. CASE field = "object"
              <7>1. label \in {"object size", "object -h", "object -t", "object -p", "exe"}
                BY <1>2, <2>5, <6>1, ObjectLabels, LabelOf
              <7> QED
                BY <2>5, <2>8, <3>2, <6>1, <7>1 DEF Fields, Hashed
            <6> QED
              BY <3>2, <6>1 DEF Fields
          <5>2. pc[p] \in {"exe", "exe size", "exe -h", "exe -t", "exe -p"}
            BY <5>1, ExeLabels
          <5>3. label \in {"exe size", "exe -h", "exe -t", "exe -p", "print"}
            BY <1>2, <2>5, <5>1, ExeLabels, LabelOf
          <5>4. \A l \in {"exe", "exe size", "exe -h", "exe -t", "exe -p", "print"} :
                   Seen("object", l) = All /\ l \in Hashed("object")
            BY SeenAll
          <5> QED
            BY <2>5, <5>1, <5>2, <5>3, <5>4
        <4>2. Looked(p, f) /\ f \in DOMAIN local[p]
          BY <2>8, <4>1, <1>0 DEF NotesInv, NoteInv, LookInv, Looked, FileNoted
        <4> QED
          BY <2>4, <2>7, <3>2, <4>1, <4>2, LookStays
      <3> QED
        BY <3>1, <3>2
    <2>9. LookInv(p)'
      BY <2>8 DEF LookInv
    <2>10. PrintedInv(p)'
      BY <2>5 DEF PrintedInv
    <2> QED
      BY <2>6, <2>9, <2>10 DEF NoteInv
  <1> QED
    BY <1>1, <1>2

\* What the canonical evidence says of source, files and execution.
LEMMA EvidenceFields ==
    ASSUME NEW report, report.object # NoArtifact, report.executable # NoArtifact
    PROVE  LET e == canonical_evidence(report) IN
           /\ e.target = report.target /\ e.source_sha256 = report.source.hash
           /\ e.object.sha256 = report.object.hash
           /\ e.executable.sha256 = report.executable.hash
           /\ e.execution = report.execution
  BY DEF canonical_evidence, canonical_artifact

\* A file that was looked at is one.
LEMMA NotedInfo ==
    ASSUME NEW p, NEW field, NEW content, NEW done, FileNoted(p, field, content, done)
    PROVE  local[p][field].info # NoArtifact /\ local[p][field].info.hash = content
  <1>1. PICK tool, path, lost : local[p][field] = NoteOf(tool, path, content, lost, done)
    BY DEF FileNoted
  <1>2. local[p][field].info = InfoOf(tool, path, content, lost, done)
    BY <1>1 DEF NoteOf
  <1>3. \A a, b, c, d, e, f : Info(a, b, c, d, e, f) # NoArtifact /\ Info(a, b, c, d, e, f).hash = b
    <2>1. \A a, b, c, d, e, f : "hash" \in DOMAIN Info(a, b, c, d, e, f)
      BY DEF Info
    <2>2. "hash" \notin DOMAIN NoArtifact
      BY DEF NoArtifact
    <2>3. \A a, b, c, d, e, f : Info(a, b, c, d, e, f).hash = b
      BY DEF Info
    <2> QED
      BY <2>1, <2>2, <2>3
  <1>4. InfoOf(tool, path, content, lost, done) # NoArtifact
        /\ InfoOf(tool, path, content, lost, done).hash = content
    <2> DEFINE size == IF "size" \in done THEN content ELSE [kind |-> "unread"]
               sections == IF "h" \in done THEN parse_sections(DumpOf(tool, "h", path, content, lost)) ELSE {}
               symbols == IF "t" \in done THEN parse_symbols(DumpOf(tool, "t", path, content, lost)) ELSE {}
               dynamic == IF "p" \in done THEN is_dynamic(DumpOf(tool, "p", path, content, lost)) ELSE FALSE
    <2>1. InfoOf(tool, path, content, lost, done) = Info(path, content, size, sections, symbols, dynamic)
      BY DEF InfoOf
    <2> HIDE DEF size, sections, symbols, dynamic
    <2> QED
      BY <1>3, <2>1
  <1> QED
    BY <1>2, <1>4

\* What is printed is put together from the notes.
LEMMA PrintNotes ==
    ASSUME NotesInv, NEW p \in Builds, PrintReport(p)
    PROVE  NoteInv(p)'
  <1> DEFINE report == generate_report(p)
             e == canonical_evidence(report)
  <1>0. /\ pc[p] = "print" /\ UNCHANGED <<host, request, disk, disturbed, source, local, made>>
        /\ pc[p] \in Linked /\ pc[p] \in Assembled /\ pc[p] \in Reporting /\ TableInv
    BY DEF PrintReport, At, Keeps, Linked, Assembled, Reporting, NotesInv, ReportInv, BuildInv
  <1>1. pc'[p] = "finish" /\ document'[p].evidence = e
    BY <1>0 DEF PrintReport, TableInv, Goto
  <1>2. Steady(p) /\ MadeObject(p)' = MadeObject(p) /\ \A f \in DOMAIN local[p] : Holds(p, f)
    BY <1>0 DEF Steady, MadeObject, Object, Holds
  <1>3. CommandsInv(p)'
    <2>1. AssembleNoted(p) /\ LinkNoted(p) /\ request[p].command = "build"
      BY <1>0 DEF NotesInv, NoteInv, CommandsInv
    <2>2. AssembleNoted(p)' /\ LinkNoted(p)'
      BY <1>2, <2>1, NotesStay DEF AssembleNoted, LinkNoted
    <2> QED
      BY <1>0, <1>1, <2>1, <2>2 DEF CommandsInv
  <1>4. LookInv(p)'
    BY <1>1 DEF LookInv, Hashed, Describing
  <1>5. e' = e
    <2>1. generate_report(p)' = generate_report(p)
      BY <1>0, ReportStays
    <2> QED
      BY <2>1 DEF canonical_evidence
  <1>6. ASSUME p \notin disturbed' PROVE ReportedRight(p)' /\ FilesNoted(p)'
    <2>0. p \notin disturbed /\ TraceInv(p)
      BY <1>0, <1>6 DEF NotesInv, ReportInv
    <2>1. ASSUME NEW field \in Fields
          PROVE  ContentOf(p, field) # Nothing /\ FileNoted(p, field, ContentOf(p, field), All)
      <3>1. Looked(p, field)
        BY <1>0, <2>0 DEF NotesInv, NoteInv, LookInv, Hashed, Fields
      <3>2. Seen(field, "print") = All
        BY SeenAll
      <3> QED
        BY <1>0, <2>0, <3>1, <3>2, FilesAreThere DEF Looked
    <2>2. FilesNoted(p)'
      <3>1. ASSUME NEW field \in Fields
            PROVE  \E content : content # Nothing /\ FileNoted(p, field, content, All)'
        <4> PICK content : content = ContentOf(p, field)
          OBVIOUS
        <4> PICK done : done = All
          OBVIOUS
        <4>1. content # Nothing /\ FileNoted(p, field, content, done)
          BY <2>1
        <4>2. Holds(p, field)
          BY <1>2, <4>1 DEF FileNoted
        <4>3. FileNoted(p, field, content, done)'
          BY <1>2, <4>1, <4>2, FileNoteStays
        <4> QED
          BY <4>1, <4>3 DEF All, Options
      <3> QED
        BY <3>1 DEF FilesNoted, Nothing
    <2>3. /\ local[p]["object"].info # NoArtifact /\ local[p]["object"].info.hash = MadeObject(p)
          /\ local[p]["exe"].info # NoArtifact /\ local[p]["exe"].info.hash = Here(p).exe
          /\ Here(p).exe.of = MadeObject(p)
      <3>1. "object" \in Fields /\ "exe" \in Fields
        BY DEF Fields
      <3>2. ContentOf(p, "object") = Here(p).object /\ ContentOf(p, "exe") = Here(p).exe
        BY DEF ContentOf
      <3>3. Here(p).object = MadeObject(p) /\ Here(p).exe.of = MadeObject(p)
        BY <1>0, <2>0, <3>1, FilesAreThere
      <3>4. FileNoted(p, "object", MadeObject(p), All) /\ FileNoted(p, "exe", Here(p).exe, All)
        BY <2>1, <3>1, <3>2, <3>3
      <3> QED
        BY <3>3, <3>4, NotedInfo
    <2>4. /\ report.target = request[p].target /\ report.source.hash = local[p]["source"]
          /\ report.object = local[p]["object"].info /\ report.executable = local[p]["exe"].info
          /\ report.execution = local[p]["execution"]
      BY DEF generate_report
    <2>5. /\ local[p]["source"] = made[p].source
          /\ local[p]["execution"].status = "Succeeded" => made[p].ran = Here(p).exe
      BY <1>0, <2>0 DEF TraceInv
    <2> HIDE DEF report
    <2>6. /\ e.target = request[p].target /\ e.source_sha256 = made[p].source
          /\ e.object.sha256 = MadeObject(p) /\ e.executable.sha256 = Here(p).exe
          /\ e.execution = local[p]["execution"]
      BY <2>3, <2>4, <2>5, EvidenceFields
    <2> HIDE DEF e
    <2>7. ReportedRight(p)'
      BY <1>0, <1>1, <2>3, <2>5, <2>6 DEF ReportedRight, MadeObject
    <2> QED
      BY <2>2, <2>7
  <1>7. PrintedInv(p)'
    BY <1>1, <1>5, <1>6 DEF PrintedInv
  <1> QED
    BY <1>3, <1>4, <1>7 DEF NoteInv

\* The notes are not changed again.
LEMMA FinishNotes ==
    ASSUME NotesInv, NEW p \in Builds, Finish(p)
    PROVE  NoteInv(p)'
  <1>0. UNCHANGED <<host, request, local, made, disturbed, document>> /\ pc'[p] = "done"
    BY DEF Finish, At, Ends, Goto, NotesInv, ReportInv, BuildInv, TableInv
  <1>1. Steady(p) /\ MadeObject(p)' = MadeObject(p) /\ \A f \in DOMAIN local[p] : Holds(p, f)
    BY <1>0 DEF Steady, MadeObject, Object, Holds
  <1>2. CommandsInv(p)'
    <2>1. /\ AssembleNoted(p) => AssembleNoted(p)'
          /\ LinkNoted(p) => LinkNoted(p)'
      BY <1>1, NotesStay DEF AssembleNoted, LinkNoted
    <2> QED
      BY <1>0, <2>1 DEF NotesInv, NoteInv, CommandsInv, Reported, Assembled, Linked, Reporting, Describing
  <1>3. LookInv(p)'
    BY <1>0 DEF LookInv, Hashed, Describing
  <1>4. PrintedInv(p)'
    BY <1>0, <1>1, PrintedStays DEF NotesInv, NoteInv
  <1> QED
    BY <1>2, <1>3, <1>4 DEF NoteInv

\* Every step of a process keeps its notes.
LEMMA ProcessStepNotes ==
    ASSUME NotesInv, NEW p \in Builds, ProcessStep(p)
    PROVE  NoteInv(p)'
  BY EarlyNotes, AssembleNotes, ReadEntryNotes, LinkNotes, VerifyNotes, RunNotes, HashSourceNotes,
     DescribeNotes, PrintNotes, FinishNotes DEF ProcessStep

\* Every step keeps the notes of every process.
LEMMA NextNotesInv ==
    ASSUME NotesInv, [Next]_vars
    PROVE  NotesInv'
  <1>0. ReportInv /\ ToolsInv /\ BuildInv
    BY DEF NotesInv, ReportInv
  <1>1. ReportInv' /\ ToolsInv'
    BY <1>0, NextReportInv, NextToolsInv
  <1>2. ASSUME NEW p \in Builds, ProcessStep(p), NEW q \in Builds
        PROVE  NoteInv(q)'
    <2>1. CASE q = p
      BY <1>2, <2>1, ProcessStepNotes
    <2>2. CASE q # p
      <3>1. GoodStep(p) /\ Quiet(p)
        BY <1>0, <1>2, ProcessStepIsGood, ProcessStepIsFair DEF FairStep
      <3>2. /\ pc'[q] = pc[q] /\ local'[q] = local[q] /\ document'[q] = document[q]
            /\ made'[q] = made[q] /\ disturbed \subseteq disturbed' /\ UNCHANGED <<host, request>>
        BY <2>2, <3>1 DEF GoodStep, OnlyOf, Quiet
      <3>3. Kept(q)
        BY <2>2, <3>1, LabelsWork DEF Kept, Quiet
      <3> QED
        BY <3>2, <3>3, OthersNotes DEF NotesInv
    <2> QED
      BY <2>1, <2>2
  <1>3. ASSUME UNCHANGED <<host, request, disk, pc, local, document, made>>, disturbed \subseteq disturbed',
               NEW q \in Builds
        PROVE  NoteInv(q)'
    <2>1. Kept(q)
      BY <1>3, DirectoriesStay DEF Kept, Here
    <2> QED
      BY <1>3, <2>1, OthersNotes DEF NotesInv
  <1>4. (\E f \in Files : Save(f)) \/ Done \/ UNCHANGED vars =>
           UNCHANGED <<host, request, disk, pc, local, document, made>> /\ disturbed \subseteq disturbed'
    BY DEF Save, Done, vars, results
  <1> QED
    BY <1>1, <1>2, <1>3, <1>4, NextSteps DEF NotesInv

\* A process that has not started has noted nothing.
LEMMA InitNotesInv == Init => NotesInv
  <1> SUFFICES ASSUME Init PROVE NotesInv
    OBVIOUS
  <1>1. ToolsInv
    BY InitBuildInv DEF Init, ToolsInv, Equipped
  <1>2. ASSUME NEW p \in Builds PROVE NoteInv(p)
    <2>1. pc[p] = "target" /\ ~Reported(p)
      BY DEF Init, Reported, Nothing
    <2>2. CommandsInv(p)
      BY <2>1 DEF CommandsInv, Assembled, Linked, Reporting, Describing
    <2>3. LookInv(p)
      BY <2>1 DEF LookInv, Hashed, Describing
    <2> QED
      BY <2>1, <2>2, <2>3 DEF NoteInv, PrintedInv
  <1> QED
    BY <1>1, <1>2, InitReportInv DEF NotesInv

\* Whatever the number of processes, hosts and directories, and whatever earlier
\* builds left behind: a report of do_build whose source and directory nobody
\* changed meanwhile names the source that was assembled, the object made of it,
\* the executable linked from that object, and the executable that ran.
THEOREM ReportsAreOwn == Spec => []ReportIsOfThisBuild
  <1>1. NotesInv => ReportIsOfThisBuild
    BY DEF NotesInv, NoteInv, PrintedInv, ReportedRight, ReportIsOfThisBuild
  <1> QED
    BY <1>1, InitNotesInv, NextNotesInv, PTL DEF Spec

------------------------------------------------------------------------------
(* The dumps of a report.                                                  *)

\* The private headers name a dynamic section if there is one, or if the path does.
LEMMA HeadersReadBack ==
    ASSUME NEW path, NEW image
    PROVE  is_dynamic(PrintHeaders(path, image)) <=> MentionsDynamic(path) \/ image.is_dynamic
  <1> DEFINE first == FirstLine(path)
             word == Word("DYNAMIC", 7)
             text == PrintHeaders(path, image)
  <1>1. /\ Banner(path) = <<first, <<>>>> /\ DOMAIN first = 1..4
        /\ first[1].dynamic = MentionsDynamic(path)
        /\ ~first[2].dynamic /\ ~first[3].dynamic /\ ~first[4].dynamic
    BY BannerLines
  <1>2. word.dynamic
    BY PlainWords
  <1> HIDE DEF first, word
  <1>3. ~image.is_dynamic => text = <<first, <<>>>>
    <2>1. ~image.is_dynamic => text = <<first, <<>>>> \o <<>>
      BY <1>1 DEF PrintHeaders
    <2>2. <<first, <<>>>> \o <<>> = <<first, <<>>>>
      OBVIOUS
    <2> QED
      BY <2>1, <2>2
  <1>4. image.is_dynamic => 3 \in DOMAIN text /\ text[3] = <<word>>
    <2>1. image.is_dynamic => text = <<first, <<>>>> \o <<<<word>>>>
      BY <1>1 DEF PrintHeaders, word
    <2> DEFINE S == {first, <<>>, <<word>>}
               s == <<first, <<>>>>
               t == <<<<word>>>>
    <2>2. s \in Seq(S) /\ t \in Seq(S) /\ Len(s) = 2 /\ Len(t) = 1 /\ t[1] = <<word>>
      OBVIOUS
    <2> HIDE DEF S, s, t
    <2>3. /\ s \o t \in Seq(S) /\ Len(s \o t) = Len(s) + Len(t)
          /\ \A i \in 1..Len(t) : (s \o t)[Len(s) + i] = t[i]
      BY <2>2, Concatenated
    <2>4. 3 \in DOMAIN (s \o t) /\ (s \o t)[3] = <<word>>
      BY <2>2, <2>3
    <2> QED
      BY <2>1, <2>4 DEF s, t
  <1> HIDE DEF text
  <1>5. CASE image.is_dynamic
    <2>1. 3 \in DOMAIN text /\ text[3] = <<word>>
      BY <1>4, <1>5
    <2>2. 1 \in DOMAIN text[3] /\ text[3][1] = word
      BY <2>1
    <2>3. is_dynamic(text)
      BY <1>2, <2>1, <2>2 DEF is_dynamic
    <2> QED
      BY <1>5, <2>3 DEF text
  <1>6. CASE ~image.is_dynamic
    <2>1. DOMAIN text = {1, 2} /\ text[1] = first /\ text[2] = <<>>
      BY <1>3, <1>6
    <2>2. is_dynamic(text) <=> \E j \in DOMAIN first : first[j].dynamic
      <3>1. is_dynamic(text) <=> \E i \in {1, 2} : \E j \in DOMAIN text[i] : text[i][j].dynamic
        BY <2>1 DEF is_dynamic
      <3>2. DOMAIN text[2] = {}
        BY <2>1
      <3> QED
        BY <2>1, <3>1, <3>2
    <2>3. (\E j \in DOMAIN first : first[j].dynamic) <=> first[1].dynamic
      BY <1>1
    <2> QED
      BY <1>1, <1>6, <2>2, <2>3 DEF text
  <1> QED
    BY <1>5, <1>6

\* What the two tables of a file say of it.
LEMMA ImagesAreRead ==
    ASSUME NEW path, NEW image, NEW tool, Readable(image)
    PROVE  /\ {SectionParts(s) : s \in parse_sections(PrintSections(tool, path, image))} =
                 {SectionOf(s) : s \in Range(image.sections)}
           /\ {SymbolParts(s) : s \in parse_symbols(PrintSymbols(path, image))} =
                 {SymbolOf(s) : s \in Range(image.symbols)}
  <1>1. {SectionParts(s) : s \in parse_sections(PrintSections(tool, path, image))} =
           {SectionOf(s) : s \in Range(image.sections)}
    <2> PICK secs : secs = image.sections
      OBVIOUS
    <2> PICK n : n = Len(secs)
      OBVIOUS
    <2>1. secs \in Seq([name : Words, size : Nat, vma : Nat])
      BY DEF Readable, IsImage
    <2>2. n \in Nat /\ DOMAIN secs = 1..n /\ secs \in Seq(Range(secs))
      BY <2>1 DEF Range
    <2> QED
      BY <2>2, SectionsReadBack
  <1>2. {SymbolParts(s) : s \in parse_symbols(PrintSymbols(path, image))} =
           {SymbolOf(s) : s \in Range(image.symbols)}
    <2> PICK symbols : symbols = image.symbols
      OBVIOUS
    <2> PICK n : n = Len(symbols)
      OBVIOUS
    <2>1. symbols \in Seq([name : Words, section : Words, address : Nat, size : Nat])
      BY DEF Readable, IsImage
    <2>2. n \in Nat /\ DOMAIN symbols = 1..n
      BY <2>1
    <2>3. ASSUME NEW i \in 1..n PROVE Short(symbols[i].section)
      <3>1. symbols[i] \in [name : Words, section : Words, address : Nat, size : Nat]
        <4> DEFINE S == [name : Words, section : Words, address : Nat, size : Nat]
        <4>1. symbols \in Seq(S) /\ i \in 1..Len(symbols)
          BY <2>1
        <4> HIDE DEF S
        <4>2. symbols[i] \in S
          BY <4>1
        <4> QED
          BY <4>2 DEF S
      <3>2. symbols[i].section \in Words
        BY <3>1
      <3>3. symbols[i].section.len \in Nat
        BY <3>2 DEF Words
      <3>4. symbols[i].section.hex => symbols[i].section.len < 8
        BY <2>2 DEF Readable
      <3> QED
        BY <3>3, <3>4 DEF Short
    <2> QED
      BY <2>2, <2>3, SymbolsReadBack
  <1> QED
    BY <1>1, <1>2

\* What a directory, and a path below it, is put together of.
Names == {"/exit", ".obj", ".o", ".exe"}
Parts == STRING \cup Builds \cup Names

\* A directory is a path that is not empty.
LEMMA DirectoryPaths ==
    ASSUME FileInv, NEW p \in Builds
    PROVE  DirOf(p) \in Seq(Parts) /\ DirOf(p) # <<>>
  <1>1. host.temp \in Seq(STRING) /\ request[p].out_dir \in Seq(STRING)
    BY DEF FileInv
  <1>2. host.temp \in Seq(Parts) /\ request[p].out_dir \in Seq(Parts)
    BY <1>1 DEF Parts
  <1>3. CASE request[p].out_dir = <<>>
    <2>1. DirOf(p) = host.temp \o <<p>>
      BY <1>3 DEF DirOf, TempDir
    <2>2. <<p>> \in Seq(Parts)
      BY DEF Parts
    <2>3. host.temp \o <<p>> \in Seq(Parts) /\ Len(host.temp \o <<p>>) = Len(host.temp) + 1
      BY <1>2, <2>2
    <2>4. Len(host.temp \o <<p>>) # 0 /\ Len(<<>>) = 0
      BY <1>2, <2>3
    <2> QED
      BY <2>1, <2>3, <2>4
  <1>4. CASE request[p].out_dir # <<>>
    BY <1>2, <1>4 DEF DirOf
  <1> QED
    BY <1>3, <1>4

\* The parts of a path and of one below it.
LEMMA PartsBelow ==
    ASSUME NEW S, NEW s \in Seq(S), NEW t \in Seq(S)
    PROVE  Range(s \o t) = Range(s) \cup Range(t)
  <1>1. /\ DOMAIN (s \o t) = 1..(Len(s) + Len(t)) /\ Len(s) \in Nat /\ Len(t) \in Nat
        /\ DOMAIN s = 1..Len(s) /\ DOMAIN t = 1..Len(t)
        /\ \A i \in 1..Len(s) : (s \o t)[i] = s[i]
        /\ \A i \in 1..Len(t) : (s \o t)[Len(s) + i] = t[i]
    OBVIOUS
  <1>2. ASSUME NEW i \in DOMAIN (s \o t) PROVE (s \o t)[i] \in Range(s) \cup Range(t)
    <2>1. CASE i <= Len(s)
      BY <1>1, <2>1 DEF Range
    <2>2. CASE i > Len(s)
      <3>1. i - Len(s) \in 1..Len(t) /\ i = Len(s) + (i - Len(s))
        BY <1>1, <2>2
      <3>2. (s \o t)[i] = t[i - Len(s)]
        BY <1>1, <3>1
      <3> QED
        BY <1>1, <3>1, <3>2 DEF Range
    <2> QED
      BY <1>1, <2>1, <2>2
  <1>3. ASSUME NEW i \in DOMAIN s PROVE s[i] \in Range(s \o t)
    BY <1>1 DEF Range
  <1>4. ASSUME NEW i \in DOMAIN t PROVE t[i] \in Range(s \o t)
    <2>1. Len(s) + i \in DOMAIN (s \o t) /\ (s \o t)[Len(s) + i] = t[i]
      BY <1>1
    <2> QED
      BY <2>1 DEF Range
  <1> QED
    BY <1>2, <1>3, <1>4 DEF Range

\* The files' own names say nothing of a dynamic section.
LEMMA PathMentions ==
    ASSUME FileInv, NEW p \in Builds, NEW field \in Fields
    PROVE  MentionsDynamic(PathOf(p, field)) <=> MentionsDynamic(DirOf(p))
  <1> PICK dir : dir = DirOf(p)
    OBVIOUS
  <1>1. dir \in Seq(Parts)
    BY DirectoryPaths
  <1>2. \E tail \in Seq(Parts) :
           /\ PathOf(p, field) = dir \o tail
           /\ "DYNAMIC" \notin Range(tail) /\ "dynamic" \notin Range(tail)
    <2>1. /\ Range(<<"/exit", ".obj">>) = {"/exit", ".obj"} /\ Range(<<"/exit", ".o">>) = {"/exit", ".o"}
          /\ Range(<<"/exit", ".exe">>) = {"/exit", ".exe"} /\ Range(<<"/exit">>) = {"/exit"}
      BY DEF Range
    <2>2. /\ <<"/exit", ".obj">> \in Seq(Parts) /\ <<"/exit", ".o">> \in Seq(Parts)
          /\ <<"/exit", ".exe">> \in Seq(Parts) /\ <<"/exit">> \in Seq(Parts)
      <3> DEFINE S == Parts
      <3>1. "/exit" \in S /\ ".obj" \in S /\ ".o" \in S /\ ".exe" \in S
        BY DEF Parts, Names
      <3> HIDE DEF S
      <3>2. \A a, b \in S : <<a, b>> \in Seq(S) /\ <<a>> \in Seq(S)
        OBVIOUS
      <3>3. /\ <<"/exit", ".obj">> \in Seq(S) /\ <<"/exit", ".o">> \in Seq(S)
            /\ <<"/exit", ".exe">> \in Seq(S) /\ <<"/exit">> \in Seq(S)
        BY <3>1, <3>2
      <3> QED
        BY <3>3 DEF S
    <2>3. \/ PathOf(p, field) = dir \o <<"/exit", ".obj">> \/ PathOf(p, field) = dir \o <<"/exit", ".o">>
          \/ PathOf(p, field) = dir \o <<"/exit", ".exe">> \/ PathOf(p, field) = dir \o <<"/exit">>
      BY DEF PathOf, ObjectPath, ExePath
    <2> QED
      BY <2>1, <2>2, <2>3
  <1>3. PICK tail \in Seq(Parts) :
           /\ PathOf(p, field) = dir \o tail
           /\ "DYNAMIC" \notin Range(tail) /\ "dynamic" \notin Range(tail)
    BY <1>2
  <1>4. Range(dir \o tail) = Range(dir) \cup Range(tail)
    BY <1>1, <1>3, PartsBelow
  <1> QED
    BY <1>3, <1>4 DEF MentionsDynamic

\* The description of a file that was looked at in full.
LEMMA SeenInfo ==
    ASSUME NEW tool, NEW path, NEW content, NEW lost
    PROVE  LET info == InfoOf(tool, path, content, lost, All) IN
           /\ info.path = path /\ info.hash = content /\ info.size = content
           /\ info.sections = parse_sections(DumpOf(tool, "h", path, content, lost))
           /\ info.symbols = parse_symbols(DumpOf(tool, "t", path, content, lost))
           /\ info.is_dynamic = is_dynamic(DumpOf(tool, "p", path, content, lost))
  <1> DEFINE sections == parse_sections(DumpOf(tool, "h", path, content, lost))
             symbols == parse_symbols(DumpOf(tool, "t", path, content, lost))
             dynamic == is_dynamic(DumpOf(tool, "p", path, content, lost))
  <1>1. InfoOf(tool, path, content, lost, All) = Info(path, content, content, sections, symbols, dynamic)
    BY DEF InfoOf, All, Options
  <1>2. \A a, b, c, d, e, f : LET info == Info(a, b, c, d, e, f) IN
           /\ info.path = a /\ info.hash = b /\ info.size = c /\ info.sections = d /\ info.symbols = e
           /\ info.is_dynamic = f
    BY DEF Info
  <1> PICK flag : flag = dynamic
    OBVIOUS
  <1> HIDE DEF sections, symbols, dynamic
  <1>3. InfoOf(tool, path, content, lost, All) = Info(path, content, content, sections, symbols, flag)
    BY <1>1
  <1>4. LET info == InfoOf(tool, path, content, lost, All) IN
        /\ info.path = path /\ info.hash = content /\ info.size = content
        /\ info.sections = sections /\ info.symbols = symbols /\ info.is_dynamic = flag
    BY <1>2, <1>3
  <1> QED
    BY <1>4 DEF sections, symbols, dynamic

\* Whatever the host's dumper, the file in the directory, the number of builds, the
\* outputs lost and the steps of others between the hash, the size and the three
\* dumps: the sections and symbols in a report of an undisturbed build are those
\* of the file whose hash stands beside them, if that file has no section with a
\* name that reads as a size.
THEOREM DumpsAreFaithful == Spec => []DumpIsFaithful
  <1>1. NotesInv => DumpIsFaithful
    <2> SUFFICES ASSUME NotesInv, NEW p \in Builds \ disturbed, Reported(p), ~Pe(p),
                        NEW field \in Fields, NEW a, a = Described(p, field),
                        a # NoArtifact, NEW image, image = ImageOf(a.hash)
                 PROVE  /\ a.size = a.hash
                        /\ a.hash # Garbage /\ Readable(image) =>
                            /\ "h" \notin local[p][field].lost => {SectionParts(s) : s \in a.sections} =
                                  {SectionOf(s) : s \in Range(image.sections)}
                            /\ "t" \notin local[p][field].lost => {SymbolParts(s) : s \in a.symbols} =
                                  {SymbolOf(s) : s \in Range(image.symbols)}
                            /\ "p" \notin local[p][field].lost /\ ~MentionsDynamic(DirOf(p)) =>
                                  a.is_dynamic = image.is_dynamic
      BY DEF DumpIsFaithful, SectionParts, SectionOf, SymbolParts, SymbolOf, Fields
    <2>1. PICK content : content # Nothing /\ FileNoted(p, field, content, All)
      BY DEF NotesInv, NoteInv, PrintedInv, FilesNoted
    <2> PICK tool : tool = local[p].disassembler
      OBVIOUS
    <2> PICK path : path = PathOf(p, field)
      OBVIOUS
    <2>2. PICK lost : local[p][field] = NoteOf(tool, path, content, lost, All)
      BY <2>1 DEF FileNoted
    <2>3. local[p][field].lost = lost /\ a = InfoOf(tool, path, content, lost, All)
      BY <2>2 DEF NoteOf, Described
    <2>4. /\ a.hash = content /\ a.size = content
          /\ a.sections = parse_sections(DumpOf(tool, "h", path, content, lost))
          /\ a.symbols = parse_symbols(DumpOf(tool, "t", path, content, lost))
          /\ a.is_dynamic = is_dynamic(DumpOf(tool, "p", path, content, lost))
      BY <2>3, SeenInfo
    <2>5. ASSUME content # Garbage, Readable(image)
          PROVE  /\ "h" \notin lost => {SectionParts(s) : s \in a.sections} =
                        {SectionOf(s) : s \in Range(image.sections)}
                 /\ "t" \notin lost => {SymbolParts(s) : s \in a.symbols} =
                        {SymbolOf(s) : s \in Range(image.symbols)}
                 /\ "p" \notin lost /\ ~MentionsDynamic(DirOf(p)) => a.is_dynamic = image.is_dynamic
      <3>1. /\ "h" \notin lost => DumpOf(tool, "h", path, content, lost) = PrintSections(tool, path, image)
            /\ "t" \notin lost => DumpOf(tool, "t", path, content, lost) = PrintSymbols(path, image)
            /\ "p" \notin lost => DumpOf(tool, "p", path, content, lost) = PrintHeaders(path, image)
        BY <2>1, <2>4, <2>5 DEF DumpOf, Printed
      <3>2. /\ {SectionParts(s) : s \in parse_sections(PrintSections(tool, path, image))} =
                  {SectionOf(s) : s \in Range(image.sections)}
            /\ {SymbolParts(s) : s \in parse_symbols(PrintSymbols(path, image))} =
                  {SymbolOf(s) : s \in Range(image.symbols)}
        BY <2>5, ImagesAreRead
      <3>3. "p" \notin lost /\ ~MentionsDynamic(DirOf(p)) => (a.is_dynamic <=> image.is_dynamic)
        <4>1. MentionsDynamic(path) <=> MentionsDynamic(DirOf(p))
          BY PathMentions DEF NotesInv, ReportInv
        <4>2. is_dynamic(PrintHeaders(path, image)) <=> MentionsDynamic(path) \/ image.is_dynamic
          BY HeadersReadBack
        <4> QED
          BY <2>4, <3>1, <4>1, <4>2
      <3>4. a.is_dynamic \in BOOLEAN /\ image.is_dynamic \in BOOLEAN
        BY <2>4, <2>5 DEF Readable, IsImage, is_dynamic
      <3>5. "p" \notin lost /\ ~MentionsDynamic(DirOf(p)) => a.is_dynamic = image.is_dynamic
        BY <3>3, <3>4
      <3> QED
        BY <2>4, <3>1, <3>2, <3>5
    <2> QED
      BY <2>3, <2>4, <2>5
  <1> QED
    BY <1>1, InitNotesInv, NextNotesInv, PTL DEF Spec

------------------------------------------------------------------------------
(* Where a path stands in an argument.                                     *)

\* s stands in t after the first k parts.
StandsAt(s, t, k) == k + Len(s) <= Len(t) /\ \A m \in 1..Len(s) : t[k + m] = s[m]

\* A part of a sequence, part by part.
LEMMA PartOf ==
    ASSUME NEW S, NEW t \in Seq(S), NEW i \in 0..Len(t), NEW j \in i..Len(t)
    PROVE  /\ SubSeq(t, i + 1, j) \in Seq(S) /\ Len(SubSeq(t, i + 1, j)) = j - i
           /\ \A m \in 1..(j - i) : SubSeq(t, i + 1, j)[m] = t[i + m]
  OBVIOUS

\* A sequence that is part of another stands somewhere in it.
LEMMA PartStands ==
    ASSUME NEW S, NEW s \in Seq(S), NEW t \in Seq(S), Len(s) > 0, s \in SubSeqs(t)
    PROVE  \E k \in Nat : StandsAt(s, t, k)
  <1>1. PICK i \in 0..Len(t), j \in 0..Len(t) : s = SubSeq(t, i + 1, j)
    BY DEF SubSeqs
  <1>2. CASE j < i
    <2>1. Len(SubSeq(t, i + 1, j)) = 0
      BY <1>2
    <2> QED
      BY <1>1, <2>1
  <1>3. CASE j >= i
    <2>1. j \in i..Len(t)
      BY <1>3
    <2>2. Len(s) = j - i /\ \A m \in 1..(j - i) : s[m] = t[i + m]
      BY <1>1, <2>1, PartOf
    <2>3. i \in Nat /\ i + Len(s) <= Len(t)
      BY <2>1, <2>2
    <2> QED
      BY <2>2, <2>3 DEF StandsAt
  <1> QED
    BY <1>2, <1>3

\* And the other way round.
LEMMA StandsIsPart ==
    ASSUME NEW S, NEW s \in Seq(S), NEW t \in Seq(S), NEW k \in Nat, StandsAt(s, t, k)
    PROVE  s \in SubSeqs(t)
  <1> DEFINE n == Len(s)
             part == SubSeq(t, k + 1, k + n)
  <1>1. n \in Nat /\ k + n <= Len(t) /\ \A m \in 1..n : t[k + m] = s[m]
    BY DEF StandsAt
  <1>2. k \in 0..Len(t) /\ k + n \in k..Len(t) /\ k + n \in 0..Len(t) /\ (k + n) - k = n
    BY <1>1
  <1>3. part \in Seq(S) /\ Len(part) = n /\ \A m \in 1..n : part[m] = t[k + m]
    BY <1>2, PartOf, ZenonT(30)
  <1> HIDE DEF part
  <1>4. s = part
    BY <1>1, <1>3
  <1> QED
    BY <1>2, <1>4 DEF SubSeqs, part

\* Nothing is replaced where the path does not stand.
LEMMA NothingReplaced ==
    ASSUME NEW S, NEW s \in Seq(S), NEW t \in Seq(S), Len(s) > 0, NEW r,
           \A k \in Nat : ~StandsAt(s, t, k)
    PROVE  ReplaceFirstSubSeq(r, s, t) = t
  BY PartStands DEF ReplaceFirstSubSeq

\* Where the path stands for the first time, it is replaced.
LEMMA ReplacedAt ==
    ASSUME NEW S, NEW s \in Seq(S), NEW t \in Seq(S), Len(s) > 0, NEW r,
           NEW k \in Nat, StandsAt(s, t, k), \A i \in 0..(k - 1) : ~StandsAt(s, t, i)
    PROVE  ReplaceFirstSubSeq(r, s, t) = SubSeq(t, 1, k) \o r \o SubSeq(t, k + 1 + Len(s), Len(t))
  <1> DEFINE n == Len(s)
             Ends_(i) == /\ s \in SubSeqs(SubSeq(t, 1, i))
                         /\ \A j \in 0..i-1 : s \notin SubSeqs(SubSeq(t, 1, j))
             last == CHOOSE i \in 0..Len(t) : Ends_(i)
  <1>1. n \in Nat /\ n > 0 /\ k + n <= Len(t) /\ k + n \in 0..Len(t)
    BY DEF StandsAt
  <1>2. \A i \in 0..Len(t) : /\ SubSeq(t, 1, i) \in Seq(S) /\ Len(SubSeq(t, 1, i)) = i
                             /\ \A m \in 1..i : SubSeq(t, 1, i)[m] = t[m]
    OBVIOUS
  <1>3. s \in SubSeqs(SubSeq(t, 1, k + n))
    <2>1. StandsAt(s, SubSeq(t, 1, k + n), k)
      BY <1>1, <1>2 DEF StandsAt
    <2> QED
      BY <1>1, <1>2, <2>1, StandsIsPart
  <1>4. ASSUME NEW j \in 0..(k + n - 1) PROVE s \notin SubSeqs(SubSeq(t, 1, j))
    <2> SUFFICES ASSUME s \in SubSeqs(SubSeq(t, 1, j)) PROVE FALSE
      OBVIOUS
    <2>1. j \in 0..Len(t)
      BY <1>1
    <2>2. PICK i \in Nat : StandsAt(s, SubSeq(t, 1, j), i)
      BY <1>1, <1>2, <2>1, PartStands
    <2>3. i + n <= j /\ \A m \in 1..n : t[i + m] = s[m]
      BY <1>1, <1>2, <2>1, <2>2 DEF StandsAt
    <2>4. i \in 0..(k - 1) /\ i + n <= Len(t)
      BY <1>1, <2>1, <2>3
    <2> QED
      BY <2>3, <2>4 DEF StandsAt
  <1>5. Ends_(k + n)
    BY <1>1, <1>3, <1>4
  <1>6. ASSUME NEW i \in 0..Len(t), Ends_(i) PROVE i = k + n
    <2>1. ~(i < k + n)
      BY <1>1, <1>4, <1>6
    <2>2. ~(k + n < i)
      BY <1>1, <1>3, <1>6
    <2> QED
      BY <1>1, <2>1, <2>2
  <1>7. last = k + n
    <2> HIDE DEF Ends_
    <2> QED
      BY <1>1, <1>5, <1>6, Zenon
  <1>8. IndexFirstSubSeq(s, t) = last - (Len(s) - 1)
    BY DEF IndexFirstSubSeq
  <1>9. IndexFirstSubSeq(s, t) = k + 1
    <2>1. \A x \in Nat : (k + x) - (x - 1) = k + 1
      OBVIOUS
    <2>2. (k + Len(s)) - (Len(s) - 1) = k + 1
      BY <1>1, <2>1
    <2> HIDE DEF last
    <2> QED
      BY <1>7, <1>8, <2>2
  <1>10. ReplaceFirstSubSeq(r, s, t) = ReplaceSubSeqAt(k + 1, r, s, t)
    BY <1>9, StandsIsPart DEF ReplaceFirstSubSeq
  <1>11. (k + 1) - 1 = k
    OBVIOUS
  <1> QED
    BY <1>10, <1>11 DEF ReplaceSubSeqAt

\* What comes out, part by part, when the path becomes a label.
Labelled(x, S, l, s, t, k) ==
    /\ x \in Seq(S) /\ Len(x) = (Len(t) - Len(s)) + 1
    /\ \A i \in 1..k : x[i] = t[i]
    /\ x[k + 1] = l
    /\ \A i \in 1..(Len(t) - (k + Len(s))) : x[(k + 1) + i] = t[(k + Len(s)) + i]

\* Replacing the first place where s stands in t puts the label there and moves the rest up.
LEMMA LabelledAt ==
    ASSUME NEW S, NEW s \in Seq(S), NEW t \in Seq(S), Len(s) > 0, NEW l \in S,
           NEW k \in Nat, StandsAt(s, t, k), \A i \in 0..(k - 1) : ~StandsAt(s, t, i)
    PROVE  Labelled(ReplaceFirstSubSeq(<<l>>, s, t), S, l, s, t, k)
  <1> DEFINE x == ReplaceFirstSubSeq(<<l>>, s, t)
             before == SubSeq(t, 1, k)
             after == SubSeq(t, k + 1 + Len(s), Len(t))
             top == before \o <<l>>
  <1>1. x = top \o after
    BY ReplacedAt
  <1>2. k + Len(s) <= Len(t) /\ k <= Len(t) /\ Len(s) \in Nat /\ Len(t) \in Nat
    BY DEF StandsAt
  <1>3. before \in Seq(S) /\ Len(before) = k /\ \A i \in 1..k : before[i] = t[i]
    BY <1>2
  <1> PICK j : j = k + Len(s)
    OBVIOUS
  <1>4. k + 1 + Len(s) = j + 1 /\ j \in 0..Len(t) /\ Len(t) \in j..Len(t)
    BY <1>2
  <1>5. /\ after \in Seq(S) /\ Len(after) = Len(t) - j
        /\ \A i \in 1..(Len(t) - j) : after[i] = t[j + i]
    <2>1. after = SubSeq(t, j + 1, Len(t))
      BY <1>4
    <2> HIDE DEF after
    <2>2. j \in 0..Len(t) /\ Len(t) \in j..Len(t)
      BY <1>4
    <2>3. /\ SubSeq(t, j + 1, Len(t)) \in Seq(S) /\ Len(SubSeq(t, j + 1, Len(t))) = Len(t) - j
          /\ \A m \in 1..(Len(t) - j) : SubSeq(t, j + 1, Len(t))[m] = t[j + m]
      BY <2>2, PartOf
    <2> QED
      BY <2>1, <2>3
  <1>6. <<l>> \in Seq(S) /\ Len(<<l>>) = 1 /\ <<l>>[1] = l
    OBVIOUS
  <1> HIDE DEF before, after, x
  <1>7. top \in Seq(S) /\ Len(top) = k + 1 /\ (\A i \in 1..k : top[i] = t[i]) /\ top[k + 1] = l
    <2>1. before \in Seq(S) /\ <<l>> \in Seq(S)
      BY <1>3, <1>6
    <2>2. /\ top \in Seq(S) /\ Len(top) = Len(before) + Len(<<l>>)
          /\ \A i \in 1..Len(before) : top[i] = before[i]
          /\ \A i \in 1..Len(<<l>>) : top[Len(before) + i] = <<l>>[i]
      BY <2>1, TextOf
    <2> HIDE DEF top
    <2> QED
      BY <1>3, <1>6, <2>2
  <1> HIDE DEF top
  <1>8. /\ x \in Seq(S) /\ Len(x) = Len(top) + Len(after)
        /\ \A i \in 1..Len(top) : x[i] = top[i]
        /\ \A i \in 1..Len(after) : x[Len(top) + i] = after[i]
    <2>1. top \in Seq(S) /\ after \in Seq(S)
      BY <1>5, <1>7
    <2> QED
      BY <1>1, <2>1, TextOf
  <1>9. /\ x \in Seq(S) /\ Len(x) = (Len(t) - Len(s)) + 1 /\ \A i \in 1..k : x[i] = t[i]
        /\ x[k + 1] = l
    BY <1>2, <1>5, <1>7, <1>8
  <1>10. \A i \in 1..(Len(t) - j) : x[(k + 1) + i] = t[j + i]
    BY <1>2, <1>5, <1>7, <1>8
  <1> QED
    BY <1>9, <1>10 DEF x, Labelled

\* A sequence of one or two parts.
LEMMA FewParts ==
    ASSUME NEW S, NEW x \in Seq(S)
    PROVE  /\ Len(x) = 1 => x = <<x[1]>>
           /\ Len(x) = 2 => x = <<x[1], x[2]>>
  OBVIOUS

\* A path that is the whole argument, but for one part after it or before it.
LEMMA LabelledPath ==
    ASSUME NEW S, NEW s \in Seq(S), NEW t \in Seq(S), Len(s) > 0, NEW l \in S
    PROVE  /\ StandsAt(s, t, 0) /\ Len(t) = Len(s) => ReplaceFirstSubSeq(<<l>>, s, t) = <<l>>
           /\ StandsAt(s, t, 0) /\ Len(t) = Len(s) + 1 =>
                 ReplaceFirstSubSeq(<<l>>, s, t) = <<l, t[Len(t)]>>
           /\ StandsAt(s, t, 1) /\ ~StandsAt(s, t, 0) /\ Len(t) = Len(s) + 1 =>
                 ReplaceFirstSubSeq(<<l>>, s, t) = <<t[1], l>>
  <1> DEFINE x == ReplaceFirstSubSeq(<<l>>, s, t)
  <1>0. Len(s) \in Nat /\ Len(t) \in Nat /\ 0 \in Nat /\ 1 \in Nat
        /\ 0..(0 - 1) = {} /\ 0..(1 - 1) = {0}
    OBVIOUS
  <1>1. ASSUME StandsAt(s, t, 0) PROVE Labelled(x, S, l, s, t, 0)
    <2>1. \A i \in 0..(0 - 1) : ~StandsAt(s, t, i)
      BY <1>0
    <2> HIDE DEF x
    <2>2. s \in Seq(S) /\ t \in Seq(S) /\ Len(s) > 0 /\ l \in S /\ 0 \in Nat
      OBVIOUS
    <2> USE DEF x
    <2> QED
      BY <1>1, <2>1, <2>2, LabelledAt
  <1>2. ASSUME StandsAt(s, t, 1), ~StandsAt(s, t, 0) PROVE Labelled(x, S, l, s, t, 1)
    <2>1. \A i \in 0..(1 - 1) : ~StandsAt(s, t, i)
      BY <1>0, <1>2
    <2>2. s \in Seq(S) /\ t \in Seq(S) /\ Len(s) > 0 /\ l \in S /\ 1 \in Nat
      OBVIOUS
    <2> QED
      BY <1>2, <2>1, <2>2, LabelledAt
  <1> HIDE DEF x
  <1>3. ASSUME StandsAt(s, t, 0), Len(t) = Len(s) PROVE x = <<l>>
    <2>1. x \in Seq(S) /\ Len(x) = 1 /\ x[1] = l
      BY <1>0, <1>1, <1>3 DEF Labelled
    <2> QED
      BY <2>1, FewParts
  <1>4. ASSUME StandsAt(s, t, 0), Len(t) = Len(s) + 1 PROVE x = <<l, t[Len(t)]>>
    <2>1. x \in Seq(S) /\ Len(x) = 2 /\ x[1] = l
      BY <1>0, <1>1, <1>4 DEF Labelled
    <2>2. \A i \in 1..(Len(t) - (0 + Len(s))) : x[(0 + 1) + i] = t[(0 + Len(s)) + i]
      BY <1>1, <1>4 DEF Labelled
    <2>3. 1 \in 1..(Len(t) - (0 + Len(s))) /\ (0 + 1) + 1 = 2 /\ (0 + Len(s)) + 1 = Len(t)
      BY <1>0, <1>4
    <2>4. x[2] = t[Len(t)]
      BY <2>2, <2>3
    <2> QED
      BY <2>1, <2>4, FewParts
  <1>5. ASSUME StandsAt(s, t, 1), ~StandsAt(s, t, 0), Len(t) = Len(s) + 1 PROVE x = <<t[1], l>>
    <2>1. x \in Seq(S) /\ Len(x) = 2 /\ x[1] = t[1] /\ x[2] = l
      BY <1>0, <1>2, <1>5 DEF Labelled
    <2> QED
      BY <2>1, FewParts
  <1> QED
    BY <1>3, <1>4, <1>5 DEF x

\* A path longer than the argument stands nowhere in it.
LEMMA TooShort ==
    ASSUME NEW S, NEW s \in Seq(S), NEW t \in Seq(S), Len(t) < Len(s), NEW r
    PROVE  ReplaceFirstSubSeq(r, s, t) = t
  <1>1. \A k \in Nat : ~StandsAt(s, t, k)
    BY DEF StandsAt
  <1>2. Len(s) > 0 /\ s \in Seq(S) /\ t \in Seq(S)
    OBVIOUS
  <1> QED
    BY <1>1, <1>2, NothingReplaced

------------------------------------------------------------------------------
(* Arguments of the assembler and the linker, under the labels.            *)

\* The paths of a build of a source in a directory.
PathsOf(path, dir, pe) ==
    [source |-> <<path>>,
     executable |-> dir \o (IF pe THEN <<"/exit", ".exe">> ELSE <<"/exit">>),
     object |-> dir \o <<"/exit", IF pe THEN ".obj" ELSE ".o">>]

\* What paths and labels are put together of, besides the names that users choose.
Lettered(S) ==
    /\ "/exit" \in S /\ ".exe" \in S /\ ".o" \in S /\ ".obj" \in S /\ "/OUT:" \in S
    /\ "$SOURCE" \in S /\ "$EXECUTABLE" \in S /\ "$OBJECT" \in S

\* A directory that is not the empty path, and the parts of paths below it.
Place(S, dir) == Lettered(S) /\ dir \in Seq(S) /\ dir # <<>>

\* The same, part by part.
PathFacts(paths, S, dir, pe) ==
    LET n == Len(dir) IN
    /\ n \in Nat /\ n > 0
    /\ paths.executable \in Seq(S) /\ Len(paths.executable) = (IF pe THEN n + 2 ELSE n + 1)
    /\ \A i \in 1..n : paths.executable[i] = dir[i]
    /\ paths.executable[n + 1] = "/exit" /\ (pe => paths.executable[n + 2] = ".exe")
    /\ paths.object \in Seq(S) /\ Len(paths.object) = n + 2
    /\ \A i \in 1..n : paths.object[i] = dir[i]
    /\ paths.object[n + 1] = "/exit" /\ paths.object[n + 2] = IF pe THEN ".obj" ELSE ".o"

\* The paths of a build are made of its parts.
LEMMA PathParts ==
    ASSUME NEW path, NEW dir, NEW pe \in BOOLEAN, NEW S, Place(S, dir)
    PROVE  /\ PathFacts(PathsOf(path, dir, pe), S, dir, pe)
           /\ PathsOf(path, dir, pe).source[1] = path
  <1> DEFINE paths == PathsOf(path, dir, pe)
  <1> PICK e : e = IF pe THEN <<"/exit", ".exe">> ELSE <<"/exit">>
    OBVIOUS
  <1> PICK o : o = <<"/exit", IF pe THEN ".obj" ELSE ".o">>
    OBVIOUS
  <1>1. dir \in Seq(S) /\ Len(dir) \in Nat /\ Len(dir) > 0
    BY DEF Place
  <1>2. /\ e \in Seq(S) /\ Len(e) = (IF pe THEN 2 ELSE 1) /\ e[1] = "/exit"
        /\ pe => e[2] = ".exe"
    BY DEF Place, Lettered
  <1>3. o \in Seq(S) /\ Len(o) = 2 /\ o[1] = "/exit" /\ o[2] = IF pe THEN ".obj" ELSE ".o"
    BY DEF Place, Lettered
  <1>4. paths.executable = dir \o e /\ paths.object = dir \o o /\ paths.source[1] = path
    BY DEF PathsOf
  <1> HIDE DEF paths
  <1>5. /\ paths.executable \in Seq(S) /\ Len(paths.executable) = Len(dir) + Len(e)
        /\ \A i \in 1..Len(dir) : paths.executable[i] = dir[i]
        /\ \A i \in 1..Len(e) : paths.executable[Len(dir) + i] = e[i]
    <2>1. dir \in Seq(S) /\ e \in Seq(S)
      BY <1>1, <1>2
    <2> QED
      BY <1>4, <2>1, Concatenated
  <1>6. /\ paths.object \in Seq(S) /\ Len(paths.object) = Len(dir) + Len(o)
        /\ \A i \in 1..Len(dir) : paths.object[i] = dir[i]
        /\ \A i \in 1..Len(o) : paths.object[Len(dir) + i] = o[i]
    <2>1. dir \in Seq(S) /\ o \in Seq(S)
      BY <1>1, <1>3
    <2> QED
      BY <1>4, <2>1, Concatenated
  <1>7. PathFacts(paths, S, dir, pe)
    BY <1>1, <1>2, <1>3, <1>5, <1>6 DEF PathFacts
  <1> QED
    BY <1>4, <1>7 DEF paths

\* The last label, and the three before it.
Imported(t) == IF EndsWith(t, "/kernel32.lib") THEN <<"$KERNEL32_IMPORT_LIBRARY">> ELSE t
LabelledBy(t, paths, a, b, c) ==
    /\ ReplaceAll(t, paths.source[1], "$SOURCE") = a
    /\ ReplaceFirstSubSeq(<<"$EXECUTABLE">>, paths.executable, a) = b
    /\ ReplaceFirstSubSeq(<<"$OBJECT">>, paths.object, b) = c
    /\ paths.object # <<>>

\* One after the other.
LEMMA InSteps ==
    ASSUME NEW t, NEW paths, NEW a, NEW b, NEW c, LabelledBy(t, paths, a, b, c)
    PROVE  normalize_command_component(t, paths) = Imported(c)
  BY DEF LabelledBy, Imported, normalize_command_component

\* No label but the last one asks for is taken for a library.
LEMMA LabelsStay ==
    \A l \in {"$SOURCE", "$EXECUTABLE", "$OBJECT"} :
        /\ Imported(<<l>>) = <<l>>
        /\ \A x : Imported(<<x, l>>) = <<x, l>>
        /\ Imported(<<l, ".o">>) = <<l, ".o">>
  BY DEF Imported, EndsWith, Last

\* An argument that does not name the source is not changed by its label.
LEMMA SourceUnnamed ==
    ASSUME NEW S, NEW t \in Seq(S), NEW path, path \notin Range(t), NEW label
    PROVE  ReplaceAll(t, path, label) = t
  <1>1. \A i \in 1..Len(t) : t[i] # path
    BY DEF Range
  <1>2. t = [i \in 1..Len(t) |-> t[i]]
    OBVIOUS
  <1> QED
    BY <1>1, <1>2 DEF ReplaceAll

\* The executable's and the object's path have more parts than one, and on Windows
\* more than two.
LEMMA PathsAreLong ==
    ASSUME NEW path, NEW dir, NEW pe \in BOOLEAN, NEW S, Place(S, dir)
    PROVE  LET paths == PathsOf(path, dir, pe) IN
           /\ paths.executable \in Seq(S) /\ paths.object \in Seq(S)
           /\ paths.object # <<>> /\ Len(paths.object) >= 3
           /\ Len(paths.executable) >= 2 /\ (pe => Len(paths.executable) >= 3)
  <1> DEFINE paths == PathsOf(path, dir, pe)
  <1>1. PathFacts(paths, S, dir, pe)
    BY PathParts
  <1> HIDE DEF paths
  <1>2. /\ paths.executable \in Seq(S) /\ paths.object \in Seq(S)
        /\ Len(paths.object) >= 3
        /\ Len(paths.executable) >= 2 /\ (pe => Len(paths.executable) >= 3)
    BY <1>1 DEF PathFacts
  <1>3. paths.object # <<>>
    <2>1. Len(<<>>) = 0
      OBVIOUS
    <2> QED
      BY <1>2, <2>1
  <1> QED
    BY <1>2, <1>3 DEF paths

\* Neither stands in an argument that is shorter.
LEMMA ShortStays ==
    ASSUME NEW path, NEW dir, NEW pe \in BOOLEAN, NEW S, Place(S, dir), NEW t \in Seq(S),
           Len(t) <= IF pe THEN 2 ELSE 1
    PROVE  LET paths == PathsOf(path, dir, pe) IN
           /\ ReplaceFirstSubSeq(<<"$EXECUTABLE">>, paths.executable, t) = t
           /\ ReplaceFirstSubSeq(<<"$OBJECT">>, paths.object, t) = t
           /\ paths.object # <<>>
  <1> DEFINE paths == PathsOf(path, dir, pe)
  <1>1. /\ paths.executable \in Seq(S) /\ paths.object \in Seq(S) /\ paths.object # <<>>
        /\ Len(t) < Len(paths.executable) /\ Len(t) < Len(paths.object)
    <2>1. /\ paths.executable \in Seq(S) /\ paths.object \in Seq(S)
          /\ paths.object # <<>> /\ Len(paths.object) >= 3
          /\ Len(paths.executable) >= 2 /\ (pe => Len(paths.executable) >= 3)
      BY PathsAreLong
    <2> HIDE DEF paths
    <2> QED
      BY <2>1
  <1> HIDE DEF paths
  <1>2. ReplaceFirstSubSeq(<<"$EXECUTABLE">>, paths.executable, t) = t
    <2>1. t \in Seq(S) /\ paths.executable \in Seq(S) /\ Len(t) < Len(paths.executable)
      BY <1>1
    <2> QED
      BY <2>1, TooShort
  <1>3. ReplaceFirstSubSeq(<<"$OBJECT">>, paths.object, t) = t
    <2>1. t \in Seq(S) /\ paths.object \in Seq(S) /\ Len(t) < Len(paths.object)
      BY <1>1
    <2> QED
      BY <2>1, TooShort
  <1> QED
    BY <1>1, <1>2, <1>3 DEF paths

\* So a short argument that does not name the source keeps its parts.
LEMMA ShortArgument ==
    ASSUME NEW path, NEW dir, NEW pe \in BOOLEAN, NEW S, Place(S, dir), NEW t \in Seq(S),
           Len(t) <= IF pe THEN 2 ELSE 1, path \notin Range(t)
    PROVE  normalize_command_component(t, PathsOf(path, dir, pe)) = Imported(t)
  <1> DEFINE paths == PathsOf(path, dir, pe)
  <1>1. paths.source[1] = path
    BY PathParts
  <1>2. /\ ReplaceFirstSubSeq(<<"$EXECUTABLE">>, paths.executable, t) = t
        /\ ReplaceFirstSubSeq(<<"$OBJECT">>, paths.object, t) = t
        /\ paths.object # <<>>
    BY ShortStays
  <1>3. ReplaceAll(t, path, "$SOURCE") = t
    BY SourceUnnamed
  <1> HIDE DEF paths
  <1>4. LabelledBy(t, paths, t, t, t)
    BY <1>1, <1>2, <1>3 DEF LabelledBy
  <1>5. normalize_command_component(t, paths) = Imported(t)
    BY <1>4, InSteps
  <1> QED
    BY <1>5 DEF paths

\* The source is labelled, whatever its path.
LEMMA SourceLabelled ==
    ASSUME NEW path, NEW dir, NEW pe \in BOOLEAN, NEW S, Place(S, dir)
    PROVE  normalize_command_component(<<path>>, PathsOf(path, dir, pe)) = <<"$SOURCE">>
  <1> DEFINE paths == PathsOf(path, dir, pe)
  <1> PICK label : label = <<"$SOURCE">>
    OBVIOUS
  <1>1. paths.source[1] = path
    BY PathParts
  <1>2. ReplaceAll(<<path>>, path, "$SOURCE") = label
    BY DEF ReplaceAll
  <1>3. label \in Seq(S) /\ Len(label) <= IF pe THEN 2 ELSE 1
    BY DEF Place, Lettered
  <1>4. /\ ReplaceFirstSubSeq(<<"$EXECUTABLE">>, paths.executable, label) = label
        /\ ReplaceFirstSubSeq(<<"$OBJECT">>, paths.object, label) = label
        /\ paths.object # <<>>
    <2>1. \A x \in Seq(S) : Len(x) <= (IF pe THEN 2 ELSE 1) =>
             /\ ReplaceFirstSubSeq(<<"$EXECUTABLE">>, paths.executable, x) = x
             /\ ReplaceFirstSubSeq(<<"$OBJECT">>, paths.object, x) = x
             /\ paths.object # <<>>
      BY ShortStays
    <2> HIDE DEF paths
    <2> QED
      BY <1>3, <2>1
  <1> HIDE DEF paths
  <1>5. LabelledBy(<<path>>, paths, label, label, label)
    BY <1>1, <1>2, <1>4 DEF LabelledBy
  <1>6. normalize_command_component(<<path>>, paths) = Imported(label)
    BY <1>5, InSteps
  <1> QED
    BY <1>6, LabelsStay DEF paths

\* The object keeps its suffix where its name begins with the executable's.
LEMMA ObjectLabelled ==
    ASSUME NEW path, NEW dir, NEW pe \in BOOLEAN, NEW S, Place(S, dir),
           path \notin Range(PathsOf(path, dir, pe).object)
    PROVE  normalize_command_component(PathsOf(path, dir, pe).object, PathsOf(path, dir, pe)) =
              IF pe THEN <<"$OBJECT">> ELSE <<"$EXECUTABLE", ".o">>
  <1> DEFINE paths == PathsOf(path, dir, pe)
             t == paths.object
             s == paths.executable
  <1>0. PathFacts(paths, S, dir, pe) /\ paths.source[1] = path
    BY PathParts
  <1>1. t # <<>>
    BY PathsAreLong
  <1>2. "$EXECUTABLE" \in S /\ "$OBJECT" \in S /\ ".o" \in S
    BY DEF Place, Lettered
  <1> PICK n : n = Len(dir)
    OBVIOUS
  <1> HIDE DEF paths
  <1>3. /\ n \in Nat /\ n > 0 /\ t \in Seq(S) /\ Len(t) = n + 2
        /\ s \in Seq(S) /\ Len(s) = (IF pe THEN n + 2 ELSE n + 1)
        /\ \A i \in 1..n : s[i] = t[i]
        /\ s[n + 1] = t[n + 1] /\ (pe => s[n + 2] = ".exe")
        /\ t[n + 2] = IF pe THEN ".obj" ELSE ".o"
    BY <1>0 DEF PathFacts
  <1>4. path \notin Range(t)
    BY DEF paths
  <1> HIDE DEF t, s
  <1>5. ReplaceAll(t, path, "$SOURCE") = t
    BY <1>3, <1>4, SourceUnnamed
  <1>6. CASE pe
    <2>1. ReplaceFirstSubSeq(<<"$EXECUTABLE">>, s, t) = t
      <3>1. ASSUME NEW k \in Nat, StandsAt(s, t, k) PROVE FALSE
        <4>1. k = 0 /\ n + 2 \in 1..Len(s) /\ \A m \in 1..Len(s) : t[k + m] = s[m]
          BY <1>3, <1>6, <3>1 DEF StandsAt
        <4>2. t[0 + (n + 2)] = s[n + 2] /\ 0 + (n + 2) = n + 2
          BY <1>3, <4>1
        <4> QED
          BY <1>3, <1>6, <4>2
      <3>2. t \in Seq(S) /\ s \in Seq(S) /\ Len(s) > 0
        BY <1>3
      <3> QED
        BY <3>1, <3>2, NothingReplaced
    <2>2. ReplaceFirstSubSeq(<<"$OBJECT">>, t, t) = <<"$OBJECT">>
      <3>1. t \in Seq(S) /\ Len(t) > 0 /\ "$OBJECT" \in S /\ StandsAt(t, t, 0)
        BY <1>2, <1>3 DEF StandsAt
      <3> QED
        BY <3>1, LabelledPath
    <2>3. LabelledBy(t, paths, t, t, <<"$OBJECT">>)
      BY <1>0, <1>1, <1>5, <2>1, <2>2 DEF LabelledBy, t, s
    <2>4. normalize_command_component(t, paths) = <<"$OBJECT">>
      BY <2>3, InSteps, LabelsStay
    <2> QED
      BY <1>6, <2>4 DEF paths, t
  <1>7. CASE ~pe
    <2>1. ReplaceFirstSubSeq(<<"$EXECUTABLE">>, s, t) = <<"$EXECUTABLE", ".o">>
      <3>1. /\ t \in Seq(S) /\ s \in Seq(S) /\ Len(s) > 0 /\ "$EXECUTABLE" \in S
            /\ StandsAt(s, t, 0) /\ Len(t) = Len(s) + 1
        <4>1. \A m \in 1..(n + 1) : t[0 + m] = s[m]
          <5>1. \A m \in 1..(n + 1) : m \in 1..n \/ m = n + 1
            BY <1>3
          <5>2. \A m \in 1..(n + 1) : 0 + m = m
            OBVIOUS
          <5> QED
            BY <1>3, <5>1, <5>2
        <4> QED
          BY <1>2, <1>3, <1>7, <4>1 DEF StandsAt
      <3>2. ReplaceFirstSubSeq(<<"$EXECUTABLE">>, s, t) = <<"$EXECUTABLE", t[Len(t)]>>
        BY <3>1, LabelledPath
      <3> QED
        BY <1>3, <1>7, <3>2
    <2> PICK u : u = <<"$EXECUTABLE", ".o">>
      OBVIOUS
    <2>2. ReplaceFirstSubSeq(<<"$OBJECT">>, t, u) = u
      <3>1. u \in Seq(S) /\ Len(u) = 2
        BY <1>2
      <3>2. u \in Seq(S) /\ t \in Seq(S) /\ Len(u) < Len(t)
        BY <1>3, <3>1
      <3> QED
        BY <3>2, TooShort
    <2>3. LabelledBy(t, paths, t, u, u)
      BY <1>0, <1>1, <1>5, <2>1, <2>2 DEF LabelledBy, t, s
    <2>4. normalize_command_component(t, paths) = u
      BY <2>3, InSteps, LabelsStay
    <2> QED
      BY <1>7, <2>4 DEF paths, t
  <1> QED
    BY <1>6, <1>7

\* The executable, as ld is given it.
LEMMA ExecutableLabelled ==
    ASSUME NEW path, NEW dir, NEW S, Place(S, dir),
           path \notin Range(PathsOf(path, dir, FALSE).executable)
    PROVE  normalize_command_component(PathsOf(path, dir, FALSE).executable, PathsOf(path, dir, FALSE)) =
              <<"$EXECUTABLE">>
  <1> DEFINE paths == PathsOf(path, dir, FALSE)
             t == paths.executable
  <1>0. PathFacts(paths, S, dir, FALSE) /\ paths.source[1] = path
    <2>1. FALSE \in BOOLEAN
      OBVIOUS
    <2> QED
      BY <2>1, PathParts
  <1> PICK label : label = <<"$EXECUTABLE">>
    OBVIOUS
  <1>1. "$EXECUTABLE" \in S /\ label \in Seq(S) /\ Len(label) <= IF FALSE THEN 2 ELSE 1
    BY DEF Place, Lettered
  <1>2. ReplaceFirstSubSeq(<<"$OBJECT">>, paths.object, label) = label /\ paths.object # <<>>
    <2> DEFINE object(pe) == PathsOf(path, dir, pe).object
    <2>1. ASSUME NEW pe \in BOOLEAN
          PROVE  \A x \in Seq(S) : Len(x) <= (IF pe THEN 2 ELSE 1) =>
                    ReplaceFirstSubSeq(<<"$OBJECT">>, object(pe), x) = x /\ object(pe) # <<>>
      BY ShortStays
    <2>2. object(FALSE) = paths.object
      OBVIOUS
    <2> HIDE DEF paths, object
    <2>3. ASSUME NEW pe \in BOOLEAN, pe = FALSE
          PROVE  ReplaceFirstSubSeq(<<"$OBJECT">>, object(pe), label) = label /\ object(pe) # <<>>
      <3>1. label \in Seq(S) /\ Len(label) <= (IF pe THEN 2 ELSE 1)
        BY <1>1, <2>3
      <3> QED
        BY <2>1, <3>1
    <2> QED
      BY <2>2, <2>3, Zenon
  <1> HIDE DEF paths
  <1>3. t \in Seq(S) /\ Len(t) > 0 /\ StandsAt(t, t, 0)
    <2>1. t \in Seq(S) /\ Len(t) > 0
      BY <1>0 DEF PathFacts
    <2> QED
      BY <2>1 DEF StandsAt
  <1>4. path \notin Range(t)
    BY DEF paths
  <1> HIDE DEF t
  <1>5. ReplaceAll(t, path, "$SOURCE") = t
    BY <1>3, <1>4, SourceUnnamed
  <1>6. ReplaceFirstSubSeq(<<"$EXECUTABLE">>, t, t) = label
    <2>1. t \in Seq(S) /\ Len(t) > 0 /\ "$EXECUTABLE" \in S /\ StandsAt(t, t, 0)
      BY <1>1, <1>3
    <2> QED
      BY <2>1, LabelledPath
  <1>7. LabelledBy(t, paths, t, label, label)
    BY <1>0, <1>2, <1>5, <1>6 DEF LabelledBy, t
  <1>8. normalize_command_component(t, paths) = label
    BY <1>7, InSteps, LabelsStay
  <1> QED
    BY <1>8 DEF paths, t

\* And as lld-link is: there it stands behind the option, and nowhere before.
LEMMA OutLabelled ==
    ASSUME NEW path, NEW dir, NEW S, Place(S, dir),
           path \notin Range(<<"/OUT:">> \o PathsOf(path, dir, TRUE).executable)
    PROVE  normalize_command_component(<<"/OUT:">> \o PathsOf(path, dir, TRUE).executable,
                                       PathsOf(path, dir, TRUE)) = <<"/OUT:", "$EXECUTABLE">>
  <1> DEFINE paths == PathsOf(path, dir, TRUE)
             s == paths.executable
  <1> PICK option : option = <<"/OUT:">>
    OBVIOUS
  <1> PICK label : label = <<"/OUT:", "$EXECUTABLE">>
    OBVIOUS
  <1> DEFINE t == option \o s
  <1>0. PathFacts(paths, S, dir, TRUE) /\ paths.source[1] = path
    <2>1. TRUE \in BOOLEAN
      OBVIOUS
    <2> QED
      BY <2>1, PathParts
  <1>1. /\ "$EXECUTABLE" \in S /\ option \in Seq(S) /\ Len(option) = 1 /\ option[1] = "/OUT:"
        /\ label \in Seq(S) /\ Len(label) = 2
    BY DEF Place, Lettered
  <1>2. ReplaceFirstSubSeq(<<"$OBJECT">>, paths.object, label) = label /\ paths.object # <<>>
    <2> DEFINE object(pe) == PathsOf(path, dir, pe).object
    <2>1. ASSUME NEW pe \in BOOLEAN
          PROVE  \A x \in Seq(S) : Len(x) <= (IF pe THEN 2 ELSE 1) =>
                    ReplaceFirstSubSeq(<<"$OBJECT">>, object(pe), x) = x /\ object(pe) # <<>>
      BY ShortStays
    <2>2. object(TRUE) = paths.object
      OBVIOUS
    <2> HIDE DEF paths, object
    <2>3. ASSUME NEW pe \in BOOLEAN, pe = TRUE
          PROVE  ReplaceFirstSubSeq(<<"$OBJECT">>, object(pe), label) = label /\ object(pe) # <<>>
      <3>1. label \in Seq(S) /\ Len(label) <= (IF pe THEN 2 ELSE 1)
        BY <1>1, <2>3
      <3> QED
        BY <2>1, <3>1
    <2> QED
      BY <2>2, <2>3, Zenon
  <1>3. path \notin Range(t)
    OBVIOUS
  <1> PICK n : n = Len(dir)
    OBVIOUS
  <1> HIDE DEF paths
  <1>4. /\ n \in Nat /\ n > 0 /\ s \in Seq(S) /\ Len(s) = n + 2
        /\ s[n + 1] = "/exit" /\ s[n + 2] = ".exe"
    BY <1>0 DEF PathFacts
  <1> HIDE DEF s
  <1>5. /\ t \in Seq(S) /\ Len(t) = n + 3 /\ t[1] = "/OUT:"
        /\ \A i \in 1..(n + 2) : t[1 + i] = s[i]
    <2>1. option \in Seq(S) /\ s \in Seq(S)
      BY <1>1, <1>4
    <2>2. /\ t \in Seq(S) /\ Len(t) = Len(option) + Len(s)
          /\ \A i \in 1..Len(option) : t[i] = option[i]
          /\ \A i \in 1..Len(s) : t[Len(option) + i] = s[i]
      BY <2>1, Concatenated
    <2> HIDE DEF t
    <2> QED
      BY <1>1, <1>4, <2>2
  <1> HIDE DEF t
  <1>6. ReplaceAll(t, path, "$SOURCE") = t
    BY <1>3, <1>5, SourceUnnamed
  <1>7. ReplaceFirstSubSeq(<<"$EXECUTABLE">>, s, t) = label
    <2>1. ~StandsAt(s, t, 0)
      <3> SUFFICES ASSUME StandsAt(s, t, 0) PROVE FALSE
        OBVIOUS
      <3>1. \A m \in 1..(n + 2) : t[0 + m] = s[m]
        BY <1>4 DEF StandsAt
      <3>2. t[0 + (n + 2)] = ".exe" /\ 0 + (n + 2) = 1 + (n + 1)
        BY <1>4, <3>1
      <3>3. t[1 + (n + 1)] = "/exit"
        BY <1>4, <1>5
      <3> QED
        BY <3>2, <3>3
    <2>2. /\ t \in Seq(S) /\ s \in Seq(S) /\ Len(s) > 0 /\ "$EXECUTABLE" \in S
          /\ StandsAt(s, t, 1) /\ ~StandsAt(s, t, 0) /\ Len(t) = Len(s) + 1
      BY <1>1, <1>4, <1>5, <2>1 DEF StandsAt
    <2>3. ReplaceFirstSubSeq(<<"$EXECUTABLE">>, s, t) = <<t[1], "$EXECUTABLE">>
      BY <2>2, LabelledPath
    <2> QED
      BY <1>5, <2>3
  <1>8. LabelledBy(t, paths, t, label, label)
    BY <1>0, <1>2, <1>6, <1>7 DEF LabelledBy, s
  <1>9. normalize_command_component(t, paths) = label
    BY <1>8, InSteps, LabelsStay
  <1> QED
    BY <1>9 DEF paths, t, s

------------------------------------------------------------------------------
(* The same commands in other places have the same normal form.            *)

Normalized(args, paths) == [i \in DOMAIN args |-> normalize_command_component(args[i], paths)]

\* The arguments of `semasm build`, by what they depend on.
AssembleArgs(paths, pe, nasm) ==
    IF nasm
    THEN <<<<"-O0">>, <<"-w+error">>, <<"-f">>, <<IF pe THEN "win64" ELSE "elf64">>,
           paths.source, <<"-o">>, paths.object>>
    ELSE <<paths.source, <<"-o">>, paths.object>>
BuildLinkArgs(paths, pe, nasm, entry, library) ==
    CASE ~pe /\ nasm ->
            <<<<"--build-id=none">>, <<"--hash-style=sysv">>, <<"-o">>, paths.executable, paths.object>>
      [] pe ->
            <<<<"/ENTRY:", entry>>, <<"/SUBSYSTEM:console">>, library,
              <<"/OUT:">> \o paths.executable, paths.object>>
      [] OTHER ->
            <<<<"-static">>, <<"-e">>, <<entry>>, <<"-o">>, paths.executable, paths.object>>

\* Of some arguments, none but the k-th names the source.
SourceAt(nasm) == IF nasm THEN 5 ELSE 1
Unnamed(args, path, k) == \A i \in DOMAIN args : i # k => path \notin Range(args[i])

\* Two commands, compared argument by argument.
LEMMA ByArgument ==
    ASSUME NEW one, NEW two, NEW here, NEW there, DOMAIN one = DOMAIN two,
           \A i \in DOMAIN one : normalize_command_component(one[i], here) =
                                 normalize_command_component(two[i], there)
    PROVE  Normalized(one, here) = Normalized(two, there)
  BY DEF Normalized

\* More parts do no harm.
LEMMA WiderPlace ==
    ASSUME NEW S, NEW dir, Place(S, dir), NEW T, S \subseteq T
    PROVE  Place(T, dir)
  <1>1. dir \in Seq(S) /\ dir # <<>>
    BY DEF Place
  <1>2. dir \in Seq(T)
    BY <1>1
  <1>3. Lettered(T)
    BY DEF Place, Lettered
  <1> QED
    BY <1>1, <1>2, <1>3 DEF Place

\* A word that is not the source's path.
LEMMA WordStays ==
    ASSUME NEW path, NEW dir, NEW pe \in BOOLEAN, NEW S, Place(S, dir), NEW v,
           path \notin Range(<<v>>)
    PROVE  normalize_command_component(<<v>>, PathsOf(path, dir, pe)) = Imported(<<v>>)
  <1> DEFINE T == S \cup {v}
  <1> PICK t : t = <<v>>
    OBVIOUS
  <1>1. t \in Seq(T) /\ Len(t) <= IF pe THEN 2 ELSE 1
    OBVIOUS
  <1>2. S \subseteq T
    OBVIOUS
  <1> HIDE DEF T
  <1>3. Place(T, dir)
    BY <1>2, WiderPlace
  <1>4. path \notin Range(t)
    OBVIOUS
  <1>5. normalize_command_component(t, PathsOf(path, dir, pe)) = Imported(t)
    BY <1>1, <1>3, <1>4, ShortArgument
  <1> QED
    BY <1>5

\* An argument that keeps its parts, if it does not name the source.
KeepsParts(t, path, dir, pe) ==
    path \notin Range(t) => normalize_command_component(t, PathsOf(path, dir, pe)) = Imported(t)

\* On Windows, two words: an option and its value, or a directory and a library in it.
LEMMA TwoWordsStay ==
    ASSUME NEW path, NEW dir, NEW pe \in BOOLEAN, NEW S, Place(S, dir), NEW v, NEW w
    PROVE  pe => KeepsParts(<<v, w>>, path, dir, pe)
  <1> DEFINE T == S \cup {v, w}
  <1> PICK t : t = <<v, w>>
    OBVIOUS
  <1>1. t \in Seq(T) /\ Len(t) = 2
    OBVIOUS
  <1>2. S \subseteq T
    OBVIOUS
  <1> HIDE DEF T
  <1>3. Place(T, dir)
    BY <1>2, WiderPlace
  <1>5. Len(t) <= (IF pe THEN 2 ELSE 1) => KeepsParts(t, path, dir, pe)
    BY <1>1, <1>3, ShortArgument DEF KeepsParts
  <1>6. pe => Len(t) <= IF pe THEN 2 ELSE 1
    BY <1>1
  <1> QED
    BY <1>5, <1>6

\* Arguments of two builds that are equal but for their paths.
Twins(x, y, one, two, here, there) ==
    one \notin Range(x) /\ two \notin Range(y) =>
        normalize_command_component(x, here) = normalize_command_component(y, there)

\* Which are these.
LEMMA TwinArguments ==
    ASSUME NEW path, NEW dir, NEW other, NEW there, NEW pe \in BOOLEAN, NEW S,
           Place(S, dir), Place(S, there), NEW P, NEW Q,
           P = PathsOf(path, dir, pe), Q = PathsOf(other, there, pe)
    PROVE  /\ normalize_command_component(P.source, P) = normalize_command_component(Q.source, Q)
           /\ Twins(P.object, Q.object, path, other, P, Q)
           /\ ~pe => Twins(P.executable, Q.executable, path, other, P, Q)
           /\ pe => Twins(<<"/OUT:">> \o P.executable, <<"/OUT:">> \o Q.executable, path, other, P, Q)
           /\ \A v : Twins(<<v>>, <<v>>, path, other, P, Q)
           /\ pe => \A v, w : Twins(<<v, w>>, <<v, w>>, path, other, P, Q)
  <1>1. normalize_command_component(P.source, P) = normalize_command_component(Q.source, Q)
    <2>1. P.source = <<path>> /\ Q.source = <<other>>
      BY DEF PathsOf
    <2>2. /\ normalize_command_component(<<path>>, PathsOf(path, dir, pe)) = <<"$SOURCE">>
          /\ normalize_command_component(<<other>>, PathsOf(other, there, pe)) = <<"$SOURCE">>
      BY SourceLabelled
    <2> QED
      BY <2>1, <2>2
  <1>2. Twins(P.object, Q.object, path, other, P, Q)
    <2>1. path \notin Range(P.object) => normalize_command_component(P.object, P) =
             IF pe THEN <<"$OBJECT">> ELSE <<"$EXECUTABLE", ".o">>
      BY ObjectLabelled
    <2>2. other \notin Range(Q.object) => normalize_command_component(Q.object, Q) =
             IF pe THEN <<"$OBJECT">> ELSE <<"$EXECUTABLE", ".o">>
      BY ObjectLabelled
    <2> QED
      BY <2>1, <2>2 DEF Twins
  <1>3. ASSUME ~pe PROVE Twins(P.executable, Q.executable, path, other, P, Q)
    <2>1. P = PathsOf(path, dir, FALSE) /\ Q = PathsOf(other, there, FALSE)
      BY <1>3
    <2>2. path \notin Range(PathsOf(path, dir, FALSE).executable) =>
             normalize_command_component(PathsOf(path, dir, FALSE).executable,
                                         PathsOf(path, dir, FALSE)) = <<"$EXECUTABLE">>
      BY ExecutableLabelled
    <2>3. other \notin Range(PathsOf(other, there, FALSE).executable) =>
             normalize_command_component(PathsOf(other, there, FALSE).executable,
                                         PathsOf(other, there, FALSE)) = <<"$EXECUTABLE">>
      BY ExecutableLabelled
    <2> QED
      BY <2>1, <2>2, <2>3, Zenon DEF Twins
  <1>4. ASSUME pe
        PROVE  Twins(<<"/OUT:">> \o P.executable, <<"/OUT:">> \o Q.executable, path, other, P, Q)
    <2>1. P = PathsOf(path, dir, TRUE) /\ Q = PathsOf(other, there, TRUE)
      BY <1>4
    <2>2. path \notin Range(<<"/OUT:">> \o PathsOf(path, dir, TRUE).executable) =>
             normalize_command_component(<<"/OUT:">> \o PathsOf(path, dir, TRUE).executable,
                                         PathsOf(path, dir, TRUE)) = <<"/OUT:", "$EXECUTABLE">>
      BY OutLabelled
    <2>3. other \notin Range(<<"/OUT:">> \o PathsOf(other, there, TRUE).executable) =>
             normalize_command_component(<<"/OUT:">> \o PathsOf(other, there, TRUE).executable,
                                         PathsOf(other, there, TRUE)) = <<"/OUT:", "$EXECUTABLE">>
      BY OutLabelled
    <2> QED
      BY <2>1, <2>2, <2>3, Zenon DEF Twins
  <1>5. ASSUME NEW v PROVE Twins(<<v>>, <<v>>, path, other, P, Q)
    <2>1. path \notin Range(<<v>>) =>
             normalize_command_component(<<v>>, PathsOf(path, dir, pe)) = Imported(<<v>>)
      BY WordStays
    <2>2. other \notin Range(<<v>>) =>
             normalize_command_component(<<v>>, PathsOf(other, there, pe)) = Imported(<<v>>)
      BY WordStays
    <2> QED
      BY <2>1, <2>2 DEF Twins
  <1>6. ASSUME NEW v, NEW w PROVE pe => Twins(<<v, w>>, <<v, w>>, path, other, P, Q)
    <2>1. pe => KeepsParts(<<v, w>>, path, dir, pe) /\ KeepsParts(<<v, w>>, other, there, pe)
      BY TwoWordsStay
    <2> QED
      BY <2>1 DEF KeepsParts, Twins
  <1> QED
    BY <1>1, <1>2, <1>3, <1>4, <1>5, <1>6

\* Two processes' commands to the assembler.
LEMMA SameAssembly ==
    ASSUME NEW path, NEW dir, NEW other, NEW there, NEW pe \in BOOLEAN, NEW nasm \in BOOLEAN, NEW S,
           Place(S, dir), Place(S, there), NEW P, NEW Q,
           P = PathsOf(path, dir, pe), Q = PathsOf(other, there, pe),
           Unnamed(AssembleArgs(P, pe, nasm), path, SourceAt(nasm)),
           Unnamed(AssembleArgs(Q, pe, nasm), other, SourceAt(nasm))
    PROVE  Normalized(AssembleArgs(P, pe, nasm), P) = Normalized(AssembleArgs(Q, pe, nasm), Q)
  <1> DEFINE Same(x, y) == normalize_command_component(x, P) = normalize_command_component(y, Q)
  <1>0. /\ Unnamed(AssembleArgs(P, pe, nasm), path, SourceAt(nasm))
        /\ Unnamed(AssembleArgs(Q, pe, nasm), other, SourceAt(nasm))
    OBVIOUS
  <1>1. /\ normalize_command_component(P.source, P) = normalize_command_component(Q.source, Q)
        /\ Twins(P.object, Q.object, path, other, P, Q)
        /\ \A v : Twins(<<v>>, <<v>>, path, other, P, Q)
    BY TwinArguments
  <1> HIDE DEF Same
  <1>2. CASE nasm
    <2> PICK format : format = IF pe THEN "win64" ELSE "elf64"
      OBVIOUS
    <2> DEFINE Args(paths) == <<<<"-O0">>, <<"-w+error">>, <<"-f">>, <<format>>,
                                paths.source, <<"-o">>, paths.object>>
               one == Args(P)
               two == Args(Q)
    <2>1. one = AssembleArgs(P, pe, nasm) /\ two = AssembleArgs(Q, pe, nasm)
      BY <1>2 DEF AssembleArgs
    <2>2. DOMAIN one = 1..7 /\ DOMAIN two = 1..7
      OBVIOUS
    <2>3. /\ Twins(one[1], two[1], path, other, P, Q)
          /\ Twins(one[2], two[2], path, other, P, Q)
          /\ Twins(one[3], two[3], path, other, P, Q)
          /\ Twins(one[4], two[4], path, other, P, Q)
          /\ Twins(one[6], two[6], path, other, P, Q)
          /\ Twins(one[7], two[7], path, other, P, Q)
      BY <1>1, <1>2
    <2>4. Same(one[5], two[5])
      BY <1>1 DEF Same
    <2> HIDE DEF one, two
    <2>5. \A i \in 1..7 : i # 5 => path \notin Range(one[i]) /\ other \notin Range(two[i])
      BY <1>0, <2>1, <2>2, <1>2 DEF Unnamed, SourceAt
    <2>6. \A i \in 1..7 : Same(one[i], two[i])
      BY <2>3, <2>4, <2>5 DEF Twins, Same
    <2>7. Normalized(one, P) = Normalized(two, Q)
      BY <2>2, <2>6, ByArgument DEF Same
    <2> QED
      BY <2>1, <2>7
  <1>3. CASE ~nasm
    <2> DEFINE Args(paths) == <<paths.source, <<"-o">>, paths.object>>
               one == Args(P)
               two == Args(Q)
    <2>1. one = AssembleArgs(P, pe, nasm) /\ two = AssembleArgs(Q, pe, nasm)
      BY <1>3 DEF AssembleArgs
    <2>2. DOMAIN one = 1..3 /\ DOMAIN two = 1..3
      OBVIOUS
    <2>3. /\ Twins(one[2], two[2], path, other, P, Q)
          /\ Twins(one[3], two[3], path, other, P, Q)
      BY <1>1, <1>3
    <2>4. Same(one[1], two[1])
      BY <1>1 DEF Same
    <2> HIDE DEF one, two
    <2>5. \A i \in 1..3 : i # 1 => path \notin Range(one[i]) /\ other \notin Range(two[i])
      BY <1>0, <2>1, <2>2, <1>3 DEF Unnamed, SourceAt
    <2>6. \A i \in 1..3 : Same(one[i], two[i])
      BY <2>3, <2>4, <2>5 DEF Twins, Same
    <2>7. Normalized(one, P) = Normalized(two, Q)
      BY <2>2, <2>6, ByArgument DEF Same
    <2> QED
      BY <2>1, <2>7
  <1> QED
    BY <1>2, <1>3

\* And to the linker, with the same entry and library.
LEMMA SameLink ==
    ASSUME NEW path, NEW dir, NEW other, NEW there, NEW pe \in BOOLEAN, NEW nasm \in BOOLEAN, NEW S,
           Place(S, dir), Place(S, there), NEW P, NEW Q,
           P = PathsOf(path, dir, pe), Q = PathsOf(other, there, pe), NEW entry, NEW library,
           \/ \E v : library = <<v>>
           \/ \E v, w : library = <<v, w>>,
           Unnamed(BuildLinkArgs(P, pe, nasm, entry, library), path, 0),
           Unnamed(BuildLinkArgs(Q, pe, nasm, entry, library), other, 0)
    PROVE  Normalized(BuildLinkArgs(P, pe, nasm, entry, library), P) =
           Normalized(BuildLinkArgs(Q, pe, nasm, entry, library), Q)
  <1> DEFINE Same(x, y) == normalize_command_component(x, P) = normalize_command_component(y, Q)
  <1>0. /\ Unnamed(BuildLinkArgs(P, pe, nasm, entry, library), path, 0)
        /\ Unnamed(BuildLinkArgs(Q, pe, nasm, entry, library), other, 0)
    OBVIOUS
  <1>1. /\ Twins(P.object, Q.object, path, other, P, Q)
        /\ ~pe => Twins(P.executable, Q.executable, path, other, P, Q)
        /\ pe => Twins(<<"/OUT:">> \o P.executable, <<"/OUT:">> \o Q.executable, path, other, P, Q)
        /\ \A v : Twins(<<v>>, <<v>>, path, other, P, Q)
        /\ pe => \A v, w : Twins(<<v, w>>, <<v, w>>, path, other, P, Q)
        /\ pe => Twins(library, library, path, other, P, Q)
    <2>1. /\ Twins(P.object, Q.object, path, other, P, Q)
          /\ ~pe => Twins(P.executable, Q.executable, path, other, P, Q)
          /\ pe => Twins(<<"/OUT:">> \o P.executable, <<"/OUT:">> \o Q.executable, path, other, P, Q)
          /\ \A v : Twins(<<v>>, <<v>>, path, other, P, Q)
          /\ pe => \A v, w : Twins(<<v, w>>, <<v, w>>, path, other, P, Q)
      BY TwinArguments
    <2> QED
      BY <2>1
  <1> HIDE DEF Same
  <1>2. CASE ~pe /\ nasm
    <2> DEFINE Args(paths) == <<<<"--build-id=none">>, <<"--hash-style=sysv">>, <<"-o">>,
                                paths.executable, paths.object>>
               one == Args(P)
               two == Args(Q)
    <2>1. one = BuildLinkArgs(P, pe, nasm, entry, library) /\ two = BuildLinkArgs(Q, pe, nasm, entry, library)
      BY <1>2 DEF BuildLinkArgs
    <2>2. DOMAIN one = 1..5 /\ DOMAIN two = 1..5
      OBVIOUS
    <2>3. /\ Twins(one[1], two[1], path, other, P, Q)
          /\ Twins(one[2], two[2], path, other, P, Q)
          /\ Twins(one[3], two[3], path, other, P, Q)
          /\ Twins(one[4], two[4], path, other, P, Q)
          /\ Twins(one[5], two[5], path, other, P, Q)
      BY <1>1, <1>2
    <2> HIDE DEF one, two
    <2>5. \A i \in 1..5 : i # 0 => path \notin Range(one[i]) /\ other \notin Range(two[i])
      BY <1>0, <2>1, <2>2 DEF Unnamed
    <2>6. \A i \in 1..5 : Same(one[i], two[i])
      BY <2>3, <2>5 DEF Twins, Same
    <2>7. Normalized(one, P) = Normalized(two, Q)
      BY <2>2, <2>6, ByArgument DEF Same
    <2> QED
      BY <2>1, <2>7
  <1>3. CASE pe
    <2> DEFINE Args(paths) == <<<<"/ENTRY:", entry>>, <<"/SUBSYSTEM:console">>, library,
                                <<"/OUT:">> \o paths.executable, paths.object>>
               one == Args(P)
               two == Args(Q)
    <2>1. one = BuildLinkArgs(P, pe, nasm, entry, library) /\ two = BuildLinkArgs(Q, pe, nasm, entry, library)
      BY <1>3 DEF BuildLinkArgs
    <2>2. DOMAIN one = 1..5 /\ DOMAIN two = 1..5
      OBVIOUS
    <2>3. /\ Twins(one[1], two[1], path, other, P, Q)
          /\ Twins(one[2], two[2], path, other, P, Q)
          /\ Twins(one[3], two[3], path, other, P, Q)
          /\ Twins(one[4], two[4], path, other, P, Q)
          /\ Twins(one[5], two[5], path, other, P, Q)
      BY <1>1, <1>3
    <2> HIDE DEF one, two
    <2>5. \A i \in 1..5 : i # 0 => path \notin Range(one[i]) /\ other \notin Range(two[i])
      BY <1>0, <2>1, <2>2 DEF Unnamed
    <2>6. \A i \in 1..5 : Same(one[i], two[i])
      BY <2>3, <2>5 DEF Twins, Same
    <2>7. Normalized(one, P) = Normalized(two, Q)
      BY <2>2, <2>6, ByArgument DEF Same
    <2> QED
      BY <2>1, <2>7
  <1>4. CASE ~pe /\ ~nasm
    <2> DEFINE Args(paths) == <<<<"-static">>, <<"-e">>, <<entry>>, <<"-o">>,
                                paths.executable, paths.object>>
               one == Args(P)
               two == Args(Q)
    <2>1. one = BuildLinkArgs(P, pe, nasm, entry, library) /\ two = BuildLinkArgs(Q, pe, nasm, entry, library)
      BY <1>4 DEF BuildLinkArgs
    <2>2. DOMAIN one = 1..6 /\ DOMAIN two = 1..6
      OBVIOUS
    <2>3. /\ Twins(one[1], two[1], path, other, P, Q)
          /\ Twins(one[2], two[2], path, other, P, Q)
          /\ Twins(one[3], two[3], path, other, P, Q)
          /\ Twins(one[4], two[4], path, other, P, Q)
          /\ Twins(one[5], two[5], path, other, P, Q)
          /\ Twins(one[6], two[6], path, other, P, Q)
      BY <1>1, <1>4
    <2> HIDE DEF one, two
    <2>5. \A i \in 1..6 : i # 0 => path \notin Range(one[i]) /\ other \notin Range(two[i])
      BY <1>0, <2>1, <2>2 DEF Unnamed
    <2>6. \A i \in 1..6 : Same(one[i], two[i])
      BY <2>3, <2>5 DEF Twins, Same
    <2>7. Normalized(one, P) = Normalized(two, Q)
      BY <2>2, <2>6, ByArgument DEF Same
    <2> QED
      BY <2>1, <2>7
  <1> QED
    BY <1>2, <1>3, <1>4

------------------------------------------------------------------------------
(* What the evidence of a process is made of.                              *)

ReportPaths(p) == PathsOf(request[p].path, DirOf(p), Pe(p))
Nasm(p) == Target(p).dialect = "NasmIntel"

\* The record of a command that succeeded, and its canonical form.
Succeeded(label, program, args) ==
    [label |-> label, program |-> program, arguments |-> args,
     exit_code |-> "code0", timed_out |-> FALSE, success |-> TRUE]
CommandOf(r, paths) == [r EXCEPT !.arguments = Normalized(@, paths)]

\* Nothing of a run that succeeded is left to chance.
LEMMA SuccessRecord ==
    ASSUME NEW label, NEW spec, NEW o \in Outcomes, Success(o)
    PROVE  CommandRecordJson(label, spec, o) = Succeeded(label, spec.program, spec.args)
  <1>1. o.timed_out \in BOOLEAN
    <2>1. CASE o \in Completed
      BY <2>1 DEF Completed
    <2>2. CASE o \in TimedOut
      BY <2>2 DEF TimedOut
    <2>3. CASE \E k : o = Failure(k)
      BY <2>3 DEF Failure
    <2> QED
      BY <2>1, <2>2, <2>3 DEF Outcomes
  <1>2. o.timed_out = FALSE /\ ExitCode(o.status) = "code0"
    BY <1>1 DEF Success
  <1>3. Success(o) = TRUE
    BY DEF Success
  <1> QED
    BY <1>2, <1>3 DEF CommandRecordJson, Succeeded

RecordOf(label, program, args, code, late, good) ==
    [label |-> label, program |-> program, arguments |-> args,
     exit_code |-> code, timed_out |-> late, success |-> good]

\* Only the arguments are normalized.
LEMMA RecordForm ==
    ASSUME NEW label, NEW program, NEW args, NEW paths, NEW code, NEW late, NEW good
    PROVE  CommandOf(RecordOf(label, program, args, code, late, good), paths) =
              RecordOf(label, program, Normalized(args, paths), code, late, good)
  <1> PICK form : form = Normalized(args, paths)
    OBVIOUS
  <1> DEFINE r == [label |-> label, program |-> program, arguments |-> args,
                   exit_code |-> code, timed_out |-> late, success |-> good]
             x == [r EXCEPT !.arguments = form]
  <1>1. x = [label |-> label, program |-> program, arguments |-> form,
             exit_code |-> code, timed_out |-> late, success |-> good]
    OBVIOUS
  <1>2. r.arguments = args
    OBVIOUS
  <1>3. CommandOf(r, paths) = [r EXCEPT !.arguments = Normalized(r.arguments, paths)]
    BY DEF CommandOf
  <1>4. CommandOf(r, paths) = x
    <2> HIDE DEF r
    <2> QED
      BY <1>2, <1>3
  <1> HIDE DEF x
  <1> QED
    BY <1>1, <1>4 DEF RecordOf

\* So they are in the record of a success.
LEMMA SucceededForm ==
    ASSUME NEW label, NEW program, NEW args, NEW paths
    PROVE  CommandOf(Succeeded(label, program, args), paths) =
              Succeeded(label, program, Normalized(args, paths))
  <1>1. \A a : Succeeded(label, program, a) = RecordOf(label, program, a, "code0", FALSE, TRUE)
    BY DEF Succeeded, RecordOf
  <1>3. \A late, good : CommandOf(RecordOf(label, program, args, "code0", late, good), paths) =
                            RecordOf(label, program, Normalized(args, paths), "code0", late, good)
    BY RecordForm
  <1> PICK late : late = FALSE
    OBVIOUS
  <1> PICK good : good = TRUE
    OBVIOUS
  <1>2. \A a : Succeeded(label, program, a) = RecordOf(label, program, a, "code0", late, good)
    BY <1>1
  <1> QED
    BY <1>2, <1>3

\* The arguments of a build, by what they depend on.
LEMMA BuildArgs ==
    ASSUME NEW p, request[p].command = "build"
    PROVE  /\ SourcePath(p) = ReportPaths(p).source /\ ExePath(p) = ReportPaths(p).executable
           /\ ObjectPath(p) = ReportPaths(p).object
           /\ assemble_for_target_spec(p).program = local[p].assembler
           /\ assemble_for_target_spec(p).args = AssembleArgs(ReportPaths(p), Pe(p), Nasm(p))
           /\ \A entry : LinkArgs(p, entry) =
                 BuildLinkArgs(ReportPaths(p), Pe(p), Nasm(p), entry, kernel32(p))
  <1>1. /\ SourcePath(p) = ReportPaths(p).source /\ ExePath(p) = ReportPaths(p).executable
        /\ ObjectPath(p) = ReportPaths(p).object
    BY DEF ReportPaths, PathsOf, SourcePath, ExePath, ObjectPath
  <1>2. /\ assemble_for_target_spec(p).program = local[p].assembler
        /\ assemble_for_target_spec(p).args = AssembleArgs(ReportPaths(p), Pe(p), Nasm(p))
    BY <1>1 DEF assemble_for_target_spec, AssembleArgs, Nasm
  <1>3. ASSUME NEW entry
        PROVE  LinkArgs(p, entry) = BuildLinkArgs(ReportPaths(p), Pe(p), Nasm(p), entry, kernel32(p))
    BY <1>1 DEF LinkArgs, BuildLinkArgs, Nasm
  <1> QED
    BY <1>1, <1>2, <1>3

\* What an undisturbed process assembled and linked.
AssemblyArgs(p) == AssembleArgs(ReportPaths(p), Pe(p), Nasm(p))
LinkingArgs(p) ==
    BuildLinkArgs(ReportPaths(p), Pe(p), Nasm(p), EntryOf(p, MadeObject(p)), kernel32(p))

\* The commands it has noted are these.
LEMMA CommandsNoted ==
    ASSUME NotesInv, NEW p \in Builds, Reported(p), p \notin disturbed
    PROVE  /\ local[p]["ao"] = Succeeded("assemble", local[p].assembler, AssemblyArgs(p))
           /\ local[p]["lo"] = Succeeded("link", local[p].linker, LinkingArgs(p))
  <1>1. AssembleNoted(p) /\ LinkNoted(p) /\ request[p].command = "build"
    BY DEF NotesInv, NoteInv, CommandsInv
  <1>2. local[p]["ao"] = Succeeded("assemble", local[p].assembler, AssemblyArgs(p))
    <2>1. PICK o \in Outcomes :
             Success(o) /\ local[p]["ao"] = CommandRecordJson("assemble", assemble_for_target_spec(p), o)
      BY <1>1 DEF AssembleNoted
    <2>2. local[p]["ao"] = Succeeded("assemble", assemble_for_target_spec(p).program,
                                     assemble_for_target_spec(p).args)
      BY <2>1, SuccessRecord
    <2> QED
      BY <1>1, <2>2, BuildArgs DEF AssemblyArgs
  <1>3. local[p]["lo"] = Succeeded("link", local[p].linker, LinkingArgs(p))
    <2>1. PICK o \in Outcomes : \E entry :
             /\ Success(o) /\ local[p]["lo"] = CommandRecordJson("link", LinkSpec(p, entry), o)
             /\ RightEntry(p, entry)
      BY <1>1 DEF LinkNoted
    <2>2. PICK entry :
             /\ local[p]["lo"] = CommandRecordJson("link", LinkSpec(p, entry), o)
             /\ RightEntry(p, entry)
      BY <2>1
    <2>3. local[p]["lo"] = Succeeded("link", LinkSpec(p, entry).program, LinkSpec(p, entry).args)
      BY <2>1, <2>2, SuccessRecord
    <2>4. LinkSpec(p, entry).program = local[p].linker /\ LinkSpec(p, entry).args = LinkArgs(p, entry)
      BY DEF LinkSpec
    <2>5. LinkArgs(p, entry) = BuildLinkArgs(ReportPaths(p), Pe(p), Nasm(p), entry, kernel32(p))
      BY <1>1, BuildArgs
    <2>6. entry = EntryOf(p, MadeObject(p))
      BY <2>2 DEF RightEntry
    <2> QED
      BY <2>3, <2>4, <2>5, <2>6 DEF LinkingArgs
  <1> QED
    BY <1>2, <1>3

\* The evidence of a process, command by command.
CommandsOf(p) ==
    [i \in 1..2 |->
        IF i = 1
        THEN Succeeded("assemble", local[p].assembler, Normalized(AssemblyArgs(p), ReportPaths(p)))
        ELSE Succeeded("link", local[p].linker, Normalized(LinkingArgs(p), ReportPaths(p)))]
EvidenceOf(p) ==
    [target |-> request[p].target, source_sha256 |-> local[p].source,
     tools |-> {local[p].assembler, local[p].linker, local[p].disassembler, local[p].runner}
                  \cap host.path,
     commands |-> CommandsOf(p),
     object |-> canonical_artifact(local[p].object.info),
     executable |-> canonical_artifact(local[p].exe.info), execution |-> local[p].execution]

\* The paths in the description of a file.
LEMMA NotedPath ==
    ASSUME NEW p, NEW field, NEW content, FileNoted(p, field, content, All)
    PROVE  local[p][field].info.path = PathOf(p, field)
  <1> PICK tool : tool = local[p].disassembler
    OBVIOUS
  <1> PICK path : path = PathOf(p, field)
    OBVIOUS
  <1>1. PICK lost : local[p][field] = NoteOf(tool, path, content, lost, All)
    BY DEF FileNoted
  <1>2. local[p][field].info = InfoOf(tool, path, content, lost, All)
    BY <1>1 DEF NoteOf
  <1>3. InfoOf(tool, path, content, lost, All).path = path
    BY SeenInfo
  <1> QED
    BY <1>2, <1>3

\* Evidence, with the paths that are replaced.
LEMMA EvidenceForm ==
    ASSUME NEW report, NEW paths,
           paths = [source |-> report.source.path, executable |-> report.executable.path,
                    object |-> report.object.path]
    PROVE  canonical_evidence(report) =
              [target |-> report.target, source_sha256 |-> report.source.hash,
               tools |-> report.tool_versions,
               commands |-> [i \in DOMAIN report.commands |-> CommandOf(report.commands[i], paths)],
               object |-> canonical_artifact(report.object),
               executable |-> canonical_artifact(report.executable),
               execution |-> report.execution]
  BY DEF canonical_evidence, CommandOf, Normalized

\* What an undisturbed process printed, of its commands and of its notes.
LEMMA EvidenceNoted ==
    ASSUME NotesInv, NEW p \in Builds, Reported(p), p \notin disturbed
    PROVE  document[p].evidence = EvidenceOf(p)
  <1> DEFINE report == generate_report(p)
             l == local[p]
             pair == <<l.ao, l.lo>>
             paths == ReportPaths(p)
  <1>1. /\ document[p].evidence = canonical_evidence(report) /\ request[p].command = "build"
        /\ FilesNoted(p)
    BY DEF NotesInv, NoteInv, CommandsInv, PrintedInv
  <1>2. /\ report.target = request[p].target /\ report.source.path = SourcePath(p)
        /\ report.source.hash = l.source
        /\ report.tool_versions = {l.assembler, l.linker, l.disassembler, l.runner} \cap host.path
        /\ report.commands = pair
        /\ report.object = l.object.info /\ report.executable = l.exe.info
        /\ report.execution = l.execution
    BY DEF generate_report
  <1> HIDE DEF report
  <1>3. \A field \in Fields : l[field].info.path = PathOf(p, field)
    BY <1>1, NotedPath DEF FilesNoted
  <1>4. report.object.path = ObjectPath(p) /\ report.executable.path = ExePath(p)
    <2>1. /\ l["object"].info.path = PathOf(p, "object") /\ l["exe"].info.path = PathOf(p, "exe")
          /\ PathOf(p, "object") = ObjectPath(p) /\ PathOf(p, "exe") = ExePath(p)
      BY <1>3 DEF Fields, PathOf
    <2> QED
      BY <1>2, <2>1
  <1>5. paths = [source |-> report.source.path, executable |-> report.executable.path,
                 object |-> report.object.path]
    BY <1>2, <1>4 DEF ReportPaths, PathsOf, SourcePath, ExePath, ObjectPath
  <1> HIDE DEF paths
  <1>6. document[p].evidence =
           [target |-> report.target, source_sha256 |-> report.source.hash,
            tools |-> report.tool_versions,
            commands |-> [i \in DOMAIN report.commands |-> CommandOf(report.commands[i], paths)],
            object |-> canonical_artifact(report.object),
            executable |-> canonical_artifact(report.executable),
            execution |-> report.execution]
    BY <1>1, <1>5, EvidenceForm
  <1>7. [i \in DOMAIN report.commands |-> CommandOf(report.commands[i], paths)] = CommandsOf(p)
    <2>1. /\ CommandOf(l["ao"], paths) =
                Succeeded("assemble", l.assembler, Normalized(AssemblyArgs(p), paths))
          /\ CommandOf(l["lo"], paths) = Succeeded("link", l.linker, Normalized(LinkingArgs(p), paths))
      BY CommandsNoted, SucceededForm
    <2>2. DOMAIN pair = 1..2 /\ pair[1] = l["ao"] /\ pair[2] = l["lo"]
      OBVIOUS
    <2> HIDE DEF pair
    <2>3. CommandsOf(p) =
             [i \in 1..2 |-> IF i = 1
                             THEN Succeeded("assemble", l.assembler, Normalized(AssemblyArgs(p), paths))
                             ELSE Succeeded("link", l.linker, Normalized(LinkingArgs(p), paths))]
      BY DEF CommandsOf, paths
    <2>4. \A i \in 1..2 : CommandOf(pair[i], paths) =
             IF i = 1 THEN Succeeded("assemble", l.assembler, Normalized(AssemblyArgs(p), paths))
             ELSE Succeeded("link", l.linker, Normalized(LinkingArgs(p), paths))
      BY <2>1, <2>2
    <2>5. DOMAIN report.commands = 1..2
      BY <1>2, <2>2
    <2> QED
      BY <1>2, <2>3, <2>4, <2>5
  <1> QED
    BY <1>2, <1>6, <1>7 DEF EvidenceOf

------------------------------------------------------------------------------
(* Two reports of equal builds.                                            *)

\* What two processes have in common when the hashes in their reports agree.
Alike(p, q) ==
    /\ request[p].target = request[q].target /\ made[p].source = made[q].source
    /\ local[p].assembler = local[q].assembler /\ local[p].linker = local[q].linker
    /\ local[p].disassembler = local[q].disassembler /\ local[p].runner = local[q].runner

\* The same target on the same host means the same tools.
LEMMA SameTools ==
    ASSUME NotesInv, NEW p \in Builds, NEW q \in Builds, Reported(p), Reported(q),
           {p, q} \cap disturbed = {},
           document[p].evidence.target = document[q].evidence.target,
           document[p].evidence.source_sha256 = document[q].evidence.source_sha256
    PROVE  Alike(p, q)
  <1>1. ASSUME NEW r \in {p, q}
        PROVE  /\ document[r].evidence.target = request[r].target
               /\ document[r].evidence.source_sha256 = made[r].source
               /\ HasTools(r)
    <2>1. document[r].evidence = canonical_evidence(generate_report(r)) /\ AssembleNoted(r)
          /\ ReportedRight(r)
      BY DEF NotesInv, NoteInv, CommandsInv, PrintedInv
    <2>2. document[r].evidence.target = request[r].target
      BY <2>1, SMTT(30) DEF canonical_evidence, generate_report
    <2>3. document[r].evidence.source_sha256 = made[r].source
      BY <2>1 DEF ReportedRight
    <2>4. local[r] # Nothing
      <3>1. "ao" \in DOMAIN local[r]
        BY <2>1 DEF AssembleNoted
      <3>2. "ao" \notin DOMAIN Nothing
        BY DEF Nothing
      <3> QED
        BY <3>1, <3>2
    <2>5. HasTools(r)
      BY <2>4 DEF NotesInv, ToolsInv
    <2> QED
      BY <2>2, <2>3, <2>5
  <1>2. request[p].target = request[q].target /\ made[p].source = made[q].source
    BY <1>1
  <1>3. \A role \in Roles : local[p][role] = local[q][role]
    BY <1>1, <1>2 DEF HasTools
  <1> QED
    BY <1>2, <1>3 DEF Alike, Roles

\* The one argument that names the source is where the assembler is given it.
LEMMA ApartUnnamed ==
    ASSUME NotesInv, NEW p \in Builds, Reported(p), p \notin disturbed, Apart(p)
    PROVE  /\ Unnamed(AssemblyArgs(p), request[p].path, SourceAt(Nasm(p)))
           /\ Unnamed(LinkingArgs(p), request[p].path, 0)
  <1> PICK path : path = request[p].path
    OBVIOUS
  <1> PICK a : a = AssemblyArgs(p)
    OBVIOUS
  <1> PICK l : l = LinkingArgs(p)
    OBVIOUS
  <1> DEFINE Named(args) == {i \in DOMAIN args : path \in Range(args[i])}
             k == SourceAt(Nasm(p))
  <1>1. \A label, program, args : Succeeded(label, program, args).arguments = args
    BY DEF Succeeded
  <1>2. local[p]["ao"].arguments = a /\ local[p]["lo"].arguments = l
    BY <1>1, CommandsNoted
  <1>3. Cardinality(Named(a)) = 1 /\ Named(l) = {}
    BY <1>2 DEF Apart
  <1>4. \E n \in Nat : DOMAIN a = 1..n
    <2>1. CASE Nasm(p)
      <3>1. DOMAIN a = 1..7
        BY <2>1 DEF AssemblyArgs, AssembleArgs
      <3> QED
        BY <3>1
    <2>2. CASE ~Nasm(p)
      <3>1. DOMAIN a = 1..3
        BY <2>2 DEF AssemblyArgs, AssembleArgs
      <3> QED
        BY <3>1
    <2> QED
      BY <2>1, <2>2
  <1>5. k \in DOMAIN a /\ a[k] = <<path>>
    <2>1. ReportPaths(p).source = <<path>>
      BY DEF ReportPaths, PathsOf
    <2>2. CASE Nasm(p)
      BY <2>1, <2>2 DEF AssemblyArgs, AssembleArgs, SourceAt
    <2>3. CASE ~Nasm(p)
      BY <2>1, <2>3 DEF AssemblyArgs, AssembleArgs, SourceAt
    <2> QED
      BY <2>2, <2>3
  <1>6. k \in Named(a)
    <2>1. path \in Range(<<path>>)
      BY DEF Range
    <2> QED
      BY <1>5, <2>1
  <1>7. IsFiniteSet(Named(a))
    <2>1. PICK n \in Nat : DOMAIN a = 1..n
      BY <1>4
    <2>2. IsFiniteSet(1..n)
      BY FS_Interval
    <2>3. Named(a) \in SUBSET (1..n)
      BY <2>1
    <2> HIDE DEF Named
    <2> QED
      BY <2>2, <2>3, FS_Subset
  <1> HIDE DEF Named, k
  <1>8. Named(a) = {k}
    <2>1. PICK x : Named(a) = {x}
      BY <1>3, <1>7, FS_Singleton
    <2> QED
      BY <1>6, <2>1
  <1>9. Unnamed(a, path, k) /\ Unnamed(l, path, 0)
    BY <1>3, <1>8 DEF Unnamed, Named
  <1> QED
    BY <1>9 DEF k

\* So equal builds have the same commands.
LEMMA SameCommands ==
    ASSUME NotesInv, NEW p \in Builds, NEW q \in Builds, Reported(p), Reported(q),
           p \notin disturbed, q \notin disturbed, Apart(p), Apart(q), Alike(p, q)
    PROVE  CommandsOf(p) = CommandsOf(q)
  <1> DEFINE S == Parts \cup {"/OUT:", "$SOURCE", "$EXECUTABLE", "$OBJECT"}
  <1> PICK pe : pe = Pe(p)
    OBVIOUS
  <1> PICK nasm : nasm = Nasm(p)
    OBVIOUS
  <1> PICK library : library = kernel32(p)
    OBVIOUS
  <1> PICK entry : entry = EntryOf(p, MadeObject(p))
    OBVIOUS
  <1> PICK path : path = request[p].path
    OBVIOUS
  <1> PICK other : other = request[q].path
    OBVIOUS
  <1> PICK dir : dir = DirOf(p)
    OBVIOUS
  <1> PICK there : there = DirOf(q)
    OBVIOUS
  <1> PICK P : P = PathsOf(path, dir, pe)
    OBVIOUS
  <1> PICK Q : Q = PathsOf(other, there, pe)
    OBVIOUS
  <1>1. Place(S, dir) /\ Place(S, there)
    <2>1. Lettered(S)
      BY DEF Lettered, Parts, Names
    <2>2. \A r \in Builds : DirOf(r) \in Seq(Parts) /\ DirOf(r) # <<>>
      BY DirectoryPaths DEF NotesInv, ReportInv
    <2>3. Parts \subseteq S
      OBVIOUS
    <2> HIDE DEF S
    <2>4. \A s \in Seq(Parts) : s \in Seq(S)
      BY <2>3
    <2> QED
      BY <2>1, <2>2, <2>4 DEF Place
  <1> HIDE DEF S
  <1>2. Target(q) = Target(p) /\ MadeObject(q) = MadeObject(p)
    BY DEF Alike, Target, MadeObject
  <1>3. pe \in BOOLEAN /\ nasm \in BOOLEAN /\ Pe(q) = pe /\ Nasm(q) = nasm
    BY <1>2 DEF Pe, Nasm
  <1>4. kernel32(q) = library /\ EntryOf(q, MadeObject(q)) = entry
    BY <1>2, <1>3 DEF kernel32, EntryOf
  <1>5. (\E v : library = <<v>>) \/ (\E v, w : library = <<v, w>>)
    BY DEF kernel32
  <1>6. ReportPaths(p) = P /\ ReportPaths(q) = Q
    BY <1>3 DEF ReportPaths
  <1>7. /\ AssemblyArgs(p) = AssembleArgs(P, pe, nasm) /\ AssemblyArgs(q) = AssembleArgs(Q, pe, nasm)
        /\ LinkingArgs(p) = BuildLinkArgs(P, pe, nasm, entry, library)
        /\ LinkingArgs(q) = BuildLinkArgs(Q, pe, nasm, entry, library)
    BY <1>3, <1>4, <1>6 DEF AssemblyArgs, LinkingArgs
  <1>8. /\ Unnamed(AssembleArgs(P, pe, nasm), path, SourceAt(nasm))
        /\ Unnamed(AssembleArgs(Q, pe, nasm), other, SourceAt(nasm))
        /\ Unnamed(BuildLinkArgs(P, pe, nasm, entry, library), path, 0)
        /\ Unnamed(BuildLinkArgs(Q, pe, nasm, entry, library), other, 0)
    <2>1. /\ Unnamed(AssemblyArgs(p), request[p].path, SourceAt(Nasm(p)))
          /\ Unnamed(LinkingArgs(p), request[p].path, 0)
      BY ApartUnnamed
    <2>2. /\ Unnamed(AssemblyArgs(q), request[q].path, SourceAt(Nasm(q)))
          /\ Unnamed(LinkingArgs(q), request[q].path, 0)
      BY ApartUnnamed
    <2> QED
      BY <1>3, <1>7, <2>1, <2>2
  <1>9. Normalized(AssembleArgs(P, pe, nasm), P) = Normalized(AssembleArgs(Q, pe, nasm), Q)
    BY <1>1, <1>3, <1>8, SameAssembly
  <1>10. Normalized(BuildLinkArgs(P, pe, nasm, entry, library), P) =
         Normalized(BuildLinkArgs(Q, pe, nasm, entry, library), Q)
    BY <1>1, <1>3, <1>5, <1>8, SameLink
  <1>11. /\ Normalized(AssemblyArgs(p), ReportPaths(p)) = Normalized(AssemblyArgs(q), ReportPaths(q))
         /\ Normalized(LinkingArgs(p), ReportPaths(p)) = Normalized(LinkingArgs(q), ReportPaths(q))
    BY <1>6, <1>7, <1>9, <1>10
  <1> QED
    BY <1>11 DEF CommandsOf, Alike

\* The same dump of one file at two paths: they differ in the first line only.
SameBelow(s, t) ==
    /\ Len(s) \in Nat /\ Len(s) = Len(t) /\ DOMAIN s = 1..Len(s) /\ DOMAIN t = 1..Len(t)
    /\ \A i \in 2..Len(s) : s[i] = t[i]
    /\ \E path : s[1] = FirstLine(path)
    /\ \E path : t[1] = FirstLine(path)

\* Neither table is read from that line.
LEMMA FirstLineUnread ==
    ASSUME NEW s, NEW t, SameBelow(s, t)
    PROVE  parse_sections(s) = parse_sections(t) /\ parse_symbols(s) = parse_symbols(t)
  <1> DEFINE row(line) == [name |-> line[2].s, size |-> Value(line[3]), vma |-> Value(line[4]),
                           flags |-> IF Len(line) > 4 THEN line[5].s ELSE ""]
  <1>1. /\ Len(s) \in Nat /\ DOMAIN s = 1..Len(s) /\ DOMAIN t = 1..Len(s)
        /\ \A i \in 2..Len(s) : s[i] = t[i]
    BY DEF SameBelow
  <1>2. /\ s[1][1].s = "path" /\ SizeIndexes(s[1]) = {}
        /\ t[1][1].s = "path" /\ SizeIndexes(t[1]) = {}
    BY BannerLines DEF SameBelow
  <1>3. ASSUME NEW i PROVE i \in Body(s) <=> i \in Body(t)
    <2>1. ASSUME NEW h \in 1..(i - 1), i \in 1..Len(s)
          PROVE  (s[h] # <<>> /\ s[h][1].s = "Idx" /\ \A j \in h..i : s[j] # <<>>) <=>
                 (t[h] # <<>> /\ t[h][1].s = "Idx" /\ \A j \in h..i : t[j] # <<>>)
      <3>1. CASE h = 1
        BY <1>2, <3>1
      <3>2. CASE h # 1
        <4>1. h \in 2..Len(s) /\ \A j \in h..i : j \in 2..Len(s)
          BY <1>1, <2>1, <3>2
        <4> QED
          BY <1>1, <4>1
      <3> QED
        BY <3>1, <3>2
    <2> QED
      BY <1>1, <2>1 DEF Body
  <1>4. ASSUME NEW i \in Body(s) PROVE i \in 2..Len(s) /\ s[i] = t[i]
    <2>1. i \in 1..Len(s) /\ \E h \in 1..(i - 1) : TRUE
      BY <1>1 DEF Body
    <2> QED
      BY <1>1, <2>1
  <1>5. SectionEntries(s) = SectionEntries(t) /\ \A i \in SectionEntries(s) : s[i] = t[i]
    BY <1>3, <1>4 DEF SectionEntries
  <1>6. /\ parse_sections(s) = {row(s[i]) : i \in SectionEntries(s)}
        /\ parse_sections(t) = {row(t[i]) : i \in SectionEntries(t)}
    BY DEF parse_sections, SectionEntries
  <1> HIDE DEF row
  <1>7. parse_sections(s) = parse_sections(t)
    BY <1>5, <1>6
  <1>8. ASSUME NEW i PROVE i \in SymbolEntries(s) <=> i \in SymbolEntries(t)
    <2>1. CASE i = 1
      BY <1>2, <2>1 DEF SymbolEntries
    <2>2. CASE i # 1 /\ i \in 1..Len(s)
      <3>1. i \in 2..Len(s) /\ s[i] = t[i]
        BY <1>1, <2>2
      <3> QED
        BY <1>1, <3>1 DEF SymbolEntries
    <2>3. CASE i \notin 1..Len(s)
      BY <1>1, <2>3 DEF SymbolEntries
    <2> QED
      BY <2>1, <2>2, <2>3
  <1>9. ASSUME NEW i \in SymbolEntries(s) PROVE s[i] = t[i]
    <2>1. i \in 1..Len(s) /\ i # 1
      BY <1>1, <1>2 DEF SymbolEntries
    <2> QED
      BY <1>1, <2>1
  <1>10. /\ parse_symbols(s) = {SymbolEntry(s[i]) : i \in SymbolEntries(s)}
         /\ parse_symbols(t) = {SymbolEntry(t[i]) : i \in SymbolEntries(t)}
    BY DEF parse_symbols, SymbolEntry, SymbolEntries
  <1>11. parse_symbols(s) = parse_symbols(t)
    BY <1>8, <1>9, <1>10
  <1> QED
    BY <1>7, <1>11

\* Lines that follow do not change that.
LEMMA SameBelowMore ==
    ASSUME NEW S, NEW s \in Seq(S), NEW t \in Seq(S), NEW more \in Seq(S), Len(s) > 0,
           SameBelow(s, t)
    PROVE  s \o more \in Seq(S) /\ t \o more \in Seq(S) /\ Len(s \o more) > 0
           /\ SameBelow(s \o more, t \o more)
  <1> DEFINE x == s \o more
             y == t \o more
  <1>1. /\ x \in Seq(S) /\ Len(x) = Len(s) + Len(more)
        /\ \A i \in 1..Len(s) : x[i] = s[i]
        /\ \A i \in 1..Len(more) : x[Len(s) + i] = more[i]
    BY Concatenated
  <1>2. /\ y \in Seq(S) /\ Len(y) = Len(t) + Len(more)
        /\ \A i \in 1..Len(t) : y[i] = t[i]
        /\ \A i \in 1..Len(more) : y[Len(t) + i] = more[i]
    BY Concatenated
  <1>3. /\ Len(s) \in Nat /\ Len(s) = Len(t) /\ Len(more) \in Nat
        /\ \A i \in 2..Len(s) : s[i] = t[i]
    BY DEF SameBelow
  <1> HIDE DEF x, y
  <1>4. x[1] = s[1] /\ y[1] = t[1]
    BY <1>1, <1>2, <1>3
  <1>5. ASSUME NEW i \in 2..Len(x) PROVE x[i] = y[i]
    <2>1. CASE i <= Len(s)
      BY <1>1, <1>2, <1>3, <2>1
    <2>2. CASE i > Len(s)
      <3>1. i - Len(s) \in 1..Len(more) /\ i = Len(s) + (i - Len(s))
        BY <1>1, <1>3, <2>2
      <3> QED
        BY <1>1, <1>2, <1>3, <3>1
    <2> QED
      BY <1>3, <2>1, <2>2
  <1>6. /\ Len(x) \in Nat /\ Len(x) = Len(y) /\ DOMAIN x = 1..Len(x) /\ DOMAIN y = 1..Len(y)
    BY <1>1, <1>2, <1>3
  <1>7. Len(x) > 0
    BY <1>1, <1>3
  <1>8. SameBelow(x, y)
    BY <1>4, <1>5, <1>6 DEF SameBelow
  <1> QED
    BY <1>1, <1>2, <1>7, <1>8 DEF x, y

\* The lines of a table, after what does not depend on the image.
LEMMA TablesDifferInPath ==
    ASSUME NEW here, NEW there, NEW top, NEW rows, NEW T, top \in Seq(T), NEW R, rows \in Seq(R)
    PROVE  SameBelow((Banner(here) \o top) \o rows, (Banner(there) \o top) \o rows)
  <1> PICK a : a = FirstLine(here)
    OBVIOUS
  <1> PICK b : b = FirstLine(there)
    OBVIOUS
  <1> DEFINE S == {a, b, <<>>} \cup T \cup R
             s == <<a, <<>>>>
             t == <<b, <<>>>>
  <1>1. Banner(here) = s /\ Banner(there) = t
    BY BannerLines
  <1>2. /\ s \in Seq(S) /\ t \in Seq(S) /\ Len(s) = 2 /\ Len(t) = 2 /\ DOMAIN s = 1..2 /\ DOMAIN t = 1..2
        /\ s[1] = a /\ t[1] = b /\ s[2] = t[2]
    OBVIOUS
  <1>3. top \in Seq(S) /\ rows \in Seq(S)
    <2>1. T \subseteq S /\ R \subseteq S
      OBVIOUS
    <2> HIDE DEF S
    <2> QED
      BY <2>1
  <1> HIDE DEF S, s, t
  <1>4. SameBelow(s, t)
    <2>1. \A i \in 2..2 : i = 2
      OBVIOUS
    <2> QED
      BY <1>2, <2>1 DEF SameBelow
  <1>5. /\ s \o top \in Seq(S) /\ t \o top \in Seq(S) /\ Len(s \o top) > 0
        /\ SameBelow(s \o top, t \o top)
    <2>1. s \in Seq(S) /\ t \in Seq(S) /\ Len(s) > 0 /\ SameBelow(s, t) /\ top \in Seq(S)
      BY <1>2, <1>3, <1>4
    <2> QED
      BY <2>1, SameBelowMore
  <1> PICK x : x = s \o top
    OBVIOUS
  <1> PICK y : y = t \o top
    OBVIOUS
  <1>6. SameBelow(x \o rows, y \o rows)
    <2>1. x \in Seq(S) /\ y \in Seq(S) /\ Len(x) > 0 /\ SameBelow(x, y) /\ rows \in Seq(S)
      BY <1>3, <1>5
    <2> QED
      BY <2>1, SameBelowMore
  <1> QED
    BY <1>1, <1>6

\* A file has the same sections and symbols wherever it is.
LEMMA SameTables ==
    ASSUME NEW here, NEW there, NEW tool, NEW image, IsImage(image)
    PROVE  /\ parse_sections(PrintSections(tool, here, image)) =
                 parse_sections(PrintSections(tool, there, image))
           /\ parse_symbols(PrintSymbols(here, image)) = parse_symbols(PrintSymbols(there, image))
  <1> PICK secs : secs = image.sections
    OBVIOUS
  <1> PICK symbols : symbols = image.symbols
    OBVIOUS
  <1>1. /\ Len(secs) \in Nat /\ DOMAIN secs = 1..Len(secs)
        /\ Len(symbols) \in Nat /\ DOMAIN symbols = 1..Len(symbols)
    BY DEF IsImage
  <1>2. \E R : SectionLines(tool, secs) \in Seq(R)
    <2> PICK n \in Nat : n = Len(secs)
      BY <1>1
    <2> PICK rows : rows = SectionLines(tool, secs)
      OBVIOUS
    <2>1. CASE tool = "objdump"
      <3> DEFINE line(k) == IF k % 2 = 1
                            THEN SectionRow((k + 1) \div 2, secs[(k + 1) \div 2], Hex(0, 16))
                            ELSE Continuation
                 R == {line(k) : k \in 1..(2 * n)}
      <3>1. rows = [k \in 1..(2 * n) |-> line(k)]
        BY <2>1 DEF SectionLines, SectionRow, Continuation
      <3> HIDE DEF line
      <3>2. \A k \in 1..(2 * n) : line(k) \in R
        OBVIOUS
      <3>3. 2 * n \in Nat
        OBVIOUS
      <3> HIDE DEF R
      <3>4. rows \in Seq(R)
        BY <3>1, <3>2, <3>3
      <3> QED
        BY <3>4
    <2>2. CASE tool # "objdump"
      <3> DEFINE line(i) == SectionRow(i, secs[i], Word("TEXT", 4))
                 R == {line(i) : i \in 1..n}
      <3>1. rows = [i \in 1..n |-> line(i)]
        BY <1>1, <2>2 DEF SectionLines, SectionRow
      <3> HIDE DEF line
      <3>2. \A i \in 1..n : line(i) \in R
        OBVIOUS
      <3> HIDE DEF R
      <3>3. rows \in Seq(R)
        BY <3>1, <3>2
      <3> QED
        BY <3>3
    <2> QED
      BY <2>1, <2>2
  <1>3. \E R : [i \in DOMAIN symbols |-> SymbolLine(symbols[i])] \in Seq(R)
    <2> PICK n \in Nat : n = Len(symbols)
      BY <1>1
    <2> DEFINE line(i) == SymbolLine(symbols[i])
               R == {line(i) : i \in 1..n}
               rows == [i \in DOMAIN symbols |-> line(i)]
    <2>1. rows = [i \in 1..n |-> line(i)]
      BY <1>1
    <2> HIDE DEF line
    <2>2. \A i \in 1..n : line(i) \in R
      OBVIOUS
    <2> HIDE DEF R
    <2>3. rows \in Seq(R)
      BY <2>1, <2>2
    <2> QED
      BY <2>3 DEF line
  <1>4. parse_sections(PrintSections(tool, here, image)) = parse_sections(PrintSections(tool, there, image))
    <2> PICK rows : rows = SectionLines(tool, secs)
      OBVIOUS
    <2> PICK middle : middle = <<SectionsTitle, Header>>
      OBVIOUS
    <2> PICK null : null = IF tool = "objdump" THEN <<>> ELSE <<NullRow>>
      OBVIOUS
    <2>1. \A path : PrintSections(tool, path, image) = ((Banner(path) \o middle) \o null) \o rows
      BY DEF PrintSections, SectionsTitle, NullRow
    <2> DEFINE T == {SectionsTitle, Header, NullRow}
    <2>0. SectionsTitle \in T /\ Header \in T /\ NullRow \in T
      OBVIOUS
    <2> HIDE DEF T
    <2>2. middle \in Seq(T) /\ null \in Seq(T)
      <3>1. \A u, v, w \in T : <<u, v>> \in Seq(T) /\ <<w>> \in Seq(T) /\ <<>> \in Seq(T)
        OBVIOUS
      <3> QED
        BY <2>0, <3>1
    <2>3. PICK R : rows \in Seq(R)
      BY <1>2
    <2> DEFINE x == (Banner(here) \o middle) \o null
               y == (Banner(there) \o middle) \o null
               S == Range(Banner(here)) \cup Range(Banner(there)) \cup T \cup R
    <2>4. SameBelow(x, y)
      BY <2>2, TablesDifferInPath
    <2>5. x \in Seq(S) /\ y \in Seq(S) /\ rows \in Seq(S) /\ Len(x) > 0
      <3>1. \A path : Banner(path) = <<FirstLine(path), <<>>>>
        BY BannerLines
      <3>2. \A path : Banner(path) \in Seq(Range(Banner(path))) /\ Len(Banner(path)) = 2
        BY <3>1 DEF Range
      <3>3. /\ Range(Banner(here)) \subseteq S /\ Range(Banner(there)) \subseteq S
            /\ T \subseteq S /\ R \subseteq S
        OBVIOUS
      <3> HIDE DEF S, x, y
      <3>4. /\ Banner(here) \in Seq(S) /\ Banner(there) \in Seq(S)
            /\ middle \in Seq(S) /\ null \in Seq(S) /\ rows \in Seq(S)
        BY <2>2, <2>3, <3>2, <3>3
      <3>5. \A u \in Seq(S) : Len(u) = 2 =>
               (u \o middle) \o null \in Seq(S) /\ Len((u \o middle) \o null) > 0
        BY <3>4
      <3> QED
        BY <3>2, <3>4, <3>5 DEF x, y
    <2> HIDE DEF x, y, S
    <2>6. SameBelow(x \o rows, y \o rows)
      BY <2>4, <2>5, SameBelowMore
    <2>7. parse_sections(x \o rows) = parse_sections(y \o rows)
      BY <2>6, FirstLineUnread
    <2> QED
      BY <2>1, <2>7 DEF x, y
  <1>5. parse_symbols(PrintSymbols(here, image)) = parse_symbols(PrintSymbols(there, image))
    <2> PICK rows : rows = [i \in DOMAIN symbols |-> SymbolLine(symbols[i])]
      OBVIOUS
    <2> PICK title : title = <<<<Word("SYMBOL", 6), Word("TABLE:", 6)>>>>
      OBVIOUS
    <2>1. \A path : PrintSymbols(path, image) = (Banner(path) \o title) \o rows
      BY DEF PrintSymbols
    <2>2. title \in Seq({<<Word("SYMBOL", 6), Word("TABLE:", 6)>>})
      OBVIOUS
    <2>3. PICK R : rows \in Seq(R)
      BY <1>3
    <2>4. SameBelow((Banner(here) \o title) \o rows, (Banner(there) \o title) \o rows)
      BY <2>2, <2>3, TablesDifferInPath
    <2>5. parse_symbols((Banner(here) \o title) \o rows) = parse_symbols((Banner(there) \o title) \o rows)
      BY <2>4, FirstLineUnread
    <2> QED
      BY <2>1, <2>5
  <1> QED
    BY <1>4, <1>5

\* The path above a dump decides nothing but is_dynamic, and that with "dynamic" in it.
LEMMA SameDumps ==
    ASSUME NEW tool, NEW here, NEW there, NEW content, NEW lost, IsImage(ImageOf(content)),
           MentionsDynamic(here) <=> MentionsDynamic(there)
    PROVE  /\ parse_sections(DumpOf(tool, "h", here, content, lost)) =
                 parse_sections(DumpOf(tool, "h", there, content, lost))
           /\ parse_symbols(DumpOf(tool, "t", here, content, lost)) =
                 parse_symbols(DumpOf(tool, "t", there, content, lost))
           /\ is_dynamic(DumpOf(tool, "p", here, content, lost)) =
                 is_dynamic(DumpOf(tool, "p", there, content, lost))
  <1> PICK image : image = ImageOf(content)
    OBVIOUS
  <1>1. \A path :
           /\ \/ DumpOf(tool, "h", path, content, lost) = PrintSections(tool, path, image)
              \/ DumpOf(tool, "h", path, content, lost) = <<>>
           /\ \/ DumpOf(tool, "t", path, content, lost) = PrintSymbols(path, image)
              \/ DumpOf(tool, "t", path, content, lost) = <<>>
           /\ \/ DumpOf(tool, "p", path, content, lost) = PrintHeaders(path, image)
              \/ DumpOf(tool, "p", path, content, lost) = <<>>
    BY DEF DumpOf, Printed
  <1>2. /\ parse_sections(PrintSections(tool, here, image)) =
              parse_sections(PrintSections(tool, there, image))
        /\ parse_symbols(PrintSymbols(here, image)) = parse_symbols(PrintSymbols(there, image))
    BY SameTables
  <1>3. is_dynamic(PrintHeaders(here, image)) = is_dynamic(PrintHeaders(there, image))
    <2>1. /\ is_dynamic(PrintHeaders(here, image)) <=> MentionsDynamic(here) \/ image.is_dynamic
          /\ is_dynamic(PrintHeaders(there, image)) <=> MentionsDynamic(there) \/ image.is_dynamic
      BY HeadersReadBack
    <2>2. is_dynamic(PrintHeaders(here, image)) <=> is_dynamic(PrintHeaders(there, image))
      BY <2>1
    <2>3. \A text : is_dynamic(text) \in BOOLEAN
      BY DEF is_dynamic
    <2> QED
      BY <2>2, <2>3
  <1>4. \A option : "h" = option \/ "t" = option \/ "p" = option =>
           \/ \A path : DumpOf(tool, option, path, content, lost) = <<>>
           \/ \A path : DumpOf(tool, option, path, content, lost) = Printed(tool, option, path, image)
    BY DEF DumpOf
  <1>5. \A path : /\ Printed(tool, "h", path, image) = PrintSections(tool, path, image)
                  /\ Printed(tool, "t", path, image) = PrintSymbols(path, image)
                  /\ Printed(tool, "p", path, image) = PrintHeaders(path, image)
    BY DEF Printed
  <1>6. parse_sections(DumpOf(tool, "h", here, content, lost)) =
        parse_sections(DumpOf(tool, "h", there, content, lost))
    BY <1>2, <1>4, <1>5
  <1>7. parse_symbols(DumpOf(tool, "t", here, content, lost)) =
        parse_symbols(DumpOf(tool, "t", there, content, lost))
    BY <1>2, <1>4, <1>5
  <1>8. is_dynamic(DumpOf(tool, "p", here, content, lost)) =
        is_dynamic(DumpOf(tool, "p", there, content, lost))
    BY <1>3, <1>4, <1>5
  <1> QED
    BY <1>6, <1>7, <1>8

\* An artifact that is there, in canonical form: its path is left out.
LEMMA ArtifactForm ==
    ASSUME NEW a, a # NoArtifact
    PROVE  canonical_artifact(a) =
              [sha256 |-> a.hash, size |-> a.size, sections |-> a.sections, symbols |-> a.symbols,
               is_dynamic |-> a.is_dynamic]
  BY DEF canonical_artifact

\* So equal builds have the same description of the same file.
LEMMA SameFile ==
    ASSUME NotesInv, NEW p \in Builds, NEW q \in Builds, Reported(p), Reported(q),
           p \notin disturbed, q \notin disturbed, Alike(p, q), NEW field \in Fields,
           MentionsDynamic(DirOf(p)) <=> MentionsDynamic(DirOf(q)),
           local[p][field].info.hash = local[q][field].info.hash,
           IsImage(ImageOf(local[p][field].info.hash)),
           local[p][field].lost = local[q][field].lost
    PROVE  canonical_artifact(local[p][field].info) = canonical_artifact(local[q][field].info)
  <1> PICK tool : tool = local[p].disassembler
    OBVIOUS
  <1> PICK here : here = PathOf(p, field)
    OBVIOUS
  <1> PICK there : there = PathOf(q, field)
    OBVIOUS
  <1> PICK a : a = local[p][field].info
    OBVIOUS
  <1> PICK b : b = local[q][field].info
    OBVIOUS
  <1>1. PICK content : FileNoted(p, field, content, All)
    BY DEF NotesInv, NoteInv, PrintedInv, FilesNoted
  <1>2. PICK content2 : FileNoted(q, field, content2, All)
    BY DEF NotesInv, NoteInv, PrintedInv, FilesNoted
  <1>3. a # NoArtifact /\ a.hash = content
    BY <1>1, NotedInfo
  <1>4. b # NoArtifact /\ b.hash = content2
    BY <1>2, NotedInfo
  <1>5. content2 = content /\ IsImage(ImageOf(content))
    BY <1>3, <1>4
  <1>6. PICK lost : local[p][field] = NoteOf(tool, here, content, lost, All)
    BY <1>1 DEF FileNoted
  <1>7. PICK gone : local[q][field] = NoteOf(tool, there, content, gone, All)
    BY <1>2, <1>5 DEF FileNoted, Alike
  <1>8. gone = lost /\ a = InfoOf(tool, here, content, lost, All)
        /\ b = InfoOf(tool, there, content, gone, All)
    BY <1>6, <1>7 DEF NoteOf
  <1>9. /\ a.hash = content /\ a.size = content
        /\ a.sections = parse_sections(DumpOf(tool, "h", here, content, lost))
        /\ a.symbols = parse_symbols(DumpOf(tool, "t", here, content, lost))
        /\ a.is_dynamic = is_dynamic(DumpOf(tool, "p", here, content, lost))
    BY <1>8, SeenInfo
  <1>10. /\ b.hash = content /\ b.size = content
         /\ b.sections = parse_sections(DumpOf(tool, "h", there, content, lost))
         /\ b.symbols = parse_symbols(DumpOf(tool, "t", there, content, lost))
         /\ b.is_dynamic = is_dynamic(DumpOf(tool, "p", there, content, lost))
    BY <1>8, SeenInfo
  <1>11. MentionsDynamic(here) <=> MentionsDynamic(there)
    <2>1. MentionsDynamic(here) <=> MentionsDynamic(DirOf(p))
      BY PathMentions DEF NotesInv, ReportInv
    <2>2. MentionsDynamic(there) <=> MentionsDynamic(DirOf(q))
      BY PathMentions DEF NotesInv, ReportInv
    <2> QED
      BY <2>1, <2>2
  <1>12. /\ a.sections = b.sections /\ a.symbols = b.symbols /\ a.is_dynamic = b.is_dynamic
    <2>1. /\ parse_sections(DumpOf(tool, "h", here, content, lost)) =
                parse_sections(DumpOf(tool, "h", there, content, lost))
          /\ parse_symbols(DumpOf(tool, "t", here, content, lost)) =
                parse_symbols(DumpOf(tool, "t", there, content, lost))
          /\ is_dynamic(DumpOf(tool, "p", here, content, lost)) =
                is_dynamic(DumpOf(tool, "p", there, content, lost))
      BY <1>5, <1>11, SameDumps
    <2> QED
      BY <1>9, <1>10, <2>1
  <1> QED
    BY <1>3, <1>4, <1>9, <1>10, <1>12, ArtifactForm

\* Builds of equal bytes print equal evidence, for any number of them on any host:
\* their commands differ in paths only, every one of which gets its label, and
\* their dumps in the line with the file's path.  What is excepted is what in the
\* program does make a difference: a source path that stands in another argument,
\* a directory with "dynamic" in its path, and a build that was disturbed.
THEOREM EvidenceReproduces == Spec => []EvidenceIsReproducible
  <1>1. NotesInv => EvidenceIsReproducible
    <2> SUFFICES ASSUME NotesInv, NEW p \in Builds, NEW q \in Builds, Reported(p), Reported(q),
                        {p, q} \cap disturbed = {}, Apart(p), Apart(q),
                        MentionsDynamic(DirOf(p)) = MentionsDynamic(DirOf(q)),
                        document[p].evidence.target = document[q].evidence.target,
                        document[p].evidence.source_sha256 = document[q].evidence.source_sha256,
                        document[p].evidence.object.sha256 = document[q].evidence.object.sha256,
                        document[p].evidence.executable.sha256 = document[q].evidence.executable.sha256,
                        \A a \in {document[p].evidence.object, document[p].evidence.executable} :
                           IsImage(ImageOf(a.sha256)),
                        document[p].evidence.execution = document[q].evidence.execution,
                        \A field \in {"object", "exe"} : local[p][field].lost = local[q][field].lost
                 PROVE  document[p].evidence = document[q].evidence
      BY DEF EvidenceIsReproducible
    <2>1. document[p].evidence = EvidenceOf(p) /\ document[q].evidence = EvidenceOf(q)
      BY EvidenceNoted
    <2>2. Alike(p, q)
      BY SameTools
    <2>3. CommandsOf(p) = CommandsOf(q)
      BY <2>2, SameCommands
    <2>4. ASSUME NEW r \in {p, q}, NEW field \in Fields
          PROVE  canonical_artifact(local[r][field].info).sha256 = local[r][field].info.hash
      <3>1. \E content : FileNoted(r, field, content, All)
        BY DEF NotesInv, NoteInv, PrintedInv, FilesNoted
      <3>2. local[r][field].info # NoArtifact
        BY <3>1, NotedInfo
      <3> QED
        BY <3>2 DEF canonical_artifact
    <2>5. canonical_artifact(local[p].object.info) = canonical_artifact(local[q].object.info)
      <3>1. /\ canonical_artifact(local[p].object.info).sha256 =
                  canonical_artifact(local[q].object.info).sha256
            /\ IsImage(ImageOf(canonical_artifact(local[p].object.info).sha256))
        BY <2>1 DEF EvidenceOf
      <3>2. "object" \in Fields
        BY DEF Fields
      <3>3. /\ local[p]["object"].info.hash = local[q]["object"].info.hash
            /\ IsImage(ImageOf(local[p]["object"].info.hash))
            /\ local[p]["object"].lost = local[q]["object"].lost
        BY <2>4, <3>1, <3>2
      <3>4. canonical_artifact(local[p]["object"].info) = canonical_artifact(local[q]["object"].info)
        BY <2>2, <3>2, <3>3, SameFile
      <3> QED
        BY <3>4
    <2>6. canonical_artifact(local[p].exe.info) = canonical_artifact(local[q].exe.info)
      <3>1. /\ canonical_artifact(local[p].exe.info).sha256 =
                  canonical_artifact(local[q].exe.info).sha256
            /\ IsImage(ImageOf(canonical_artifact(local[p].exe.info).sha256))
        BY <2>1 DEF EvidenceOf
      <3>2. "exe" \in Fields
        BY DEF Fields
      <3>3. /\ local[p]["exe"].info.hash = local[q]["exe"].info.hash
            /\ IsImage(ImageOf(local[p]["exe"].info.hash))
            /\ local[p]["exe"].lost = local[q]["exe"].lost
        BY <2>4, <3>1, <3>2
      <3>4. canonical_artifact(local[p]["exe"].info) = canonical_artifact(local[q]["exe"].info)
        BY <2>2, <3>2, <3>3, SameFile
      <3> QED
        BY <3>4
    <2>7. local[p].source = local[q].source /\ local[p].execution = local[q].execution
      BY <2>1 DEF EvidenceOf
    <2> QED
      BY <2>1, <2>2, <2>3, <2>5, <2>6, <2>7 DEF EvidenceOf, Alike
  <1> QED
    BY <1>1, InitNotesInv, NextNotesInv, PTL DEF Spec

==============================================================================
