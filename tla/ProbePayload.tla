------------------------------ MODULE ProbePayload ------------------------------
(*****************************************************************************)
(* What the fixed collection script prints on a monitored host, and what the *)
(* parser makes of it.  The script prints sections between markers; rows of  *)
(* tools that it does not control may be malformed, tools may be missing or  *)
(* fail.  The parser scans line by line: markers that are out of place, and  *)
(* core values that are missing, reject the payload; a malformed row costs   *)
(* the section it is in.  On the way a line may be lost, or come twice, or   *)
(* the output may end early.  What a sound row says is left out, and the     *)
(* rows that END prints are one.                                             *)
(*****************************************************************************)
EXTENDS Integers, FiniteSets, Sequences, SequencesExt

CONSTANTS
  Samples,       \* [tier, processes]: what the script is rendered for
  Machines,      \* [smi, gpus, query, procs, readable, odd, disks, psi, core]
  MaxGpus, MaxProcesses, MaxDisks,
  MaxFaults      \* bound: lines that the transport damages

VARIABLES
  sample, host,  \* what is asked, and the machine that is asked
  output,        \* the lines on their way
  scan,          \* the parser, see Blank
  verdict,       \* "" until the payload is read, then "sample" or "refused"
  answer,        \* [gpus, available, sampled, message]
  cut, faults    \* lines that nobody read were cut off; faults so far

\* the lists of a machine are lists, its GPUs have a health, nvidia-smi answers in one
\* of four ways, and the kernel has pressure rows or none
ASSUME MachinesAssumption ==
  \A m \in Machines :
    /\ m.gpus \in Seq(Range(m.gpus)) /\ m.procs \in Seq(Range(m.procs))
    /\ m.disks \in Seq(Range(m.disks))
    /\ \A g \in Range(m.gpus) :
         DOMAIN g = {"index", "uuid", "sound", "health"} /\ g.health # "none"
    /\ m.smi \in {"absent", "combined", "fallback", "fails"}
    /\ m.psi \in {"none", "psi", "odd psi"}
ASSUME SamplesAssumption == \A q \in Samples : q.processes \in BOOLEAN
ASSUME DisksAssumption == MaxDisks \in Nat

payloadVars == <<sample, host, output, scan, verdict, answer, cut, faults>>

PayloadSections == {"disks", "gpus", "processes", "workloads", "health"}
Outside == "outside"

Opening(s) == [tag |-> "begin", of |-> s]
Closing(s) == [tag |-> "end", of |-> s]
Row(s, r) == [tag |-> "row", of |-> s, row |-> r]
StatusRow(s, v) == [tag |-> "status", of |-> s, says |-> v]
Markers == {Opening(s) : s \in PayloadSections} \cup {Closing(s) : s \in PayloadSections}

Rows(s, rows) == [i \in 1..Len(rows) |-> Row(s, rows[i])]
Section(s, lines) == <<Opening(s)>> \o lines \o <<Closing(s)>>

-------------------------------------------------------------------------------
(* The script *)

\* the awk pass: HOST first, PSI where the kernel has it, the rest at the end
SystemLines(m) ==
  <<Row(Outside, "HOST")>> \o (IF m.psi = "none" THEN <<>> ELSE <<Row(Outside, m.psi)>>)
    \o (IF m.core THEN <<Row(Outside, "TOTALS")>> ELSE <<>>)

\* the combined query, the query without health, or the status of that one
GpuLines(m) ==
  CASE m.smi = "absent" -> <<StatusRow("gpus", "unavailable")>>
    [] m.smi = "combined" -> Rows("gpus", m.gpus)
    [] m.smi = "fallback" -> Rows("gpus", [i \in 1..Len(m.gpus) |->
                                             [m.gpus[i] EXCEPT !.health = "none"]])
    [] m.smi = "fails" -> <<StatusRow("gpus", "error")>>

\* Broken: a query that failed prints what it has.
AnsweredOrFailed(q, m) == q.processes /\ m.smi # "absent"
\* the process query ran and succeeded
Answered(q, m) == q.processes /\ m.smi # "absent" /\ m.query

ProcessLines(q, m) ==
  IF ~q.processes THEN <<StatusRow("processes", "skipped")>>
  ELSE IF m.smi = "absent" THEN <<>>
  ELSE (IF Answered(q, m) THEN Rows("processes", m.procs) ELSE <<>>)
       \o (IF m.query THEN <<>> ELSE <<StatusRow("processes", "error")>>)

\* the distinct PIDs of the process query that can be read, in an order that the
\* parser does not look at
WorkloadLines(q, m) ==
  IF q.tier = 0 \/ ~Answered(q, m) THEN <<>>
  ELSE LET pids == SetToSeq({m.procs[i].pid : i \in DOMAIN m.procs} \cap m.readable)
       IN Rows("workloads",
               [i \in 1..Len(pids) |-> [pid |-> pids[i], sound |-> pids[i] \notin m.odd]])

HealthLines(m) == IF m.smi = "combined" THEN <<>> ELSE <<StatusRow("health", "error")>>

Script(q, m) ==
  SystemLines(m) \o Section("disks", Rows("disks", m.disks))
    \o Section("gpus", GpuLines(m)) \o Section("processes", ProcessLines(q, m))
    \o Section("workloads", WorkloadLines(q, m)) \o Section("health", HealthLines(m))

-------------------------------------------------------------------------------
(* The scan *)

Blank ==
  [in |-> Outside, seen |-> {}, core |-> {}, psi |-> <<>>, disks |-> <<>>,
   gpus |-> <<>>, gpuMessage |-> "", processes |-> <<>>, status |-> "",
   workloads |-> <<>>, health |-> <<>>, healthOn |-> TRUE]

NoAnswer == [gpus |-> <<>>, available |-> FALSE, sampled |-> FALSE, message |-> "", psi |-> {}]

PayloadInit ==
  /\ sample \in Samples /\ host \in Machines
  /\ output = Script(sample, host)
  /\ scan = Blank /\ verdict = "" /\ answer = NoAnswer /\ cut = FALSE /\ faults = 0

Reading == verdict = "" /\ output # <<>>
Line == Head(output)
Consumed == output' = Tail(output)
Kept == UNCHANGED <<sample, host, answer, cut, faults>>
Refuse == verdict' = "refused" /\ UNCHANGED scan
\* a status of another section is one more row, as every line of another section is
OwnStatus == Line.tag = "status" /\ Line.of = scan.in
Text == IF Line.tag = "row" THEN Line.row ELSE Line.says

\* a section begins outside of any other, and once
OpenSection ==
  /\ Reading /\ Line.tag = "begin" /\ Consumed /\ Kept
  /\ IF scan.in # Outside \/ Line \in scan.seen THEN Refuse
     ELSE /\ scan' = [scan EXCEPT !.in = Line.of, !.seen = @ \cup {Line}]
          /\ UNCHANGED verdict

CloseSection ==
  /\ Reading /\ Line.tag = "end" /\ Consumed /\ Kept
  /\ IF scan.in # Line.of \/ Line \in scan.seen THEN Refuse
     ELSE /\ scan' = [scan EXCEPT !.in = Outside, !.seen = @ \cup {Line}]
          /\ UNCHANGED verdict

GpuLine ==
  /\ Reading /\ Line.tag \in {"row", "status"} /\ scan.in = "gpus" /\ Consumed /\ Kept
  /\ scan' = IF OwnStatus THEN [scan EXCEPT !.gpuMessage = Line.says]
             ELSE [scan EXCEPT !.gpus = Append(@, Text)]
  /\ UNCHANGED verdict

\* a status of the process query excludes rows and another status
ProcessLine ==
  /\ Reading /\ Line.tag \in {"row", "status"} /\ scan.in = "processes" /\ Consumed /\ Kept
  /\ IF scan.status # "" \/ (OwnStatus /\ scan.processes # <<>>) THEN Refuse
     ELSE /\ scan' = IF OwnStatus THEN [scan EXCEPT !.status = Line.says]
                     ELSE [scan EXCEPT !.processes = Append(@, Text)]
          /\ UNCHANGED verdict

HealthLine ==
  /\ Reading /\ Line.tag \in {"row", "status"} /\ scan.in = "health" /\ Consumed /\ Kept
  /\ scan' = IF OwnStatus THEN [scan EXCEPT !.health = <<>>, !.healthOn = FALSE]
             ELSE IF scan.healthOn THEN [scan EXCEPT !.health = Append(@, Text)] ELSE scan
  /\ UNCHANGED verdict

WorkloadLine ==
  /\ Reading /\ Line.tag \in {"row", "status"} /\ scan.in = "workloads" /\ Consumed /\ Kept
  /\ scan' = [scan EXCEPT !.workloads = Append(@, Text)]
  /\ UNCHANGED verdict

\* an odd disk row is dropped, one too many is not; other rows in the section are
\* dropped, too
DiskLine ==
  /\ Reading /\ Line.tag \in {"row", "status"} /\ scan.in = "disks" /\ Consumed /\ Kept
  /\ IF Line.of # "disks" THEN UNCHANGED <<scan, verdict>>
     ELSE IF Len(scan.disks) >= MaxDisks THEN Refuse
     ELSE /\ scan' = IF Line.row = "odd" THEN scan ELSE [scan EXCEPT !.disks = Append(@, Line.row)]
          /\ UNCHANGED verdict

\* core values, the last one of a key wins; pressure rows are kept; a row whose
\* section was not opened is a value that nobody asks for
CoreLine ==
  /\ Reading /\ Line.tag \in {"row", "status"} /\ scan.in = Outside /\ Consumed /\ Kept
  /\ scan' = IF Line.of # Outside THEN scan
             ELSE IF Line.row \in {"psi", "odd psi"} THEN [scan EXCEPT !.psi = Append(@, Line.row)]
             ELSE [scan EXCEPT !.core = @ \cup {Line.row}]
  /\ UNCHANGED verdict

-------------------------------------------------------------------------------
(* The end of the payload *)

AllDistinct(rows, f(_)) == \A i, j \in DOMAIN rows : f(rows[i]) = f(rows[j]) => i = j

\* Broken: no section is left open.
ClosedSections == scan.in = Outside
\* every section was opened and closed
CompleteSections == scan.seen = Markers /\ scan.in = Outside

Coherent ==
  /\ scan.gpuMessage = "" \/ scan.gpus = <<>>
  /\ scan.status # "skipped" \/ scan.workloads = <<>>
  /\ scan.core = {"HOST", "TOTALS"}

\* the first row decides on the columns of all of them
Combined == scan.gpus # <<>> /\ Head(scan.gpus).health # "none"
GpusSound ==
  /\ Len(scan.gpus) <= MaxGpus
  /\ \A i \in DOMAIN scan.gpus : scan.gpus[i].sound /\ (scan.gpus[i].health # "none" <=> Combined)
  /\ AllDistinct(scan.gpus, LAMBDA r : r.index)

Uuids(rows) == {rows[i].uuid : i \in DOMAIN rows}
InlineHealth ==
  IF /\ Combined /\ GpusSound
     /\ \A i \in DOMAIN scan.gpus : scan.gpus[i].health = "sound"
     /\ AllDistinct(scan.gpus, LAMBDA r : r.uuid)
  THEN Uuids(scan.gpus) ELSE {}
SectionHealth ==
  IF /\ scan.healthOn /\ InlineHealth = {} /\ AllDistinct(scan.health, LAMBDA r : r.uuid)
     /\ \A i \in DOMAIN scan.health : scan.health[i].sound
  THEN Uuids(scan.health) ELSE {}

ProcessesSound ==
  Len(scan.processes) <= MaxProcesses /\ \A i \in DOMAIN scan.processes : scan.processes[i].sound
WorkloadsSound ==
  /\ \A i \in DOMAIN scan.workloads : scan.workloads[i].sound
  /\ AllDistinct(scan.workloads, LAMBDA r : r.pid)

\* a device that its UUID identifies
Owner(uuid) ==
  uuid # "" /\ Cardinality({i \in DOMAIN scan.gpus : scan.gpus[i].uuid = uuid}) = 1

\* the processes of a device as [pid, known], each at the position of its row; known
\* when the workload section has it
ProcessesFor(uuid) ==
  IF scan.status # "" \/ ~ProcessesSound \/ ~Owner(uuid) THEN <<>>
  ELSE [i \in {j \in DOMAIN scan.processes : scan.processes[j].uuid = uuid} |->
          [pid |-> scan.processes[i].pid,
           known |-> /\ WorkloadsSound
                     /\ \E w \in DOMAIN scan.workloads :
                          scan.workloads[w].pid = scan.processes[i].pid]]

Sampled ==
  [gpus |-> IF ~GpusSound THEN <<>>
            ELSE [i \in DOMAIN scan.gpus |->
                    [index |-> scan.gpus[i].index, uuid |-> scan.gpus[i].uuid,
                     processes |-> ProcessesFor(scan.gpus[i].uuid),
                     health |-> scan.gpus[i].uuid \in InlineHealth \cup SectionHealth]],
   available |-> scan.status # "error" /\ (scan.status = "" => ProcessesSound),
   sampled |-> scan.status # "skipped",
   message |-> IF GpusSound THEN scan.gpuMessage ELSE "malformed",
   psi |-> IF "odd psi" \in Range(scan.psi) \/ Len(scan.psi) > 1 THEN {} ELSE Range(scan.psi)]

Finish ==
  /\ verdict = "" /\ output = <<>>
  /\ IF /\ CompleteSections /\ Coherent
        /\ InlineHealth = {} \/ scan.health = <<>>
     THEN verdict' = "sample" /\ answer' = Sampled
     ELSE verdict' = "refused" /\ UNCHANGED answer
  /\ UNCHANGED <<sample, host, output, scan, cut, faults>>

-------------------------------------------------------------------------------
(* The way *)

Lose ==
  /\ Reading /\ faults < MaxFaults /\ faults' = faults + 1 /\ Consumed
  /\ UNCHANGED <<sample, host, scan, verdict, answer, cut>>

Repeat ==
  /\ Reading /\ faults < MaxFaults /\ faults' = faults + 1
  /\ output' = <<Line>> \o output
  /\ UNCHANGED <<sample, host, scan, verdict, answer, cut>>

Cut ==
  /\ Reading /\ faults < MaxFaults /\ faults' = faults + 1
  /\ output' = <<>> /\ cut' = \E l \in Range(output) : l \notin scan.seen
  /\ UNCHANGED <<sample, host, scan, verdict, answer>>

PayloadNext ==
  \/ OpenSection \/ CloseSection \/ GpuLine \/ ProcessLine \/ HealthLine
  \/ WorkloadLine \/ DiskLine \/ CoreLine \/ Finish
  \/ Lose \/ Repeat \/ Cut

PayloadSpec == PayloadInit /\ [][PayloadNext]_payloadVars

-------------------------------------------------------------------------------
(* Properties *)

\* Whatever its tools answer, the parser takes what the script prints, as long as
\* the core values are there and the disks not too many; a malformed row costs no
\* more than its own section, and the answer says of the processes what was asked
\* (_parse_resource_payload with _REMOTE_SCRIPT_TEMPLATE).
ScriptUnderstood ==
  verdict # "" /\ faults = 0 /\ host.core /\ Len(host.disks) <= MaxDisks =>
    LET seen == host.smi \in {"combined", "fallback"}
        sound == /\ Len(host.gpus) <= MaxGpus
                 /\ \A i \in DOMAIN host.gpus : host.gpus[i].sound
                 /\ AllDistinct(host.gpus, LAMBDA r : r.index)
    IN /\ verdict = "sample" /\ answer.sampled = sample.processes
       /\ Len(answer.gpus) = IF seen /\ sound THEN Len(host.gpus) ELSE 0
       /\ sample.processes /\ host.smi # "absent" /\ answer.available =>
            host.query /\ \A i \in DOMAIN host.procs : host.procs[i].sound

\* A process is on one device at most, the one that its row names, also when two
\* devices report the same UUID ("must not double-count or misattribute another
\* device's processes", _parse_resource_payload).
AttributedOnce ==
  verdict = "sample" =>
    \A i, j \in DOMAIN answer.gpus :
      /\ \A p \in Range(answer.gpus[i].processes) :
           \E r \in Range(host.procs) : r.pid = p.pid /\ r.uuid = answer.gpus[i].uuid
      /\ answer.gpus[i].processes # <<>> /\ answer.gpus[i].uuid = answer.gpus[j].uuid => i = j

\* An output that ended early is no sample, wherever it ended: the numbers of one
\* section are never shown as those of a host that lost the others.
CutRefused == cut => verdict # "sample"

\* A sample says nothing that the host did not print, and it says all of it: no
\* process is on two devices, no output that ended early is a sample
\* (_parse_resource_payload).
NothingInvented == AttributedOnce /\ CutRefused
===============================================================================
