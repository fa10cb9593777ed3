----------------------------- MODULE PayloadProofs -----------------------------
(*****************************************************************************)
(* Proofs about the payload of a probe, for every machine: a sample says     *)
(* nothing that the host did not print, whatever the connection does to the  *)
(* lines; and when it does nothing, the parser takes what the script prints. *)
(*                                                                           *)
(* The first follows from the order of the lines that are left: no line of a *)
(* section is before its begin or after its end.  The second needs the place *)
(* of each line: the parser is after the first p lines of the script, and    *)
(* has seen the markers, and told the rows, that are among these.            *)
(*****************************************************************************)
EXTENDS ProbePayload, SequenceTheorems, FiniteSetTheorems, TLAPS

\* lines that are no marker, and lists of any lines
RowTags == {"row", "status"}
Sequence(s) == s \in Seq(Range(s))

\* what a line of the output of a machine can be
IsLine(l, m) ==
  \/ l \in Markers
  \/ /\ l.tag \in RowTags /\ l.of \in PayloadSections \cup {Outside}
     /\ l.tag = "row" /\ l.of = "processes" => l.row \in Range(m.procs)

\* The script prints no line of a section before the section begins or after it
\* ended, no line outside of all of them after the first began, and nothing at all
\* after the end of the last.
Misplaced(a, b) ==
  \/ a.of = b.of /\ a.tag \in RowTags /\ b.tag = "begin"
  \/ a.of = b.of /\ a.tag = "end" /\ b.tag \in RowTags
  \/ a.tag \in {"begin", "end"} /\ b.of = Outside
  \/ a = Closing("health") /\ b # a

Lines(lines, m) == Sequence(lines) /\ \A i \in DOMAIN lines : IsLine(lines[i], m)
InOrder(lines) == \A i, j \in DOMAIN lines : i < j => ~Misplaced(lines[i], lines[j])

\* The lines that nobody has read are lines of the host, in the order of the script.
LinesInv == host \in Machines /\ Lines(output, host) /\ InOrder(output)

\* A section is read between its markers.
ScanInv ==
  /\ DOMAIN scan = DOMAIN Blank
  /\ scan.seen \subseteq Markers
  /\ scan.in \in PayloadSections \cup {Outside}
  /\ \A s \in PayloadSections :
       /\ scan.in = s <=> Opening(s) \in scan.seen /\ Closing(s) \notin scan.seen
       /\ Closing(s) \in scan.seen => Opening(s) \in scan.seen
  /\ Sequence(scan.gpus) /\ Sequence(scan.processes)

\* What was read says what is left: no line of a section that was closed, no line
\* outside of the sections when one was opened, nothing when the last was closed.
LeftInv ==
  /\ \A i \in DOMAIN output :
       /\ output[i].tag \in RowTags /\ output[i].of \in PayloadSections
            => Closing(output[i].of) \notin scan.seen
       /\ output[i].of = Outside => scan.seen = {}
       /\ Closing("health") \in scan.seen => output[i] = Closing("health")
  /\ cut => output = <<>> /\ Closing("health") \notin scan.seen

\* As long as no marker is lost, the processes that were read are processes of
\* the host.
ProcessesInv ==
  Markers \subseteq scan.seen \cup Range(output) =>
    \A i \in DOMAIN scan.processes : scan.processes[i] \in Range(host.procs)

VerdictInv ==
  verdict = "sample" => scan.seen = Markers /\ AttributedOnce

PayloadInv == LinesInv /\ ScanInv /\ LeftInv /\ ProcessesInv /\ VerdictInv

-------------------------------------------------------------------------------
(* What the script prints *)

\* lines of one section, none of them a marker
Body(lines, s, m) ==
  Sequence(lines) /\ \A i \in DOMAIN lines :
    lines[i].tag \in RowTags /\ lines[i].of = s /\ IsLine(lines[i], m)

\* lines of these sections, as the script prints them
Printed(lines, S, m) ==
  Lines(lines, m) /\ InOrder(lines) /\ \A i \in DOMAIN lines : lines[i].of \in S

\* A sequence of anything is a sequence of its elements.
LEMMA SequenceOf ==
  ASSUME NEW S, NEW s \in Seq(S)
  PROVE  Sequence(s) /\ Len(s) \in Nat /\ DOMAIN s = 1..Len(s)
BY SeqOfRange, LenProperties DEF Sequence

\* The domain of a sequence, and what its elements are of.
LEMMA SequenceDomain ==
  ASSUME NEW s, Sequence(s)
  PROVE  Len(s) \in Nat /\ DOMAIN s = 1..Len(s) /\ s \in Seq(Range(s))
BY LenProperties DEF Sequence

\* Lines after lines are a sequence of both.
LEMMA Concatenated ==
  ASSUME NEW a, NEW b, Sequence(a), Sequence(b)
  PROVE  /\ Sequence(a \o b)
         /\ DOMAIN (a \o b) = 1..(Len(a) + Len(b))
         /\ \A i \in 1..(Len(a) + Len(b)) :
              (a \o b)[i] = IF i <= Len(a) THEN a[i] ELSE b[i - Len(a)]
<1> DEFINE S == Range(a) \cup Range(b)
<1>1. a \in Seq(S) /\ b \in Seq(S)
  BY SeqMonotonic DEF Sequence
<1> HIDE DEF S
<1>2. /\ a \o b \in Seq(S) /\ Len(a \o b) = Len(a) + Len(b)
      /\ \A i \in 1..(Len(a) + Len(b)) :
           (a \o b)[i] = IF i <= Len(a) THEN a[i] ELSE b[i - Len(a)]
  BY <1>1, ConcatProperties
<1> QED BY <1>2, SequenceOf

\* One line is a sequence.
LEMMA OneLine ==
  ASSUME NEW l PROVE Sequence(<<l>>) /\ Len(<<l>>) = 1 /\ DOMAIN <<l>> = {1} /\ <<l>>[1] = l
<1>1. <<l>> \in Seq({l}) /\ Len(<<l>>) = 1 /\ <<l>>[1] = l
  OBVIOUS
<1>2. Sequence(<<l>>) /\ DOMAIN <<l>> = 1..Len(<<l>>)
  BY ONLY <1>1, SequenceOf
<1>3. DOMAIN <<l>> = {1}
  BY <1>1, <1>2
<1> QED BY ONLY <1>1, <1>2, <1>3

\* No line is one, too.
LEMMA NoLines == Sequence(<<>>) /\ Len(<<>>) = 0 /\ DOMAIN <<>> = {}
<1>1. <<>> \in Seq({}) /\ Len(<<>>) = 0
  BY EmptySeq
<1>2. Sequence(<<>>) /\ DOMAIN <<>> = 1..Len(<<>>)
  BY ONLY <1>1, SequenceOf
<1>3. DOMAIN <<>> = {}
  BY <1>1, <1>2
<1> QED BY ONLY <1>1, <1>2, <1>3

\* One more line.
LEMMA Appended ==
  ASSUME NEW s, Sequence(s), NEW x
  PROVE  /\ Sequence(Append(s, x)) /\ Len(Append(s, x)) = Len(s) + 1
         /\ DOMAIN Append(s, x) = 1..(Len(s) + 1) /\ Append(s, x)[Len(s) + 1] = x
         /\ \A i \in 1..Len(s) : Append(s, x)[i] = s[i]
<1> DEFINE S == Range(s) \cup {x}
<1>1. s \in Seq(S) /\ x \in S /\ Len(s) \in Nat
  BY SeqMonotonic, SequenceDomain DEF Sequence
<1> HIDE DEF S
<1>2. /\ Append(s, x) \in Seq(S) /\ Len(Append(s, x)) = Len(s) + 1
      /\ Append(s, x)[Len(s) + 1] = x /\ \A i \in 1..Len(s) : Append(s, x)[i] = s[i]
  BY <1>1, AppendProperties
<1> QED BY <1>2, SequenceOf

\* Rows of a section are lines of it.
LEMMA RowsAreBody ==
  ASSUME NEW m, NEW rows, Sequence(rows), NEW s \in PayloadSections \cup {Outside},
         s = "processes" => \A i \in DOMAIN rows : rows[i] \in Range(m.procs)
  PROVE  Body(Rows(s, rows), s, m)
<1> DEFINE r == Rows(s, rows)
<1>1. Len(rows) \in Nat /\ DOMAIN rows = 1..Len(rows)
  BY SequenceDomain
<1>2. r = [i \in 1..Len(rows) |-> Row(s, rows[i])]
  BY DEF Rows
<1>3. DOMAIN r = 1..Len(rows) /\ \A i \in DOMAIN r : r[i] = Row(s, rows[i])
  BY <1>2
<1>4. r \in Seq({Row(s, rows[i]) : i \in 1..Len(rows)})
  <2> DEFINE T == {Row(s, rows[i]) : i \in 1..Len(rows)}
  <2>1. r \in [1..Len(rows) -> T]
    BY <1>2
  <2> QED BY <2>1, <1>1, SeqDef
<1> HIDE DEF r
<1>5. Sequence(r)
  BY <1>4, SequenceOf
<1>6. ASSUME NEW i \in DOMAIN r
      PROVE  r[i].tag \in RowTags /\ r[i].of = s /\ IsLine(r[i], m)
  <2>1. r[i] = [tag |-> "row", of |-> s, row |-> rows[i]] /\ i \in DOMAIN rows
    BY <1>1, <1>3 DEF Row
  <2> QED BY <2>1 DEF IsLine, RowTags
<1>7. Body(r, s, m)
  BY <1>5, <1>6 DEF Body
<1> QED BY <1>7 DEF r

\* So is one status, one row, and nothing.
LEMMA StatusIsBody ==
  ASSUME NEW m, NEW v, NEW s \in PayloadSections
  PROVE  Body(<<StatusRow(s, v)>>, s, m)
<1> DEFINE l == StatusRow(s, v)
<1>1. l.tag = "status" /\ l.of = s
  BY DEF StatusRow
<1>2. IsLine(l, m)
  BY <1>1 DEF IsLine, RowTags
<1> HIDE DEF l
<1>3. Body(<<l>>, s, m)
  BY <1>1, <1>2, OneLine DEF Body, RowTags
<1> QED BY <1>3 DEF l

\* A row of the awk pass is a line outside of the sections.
LEMMA CoreIsBody ==
  ASSUME NEW m, NEW r PROVE Body(<<Row(Outside, r)>>, Outside, m)
<1> DEFINE l == Row(Outside, r)
<1>1. l.tag = "row" /\ l.of = Outside
  BY DEF Row
<1>2. IsLine(l, m)
  BY <1>1 DEF IsLine, RowTags, Outside
<1> HIDE DEF l
<1>3. Body(<<l>>, Outside, m)
  BY <1>1, <1>2, OneLine DEF Body, RowTags
<1> QED BY <1>3 DEF l

\* No lines are lines of any section.
LEMMA NoneIsBody == ASSUME NEW m, NEW s PROVE Body(<<>>, s, m)
BY NoLines DEF Body

\* Lines of a section after lines of it are lines of it.
LEMMA BodiesJoin ==
  ASSUME NEW m, NEW s, NEW a, NEW b, Body(a, s, m), Body(b, s, m)
  PROVE  Body(a \o b, s, m)
<1>1. Sequence(a) /\ Sequence(b)
  BY DEF Body
<1>2. Len(a) \in Nat /\ DOMAIN a = 1..Len(a) /\ Len(b) \in Nat /\ DOMAIN b = 1..Len(b)
  BY <1>1, SequenceDomain
<1> DEFINE c == a \o b
<1>3. /\ Sequence(c) /\ DOMAIN c = 1..(Len(a) + Len(b))
      /\ \A i \in 1..(Len(a) + Len(b)) :
           c[i] = IF i <= Len(a) THEN a[i] ELSE b[i - Len(a)]
  BY <1>1, Concatenated
<1> HIDE DEF c
<1>4. ASSUME NEW i \in DOMAIN c
      PROVE  (\E j \in DOMAIN a : c[i] = a[j]) \/ (\E j \in DOMAIN b : c[i] = b[j])
  <2>1. CASE i <= Len(a)
    BY <2>1, <1>2, <1>3
  <2>2. CASE ~(i <= Len(a))
    <3>1. i - Len(a) \in DOMAIN b
      BY <2>2, <1>2, <1>3
    <3> QED BY <3>1, <2>2, <1>3
  <2> QED BY <2>1, <2>2
<1>5. Body(c, s, m)
  BY <1>3, <1>4 DEF Body
<1> QED BY <1>5 DEF c

\* Lines outside of the sections are in order.
LEMMA CorePrinted ==
  ASSUME NEW m, NEW lines, Body(lines, Outside, m)
  PROVE  Printed(lines, {Outside}, m)
BY DEF Body, Printed, Lines, InOrder, Misplaced, RowTags, Closing, Outside

\* The lines of a section are between its markers.
LEMMA SectionLines ==
  ASSUME NEW s, NEW lines, Sequence(lines)
  PROVE  LET c == Section(s, lines) IN
         /\ Sequence(c) /\ Len(c) = Len(lines) + 2
         /\ c[1] = Opening(s) /\ c[Len(lines) + 2] = Closing(s)
         /\ \A k \in 1..Len(lines) : c[k + 1] = lines[k]
<1> DEFINE n == Len(lines)
           b == <<Opening(s)>> \o lines
           c == b \o <<Closing(s)>>
<1>1. Sequence(lines) /\ n \in Nat /\ DOMAIN lines = 1..n
  BY SequenceDomain
<1>2. /\ Sequence(b) /\ DOMAIN b = 1..(1 + n)
      /\ \A i \in 1..(1 + n) : b[i] = IF i <= 1 THEN <<Opening(s)>>[i] ELSE lines[i - 1]
  BY <1>1, OneLine, Concatenated
<1>3. Len(b) = 1 + n
  BY <1>1, <1>2, SequenceDomain
<1> HIDE DEF b
<1>4. /\ Sequence(c) /\ DOMAIN c = 1..(Len(b) + 1)
      /\ \A i \in 1..(Len(b) + 1) :
           c[i] = IF i <= Len(b) THEN b[i] ELSE <<Closing(s)>>[i - Len(b)]
  BY <1>2, OneLine, Concatenated
<1>5. c = Section(s, lines)
  BY DEF Section, b
<1> HIDE DEF c, n
<1>6. Len(c) = n + 2
  BY <1>1, <1>3, <1>4, SequenceDomain
<1>7. c[1] = Opening(s)
  <2>1. c[1] = b[1] /\ b[1] = <<Opening(s)>>[1]
    BY <1>1, <1>2, <1>3, <1>4
  <2> QED BY <2>1
<1>8. c[n + 2] = Closing(s)
  <2>1. c[n + 2] = <<Closing(s)>>[1]
    BY <1>1, <1>3, <1>4
  <2> QED BY <2>1
<1>9. \A k \in 1..n : c[k + 1] = lines[k]
  BY <1>1, <1>2, <1>3, <1>4
<1> QED BY <1>4, <1>5, <1>6, <1>7, <1>8, <1>9 DEF n

\* A section is in order: its lines are between its markers.
LEMMA SectionPrinted ==
  ASSUME NEW m, NEW s \in PayloadSections, NEW lines, Body(lines, s, m)
  PROVE  Printed(Section(s, lines), {s}, m)
<1> DEFINE n == Len(lines)
           c == Section(s, lines)
<1>1. Sequence(lines) /\ n \in Nat /\ DOMAIN lines = 1..n
  BY SequenceDomain DEF Body
<1>2. /\ Sequence(c) /\ Len(c) = n + 2 /\ c[1] = Opening(s) /\ c[n + 2] = Closing(s)
      /\ \A k \in 1..n : c[k + 1] = lines[k]
  BY <1>1, SectionLines
<1> HIDE DEF c, n
<1>4. Sequence(c) /\ DOMAIN c = 1..(n + 2)
  BY <1>2, SequenceDomain
<1>5. DOMAIN c = 1..(n + 2) /\ c[1] = Opening(s) /\ c[n + 2] = Closing(s)
  BY <1>2, <1>4
<1>6. \A i \in 2..(n + 1) : i - 1 \in DOMAIN lines /\ c[i] = lines[i - 1]
  <2>1. \A i \in 2..(n + 1) : i - 1 \in 1..n /\ (i - 1) + 1 = i
    BY <1>1
  <2> QED BY <1>1, <1>2, <2>1
<1>7. \A i \in DOMAIN c : i = 1 \/ i = n + 2 \/ i \in 2..(n + 1)
  BY <1>1, <1>5
<1>8. /\ Opening(s).tag = "begin" /\ Opening(s).of = s /\ Opening(s) \in Markers
      /\ Closing(s).tag = "end" /\ Closing(s).of = s /\ Closing(s) \in Markers
  BY DEF Opening, Closing, Markers
<1>9. s # Outside
  BY DEF PayloadSections, Outside
<1>10. ASSUME NEW i \in 2..(n + 1)
       PROVE  c[i].tag \in RowTags /\ c[i].of = s /\ IsLine(c[i], m)
  BY <1>6 DEF Body
<1>11. Lines(c, m) /\ \A i \in DOMAIN c : c[i].of \in {s}
  BY <1>4, <1>5, <1>7, <1>8, <1>10 DEF Lines, IsLine
<1>12. ASSUME NEW i \in DOMAIN c, NEW j \in DOMAIN c, i < j
       PROVE  ~Misplaced(c[i], c[j])
  <2>1. i # n + 2 /\ j # 1
    BY <1>1, <1>5, <1>12
  <2>2. c[i].of = s /\ c[j].of = s /\ c[i].tag # "end" /\ c[j].tag # "begin"
    BY <2>1, <1>5, <1>7, <1>8, <1>10 DEF RowTags
  <2>3. c[i] # Closing("health")
    BY <2>2 DEF Closing
  <2> QED BY <2>2, <2>3, <1>9 DEF Misplaced
<1>13. InOrder(c)
  BY <1>12 DEF InOrder
<1> QED BY <1>11, <1>13 DEF Printed, c

\* Sections after other lines are in order when they are other sections.
LEMMA PrintedJoin ==
  ASSUME NEW m, NEW S, NEW T, NEW a, NEW b, Printed(a, S, m), Printed(b, T, m),
         S \cap T = {}, Outside \notin T, "health" \notin S
  PROVE  Printed(a \o b, S \cup T, m)
<1>1. Sequence(a) /\ Sequence(b)
  BY DEF Printed, Lines
<1>2. Len(a) \in Nat /\ DOMAIN a = 1..Len(a) /\ Len(b) \in Nat /\ DOMAIN b = 1..Len(b)
  BY <1>1, SequenceDomain
<1> DEFINE c == a \o b
<1>3. /\ Sequence(c) /\ DOMAIN c = 1..(Len(a) + Len(b))
      /\ \A i \in 1..(Len(a) + Len(b)) :
           c[i] = IF i <= Len(a) THEN a[i] ELSE b[i - Len(a)]
  BY <1>1, Concatenated
<1> HIDE DEF c
<1>4. ASSUME NEW i \in DOMAIN c
      PROVE  \/ i \in DOMAIN a /\ c[i] = a[i]
             \/ i > Len(a) /\ i - Len(a) \in DOMAIN b /\ c[i] = b[i - Len(a)]
  <2>1. CASE i <= Len(a)
    BY <2>1, <1>2, <1>3
  <2>2. CASE ~(i <= Len(a))
    <3>1. i - Len(a) \in DOMAIN b /\ i > Len(a)
      BY <2>2, <1>2, <1>3
    <3> QED BY <3>1, <2>2, <1>3
  <2> QED BY <2>1, <2>2
<1>5. Lines(c, m) /\ \A i \in DOMAIN c : c[i].of \in S \cup T
  BY <1>3, <1>4 DEF Lines, Printed
<1>6. ASSUME NEW x \in DOMAIN a, NEW y \in DOMAIN b PROVE ~Misplaced(a[x], b[y])
  <2>1. a[x].of \in S /\ b[y].of \in T
    BY DEF Printed
  <2>2. a[x].of # b[y].of /\ b[y].of # Outside /\ a[x].of # "health"
    BY <2>1
  <2> QED BY <2>2 DEF Misplaced, Closing
<1>7. ASSUME NEW i \in DOMAIN c, NEW j \in DOMAIN c, i < j
      PROVE  ~Misplaced(c[i], c[j])
  <2>1. i \in Int /\ j \in Int
    BY <1>2, <1>3
  <2>2. CASE j \in DOMAIN a /\ c[j] = a[j]
    <3>1. i \in DOMAIN a /\ c[i] = a[i]
      BY <2>1, <2>2, <1>2, <1>4, <1>7
    <3> QED BY <3>1, <2>2, <1>7 DEF Printed, InOrder
  <2>3. CASE j > Len(a) /\ j - Len(a) \in DOMAIN b /\ c[j] = b[j - Len(a)]
    <3>1. CASE i \in DOMAIN a /\ c[i] = a[i]
      BY <3>1, <2>3, <1>6
    <3>2. CASE i > Len(a) /\ i - Len(a) \in DOMAIN b /\ c[i] = b[i - Len(a)]
      <4>1. i - Len(a) < j - Len(a)
        BY <1>2, <1>7, <2>1
      <4> QED BY <4>1, <3>2, <2>3 DEF Printed, InOrder
    <3> QED BY <3>1, <3>2, <1>4
  <2> QED BY <2>2, <2>3, <1>4
<1>8. Printed(c, S \cup T, m)
  BY <1>5, <1>7 DEF Printed, InOrder
<1> QED BY <1>8 DEF c

\* A finite set can be listed.
LEMMA Listed ==
  ASSUME NEW S, IsFiniteSet(S)
  PROVE  Sequence(SetToSeq(S)) /\ Range(SetToSeq(S)) = S
<1> DEFINE n == Cardinality(S)
           s == SetToSeq(S)
<1>1. n \in Nat /\ ExistsBijection(1..n, S)
  BY FS_CardinalityType
<1> HIDE DEF n
<1>2. PICK e \in Bijection(1..n, S) : TRUE
  BY <1>1 DEF ExistsBijection
<1>3. e \in [1..n -> S] /\ IsInjective(e)
  BY <1>2 DEF Bijection, Injection
<1>4. s \in [1..n -> S] /\ IsInjective(s)
  BY <1>3 DEF SetToSeq, n
<1>5. s \in Seq(S)
  BY <1>1, <1>4, SeqDef
<1>6. s \in Injection(1..n, S) /\ Cardinality(1..n) = n /\ IsFiniteSet(1..n)
  BY <1>1, <1>4, FS_Interval DEF Injection
<1>7. s \in Surjection(1..n, S)
  BY <1>6, FS_Injection DEF n
<1>8. Range(s) = S
  BY <1>4, <1>7 DEF Surjection, Range
<1> HIDE DEF s
<1>9. Sequence(s)
  BY <1>5, SequenceOf
<1> QED BY <1>8, <1>9 DEF s

\* A sequence names finitely many PIDs.
LEMMA FinitelyManyPids ==
  ASSUME NEW s, Sequence(s) PROVE IsFiniteSet({s[i].pid : i \in DOMAIN s})
<1> DEFINE T == {s[i].pid : i \in DOMAIN s}
           g == [i \in DOMAIN s |-> s[i].pid]
<1>1. IsFiniteSet(DOMAIN s)
  <2>1. DOMAIN s = 1..Len(s) /\ Len(s) \in Nat
    BY SequenceDomain
  <2> QED BY <2>1, FS_Interval
<1>2. g \in Surjection(DOMAIN s, T)
  BY DEF Surjection
<1> HIDE DEF T, g
<1>3. IsFiniteSet(T)
  BY <1>1, <1>2, FS_Surjection
<1> QED BY <1>3 DEF T

\* What is made of every element of a sequence is a sequence.
LEMMA Mapped ==
  ASSUME NEW n \in Nat, NEW f, f = [i \in 1..n |-> f[i]]
  PROVE  Sequence(f)
<1>1. f \in [1..n -> {f[i] : i \in 1..n}]
  OBVIOUS
<1>2. f \in Seq({f[i] : i \in 1..n})
  BY <1>1, SeqDef
<1> QED BY <1>2, SequenceOf

\* The rows of every section are rows of it, for every machine (the script of
\* render_remote_script).
LEMMA BodiesPrinted ==
  ASSUME NEW m \in Machines, NEW q
  PROVE  /\ Body(SystemLines(m), Outside, m)
         /\ Body(Rows("disks", m.disks), "disks", m)
         /\ Body(GpuLines(m), "gpus", m)
         /\ Body(ProcessLines(q, m), "processes", m)
         /\ Body(WorkloadLines(q, m), "workloads", m)
         /\ Body(HealthLines(m), "health", m)
<1> USE DEF PayloadSections
<1>1. /\ Sequence(m.gpus) /\ Sequence(m.procs) /\ Sequence(m.disks)
      /\ m.smi \in {"absent", "combined", "fallback", "fails"}
  BY MachinesAssumption DEF Sequence
<1>2. Body(SystemLines(m), Outside, m)
  <2> DEFINE a == <<Row(Outside, "HOST")>>
             b == IF m.psi = "none" THEN <<>> ELSE <<Row(Outside, m.psi)>>
             c == IF m.core THEN <<Row(Outside, "TOTALS")>> ELSE <<>>
  <2>1. Body(a, Outside, m) /\ Body(b, Outside, m) /\ Body(c, Outside, m)
    BY CoreIsBody, NoneIsBody
  <2>2. SystemLines(m) = (a \o b) \o c
    BY DEF SystemLines
  <2> HIDE DEF a, b, c
  <2> QED BY <2>1, <2>2, BodiesJoin
<1>3. Body(Rows("disks", m.disks), "disks", m)
  BY <1>1, RowsAreBody
<1>4. Body(GpuLines(m), "gpus", m)
  <2> DEFINE f == [i \in 1..Len(m.gpus) |-> [m.gpus[i] EXCEPT !.health = "none"]]
  <2>1. Sequence(f)
    <3>1. f = [i \in 1..Len(m.gpus) |-> f[i]]
      OBVIOUS
    <3>2. Len(m.gpus) \in Nat
      BY <1>1, SequenceDomain
    <3> HIDE DEF f
    <3> QED BY <3>1, <3>2, Mapped
  <2>2. Body(Rows("gpus", f), "gpus", m) /\ Body(Rows("gpus", m.gpus), "gpus", m)
    <3> HIDE DEF f
    <3> QED BY <1>1, <2>1, RowsAreBody
  <2>3. /\ Body(<<StatusRow("gpus", "unavailable")>>, "gpus", m)
        /\ Body(<<StatusRow("gpus", "error")>>, "gpus", m)
    BY StatusIsBody
  <2>4. GpuLines(m) \in {<<StatusRow("gpus", "unavailable")>>, Rows("gpus", m.gpus),
                         Rows("gpus", f), <<StatusRow("gpus", "error")>>}
    BY <1>1 DEF GpuLines
  <2> HIDE DEF f
  <2> QED BY <2>2, <2>3, <2>4
<1>5. Body(ProcessLines(q, m), "processes", m)
  <2> DEFINE a == IF Answered(q, m) THEN Rows("processes", m.procs) ELSE <<>>
             b == IF m.query THEN <<>> ELSE <<StatusRow("processes", "error")>>
             c == <<StatusRow("processes", "skipped")>>
  <2>1. \A i \in DOMAIN m.procs : m.procs[i] \in Range(m.procs)
    BY DEF Range
  <2>2. Body(a, "processes", m)
    BY <1>1, <2>1, RowsAreBody, NoneIsBody
  <2>3. Body(b, "processes", m) /\ Body(c, "processes", m) /\ Body(<<>>, "processes", m)
    BY StatusIsBody, NoneIsBody
  <2>4. ProcessLines(q, m) = IF ~q.processes THEN c ELSE IF m.smi = "absent" THEN <<>> ELSE a \o b
    BY DEF ProcessLines
  <2> HIDE DEF a, b, c
  <2>5. Body(a \o b, "processes", m)
    BY <2>2, <2>3, BodiesJoin
  <2> QED BY <2>3, <2>4, <2>5
<1>6. Body(WorkloadLines(q, m), "workloads", m)
  <2> DEFINE P == {m.procs[i].pid : i \in DOMAIN m.procs} \cap m.readable
             pids == SetToSeq(P)
             f == [i \in 1..Len(pids) |-> [pid |-> pids[i], sound |-> pids[i] \notin m.odd]]
  <2>1. Sequence(pids)
    <3>1. IsFiniteSet({m.procs[i].pid : i \in DOMAIN m.procs})
      BY <1>1, FinitelyManyPids
    <3>2. IsFiniteSet(P)
      BY <3>1, FS_Subset
    <3> QED BY <3>2, Listed
  <2>2. Sequence(f)
    <3>1. f = [i \in 1..Len(pids) |-> f[i]]
      OBVIOUS
    <3>2. Len(pids) \in Nat
      BY <2>1, SequenceDomain
    <3> HIDE DEF f, pids
    <3> QED BY <3>1, <3>2, Mapped
  <2>3. WorkloadLines(q, m) = IF q.tier = 0 \/ ~Answered(q, m) THEN <<>> ELSE Rows("workloads", f)
    BY DEF WorkloadLines
  <2> HIDE DEF f
  <2>4. Body(Rows("workloads", f), "workloads", m)
    BY <2>2, RowsAreBody
  <2> QED BY <2>3, <2>4, NoneIsBody
<1>7. Body(HealthLines(m), "health", m)
  BY StatusIsBody, NoneIsBody DEF HealthLines
<1> QED BY <1>2, <1>3, <1>4, <1>5, <1>6, <1>7

\* The script prints its sections in order.
LEMMA ScriptPrinted ==
  ASSUME NEW m \in Machines, NEW q
  PROVE  Lines(Script(q, m), m) /\ InOrder(Script(q, m))
<1> DEFINE a == SystemLines(m)
           b == Section("disks", Rows("disks", m.disks))
           c == Section("gpus", GpuLines(m))
           d == Section("processes", ProcessLines(q, m))
           e == Section("workloads", WorkloadLines(q, m))
           f == Section("health", HealthLines(m))
<1>1. /\ Printed(a, {Outside}, m) /\ Printed(b, {"disks"}, m) /\ Printed(c, {"gpus"}, m)
      /\ Printed(d, {"processes"}, m) /\ Printed(e, {"workloads"}, m)
      /\ Printed(f, {"health"}, m)
  BY BodiesPrinted, CorePrinted, SectionPrinted DEF PayloadSections
<1>2. Script(q, m) = ((((a \o b) \o c) \o d) \o e) \o f
  BY DEF Script
<1> HIDE DEF a, b, c, d, e, f
<1> USE DEF Outside
<1>3. Printed(a \o b, {Outside, "disks"}, m)
  <2>1. Printed(a \o b, {Outside} \cup {"disks"}, m)
    BY <1>1, PrintedJoin
  <2>2. {Outside} \cup {"disks"} = {Outside, "disks"}
    OBVIOUS
  <2> QED BY <2>1, <2>2
<1>4. Printed((a \o b) \o c, {Outside, "disks", "gpus"}, m)
  <2>1. Printed((a \o b) \o c, {Outside, "disks"} \cup {"gpus"}, m)
    BY <1>1, <1>3, PrintedJoin
  <2>2. {Outside, "disks"} \cup {"gpus"} = {Outside, "disks", "gpus"}
    OBVIOUS
  <2> QED BY <2>1, <2>2
<1>5. Printed(((a \o b) \o c) \o d, {Outside, "disks", "gpus", "processes"}, m)
  <2>1. Printed(((a \o b) \o c) \o d, {Outside, "disks", "gpus"} \cup {"processes"}, m)
    BY <1>1, <1>4, PrintedJoin
  <2>2. {Outside, "disks", "gpus"} \cup {"processes"} = {Outside, "disks", "gpus", "processes"}
    OBVIOUS
  <2> QED BY <2>1, <2>2
<1> DEFINE S == {Outside, "disks", "gpus", "processes"}
<1>6. Printed((((a \o b) \o c) \o d) \o e, S \cup {"workloads"}, m)
  BY <1>1, <1>5, PrintedJoin
<1>7. Printed(((((a \o b) \o c) \o d) \o e) \o f, (S \cup {"workloads"}) \cup {"health"}, m)
  BY <1>1, <1>6, PrintedJoin
<1> QED BY <1>2, <1>7 DEF Printed

-------------------------------------------------------------------------------
(* What the connection does to it *)

\* No line is before itself in a wrong order, so that it may come twice.
LEMMA NeverMisplacedByItself ==
  ASSUME NEW m, NEW l, IsLine(l, m) PROVE ~Misplaced(l, l)
BY DEF IsLine, Misplaced, Markers, Opening, Closing, PayloadSections, Outside, RowTags

\* Lines that are taken from others in their order are lines of the host, too.
LEMMA Drawn ==
  ASSUME NEW m, NEW o, Lines(o, m), InOrder(o), NEW p, Sequence(p),
         NEW f \in [DOMAIN p -> DOMAIN o], \A i \in DOMAIN p : p[i] = o[f[i]],
         \A i, j \in DOMAIN p : i < j => f[i] <= f[j]
  PROVE  Lines(p, m) /\ InOrder(p)
<1>1. Lines(p, m)
  BY DEF Lines
<1>2. ASSUME NEW i \in DOMAIN p, NEW j \in DOMAIN p, i < j PROVE ~Misplaced(p[i], p[j])
  <2>1. f[i] \in DOMAIN o /\ f[j] \in DOMAIN o /\ f[i] <= f[j]
    BY <1>2
  <2>2. f[i] \in Int /\ f[j] \in Int
    BY <2>1, SequenceDomain DEF Lines
  <2>3. CASE f[i] = f[j]
    BY <2>1, <2>3, NeverMisplacedByItself DEF Lines
  <2>4. CASE f[i] < f[j]
    BY <2>1, <2>4 DEF InOrder
  <2> QED BY <2>1, <2>2, <2>3, <2>4
<1> QED BY <1>1, <1>2 DEF InOrder

\* A line that is consumed comes before all that are left.
LEMMA ConsumedLine ==
  ASSUME LinesInv, output # <<>>, Consumed, UNCHANGED host
  PROVE  /\ LinesInv'
         /\ 1 \in DOMAIN output /\ Line = output[1] /\ IsLine(Line, host)
         /\ \A j \in DOMAIN output' :
              \E i \in DOMAIN output : output'[j] = output[i] /\ ~Misplaced(Line, output[i])
         /\ Range(output) = {Line} \cup Range(output')
<1> DEFINE R == Range(output)
<1>1. output \in Seq(R) /\ Len(output) \in Nat /\ DOMAIN output = 1..Len(output)
  BY SequenceDomain DEF LinesInv, Lines
<1>2. /\ output' \in Seq(R) /\ Len(output') = Len(output) - 1 /\ Len(output) > 0
      /\ \A i \in 1..Len(output') : output'[i] = output[i + 1]
  <2>1. Len(output) \in Nat \ {0}
    BY <1>1, EmptySeq
  <2> QED BY <1>1, <2>1, HeadTailProperties DEF Consumed
<1> HIDE DEF R
<1>3. Sequence(output') /\ DOMAIN output' = 1..Len(output')
  BY <1>2, SequenceOf
<1>4. \A j \in DOMAIN output' : j + 1 \in DOMAIN output /\ 1 < j + 1
  BY <1>1, <1>2, <1>3
<1>5. 1 \in DOMAIN output /\ Line = output[1]
  BY <1>1, <1>2 DEF Line
<1>6. Lines(output', host) /\ InOrder(output')
  <2> DEFINE f == [j \in DOMAIN output' |-> j + 1]
  <2>1. f \in [DOMAIN output' -> DOMAIN output]
    BY <1>4
  <2>2. \A j \in DOMAIN output' : output'[j] = output[f[j]]
    BY <1>2, <1>3
  <2>3. \A i, j \in DOMAIN output' : i < j => f[i] <= f[j]
    BY <1>2, <1>1, <1>3
  <2>4. Lines(output, host) /\ InOrder(output)
    BY DEF LinesInv
  <2> HIDE DEF f
  <2> QED BY <1>3, <2>1, <2>2, <2>3, <2>4, Drawn
<1>7. ASSUME NEW j \in DOMAIN output'
      PROVE  \E i \in DOMAIN output : output'[j] = output[i] /\ ~Misplaced(Line, output[i])
  <2>1. j + 1 \in DOMAIN output /\ 1 < j + 1 /\ output'[j] = output[j + 1]
    BY <1>2, <1>3, <1>4
  <2>2. ~Misplaced(output[1], output[j + 1])
    BY <1>5, <2>1 DEF LinesInv, InOrder
  <2> QED BY <1>5, <2>1, <2>2
<1>8. Range(output) = {Line} \cup Range(output')
  <2>1. \A i \in DOMAIN output : i = 1 \/ (i - 1 \in DOMAIN output' /\ output'[i - 1] = output[i])
    BY <1>1, <1>2, <1>3
  <2> QED BY <2>1, <1>5, <1>7 DEF Range
<1>9. LinesInv'
  BY <1>6 DEF LinesInv
<1> QED BY <1>5, <1>7, <1>8, <1>9 DEF LinesInv, Lines

\* A line that comes twice, or the end of the output, leaves the order alone.
LEMMA DamagedLines ==
  ASSUME LinesInv, output # <<>>, UNCHANGED host, output' \in {<<Line>> \o output, <<>>}
  PROVE  /\ LinesInv' /\ Range(output') \subseteq Range(output)
         /\ \A j \in DOMAIN output' : \E i \in DOMAIN output : output'[j] = output[i]
<1>1. CASE output' = <<>>
  <2>1. Sequence(output') /\ DOMAIN output' = {}
    BY <1>1, NoLines
  <2> QED BY <2>1 DEF LinesInv, Lines, InOrder, Range
<1>2. CASE output' = <<Line>> \o output
  <2> DEFINE f == [j \in DOMAIN output' |-> IF j = 1 THEN 1 ELSE j - 1]
  <2>1. Sequence(output) /\ Lines(output, host) /\ InOrder(output)
    BY DEF LinesInv, Lines
  <2>2. Len(output) \in Nat \ {0} /\ DOMAIN output = 1..Len(output)
    BY <2>1, SequenceDomain, EmptySeq
  <2>3. /\ Sequence(output') /\ DOMAIN output' = 1..(1 + Len(output))
        /\ \A i \in 1..(1 + Len(output)) :
             output'[i] = IF i <= 1 THEN <<Line>>[i] ELSE output[i - 1]
    BY <1>2, <2>1, OneLine, Concatenated
  <2>4. f \in [DOMAIN output' -> DOMAIN output]
    BY <2>2, <2>3
  <2>5. ASSUME NEW j \in DOMAIN output' PROVE output'[j] = output[f[j]]
    <3>1. CASE j = 1
      BY <2>2, <2>3, <3>1, OneLine DEF Line
    <3>2. CASE j # 1
      BY <2>2, <2>3, <3>2
    <3> QED BY <3>1, <3>2
  <2>6. \A i, j \in DOMAIN output' : i < j => f[i] <= f[j]
    BY <2>2, <2>3
  <2> HIDE DEF f
  <2>7. Lines(output', host) /\ InOrder(output')
    <3>1. Sequence(output') /\ \A i \in DOMAIN output' : output'[i] = output[f[i]]
      BY ONLY <2>3, <2>5
    <3> QED BY ONLY <3>1, <2>1, <2>4, <2>6, Drawn
  <2>8. \A j \in DOMAIN output' : \E i \in DOMAIN output : output'[j] = output[i]
    BY <2>4, <2>5
  <2> QED BY <2>7, <2>8 DEF LinesInv, Range
<1> QED BY <1>1, <1>2

-------------------------------------------------------------------------------
(* What the parser makes of it *)

\* Nothing is read at the start.
LEMMA PayloadInvInit == PayloadInit => PayloadInv
<1> SUFFICES ASSUME PayloadInit PROVE PayloadInv
  OBVIOUS
<1>1. LinesInv
  BY ScriptPrinted DEF PayloadInit, LinesInv
<1>2. ScanInv
  BY NoLines DEF PayloadInit, ScanInv, Blank, PayloadSections, Outside
<1>3. LeftInv /\ ProcessesInv
  BY NoLines DEF PayloadInit, LeftInv, ProcessesInv, Blank
<1>4. VerdictInv
  BY DEF PayloadInit, VerdictInv
<1> QED BY <1>1, <1>2, <1>3, <1>4 DEF PayloadInv

\* A marker is a record of its own.
LEMMA MarkersDiffer ==
  /\ \A s, u : /\ (Opening(s) = Opening(u) <=> s = u) /\ (Closing(s) = Closing(u) <=> s = u)
              /\ Opening(s) # Closing(u)
  /\ \A s : /\ Opening(s).tag = "begin" /\ Opening(s).of = s
            /\ Closing(s).tag = "end" /\ Closing(s).of = s
BY DEF Opening, Closing

\* A line that has the tag of a marker is one.
LEMMA MarkerLine ==
  ASSUME NEW l, NEW m, IsLine(l, m)
  PROVE  /\ l.tag = "begin" => l.of \in PayloadSections /\ l = Opening(l.of)
         /\ l.tag = "end" => l.of \in PayloadSections /\ l = Closing(l.of)
<1>1. CASE l \in Markers
  <2>1. PICK s \in PayloadSections : l = Opening(s) \/ l = Closing(s)
    BY <1>1 DEF Markers
  <2> QED BY <2>1, MarkersDiffer
<1>2. CASE l \notin Markers
  BY <1>2 DEF IsLine, RowTags
<1> QED BY <1>1, <1>2

\* A section that begins.
LEMMA OpenKeeps == PayloadInv /\ OpenSection => PayloadInv'
<1> SUFFICES ASSUME PayloadInv, OpenSection PROVE PayloadInv'
  OBVIOUS
<1>1. LinesInv /\ output # <<>> /\ Consumed /\ UNCHANGED host /\ verdict = ""
      /\ UNCHANGED cut /\ Line.tag = "begin" /\ verdict' \in {"", "refused"}
  BY DEF PayloadInv, OpenSection, Reading, Kept, Refuse
<1>2. /\ LinesInv' /\ 1 \in DOMAIN output /\ Line = output[1] /\ IsLine(Line, host)
      /\ \A j \in DOMAIN output' :
           \E i \in DOMAIN output : output'[j] = output[i] /\ ~Misplaced(Line, output[i])
      /\ Range(output) = {Line} \cup Range(output')
  BY <1>1, ConsumedLine
<1>3. ~cut
  BY <1>1 DEF PayloadInv, LeftInv
<1>4. VerdictInv'
  BY <1>1 DEF VerdictInv
<1>5. CASE scan' = scan
  BY <1>1, <1>2, <1>3, <1>4, <1>5 DEF PayloadInv, ScanInv, LeftInv, ProcessesInv
<1>6. CASE scan' # scan
  <2> DEFINE s == Line.of
  <2>1. /\ scan.in = Outside /\ Line \notin scan.seen
        /\ scan' = [scan EXCEPT !.in = Line.of, !.seen = @ \cup {Line}]
    BY <1>6 DEF OpenSection, Refuse
  <2>2. s \in PayloadSections /\ Line = Opening(s)
    BY ONLY <1>1, <1>2, MarkerLine DEF s
  <2>3. DOMAIN scan = DOMAIN Blank
    BY DEF PayloadInv, ScanInv
  <2>4. /\ DOMAIN scan' = DOMAIN Blank /\ scan'.in = s /\ scan'.seen = scan.seen \cup {Opening(s)}
        /\ scan'.gpus = scan.gpus /\ scan'.processes = scan.processes
    BY <2>1, <2>2, <2>3 DEF Blank
  <2> HIDE DEF s
  <2>5. ScanInv'
    <3>1. \A u \in PayloadSections :
            Opening(u) \in scan.seen /\ Closing(u) \notin scan.seen => FALSE
      BY <2>1 DEF PayloadInv, ScanInv, PayloadSections, Outside
    <3>2. \A u \in PayloadSections : Closing(u) \in scan'.seen <=> Closing(u) \in scan.seen
      BY <2>4, MarkersDiffer
    <3>3. \A u \in PayloadSections : Opening(u) \in scan'.seen <=> Opening(u) \in scan.seen \/ u = s
      BY <2>4, MarkersDiffer
    <3>4. Closing(s) \notin scan.seen
      BY <2>1, <2>2 DEF PayloadInv, ScanInv
    <3>5. \A u \in PayloadSections :
            /\ scan'.in = u <=> Opening(u) \in scan'.seen /\ Closing(u) \notin scan'.seen
            /\ Closing(u) \in scan'.seen => Opening(u) \in scan'.seen
      BY <2>2, <2>4, <3>1, <3>2, <3>3, <3>4 DEF PayloadInv, ScanInv
    <3>6. scan'.seen \subseteq Markers
      BY <2>2, <2>4 DEF PayloadInv, ScanInv, Markers
    <3> QED BY <2>2, <2>4, <3>5, <3>6 DEF PayloadInv, ScanInv
  <2>6. ASSUME NEW j \in DOMAIN output'
        PROVE  /\ output'[j].tag \in RowTags /\ output'[j].of \in PayloadSections
                    => Closing(output'[j].of) \notin scan'.seen
               /\ output'[j].of = Outside => scan'.seen = {}
               /\ Closing("health") \in scan'.seen => output'[j] = Closing("health")
    <3>1. PICK i \in DOMAIN output : output'[j] = output[i] /\ ~Misplaced(Line, output[i])
      BY <1>2
    <3>2. \A u : Closing(u) \in scan'.seen <=> Closing(u) \in scan.seen
      BY <2>4, MarkersDiffer
    <3>3. output[i].of # Outside
      BY <1>1, <3>1 DEF Misplaced
    <3> QED BY <3>1, <3>2, <3>3 DEF PayloadInv, LeftInv
  <2>7. LeftInv'
    BY <1>1, <1>3, <2>6 DEF LeftInv
  <2>8. ProcessesInv'
    BY <1>1, <1>2, <2>2, <2>4 DEF PayloadInv, ProcessesInv
  <2> QED BY <1>2, <1>4, <2>5, <2>7, <2>8 DEF PayloadInv
<1> QED BY <1>5, <1>6

\* A section that ends: what is left is of other sections.
LEMMA CloseKeeps == PayloadInv /\ CloseSection => PayloadInv'
<1> SUFFICES ASSUME PayloadInv, CloseSection PROVE PayloadInv'
  OBVIOUS
<1>1. LinesInv /\ output # <<>> /\ Consumed /\ UNCHANGED host /\ verdict = ""
      /\ UNCHANGED cut /\ Line.tag = "end" /\ verdict' \in {"", "refused"}
  BY DEF PayloadInv, CloseSection, Reading, Kept, Refuse
<1>2. /\ LinesInv' /\ 1 \in DOMAIN output /\ Line = output[1] /\ IsLine(Line, host)
      /\ \A j \in DOMAIN output' :
           \E i \in DOMAIN output : output'[j] = output[i] /\ ~Misplaced(Line, output[i])
      /\ Range(output) = {Line} \cup Range(output')
  BY <1>1, ConsumedLine
<1>3. ~cut
  BY <1>1 DEF PayloadInv, LeftInv
<1>4. VerdictInv'
  BY <1>1 DEF VerdictInv
<1>5. CASE scan' = scan
  BY <1>1, <1>2, <1>3, <1>4, <1>5 DEF PayloadInv, ScanInv, LeftInv, ProcessesInv
<1>6. CASE scan' # scan
  <2> DEFINE s == Line.of
  <2>1. /\ scan.in = s /\ Line \notin scan.seen
        /\ scan' = [scan EXCEPT !.in = Outside, !.seen = @ \cup {Line}]
    BY <1>6 DEF CloseSection, Refuse
  <2>2. s \in PayloadSections /\ Line = Closing(s)
    BY ONLY <1>1, <1>2, MarkerLine DEF s
  <2>3. DOMAIN scan = DOMAIN Blank
    BY DEF PayloadInv, ScanInv
  <2>4. /\ DOMAIN scan' = DOMAIN Blank /\ scan'.in = Outside
        /\ scan'.seen = scan.seen \cup {Closing(s)}
        /\ scan'.gpus = scan.gpus /\ scan'.processes = scan.processes
    BY <2>1, <2>2, <2>3 DEF Blank
  <2> HIDE DEF s
  <2>5. ScanInv'
    <3>1. \A u \in PayloadSections : Opening(u) \in scan'.seen <=> Opening(u) \in scan.seen
      BY <2>4, MarkersDiffer
    <3>2. \A u \in PayloadSections : Closing(u) \in scan'.seen <=> Closing(u) \in scan.seen \/ u = s
      BY <2>4, MarkersDiffer
    <3>3. \A u \in PayloadSections : u # scan'.in
      BY <2>4 DEF PayloadSections, Outside
    <3>4. \A u \in PayloadSections :
            /\ scan'.in = u <=> Opening(u) \in scan'.seen /\ Closing(u) \notin scan'.seen
            /\ Closing(u) \in scan'.seen => Opening(u) \in scan'.seen
      BY <2>1, <2>2, <3>1, <3>2, <3>3 DEF PayloadInv, ScanInv
    <3>5. scan'.seen \subseteq Markers
      BY <2>2, <2>4 DEF PayloadInv, ScanInv, Markers
    <3> QED BY <2>4, <3>4, <3>5 DEF PayloadInv, ScanInv
  <2>6. ASSUME NEW j \in DOMAIN output'
        PROVE  /\ output'[j].tag \in RowTags /\ output'[j].of \in PayloadSections
                    => Closing(output'[j].of) \notin scan'.seen
               /\ output'[j].of = Outside => scan'.seen = {}
               /\ Closing("health") \in scan'.seen => output'[j] = Closing("health")
    <3>1. PICK i \in DOMAIN output : output'[j] = output[i] /\ ~Misplaced(Line, output[i])
      BY <1>2
    <3>2. \A u : Closing(u) \in scan'.seen <=> Closing(u) \in scan.seen \/ u = s
      BY <2>4, MarkersDiffer
    <3>3. output[i].of # Outside /\ (output[i].of = s => output[i].tag \notin RowTags)
      BY <1>1, <3>1 DEF Misplaced, s
    <3>4. s = "health" => output[i] = Closing("health")
      BY <2>2, <3>1 DEF Misplaced
    <3> QED BY <3>1, <3>2, <3>3, <3>4 DEF PayloadInv, LeftInv
  <2>7. LeftInv'
    BY <1>1, <1>3, <2>6 DEF LeftInv
  <2>8. ProcessesInv'
    BY <1>1, <1>2, <2>2, <2>4 DEF PayloadInv, ProcessesInv
  <2> QED BY <1>2, <1>4, <2>5, <2>7, <2>8 DEF PayloadInv
<1> QED BY <1>5, <1>6

\* A line in a section: when no marker is lost, it is a line of that section.
LEMMA RowOfSection ==
  ASSUME PayloadInv, Reading, Line.tag \in RowTags, Consumed, UNCHANGED host,
         Markers \subseteq scan.seen \cup Range(output'), scan.in \in PayloadSections
  PROVE  Line.of = scan.in
<1>1. /\ 1 \in DOMAIN output /\ Line = output[1] /\ IsLine(Line, host)
      /\ \A j \in DOMAIN output' :
           \E i \in DOMAIN output : output'[j] = output[i] /\ ~Misplaced(Line, output[i])
  BY ConsumedLine DEF PayloadInv, Reading
<1> DEFINE t == Line.of
<1>2. t \in PayloadSections \cup {Outside}
  <2>1. Line \notin Markers
    BY MarkersDiffer DEF Markers, RowTags
  <2> QED BY <1>1, <2>1 DEF IsLine
<1>3. scan.seen # {}
  BY DEF PayloadInv, ScanInv
<1>4. t \in PayloadSections /\ Closing(t) \notin scan.seen
  BY <1>1, <1>2, <1>3 DEF PayloadInv, LeftInv
<1>5. Opening(t) \in scan.seen
  <2>1. SUFFICES ASSUME Opening(t) \notin scan.seen PROVE FALSE
    OBVIOUS
  <2>2. Opening(t) \in Range(output')
    BY <1>4, <2>1 DEF Markers
  <2>3. PICK j \in DOMAIN output' : output'[j] = Opening(t)
    BY <2>2 DEF Range
  <2>4. ~Misplaced(Line, Opening(t))
    BY <1>1, <2>3
  <2> QED BY <2>4, MarkersDiffer DEF Misplaced
<1> QED BY <1>4, <1>5 DEF PayloadInv, ScanInv

\* A line that is no marker changes neither the section nor what was seen.
LEMMA RowKeeps ==
  ASSUME PayloadInv, Reading, Line.tag \in RowTags, Consumed, Kept,
         verdict' \in {"", "refused"}, DOMAIN scan' = DOMAIN Blank,
         scan'.in = scan.in, scan'.seen = scan.seen, Sequence(scan'.gpus),
         \/ scan'.processes = scan.processes
         \/ /\ scan'.processes = Append(scan.processes, Text)
            /\ scan.in = "processes" /\ ~OwnStatus
  PROVE  PayloadInv'
<1>1. LinesInv /\ output # <<>> /\ UNCHANGED host /\ UNCHANGED cut /\ ~cut
  BY DEF PayloadInv, Kept, Reading, LeftInv
<1>2. /\ LinesInv' /\ 1 \in DOMAIN output /\ Line = output[1] /\ IsLine(Line, host)
      /\ \A j \in DOMAIN output' :
           \E i \in DOMAIN output : output'[j] = output[i] /\ ~Misplaced(Line, output[i])
      /\ Range(output) = {Line} \cup Range(output')
  BY <1>1, ConsumedLine
<1>3. LeftInv'
  BY <1>1, <1>2 DEF PayloadInv, LeftInv
<1>4. VerdictInv'
  BY DEF VerdictInv
<1>5. Line \notin Markers
  BY MarkersDiffer DEF Markers, RowTags
<1>6. CASE scan'.processes = scan.processes
  <2>1. ScanInv'
    BY <1>6 DEF PayloadInv, ScanInv
  <2>2. ProcessesInv'
    BY <1>1, <1>2, <1>6 DEF PayloadInv, ProcessesInv
  <2> QED BY <1>2, <1>3, <1>4, <2>1, <2>2 DEF PayloadInv
<1>7. CASE /\ scan'.processes = Append(scan.processes, Text)
           /\ scan.in = "processes" /\ ~OwnStatus
  <2> DEFINE old == scan.processes
             new == scan'.processes
  <2>1. Sequence(old) /\ Len(old) \in Nat /\ DOMAIN old = 1..Len(old)
    BY SequenceDomain DEF PayloadInv, ScanInv
  <2>2. /\ Sequence(new) /\ DOMAIN new = 1..(Len(old) + 1) /\ new[Len(old) + 1] = Text
        /\ \A i \in 1..Len(old) : new[i] = old[i]
    <3>1. new = Append(old, Text)
      BY <1>7
    <3> HIDE DEF old, new
    <3>2. /\ Sequence(Append(old, Text)) /\ DOMAIN Append(old, Text) = 1..(Len(old) + 1)
          /\ Append(old, Text)[Len(old) + 1] = Text
          /\ \A i \in 1..Len(old) : Append(old, Text)[i] = old[i]
      BY ONLY <2>1, Appended
    <3> QED BY ONLY <3>1, <3>2
  <2> HIDE DEF old, new
  <2>4. ScanInv'
    BY <2>2 DEF PayloadInv, ScanInv, new
  <2>5. ASSUME Markers \subseteq scan'.seen \cup Range(output'), NEW i \in DOMAIN new
        PROVE  new[i] \in Range(host.procs)
    <3>1. CASE i \in 1..Len(old)
      <4>1. Markers \subseteq scan.seen \cup Range(output)
        BY <1>2, <2>5
      <4> QED BY <2>1, <2>2, <3>1, <4>1 DEF PayloadInv, ProcessesInv, old
    <3>2. CASE i = Len(old) + 1
      <4>1. Line.of = "processes"
        BY <1>1, <1>7, <2>5, RowOfSection DEF PayloadSections
      <4>2. Line.tag = "row"
        BY <1>7, <4>1 DEF OwnStatus, RowTags
      <4>3. Line.row \in Range(host.procs)
        BY <1>2, <1>5, <4>1, <4>2 DEF IsLine
      <4> QED BY <2>2, <3>2, <4>2, <4>3 DEF Text
    <3>3. i \in 1..(Len(old) + 1) /\ Len(old) \in Nat
      BY ONLY <2>1, <2>2, <2>5
    <3>4. i \in 1..Len(old) \/ i = Len(old) + 1
      BY ONLY <3>3
    <3> QED BY <3>1, <3>2, <3>4
  <2>6. ProcessesInv'
    BY <1>1, <2>5 DEF ProcessesInv, new
  <2> QED BY <1>2, <1>3, <1>4, <2>4, <2>6 DEF PayloadInv
<1> QED BY <1>6, <1>7

\* So every line of a section is read, or is dropped, or costs the payload.
LEMMA RowsKeep ==
  PayloadInv /\ (GpuLine \/ ProcessLine \/ HealthLine \/ WorkloadLine \/ DiskLine \/ CoreLine)
    => PayloadInv'
<1> SUFFICES ASSUME PayloadInv,
                    GpuLine \/ ProcessLine \/ HealthLine \/ WorkloadLine \/ DiskLine \/ CoreLine
             PROVE  PayloadInv'
  OBVIOUS
<1>1. /\ Reading /\ Line.tag \in RowTags /\ Consumed /\ Kept /\ verdict' \in {"", "refused"}
  BY DEF GpuLine, ProcessLine, HealthLine, WorkloadLine, DiskLine, CoreLine, RowTags, Refuse,
         Reading
<1>2. DOMAIN scan = DOMAIN Blank /\ Sequence(scan.gpus)
  BY DEF PayloadInv, ScanInv
<1>3. CASE GpuLine
  <2>1. Sequence(Append(scan.gpus, Text))
    BY <1>2, Appended
  <2>2. /\ DOMAIN scan' = DOMAIN Blank /\ scan'.in = scan.in /\ scan'.seen = scan.seen
        /\ scan'.gpus \in {scan.gpus, Append(scan.gpus, Text)}
        /\ scan'.processes = scan.processes
    BY <1>2, <1>3 DEF GpuLine, Blank
  <2> QED BY <1>1, <1>2, <2>1, <2>2, RowKeeps
<1>4. CASE ProcessLine
  <2>1. /\ DOMAIN scan' = DOMAIN Blank /\ scan'.in = scan.in /\ scan'.seen = scan.seen
        /\ scan'.gpus = scan.gpus
        /\ \/ scan'.processes = scan.processes
           \/ /\ scan'.processes = Append(scan.processes, Text)
              /\ scan.in = "processes" /\ ~OwnStatus
    BY <1>2, <1>4 DEF ProcessLine, Refuse, Blank
  <2> QED BY <1>1, <1>2, <2>1, RowKeeps
<1>5. CASE HealthLine \/ WorkloadLine \/ DiskLine \/ CoreLine
  <2>1. /\ DOMAIN scan' = DOMAIN Blank /\ scan'.in = scan.in /\ scan'.seen = scan.seen
        /\ scan'.gpus = scan.gpus /\ scan'.processes = scan.processes
    BY <1>2, <1>5 DEF HealthLine, WorkloadLine, DiskLine, CoreLine, Refuse, Blank
  <2> QED BY <1>1, <1>2, <2>1, RowKeeps
<1> QED BY <1>3, <1>4, <1>5

\* A line that is lost, that comes twice, or that is the last to arrive.
LEMMA DamageKeeps == PayloadInv /\ (Lose \/ Repeat \/ Cut) => PayloadInv'
<1> SUFFICES ASSUME PayloadInv, Lose \/ Repeat \/ Cut PROVE PayloadInv'
  OBVIOUS
<1>1. LinesInv /\ output # <<>> /\ UNCHANGED <<host, scan, verdict, answer>> /\ ~cut
  BY DEF PayloadInv, LeftInv, Reading, Lose, Repeat, Cut
<1>2. /\ LinesInv' /\ Range(output') \subseteq Range(output)
      /\ \A j \in DOMAIN output' : \E i \in DOMAIN output : output'[j] = output[i]
  <2>1. CASE Lose
    BY <1>1, <2>1, ConsumedLine DEF Lose
  <2>2. CASE Repeat \/ Cut
    BY <1>1, <2>2, DamagedLines DEF Repeat, Cut
  <2> QED BY <2>1, <2>2
<1>3. cut' => output' = <<>> /\ Closing("health") \notin scan.seen
  <2>1. CASE Lose \/ Repeat
    BY <1>1, <2>1 DEF Lose, Repeat
  <2>2. CASE Cut
    <3>1. cut' => \E i \in DOMAIN output : output[i] \notin scan.seen
      BY <2>2 DEF Cut, Range
    <3> QED BY <2>2, <3>1 DEF Cut, PayloadInv, LeftInv
  <2> QED BY <2>1, <2>2
<1>4. ScanInv' /\ VerdictInv'
  BY <1>1 DEF PayloadInv, ScanInv, VerdictInv, AttributedOnce
<1>5. LeftInv'
  BY <1>1, <1>2, <1>3 DEF PayloadInv, LeftInv
<1>6. ProcessesInv'
  BY <1>1, <1>2 DEF PayloadInv, ProcessesInv
<1> QED BY <1>2, <1>4, <1>5, <1>6 DEF PayloadInv

\* A device of which the processes are told is the only one with its UUID.
LEMMA OwnerIsOne ==
  ASSUME Sequence(scan.gpus), NEW u, Owner(u),
         NEW i \in DOMAIN scan.gpus, NEW j \in DOMAIN scan.gpus,
         scan.gpus[i].uuid = u, scan.gpus[j].uuid = u
  PROVE  i = j
<1> DEFINE O == {k \in DOMAIN scan.gpus : scan.gpus[k].uuid = u}
<1>1. IsFiniteSet(DOMAIN scan.gpus)
  BY SequenceDomain, FS_Interval
<1>2. IsFiniteSet(O) /\ Cardinality(O) = 1
  BY <1>1, FS_Subset DEF Owner
<1>3. i \in O /\ j \in O
  OBVIOUS
<1> HIDE DEF O
<1>4. PICK x : O = {x}
  BY <1>2, FS_Singleton
<1> QED BY <1>3, <1>4

\* A sample is made of a payload in which no section is missing.
LEMMA FinishKeeps == PayloadInv /\ Finish => PayloadInv'
<1> SUFFICES ASSUME PayloadInv, Finish PROVE PayloadInv'
  OBVIOUS
<1>1. UNCHANGED <<host, output, scan, cut>>
  BY DEF Finish
<1>2. LinesInv' /\ ScanInv' /\ LeftInv' /\ ProcessesInv'
  BY <1>1 DEF PayloadInv, LinesInv, ScanInv, LeftInv, ProcessesInv
<1>3. ASSUME verdict' = "sample" PROVE scan.seen = Markers /\ AttributedOnce'
  <2>1. CompleteSections /\ answer' = Sampled
    BY <1>3 DEF Finish
  <2>2. scan.seen = Markers
    BY <2>1 DEF CompleteSections
  <2>3. \A k \in DOMAIN scan.processes : scan.processes[k] \in Range(host.procs)
    BY <2>2 DEF PayloadInv, ProcessesInv
  <2> DEFINE gpus == answer'.gpus
  <2>4. ASSUME NEW i \in DOMAIN gpus
        PROVE  /\ i \in DOMAIN scan.gpus /\ gpus[i].uuid = scan.gpus[i].uuid
               /\ gpus[i].processes = ProcessesFor(scan.gpus[i].uuid)
    <3>1. gpus = IF ~GpusSound THEN <<>>
                 ELSE [k \in DOMAIN scan.gpus |->
                         [index |-> scan.gpus[k].index, uuid |-> scan.gpus[k].uuid,
                          processes |-> ProcessesFor(scan.gpus[k].uuid),
                          health |-> scan.gpus[k].uuid \in InlineHealth \cup SectionHealth]]
      BY <2>1 DEF Sampled
    <3>2. CASE ~GpusSound
      BY <3>1, <3>2, NoLines
    <3>3. CASE GpusSound
      BY <3>1, <3>3
    <3> QED BY <3>2, <3>3
  <2> HIDE DEF gpus
  <2>5. ASSUME NEW u, NEW p \in Range(ProcessesFor(u))
        PROVE  Owner(u) /\ \E r \in Range(host.procs) : r.pid = p.pid /\ r.uuid = u
    <3> DEFINE mine == {k \in DOMAIN scan.processes : scan.processes[k].uuid = u}
               known(k) == /\ WorkloadsSound
                           /\ \E w \in DOMAIN scan.workloads :
                                scan.workloads[w].pid = scan.processes[k].pid
               f == [k \in mine |-> [pid |-> scan.processes[k].pid, known |-> known(k)]]
    <3>1. ProcessesFor(u) # <<>>
      BY <2>5, NoLines DEF Range
    <3>2. ProcessesFor(u) = f /\ Owner(u)
      BY <3>1 DEF ProcessesFor
    <3>3. PICK k \in mine : p = f[k]
      BY <2>5, <3>2 DEF Range
    <3>4. p.pid = scan.processes[k].pid
      BY <3>3
    <3> QED BY <2>3, <3>2, <3>4
  <2>6. ASSUME NEW u, ProcessesFor(u) # <<>> PROVE Owner(u)
    BY <2>6 DEF ProcessesFor
  <2>7. ASSUME NEW i \in DOMAIN gpus, NEW j \in DOMAIN gpus,
               gpus[i].processes # <<>>, gpus[i].uuid = gpus[j].uuid
        PROVE  i = j
    <3>1. Owner(scan.gpus[i].uuid)
      BY <2>4, <2>6, <2>7
    <3>2. Sequence(scan.gpus)
      BY DEF PayloadInv, ScanInv
    <3> QED BY <2>4, <2>7, <3>1, <3>2, OwnerIsOne
  <2>8. ASSUME NEW i \in DOMAIN gpus, NEW p \in Range(gpus[i].processes)
        PROVE  \E r \in Range(host.procs) : r.pid = p.pid /\ r.uuid = gpus[i].uuid
    BY <2>4, <2>5, <2>8
  <2>9. AttributedOnce'
    BY <1>1, <2>7, <2>8 DEF AttributedOnce, gpus
  <2> QED BY <2>2, <2>9
<1>4. VerdictInv'
  BY <1>1, <1>3 DEF VerdictInv
<1> QED BY <1>2, <1>4 DEF PayloadInv

\* Every step keeps the invariant.
LEMMA PayloadInvNext == PayloadInv /\ [PayloadNext]_payloadVars => PayloadInv'
<1>1. PayloadInv /\ UNCHANGED payloadVars => PayloadInv'
  BY DEF payloadVars, PayloadInv, LinesInv, ScanInv, LeftInv, ProcessesInv, VerdictInv,
         AttributedOnce
<1> QED BY <1>1, OpenKeeps, CloseKeeps, RowsKeep, DamageKeeps, FinishKeeps DEF PayloadNext

\* Whatever the machine, its tools and the connection: a process is shown on the one
\* device that its row names, and an output that ended early is no sample
\* (_parse_resource_payload).
THEOREM SamplesAreTrue == PayloadSpec => []NothingInvented
<1>1. PayloadInv => NothingInvented
  <2>1. PayloadInv => AttributedOnce
    BY DEF PayloadInv, VerdictInv, AttributedOnce
  <2>2. PayloadInv => CutRefused
    BY DEF PayloadInv, VerdictInv, LeftInv, CutRefused, Markers, PayloadSections
  <2> QED BY <2>1, <2>2 DEF NothingInvented
<1> QED BY <1>1, PayloadInvInit, PayloadInvNext, PTL DEF PayloadSpec

-------------------------------------------------------------------------------
(* Where the lines of a machine are in its output *)

\* the lines between the markers of a section
Content(s, q, m) ==
  CASE s = "disks" -> Rows("disks", m.disks)
    [] s = "gpus" -> GpuLines(m)
    [] s = "processes" -> ProcessLines(q, m)
    [] s = "workloads" -> WorkloadLines(q, m)
    [] s = "health" -> HealthLines(m)

\* the lines before a section, and those up to its end
Start(s, q, m) ==
  LET size(u) == Len(Content(u, q, m)) + 2
      core == Len(SystemLines(m))
  IN CASE s = "disks" -> core
       [] s = "gpus" -> core + size("disks")
       [] s = "processes" -> core + size("disks") + size("gpus")
       [] s = "workloads" -> core + size("disks") + size("gpus") + size("processes")
       [] s = "health" -> core + size("disks") + size("gpus") + size("processes")
                            + size("workloads")
Stop(s, q, m) == Start(s, q, m) + Len(Content(s, q, m)) + 2

\* Section s with these lines comes after n others in script.
Placed(script, n, s, lines) ==
  /\ n + Len(lines) + 2 <= Len(script)
  /\ script[n + 1] = Opening(s) /\ script[n + Len(lines) + 2] = Closing(s)
  /\ \A k \in 1..Len(lines) : script[n + 1 + k] = lines[k]

\* A section stays where it is when others follow, and is where it was added.
LEMMA PlacedBefore ==
  ASSUME NEW a, NEW b, Sequence(a), Sequence(b), NEW n \in Nat, NEW s, NEW lines,
         Sequence(lines), Placed(a, n, s, lines)
  PROVE  Placed(a \o b, n, s, lines)
<1>1. Len(a) \in Nat /\ Len(b) \in Nat /\ Len(lines) \in Nat
  BY SequenceDomain
<1> DEFINE c == a \o b
<1>2. /\ Sequence(c) /\ DOMAIN c = 1..(Len(a) + Len(b))
      /\ \A i \in 1..(Len(a) + Len(b)) :
           c[i] = IF i <= Len(a) THEN a[i] ELSE b[i - Len(a)]
  BY Concatenated
<1> HIDE DEF c
<1>3. Len(c) = Len(a) + Len(b)
  BY <1>1, <1>2, SequenceDomain
<1>4. \A i \in 1..Len(a) : c[i] = a[i]
  BY <1>1, <1>2
<1>5. Placed(c, n, s, lines)
  <2>1. n + Len(lines) + 2 <= Len(a)
    BY DEF Placed
  <2>2. /\ n + 1 \in 1..Len(a) /\ n + Len(lines) + 2 \in 1..Len(a)
        /\ \A k \in 1..Len(lines) : n + 1 + k \in 1..Len(a)
    BY <1>1, <2>1
  <2>3. n + Len(lines) + 2 <= Len(c)
    BY <1>1, <1>3, <2>1
  <2> QED BY <1>4, <2>2, <2>3 DEF Placed
<1> QED BY <1>5 DEF c

\* A section that the script prints next is after the lines that are there.
LEMMA PlacedAfter ==
  ASSUME NEW a, Sequence(a), NEW s, NEW lines, Sequence(lines)
  PROVE  /\ Placed(a \o Section(s, lines), Len(a), s, lines)
         /\ Sequence(a \o Section(s, lines))
         /\ Len(a \o Section(s, lines)) = Len(a) + Len(lines) + 2
         /\ \A i \in 1..Len(a) : (a \o Section(s, lines))[i] = a[i]
<1> DEFINE b == Section(s, lines)
           c == a \o b
<1>1. /\ Sequence(b) /\ Len(b) = Len(lines) + 2
      /\ b[1] = Opening(s) /\ b[Len(lines) + 2] = Closing(s)
      /\ \A k \in 1..Len(lines) : b[k + 1] = lines[k]
  BY SectionLines
<1> HIDE DEF b
<1>2. Len(a) \in Nat /\ Len(b) \in Nat /\ Len(lines) \in Nat
  BY <1>1, SequenceDomain
<1>3. /\ Sequence(c) /\ DOMAIN c = 1..(Len(a) + Len(b))
      /\ \A i \in 1..(Len(a) + Len(b)) :
           c[i] = IF i <= Len(a) THEN a[i] ELSE b[i - Len(a)]
  BY <1>1, Concatenated
<1> HIDE DEF c
<1>4. Len(c) = Len(a) + Len(b)
  BY <1>2, <1>3, SequenceDomain
<1>5. \A i \in 1..Len(a) : c[i] = a[i]
  BY <1>2, <1>3
<1>6. \A i \in 1..Len(b) : c[Len(a) + i] = b[i]
  BY <1>2, <1>3
<1>7. Placed(c, Len(a), s, lines)
  <2>1. c[Len(a) + 1] = b[1] /\ c[Len(a) + (Len(lines) + 2)] = b[Len(lines) + 2]
    BY <1>1, <1>2, <1>6
  <2>2. \A k \in 1..Len(lines) : c[Len(a) + (k + 1)] = b[k + 1]
    BY <1>1, <1>2, <1>6
  <2>3. /\ Len(a) + (Len(lines) + 2) = Len(a) + Len(lines) + 2
        /\ \A k \in 1..Len(lines) : Len(a) + (k + 1) = Len(a) + 1 + k
    BY <1>2
  <2> QED BY <1>1, <1>2, <1>4, <2>1, <2>2, <2>3 DEF Placed
<1> QED BY <1>1, <1>2, <1>3, <1>4, <1>5, <1>7 DEF c, b

\* More sections behind the ones that are there.
LEMMA PlacedMore ==
  ASSUME NEW a, Sequence(a), NEW u, NEW more, Sequence(more)
  PROVE  \A n \in Nat : \A s, lines :
           Sequence(lines) /\ Placed(a, n, s, lines) => Placed(a \o Section(u, more), n, s, lines)
<1>1. Sequence(Section(u, more))
  BY SectionLines
<1> QED BY <1>1, PlacedBefore

\* Every section is where the lines of the ones before it end.
LEMMA ScriptPlaced ==
  ASSUME NEW m \in Machines, NEW q
  PROVE  /\ Sequence(Script(q, m)) /\ Len(Script(q, m)) = Stop("health", q, m)
         /\ Sequence(SystemLines(m))
         /\ \A k \in 1..Len(SystemLines(m)) : Script(q, m)[k] = SystemLines(m)[k]
         /\ \A s \in PayloadSections :
              /\ Start(s, q, m) \in Nat /\ Sequence(Content(s, q, m))
              /\ Placed(Script(q, m), Start(s, q, m), s, Content(s, q, m))
<1> DEFINE a == SystemLines(m)
           b == Content("disks", q, m)
           c == Content("gpus", q, m)
           d == Content("processes", q, m)
           e == Content("workloads", q, m)
           f == Content("health", q, m)
           t1 == a \o Section("disks", b)
           t2 == t1 \o Section("gpus", c)
           t3 == t2 \o Section("processes", d)
           t4 == t3 \o Section("workloads", e)
           t5 == t4 \o Section("health", f)
           o1 == Len(a)
           o2 == o1 + (Len(b) + 2)
           o3 == o1 + (Len(b) + 2) + (Len(c) + 2)
           o4 == o1 + (Len(b) + 2) + (Len(c) + 2) + (Len(d) + 2)
           o5 == o1 + (Len(b) + 2) + (Len(c) + 2) + (Len(d) + 2) + (Len(e) + 2)
<1>1. /\ Sequence(a) /\ Sequence(b) /\ Sequence(c) /\ Sequence(d) /\ Sequence(e)
      /\ Sequence(f)
  BY BodiesPrinted DEF Body, Content
<1>2. Script(q, m) = t5
  BY DEF Script, Content
<1>3. /\ Start("disks", q, m) = o1 /\ Start("gpus", q, m) = o2
      /\ Start("processes", q, m) = o3 /\ Start("workloads", q, m) = o4
      /\ Start("health", q, m) = o5
  BY DEF Start
<1> HIDE DEF a, b, c, d, e, f
<1>4. /\ Len(a) \in Nat /\ Len(b) \in Nat /\ Len(c) \in Nat /\ Len(d) \in Nat
      /\ Len(e) \in Nat /\ Len(f) \in Nat
  BY <1>1, SequenceDomain
<1>5. o1 \in Nat /\ o2 \in Nat /\ o3 \in Nat /\ o4 \in Nat /\ o5 \in Nat
  BY <1>4
<1> HIDE DEF t1, t2, t3, t4, t5, o1, o2, o3, o4, o5
<1>6. /\ Placed(t1, Len(a), "disks", b) /\ Sequence(t1) /\ Len(t1) = Len(a) + Len(b) + 2
      /\ \A i \in 1..Len(a) : t1[i] = a[i]
  BY ONLY <1>1, PlacedAfter DEF t1
<1>7. Sequence(t1) /\ Len(t1) = o2 /\ Placed(t1, o1, "disks", b)
  BY ONLY <1>4, <1>6 DEF o1, o2
<1>8. /\ Placed(t2, Len(t1), "gpus", c) /\ Sequence(t2) /\ Len(t2) = Len(t1) + Len(c) + 2
      /\ \A i \in 1..Len(t1) : t2[i] = t1[i]
  <2>1. Sequence(t1) /\ Sequence(c)
    BY ONLY <1>1, <1>7
  <2>2. t2 = t1 \o Section("gpus", c)
    BY ONLY DEF t2
  <2> QED BY ONLY <2>1, <2>2, PlacedAfter
<1>9. Sequence(t2) /\ Len(t2) = o3 /\ Placed(t2, o2, "gpus", c)
  BY ONLY <1>4, <1>7, <1>8 DEF o1, o2, o3
<1>10. Placed(t2, o1, "disks", b)
  BY ONLY <1>1, <1>5, <1>7, PlacedMore DEF t2
<1>11. /\ Placed(t3, Len(t2), "processes", d) /\ Sequence(t3) /\ Len(t3) = Len(t2) + Len(d) + 2
       /\ \A i \in 1..Len(t2) : t3[i] = t2[i]
  <2>1. Sequence(t2) /\ Sequence(d)
    BY ONLY <1>1, <1>9
  <2>2. t3 = t2 \o Section("processes", d)
    BY ONLY DEF t3
  <2> QED BY ONLY <2>1, <2>2, PlacedAfter
<1>12. Sequence(t3) /\ Len(t3) = o4 /\ Placed(t3, o3, "processes", d)
  BY ONLY <1>4, <1>9, <1>11 DEF o1, o3, o4
<1>13. Placed(t3, o1, "disks", b) /\ Placed(t3, o2, "gpus", c)
  BY ONLY <1>1, <1>5, <1>9, <1>10, PlacedMore DEF t3
<1>14. /\ Placed(t4, Len(t3), "workloads", e) /\ Sequence(t4)
       /\ Len(t4) = Len(t3) + Len(e) + 2 /\ \A i \in 1..Len(t3) : t4[i] = t3[i]
  <2>1. Sequence(t3) /\ Sequence(e)
    BY ONLY <1>1, <1>12
  <2>2. t4 = t3 \o Section("workloads", e)
    BY ONLY DEF t4
  <2> QED BY ONLY <2>1, <2>2, PlacedAfter
<1>15. Sequence(t4) /\ Len(t4) = o5 /\ Placed(t4, o4, "workloads", e)
  BY ONLY <1>4, <1>12, <1>14 DEF o1, o4, o5
<1>16. Placed(t4, o1, "disks", b) /\ Placed(t4, o2, "gpus", c) /\ Placed(t4, o3, "processes", d)
  BY ONLY <1>1, <1>5, <1>12, <1>13, PlacedMore DEF t4
<1>17. /\ Placed(t5, Len(t4), "health", f) /\ Sequence(t5)
       /\ Len(t5) = Len(t4) + Len(f) + 2 /\ \A i \in 1..Len(t4) : t5[i] = t4[i]
  <2>1. Sequence(t4) /\ Sequence(f)
    BY ONLY <1>1, <1>15
  <2>2. t5 = t4 \o Section("health", f)
    BY ONLY DEF t5
  <2> QED BY ONLY <2>1, <2>2, PlacedAfter
<1>21. Placed(t5, o5, "health", f) /\ Len(t5) = o5 + Len(f) + 2
  BY ONLY <1>15, <1>17
<1>22. /\ Placed(t5, o1, "disks", b) /\ Placed(t5, o2, "gpus", c)
        /\ Placed(t5, o3, "processes", d) /\ Placed(t5, o4, "workloads", e)
  BY ONLY <1>1, <1>5, <1>15, <1>16, PlacedMore DEF t5
<1>18. \A i \in 1..Len(a) : t5[i] = a[i]
  <2>1. \A i \in 1..Len(a) :
          i \in 1..Len(t1) /\ i \in 1..Len(t2) /\ i \in 1..Len(t3) /\ i \in 1..Len(t4)
    BY ONLY <1>4, <1>7, <1>9, <1>12, <1>15 DEF o1, o2, o3, o4, o5
  <2> QED BY ONLY <2>1, <1>6, <1>8, <1>11, <1>14, <1>17
<1>19. Len(t5) = Stop("health", q, m)
  BY <1>3, <1>21 DEF Stop, f
<1>20. \A s \in PayloadSections :
         /\ Start(s, q, m) \in Nat /\ Sequence(Content(s, q, m))
         /\ Placed(t5, Start(s, q, m), s, Content(s, q, m))
  BY ONLY <1>1, <1>3, <1>5, <1>21, <1>22 DEF PayloadSections, a, b, c, d, e, f
<1> QED BY <1>1, <1>2, <1>17, <1>18, <1>19, <1>20 DEF a

\* Sections do not overlap, and every line is of one of them or of the core.
LEMMA SectionsApart ==
  ASSUME NEW m \in Machines, NEW q
  PROVE  /\ Len(SystemLines(m)) \in Nat
         /\ \A s \in PayloadSections :
              /\ Start(s, q, m) \in Nat /\ Len(Content(s, q, m)) \in Nat
              /\ Stop(s, q, m) \in Nat
              /\ Stop(s, q, m) = Start(s, q, m) + Len(Content(s, q, m)) + 2
              /\ Len(SystemLines(m)) <= Start(s, q, m)
              /\ Stop(s, q, m) <= Len(Script(q, m))
         /\ \A s, u \in PayloadSections :
              s # u => Stop(s, q, m) <= Start(u, q, m) \/ Stop(u, q, m) <= Start(s, q, m)
         /\ \A p \in 1..Len(Script(q, m)) :
              \/ p <= Len(SystemLines(m))
              \/ \E s \in PayloadSections : Start(s, q, m) < p /\ p <= Stop(s, q, m)
<1> DEFINE len(s) == Len(Content(s, q, m))
           core == Len(SystemLines(m))
           start(s) == Start(s, q, m)
           stop(s) == Stop(s, q, m)
<1>1. /\ core \in Nat /\ \A s \in PayloadSections : len(s) \in Nat
      /\ Len(Script(q, m)) = stop("health")
  BY ScriptPlaced, SequenceDomain
<1>2. /\ start("disks") = core
      /\ start("gpus") = core + (len("disks") + 2)
      /\ start("processes") = core + (len("disks") + 2) + (len("gpus") + 2)
      /\ start("workloads") = core + (len("disks") + 2) + (len("gpus") + 2) + (len("processes") + 2)
      /\ start("health") = core + (len("disks") + 2) + (len("gpus") + 2) + (len("processes") + 2)
                             + (len("workloads") + 2)
  BY DEF Start
<1>3. \A s : stop(s) = start(s) + len(s) + 2
  BY DEF Stop
<1> HIDE DEF len, core, start, stop
<1>4. /\ core \in Nat /\ start("disks") = core /\ start("gpus") = stop("disks")
      /\ start("processes") = stop("gpus") /\ start("workloads") = stop("processes")
      /\ start("health") = stop("workloads")
      /\ \A s \in PayloadSections : start(s) \in Nat /\ stop(s) \in Nat /\ start(s) < stop(s)
  <2>1. /\ len("disks") \in Nat /\ len("gpus") \in Nat /\ len("processes") \in Nat
        /\ len("workloads") \in Nat /\ len("health") \in Nat /\ core \in Nat
    BY ONLY <1>1 DEF PayloadSections
  <2>2. /\ start("disks") \in Nat /\ start("gpus") \in Nat /\ start("processes") \in Nat
        /\ start("workloads") \in Nat /\ start("health") \in Nat
    BY ONLY <2>1, <1>2
  <2>3. /\ stop("disks") = start("disks") + len("disks") + 2
        /\ stop("gpus") = start("gpus") + len("gpus") + 2
        /\ stop("processes") = start("processes") + len("processes") + 2
        /\ stop("workloads") = start("workloads") + len("workloads") + 2
        /\ stop("health") = start("health") + len("health") + 2
    BY ONLY <1>3
  <2>4. /\ start("gpus") = stop("disks")
        /\ start("processes") = stop("gpus") /\ start("workloads") = stop("processes")
        /\ start("health") = stop("workloads")
    BY ONLY <2>1, <2>2, <2>3, <1>2
  <2>5. \A s \in PayloadSections : start(s) \in Nat /\ stop(s) \in Nat /\ start(s) < stop(s)
    BY ONLY <2>1, <2>2, <2>3 DEF PayloadSections
  <2> QED BY <2>1, <2>4, <2>5, <1>2
<1>5. \A s, u \in PayloadSections : s # u => stop(s) <= start(u) \/ stop(u) <= start(s)
  BY <1>4 DEF PayloadSections
<1>6. \A s \in PayloadSections : core <= start(s) /\ stop(s) <= stop("health")
  BY <1>4 DEF PayloadSections
<1>7. \A p \in 1..stop("health") :
        p <= core \/ \E s \in PayloadSections : start(s) < p /\ p <= stop(s)
  BY <1>4 DEF PayloadSections
<1> QED BY <1>1, <1>3, <1>4, <1>5, <1>6, <1>7 DEF len, core, start, stop

-------------------------------------------------------------------------------
(* How far the parser is in the script *)

\* the line after the first p of the script is one of the rows of section s
Within(s, q, m, p) == Start(s, q, m) < p /\ p + 1 < Stop(s, q, m)

\* the rows of section s among the first p lines of the script
ReadOf(s, q, m, p) ==
  IF p <= Start(s, q, m) THEN 0
  ELSE IF p >= Stop(s, q, m) THEN Len(Content(s, q, m))
  ELSE p - Start(s, q, m) - 1

\* a section that tells a status, or none
Says(status) == status # ""

\* These rows are what section s told in the first p lines; a status was all of it.
Told(s, rows, status, q, m, p) ==
  /\ Sequence(rows)
  /\ \/ /\ ~Says(status) /\ Len(rows) = ReadOf(s, q, m, p)
        /\ \A i \in 1..Len(rows) : Content(s, q, m)[i] = Row(s, rows[i])
     \/ /\ Says(status) /\ rows = <<>> /\ ReadOf(s, q, m, p) > 0
        /\ Content(s, q, m) = <<StatusRow(s, status)>>

\* the markers among the first p lines of the script were seen
SeenTo(seen, q, m, p) ==
  \A s \in PayloadSections :
    /\ Opening(s) \in seen <=> Start(s, q, m) < p
    /\ Closing(s) \in seen <=> Stop(s, q, m) <= p

\* and the core values are those of the awk pass
CoreTo(core, m, p) ==
  /\ core \subseteq {"HOST", "TOTALS"}
  /\ p >= 1 => "HOST" \in core
  /\ p >= Len(SystemLines(m)) => "TOTALS" \in core

\* what the parser sc has of the sections is what the first p lines say of them
Reported(sc, q, m, p) ==
  /\ Sequence(sc.disks) /\ Len(sc.disks) <= ReadOf("disks", q, m, p)
  /\ Told("gpus", sc.gpus, sc.gpuMessage, q, m, p)
  /\ Told("processes", sc.processes, sc.status, q, m, p)
  /\ Told("workloads", sc.workloads, "", q, m, p)
  /\ sc.health = <<>>

\* The parser sc read the first p lines of the script.
ReadTo(sc, q, m, p) ==
  SeenTo(sc.seen, q, m, p) /\ CoreTo(sc.core, m, p) /\ Reported(sc, q, m, p)

\* all of the script but its first p lines
LeftAfter(o, script, p) ==
  /\ p \in Nat /\ Sequence(o) /\ p + Len(o) = Len(script)
  /\ \A i \in 1..Len(o) : o[i] = script[p + i]

\* Without a fault, the parser is somewhere in the script and refused none of it.
ReadInv ==
  /\ sample \in Samples /\ faults \in Nat
  /\ faults = 0 /\ host.core /\ Len(host.disks) <= MaxDisks =>
       /\ verdict # "refused"
       /\ \E p \in 0..Len(Script(sample, host)) :
            LeftAfter(output, Script(sample, host), p) /\ ReadTo(scan, sample, host, p)

\* Nothing before or after a sequence leaves it.
LEMMA NothingAdded ==
  ASSUME NEW a, Sequence(a) PROVE a \o <<>> = a /\ <<>> \o a = a
BY ConcatEmptySeq DEF Sequence

\* The rows of a section are as many as there were, one after the other.
LEMMA RowsAre ==
  ASSUME NEW s, NEW rows, Sequence(rows)
  PROVE  /\ Sequence(Rows(s, rows)) /\ Len(Rows(s, rows)) = Len(rows)
         /\ \A i \in 1..Len(rows) : Rows(s, rows)[i] = Row(s, rows[i])
<1> DEFINE f == Rows(s, rows)
<1>1. f = [i \in 1..Len(rows) |-> Row(s, rows[i])] /\ Len(rows) \in Nat
  BY SequenceDomain DEF Rows
<1>2. \A i \in 1..Len(rows) : f[i] = Row(s, rows[i])
  BY <1>1
<1>3. f = [i \in 1..Len(rows) |-> f[i]] /\ DOMAIN f = 1..Len(rows)
  BY <1>1
<1> HIDE DEF f
<1>4. Sequence(f)
  BY <1>1, <1>3, Mapped
<1>5. Len(f) = Len(rows)
  BY <1>1, <1>3, <1>4, SequenceDomain
<1> QED BY <1>2, <1>4, <1>5 DEF f

\* A section tells rows, or one status (the queries of the script).
LEMMA ContentKinds ==
  ASSUME NEW m \in Machines, NEW q
  PROVE  /\ \A s \in PayloadSections :
              \/ \E rows : Sequence(rows) /\ Content(s, q, m) = Rows(s, rows)
              \/ \E v : Says(v) /\ Content(s, q, m) = <<StatusRow(s, v)>>
         /\ Content("disks", q, m) = Rows("disks", m.disks) /\ Sequence(m.disks)
         /\ Content("health", q, m) \in {<<>>, <<StatusRow("health", "error")>>}
         /\ \E rows : Sequence(rows) /\ Content("workloads", q, m) = Rows("workloads", rows)
<1>1. /\ Sequence(m.gpus) /\ Sequence(m.procs) /\ Sequence(m.disks)
      /\ m.smi \in {"absent", "combined", "fallback", "fails"}
  BY MachinesAssumption DEF Sequence
<1>2. \A s : <<>> = Rows(s, <<>>)
  BY NoLines DEF Rows
<1>7. Says("unavailable") /\ Says("error") /\ Says("skipped")
  BY DEF Says
<1>3. /\ Content("disks", q, m) = Rows("disks", m.disks)
      /\ Content("health", q, m) \in {<<>>, <<StatusRow("health", "error")>>}
  BY DEF Content, HealthLines
<1>4. \/ \E rows : Sequence(rows) /\ Content("gpus", q, m) = Rows("gpus", rows)
      \/ \E v : Says(v) /\ Content("gpus", q, m) = <<StatusRow("gpus", v)>>
  <2> DEFINE f == [i \in 1..Len(m.gpus) |-> [m.gpus[i] EXCEPT !.health = "none"]]
  <2>1. Sequence(f)
    <3>1. f = [i \in 1..Len(m.gpus) |-> f[i]]
      OBVIOUS
    <3>2. Len(m.gpus) \in Nat
      BY <1>1, SequenceDomain
    <3> HIDE DEF f
    <3> QED BY <3>1, <3>2, Mapped
  <2>2. Content("gpus", q, m) \in {<<StatusRow("gpus", "unavailable")>>, Rows("gpus", m.gpus),
                                   Rows("gpus", f), <<StatusRow("gpus", "error")>>}
    BY <1>1 DEF Content, GpuLines
  <2> HIDE DEF f
  <2> QED BY <1>1, <1>7, <2>1, <2>2
<1>5. \/ \E rows : Sequence(rows) /\ Content("processes", q, m) = Rows("processes", rows)
      \/ \E v : Says(v) /\ Content("processes", q, m) = <<StatusRow("processes", v)>>
  <2> DEFINE rows == Rows("processes", m.procs)
             error == <<StatusRow("processes", "error")>>
  <2>1. rows \o <<>> = rows /\ <<>> \o <<>> = <<>> /\ <<>> \o error = error
    BY <1>1, RowsAre, NoLines, OneLine, NothingAdded
  <2>2. ProcessLines(q, m) \in {<<StatusRow("processes", "skipped")>>, <<>>, rows \o <<>>,
                                <<>> \o <<>>, <<>> \o error}
    BY DEF ProcessLines, Answered
  <2>3. ProcessLines(q, m) \in {<<StatusRow("processes", "skipped")>>, <<>>, rows, error}
    BY <2>1, <2>2
  <2>4. Content("processes", q, m) = ProcessLines(q, m)
    BY DEF Content
  <2> QED BY <1>1, <1>2, <1>7, <2>3, <2>4, NoLines
<1>6. \E rows : Sequence(rows) /\ Content("workloads", q, m) = Rows("workloads", rows)
  <2> DEFINE pids == SetToSeq({m.procs[i].pid : i \in DOMAIN m.procs} \cap m.readable)
             f == [i \in 1..Len(pids) |-> [pid |-> pids[i], sound |-> pids[i] \notin m.odd]]
  <2>1. Sequence(pids)
    <3>1. IsFiniteSet({m.procs[i].pid : i \in DOMAIN m.procs})
      BY <1>1, FinitelyManyPids
    <3>2. IsFiniteSet({m.procs[i].pid : i \in DOMAIN m.procs} \cap m.readable)
      BY <3>1, FS_Subset
    <3> QED BY <3>2, Listed
  <2>2. Sequence(f)
    <3>1. f = [i \in 1..Len(pids) |-> f[i]]
      OBVIOUS
    <3>2. Len(pids) \in Nat
      BY <2>1, SequenceDomain
    <3> HIDE DEF f, pids
    <3> QED BY <3>1, <3>2, Mapped
  <2>3. Content("workloads", q, m) \in {<<>>, Rows("workloads", f)}
    BY DEF Content, WorkloadLines
  <2> HIDE DEF f
  <2> QED BY <1>2, <2>2, <2>3, NoLines
<1>8. Sequence(<<>>) /\ Sequence(m.disks)
  BY <1>1, NoLines
<1> QED BY <1>2, <1>3, <1>4, <1>5, <1>6, <1>7, <1>8 DEF PayloadSections

\* So a line of a section is a row of it, or the one status that it is.
LEMMA ContentLine ==
  ASSUME NEW m \in Machines, NEW q, NEW s \in PayloadSections
  PROVE  \A i \in 1..Len(Content(s, q, m)) :
           /\ Content(s, q, m)[i].of = s /\ Content(s, q, m)[i].tag \in RowTags
           /\ Content(s, q, m)[i].tag = "row" =>
                Content(s, q, m)[i] = Row(s, Content(s, q, m)[i].row)
           /\ Content(s, q, m)[i].tag = "status" =>
                /\ Content(s, q, m) = <<StatusRow(s, Content(s, q, m)[i].says)>>
                /\ Says(Content(s, q, m)[i].says)
<1> DEFINE c == Content(s, q, m)
<1> SUFFICES ASSUME NEW i \in 1..Len(c)
             PROVE  /\ c[i].of = s /\ c[i].tag \in RowTags
                    /\ c[i].tag = "row" => c[i] = Row(s, c[i].row)
                    /\ c[i].tag = "status" => /\ c = <<StatusRow(s, c[i].says)>>
                                              /\ Says(c[i].says)
  OBVIOUS
<1>1. CASE \E rows : Sequence(rows) /\ c = Rows(s, rows)
  <2>1. PICK rows : Sequence(rows) /\ c = Rows(s, rows)
    BY <1>1
  <2>2. c[i] = Row(s, rows[i])
    BY <2>1, RowsAre
  <2>3. c[i].of = s /\ c[i].tag = "row" /\ c[i] = Row(s, c[i].row)
    BY <2>2 DEF Row
  <2> QED BY <2>3 DEF RowTags
<1>2. CASE \E v : Says(v) /\ c = <<StatusRow(s, v)>>
  <2>1. PICK v : Says(v) /\ c = <<StatusRow(s, v)>>
    BY <1>2
  <2>2. Len(c) = 1 /\ c[1] = StatusRow(s, v)
    BY <2>1, OneLine
  <2>3. i = 1
    <3> HIDE DEF c
    <3>1. i \in 1..Len(c)
      BY DEF c
    <3> QED BY <2>2, <3>1
  <2>4. c[i].of = s /\ c[i].tag = "status" /\ c[i].says = v
    BY <2>2, <2>3 DEF StatusRow
  <2> QED BY <2>1, <2>3, <2>4 DEF RowTags
<1> QED BY <1>1, <1>2, ContentKinds

\* Where the parser is in the rows of a section.
LEMMA ReadOfNext ==
  ASSUME NEW m \in Machines, NEW q, NEW s \in PayloadSections, NEW p \in Nat
  PROVE  /\ ~Within(s, q, m, p) => ReadOf(s, q, m, p + 1) = ReadOf(s, q, m, p)
         /\ Within(s, q, m, p) => /\ ReadOf(s, q, m, p + 1) = ReadOf(s, q, m, p) + 1
                                  /\ ReadOf(s, q, m, p) + 1 \in 1..Len(Content(s, q, m))
                                  /\ ReadOf(s, q, m, p) + 1 = p - Start(s, q, m)
         /\ ReadOf(s, q, m, p) \in 0..Len(Content(s, q, m))
         /\ p >= Stop(s, q, m) => ReadOf(s, q, m, p) = Len(Content(s, q, m))
         /\ ReadOf(s, q, m, 0) = 0
<1> DEFINE a == Start(s, q, m)
           b == Stop(s, q, m)
           n == Len(Content(s, q, m))
<1>1. a \in Nat /\ n \in Nat /\ b = a + n + 2
  BY SectionsApart
<1> HIDE DEF a, b, n
<1>2. \A r \in Nat : ReadOf(s, q, m, r) = IF r <= a THEN 0 ELSE IF r >= b THEN n ELSE r - a - 1
  BY DEF ReadOf, a, b, n
<1>3. Within(s, q, m, p) <=> a < p /\ p + 1 < b
  BY DEF Within, a, b
<1>4. CASE Within(s, q, m, p)
  BY <1>1, <1>2, <1>3, <1>4 DEF a, b, n
<1>5. CASE ~Within(s, q, m, p)
  BY <1>1, <1>2, <1>3, <1>5 DEF a, b, n
<1> QED BY <1>4, <1>5

\* Every line of the script is one of the awk pass, a marker, or a row of a section.
LEMMA LineAt ==
  ASSUME NEW m \in Machines, NEW q, NEW p \in Nat, p < Len(Script(q, m))
  PROVE  LET l == Script(q, m)[p + 1] IN
         \/ p < Len(SystemLines(m)) /\ l = SystemLines(m)[p + 1]
         \/ \E s \in PayloadSections :
              \/ p = Start(s, q, m) /\ l = Opening(s)
              \/ p + 1 = Stop(s, q, m) /\ l = Closing(s)
              \/ Within(s, q, m, p) /\ l = Content(s, q, m)[p - Start(s, q, m)]
<1> DEFINE l == Script(q, m)[p + 1]
<1>1. /\ Sequence(Script(q, m)) /\ Len(SystemLines(m)) \in Nat
      /\ \A k \in 1..Len(SystemLines(m)) : Script(q, m)[k] = SystemLines(m)[k]
  BY ScriptPlaced, SectionsApart
<1>2. p + 1 \in 1..Len(Script(q, m))
  BY <1>1, SequenceDomain
<1>3. \/ p + 1 <= Len(SystemLines(m))
      \/ \E s \in PayloadSections : Start(s, q, m) < p + 1 /\ p + 1 <= Stop(s, q, m)
  BY <1>2, SectionsApart
<1>4. CASE p + 1 <= Len(SystemLines(m))
  BY <1>1, <1>4
<1>5. CASE \E s \in PayloadSections : Start(s, q, m) < p + 1 /\ p + 1 <= Stop(s, q, m)
  <2>1. PICK s \in PayloadSections : Start(s, q, m) < p + 1 /\ p + 1 <= Stop(s, q, m)
    BY <1>5
  <2> DEFINE a == Start(s, q, m)
             c == Content(s, q, m)
             n == Len(c)
  <2>2. a \in Nat /\ n \in Nat /\ Stop(s, q, m) = a + n + 2
    BY SectionsApart
  <2>3. Placed(Script(q, m), a, s, c)
    BY ScriptPlaced
  <2> HIDE DEF a, c
  <2>4. CASE p = a
    BY <2>3, <2>4 DEF Placed, a
  <2>5. CASE p + 1 = a + n + 2
    BY <2>2, <2>3, <2>5 DEF Placed
  <2>6. CASE p # a /\ p + 1 # a + n + 2
    <3>1. Within(s, q, m, p)
      BY <2>1, <2>2, <2>6 DEF Within, a
    <3>2. p - a \in 1..n /\ a + 1 + (p - a) = p + 1
      BY <2>1, <2>2, <2>6 DEF a
    <3>3. l = c[p - a]
      BY <2>3, <3>2 DEF Placed
    <3> QED BY <3>1, <3>3 DEF a, c
  <2> QED BY <2>4, <2>5, <2>6
<1> QED BY <1>3, <1>4, <1>5

\* Where the parser is among the sections, line by line.
LEMMA Places ==
  ASSUME NEW m \in Machines, NEW q, NEW p \in Nat, NEW s \in PayloadSections,
         NEW u \in PayloadSections
  PROVE  /\ p = Start(s, q, m) =>
              /\ ~Within(u, q, m, p) /\ ~(Start(u, q, m) < p /\ p < Stop(u, q, m))
              /\ Start(u, q, m) < p + 1 <=> Start(u, q, m) < p \/ u = s
              /\ Stop(u, q, m) <= p + 1 <=> Stop(u, q, m) <= p
         /\ p + 1 = Stop(s, q, m) =>
              /\ ~Within(u, q, m, p) /\ (Start(u, q, m) < p /\ p < Stop(u, q, m) <=> u = s)
              /\ Start(u, q, m) < p + 1 <=> Start(u, q, m) < p
              /\ Stop(u, q, m) <= p + 1 <=> Stop(u, q, m) <= p \/ u = s
         /\ Within(s, q, m, p) =>
              /\ Within(u, q, m, p) <=> u = s
              /\ Start(u, q, m) < p /\ p < Stop(u, q, m) <=> u = s
              /\ Start(u, q, m) < p + 1 <=> Start(u, q, m) < p
              /\ Stop(u, q, m) <= p + 1 <=> Stop(u, q, m) <= p
         /\ p < Len(SystemLines(m)) =>
              /\ ~Within(u, q, m, p) /\ ~(Start(u, q, m) < p /\ p < Stop(u, q, m))
              /\ Start(u, q, m) < p + 1 <=> Start(u, q, m) < p
              /\ Stop(u, q, m) <= p + 1 <=> Stop(u, q, m) <= p
         /\ p = Start(s, q, m) \/ p + 1 = Stop(s, q, m) \/ Within(s, q, m, p)
              => p >= Len(SystemLines(m))
<1> DEFINE a(v) == Start(v, q, m)
           b(v) == Stop(v, q, m)
           core == Len(SystemLines(m))
<1>1. /\ a(s) \in Nat /\ a(u) \in Nat /\ b(s) \in Nat /\ b(u) \in Nat /\ core \in Nat
      /\ a(s) + 2 <= b(s) /\ a(u) + 2 <= b(u) /\ core <= a(s) /\ core <= a(u)
      /\ s # u => b(s) <= a(u) \/ b(u) <= a(s)
  <2>1. /\ core \in Nat /\ (s # u => b(s) <= a(u) \/ b(u) <= a(s))
        /\ \A v \in PayloadSections :
             /\ a(v) \in Nat /\ Len(Content(v, q, m)) \in Nat /\ core <= a(v)
             /\ b(v) = a(v) + Len(Content(v, q, m)) + 2
    BY SectionsApart
  <2> HIDE DEF a, b, core
  <2>2. \A v \in PayloadSections : b(v) \in Nat /\ a(v) + 2 <= b(v)
    BY <2>1
  <2> QED BY <2>1, <2>2
<1> HIDE DEF a, b, core
<1>2. /\ Within(s, q, m, p) <=> a(s) < p /\ p + 1 < b(s)
      /\ Within(u, q, m, p) <=> a(u) < p /\ p + 1 < b(u)
  BY DEF Within, a, b
<1>3. CASE u = s
  <2> HIDE DEF Within
  <2>1. a(u) = a(s) /\ b(u) = b(s)
    BY <1>3
  <2> QED BY <1>1, <1>2, <1>3, <2>1 DEF a, b, core
<1>4. CASE u # s
  <2>1. b(s) <= a(u) \/ b(u) <= a(s)
    BY <1>1, <1>4
  <2> QED BY <1>1, <1>2, <1>4, <2>1 DEF a, b, core
<1> QED BY <1>3, <1>4

\* A section tells nothing by a line of another, and one row by a line of its own.
LEMMA ToldStays ==
  ASSUME NEW m \in Machines, NEW q, NEW p \in Nat, NEW s \in PayloadSections,
         NEW rows, NEW status, Told(s, rows, status, q, m, p), ~Within(s, q, m, p)
  PROVE  Told(s, rows, status, q, m, p + 1)
<1>1. ReadOf(s, q, m, p + 1) = ReadOf(s, q, m, p)
  BY ReadOfNext
<1> QED BY <1>1 DEF Told

\* A row is told as it is printed, and only where no status is.
LEMMA ToldRow ==
  ASSUME NEW m \in Machines, NEW q, NEW p \in Nat, NEW s \in PayloadSections,
         NEW rows, NEW status, Told(s, rows, status, q, m, p), Within(s, q, m, p),
         NEW line, line = Content(s, q, m)[p - Start(s, q, m)], line.tag = "row"
  PROVE  ~Says(status) /\ Told(s, Append(rows, line.row), status, q, m, p + 1)
<1> DEFINE c == Content(s, q, m)
           k == ReadOf(s, q, m, p)
<1>1. /\ ReadOf(s, q, m, p + 1) = k + 1 /\ k + 1 \in 1..Len(c) /\ k + 1 = p - Start(s, q, m)
      /\ k \in 0..Len(c) /\ Len(c) \in Nat
  BY ReadOfNext, SectionsApart
<1>2. c[k + 1] = Row(s, line.row)
  <2>1. line = c[k + 1]
    BY <1>1
  <2>2. \A i \in 1..Len(c) : c[i].tag = "row" => c[i] = Row(s, c[i].row)
    BY ContentLine
  <2> HIDE DEF c, k
  <2> QED BY <1>1, <2>1, <2>2
<1>3. /\ Sequence(rows) /\ Len(rows) \in Nat
  BY SequenceDomain DEF Told
<1>4. ~Says(status) /\ Len(rows) = k /\ \A i \in 1..Len(rows) : c[i] = Row(s, rows[i])
  <2>1. ASSUME k > 0, c = <<StatusRow(s, status)>> PROVE FALSE
    <3>1. Len(c) = 1
      BY <2>1, OneLine
    <3> HIDE DEF c, k
    <3> QED BY <1>1, <2>1, <3>1
  <2> QED BY <2>1 DEF Told
<1> DEFINE new == Append(rows, line.row)
<1>5. /\ Sequence(new) /\ Len(new) = Len(rows) + 1 /\ new[Len(rows) + 1] = line.row
      /\ \A i \in 1..Len(rows) : new[i] = rows[i]
  BY <1>3, Appended
<1> HIDE DEF new, c, k
<1>6. \A i \in 1..Len(new) : c[i] = Row(s, new[i])
  <2>1. \A i \in 1..Len(new) : i \in 1..Len(rows) \/ i = Len(rows) + 1
    BY <1>3, <1>5
  <2> QED BY <1>2, <1>4, <1>5, <2>1
<1>7. Told(s, new, status, q, m, p + 1)
  BY <1>1, <1>4, <1>5, <1>6 DEF Told, c
<1> QED BY <1>4, <1>7 DEF new

\* A status is all that a section tells.
LEMMA ToldStatus ==
  ASSUME NEW m \in Machines, NEW q, NEW p \in Nat, NEW s \in PayloadSections,
         NEW rows, NEW status, Told(s, rows, status, q, m, p), Within(s, q, m, p),
         NEW line, line = Content(s, q, m)[p - Start(s, q, m)], line.tag = "status"
  PROVE  ~Says(status) /\ rows = <<>> /\ Told(s, rows, line.says, q, m, p + 1)
<1> DEFINE c == Content(s, q, m)
           k == ReadOf(s, q, m, p)
<1>1. /\ ReadOf(s, q, m, p + 1) = k + 1 /\ k + 1 \in 1..Len(c) /\ k + 1 = p - Start(s, q, m)
      /\ k \in 0..Len(c) /\ Len(c) \in Nat
  BY ReadOfNext, SectionsApart
<1>2. c = <<StatusRow(s, line.says)>> /\ Says(line.says) /\ k + 1 = 1
  <2>1. line = c[k + 1]
    BY <1>1
  <2>2. \A i \in 1..Len(c) :
          c[i].tag = "status" => c = <<StatusRow(s, c[i].says)>> /\ Says(c[i].says)
    BY ContentLine
  <2> HIDE DEF c, k
  <2>3. c = <<StatusRow(s, line.says)>> /\ Says(line.says)
    BY <1>1, <2>1, <2>2
  <2>4. Len(c) = 1
    BY <2>3, OneLine
  <2> QED BY <1>1, <2>3, <2>4
<1>3. Sequence(rows) /\ Len(rows) \in Nat
  BY SequenceDomain DEF Told
<1>4. k = 0
  <2>1. k \in 0..Len(c) /\ Len(c) \in Nat /\ k + 1 = 1
    BY <1>1, <1>2
  <2> HIDE DEF k, c
  <2> QED BY ONLY <2>1
<1>5. ~Says(status) /\ Len(rows) = 0
  <2>1. ~(k > 0)
    BY ONLY <1>4
  <2> QED BY <1>4, <2>1 DEF Told
<1>6. rows = <<>>
  BY <1>3, <1>5, EmptySeq DEF Sequence
<1>7. Sequence(<<>>) /\ k + 1 > 0
  BY <1>4, NoLines
<1> HIDE DEF k
<1> QED BY <1>1, <1>2, <1>5, <1>6, <1>7 DEF Told

\* The awk pass prints HOST first and the totals last, and pressure in between.
LEMMA CoreLines ==
  ASSUME NEW m \in Machines, m.core
  PROVE  LET c == SystemLines(m) IN
         /\ Len(c) \in Nat /\ Len(c) >= 2
         /\ c[1] = Row(Outside, "HOST") /\ c[Len(c)] = Row(Outside, "TOTALS")
         /\ \A i \in 1..Len(c) :
              \E r \in {"HOST", "psi", "odd psi", "TOTALS"} : c[i] = Row(Outside, r)
<1> DEFINE a == <<Row(Outside, "HOST")>>
           b == IF m.psi = "none" THEN <<>> ELSE <<Row(Outside, m.psi)>>
           e == <<Row(Outside, "TOTALS")>>
           d == a \o b
           c == d \o e
<1>1. SystemLines(m) = c
  BY DEF SystemLines
<1>2. /\ Sequence(b) /\ Len(b) \in {0, 1}
      /\ \A i \in 1..Len(b) : \E r \in {"psi", "odd psi"} : b[i] = Row(Outside, r)
  <2>1. CASE m.psi = "none"
    BY <2>1, NoLines
  <2>2. CASE m.psi # "none"
    <3>1. m.psi \in {"psi", "odd psi"}
      BY <2>2, MachinesAssumption
    <3>2. b = <<Row(Outside, m.psi)>> /\ Sequence(b) /\ Len(b) = 1 /\ b[1] = Row(Outside, m.psi)
      BY <2>2, OneLine
    <3> HIDE DEF b
    <3>3. \A i \in 1..Len(b) : i = 1
      BY <3>2
    <3> QED BY <3>1, <3>2, <3>3
  <2> QED BY <2>1, <2>2
<1>7. /\ Sequence(a) /\ Len(a) = 1 /\ a[1] = Row(Outside, "HOST")
      /\ Sequence(e) /\ Len(e) = 1 /\ e[1] = Row(Outside, "TOTALS")
  BY OneLine
<1> HIDE DEF a, b, e
<1>3. /\ Sequence(d) /\ DOMAIN d = 1..(1 + Len(b))
      /\ \A i \in 1..(1 + Len(b)) : d[i] = IF i <= 1 THEN a[i] ELSE b[i - 1]
  <2>1. /\ Sequence(a \o b) /\ DOMAIN (a \o b) = 1..(Len(a) + Len(b))
        /\ \A i \in 1..(Len(a) + Len(b)) :
             (a \o b)[i] = IF i <= Len(a) THEN a[i] ELSE b[i - Len(a)]
    BY ONLY <1>2, <1>7, Concatenated
  <2> QED BY <1>7, <2>1
<1>4. Len(d) = 1 + Len(b) /\ Len(b) \in Nat
  <2> HIDE DEF d
  <2>1. Len(d) \in Nat /\ DOMAIN d = 1..Len(d) /\ Len(b) \in Nat
    BY <1>2, <1>3, SequenceDomain
  <2> QED BY <1>3, <2>1
<1> HIDE DEF d
<1>5. /\ Sequence(c) /\ DOMAIN c = 1..(Len(d) + 1)
      /\ \A i \in 1..(Len(d) + 1) : c[i] = IF i <= Len(d) THEN d[i] ELSE e[i - Len(d)]
  BY <1>3, <1>7, Concatenated
<1> HIDE DEF c
<1>6. Len(c) = Len(b) + 2
  BY <1>4, <1>5, SequenceDomain
<1>8. c[1] = a[1]
  BY <1>3, <1>4, <1>5
<1>9. c[Len(c)] = e[1]
  BY <1>4, <1>5, <1>6
<1>10. ASSUME NEW i \in 1..Len(c)
       PROVE  \E r \in {"HOST", "psi", "odd psi", "TOTALS"} : c[i] = Row(Outside, r)
  <2>1. i = 1 \/ i = Len(c) \/ (i - 1 \in 1..Len(b) /\ c[i] = b[i - 1])
    <3>1. i \in 1..(Len(b) + 2) /\ i \in 1..(Len(d) + 1)
      BY <1>4, <1>6
    <3>2. i <= 1 + Len(b) => c[i] = d[i]
      BY <1>4, <1>5, <3>1
    <3>3. i <= 1 + Len(b) /\ ~(i <= 1) => d[i] = b[i - 1] /\ i - 1 \in 1..Len(b)
      BY <1>3, <1>4, <3>1
    <3> QED BY <1>4, <1>6, <3>1, <3>2, <3>3
  <2> QED BY <2>1, <1>2, <1>7, <1>8, <1>9
<1>11. Len(c) \in Nat /\ Len(c) >= 2
  BY <1>4, <1>6
<1> QED BY ONLY <1>1, <1>7, <1>8, <1>9, <1>10, <1>11

\* The markers that were seen are those among the lines that were read.
LEMMA SeenNext ==
  ASSUME NEW m \in Machines, NEW q, NEW p \in Nat, NEW seen, SeenTo(seen, q, m, p)
  PROVE  /\ \A s \in PayloadSections :
              /\ p = Start(s, q, m) => SeenTo(seen \cup {Opening(s)}, q, m, p + 1)
              /\ p + 1 = Stop(s, q, m) => SeenTo(seen \cup {Closing(s)}, q, m, p + 1)
              /\ Within(s, q, m, p) => SeenTo(seen, q, m, p + 1)
         /\ p < Len(SystemLines(m)) => SeenTo(seen, q, m, p + 1)
<1>1. ASSUME p < Len(SystemLines(m)) PROVE SeenTo(seen, q, m, p + 1)
  <2>1. "disks" \in PayloadSections
    BY DEF PayloadSections
  <2> QED BY <1>1, <2>1, Places DEF SeenTo
<1>2. ASSUME NEW s \in PayloadSections, Within(s, q, m, p) PROVE SeenTo(seen, q, m, p + 1)
  BY <1>2, Places DEF SeenTo
<1>3. ASSUME NEW s \in PayloadSections, p = Start(s, q, m)
      PROVE  SeenTo(seen \cup {Opening(s)}, q, m, p + 1)
  BY <1>3, Places, MarkersDiffer DEF SeenTo
<1>4. ASSUME NEW s \in PayloadSections, p + 1 = Stop(s, q, m)
      PROVE  SeenTo(seen \cup {Closing(s)}, q, m, p + 1)
  BY <1>4, Places, MarkersDiffer DEF SeenTo
<1> QED BY <1>1, <1>2, <1>3, <1>4

\* After the awk pass, the core values do not change.
LEMMA CoreStays ==
  ASSUME NEW m \in Machines, m.core, NEW p \in Nat, p >= Len(SystemLines(m)), NEW core,
         CoreTo(core, m, p)
  PROVE  CoreTo(core, m, p + 1)
<1>1. Len(SystemLines(m)) \in Nat /\ Len(SystemLines(m)) >= 2
  BY CoreLines
<1>2. p >= 1 /\ p + 1 >= 1
  BY <1>1
<1> QED BY <1>2 DEF CoreTo

\* The next line that nobody has read.
LEMMA LeftNext ==
  ASSUME NEW script, NEW p, LeftAfter(output, script, p), output # <<>>, Consumed
  PROVE  p < Len(script) /\ Line = script[p + 1] /\ LeftAfter(output', script, p + 1)
<1> DEFINE R == Range(output)
<1>1. /\ output \in Seq(R) /\ Len(output) \in Nat /\ p \in Nat
      /\ p + Len(output) = Len(script) /\ \A i \in 1..Len(output) : output[i] = script[p + i]
  BY SequenceDomain DEF LeftAfter
<1>2. /\ output' \in Seq(R) /\ Len(output') = Len(output) - 1 /\ Len(output) > 0
      /\ \A i \in 1..Len(output') : output'[i] = output[i + 1]
  <2>1. Len(output) \in Nat \ {0}
    BY <1>1, EmptySeq
  <2> QED BY <1>1, <2>1, HeadTailProperties DEF Consumed
<1> HIDE DEF R
<1>3. Sequence(output') /\ Len(output') \in Nat
  BY <1>2, SequenceOf
<1>4. p < Len(script) /\ p + 1 + Len(output') = Len(script) /\ p + 1 \in Nat
  <2>1. /\ p \in Nat /\ Len(output) \in Nat /\ p + Len(output) = Len(script)
        /\ Len(output') = Len(output) - 1 /\ Len(output) > 0
    BY <1>1, <1>2
  <2> QED BY ONLY <2>1
<1>5. Line = script[p + 1]
  <2>1. Line = output[1] /\ 1 \in 1..Len(output)
    BY <1>1, <1>2 DEF Line
  <2> QED BY <1>1, <2>1
<1>6. ASSUME NEW i \in 1..Len(output') PROVE output'[i] = script[p + 1 + i]
  <2>1. i + 1 \in 1..Len(output) /\ p + (i + 1) = p + 1 + i
    BY <1>1, <1>2
  <2> QED BY <1>1, <1>2, <2>1
<1> QED BY <1>3, <1>4, <1>5, <1>6 DEF LeftAfter

\* What the conditions of ReadInv are.
Undamaged == faults = 0 /\ host.core /\ Len(host.disks) <= MaxDisks

\* the line to read is the one after the first p of the script
NextLine(p) ==
  /\ Undamaged /\ p < Len(Script(sample, host)) /\ Line = Script(sample, host)[p + 1]
  /\ ReadTo(scan, sample, host, p)

\* A line that is read is the next one of the script.
LEMMA ReadStep ==
  ASSUME PayloadInv, ReadInv, Reading, Consumed, Kept, verdict' \in {"", "refused"},
         \A p \in Nat : NextLine(p) =>
           verdict' # "refused" /\ ReadTo(scan', sample, host, p + 1)
  PROVE  ReadInv'
<1>1. UNCHANGED <<sample, host, faults>>
  BY DEF Kept
<1>2. CASE ~Undamaged
  BY <1>1, <1>2 DEF ReadInv, Undamaged
<1>3. CASE Undamaged
  <2> DEFINE script == Script(sample, host)
  <2>1. PICK p \in 0..Len(script) : LeftAfter(output, script, p) /\ ReadTo(scan, sample, host, p)
    BY <1>3 DEF ReadInv, Undamaged
  <2>2. output # <<>>
    BY DEF Reading
  <2>3. p < Len(script) /\ Line = script[p + 1] /\ LeftAfter(output', script, p + 1)
    BY <2>1, <2>2, LeftNext
  <2>4. Len(script) \in Nat /\ p \in Nat
    <3>1. host \in Machines
      BY DEF PayloadInv, LinesInv
    <3>2. Sequence(script)
      BY <3>1, ScriptPlaced
    <3> HIDE DEF script
    <3>3. Len(script) \in Nat
      BY <3>2, SequenceDomain
    <3> QED BY <2>1, <3>3 DEF LeftAfter
  <2>5. verdict' # "refused" /\ ReadTo(scan', sample, host, p + 1)
    BY <1>3, <2>1, <2>3, <2>4 DEF NextLine
  <2>6. p + 1 \in 0..Len(script)
    <3>1. p < Len(script)
      BY <2>3
    <3> HIDE DEF script
    <3> QED BY ONLY <2>4, <3>1
  <2>7. script = Script(sample', host') /\ ReadTo(scan', sample', host', p + 1)
    BY <1>1, <2>5
  <2>8. sample' \in Samples /\ faults' \in Nat
    BY <1>1 DEF ReadInv
  <2> HIDE DEF script
  <2>9. LeftAfter(output', Script(sample', host'), p + 1) /\ p + 1 \in 0..Len(Script(sample', host'))
    BY ONLY <2>3, <2>6, <2>7
  <2> QED BY ONLY <2>5, <2>7, <2>8, <2>9 DEF ReadInv
<1> QED BY <1>2, <1>3

\* Where the parser is, the lines that it read say.
LEMMA InIsWhere ==
  ASSUME PayloadInv, NEW q, NEW p \in Nat, SeenTo(scan.seen, q, host, p)
  PROVE  \A s \in PayloadSections :
           scan.in = s <=> Start(s, q, host) < p /\ p < Stop(s, q, host)
<1>1. host \in Machines
  BY DEF PayloadInv, LinesInv
<1>2. \A s \in PayloadSections : Stop(s, q, host) \in Nat
  BY <1>1, SectionsApart
<1> QED BY <1>2 DEF PayloadInv, ScanInv, SeenTo

\* a section begins or ends with this line, or tells it
Begun(line, q, m, p) == \E s \in PayloadSections : p = Start(s, q, m) /\ line = Opening(s)
Ended(line, q, m, p) == \E s \in PayloadSections : p + 1 = Stop(s, q, m) /\ line = Closing(s)
RowHere(line, q, m, p) ==
  \E s \in PayloadSections :
    Within(s, q, m, p) /\ line = Content(s, q, m)[p - Start(s, q, m)]

\* What is not a line of the awk pass is a marker at its place, or a row at its own.
LEMMA OtherLines ==
  ASSUME NEW m \in Machines, m.core, NEW q, NEW p \in Nat, p < Len(Script(q, m)),
         NEW line, line = Script(q, m)[p + 1]
  PROVE  /\ line.tag = "begin" => Begun(line, q, m, p)
         /\ line.tag = "end" => Ended(line, q, m, p)
         /\ line.tag \in RowTags => p < Len(SystemLines(m)) \/ RowHere(line, q, m, p)
         /\ p < Len(SystemLines(m)) => line = SystemLines(m)[p + 1]
<1> USE DEF Begun, Ended, RowHere
<1>1. \/ p < Len(SystemLines(m)) /\ line = SystemLines(m)[p + 1]
      \/ \E s \in PayloadSections :
           \/ p = Start(s, q, m) /\ line = Opening(s)
           \/ p + 1 = Stop(s, q, m) /\ line = Closing(s)
           \/ Within(s, q, m, p) /\ line = Content(s, q, m)[p - Start(s, q, m)]
  BY LineAt
<1>2. ASSUME p < Len(SystemLines(m)), line = SystemLines(m)[p + 1]
      PROVE  line.tag = "row" /\ line.tag \in RowTags
  <2>1. Len(SystemLines(m)) \in Nat
    BY CoreLines
  <2>2. p + 1 \in 1..Len(SystemLines(m))
    BY <1>2, <2>1
  <2>3. \E r : line = Row(Outside, r)
    BY <1>2, <2>2, CoreLines
  <2> QED BY <2>3 DEF Row, RowTags
<1>3. ASSUME NEW s \in PayloadSections, Within(s, q, m, p),
             line = Content(s, q, m)[p - Start(s, q, m)]
      PROVE  line.tag \in RowTags
  <2>1. p - Start(s, q, m) \in 1..Len(Content(s, q, m))
    BY <1>3, ReadOfNext
  <2> QED BY <1>3, <2>1, ContentLine
<1>4. ASSUME NEW s \in PayloadSections
      PROVE  /\ p = Start(s, q, m) \/ p + 1 = Stop(s, q, m) \/ Within(s, q, m, p)
                  => ~(p < Len(SystemLines(m)))
             /\ Opening(s).tag = "begin" /\ Closing(s).tag = "end"
  BY Places, SectionsApart, MarkersDiffer
<1>5. line.tag \in RowTags => line.tag # "begin" /\ line.tag # "end"
  BY DEF RowTags
<1>6. \A s : Opening(s).tag \notin RowTags /\ Closing(s).tag \notin RowTags
  BY MarkersDiffer DEF RowTags
<1> QED BY <1>1, <1>2, <1>3, <1>4, <1>5, <1>6

\* A line that is no row of a section leaves what is told of the sections.
LEMMA ReportedStays ==
  ASSUME NEW m \in Machines, NEW q, NEW p \in Nat, NEW sc, NEW new, Reported(sc, q, m, p),
         new.disks = sc.disks, new.gpus = sc.gpus, new.gpuMessage = sc.gpuMessage,
         new.processes = sc.processes, new.status = sc.status,
         new.workloads = sc.workloads, new.health = sc.health,
         \A s \in PayloadSections : ~Within(s, q, m, p)
  PROVE  Reported(new, q, m, p + 1)
<1>1. /\ "disks" \in PayloadSections /\ "gpus" \in PayloadSections
      /\ "processes" \in PayloadSections /\ "workloads" \in PayloadSections
  BY DEF PayloadSections
<1>2. ReadOf("disks", q, m, p + 1) = ReadOf("disks", q, m, p)
  <2>1. \A s \in PayloadSections :
          ~Within(s, q, m, p) => ReadOf(s, q, m, p + 1) = ReadOf(s, q, m, p)
    BY ReadOfNext
  <2> QED BY <1>1, <2>1
<1>3. /\ Told("gpus", sc.gpus, sc.gpuMessage, q, m, p + 1)
      /\ Told("processes", sc.processes, sc.status, q, m, p + 1)
      /\ Told("workloads", sc.workloads, "", q, m, p + 1)
  BY <1>1, ToldStays DEF Reported
<1> QED BY <1>2, <1>3 DEF Reported

\* The markers of the script are never refused.
LEMMA OpenReads == PayloadInv /\ ReadInv /\ OpenSection => ReadInv'
<1> SUFFICES ASSUME PayloadInv, ReadInv, OpenSection PROVE ReadInv'
  OBVIOUS
<1>1. /\ Reading /\ Consumed /\ Kept /\ Line.tag = "begin" /\ verdict' \in {"", "refused"}
      /\ host \in Machines /\ DOMAIN scan = DOMAIN Blank
  BY DEF OpenSection, Refuse, Reading, PayloadInv, LinesInv, ScanInv
<1>2. ASSUME NEW p \in Nat, NextLine(p)
      PROVE  verdict' # "refused" /\ ReadTo(scan', sample, host, p + 1)
  <2>1. /\ host.core /\ p < Len(Script(sample, host)) /\ Line = Script(sample, host)[p + 1]
        /\ ReadTo(scan, sample, host, p) /\ p \in Nat
    BY <1>2 DEF Undamaged, NextLine
  <2>2. PICK s \in PayloadSections : p = Start(s, sample, host) /\ Line = Opening(s)
    <3>1. Begun(Line, sample, host, p)
      BY ONLY <1>1, <2>1, OtherLines
    <3> QED BY <3>1 DEF Begun
  <2>3. SeenTo(scan.seen, sample, host, p)
    BY <2>1 DEF ReadTo
  <2>4. \A u \in PayloadSections : ~Within(u, sample, host, p) /\ scan.in # u
    BY <1>1, <2>2, <2>3, Places, InIsWhere
  <2>5. scan.in = Outside
    BY <2>4 DEF PayloadInv, ScanInv
  <2>6. Line \notin scan.seen
    <3>1. ~(Start(s, sample, host) < p)
      BY <2>2
    <3> QED BY <2>2, <2>3, <3>1 DEF SeenTo
  <2>7. UNCHANGED verdict /\ scan' = [scan EXCEPT !.in = Line.of, !.seen = @ \cup {Line}]
    BY <2>5, <2>6 DEF OpenSection
  <2>8. /\ scan'.seen = scan.seen \cup {Opening(s)} /\ scan'.core = scan.core
        /\ scan'.disks = scan.disks /\ scan'.gpus = scan.gpus
        /\ scan'.gpuMessage = scan.gpuMessage /\ scan'.processes = scan.processes
        /\ scan'.status = scan.status /\ scan'.workloads = scan.workloads
        /\ scan'.health = scan.health
    BY <1>1, <2>2, <2>7 DEF Blank
  <2>9. SeenTo(scan'.seen, sample, host, p + 1)
    BY <1>1, <2>2, <2>3, <2>8, SeenNext
  <2>10. CoreTo(scan'.core, host, p + 1)
    <3>1. p >= Len(SystemLines(host)) /\ host.core /\ CoreTo(scan.core, host, p)
      BY <1>1, <2>1, <2>2, Places DEF ReadTo
    <3> QED BY <1>1, <2>8, <3>1, CoreStays
  <2>11. Reported(scan', sample, host, p + 1)
    BY <1>1, <2>1, <2>4, <2>8, ReportedStays DEF ReadTo
  <2> QED BY <1>1, <2>7, <2>9, <2>10, <2>11 DEF Reading, ReadTo
<1> QED BY <1>1, <1>2, ReadStep

\* So are the ends.
LEMMA CloseReads == PayloadInv /\ ReadInv /\ CloseSection => ReadInv'
<1> SUFFICES ASSUME PayloadInv, ReadInv, CloseSection PROVE ReadInv'
  OBVIOUS
<1>1. /\ Reading /\ Consumed /\ Kept /\ Line.tag = "end" /\ verdict' \in {"", "refused"}
      /\ host \in Machines /\ DOMAIN scan = DOMAIN Blank
  BY DEF CloseSection, Refuse, Reading, PayloadInv, LinesInv, ScanInv
<1>2. ASSUME NEW p \in Nat, NextLine(p)
      PROVE  verdict' # "refused" /\ ReadTo(scan', sample, host, p + 1)
  <2>1. /\ host.core /\ p < Len(Script(sample, host)) /\ Line = Script(sample, host)[p + 1]
        /\ ReadTo(scan, sample, host, p) /\ p \in Nat
    BY <1>2 DEF Undamaged, NextLine
  <2>2. PICK s \in PayloadSections : p + 1 = Stop(s, sample, host) /\ Line = Closing(s)
    <3>1. Ended(Line, sample, host, p)
      BY ONLY <1>1, <2>1, OtherLines
    <3> QED BY <3>1 DEF Ended
  <2>3. SeenTo(scan.seen, sample, host, p)
    BY <2>1 DEF ReadTo
  <2>4. /\ \A u \in PayloadSections : ~Within(u, sample, host, p)
        /\ scan.in = s /\ ~(Stop(s, sample, host) <= p)
    <3>1. /\ \A u \in PayloadSections : ~Within(u, sample, host, p)
          /\ Start(s, sample, host) < p /\ p < Stop(s, sample, host)
      BY <1>1, <2>2, Places
    <3>2. Stop(s, sample, host) \in Nat
      BY <1>1, SectionsApart
    <3> QED BY <2>3, <3>1, <3>2, InIsWhere
  <2>5. Line.of = scan.in
    BY <2>2, <2>4 DEF Closing
  <2>6. Line \notin scan.seen
    BY <2>2, <2>3, <2>4 DEF SeenTo
  <2>7. UNCHANGED verdict /\ scan' = [scan EXCEPT !.in = Outside, !.seen = @ \cup {Line}]
    BY <2>5, <2>6 DEF CloseSection
  <2>8. /\ scan'.seen = scan.seen \cup {Closing(s)} /\ scan'.core = scan.core
        /\ scan'.disks = scan.disks /\ scan'.gpus = scan.gpus
        /\ scan'.gpuMessage = scan.gpuMessage /\ scan'.processes = scan.processes
        /\ scan'.status = scan.status /\ scan'.workloads = scan.workloads
        /\ scan'.health = scan.health
    BY <1>1, <2>2, <2>7 DEF Blank
  <2>9. SeenTo(scan'.seen, sample, host, p + 1)
    BY <1>1, <2>2, <2>3, <2>8, SeenNext
  <2>10. CoreTo(scan'.core, host, p + 1)
    <3>1. p >= Len(SystemLines(host)) /\ host.core /\ CoreTo(scan.core, host, p)
      BY <1>1, <2>1, <2>2, Places DEF ReadTo
    <3> QED BY <1>1, <2>8, <3>1, CoreStays
  <2>11. Reported(scan', sample, host, p + 1)
    BY <1>1, <2>1, <2>4, <2>8, ReportedStays DEF ReadTo
  <2> QED BY <1>1, <2>7, <2>9, <2>10, <2>11 DEF Reading, ReadTo
<1> QED BY <1>1, <1>2, ReadStep

\* A line that is read in a section is a row of it.
LEMMA SectionRow ==
  ASSUME PayloadInv, NEW p \in Nat, NextLine(p), Line.tag \in RowTags,
         NEW s \in PayloadSections, scan.in = s
  PROVE  /\ Within(s, sample, host, p) /\ host \in Machines
         /\ Line = Content(s, sample, host)[p - Start(s, sample, host)]
         /\ p - Start(s, sample, host) \in 1..Len(Content(s, sample, host)) /\ Line.of = s
         /\ SeenTo(scan.seen, sample, host, p + 1) /\ CoreTo(scan.core, host, p + 1)
         /\ Reported(scan, sample, host, p)
         /\ \A u \in PayloadSections \ {s} : ~Within(u, sample, host, p)
<1>1. /\ host.core /\ p < Len(Script(sample, host)) /\ Line = Script(sample, host)[p + 1]
      /\ ReadTo(scan, sample, host, p) /\ p \in Nat
  BY DEF Undamaged, NextLine
<1>2. host \in Machines
  BY DEF PayloadInv, LinesInv
<1>3. SeenTo(scan.seen, sample, host, p) /\ CoreTo(scan.core, host, p)
  BY <1>1 DEF ReadTo
<1>4. Start(s, sample, host) < p /\ p < Stop(s, sample, host)
  BY <1>3, InIsWhere
<1>5. p < Len(SystemLines(host)) \/ RowHere(Line, sample, host, p)
  BY <1>1, <1>2, OtherLines
<1>6. ~(p < Len(SystemLines(host)))
  BY <1>2, <1>4, Places
<1>7. PICK t \in PayloadSections :
        /\ Within(t, sample, host, p)
        /\ Line = Content(t, sample, host)[p - Start(t, sample, host)]
  BY <1>5, <1>6 DEF RowHere
<1>8. s = t
  BY <1>2, <1>4, <1>7, Places
<1>9. \A u \in PayloadSections : u # s => ~Within(u, sample, host, p)
  BY <1>2, <1>7, <1>8, Places
<1>10. p - Start(s, sample, host) \in 1..Len(Content(s, sample, host))
  BY <1>2, <1>7, <1>8, ReadOfNext
<1>11. Line.of = s
  BY <1>2, <1>7, <1>8, <1>10, ContentLine
<1>12. SeenTo(scan.seen, sample, host, p + 1)
  BY <1>2, <1>3, <1>7, SeenNext
<1>13. CoreTo(scan.core, host, p + 1)
  <2>1. p >= Len(SystemLines(host))
    BY <1>2, <1>7, Places
  <2> QED BY <1>1, <1>2, <1>3, <2>1, CoreStays
<1> QED BY <1>1, <1>2, <1>7, <1>8, <1>9, <1>10, <1>11, <1>12, <1>13 DEF ReadTo

\* A line of a section leaves what is told of the others.
LEMMA OthersStay ==
  ASSUME NEW m \in Machines, NEW q, NEW p \in Nat, NEW sc, Reported(sc, q, m, p),
         NEW s \in PayloadSections, \A u \in PayloadSections \ {s} : ~Within(u, q, m, p)
  PROVE  /\ Sequence(sc.disks) /\ sc.health = <<>>
         /\ Len(sc.disks) <= ReadOf("disks", q, m, p)
         /\ s # "disks" => Len(sc.disks) <= ReadOf("disks", q, m, p + 1)
         /\ s # "gpus" => Told("gpus", sc.gpus, sc.gpuMessage, q, m, p + 1)
         /\ s # "processes" => Told("processes", sc.processes, sc.status, q, m, p + 1)
         /\ s # "workloads" => Told("workloads", sc.workloads, "", q, m, p + 1)
<1>1. /\ "disks" \in PayloadSections /\ "gpus" \in PayloadSections
      /\ "processes" \in PayloadSections /\ "workloads" \in PayloadSections
  BY DEF PayloadSections
<1>2. s # "disks" => ReadOf("disks", q, m, p + 1) = ReadOf("disks", q, m, p)
  <2>1. \A u \in PayloadSections :
          ~Within(u, q, m, p) => ReadOf(u, q, m, p + 1) = ReadOf(u, q, m, p)
    BY ReadOfNext
  <2> QED BY <1>1, <2>1
<1>3. /\ s # "gpus" => Told("gpus", sc.gpus, sc.gpuMessage, q, m, p + 1)
      /\ s # "processes" => Told("processes", sc.processes, sc.status, q, m, p + 1)
      /\ s # "workloads" => Told("workloads", sc.workloads, "", q, m, p + 1)
  BY <1>1, ToldStays DEF Reported
<1> QED BY <1>2, <1>3 DEF Reported

\* Rows of GPUs are kept, or the status that stands for them.
LEMMA GpuReads == PayloadInv /\ ReadInv /\ GpuLine => ReadInv'
<1> SUFFICES ASSUME PayloadInv, ReadInv, GpuLine PROVE ReadInv'
  OBVIOUS
<1>1. /\ Reading /\ Consumed /\ Kept /\ Line.tag \in RowTags /\ UNCHANGED verdict
      /\ verdict' \in {"", "refused"} /\ scan.in = "gpus" /\ DOMAIN scan = DOMAIN Blank
      /\ "gpus" \in PayloadSections
  BY DEF GpuLine, Reading, PayloadInv, ScanInv, RowTags, PayloadSections
<1>2. ASSUME NEW p \in Nat, NextLine(p)
      PROVE  verdict' # "refused" /\ ReadTo(scan', sample, host, p + 1)
  <2>1. /\ Within("gpus", sample, host, p) /\ host \in Machines
        /\ Line = Content("gpus", sample, host)[p - Start("gpus", sample, host)]
        /\ Line.of = "gpus"
        /\ SeenTo(scan.seen, sample, host, p + 1) /\ CoreTo(scan.core, host, p + 1)
        /\ Reported(scan, sample, host, p)
        /\ \A u \in PayloadSections \ {"gpus"} : ~Within(u, sample, host, p)
    BY <1>1, <1>2, SectionRow
  <2>2. /\ Sequence(scan.disks) /\ scan.health = <<>>
        /\ Len(scan.disks) <= ReadOf("disks", sample, host, p + 1)
        /\ Told("processes", scan.processes, scan.status, sample, host, p + 1)
        /\ Told("workloads", scan.workloads, "", sample, host, p + 1)
    BY <1>1, <2>1, OthersStay
  <2>3. Told("gpus", scan.gpus, scan.gpuMessage, sample, host, p)
    BY <2>1 DEF Reported
  <2>4. OwnStatus <=> Line.tag = "status"
    BY <1>1, <2>1 DEF OwnStatus
  <2>5. /\ scan'.seen = scan.seen /\ scan'.core = scan.core /\ scan'.disks = scan.disks
        /\ scan'.processes = scan.processes /\ scan'.status = scan.status
        /\ scan'.workloads = scan.workloads /\ scan'.health = scan.health
        /\ OwnStatus => scan'.gpuMessage = Line.says /\ scan'.gpus = scan.gpus
        /\ ~OwnStatus => scan'.gpuMessage = scan.gpuMessage
                         /\ scan'.gpus = Append(scan.gpus, Text)
    BY <1>1 DEF GpuLine, Blank
  <2>6. Told("gpus", scan'.gpus, scan'.gpuMessage, sample, host, p + 1)
    <3>1. CASE Line.tag = "row"
      <4>1. Text = Line.row /\ ~OwnStatus
        BY <2>4, <3>1 DEF Text
      <4>2. Told("gpus", Append(scan.gpus, Line.row), scan.gpuMessage, sample, host, p + 1)
        BY <1>1, <2>1, <2>3, <3>1, ToldRow
      <4> QED BY <2>5, <4>1, <4>2
    <3>2. CASE Line.tag = "status"
      <4>1. Told("gpus", scan.gpus, Line.says, sample, host, p + 1)
        BY <1>1, <2>1, <2>3, <3>2, ToldStatus
      <4> QED BY <2>4, <2>5, <3>2, <4>1
    <3> QED BY <1>1, <3>1, <3>2 DEF RowTags
  <2>7. Reported(scan', sample, host, p + 1)
    BY <2>2, <2>5, <2>6 DEF Reported
  <2> QED BY <1>1, <2>1, <2>5, <2>7 DEF Reading, ReadTo
<1> QED BY <1>1, <1>2, ReadStep

\* Neither rows of processes nor their status are refused: there is one status, and
\* where it is there are no rows.
LEMMA ProcessReads == PayloadInv /\ ReadInv /\ ProcessLine => ReadInv'
<1> SUFFICES ASSUME PayloadInv, ReadInv, ProcessLine PROVE ReadInv'
  OBVIOUS
<1>1. /\ Reading /\ Consumed /\ Kept /\ Line.tag \in RowTags
      /\ verdict' \in {"", "refused"} /\ scan.in = "processes" /\ DOMAIN scan = DOMAIN Blank
      /\ "processes" \in PayloadSections
  BY DEF ProcessLine, Refuse, Reading, PayloadInv, ScanInv, RowTags, PayloadSections
<1>2. ASSUME NEW p \in Nat, NextLine(p)
      PROVE  verdict' # "refused" /\ ReadTo(scan', sample, host, p + 1)
  <2>1. /\ Within("processes", sample, host, p) /\ host \in Machines
        /\ Line = Content("processes", sample, host)[p - Start("processes", sample, host)]
        /\ Line.of = "processes"
        /\ SeenTo(scan.seen, sample, host, p + 1) /\ CoreTo(scan.core, host, p + 1)
        /\ Reported(scan, sample, host, p)
        /\ \A u \in PayloadSections \ {"processes"} : ~Within(u, sample, host, p)
    BY <1>1, <1>2, SectionRow
  <2>2. /\ Sequence(scan.disks) /\ scan.health = <<>>
        /\ Len(scan.disks) <= ReadOf("disks", sample, host, p + 1)
        /\ Told("gpus", scan.gpus, scan.gpuMessage, sample, host, p + 1)
        /\ Told("workloads", scan.workloads, "", sample, host, p + 1)
    BY <1>1, <2>1, OthersStay
  <2>3. Told("processes", scan.processes, scan.status, sample, host, p)
    BY <2>1 DEF Reported
  <2>4. OwnStatus <=> Line.tag = "status"
    BY <1>1, <2>1 DEF OwnStatus
  <2>5. /\ ~Says(scan.status) /\ (OwnStatus => scan.processes = <<>>)
        /\ Line.tag = "row" =>
             Told("processes", Append(scan.processes, Line.row), scan.status, sample, host, p + 1)
        /\ Line.tag = "status" =>
             Told("processes", scan.processes, Line.says, sample, host, p + 1)
    <3>1. CASE Line.tag = "row"
      BY <1>1, <2>1, <2>3, <2>4, <3>1, ToldRow
    <3>2. CASE Line.tag = "status"
      BY <1>1, <2>1, <2>3, <2>4, <3>2, ToldStatus
    <3> QED BY <1>1, <3>1, <3>2 DEF RowTags
  <2>6. /\ UNCHANGED verdict
        /\ scan' = IF OwnStatus THEN [scan EXCEPT !.status = Line.says]
                   ELSE [scan EXCEPT !.processes = Append(@, Text)]
    <3>1. scan.status = ""
      BY <2>5 DEF Says
    <3> QED BY <2>5, <3>1 DEF ProcessLine
  <2>7. /\ scan'.seen = scan.seen /\ scan'.core = scan.core /\ scan'.disks = scan.disks
        /\ scan'.gpus = scan.gpus /\ scan'.gpuMessage = scan.gpuMessage
        /\ scan'.workloads = scan.workloads /\ scan'.health = scan.health
        /\ OwnStatus => scan'.status = Line.says /\ scan'.processes = scan.processes
        /\ ~OwnStatus => scan'.status = scan.status
                         /\ scan'.processes = Append(scan.processes, Text)
    BY <1>1, <2>6 DEF Blank
  <2>8. Told("processes", scan'.processes, scan'.status, sample, host, p + 1)
    <3>1. CASE Line.tag = "row"
      <4>1. Text = Line.row /\ ~OwnStatus
        BY <2>4, <3>1 DEF Text
      <4> QED BY <2>5, <2>7, <3>1, <4>1
    <3>2. CASE Line.tag = "status"
      BY <2>4, <2>5, <2>7, <3>2
    <3> QED BY <1>1, <3>1, <3>2 DEF RowTags
  <2>9. Reported(scan', sample, host, p + 1)
    BY <2>2, <2>7, <2>8 DEF Reported
  <2> QED BY <1>1, <2>1, <2>6, <2>7, <2>9 DEF Reading, ReadTo
<1> QED BY <1>1, <1>2, ReadStep

\* A row of a workload is kept.
LEMMA WorkloadReads == PayloadInv /\ ReadInv /\ WorkloadLine => ReadInv'
<1> SUFFICES ASSUME PayloadInv, ReadInv, WorkloadLine PROVE ReadInv'
  OBVIOUS
<1>1. /\ Reading /\ Consumed /\ Kept /\ Line.tag \in RowTags /\ UNCHANGED verdict
      /\ verdict' \in {"", "refused"} /\ scan.in = "workloads" /\ DOMAIN scan = DOMAIN Blank
      /\ "workloads" \in PayloadSections
  BY DEF WorkloadLine, Reading, PayloadInv, ScanInv, RowTags, PayloadSections
<1>2. ASSUME NEW p \in Nat, NextLine(p)
      PROVE  verdict' # "refused" /\ ReadTo(scan', sample, host, p + 1)
  <2>1. /\ Within("workloads", sample, host, p) /\ host \in Machines
        /\ Line = Content("workloads", sample, host)[p - Start("workloads", sample, host)]
        /\ p - Start("workloads", sample, host) \in 1..Len(Content("workloads", sample, host))
        /\ SeenTo(scan.seen, sample, host, p + 1) /\ CoreTo(scan.core, host, p + 1)
        /\ Reported(scan, sample, host, p)
        /\ \A u \in PayloadSections \ {"workloads"} : ~Within(u, sample, host, p)
    BY <1>1, <1>2, SectionRow
  <2>2. /\ Sequence(scan.disks) /\ scan.health = <<>>
        /\ Len(scan.disks) <= ReadOf("disks", sample, host, p + 1)
        /\ Told("gpus", scan.gpus, scan.gpuMessage, sample, host, p + 1)
        /\ Told("processes", scan.processes, scan.status, sample, host, p + 1)
    BY <1>1, <2>1, OthersStay
  <2>3. Line.tag = "row"
    <3>1. PICK rows : /\ Sequence(rows)
                      /\ Content("workloads", sample, host) = Rows("workloads", rows)
      BY <2>1, ContentKinds
    <3>2. \E r : Line = Row("workloads", r)
      BY <2>1, <3>1, RowsAre
    <3> QED BY <3>2 DEF Row
  <2>4. Told("workloads", scan.workloads, "", sample, host, p)
    BY <2>1 DEF Reported
  <2>5. Told("workloads", Append(scan.workloads, Line.row), "", sample, host, p + 1)
    BY <1>1, <2>1, <2>3, <2>4, ToldRow
  <2>6. /\ scan'.seen = scan.seen /\ scan'.core = scan.core /\ scan'.disks = scan.disks
        /\ scan'.gpus = scan.gpus /\ scan'.gpuMessage = scan.gpuMessage
        /\ scan'.processes = scan.processes /\ scan'.status = scan.status
        /\ scan'.workloads = Append(scan.workloads, Text) /\ scan'.health = scan.health
    BY <1>1 DEF WorkloadLine, Blank
  <2>7. Text = Line.row
    BY <2>3 DEF Text
  <2>8. Reported(scan', sample, host, p + 1)
    BY <2>2, <2>5, <2>6, <2>7 DEF Reported
  <2> QED BY <1>1, <2>1, <2>6, <2>8 DEF Reading, ReadTo
<1> QED BY <1>1, <1>2, ReadStep

\* The script tells no health but that the query for it was not needed or failed.
LEMMA HealthReads == PayloadInv /\ ReadInv /\ HealthLine => ReadInv'
<1> SUFFICES ASSUME PayloadInv, ReadInv, HealthLine PROVE ReadInv'
  OBVIOUS
<1>1. /\ Reading /\ Consumed /\ Kept /\ Line.tag \in RowTags /\ UNCHANGED verdict
      /\ verdict' \in {"", "refused"} /\ scan.in = "health" /\ DOMAIN scan = DOMAIN Blank
      /\ "health" \in PayloadSections
  BY DEF HealthLine, Reading, PayloadInv, ScanInv, RowTags, PayloadSections
<1>2. ASSUME NEW p \in Nat, NextLine(p)
      PROVE  verdict' # "refused" /\ ReadTo(scan', sample, host, p + 1)
  <2> DEFINE c == Content("health", sample, host)
             k == p - Start("health", sample, host)
  <2>1. /\ Within("health", sample, host, p) /\ host \in Machines
        /\ Line = c[k] /\ k \in 1..Len(c) /\ Line.of = "health"
        /\ SeenTo(scan.seen, sample, host, p + 1) /\ CoreTo(scan.core, host, p + 1)
        /\ Reported(scan, sample, host, p)
        /\ \A u \in PayloadSections \ {"health"} : ~Within(u, sample, host, p)
    BY <1>1, <1>2, SectionRow
  <2>2. /\ Sequence(scan.disks) /\ scan.health = <<>>
        /\ Len(scan.disks) <= ReadOf("disks", sample, host, p + 1)
        /\ Told("gpus", scan.gpus, scan.gpuMessage, sample, host, p + 1)
        /\ Told("processes", scan.processes, scan.status, sample, host, p + 1)
        /\ Told("workloads", scan.workloads, "", sample, host, p + 1)
    BY <1>1, <2>1, OthersStay
  <2>3. Line = StatusRow("health", "error")
    <3>1. c \in {<<>>, <<StatusRow("health", "error")>>}
      BY <2>1, ContentKinds
    <3> HIDE DEF c, k
    <3>2. c # <<>>
      BY <2>1, NoLines
    <3>3. Len(c) = 1 /\ c[1] = StatusRow("health", "error")
      BY <3>1, <3>2, OneLine
    <3> QED BY <2>1, <3>3
  <2>4. OwnStatus
    BY <1>1, <2>3 DEF OwnStatus, StatusRow
  <2>5. /\ scan'.seen = scan.seen /\ scan'.core = scan.core /\ scan'.disks = scan.disks
        /\ scan'.gpus = scan.gpus /\ scan'.gpuMessage = scan.gpuMessage
        /\ scan'.processes = scan.processes /\ scan'.status = scan.status
        /\ scan'.workloads = scan.workloads /\ scan'.health = <<>>
    BY <1>1, <2>4 DEF HealthLine, Blank
  <2>6. Reported(scan', sample, host, p + 1)
    BY <2>2, <2>5 DEF Reported
  <2> QED BY <1>1, <2>1, <2>5, <2>6 DEF Reading, ReadTo
<1> QED BY <1>1, <1>2, ReadStep

\* A disk is refused only where there are too many of them.
LEMMA DiskReads == PayloadInv /\ ReadInv /\ DiskLine => ReadInv'
<1> SUFFICES ASSUME PayloadInv, ReadInv, DiskLine PROVE ReadInv'
  OBVIOUS
<1>1. /\ Reading /\ Consumed /\ Kept /\ Line.tag \in RowTags
      /\ verdict' \in {"", "refused"} /\ scan.in = "disks" /\ DOMAIN scan = DOMAIN Blank
      /\ "disks" \in PayloadSections
  BY DEF DiskLine, Refuse, Reading, PayloadInv, ScanInv, RowTags, PayloadSections
<1>2. ASSUME NEW p \in Nat, NextLine(p)
      PROVE  verdict' # "refused" /\ ReadTo(scan', sample, host, p + 1)
  <2>1. /\ Within("disks", sample, host, p) /\ host \in Machines /\ Line.of = "disks"
        /\ SeenTo(scan.seen, sample, host, p + 1) /\ CoreTo(scan.core, host, p + 1)
        /\ Reported(scan, sample, host, p)
        /\ \A u \in PayloadSections \ {"disks"} : ~Within(u, sample, host, p)
    BY <1>1, <1>2, SectionRow
  <2> DEFINE k == ReadOf("disks", sample, host, p)
             n == Len(Content("disks", sample, host))
  <2>2. /\ Sequence(scan.disks) /\ scan.health = <<>> /\ Len(scan.disks) <= k
        /\ Told("gpus", scan.gpus, scan.gpuMessage, sample, host, p + 1)
        /\ Told("processes", scan.processes, scan.status, sample, host, p + 1)
        /\ Told("workloads", scan.workloads, "", sample, host, p + 1)
    BY <1>1, <2>1, OthersStay
  <2>3. ReadOf("disks", sample, host, p + 1) = k + 1 /\ k + 1 \in 1..n /\ k \in 0..n /\ n \in Nat
    <3>1. /\ \A s \in PayloadSections : Within(s, sample, host, p) =>
               /\ ReadOf(s, sample, host, p + 1) = ReadOf(s, sample, host, p) + 1
               /\ ReadOf(s, sample, host, p) + 1 \in 1..Len(Content(s, sample, host))
          /\ \A s \in PayloadSections :
               /\ ReadOf(s, sample, host, p) \in 0..Len(Content(s, sample, host))
               /\ Len(Content(s, sample, host)) \in Nat
      BY <2>1, ReadOfNext, SectionsApart
    <3> QED BY <1>1, <2>1, <3>1
  <2>4. n <= MaxDisks
    <3>1. n = Len(host.disks)
      BY <2>1, ContentKinds, RowsAre
    <3> HIDE DEF n
    <3> QED BY <1>2, <3>1 DEF NextLine, Undamaged
  <2> HIDE DEF k, n
  <2>5. Len(scan.disks) \in Nat /\ Len(scan.disks) < MaxDisks /\ Len(scan.disks) + 1 <= k + 1
    <3>1. Len(scan.disks) \in Nat
      BY <2>2, SequenceDomain
    <3>2. k \in 0..n /\ k + 1 \in 1..n /\ n \in Nat
      BY ONLY <2>3
    <3>3. Len(scan.disks) <= k
      BY ONLY <2>2
    <3> QED BY ONLY <2>4, <3>1, <3>2, <3>3, DisksAssumption
  <2>6. /\ UNCHANGED verdict
        /\ scan' \in {scan, [scan EXCEPT !.disks = Append(@, Line.row)]}
    <3>1. ~(Len(scan.disks) >= MaxDisks)
      BY ONLY <2>5, DisksAssumption
    <3> QED BY <2>1, <3>1 DEF DiskLine
  <2>7. /\ scan'.seen = scan.seen /\ scan'.core = scan.core
        /\ scan'.gpus = scan.gpus /\ scan'.gpuMessage = scan.gpuMessage
        /\ scan'.processes = scan.processes /\ scan'.status = scan.status
        /\ scan'.workloads = scan.workloads /\ scan'.health = scan.health
        /\ scan'.disks \in {scan.disks, Append(scan.disks, Line.row)}
    BY <1>1, <2>6 DEF Blank
  <2>8. Sequence(scan'.disks) /\ Len(scan'.disks) <= k + 1
    <3>1. /\ Sequence(Append(scan.disks, Line.row))
          /\ Len(Append(scan.disks, Line.row)) = Len(scan.disks) + 1
      BY <2>2, Appended
    <3>2. Len(scan.disks) <= k + 1
      BY ONLY <2>3, <2>5
    <3> QED BY <2>2, <2>5, <2>7, <3>1, <3>2
  <2>9. Reported(scan', sample, host, p + 1)
    BY <2>2, <2>3, <2>7, <2>8 DEF Reported
  <2> QED BY <1>1, <2>1, <2>6, <2>7, <2>9 DEF Reading, ReadTo
<1> QED BY <1>1, <1>2, ReadStep

\* The core values are read, the first and the last among them.
LEMMA CoreReads == PayloadInv /\ ReadInv /\ CoreLine => ReadInv'
<1> SUFFICES ASSUME PayloadInv, ReadInv, CoreLine PROVE ReadInv'
  OBVIOUS
<1>1. /\ Reading /\ Consumed /\ Kept /\ Line.tag \in RowTags /\ UNCHANGED verdict
      /\ verdict' \in {"", "refused"} /\ scan.in = Outside /\ DOMAIN scan = DOMAIN Blank
      /\ host \in Machines
  BY DEF CoreLine, Reading, PayloadInv, LinesInv, ScanInv, RowTags
<1>2. ASSUME NEW p \in Nat, NextLine(p)
      PROVE  verdict' # "refused" /\ ReadTo(scan', sample, host, p + 1)
  <2>1. /\ host.core /\ p < Len(Script(sample, host)) /\ Line = Script(sample, host)[p + 1]
        /\ SeenTo(scan.seen, sample, host, p) /\ CoreTo(scan.core, host, p)
        /\ Reported(scan, sample, host, p) /\ p \in Nat
    BY <1>2 DEF Undamaged, NextLine, ReadTo
  <2> DEFINE c == SystemLines(host)
             n == Len(c)
  <2>2. p < n
    <3>1. SUFFICES ASSUME ~(p < n) PROVE FALSE
      OBVIOUS
    <3>2. RowHere(Line, sample, host, p)
      BY <1>1, <2>1, <3>1, OtherLines
    <3>3. PICK s \in PayloadSections : Within(s, sample, host, p)
      BY <3>2 DEF RowHere
    <3>4. Start(s, sample, host) < p /\ p < Stop(s, sample, host)
      BY <1>1, <3>3, Places
    <3>5. scan.in = s
      BY <2>1, <3>4, InIsWhere
    <3> QED BY <1>1, <3>5 DEF PayloadSections, Outside
  <2>3. Line = c[p + 1]
    BY <1>1, <2>1, <2>2, OtherLines
  <2>4. /\ n \in Nat /\ n >= 2 /\ c[1] = Row(Outside, "HOST") /\ c[n] = Row(Outside, "TOTALS")
        /\ \A i \in 1..n :
             \E r \in {"HOST", "psi", "odd psi", "TOTALS"} : c[i] = Row(Outside, r)
    BY <1>1, <2>1, CoreLines
  <2> HIDE DEF c, n
  <2>5. /\ p \in Nat /\ p + 1 \in 1..n
        /\ p = 0 \/ p >= 1
        /\ p = 0 => p + 1 = 1
        /\ p + 1 >= n => p + 1 = n
    <3>1. p \in Nat /\ n \in Nat /\ p < n
      BY <2>2, <2>4
    <3> QED BY ONLY <3>1
  <2>6. PICK r \in {"HOST", "psi", "odd psi", "TOTALS"} : Line = Row(Outside, r)
    BY <2>3, <2>4, <2>5
  <2>7. /\ Line.of = Outside /\ Line.row = r
        /\ p = 0 => r = "HOST"
        /\ p + 1 = n => r = "TOTALS"
    <3>1. Line.of = Outside /\ Line.row = r /\ \A v : Row(Outside, v).row = v
      BY <2>6 DEF Row
    <3>2. p = 0 => Line = c[1]
      BY <2>3, <2>5
    <3>3. p + 1 = n => Line = c[n]
      BY <2>3
    <3> QED BY <2>4, <3>1, <3>2, <3>3
  <2>8. /\ scan'.seen = scan.seen /\ scan'.disks = scan.disks
        /\ scan'.gpus = scan.gpus /\ scan'.gpuMessage = scan.gpuMessage
        /\ scan'.processes = scan.processes /\ scan'.status = scan.status
        /\ scan'.workloads = scan.workloads /\ scan'.health = scan.health
        /\ scan'.core = IF r \in {"psi", "odd psi"} THEN scan.core ELSE scan.core \cup {r}
    BY <1>1, <2>7 DEF CoreLine, Blank
  <2>9. CoreTo(scan'.core, host, p + 1)
    <3>1. scan'.core \subseteq {"HOST", "TOTALS"}
      BY <2>1, <2>6, <2>8 DEF CoreTo
    <3>2. "HOST" \in scan'.core
      <4>1. CASE p = 0
        BY <2>7, <2>8, <4>1
      <4>2. CASE p >= 1
        BY <2>1, <2>8, <4>2 DEF CoreTo
      <4> QED BY <2>5, <4>1, <4>2
    <3>3. p + 1 >= n => "TOTALS" \in scan'.core
      BY <2>5, <2>7, <2>8
    <3> QED BY <3>1, <3>2, <3>3 DEF CoreTo, n, c
  <2>10. SeenTo(scan'.seen, sample, host, p + 1)
    BY <1>1, <2>1, <2>2, <2>8, SeenNext DEF n, c
  <2>11. \A s \in PayloadSections : ~Within(s, sample, host, p)
    BY <1>1, <2>1, <2>2, Places DEF n, c
  <2>12. Reported(scan', sample, host, p + 1)
    BY <1>1, <2>1, <2>8, <2>11, ReportedStays
  <2> QED BY <1>1, <2>9, <2>10, <2>12 DEF Reading, ReadTo
<1> QED BY <1>1, <1>2, ReadStep

\* At the start nothing is read.
LEMMA ReadInvInit == PayloadInit => ReadInv
<1> SUFFICES ASSUME PayloadInit PROVE ReadInv
  OBVIOUS
<1>1. /\ sample \in Samples /\ host \in Machines /\ output = Script(sample, host)
      /\ scan = Blank /\ verdict = "" /\ faults = 0
  BY DEF PayloadInit
<1> DEFINE script == Script(sample, host)
<1>2. Sequence(script) /\ Len(script) \in Nat
  BY <1>1, ScriptPlaced, SequenceDomain
<1>3. LeftAfter(output, script, 0) /\ 0 \in 0..Len(script)
  <2>1. output = script
    BY <1>1
  <2> HIDE DEF script
  <2>2. \A i \in 1..Len(script) : 0 + i = i
    BY <1>2
  <2> QED BY <1>2, <2>1, <2>2 DEF LeftAfter
<1>4. ASSUME host.core PROVE ReadTo(scan, sample, host, 0)
  <2>1. SeenTo({}, sample, host, 0)
    <3>1. \A s \in PayloadSections :
            ~(Start(s, sample, host) < 0) /\ ~(Stop(s, sample, host) <= 0)
      <4>1. \A s \in PayloadSections :
              /\ Start(s, sample, host) \in Nat /\ Len(Content(s, sample, host)) \in Nat
              /\ Stop(s, sample, host) = Start(s, sample, host) + Len(Content(s, sample, host)) + 2
        BY <1>1, SectionsApart
      <4> QED BY ONLY <4>1
    <3> QED BY <3>1 DEF SeenTo
  <2>2. CoreTo({}, host, 0)
    <3>1. Len(SystemLines(host)) \in Nat /\ Len(SystemLines(host)) >= 2
      BY <1>1, <1>4, CoreLines
    <3>2. ~(0 >= Len(SystemLines(host))) /\ ~(0 >= 1)
      BY ONLY <3>1
    <3> QED BY <3>2 DEF CoreTo
  <2>3. /\ Sequence(<<>>) /\ Len(<<>>) = 0
        /\ \A s \in PayloadSections : ReadOf(s, sample, host, 0) = 0
    <3>1. 0 \in Nat
      OBVIOUS
    <3>2. \A s \in PayloadSections : ReadOf(s, sample, host, 0) = 0
      BY ONLY <1>1, <3>1, ReadOfNext
    <3> QED BY <3>2, NoLines
  <2>4. \A s \in PayloadSections : Told(s, <<>>, "", sample, host, 0)
    BY <2>3 DEF Told, Says
  <2>5. /\ scan.seen = {} /\ scan.core = {} /\ scan.disks = <<>> /\ scan.gpus = <<>>
        /\ scan.gpuMessage = "" /\ scan.processes = <<>> /\ scan.status = ""
        /\ scan.workloads = <<>> /\ scan.health = <<>>
    BY <1>1 DEF Blank
  <2>6. Reported(scan, sample, host, 0)
    <3>1. /\ "disks" \in PayloadSections /\ "gpus" \in PayloadSections
          /\ "processes" \in PayloadSections /\ "workloads" \in PayloadSections
      BY DEF PayloadSections
    <3>2. ReadOf("disks", sample, host, 0) = 0 /\ 0 <= 0
      BY <2>3, <3>1
    <3> QED BY <2>3, <2>4, <2>5, <3>1, <3>2 DEF Reported
  <2> QED BY <2>1, <2>2, <2>5, <2>6 DEF ReadTo
<1> HIDE DEF script
<1> QED BY <1>1, <1>3, <1>4 DEF ReadInv, script

\* A fault ends what is said of a payload without one.
LEMMA DamageReads == ReadInv /\ (Lose \/ Repeat \/ Cut) => ReadInv'
<1> SUFFICES ASSUME ReadInv, Lose \/ Repeat \/ Cut PROVE ReadInv'
  OBVIOUS
<1>1. faults' = faults + 1 /\ sample' = sample /\ faults \in Nat /\ sample \in Samples
  BY DEF ReadInv, Lose, Repeat, Cut
<1>2. faults' \in Nat /\ faults' # 0
  BY <1>1
<1> QED BY <1>1, <1>2 DEF ReadInv

-------------------------------------------------------------------------------
(* What the parser knows when it read all of the script *)

\* These rows, or this status, are all that section s has.
Whole(s, rows, status, q, m) ==
  /\ Sequence(rows)
  /\ \/ /\ ~Says(status) /\ Len(rows) = Len(Content(s, q, m))
        /\ \A i \in 1..Len(rows) : Content(s, q, m)[i] = Row(s, rows[i])
     \/ /\ Says(status) /\ rows = <<>> /\ Content(s, q, m) = <<StatusRow(s, status)>>

\* When no line is left, every section was read to its end.
LEMMA AllRead ==
  ASSUME PayloadInv, ReadInv, Undamaged, output = <<>>
  PROVE  /\ CompleteSections /\ scan.core = {"HOST", "TOTALS"} /\ scan.health = <<>>
         /\ Whole("gpus", scan.gpus, scan.gpuMessage, sample, host)
         /\ Whole("processes", scan.processes, scan.status, sample, host)
         /\ Whole("workloads", scan.workloads, "", sample, host)
<1> DEFINE n == Len(Script(sample, host))
           c == Len(SystemLines(host))
<1>1. PICK p \in 0..n : LeftAfter(output, Script(sample, host), p) /\ ReadTo(scan, sample, host, p)
  BY DEF ReadInv, Undamaged
<1>2. host \in Machines /\ host.core
  BY DEF PayloadInv, LinesInv, Undamaged
<1>3. n \in Nat
  BY <1>2, ScriptPlaced, SequenceDomain
<1>4. p \in Nat /\ p = n
  <2>1. p + Len(output) = n /\ Len(output) = 0 /\ p \in Nat
    BY <1>1, NoLines DEF LeftAfter
  <2> HIDE DEF n
  <2> QED BY ONLY <2>1, <1>3
<1>5. \A s \in PayloadSections :
        /\ Start(s, sample, host) \in Nat /\ Stop(s, sample, host) \in Nat
        /\ c <= Start(s, sample, host) /\ Stop(s, sample, host) <= n
        /\ Start(s, sample, host) < Stop(s, sample, host)
  <2>1. \A s \in PayloadSections :
          /\ Start(s, sample, host) \in Nat /\ Len(Content(s, sample, host)) \in Nat
          /\ Stop(s, sample, host) \in Nat
          /\ Stop(s, sample, host) = Start(s, sample, host) + Len(Content(s, sample, host)) + 2
          /\ c <= Start(s, sample, host) /\ Stop(s, sample, host) <= n
    BY <1>2, SectionsApart
  <2> QED BY ONLY <2>1
<1>6. c \in Nat /\ c >= 2
  BY <1>2, CoreLines
<1>7. /\ "disks" \in PayloadSections /\ "gpus" \in PayloadSections
      /\ "processes" \in PayloadSections /\ "workloads" \in PayloadSections
      /\ "health" \in PayloadSections
  BY DEF PayloadSections
<1> HIDE DEF n, c
<1>8. \A s \in PayloadSections :
        Start(s, sample, host) < p /\ Stop(s, sample, host) <= p /\ ~(p < Stop(s, sample, host))
  BY ONLY <1>3, <1>4, <1>5
<1>9. p >= 1 /\ p >= c
  BY ONLY <1>3, <1>4, <1>5, <1>6, <1>7
<1>10. CompleteSections
  <2>1. \A s \in PayloadSections : Opening(s) \in scan.seen /\ Closing(s) \in scan.seen
    BY <1>1, <1>8 DEF ReadTo, SeenTo
  <2>2. scan.seen = Markers
    BY <2>1 DEF Markers, PayloadInv, ScanInv
  <2>3. scan.in = Outside
    BY <2>1 DEF PayloadInv, ScanInv
  <2> QED BY <2>2, <2>3 DEF CompleteSections
<1>11. scan.core = {"HOST", "TOTALS"}
  BY <1>1, <1>9 DEF ReadTo, CoreTo, c
<1>12. \A s \in PayloadSections :
         ReadOf(s, sample, host, p) = Len(Content(s, sample, host))
  <2>1. \A s \in PayloadSections : p >= Stop(s, sample, host)
    BY ONLY <1>4, <1>3, <1>5
  <2> QED BY <1>2, <1>4, <2>1, ReadOfNext
<1>13. \A s \in PayloadSections : \A rows, status :
         Told(s, rows, status, sample, host, p) => Whole(s, rows, status, sample, host)
  BY <1>12 DEF Told, Whole
<1> QED BY <1>1, <1>7, <1>10, <1>11, <1>13 DEF ReadTo, Reported

\* Rows are no status.
LEMMA WholeRows ==
  ASSUME NEW s, NEW got, NEW status, NEW q, NEW m, Whole(s, got, status, q, m),
         NEW rows, Sequence(rows), Content(s, q, m) = Rows(s, rows)
  PROVE  /\ ~Says(status) /\ Len(got) = Len(rows) /\ DOMAIN got = DOMAIN rows
         /\ DOMAIN got = 1..Len(rows) /\ \A i \in DOMAIN got : got[i] = rows[i]
<1>1. /\ Len(Rows(s, rows)) = Len(rows) /\ Len(rows) \in Nat /\ DOMAIN rows = 1..Len(rows)
      /\ \A i \in 1..Len(rows) : Rows(s, rows)[i] = Row(s, rows[i])
  BY RowsAre, SequenceDomain
<1>2. Sequence(got) /\ Len(got) \in Nat /\ DOMAIN got = 1..Len(got)
  BY SequenceDomain DEF Whole
<1>3. Rows(s, rows) # <<StatusRow(s, status)>>
  <2>1. SUFFICES ASSUME Rows(s, rows) = <<StatusRow(s, status)>> PROVE FALSE
    OBVIOUS
  <2>2. Len(rows) = 1 /\ Rows(s, rows)[1] = StatusRow(s, status)
    BY <1>1, <2>1, OneLine
  <2>3. Row(s, rows[1]) = StatusRow(s, status)
    BY <1>1, <2>2
  <2>4. Row(s, rows[1]).tag = "row" /\ StatusRow(s, status).tag = "status"
    BY DEF Row, StatusRow
  <2> QED BY <2>3, <2>4
<1>4. /\ ~Says(status) /\ Len(got) = Len(rows)
      /\ \A i \in 1..Len(got) : Rows(s, rows)[i] = Row(s, got[i])
  BY <1>1, <1>3 DEF Whole
<1>5. \A x, y : Row(s, x) = Row(s, y) => x = y
  <2>1. \A x : Row(s, x).row = x
    BY DEF Row
  <2> QED BY <2>1
<1>6. \A i \in 1..Len(got) : got[i] = rows[i]
  BY <1>1, <1>4, <1>5
<1> QED BY <1>1, <1>2, <1>4, <1>6

\* A status is no rows.
LEMMA WholeStatus ==
  ASSUME NEW s, NEW got, NEW status, NEW q, NEW m, Whole(s, got, status, q, m),
         NEW v, Content(s, q, m) = <<StatusRow(s, v)>>
  PROVE  Says(status) /\ got = <<>> /\ status = v
<1>1. Len(<<StatusRow(s, v)>>) = 1 /\ <<StatusRow(s, v)>>[1] = StatusRow(s, v)
  BY OneLine
<1>2. \A x : Row(s, x).tag = "row" /\ StatusRow(s, x).tag = "status" /\ StatusRow(s, x).says = x
  BY DEF Row, StatusRow
<1>3. Says(status) /\ got = <<>> /\ <<StatusRow(s, v)>> = <<StatusRow(s, status)>>
  BY <1>1, <1>2 DEF Whole
<1>4. StatusRow(s, v) = StatusRow(s, status)
  BY <1>1, <1>3, OneLine
<1>5. status = v
  BY <1>2, <1>4
<1> QED BY <1>3, <1>5

\* what the parser is promised of the GPUs of a machine: rows, and sound ones
Shown(m) == m.smi \in {"combined", "fallback"}
SoundGpus(m) ==
  /\ Len(m.gpus) <= MaxGpus
  /\ \A i \in DOMAIN m.gpus : m.gpus[i].sound
  /\ AllDistinct(m.gpus, LAMBDA r : r.index)

\* The rows of the GPUs differ from the GPUs in their health only.
LEMMA GpuContent ==
  ASSUME NEW m \in Machines, NEW q, Shown(m)
  PROVE  \E rows :
           /\ Sequence(rows) /\ Content("gpus", q, m) = Rows("gpus", rows)
           /\ Len(rows) = Len(m.gpus) /\ DOMAIN rows = DOMAIN m.gpus
           /\ \A i \in DOMAIN rows :
                /\ rows[i].sound = m.gpus[i].sound /\ rows[i].index = m.gpus[i].index
                /\ rows[i].health # "none" <=> m.smi = "combined"
<1>1. /\ Sequence(m.gpus)
      /\ \A i \in DOMAIN m.gpus :
           /\ DOMAIN m.gpus[i] = {"index", "uuid", "sound", "health"}
           /\ m.gpus[i].health # "none"
  BY MachinesAssumption DEF Sequence, Range
<1>2. Len(m.gpus) \in Nat /\ DOMAIN m.gpus = 1..Len(m.gpus)
  BY <1>1, SequenceDomain
<1>3. CASE m.smi = "combined"
  <2>1. Content("gpus", q, m) = Rows("gpus", m.gpus)
    BY <1>3 DEF Content, GpuLines
  <2> QED BY <1>1, <1>3, <2>1
<1>4. CASE m.smi = "fallback"
  <2> DEFINE rows == [i \in 1..Len(m.gpus) |-> [m.gpus[i] EXCEPT !.health = "none"]]
  <2>1. Content("gpus", q, m) = Rows("gpus", rows)
    BY <1>4 DEF Content, GpuLines
  <2>2. DOMAIN rows = 1..Len(m.gpus)
    OBVIOUS
  <2>3. rows \in [1..Len(m.gpus) -> Range(rows)]
    BY DEF Range
  <2>4. rows \in Seq(Range(rows))
    BY <1>2, <2>3, SeqDef
  <2>5. \A i \in DOMAIN rows :
          /\ rows[i].sound = m.gpus[i].sound /\ rows[i].index = m.gpus[i].index
          /\ rows[i].health = "none"
    BY <1>1, <1>2
  <2> HIDE DEF rows
  <2>6. Sequence(rows) /\ Len(rows) = Len(m.gpus)
    <3>1. Sequence(rows)
      BY <2>4 DEF Sequence
    <3>2. Len(rows) \in Nat /\ 1..Len(rows) = 1..Len(m.gpus)
      BY <2>2, <3>1, SequenceDomain
    <3>3. Len(rows) = Len(m.gpus)
      BY ONLY <1>2, <3>2
    <3> QED BY <3>1, <3>3
  <2>7. m.smi # "combined"
    BY <1>4
  <2> QED BY <1>2, <2>1, <2>2, <2>5, <2>6, <2>7
<1> QED BY <1>3, <1>4 DEF Shown

\* The parser shows the GPUs that the script printed, when they are sound.
LEMMA GpusShown ==
  ASSUME NEW m \in Machines, NEW q, Whole("gpus", scan.gpus, scan.gpuMessage, q, m)
  PROVE  /\ scan.gpuMessage = "" \/ scan.gpus = <<>>
         /\ Shown(m) => /\ DOMAIN scan.gpus = 1..Len(m.gpus) /\ Len(m.gpus) \in Nat
                        /\ GpusSound <=> SoundGpus(m)
         /\ ~Shown(m) => scan.gpus = <<>>
<1>1. CASE Shown(m)
  <2>1. PICK rows :
           /\ Sequence(rows) /\ Content("gpus", q, m) = Rows("gpus", rows)
           /\ Len(rows) = Len(m.gpus) /\ DOMAIN rows = DOMAIN m.gpus
           /\ \A i \in DOMAIN rows :
                /\ rows[i].sound = m.gpus[i].sound /\ rows[i].index = m.gpus[i].index
                /\ rows[i].health # "none" <=> m.smi = "combined"
    BY <1>1, GpuContent
  <2> DEFINE gpus == scan.gpus
  <2>2. /\ ~Says(scan.gpuMessage) /\ Len(gpus) = Len(rows) /\ DOMAIN gpus = DOMAIN rows
        /\ DOMAIN gpus = 1..Len(rows) /\ \A i \in DOMAIN gpus : gpus[i] = rows[i]
    BY <2>1, WholeRows
  <2>3. Sequence(gpus) /\ Len(gpus) \in Nat
    BY SequenceDomain DEF Whole
  <2>4. \A i \in DOMAIN gpus :
          /\ gpus[i].sound = m.gpus[i].sound /\ gpus[i].index = m.gpus[i].index
          /\ gpus[i].health # "none" <=> m.smi = "combined"
    BY <2>1, <2>2
  <2>5. \A i \in DOMAIN gpus : gpus[i].health # "none" <=> Combined
    <3>1. SUFFICES ASSUME NEW i \in DOMAIN gpus
                   PROVE  gpus[i].health # "none" <=> Combined
      OBVIOUS
    <3>2. gpus # <<>>
      BY <3>1, NoLines
    <3>3. 1 \in DOMAIN gpus /\ Head(gpus) = gpus[1]
      BY <2>2, <2>3, <3>1, <3>2 DEF Sequence
    <3>4. Head(gpus).health # "none" <=> m.smi = "combined"
      BY <2>4, <3>3
    <3> QED BY <2>4, <3>1, <3>2, <3>4 DEF Combined
  <2>6. AllDistinct(gpus, LAMBDA r : r.index) <=> AllDistinct(m.gpus, LAMBDA r : r.index)
    BY <2>1, <2>2, <2>4 DEF AllDistinct
  <2>7. GpusSound <=> SoundGpus(m)
    BY <2>1, <2>2, <2>4, <2>5, <2>6 DEF GpusSound, SoundGpus
  <2>8. scan.gpuMessage = ""
    BY <2>2 DEF Says
  <2> QED BY <1>1, <2>1, <2>2, <2>3, <2>7, <2>8
<1>2. CASE ~Shown(m)
  <2>1. m.smi \in {"absent", "fails"}
    BY <1>2, MachinesAssumption DEF Shown
  <2>2. \/ Content("gpus", q, m) = <<StatusRow("gpus", "unavailable")>>
        \/ Content("gpus", q, m) = <<StatusRow("gpus", "error")>>
    BY <2>1 DEF Content, GpuLines
  <2>3. scan.gpus = <<>>
    BY <2>2, WholeStatus
  <2> QED BY <1>2, <2>3
<1> QED BY <1>1, <1>2

\* The parser knows whether processes were asked for, and counts them only when the
\* query succeeded and all of its rows are sound.
LEMMA ProcessesShown ==
  ASSUME NEW m \in Machines, NEW q \in Samples,
         Whole("processes", scan.processes, scan.status, q, m),
         Whole("workloads", scan.workloads, "", q, m)
  PROVE  /\ scan.status = "skipped" <=> ~q.processes
         /\ ~q.processes => scan.workloads = <<>>
         /\ q.processes /\ m.smi # "absent" /\ Sampled.available =>
              m.query /\ \A i \in DOMAIN m.procs : m.procs[i].sound
<1>1. q.processes \in BOOLEAN /\ Sequence(m.procs)
  BY SamplesAssumption, MachinesAssumption DEF Sequence
<1>4. Whole("processes", scan.processes, scan.status, q, m)
  OBVIOUS
<1>2. CASE ~q.processes
  <2>1. Content("processes", q, m) = <<StatusRow("processes", "skipped")>>
    BY <1>2 DEF Content, ProcessLines
  <2>2. scan.status = "skipped"
    BY ONLY <1>4, <2>1, WholeStatus
  <2>3. Content("workloads", q, m) = <<>>
    BY <1>2 DEF Content, WorkloadLines, Answered
  <2>4. Len(scan.workloads) = 0 /\ Sequence(scan.workloads)
    <3>1. ~Says("")
      BY DEF Says
    <3> QED BY <2>3, <3>1, NoLines DEF Whole
  <2>5. scan.workloads = <<>>
    BY ONLY <2>4 DEF Sequence
  <2> QED BY <1>2, <2>2, <2>5
<1>3. CASE q.processes
  <2>1. CASE m.smi = "absent"
    <3>1. Content("processes", q, m) = <<>>
      BY <1>3, <2>1 DEF Content, ProcessLines
    <3>2. <<StatusRow("processes", scan.status)>> # <<>>
      OBVIOUS
    <3>3. ~Says(scan.status)
      BY <3>1, <3>2 DEF Whole
    <3>4. scan.status # "skipped"
      BY <3>3 DEF Says
    <3> QED BY <1>3, <2>1, <3>4
  <2>2. CASE m.smi # "absent" /\ ~m.query
    <3>1. Content("processes", q, m) = <<>> \o <<StatusRow("processes", "error")>>
      BY <1>3, <2>2 DEF Content, ProcessLines, Answered
    <3>2. Content("processes", q, m) = <<StatusRow("processes", "error")>>
      BY <3>1, NothingAdded, OneLine
    <3>3. scan.status = "error"
      BY ONLY <1>4, <3>2, WholeStatus
    <3> QED BY <1>3, <3>3 DEF Sampled
  <2>3. CASE m.smi # "absent" /\ m.query
    <3>1. Content("processes", q, m) = Rows("processes", m.procs) \o <<>>
      BY <1>3, <2>3 DEF Content, ProcessLines, Answered
    <3>2. Content("processes", q, m) = Rows("processes", m.procs)
      BY ONLY <1>1, <3>1, RowsAre, NothingAdded
    <3>3. /\ ~Says(scan.status) /\ DOMAIN scan.processes = DOMAIN m.procs
          /\ \A i \in DOMAIN scan.processes : scan.processes[i] = m.procs[i]
      BY ONLY <1>1, <1>4, <3>2, WholeRows
    <3>4. scan.status = ""
      BY <3>3 DEF Says
    <3>5. scan.status # "skipped"
      BY <3>4
    <3>6. Sampled.available = (scan.status # "error" /\ (scan.status = "" => ProcessesSound))
      BY DEF Sampled
    <3>7. Sampled.available => ProcessesSound
      BY <3>4, <3>6
    <3>8. ProcessesSound => \A i \in DOMAIN m.procs : m.procs[i].sound
      BY <3>3 DEF ProcessesSound
    <3> QED BY <1>3, <2>3, <3>5, <3>7, <3>8
  <2> QED BY <2>1, <2>2, <2>3
<1> QED BY <1>2, <1>3

\* The end of an undamaged payload is a sample of what was asked.
LEMMA FinishReads == PayloadInv /\ ReadInv /\ Finish => ReadInv' /\ ScriptUnderstood'
<1> SUFFICES ASSUME PayloadInv, ReadInv, Finish PROVE ReadInv' /\ ScriptUnderstood'
  OBVIOUS
<1>1. /\ output = <<>> /\ sample \in Samples /\ host \in Machines
      /\ UNCHANGED <<sample, host, output, scan, cut, faults>>
  BY DEF Finish, ReadInv, PayloadInv, LinesInv
<1>2. ASSUME Undamaged
      PROVE  /\ verdict' = "sample" /\ answer' = Sampled
             /\ Sampled.sampled = sample.processes
             /\ Len(Sampled.gpus) = IF Shown(host) /\ SoundGpus(host) THEN Len(host.gpus) ELSE 0
             /\ sample.processes /\ host.smi # "absent" /\ Sampled.available =>
                  host.query /\ \A i \in DOMAIN host.procs : host.procs[i].sound
  <2>1. /\ CompleteSections /\ scan.core = {"HOST", "TOTALS"} /\ scan.health = <<>>
        /\ Whole("gpus", scan.gpus, scan.gpuMessage, sample, host)
        /\ Whole("processes", scan.processes, scan.status, sample, host)
        /\ Whole("workloads", scan.workloads, "", sample, host)
    BY <1>1, <1>2, AllRead
  <2>2. /\ scan.gpuMessage = "" \/ scan.gpus = <<>>
        /\ Shown(host) => /\ DOMAIN scan.gpus = 1..Len(host.gpus) /\ Len(host.gpus) \in Nat
                          /\ GpusSound <=> SoundGpus(host)
        /\ ~Shown(host) => scan.gpus = <<>>
    BY <1>1, <2>1, GpusShown
  <2>3. /\ scan.status = "skipped" <=> ~sample.processes
        /\ ~sample.processes => scan.workloads = <<>>
        /\ sample.processes /\ host.smi # "absent" /\ Sampled.available =>
             host.query /\ \A i \in DOMAIN host.procs : host.procs[i].sound
    BY <1>1, <2>1, ProcessesShown
  <2>4. Coherent
    BY <2>1, <2>2, <2>3 DEF Coherent
  <2>5. verdict' = "sample" /\ answer' = Sampled
    BY <2>1, <2>4 DEF Finish
  <2>6. Sampled.sampled = sample.processes
    <3>1. Sampled.sampled = (scan.status # "skipped")
      BY DEF Sampled
    <3>2. sample.processes \in BOOLEAN
      BY <1>1, SamplesAssumption
    <3> QED BY <2>3, <3>1, <3>2
  <2>7. Len(Sampled.gpus) = IF Shown(host) /\ SoundGpus(host) THEN Len(host.gpus) ELSE 0
    <3> DEFINE gpus == Sampled.gpus
    <3>1. gpus = IF ~GpusSound THEN <<>>
                 ELSE [i \in DOMAIN scan.gpus |->
                         [index |-> scan.gpus[i].index, uuid |-> scan.gpus[i].uuid,
                          processes |-> ProcessesFor(scan.gpus[i].uuid),
                          health |-> scan.gpus[i].uuid \in InlineHealth \cup SectionHealth]]
      BY DEF Sampled
    <3>2. GpusSound => DOMAIN gpus = DOMAIN scan.gpus /\ gpus \in [DOMAIN gpus -> Range(gpus)]
      BY <3>1 DEF Range
    <3>3. ~GpusSound => Len(gpus) = 0
      BY <3>1, NoLines
    <3> HIDE DEF gpus
    <3>4. CASE Shown(host) /\ GpusSound
      <4>1. gpus \in Seq(Range(gpus)) /\ DOMAIN gpus = 1..Len(host.gpus)
        BY <2>2, <3>2, <3>4, SeqDef
      <4>2. Len(gpus) \in Nat /\ 1..Len(gpus) = 1..Len(host.gpus) /\ Len(host.gpus) \in Nat
        BY <2>2, <3>4, <4>1, SequenceOf
      <4>3. Len(gpus) = Len(host.gpus)
        BY ONLY <4>2
      <4> QED BY <2>2, <3>4, <4>3 DEF gpus
    <3>5. CASE ~Shown(host) /\ GpusSound
      <4>1. gpus \in [{} -> Range(gpus)] /\ DOMAIN gpus = {}
        BY <2>2, <3>2, <3>5, NoLines
      <4>2. gpus = <<>>
        BY <4>1
      <4> QED BY <3>5, <4>2, NoLines DEF gpus
    <3>6. CASE ~GpusSound
      BY <2>2, <3>3, <3>6 DEF gpus
    <3> QED BY <3>4, <3>5, <3>6
  <2> QED BY <2>3, <2>5, <2>6, <2>7
<1>3. ReadInv'
  <2>1. Undamaged => verdict' # "refused"
    BY <1>2
  <2>2. /\ LeftAfter(output, Script(sample, host), 0)' <=> LeftAfter(output, Script(sample, host), 0)
        /\ sample' \in Samples /\ faults' \in Nat
    BY <1>1 DEF ReadInv
  <2>3. Undamaged => \E p \in 0..Len(Script(sample, host)) :
          LeftAfter(output, Script(sample, host), p) /\ ReadTo(scan, sample, host, p)
    BY DEF ReadInv, Undamaged
  <2> QED BY <1>1, <2>1, <2>2, <2>3 DEF ReadInv, Undamaged
<1>4. ScriptUnderstood'
  <2>1. Undamaged =>
          /\ verdict' = "sample" /\ answer'.sampled = sample.processes
          /\ Len(answer'.gpus) = IF Shown(host) /\ SoundGpus(host) THEN Len(host.gpus) ELSE 0
          /\ sample.processes /\ host.smi # "absent" /\ answer'.available =>
               host.query /\ \A i \in DOMAIN host.procs : host.procs[i].sound
    BY <1>2
  <2> QED BY <1>1, <2>1 DEF ScriptUnderstood, Undamaged, Shown, SoundGpus, AllDistinct
<1> QED BY <1>3, <1>4

\* Where the parser is in the script, and what it made of all of it.
UnderstoodInv == PayloadInv /\ ReadInv /\ ScriptUnderstood

\* Nothing is understood before the end.
LEMMA NotYet ==
  ASSUME ReadInv', verdict' \in {"", "refused"} PROVE ScriptUnderstood'
BY DEF ReadInv, ScriptUnderstood

\* Every step keeps the invariant.
LEMMA UnderstoodInvNext == UnderstoodInv /\ [PayloadNext]_payloadVars => UnderstoodInv'
<1> SUFFICES ASSUME UnderstoodInv, [PayloadNext]_payloadVars PROVE UnderstoodInv'
  OBVIOUS
<1>1. PayloadInv'
  BY PayloadInvNext DEF UnderstoodInv
<1>2. CASE UNCHANGED payloadVars
  <2>1. UNCHANGED <<sample, host, output, scan, verdict, answer, faults>>
    BY <1>2 DEF payloadVars
  <2>2. ReadInv'
    BY <2>1 DEF UnderstoodInv, ReadInv
  <2>3. ScriptUnderstood'
    BY <2>1 DEF UnderstoodInv, ScriptUnderstood, AllDistinct
  <2> QED BY <1>1, <2>2, <2>3 DEF UnderstoodInv
<1>3. CASE Finish
  BY <1>1, <1>3, FinishReads DEF UnderstoodInv
<1>4. CASE \/ OpenSection \/ CloseSection \/ GpuLine \/ ProcessLine \/ HealthLine
           \/ WorkloadLine \/ DiskLine \/ CoreLine \/ Lose \/ Repeat \/ Cut
  <2>1. ReadInv'
    BY <1>4, OpenReads, CloseReads, GpuReads, ProcessReads, HealthReads, WorkloadReads,
       DiskReads, CoreReads, DamageReads DEF UnderstoodInv
  <2>2. verdict' \in {"", "refused"}
    BY <1>4 DEF OpenSection, CloseSection, GpuLine, ProcessLine, HealthLine, WorkloadLine,
                DiskLine, CoreLine, Lose, Repeat, Cut, Reading, Refuse
  <2> QED BY <1>1, <2>1, <2>2, NotYet DEF UnderstoodInv
<1> QED BY <1>2, <1>3, <1>4 DEF PayloadNext

\* Whatever the machine and its tools: the parser takes what the script prints, shows
\* the GPUs of the host or none of them, says whether processes were asked for, and
\* counts them only when the query answered in full (_parse_resource_payload with
\* _REMOTE_SCRIPT_TEMPLATE).
THEOREM ScriptsUnderstood == PayloadSpec => []ScriptUnderstood
<1>1. PayloadInit => UnderstoodInv
  <2>1. PayloadInit => ScriptUnderstood
    BY DEF PayloadInit, ScriptUnderstood
  <2> QED BY <2>1, PayloadInvInit, ReadInvInit DEF UnderstoodInv
<1>2. UnderstoodInv => ScriptUnderstood
  BY DEF UnderstoodInv
<1> QED BY <1>1, <1>2, UnderstoodInvNext, PTL DEF PayloadSpec
===============================================================================
