--------------------------- MODULE MCSummarySource ---------------------------
(* A node with every combination of sections, and up to three pods with no *)
(* container, one or two, complete or not.  With MaxInt = 7 the readings   *)
(* 7 and 8 are the last that fits a signed integer and the first that does *)
(* not, and 15 is the largest.                                             *)
EXTENDS SummarySource

CONSTANTS node, p1, p2, p3

MCNames == {p1, p2, p3}

Section(t, v) == [time |-> t, value |-> v]
Stats(c, m) == [cpu |-> c, mem |-> m]

Sections ==
    {Section(1, v) : v \in {Absent, 0, 5, 7, 8, 15}}
    \cup {Section(0, Absent), Section(0, 5), Section(2, 5)}
MCNodeStats == [cpu : Sections, mem : Sections]

\* Complete with either section the older and with one time only; then without
\* a time, without a value.
CpuOlder == Stats(Section(1, 5), Section(2, 6))
MemOlder == Stats(Section(2, 6), Section(1, 5))
OneTime == Stats(Section(0, 8), Section(2, 15))
NoTimes == Stats(Section(0, 5), Section(0, 6))
NoMemory == Stats(Section(1, 5), Section(1, Absent))

Containers == {<<>>, <<CpuOlder>>, <<MemOlder, OneTime>>, <<CpuOlder, NoMemory>>,
               <<NoTimes, MemOlder>>}

Pods(n) == [name : {n}, containers : Containers]
MCPodStats == {<<>>} \cup {<<p>> : p \in Pods(p1)} \cup Pods(p1) \X Pods(p2)
              \cup Pods(p1) \X Pods(p2) \X Pods(p3)
=============================================================================
