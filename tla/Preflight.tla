----------------------------- MODULE Preflight ------------------------------
(***************************************************************************)
(* The per-connect preflight gate, as a function of what the controller    *)
(* says: the alarms it reports over RMI and, for a full check, what the    *)
(* FTP probe could read of its order file, version and TP programs.  Each  *)
(* file is best effort: one that cannot be read leaves its field unknown.  *)
(***************************************************************************)

Programs == {"stream_motn", "rmi_move", "gripdisp", "grprun"}
ExternalControl == {"stream_motn", "rmi_move"}
GripperPrograms == {"gripdisp", "grprun"}

\* _HARD_BLOCK_ALARMS, and one that is not
HardAlarms == {"SYST-348", "SYST-322"}
Alarms == HardAlarms \cup {"SRVO-001"}

\* The bands of the order file's Deliver Ver: below the hard floor, in the warning
\* band, above it, or not to be parsed.
Bands == {"below", "warn", "good", "unparsed"}

\* The order file (or none): the band of its version, and whether it lists S636.
Orders == [read : {TRUE}, level : Bands, s636 : BOOLEAN]
NoOrder == [read |-> FALSE, level |-> "unparsed", s636 |-> FALSE]

\* probe_controller: a listing that fails leaves no programs, an order file that
\* cannot be fetched none; the probe itself fails only when it cannot connect.
Facts == [reached : {TRUE}, order : Orders \cup {NoOrder}, programs : SUBSET Programs]
NoFacts == [reached |-> FALSE, order |-> NoOrder, programs |-> {}]

-----------------------------------------------------------------------------

AlarmBlocks(alarms) == alarms \cap HardAlarms

\* _check_p_level
LevelBlocks(f) ==
    IF f.order.read /\ f.order.level = "below" THEN {"p_level"} ELSE {}

\* Mutant: an order file that was not read is one that does not list S636.
BugUnknownIsAbsent(f) ==
    IF ~f.order.s636 /\ ~(ExternalControl \subseteq f.programs)
    THEN {"external_control"} ELSE {}

\* _check_external_control: the order code first, the programs as the backstop, which
\* a listing that was not read does not hold.
ControlBlocks(f) ==
    IF f.order.read /\ ~f.order.s636 /\ ~(ExternalControl \subseteq f.programs)
    THEN {"external_control"} ELSE {}

\* A missing dispatcher blocks only who wants one, and only if the listing was read.
GripperBlocks(f, gripper) ==
    IF gripper /\ f.programs # {} /\ ~(GripperPrograms \subseteq f.programs)
    THEN {"gripper"} ELSE {}

\* _run_full_checks
FullBlocks(f, gripper) ==
    IF f.reached THEN LevelBlocks(f) \cup ControlBlocks(f) \cup GripperBlocks(f, gripper)
    ELSE {}

\* run_preflight, once the status queries have been answered: the hard blocks.
HardBlocks(alarms, f, full, gripper) ==
    AlarmBlocks(alarms) \cup (IF full THEN FullBlocks(f, gripper) ELSE {})

-----------------------------------------------------------------------------

\* What disqualifies a controller, by source: its alarms, its order file, its listing.
\* A source that was not read says nothing; External Control is missing only where the
\* order file and the listing both say so, for either of them can show that it is there.
Disqualified(alarms, f, full, gripper) ==
    \/ alarms \cap HardAlarms # {}
    \/ /\ full
       /\ \/ f.order \in {o \in Orders : o.level = "below"}
          \/ /\ f.programs # {}
             /\ \/ f.order \in {o \in Orders : ~o.s636} /\ ExternalControl \ f.programs # {}
                \/ gripper /\ GripperPrograms \ f.programs # {}

\* The order file lists no S636, and the listing that could show the package to be
\* there all the same was not read.
HalfRead(f) == f.order \in {o \in Orders : ~o.s636} /\ f.programs = {}

\* How the gate judges a controller, and on which grounds.
Verdict(alarms, f, full, gripper) ==
    IF HardBlocks(alarms, f, full, gripper) = {} THEN "pass"
    ELSE IF Disqualified(alarms, f, full, gripper) THEN "blocked"
    ELSE IF full /\ HalfRead(f) THEN "half-read" ELSE "unfounded"

\* The verdicts there are, for each policy.
Verdicts ==
    [full \in BOOLEAN |-> [gripper \in BOOLEAN |->
        {Verdict(a, f, full, gripper) : a \in SUBSET Alarms, f \in Facts \cup {NoFacts}}]]
=============================================================================
