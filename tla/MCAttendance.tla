---------------------------- MODULE MCAttendance ----------------------------
EXTENDS Attendance, TLC

\* The scans are interchangeable, and so are the requests for a code, the members
\* and the events.
Symmetry ==
    Permutations(Scans) \cup Permutations(Prints)
        \cup Permutations(Members) \cup Permutations(Events)
=============================================================================
