------------------------------ MODULE Versions ------------------------------
(***************************************************************************)
(* The compatibility check that the waiting loop makes after each refresh: *)
(* tryDetectCompatibilityIssues of pkg/rolling.  A known version is a pair *)
(* <<major, minor>>; a node whose version ParseMajorMinorPatchFromVersion  *)
(* cannot read has the version None and is only counted.                   *)
(***************************************************************************)
EXTENDS Integers

CONSTANT None

(* Mutant: only the last listing counts. *)
Forget(known, listed) == listed \ {None}

(* knownVersions: it outlives the check and only grows. *)
Remember(known, listed) == known \cup (listed \ {None})

Majors(known) == {v[1] : v \in known}
MinorsOf(known, major) == {v[2] : v \in {w \in known : w[1] = major}}

(* findLowHigh: the lowest and the highest minor of a major. *)
LowHigh(minors) ==
    {p \in minors \X minors : \A minor \in minors : p[1] <= minor /\ minor <= p[2]}

CheckWithinOneMajor(known, major) ==
    \A p \in LowHigh(MinorsOf(known, major)) : p[2] - p[1] <= 1

(* Mutant: a major is compared with itself, too. *)
PreviousMajorsToo(known, curMajor) ==
    \A prevMajor \in Majors(known) :
        prevMajor <= curMajor =>
            \A p \in LowHigh(MinorsOf(known, prevMajor)) : p[1] = p[2]

(* Of each older major a single minor may be known. *)
CheckWithPreviousMajors(known, curMajor) ==
    \A prevMajor \in Majors(known) :
        prevMajor < curMajor =>
            \A p \in LowHigh(MinorsOf(known, prevMajor)) : p[1] = p[2]

NoIssues(known) ==
    \A major \in Majors(known) :
        /\ CheckWithinOneMajor(known, major)
        /\ CheckWithPreviousMajors(known, major)

-----------------------------------------------------------------------------
(* What the check is for, in the words of the help of                      *)
(* --suppress-compat-check, of the message that the check prints and of    *)
(* the test "Disallow more than 2 major-minor combinations in the          *)
(* cluster".  The help and the message name majors only; that a minor must *)
(* not be skipped is what the message "minors too far" says.               *)
OneApart(i, j) == i - j <= 1 /\ j - i <= 1

AtMostOneMajor(versions) == \A v, w \in versions : OneApart(v[1], w[1])

(* Two versions of which neither skips a minor of a major.                 *)
Near(v, w) == v # None /\ w # None /\ v[1] = w[1] => OneApart(v[2], w[2])

AtMostTwo(versions) == \A v, w, x \in versions : v = w \/ w = x \/ v = x

(* Versions that none of the three forbids. *)
Neighbouring(versions) ==
    /\ AtMostTwo(versions)
    /\ AtMostOneMajor(versions)
    /\ \A v, w \in versions : Near(v, w)
=============================================================================
