----------------------------- MODULE Versioning -----------------------------
(***************************************************************************)
(* The order on versions of internal/service/versioning.go.  A version is  *)
(* an opaque string here; what the code tells apart is whether it is a     *)
(* semantic version and, between two semantic versions, their precedence.  *)
(* Distinct strings may have equal precedence (1.0.0, v1.0.0, 1.0.0+b).    *)
(***************************************************************************)
EXTENDS Integers

CONSTANTS
    Versions,    \* version strings
    Semvers,     \* those for which IsSemanticVersion answers true
    Precedence   \* Precedence[v]: the place of v in the order of semver.Compare

ASSUME VersioningAssumption ==
    /\ Semvers \subseteq Versions
    /\ Precedence \in [Semvers -> Nat]

IsSemanticVersion(v) == v \in Semvers

\* -1, 0 or 1, as the comparison functions of Go answer.
Sign(a, b) == IF a < b THEN -1 ELSE IF a > b THEN 1 ELSE 0

CompareSemanticVersions(v1, v2) == Sign(Precedence[v1], Precedence[v2])

\* timestamp1 and timestamp2 are the publication times of the two versions.
CompareVersions(v1, v2, timestamp1, timestamp2) ==
    CASE IsSemanticVersion(v1) /\ IsSemanticVersion(v2) ->
            CompareSemanticVersions(v1, v2)
      [] ~IsSemanticVersion(v1) /\ ~IsSemanticVersion(v2) ->
            Sign(timestamp1, timestamp2)
      [] IsSemanticVersion(v1) /\ ~IsSemanticVersion(v2) -> 1
      [] OTHER -> -1
=============================================================================
