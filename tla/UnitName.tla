------------------------------ MODULE UnitName ------------------------------
(***************************************************************************)
(* From a Connection id to the name of its systemd Unit                    *)
(* (unit_name in src/model.rs). An id is a sequence of characters, and a   *)
(* Unit name is what is between "cloud-sql-proxy-" and ".service".         *)
(***************************************************************************)
EXTENDS Naturals, SequencesExt

CONSTANT Alphanumerics   \* the ASCII letters and digits in use

ASSUME AlphanumericsAssumption ==
  Alphanumerics \cap {"_", "-", ":", ".", ","} = {}

IdSafe == Alphanumerics \cup {"_", "-"}

MAX_UNIT_NAME_LEN == 255

AffixLen == 24   \* of "cloud-sql-proxy-" and ".service"

IsConfigValidId(id) ==
  /\ Len(id) \in 1..64
  /\ id[1] \in Alphanumerics
  /\ \A i \in 2..Len(id) : id[i] \in IdSafe

IsUnitSafeChar(c) == c \in IdSafe \cup {":", ".", ","}

CollapseRepeatedDashes(s) ==
  FoldLeft(LAMBDA out, c : IF c = "-" /\ out # <<>> /\ Last(out) = "-"
                             THEN out ELSE Append(out, c),
           <<>>, s)

\* s without the dots and dashes it begins and ends with.
Trimmed(s) ==
  LET kept == {i \in 1..Len(s) : s[i] \notin {".", "-"}} IN
  IF kept = {} THEN <<>> ELSE SubSeq(s, Min(kept), Max(kept))

SanitizeUnitId(id) ==
  Trimmed(CollapseRepeatedDashes([i \in 1..Len(id) |->
                                    IF IsUnitSafeChar(id[i]) THEN id[i] ELSE "-"]))

Named(core) == [error |-> "none", core |-> core]
Unnamed(error) == [error |-> error, core |-> <<>>]

\* Mutant: every id is sanitized, the ones that need it and the ones that do not.
AlwaysSanitized(id) == SanitizeUnitId(id)

\* A config-valid id is used unchanged.
UnitCore(id) == IF IsConfigValidId(id) THEN id ELSE SanitizeUnitId(id)

UnitNameOf(id) ==
  CASE UnitCore(id) = <<>> -> Unnamed("Empty")
    [] Len(UnitCore(id)) + AffixLen > MAX_UNIT_NAME_LEN -> Unnamed("TooLong")
    [] OTHER -> Named(UnitCore(id))

=============================================================================
