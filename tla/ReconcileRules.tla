--------------------------- MODULE ReconcileRules ---------------------------
(***************************************************************************)
(* The reconciliation policy: what a group of dependency claims about one  *)
(* coordinate amounts to (albs_graph/provenance/reconcile_rules.py and the *)
(* facts reconcile.py precomputes for it).  Everything here is a pure      *)
(* function of the set of claims.                                          *)
(*                                                                         *)
(* A version is a record [text, rank, bare, distro]: rank stands for its   *)
(* place in the rpmvercmp order (two texts of one rank compare equal,      *)
(* "1.01" and "1.1"), bare for that of the text without its epoch, distro  *)
(* for the ".el9" tag distro_generation reads from it.                     *)
(***************************************************************************)
EXTENDS Integers, FiniteSets

CONSTANTS Claim,      \* claim node ids
          ClaimInfo,  \* what each claim asserts
          None,       \* an absent value
          DistroOf    \* distro generation of each subject, or None

Subject == DOMAIN DistroOf

Versions(members) == {ClaimInfo[c].version : c \in members} \ {None}

\* distinct_versions: the classes of rpmvercmp equality, not of equal text.
VersionClasses(members) == {v.rank : v \in Versions(members)}

Classes(members) == {ClaimInfo[c].class : c \in members}

DeclaredClasses == {"declared", "locked", "resolved"}

\* Subjects with a declaration somewhere: only there is an undeclared
\* observation a conflict.
SubjectsWithDeclarations(claims) ==
  {ClaimInfo[c].subject : c \in {d \in claims : ClaimInfo[d].class \in DeclaredClasses}}

----------------------------------------------------------------------------
(* The rules *)

\* Mutant: a version that two claims assert settles the drift.
VersionDrift_Outvoted(members) ==
  /\ Cardinality(VersionClasses(members)) > 1
  /\ \A rank \in VersionClasses(members) :
       Cardinality({c \in members : /\ ClaimInfo[c].version # None
                                    /\ ClaimInfo[c].version.rank = rank}) < 2

VersionDrift(members) == Cardinality(VersionClasses(members)) > 1

\* Grouped by the version's text: two PURLs under one and the same text.
IdentityMismatch(members) ==
  \E c, d \in members :
    /\ ClaimInfo[c].version # None /\ ClaimInfo[d].version # None
    /\ ClaimInfo[c].version.text = ClaimInfo[d].version.text
    /\ ClaimInfo[c].purl # None /\ ClaimInfo[d].purl # None
    /\ ClaimInfo[c].purl # ClaimInfo[d].purl

\* _satisfies: the bound too is without its epoch.
Satisfies(rank, constraint) ==
  CASE constraint.op = ">=" -> rank >= constraint.bound
    [] constraint.op = ">"  -> rank > constraint.bound
    [] constraint.op = "<=" -> rank <= constraint.bound
    [] constraint.op = "<"  -> rank < constraint.bound

\* A resolver said so, or one claim's constraint is unmet by any claim's version.
RangeViolation(members) ==
  \/ \E c \in members : ClaimInfo[c].rangeSatisfied = FALSE
  \/ \E c \in members : /\ ClaimInfo[c].constraint # None
                        /\ \E v \in Versions(members) : ~Satisfies(v.bare, ClaimInfo[c].constraint)

LinkageMismatch(members) ==
  Cardinality({ClaimInfo[c].linkage : c \in members} \ {"unknown"}) > 1

PresenceUndeclared(members, declaring) ==
  /\ \E c \in members : ClaimInfo[c].subject \in declaring
  /\ "artifact" \in Classes(members)
  /\ ~ \E c \in members : ClaimInfo[c].soname
  /\ Classes(members) \cap DeclaredClasses = {}

CrossDistro(members) ==
  LET distros == {v.distro : v \in Versions(members)} \ {None}
  IN  \E c \in members : /\ DistroOf[ClaimInfo[c].subject] # None
                         /\ distros # {}
                         /\ DistroOf[ClaimInfo[c].subject] \notin distros

ConflictKinds(members, declaring) ==
  {k \in {"version_drift", "identity_mismatch", "range_violation",
          "linkage_mismatch", "presence_undeclared"} :
     \/ k = "version_drift" /\ VersionDrift(members)
     \/ k = "identity_mismatch" /\ IdentityMismatch(members)
     \/ k = "range_violation" /\ RangeViolation(members)
     \/ k = "linkage_mismatch" /\ LinkageMismatch(members)
     \/ k = "presence_undeclared" /\ PresenceUndeclared(members, declaring)}

\* Mutant of _sources_agreeing: counts claims instead of evidence sources.
SourcesAgreeing_Claims(members, rank) ==
  Cardinality({c \in members : ClaimInfo[c].version # None /\ ClaimInfo[c].version.rank = rank})

\* Distinct evidence sources whose version equals the chosen one.
SourcesAgreeing(members, rank) ==
  Cardinality({ClaimInfo[c].evidence :
                 c \in {d \in members : /\ ClaimInfo[d].version # None
                                        /\ ClaimInfo[d].version.rank = rank}})

\* evaluate_group: conflicts win, then the level of version agreement.  With no
\* conflict there is at most one version class, the chosen one.
EvaluateGroup(members, declaring) ==
  LET kinds    == ConflictKinds(members, declaring)
      classes  == VersionClasses(members)
      chosen   == IF kinds # {} \/ classes = {} THEN None ELSE CHOOSE r \in classes : TRUE
  IN  [ kinds       |-> kinds,
        crossDistro |-> CrossDistro(members),
        chosen      |-> chosen,
        agreement   |-> CASE kinds # {} -> "conflict"
                          [] kinds = {} /\ classes = {} -> "insufficient_evidence"
                          [] kinds = {} /\ classes # {} ->
                               IF SourcesAgreeing(members, chosen) >= 2 THEN "consensus"
                               ELSE "compatible" ]
=============================================================================
