---------------------------- MODULE ErrataEvidence ----------------------------
(***************************************************************************)
(* Errata evidence on the binary RPMs of one graph that is enriched again  *)
(* and again: from an advisory file (adapters/errata.py), from one errata  *)
(* source, or from the web feed and dnf cross-checked                      *)
(* (adapters/errata_source.py), as the pipeline's two errata steps do; and *)
(* the three-state answer readers derive from it (trust_path_report, the   *)
(* Security panel's errata cell).                                          *)
(*                                                                         *)
(* One enrichment may take both steps, and a graph may be enriched again.  *)
(* What upstream publishes changes meanwhile, so every step reads an       *)
(* arbitrary set of (RPM, advisory) pairs from each source it reaches.     *)
(***************************************************************************)
EXTENDS Naturals, FiniteSets, Sequences, Functions

CONSTANTS Rpm, Advisory,
          Unset,    \* a metadata key that is not there
          MaxSteps,  \* bound: errata steps over the graph
          MaxFixes  \* bound: parallel FIXES edges, only a file attaches a second one

Source == {"http", "dnf"}
Flag == BOOLEAN \cup {Unset}

ASSUME BoundAssumption == MaxSteps \in Nat /\ MaxFixes \in Nat \ {0}
ASSUME UnsetAssumption ==
  /\ Unset \notin BOOLEAN /\ Unset # "confirmed_clean"
  /\ Unset \notin [sources : SUBSET Source, checked : Flag, file : BOOLEAN]

VARIABLES errata,   \* metadata of each ERRATA node, or Unset
          fixes,    \* the cross_checked entry of each FIXES edge of an (RPM, advisory)
          cveEdges, \* FIXES edges from an advisory to its CVE
          mark,     \* errata metadata of each RPM node
          steps

\* What happened, to state properties about it.
VARIABLES queried,      \* RPMs a reachable source was asked about
          reported,     \* (RPM, advisory) pairs a source or a file gave
          withCve,      \* advisories the web feed gave
          corroborated, \* pairs both sources gave in one step
          agreeing,     \* RPMs whose last cross-check had equal answers of both sources
          agreedClean,  \* those of them of which both sources knew no advisory then
          filed         \* advisories attached from a file

history == <<queried, reported, withCve, corroborated, agreeing, agreedClean, filed>>
errataVars == <<errata, fixes, cveEdges, mark, steps, history>>

Pair == Rpm \X Advisory
FromFile == [sources |-> {}, checked |-> Unset, file |-> TRUE]

TypeOK ==
  /\ errata \in [Advisory -> [sources : SUBSET Source, checked : Flag, file : BOOLEAN] \cup {Unset}]
  /\ \A p \in Pair : Len(fixes[p]) <= MaxFixes /\ \A i \in DOMAIN fixes[p] : fixes[p][i] \in Flag
  /\ cveEdges \in [Advisory -> Nat]
  /\ mark \in [Rpm -> [status : {"confirmed_clean", Unset}, checked : Flag]]
  /\ queried \subseteq Rpm /\ reported \subseteq Pair /\ corroborated \subseteq Pair
  /\ withCve \subseteq Advisory /\ filed \subseteq Advisory /\ agreeing \subseteq Rpm
  /\ agreedClean \subseteq agreeing
  /\ steps \in 0 .. MaxSteps

ErrataInit ==
  /\ errata = [a \in Advisory |-> Unset]
  /\ fixes = [p \in Pair |-> <<>>]
  /\ cveEdges = [a \in Advisory |-> 0]
  /\ mark = [r \in Rpm |-> [status |-> Unset, checked |-> Unset]]
  /\ queried = {} /\ reported = {} /\ withCve = {} /\ corroborated = {}
  /\ agreeing = {} /\ agreedClean = {} /\ filed = {}
  /\ steps = 0

NextStep == steps < MaxSteps /\ steps' = steps + 1

AdvisoriesOf(pairs) == {p[2] : p \in pairs}

----------------------------------------------------------------------------
(* _attach_advisory *)

\* One FIXES edge per pair: an edge that is there is left alone, its metadata too.
WithFixes(pairs, flag) ==
  [p \in Pair |-> IF p \in pairs /\ fixes[p] = <<>> THEN <<flag[p]>> ELSE fixes[p]]

\* The CVEs of the advisories, each linked once.  dnf lists no CVEs.
WithCves(advisories) ==
  [a \in Advisory |-> IF a \in advisories /\ cveEdges[a] = 0 THEN 1 ELSE cveEdges[a]]

----------------------------------------------------------------------------
(* attach_errata_from_source: one source.  selected is what the package and *)
(* arch filters of the run let through.                                     *)

SingleSource(s, selected, pairs) ==
  /\ NextStep
  /\ errata' = [a \in Advisory |->
                  IF a \in AdvisoriesOf(pairs) /\ errata[a] = Unset
                  THEN [sources |-> {}, checked |-> Unset, file |-> FALSE] ELSE errata[a]]
  /\ fixes' = WithFixes(pairs, [p \in pairs |-> Unset])
  /\ cveEdges' = WithCves(IF s = "http" THEN AdvisoriesOf(pairs) ELSE {})
  /\ mark' = [r \in Rpm |-> IF r \in selected /\ ~ \E a \in Advisory : <<r, a>> \in pairs
                            THEN [mark[r] EXCEPT !.status = "confirmed_clean"] ELSE mark[r]]
  /\ queried' = queried \cup selected
  /\ reported' = reported \cup pairs
  /\ withCve' = withCve \cup (IF s = "http" THEN AdvisoriesOf(pairs) ELSE {})
  /\ UNCHANGED <<corroborated, agreeing, agreedClean, filed>>

----------------------------------------------------------------------------
(* attach_errata_cross_checked: the sources that could be reached.  gave[s] *)
(* is what source s lists for the selected RPMs.                            *)

Reporters(gave, p) == {s \in DOMAIN gave : p \in gave[s]}

\* Mutant of _cross_check: dnf is asked first.
Kept_DnfFirst(gave, p) == IF "dnf" \in Reporters(gave, p) THEN "dnf" ELSE "http"

\* The advisory record kept for a pair is the first reporter's, and the web feed is
\* asked first: only if it lists the pair do the CVEs come along.
Kept(gave, p) == IF "http" \in Reporters(gave, p) THEN "http" ELSE "dnf"

\* Mutant: corroborated by two sources that list the advisory, for whatever RPM.
Agreed_AnyRpm(gave, p) ==
  Cardinality({s \in DOMAIN gave : \E q \in gave[s] : q[2] = p[2]}) >= 2

Agreed(gave, p) == Cardinality(Reporters(gave, p)) >= 2

\* The ERRATA node collects reporters and agreement over all RPMs and steps.
CrossNode(gave, a) ==
  LET pairs == {p \in UNION {gave[s] : s \in DOMAIN gave} : p[2] = a}
      names == UNION {Reporters(gave, p) : p \in pairs}
      agree == \E p \in pairs : Agreed(gave, p)
  IN  IF pairs = {} THEN errata[a]
      ELSE IF errata[a] = Unset THEN [sources |-> names, checked |-> agree, file |-> FALSE]
      ELSE [errata[a] EXCEPT !.sources = @ \cup names,
                             !.checked = (@ = TRUE) \/ agree]

CrossChecked(selected, gave) ==
  LET pairs == UNION {gave[s] : s \in DOMAIN gave}
      Of(r) == {p \in pairs : p[1] = r}
  IN  /\ NextStep
      /\ errata' = [a \in Advisory |-> CrossNode(gave, a)]
      /\ fixes' = WithFixes(pairs, [p \in pairs |-> Agreed(gave, p)])
      /\ cveEdges' = WithCves(AdvisoriesOf({p \in pairs : Kept(gave, p) = "http"}))
      /\ mark' = [r \in Rpm |->
                    IF r \notin selected THEN mark[r]
                    ELSE IF Of(r) # {}
                    THEN [mark[r] EXCEPT !.checked = \A p \in Of(r) : Agreed(gave, p)]
                    ELSE [status |-> "confirmed_clean", checked |-> Cardinality(DOMAIN gave) >= 2]]
      /\ queried' = queried \cup selected
      /\ reported' = reported \cup pairs
      /\ withCve' = withCve \cup AdvisoriesOf({p \in pairs : "http" \in Reporters(gave, p)})
      /\ corroborated' = corroborated \cup {p \in pairs : Reporters(gave, p) = Source}
      /\ agreeing' = (agreeing \ selected) \cup
                       {r \in selected : /\ DOMAIN gave = Source
                                        /\ gave["http"] \cap Of(r) = gave["dnf"] \cap Of(r)}
      /\ agreedClean' = (agreedClean \ selected) \cup
                          {r \in selected : DOMAIN gave = Source /\ Of(r) = {}}
      /\ UNCHANGED filed

----------------------------------------------------------------------------
(* attach_errata_file: raises, before it writes anything, if the ERRATA     *)
(* node is there with other metadata than the file's.                       *)

FromErrataFile(r, a) ==
  /\ NextStep
  /\ errata[a] \in {Unset, FromFile}
  /\ Len(fixes[<<r, a>>]) < MaxFixes
  /\ errata' = [errata EXCEPT ![a] = FromFile]
  /\ fixes' = [fixes EXCEPT ![<<r, a>>] = Append(@, Unset)]
  /\ cveEdges' = [cveEdges EXCEPT ![a] = @ + 1]
  /\ reported' = reported \cup {<<r, a>>}
  /\ filed' = filed \cup {a}
  /\ UNCHANGED <<mark, queried, withCve, corroborated, agreeing, agreedClean>>

ErrataNext ==
  \/ \E s \in Source, selected \in SUBSET Rpm :
       \E pairs \in SUBSET (selected \X Advisory) : SingleSource(s, selected, pairs)
  \/ \E consulted \in SUBSET Source \ {{}}, selected \in SUBSET Rpm :
       \E gave \in [consulted -> SUBSET (selected \X Advisory)] : CrossChecked(selected, gave)
  \/ \E r \in Rpm, a \in Advisory : FromErrataFile(r, a)

ErrataSpec == ErrataInit /\ [][ErrataNext]_errataVars

----------------------------------------------------------------------------
(* The answer: trust_path_report *)

\* Mutant of trust_path_report: the recorded status wins over an advisory edge.
Status_RecordedFirst(r) ==
  IF mark[r].status = "confirmed_clean" THEN "confirmed_clean"
  ELSE IF \E a \in Advisory : fixes[<<r, a>>] # <<>> THEN "advisory_present"
  ELSE "not_checked"

Status(r) ==
  IF \E a \in Advisory : fixes[<<r, a>>] # <<>> THEN "advisory_present"
  ELSE IF mark[r].status = "confirmed_clean" THEN "confirmed_clean"
  ELSE "not_checked"

\* Mutant: agreement about one advisory speaks for the RPM.
Cell_AnyEdge(r) ==
  [status |-> Status(r), checked |-> \E a \in Advisory : TRUE \in Range(fixes[<<r, a>>])]

\* _errata_cell (services/workbench.py): what the Security panel shows of an RPM, with
\* the suffix [x-checked] or without.
Cell(r) ==
  [status |-> Status(r), checked |-> Status(r) # "not_checked" /\ mark[r].checked = TRUE]

----------------------------------------------------------------------------
(* Properties *)

\* The three states of errata_source.py:16-20 over any sequence of steps: an advisory
\* once reported stays in sight, clean means that somebody was asked and nobody ever
\* reported one, and an RPM nobody was asked about is not called clean.
StatusTellsHistory ==
  \A r \in Rpm :
    LET known == \E a \in Advisory : <<r, a>> \in reported
    IN  Status(r) = IF known THEN "advisory_present"
                    ELSE IF r \in queried THEN "confirmed_clean" ELSE "not_checked"

\* What both sources said of the RPM when they were last asked together and agreed.
AgreedStatus(r) == IF r \in agreedClean THEN "confirmed_clean" ELSE "advisory_present"

\* The cell is marked [x-checked] exactly if both sources gave equal answers about the
\* RPM when they were last asked together; and it then says what they said, but for an
\* RPM of which both knew no advisory while a step of one source, a file or an earlier
\* cross-check listed one: that cell says "advisory" beside the mark.
CellTellsHistory ==
  /\ StatusTellsHistory
  /\ \A r \in Rpm : Cell(r).checked <=> r \in agreeing
  /\ \A r \in agreeing :
       Cell(r).status = AgreedStatus(r)
         <=> ~(r \in agreedClean /\ \E a \in Advisory : <<r, a>> \in reported)

\* errata_source.py:392-397: the cross-check mark of an advisory is there exactly if
\* in some step both sources gave it for one and the same RPM, and an RPM's FIXES edge
\* carries it only if that RPM is such a one.
AgreementIsEarned ==
  /\ \A a \in Advisory :
       (errata[a] # Unset /\ errata[a].checked = TRUE) <=> \E r \in Rpm : <<r, a>> \in corroborated
  /\ \A p \in Pair : \A i \in DOMAIN fixes[p] : fixes[p][i] = TRUE => p \in corroborated

\* The web feed's CVEs are linked to its advisories whichever source saw the advisory
\* first, and once each however many RPMs it ships, unless a file was attached.
CvesComeAlongOnce ==
  \A a \in Advisory : /\ a \in withCve => cveEdges[a] >= 1
                      /\ a \notin filed => cveEdges[a] <= 1

\* The sources never add a FIXES edge beside the one that is there.
OneEdgePerReport ==
  \A p \in Pair : p[2] \notin filed => Len(fixes[p]) = (IF p \in reported THEN 1 ELSE 0)

\* Repeated steps link everything, and once, over well-typed states; and what an edge
\* or an advisory says of agreement is earned.
LinkedOnce == TypeOK /\ CvesComeAlongOnce /\ OneEdgePerReport /\ AgreementIsEarned
=============================================================================
