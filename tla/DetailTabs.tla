----------------------------- MODULE DetailTabs -----------------------------
(***************************************************************************)
(* The three detail tabs of the inspector: CVE (gui/cve_details.py),       *)
(* Package (gui/package_info.py) and Git (gui/git_commit.py), as values.   *)
(*                                                                         *)
(* A tab is what it is about, whether its button is enabled, its header (a *)
(* word and whom it names), whose details its body shows, and for Git whose*)
(* files are listed and the file whose diff popped up last.  A request is  *)
(* [tab, of, path], to be answered by one worker.                          *)
(***************************************************************************)
EXTENDS TrustPath

CONSTANT Error   \* the body that says a fetch failed

EmptyTab == [of |-> None, on |-> FALSE, header |-> <<"select", None>>, body |-> None,
             files |-> None, diff |-> None]

\* A tab of something the fetch of which can be asked for.
Enabled(tab) == tab.of # None /\ tab.of.known

Request(name, tab) == [tab |-> name, of |-> tab.of, path |-> None]

\* _request: the button is off until an answer comes.
Asking(tab) == [tab EXCEPT !.on = FALSE, !.header = <<"fetching", tab.of>>]

\* set_cve, set_package, set_commit; with auto-fetch the request goes out at once.  A
\* diff that popped up is a window of its own and stays.
SetTab(tab, x, auto) ==
  LET known == x # None /\ x.known
  IN  [EmptyTab EXCEPT !.of = x, !.on = known /\ ~auto, !.diff = tab.diff,
                       !.header = IF x = None THEN <<"select", None>>
                                  ELSE <<IF known /\ auto THEN "fetching" ELSE "click", x>>]

\* show_errata: links that need no fetch.
ShowErrata(advisory) ==
  [EmptyTab EXCEPT !.header = <<"shows", advisory>>, !.body = advisory]

\* Mutant of show_details and show_info: the header names what is selected.
ShowAnswer_Selected(tab, request) ==
  [tab EXCEPT !.on = Enabled(tab), !.header = <<"shows", tab.of>>, !.body = request.of,
              !.files = IF request.tab = "git" THEN request.of ELSE None]

\* show_details, show_info, show_commit: what was fetched, under its own name; before the
\* SHA that was fetched the Git tab puts the package of its commit, tab.of.
ShowAnswer(tab, request) ==
  [tab EXCEPT !.on = Enabled(tab), !.header = <<"shows", request.of>>, !.body = request.of,
              !.files = IF request.tab = "git" THEN request.of ELSE None]

\* show_diff: a window of its own, named by the path only.
ShowDiff(tab, request) ==
  [tab EXCEPT !.on = Enabled(tab), !.header = <<"of", tab.of>>,
              !.diff = [of |-> request.of, path |-> request.path]]

\* show_message: the Git tab names its commit again, the others keep their header.
ShowMessage(tab, request) ==
  [tab EXCEPT !.on = Enabled(tab), !.body = Error,
              !.header = IF request.tab = "git" THEN <<"of", tab.of>> ELSE @]

\* What a signal of the worker of a request does to its tab.
Answered(tab, request, outcome) ==
  IF outcome = "failed" THEN ShowMessage(tab, request)
  ELSE IF request.path # None THEN ShowDiff(tab, request)
  ELSE ShowAnswer(tab, request)
=============================================================================
