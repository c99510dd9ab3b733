----------------------------- MODULE MCBuildGraph -----------------------------
EXTENDS BuildGraph

\* Packages 1 and 2, their repositories 1 and 2, commits 1 and 2 (0 is "unknown").
RepoNames == [r \in 1 .. 2 |-> r]
DefaultRepos == [p \in 1 .. 2 |-> p]

\* What names the package of a task: its SRPM, its git ref, or neither; where it was
\* checked out; whether ALBS authenticated the commit (a hash is one commit's); RPMs.
Names == {[srpm |-> 1, ref |-> None], [srpm |-> 2, ref |-> None],
          [srpm |-> None, ref |-> 2], [srpm |-> None, ref |-> None]}
Checkouts == {[repo |-> None, commit |-> None], [repo |-> 1, commit |-> 1],
              [repo |-> 1, commit |-> 2], [repo |-> 2, commit |-> 1]}

\* Times, which go with the rest of a task so that there are no more documents: a task
\* that was never started, steps within a step, an entry that has no time of its own.
Entry(delta, start) == [delta |-> delta, start |-> start]
Stats(n, c) ==
  [ p \in {<<"mock">>, <<"mock", "init">>, <<"upload">>, <<"upload", "rpm">>} |->
      CASE p = <<"mock">>         -> Entry(IF c.repo = None THEN None ELSE 5, 2)
        [] p = <<"mock", "init">> -> Entry(3, IF n.srpm = None THEN 4 ELSE None)
        [] p = <<"upload">>       -> Entry(None, None)
        [] OTHER                  -> Entry(IF c.commit = 2 THEN None ELSE 1, 9) ]

TaskOf(n, c, authenticated, rpms) ==
  [ arch    |-> IF rpms = <<None>> /\ c.repo # 2 THEN "aarch64" ELSE "x86_64",
    started |-> IF c.repo = None THEN None ELSE 3 - c.repo, finished |-> IF n.ref = None THEN 9 ELSE 7,
    stats   |-> Stats(n, c), tests |-> IF c.repo = 1 THEN <<Stats(n, c), Stats(n, c)>> ELSE << >>,
    srpm |-> n.srpm, ref |-> n.ref, repo |-> c.repo, commit |-> c.commit,
    cas  |-> IF authenticated /\ c.repo # None THEN 10 * c.repo + c.commit ELSE None,
    rpms |-> rpms ]

TaskSet(rpms) == {TaskOf(n, c, a, rpms) : n \in Names, c \in Checkouts, a \in BOOLEAN}

\* Two tasks that each made an RPM, one without an artifact hash; a task with two RPMs
\* in a build that was neither signed nor released.
Builds ==
  {[tasks |-> <<s, t>>, signTasks |-> {1}, released |-> TRUE] :
     s \in TaskSet(<<31>>), t \in TaskSet(<<None>>)}
  \cup {[tasks |-> <<t>>, signTasks |-> {}, released |-> FALSE] : t \in TaskSet(<<31, 32>>)}
=============================================================================
