----------------------------- MODULE GithubE2E -----------------------------
(***************************************************************************)
(* The external run against GitHub (apps/cli/src/github-e2e.ts) over the   *)
(* seven operations of plugins/tools/github/src/operations.ts.  A client   *)
(* sends the requests of the seven steps in order; an operation that fails *)
(* is a result like another, and the next step is taken all the same.      *)
(* Clients that are given one branch, or one client after another, share   *)
(* what GitHub holds.  A request may be refused, or fail on the way there  *)
(* or back: the transport throws, whether GitHub acted or not.             *)
(*                                                                         *)
(* A commit is its parent and whose content writePath has in its tree, a   *)
(* sha the place of the commit.  GitHub's side is external: modelled from  *)
(* what the operations send and read.                                      *)
(***************************************************************************)
EXTENDS Naturals, Sequences, SequencesExt

CONSTANTS
  Clients,
  Nobody,    \* no content: the file is not in the tree
  MaxLosses  \* bound on requests that fail on the way

ASSUME GithubAssumption == Nobody \notin Clients

VARIABLES
  commits,  \* every commit GitHub has; the first is the base's
  branch,   \* the head of cfg.branch, or 0
  opened,   \* a pull request for the branch is open
  at,       \* client -> the request it sends next, or "done"
  got,      \* client -> what its results hold
  passed,   \* client -> the steps that succeeded
  losses

githubVars == <<commits, branch, opened, at, got, passed, losses>>

\* The requests of each step, in order.
StepRequests ==
  <<<<"repo", "baseRef">>, <<"branch">>, <<"read">>, <<"write">>,
    <<"ref", "parent", "post", "patch">>, <<"open">>, <<"pr", "files">>>>

StepAt(c) == CHOOSE s \in DOMAIN StepRequests : at[c] \in ToSet(StepRequests[s])
Base == 1

GithubInit ==
  /\ commits = <<[parent |-> 0, file |-> Nobody]>>
  /\ branch = 0 /\ opened = FALSE /\ losses = 0
  /\ at = [c \in Clients |-> "repo"] /\ passed = [c \in Clients |-> {}]
  /\ got = [c \in Clients |-> [from |-> 0, parent |-> 0, commit |-> 0, number |-> 0,
                               seen |-> 0, file |-> Nobody]]

\* The step of c fails, or succeeds with its last request: the next one begins.
NextStep(c) == IF StepAt(c) = 7 THEN "done" ELSE StepRequests[StepAt(c) + 1][1]
Fails(c) == at' = [at EXCEPT ![c] = NextStep(c)] /\ UNCHANGED <<got, passed>>

Succeeds(c) ==
  LET requests == StepRequests[StepAt(c)] IN
  IF at[c] = Last(requests)
  THEN /\ at' = [at EXCEPT ![c] = NextStep(c)]
       /\ passed' = [passed EXCEPT ![c] = @ \cup {StepAt(c)}]
  ELSE /\ \E k \in DOMAIN requests :
            requests[k] = at[c] /\ at' = [at EXCEPT ![c] = requests[k + 1]]
       /\ UNCHANGED passed

\* The input of a step is taken from the results before it, and its schema
\* refuses what an earlier failure left undefined: no request is sent.
Sends(c) ==
  /\ at[c] = "branch" => got[c].from # 0
  /\ at[c] = "pr" => got[c].number # 0

Forced(c) == got[c].commit # 0 \* a variant that sends force: true

\* What GitHub accepts.
FastForward(c) == commits[got[c].commit].parent = branch

Accepts(c) ==
  CASE at[c] = "branch" -> branch = 0
    [] at[c] \in {"read", "ref"} -> branch # 0
    [] at[c] = "write" -> branch # 0 /\ commits[branch].file = Nobody \* no sha is sent
    [] at[c] = "patch" -> FastForward(c) \* force is not asked for
    [] at[c] = "open" -> branch \notin {0, Base} /\ ~opened
    [] OTHER -> TRUE

\* What it does.
Acts(c) ==
  LET add(parent, file) == Append(commits, [parent |-> parent, file |-> file])
      new == Len(commits) + 1
  IN /\ commits' = CASE at[c] = "write" -> add(branch, c)
                     [] at[c] = "post" -> add(got[c].parent, commits[got[c].parent].file)
                     [] OTHER -> commits
     /\ branch' = CASE at[c] = "branch" -> got[c].from
                    [] at[c] = "write" -> new
                    [] at[c] = "patch" -> got[c].commit
                    [] OTHER -> branch
     /\ opened' = (opened \/ at[c] = "open")

\* What the client reads in the answer.
Reads(c) ==
  got' = CASE at[c] = "baseRef" -> [got EXCEPT ![c].from = Base]
           [] at[c] = "ref" -> [got EXCEPT ![c].parent = branch]
           [] at[c] = "post" -> [got EXCEPT ![c].commit = Len(commits) + 1]
           [] at[c] = "open" -> [got EXCEPT ![c].number = 1]
           [] at[c] = "pr" -> [got EXCEPT ![c].seen = branch]
           [] at[c] = "files" -> [got EXCEPT ![c].file = commits[branch].file]
           [] OTHER -> got

Send(c) ==
  /\ at[c] # "done" /\ UNCHANGED losses
  /\ IF Sends(c) /\ Accepts(c)
     THEN Acts(c) /\ Reads(c) /\ Succeeds(c)
     ELSE Fails(c) /\ UNCHANGED <<commits, branch, opened>>

\* The request is lost, or its answer is.
Lose(c) ==
  /\ at[c] # "done" /\ Sends(c) /\ losses < MaxLosses
  /\ losses' = losses + 1
  /\ Fails(c)
  /\ IF Accepts(c) THEN Acts(c) \/ UNCHANGED <<commits, branch, opened>>
     ELSE UNCHANGED <<commits, branch, opened>>

GithubNext == \E c \in Clients : Send(c) \/ Lose(c)

GithubSpec == GithubInit /\ [][GithubNext]_githubVars

VerdictAnyHead(c) == \* a variant without the check of the commit
  at[c] = "done" /\ {1, 7} \subseteq passed[c] /\ got[c].file # Nobody

\* The checks of onVerify: the pull request, the repository, the branch, the
\* commit and the diff.  The first is there whatever step 7 came to.
VerdictPassed(c) ==
  /\ at[c] = "done" /\ {1, 7} \subseteq passed[c]
  /\ got[c].seen = (IF 5 \in passed[c] THEN got[c].commit ELSE 0)
  /\ got[c].file # Nobody

-----------------------------------------------------------------------------
\* A commit, what it was made on, and so on: what is in every set of commits
\* that has it and, with each commit, its parent.
Ancestry(commit) ==
  {a \in 0..Len(commits) :
     \A S \in SUBSET (0..Len(commits)) :
       commit \in S /\ (\A i \in S \ {0} : commits[i].parent \in S) => a \in S}

\* A commit that GitHub confirmed to a client stays on the branch, whatever
\* other clients read and wrote between the client's four requests
\* (operations.ts:87-103).
ConfirmedStays ==
  \A c \in Clients : 5 \in passed[c] => got[c].commit \in Ancestry(branch)

\* A run that passed did open a pull request for work of its own: the branch
\* holds its commit, with a file where it was to write one, although it reads
\* the head and the files by two requests and goes on after any failure
\* (github-e2e.ts:119-172).
VerdictSound ==
  \A c \in Clients : VerdictPassed(c) =>
    /\ opened /\ {1, 5, 6, 7} \subseteq passed[c]
    /\ got[c].commit \in Ancestry(branch)
    /\ commits[branch].file # Nobody

\* A run that passed wrote what it was to write: "100% completion claims
\* verified", "expected diff" (docs/milestones/M2-REAL-EXTERNAL-EXECUTION.md);
\* the check looks for the file's name alone.
ContentExpected ==
  \A c \in Clients : VerdictPassed(c) => commits[got[c].commit].file = c
=============================================================================
