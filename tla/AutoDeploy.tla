----------------------------- MODULE AutoDeploy -----------------------------
(***************************************************************************)
(* Deployment of the control plane: auto-deploy.sh, which a systemd timer  *)
(* runs every two minutes, and deploy-zmfbot.sh, which an operator runs.   *)
(* Both move one checkout, build one image and restart one stack.  The     *)
(* timer's service is a oneshot: it never overlaps with itself, but it may *)
(* with the operator.                                                      *)
(*                                                                         *)
(* Versions are the commits of the master branch, numbered in order (no    *)
(* push is forced).  git and docker are external.                          *)
(***************************************************************************)
EXTENDS Naturals

CONSTANTS
  MaxCommits,   \* bound on the number of commits pushed
  MaxFaults     \* bound on the number of deploys that fail half-way

ASSUME MaxCommitsIsNat == MaxCommits \in Nat
ASSUME MaxFaultsIsNat == MaxFaults \in Nat

VARIABLES
  origin,    \* the last commit of origin/master
  checkout,  \* HEAD of /opt/watchclaw/src
  image,     \* the version the image is built from
  running,   \* the version the stack runs
  pc,        \* pc[d]: where the script of deployer d is
  before,    \* HEAD as the timer's script found it
  context,   \* context[d]: the version of the sources d builds
  faults,    \* how many deploys failed half-way
  overlap    \* two deployers built at the same time (history)

vars == <<origin, checkout, image, running, pc, before, context, faults, overlap>>

Deployers == {"timer", "operator"}

Versions == 0..MaxCommits

Init ==
  /\ origin = 0 /\ checkout = 0 /\ image = 0 /\ running = 0 /\ before = 0
  /\ pc = [d \in Deployers |-> "idle"]
  /\ context = [d \in Deployers |-> 0]
  /\ faults = 0
  /\ overlap = FALSE

Go(d, from, to) == pc[d] = from /\ pc' = [pc EXCEPT ![d] = to]

Push ==
  /\ origin < MaxCommits
  /\ origin' = origin + 1
  /\ UNCHANGED <<checkout, image, running, pc, before, context, faults, overlap>>

-----------------------------------------------------------------------------
(* auto-deploy.sh *)

TimerStarts ==
  /\ Go("timer", "idle", "fetch")
  /\ before' = checkout
  /\ UNCHANGED <<origin, checkout, image, running, context, faults, overlap>>

\* No network: exit 0.
FetchFails ==
  /\ Go("timer", "fetch", "idle")
  /\ UNCHANGED <<origin, checkout, image, running, before, context, faults, overlap>>

\* fetch, then reset --hard.
FetchAndReset ==
  /\ Go("timer", "fetch", "compare")
  /\ checkout' = origin
  /\ UNCHANGED <<origin, image, running, before, context, faults, overlap>>

\* Variant: the new HEAD is compared with itself.
NothingNew ==
  /\ Go("timer", "compare", "idle")
  /\ UNCHANGED <<origin, checkout, image, running, before, context, faults, overlap>>

\* Rebuild only if HEAD moved.
Compare ==
  /\ Go("timer", "compare", IF before # checkout THEN "compose" ELSE "idle")
  /\ UNCHANGED <<origin, checkout, image, running, before, context, faults, overlap>>

-----------------------------------------------------------------------------
(* deploy-zmfbot.sh *)

\* git pull --ff-only; then build in any case.
OperatorPulls ==
  /\ Go("operator", "idle", "compose")
  /\ checkout' = origin
  /\ UNCHANGED <<origin, image, running, before, context, faults, overlap>>

-----------------------------------------------------------------------------
(* docker compose up -d --build, by either *)

Composing(d) == pc[d] \in {"build", "up"}

\* Variant: a deployer's builder reuses its layer with the sources.
BuildCached(d) ==
  /\ Go(d, "compose", "build")
  /\ context' = [context EXCEPT ![d] = IF @ = 0 THEN checkout ELSE @]
  /\ overlap' = (overlap \/ \E e \in Deployers \ {d} : Composing(e))
  /\ UNCHANGED <<origin, checkout, image, running, before, faults>>

\* The build reads the checkout.
Build(d) ==
  /\ Go(d, "compose", "build")
  /\ context' = [context EXCEPT ![d] = checkout]
  /\ overlap' = (overlap \/ \E e \in Deployers \ {d} : Composing(e))
  /\ UNCHANGED <<origin, checkout, image, running, before, faults>>

\* The build ends: the image has its tag.
Tag(d) ==
  /\ Go(d, "build", "up")
  /\ image' = context[d]
  /\ UNCHANGED <<origin, checkout, running, before, context, faults, overlap>>

\* The containers are recreated from the image.
Up(d) ==
  /\ Go(d, "up", "idle")
  /\ running' = image
  /\ UNCHANGED <<origin, checkout, image, before, context, faults, overlap>>

\* The build or the start fails, or the machine goes down: set -e ends the
\* script, the checkout stays where it was moved to.
DeployFails(d) ==
  /\ pc[d] \in {"compare", "compose", "build", "up"}
  /\ faults < MaxFaults
  /\ faults' = faults + 1
  /\ pc' = [pc EXCEPT ![d] = "idle"]
  /\ UNCHANGED <<origin, checkout, image, running, before, context, overlap>>

Next ==
  \/ Push
  \/ TimerStarts \/ FetchFails \/ FetchAndReset \/ Compare
  \/ OperatorPulls
  \/ \E d \in Deployers : Build(d) \/ Tag(d) \/ Up(d) \/ DeployFails(d)

Spec == Init /\ [][Next]_vars

\* The timer fires for ever, the network is there again and again, docker ends.
\* Of the operator only that a deploy once begun goes on.
Fairness ==
  /\ WF_vars(TimerStarts)
  /\ SF_vars(FetchAndReset)
  /\ WF_vars(Compare)
  /\ \A d \in Deployers : WF_vars(Build(d) \/ Tag(d) \/ Up(d))

FairSpec == Spec /\ Fairness

-----------------------------------------------------------------------------
(* Properties *)

Disturbed == faults > 0 \/ overlap

\* The comparison of HEADs is a sound test for "already deployed": with both
\* scripts at rest, the stack runs what is checked out.
RestIsDeployed ==
  (\A d \in Deployers : pc[d] = "idle") /\ ~Disturbed => running = checkout

\* A deploy never replaces the running version by an older one.
NeverBackwards == [][~Disturbed' => running' >= running]_vars

\* A pushed commit ends up running, operator or not.
CommitIsDeployed ==
  \A v \in Versions : (origin >= v) ~> (running >= v \/ Disturbed)

\* "If there's a new commit, rebuilds + restarts": a pushed commit ends up
\* running, since the timer tries again every two minutes.
NewCommitIsDeployed == \A v \in Versions : (origin >= v) ~> (running >= v)
=============================================================================
