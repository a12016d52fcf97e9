--------------------------- MODULE AutoDeployProofs ---------------------------
(***************************************************************************)
(* Proofs about AutoDeploy, for any number of commits and of failures: as  *)
(* long as no deploy fails and no two overlap, the two scripts together    *)
(* leave the stack at the checkout and never take it back.                 *)
(*                                                                         *)
(* The argument: whoever moves the checkout has still to build it, and as  *)
(* deploys do not overlap, its build comes after any that is under way.    *)
(***************************************************************************)
EXTENDS AutoDeploy, TLAPS

Stages == {"idle", "fetch", "compare", "compose", "build", "up"}

DeployTypeOK ==
  /\ origin \in Nat /\ checkout \in Nat /\ image \in Nat /\ running \in Nat /\ before \in Nat
  /\ pc \in [Deployers -> Stages]
  /\ context \in [Deployers -> Nat]
  /\ faults \in Nat
  /\ overlap \in BOOLEAN

\* Versions only come from where they come from: nobody is ahead of the checkout,
\* nor the checkout ahead of what was pushed.
Behind ==
  /\ checkout <= origin
  /\ before <= checkout
  /\ image <= checkout
  /\ running <= checkout
  /\ \A d \in Deployers : context[d] <= checkout

Apart == \A d, e \in Deployers : Composing(d) /\ Composing(e) => d = e

\* What d builds is not older than what runs.
BuildsForward ==
  \A d \in Deployers :
    /\ pc[d] = "build" => running <= context[d]
    /\ pc[d] = "up" => running <= image

\* d is going to build whatever is checked out then.
WillBuild(d) == pc[d] = "compose" \/ (d = "timer" /\ pc[d] = "compare" /\ before # checkout)

\* d is deploying what is checked out now.
Deploys(d) == (pc[d] = "build" /\ context[d] = checkout) \/ (pc[d] = "up" /\ image = checkout)

\* The checkout runs already, or somebody is about to deploy it.
NoneForgotten ==
  \/ \E d \in Deployers : WillBuild(d) \/ Deploys(d)
  \/ running = checkout /\ \A d \in Deployers : ~Composing(d)

DeployInv ==
  /\ DeployTypeOK
  /\ Behind
  /\ ~Disturbed => Apart /\ BuildsForward /\ NoneForgotten

LEMMA DeployInit == Init => DeployInv
<1> SUFFICES ASSUME Init
             PROVE  DeployInv
  OBVIOUS
<1> USE DEF Init
<1>1. DeployTypeOK
  BY DEF DeployTypeOK, Stages
<1>2. Behind
  BY DEF Behind
<1>3. \A d \in Deployers : ~Composing(d) /\ pc[d] = "idle"
  BY DEF Composing
<1>4. Apart /\ BuildsForward /\ NoneForgotten
  BY <1>3 DEF Apart, BuildsForward, NoneForgotten
<1> QED
  BY <1>1, <1>2, <1>4 DEF DeployInv

\* The steps before a build change neither what is built nor what runs.
LEMMA BeforeBuild ==
  ASSUME DeployInv, Push \/ TimerStarts \/ FetchFails \/ FetchAndReset \/ Compare \/ OperatorPulls
  PROVE  DeployInv'
<1> USE DEF DeployInv, DeployTypeOK, Deployers, Stages, Go, Push, TimerStarts, FetchFails,
            FetchAndReset, Compare, OperatorPulls
<1>1. DeployTypeOK' /\ Behind'
  BY DEF Behind
<1>2. UNCHANGED <<image, running, context, faults, overlap>> /\ (Disturbed' <=> Disturbed)
  BY DEF Disturbed
<1>3. \A d \in Deployers : /\ Composing(d)' <=> Composing(d)
                           /\ pc'[d] = "build" <=> pc[d] = "build"
                           /\ pc'[d] = "up" <=> pc[d] = "up"
  BY DEF Composing
<1>4. ~Disturbed => Apart' /\ BuildsForward'
  BY <1>2, <1>3 DEF Apart, BuildsForward
<1>5. ~Disturbed => NoneForgotten'
  <2>1. CASE Push \/ TimerStarts \/ FetchFails
    BY <1>2, <1>3, <2>1 DEF NoneForgotten, WillBuild, Deploys
  <2>2. CASE FetchAndReset
    <3>1. CASE origin = checkout
      BY <1>2, <1>3, <2>2, <3>1 DEF NoneForgotten, WillBuild, Deploys
    <3>2. CASE origin # checkout
      BY <2>2, <3>2 DEF NoneForgotten, WillBuild, Behind
    <3> QED
      BY <3>1, <3>2
  <2>3. CASE Compare
    BY <1>2, <1>3, <2>3 DEF NoneForgotten, WillBuild, Deploys
  <2>4. CASE OperatorPulls
    BY <2>4 DEF NoneForgotten, WillBuild
  <2> QED
    BY <2>1, <2>2, <2>3, <2>4
<1> QED
  BY <1>1, <1>2, <1>4, <1>5

\* A build, while nobody else is composing; or else it is the overlap.
LEMMA ComposeKeeps ==
  ASSUME DeployInv, NEW d \in Deployers, Build(d) \/ Tag(d) \/ Up(d)
  PROVE  DeployInv'
<1> USE DEF DeployInv, DeployTypeOK, Go
<1>1. DeployTypeOK'
  BY DEF Build, Tag, Up, Stages
<1>2. Behind'
  BY DEF Build, Tag, Up, Behind
<1>3. Disturbed => Disturbed'
  BY DEF Build, Tag, Up, Disturbed
<1>4. ASSUME ~Disturbed'
      PROVE  Apart' /\ BuildsForward' /\ NoneForgotten'
  <2>0. Apart /\ BuildsForward /\ NoneForgotten
    BY <1>3, <1>4
  <2>1. CASE Build(d)
    <3>1. \A e \in Deployers \ {d} : ~Composing(e) /\ pc'[e] = pc[e]
      BY <1>4, <2>1 DEF Build, Disturbed
    <3>2. pc'[d] = "build" /\ context'[d] = checkout /\ UNCHANGED <<checkout, image, running>>
      BY <2>1 DEF Build
    <3>3. Apart'
      BY <3>1 DEF Apart, Composing
    <3>4. BuildsForward'
      BY <3>1, <3>2 DEF BuildsForward, Behind, Composing
    <3>5. NoneForgotten'
      BY <3>2 DEF NoneForgotten, Deploys
    <3> QED
      BY <3>3, <3>4, <3>5
  <2>2. CASE Tag(d) \/ Up(d)
    <3>1. /\ Composing(d)
          /\ \A e \in Deployers \ {d} : ~Composing(e) /\ pc'[e] = pc[e] /\ (WillBuild(e)' <=> WillBuild(e))
          /\ ~WillBuild(d)
      BY <2>0, <2>2 DEF Tag, Up, Apart, Composing, WillBuild
    <3>2. Apart'
      BY <3>1 DEF Apart, Composing
    <3>3. BuildsForward'
      BY <2>0, <2>2, <3>1 DEF BuildsForward, Tag, Up, Composing
    <3>4. NoneForgotten'
      <4>1. ASSUME NEW e \in Deployers, WillBuild(e)
            PROVE  WillBuild(e)'
        BY <3>1, <4>1
      <4>2. CASE Deploys(d)
        <5>1. CASE Tag(d)
          BY <4>2, <5>1 DEF Tag, Deploys, NoneForgotten
        <5>2. CASE Up(d)
          BY <3>1, <4>2, <5>2 DEF Up, Deploys, NoneForgotten, Composing
        <5> QED
          BY <2>2, <5>1, <5>2
      <4>3. CASE ~Deploys(d)
        BY <2>0, <3>1, <4>1, <4>3 DEF NoneForgotten, Deploys, Composing
      <4> QED
        BY <4>2, <4>3
    <3> QED
      BY <3>2, <3>3, <3>4
  <2> QED
    BY <2>1, <2>2
<1> QED
  BY <1>1, <1>2, <1>4

LEMMA DeployStep == DeployInv /\ [Next]_vars => DeployInv'
<1> SUFFICES ASSUME DeployInv, [Next]_vars
             PROVE  DeployInv'
  OBVIOUS
<1>1. ASSUME NEW d \in Deployers, DeployFails(d)
      PROVE  DeployInv'
  <2>1. Disturbed'
    BY <1>1 DEF DeployFails, DeployInv, DeployTypeOK, Disturbed
  <2> QED
    BY <1>1, <2>1 DEF DeployFails, DeployInv, DeployTypeOK, Stages, Behind
<1>2. CASE UNCHANGED vars
  BY <1>2 DEF vars, DeployInv, DeployTypeOK, Behind, Disturbed, Apart, BuildsForward, NoneForgotten,
              Composing, WillBuild, Deploys
<1> QED
  BY <1>1, <1>2, BeforeBuild, ComposeKeeps DEF Next

LEMMA DeployInvariant == Spec => []DeployInv
  BY DeployInit, DeployStep, PTL DEF Spec

\* Whenever both scripts are at rest, the stack runs what is checked out, unless a deploy
\* failed half-way or two overlapped: comparing HEADs is a sound test for
\* "already deployed", whoever moved the checkout.
THEOREM RestRunsCheckout == Spec => []RestIsDeployed
<1>1. DeployInv => RestIsDeployed
  BY DEF DeployInv, RestIsDeployed, NoneForgotten, WillBuild, Deploys
<1> QED
  BY <1>1, DeployInvariant, PTL

\* No deploy takes the stack back to an older version, under the same proviso.
THEOREM DeploysGoForward == Spec => NeverBackwards
<1>1. DeployInv /\ [Next]_vars => [~Disturbed' => running' >= running]_vars
  <2> SUFFICES ASSUME DeployInv, Next, ~Disturbed'
               PROVE  running' >= running
    OBVIOUS
  <2>1. ~Disturbed
    BY DEF Next, Push, TimerStarts, FetchFails, FetchAndReset, Compare, OperatorPulls, Build, Tag, Up,
           DeployFails, Disturbed, DeployInv, DeployTypeOK
  <2>2. ASSUME NEW d \in Deployers, Up(d)
        PROVE  running' >= running
    BY <2>1, <2>2 DEF Up, Go, DeployInv, DeployTypeOK, BuildsForward
  <2>3. (\E d \in Deployers : Up(d)) \/ UNCHANGED running
    BY DEF Next, Push, TimerStarts, FetchFails, FetchAndReset, Compare, OperatorPulls, Build, Tag, DeployFails
  <2> QED
    BY <2>2, <2>3 DEF DeployInv, DeployTypeOK
<1> QED
  BY <1>1, DeployInvariant, PTL DEF Spec, NeverBackwards
=============================================================================
