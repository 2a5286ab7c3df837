----------------------------- MODULE FlowProofs -----------------------------
(***************************************************************************)
(* What a reader may conclude from a call, for every finite set of jobs:   *)
(* the properties of Flow that TLC checks on two jobs.  All but Types and  *)
(* EndsAreTrue hold as long as no daemon starts during the call.           *)
(*                                                                         *)
(* The argument: jobs move downstream and the call looks upstream first,   *)
(* so a job that was published when the call began has been seen, or is    *)
(* still ahead of the call, or a look failed in the directory it was in.   *)
(***************************************************************************)
EXTENDS Flow, FiniteSetTheorems, TLAPS

\* Where Order has the directory of a state.
Place == [staging |-> 0, queued |-> 1, running |-> 2, done |-> 3, failed |-> 4]

Seen(j) == \E s \in Visible : j \in sightings[s]

Ahead(j) ==
    \/ Place[state[j]] > at + 1
    \/ Place[state[j]] = at + 1 /\ j \in left

\* The look that would have seen the job failed.
Slipped(j) ==
    \E s \in Visible : j \in missed[s] /\ (s \in Ended => state[j] = s)

\* The failures that the drain verdict must not count.
Baseline == IF waiting THEN before ELSE older

\* What was seen to have ended has ended.
Sound ==
    /\ sightings["done"] \subseteq InState("done")
    /\ sightings["failed"] \subseteq InState("failed")

Progress ==
    /\ phase = "idle" => known = {} /\ older = {} /\ ~waiting
    /\ phase = "reading" => at < 4
    /\ phase \in {"read", "over"} => at = 4

\* Nothing known slips through.
Watched == \A j \in known : state[j] # "staging" /\ (Seen(j) \/ Ahead(j) \/ Slipped(j))

\* Nor does an old failure.
Counted ==
    /\ Baseline \subseteq InState("failed")
    /\ \A j \in Baseline : j \in sightings["failed"] \cup missed["failed"] \/ Ahead(j)
    /\ waiting => older \subseteq before \cup overlooked

IInv == FlowTypeOK /\ Sound /\ Progress /\ Watched /\ Counted
-----------------------------------------------------------------------------
LEMMA Places ==
    /\ \A s \in Status : Place[s] \in 0..4
    /\ \A s \in Visible : Place[s] \in 1..4 /\ Order[Place[s]] = s
    /\ \A i \in 1..4 : Order[i] \in Visible /\ Place[Order[i]] = i
BY DEF Place, Status, Visible, Order

LEMMA Initially == FlowInit => IInv
<1> SUFFICES ASSUME FlowInit
             PROVE  IInv
    OBVIOUS
<1>1. FlowTypeOK
    <2>1. TypeOK /\ stuck \subseteq Job
        BY DEF FlowInit, Init, TypeOK, Status
    <2>2. sightings \in [Visible -> SUBSET Job]
        BY DEF FlowInit
    <2>6. missed \in [Visible -> SUBSET Job] /\ faults \in 0..MaxFaults /\ overlooked \subseteq older
        BY FlowAssumption DEF FlowInit, FlowAssumption
    <2>3. waiting \in BOOLEAN /\ watching \in BOOLEAN
        BY DEF FlowInit
    <2>4. phase \in {"idle", "reading", "read", "over"} /\ at \in 0..4
        BY DEF FlowInit
    <2>5. left \subseteq Job /\ known \subseteq Job /\ before \subseteq Job /\ older \subseteq Job
        BY DEF FlowInit
    <2> QED BY <2>1, <2>2, <2>3, <2>4, <2>5, <2>6 DEF FlowTypeOK
<1>2. Sound /\ Progress /\ Watched /\ Counted
    BY DEF FlowInit, Sound, Visible, Progress, Watched, Counted, Baseline
<1> QED BY <1>1, <1>2 DEF IInv

\* A job moves downstream, and the call and its history stay as they are.
LEMMA Downstream ==
    ASSUME IInv, NEW j \in Job, Move(j)
    PROVE  IInv'
<1> USE Places DEF IInv
<1>1. PICK from \in Status, to \in Status :
        /\ MoveTo(j, from, to)
        /\ Place[from] < Place[to]
        /\ from \notin Ended
        /\ runs' \in [Job -> Nat]
    BY DEF Move, Publish, Claim, End, Complete, Fail, MoveTo, Status, Ended, Place, FlowTypeOK, TypeOK
<1>2. UNCHANGED <<stuck, callVars, waitVars>>
    BY DEF Move
<1>3. state' \in [Job -> Status]
    BY <1>1 DEF MoveTo, FlowTypeOK, TypeOK
<1>4. FlowTypeOK'
    BY <1>1, <1>2, <1>3 DEF FlowTypeOK, TypeOK, callVars, waitVars
<1>5. \A k \in Job : state[k] \in Ended => state'[k] = state[k]
    BY <1>1 DEF MoveTo, FlowTypeOK, TypeOK
<1>6. \A k \in Job : Place[state'[k]] >= Place[state[k]]
    BY <1>1, <1>3 DEF MoveTo, FlowTypeOK, TypeOK
<1>7. \A k \in Job : Ahead(k) => Ahead(k)'
    <2> SUFFICES ASSUME NEW k \in Job, Ahead(k)
                 PROVE  Ahead(k)'
        OBVIOUS
    <2>1. Place[state[k]] \in Nat /\ Place[state'[k]] \in Nat /\ at \in Nat
        BY <1>3 DEF FlowTypeOK, TypeOK
    <2>2. CASE k = j
        BY <1>1, <1>2, <2>1, <2>2 DEF MoveTo, Ahead, callVars, FlowTypeOK, TypeOK
    <2>3. CASE k # j
        BY <1>1, <1>2, <2>3 DEF MoveTo, Ahead, callVars, FlowTypeOK, TypeOK
    <2> QED BY <2>2, <2>3
<1>8. Sound'
    BY <1>2, <1>5 DEF Sound, InState, Ended, callVars, FlowTypeOK
<1>9. Progress'
    BY <1>2 DEF Progress, callVars, waitVars
<1>10. Watched'
    <2> SUFFICES ASSUME NEW k \in known
                 PROVE  state'[k] # "staging" /\ (Seen(k)' \/ Ahead(k)' \/ Slipped(k)')
        BY <1>2 DEF Watched, callVars
    <2>1. k \in Job
        BY DEF FlowTypeOK
    <2>2. state'[k] # "staging"
        BY <1>6, <1>3, <2>1 DEF Watched, Place, Status, FlowTypeOK, TypeOK
    <2>3. Seen(k) => Seen(k)'
        BY <1>2 DEF Seen, callVars
    <2>4. Slipped(k) => Slipped(k)'
        BY <1>2, <1>5, <2>1 DEF Slipped, callVars
    <2> QED BY <1>7, <2>1, <2>2, <2>3, <2>4 DEF Watched
<1>11. Counted'
    <2>1. Baseline' = Baseline /\ Baseline \subseteq Job
        BY <1>2 DEF Baseline, waitVars, FlowTypeOK
    <2> QED BY <1>2, <1>5, <1>7, <2>1 DEF Counted, InState, Ended, callVars, waitVars
<1> QED BY <1>4, <1>8, <1>9, <1>10, <1>11

\* A daemon recovers a job while nobody reads.
LEMMA Upstream ==
    ASSUME IInv, ~Restarts, NEW j \in Job, Recover(j)
    PROVE  IInv'
<1> USE Places DEF IInv
<1>1. /\ MoveTo(j, "running", "queued") \/ MoveTo(j, "running", "failed")
      /\ runs' = runs /\ stuck' = stuck \ {j}
      /\ UNCHANGED <<callVars, waitVars>>
    BY DEF Recover, Requeue, Fail
<1>2. phase # "reading"
    BY DEF Recover
<1>3. FlowTypeOK'
    BY <1>1 DEF MoveTo, FlowTypeOK, TypeOK, Status, callVars, waitVars
<1>4. \A k \in Job : state[k] \in Ended => state'[k] = state[k]
    BY <1>1 DEF MoveTo, FlowTypeOK, TypeOK, Ended
<1>5. Sound'
    BY <1>1, <1>4 DEF Sound, InState, Ended, callVars, FlowTypeOK
<1>6. Progress'
    BY <1>1 DEF Progress, callVars, waitVars
<1>7. CASE phase = "idle"
    BY <1>1, <1>3, <1>5, <1>6, <1>7 DEF Progress, Watched, Counted, Baseline, callVars, waitVars
<1>8. CASE phase \in {"read", "over"}
    <2>1. \A k \in Job : ~Ahead(k)
        BY <1>8 DEF Progress, Ahead, FlowTypeOK, TypeOK
    <2>2. Watched'
        <3>1. \A k \in Job : Slipped(k) => Slipped(k)'
            BY <1>1, <1>4 DEF Slipped, callVars
        <3>2. \A k \in Job : state[k] # "staging" => state'[k] # "staging"
            BY <1>1 DEF MoveTo, FlowTypeOK, TypeOK
        <3> QED BY <1>1, <2>1, <3>1, <3>2 DEF Watched, Seen, callVars, FlowTypeOK
    <2>3. Baseline' = Baseline /\ Baseline \subseteq Job
        BY <1>1 DEF Baseline, waitVars, FlowTypeOK
    <2>4. Counted'
        BY <1>1, <1>4, <2>1, <2>3 DEF Counted, InState, Ended, callVars, waitVars
    <2> QED BY <1>3, <1>5, <1>6, <2>2, <2>4
<1> QED BY <1>2, <1>7, <1>8 DEF FlowTypeOK

\* A job that gets stuck stays where it is.
LEMMA StuckKeeps ==
    ASSUME IInv, NEW j \in Job, Strand(j)
    PROVE  IInv'
<1>1. UNCHANGED <<vars, callVars, waitVars>> /\ stuck' \subseteq Job
    BY DEF Strand, IInv, FlowTypeOK
<1> QED BY <1>1 DEF vars, callVars, waitVars, IInv, FlowTypeOK, TypeOK, Sound, Progress, Watched,
        Counted, Baseline, Seen, Slipped, Ahead, InState
-----------------------------------------------------------------------------
WaitTyped ==
    /\ waiting \in BOOLEAN
    /\ watching \in BOOLEAN
    /\ before \subseteq Job
    /\ older \subseteq Job
    /\ overlooked \subseteq older

\* Every published job is ahead of a call that begins.
LEMMA Start ==
    ASSUME IInv, Begin
    PROVE  /\ WaitTyped' => FlowTypeOK'
           /\ Sound' /\ Watched'
           /\ phase' = "reading" /\ at' < 4
           /\ \A j \in InState("failed") : Ahead(j)'
<1> USE Places DEF IInv
<1>1. WaitTyped' => FlowTypeOK'
    BY DEF Begin, jobVars, vars, WaitTyped, FlowTypeOK, TypeOK, InState
<1>2. Sound'
    BY DEF Begin, Sound, Visible
<1>3. \A j \in Job : state[j] # "staging" => Ahead(j)'
    BY DEF Begin, jobVars, vars, Ahead, FlowTypeOK, TypeOK, Status, Visible
<1>4. Watched'
    BY <1>3 DEF Begin, jobVars, vars, Watched, InState
<1> QED BY <1>1, <1>2, <1>3, <1>4 DEF Begin, InState

LEMMA LookKeeps ==
    ASSUME IInv, NEW j \in Job, Look(j)
    PROVE  IInv'
<1> USE Places DEF IInv
<1>1. UNCHANGED <<jobVars, phase, at, missed, faults, known, waitVars>>
    BY DEF Look
<1>2. at \in 0..3 /\ Order[at + 1] \in Visible /\ Place[Order[at + 1]] = at + 1
    BY DEF Look, Progress, FlowTypeOK
<1>3. /\ left' = left \ {j}
      /\ sightings' \in [Visible -> SUBSET Job]
      /\ \A s \in Visible : sightings[s] \subseteq sightings'[s]
      /\ \A s \in Visible : sightings'[s] \subseteq sightings[s] \cup (InState(s) \cap {j})
      /\ state[j] = Order[at + 1] => j \in sightings'[state[j]]
    BY <1>2 DEF Look, FlowTypeOK, InState
<1>4. FlowTypeOK'
    BY <1>1, <1>3 DEF FlowTypeOK, TypeOK, jobVars, vars, waitVars
<1>5. Sound'
    BY <1>1, <1>3 DEF Sound, InState, jobVars, vars, Visible
<1>6. Progress'
    BY <1>1 DEF Progress, waitVars
<1>7. \A k \in Job : Ahead(k) => Ahead(k)' \/ (state[k] \in Visible /\ k \in sightings'[state[k]])
    <2> SUFFICES ASSUME NEW k \in Job, Ahead(k), ~Ahead(k)'
                 PROVE  state[k] \in Visible /\ k \in sightings'[state[k]]
        OBVIOUS
    <2>1. k = j /\ Place[state[k]] = at + 1
        BY <1>1, <1>3 DEF Ahead, jobVars, vars
    <2>2. state[k] = Order[at + 1]
        BY <1>2, <2>1 DEF FlowTypeOK, TypeOK, Place, Status, Order, Visible
    <2> QED BY <1>2, <1>3, <2>1, <2>2
<1>8. Watched'
    BY <1>1, <1>3, <1>7 DEF Watched, Seen, Slipped, jobVars, vars, FlowTypeOK
<1>9. Counted'
    <2>1. Baseline' = Baseline /\ Baseline \subseteq Job
        BY <1>1 DEF Baseline, waitVars, FlowTypeOK
    <2>2. \A k \in Baseline : state[k] = "failed"
        BY DEF Counted, InState
    <2> QED BY <1>1, <1>3, <1>7, <2>1, <2>2 DEF Counted, InState, jobVars, vars, waitVars, Visible
<1> QED BY <1>4, <1>5, <1>6, <1>8, <1>9

LEMMA FailureKeeps ==
    ASSUME IInv, NEW hidden \in SUBSET left, LooksFail(hidden)
    PROVE  IInv'
<1> USE Places DEF IInv
<1>1. UNCHANGED <<jobVars, phase, at, sightings, known, waitVars>>
    BY DEF LooksFail
<1>2. at \in 0..3 /\ Order[at + 1] \in Visible /\ Place[Order[at + 1]] = at + 1
    BY DEF LooksFail, Progress, FlowTypeOK
<1>3. /\ left' = left \ hidden /\ faults' \in 0..MaxFaults
      /\ missed' \in [Visible -> SUBSET Job]
      /\ \A s \in Visible : missed[s] \subseteq missed'[s]
      /\ \A k \in hidden : k \in missed'[Order[at + 1]]
    BY <1>2, FlowAssumption DEF LooksFail, FlowTypeOK, FlowAssumption
<1>4. FlowTypeOK'
    BY <1>1, <1>3 DEF FlowTypeOK, TypeOK, jobVars, vars, waitVars
<1>5. Sound' /\ Progress'
    BY <1>1 DEF Sound, Progress, InState, jobVars, vars, waitVars
<1>6. \A k \in Job : Ahead(k) => Ahead(k)' \/ (state[k] \in Visible /\ k \in missed'[state[k]])
    <2> SUFFICES ASSUME NEW k \in Job, Ahead(k), ~Ahead(k)'
                 PROVE  state[k] \in Visible /\ k \in missed'[state[k]]
        OBVIOUS
    <2>1. k \in hidden /\ Place[state[k]] = at + 1
        BY <1>1, <1>3 DEF Ahead, jobVars, vars
    <2>2. state[k] = Order[at + 1]
        BY <1>2, <2>1 DEF FlowTypeOK, TypeOK, Place, Status, Order, Visible
    <2> QED BY <1>2, <1>3, <2>1, <2>2
<1>7. Watched'
    <2> SUFFICES ASSUME NEW k \in known
                 PROVE  state'[k] # "staging" /\ (Seen(k)' \/ Ahead(k)' \/ Slipped(k)')
        BY <1>1 DEF Watched
    <2>1. state' = state /\ k \in Job
        BY <1>1 DEF jobVars, vars, FlowTypeOK
    <2>2. Seen(k) => Seen(k)'
        BY <1>1 DEF Seen
    <2>3. Slipped(k) => Slipped(k)'
        BY <1>3, <2>1 DEF Slipped
    <2>4. Ahead(k) => Ahead(k)' \/ Slipped(k)'
        BY <1>6, <2>1 DEF Slipped
    <2> QED BY <2>1, <2>2, <2>3, <2>4 DEF Watched
<1>8. Counted'
    <2>1. Baseline' = Baseline /\ Baseline \subseteq Job
        BY <1>1 DEF Baseline, waitVars, FlowTypeOK
    <2>2. \A k \in Baseline : state[k] = "failed"
        BY DEF Counted, InState
    <2> QED BY <1>1, <1>3, <1>6, <2>1, <2>2 DEF Counted, InState, jobVars, vars, waitVars, Visible
<1> QED BY <1>4, <1>5, <1>7, <1>8

LEMMA DirectoryKeeps ==
    ASSUME IInv, NextDirectory
    PROVE  IInv'
<1> USE Places DEF IInv
<1>1. UNCHANGED <<jobVars, sightings, missed, faults, known, waitVars>> /\ at' = at + 1 /\ at \in 0..3
    BY DEF NextDirectory, Progress, FlowTypeOK
<1>2. FlowTypeOK'
    BY <1>1 DEF NextDirectory, FlowTypeOK, TypeOK, jobVars, vars, waitVars
<1>3. Sound'
    BY <1>1 DEF Sound, InState, jobVars, vars
<1>4. Progress'
    BY <1>1 DEF NextDirectory, Progress
<1>5. \A k \in Job : Ahead(k) => Ahead(k)'
    <2> SUFFICES ASSUME NEW k \in Job, Ahead(k)
                 PROVE  Ahead(k)'
        OBVIOUS
    <2>1. Place[state[k]] \in 0..4 /\ Place[state[k]] > at + 1
        BY DEF NextDirectory, Ahead, FlowTypeOK, TypeOK
    <2>2. left' = Job
        BY <1>1, <2>1 DEF NextDirectory
    <2> QED BY <1>1, <2>1, <2>2 DEF Ahead, jobVars, vars
<1>6. Watched'
    BY <1>1, <1>5 DEF Watched, Seen, Slipped, jobVars, vars, FlowTypeOK
<1>7. Counted'
    <2>1. Baseline' = Baseline /\ Baseline \subseteq Job
        BY <1>1 DEF Baseline, waitVars, FlowTypeOK
    <2> QED BY <1>1, <1>5, <2>1 DEF Counted, InState, jobVars, vars, waitVars
<1> QED BY <1>2, <1>3, <1>4, <1>6, <1>7

\* A call reads.
LEMMA CallKeeps ==
    ASSUME IInv, Call
    PROVE  IInv'
<1>1. CASE FirstCall
    <2>1. /\ Begin /\ UNCHANGED <<state, waiting, watching, before>>
          /\ older' = InState("failed") /\ overlooked' = {} /\ ~waiting
        BY <1>1 DEF FirstCall, Begin, jobVars, vars, IInv, Progress
    <2>2. FlowTypeOK'
        BY <2>1, Start DEF IInv, FlowTypeOK, WaitTyped, InState
    <2>3. Counted'
        BY <2>1, Start DEF Counted, Baseline, InState
    <2> QED BY <2>1, <2>2, <2>3, Start DEF IInv, Progress
<1>2. CASE EnterLoop
    <2>1. /\ Begin /\ UNCHANGED <<state, watching, older>>
          /\ before' = sightings["failed"] /\ waiting' = TRUE
        BY <1>2 DEF EnterLoop, Begin, jobVars, vars
    <2>2. before' \subseteq InState("failed")
        BY <2>1 DEF IInv, Sound
    <2>3. older \subseteq before' \cup overlooked' /\ overlooked' \subseteq older
        BY <1>2, <2>1, Places DEF EnterLoop, IInv, Progress, Counted, Baseline, Ahead, FlowTypeOK, TypeOK
    <2>4. FlowTypeOK'
        BY <2>1, <2>2, <2>3, Start DEF IInv, FlowTypeOK, WaitTyped, InState
    <2>5. Counted'
        BY <2>1, <2>2, <2>3, Start DEF Counted, Baseline, InState
    <2> QED BY <2>1, <2>4, <2>5, Start DEF IInv, Progress
<1>3. CASE CallAgain
    <2>1. Begin /\ UNCHANGED <<state, waitVars>> /\ waiting
        BY <1>3 DEF CallAgain, Begin, jobVars, vars, waitVars
    <2>2. FlowTypeOK'
        BY <2>1, Start DEF IInv, FlowTypeOK, WaitTyped, waitVars
    <2>3. Counted'
        BY <2>1, Start DEF IInv, Counted, Baseline, InState, waitVars
    <2> QED BY <2>1, <2>2, <2>3, Start DEF IInv, Progress
<1>4. CASE TakeOver
    <2>1. /\ Begin /\ UNCHANGED <<state, before>> /\ older' = InState("failed") /\ overlooked' = {}
          /\ ~waiting' /\ waiting' \in BOOLEAN /\ watching' \in BOOLEAN
        BY <1>4 DEF TakeOver, Begin, jobVars, vars
    <2>2. FlowTypeOK'
        BY <2>1, Start DEF IInv, FlowTypeOK, WaitTyped, InState
    <2>3. Counted'
        BY <2>1, Start DEF Counted, Baseline, InState
    <2> QED BY <2>1, <2>2, <2>3, Start DEF IInv, Progress
<1>5. CASE NextDirectory
    BY <1>5, DirectoryKeeps
<1>6. CASE \E j \in Job : Look(j)
    BY <1>6, LookKeeps
<1> QED BY <1>1, <1>2, <1>3, <1>4, <1>5, <1>6 DEF Call

\* Giving up changes no more than the phase.
LEMMA GivenUp ==
    ASSUME IInv, GiveUp
    PROVE  IInv'
<1>1. UNCHANGED <<jobVars, at, left, sightings, missed, faults, known, waitVars>> /\ phase' = "over"
    BY DEF GiveUp
<1>2. at = 4
    BY DEF GiveUp, IInv, Progress
<1> QED BY <1>1, <1>2 DEF jobVars, vars, waitVars, IInv, FlowTypeOK, TypeOK, Sound, Progress, Watched,
        Counted, Baseline, Seen, Slipped, Ahead, InState

LEMMA Invariance == ~Restarts /\ IInv /\ [FlowNext]_flowVars => IInv'
<1> SUFFICES ASSUME ~Restarts, IInv, [FlowNext]_flowVars
             PROVE  IInv'
    OBVIOUS
<1>1. CASE FlowNext
    BY <1>1, CallKeeps, FailureKeeps, GivenUp, Downstream, StuckKeeps, Upstream DEF FlowNext
<1>2. CASE UNCHANGED flowVars
    BY <1>2 DEF flowVars, jobVars, vars, callVars, waitVars, IInv, FlowTypeOK, TypeOK, Sound, Progress,
        Watched, Counted, Baseline, Seen, Slipped, Ahead, InState
<1> QED BY <1>1, <1>2

LEMMA Always ==
    ASSUME ~Restarts
    PROVE  FlowSpec => []IInv
<1>1. IInv /\ [FlowNext]_flowVars => IInv'
    BY Invariance
<1> QED BY <1>1, Initially, PTL DEF FlowSpec
-----------------------------------------------------------------------------
\* At the end of a call nothing is ahead of it.
LEMMA AllSeen ==
    ASSUME IInv, phase = "read"
    PROVE  /\ \A j \in known : Seen(j) \/ Slipped(j)
           /\ \A j \in Baseline : j \in sightings["failed"] \cup missed["failed"]
<1>1. \A j \in Job : ~Ahead(j)
    BY Places DEF IInv, Progress, Ahead, FlowTypeOK, TypeOK
<1> QED BY <1>1 DEF IInv, Watched, Counted, Baseline, FlowTypeOK

\* The state that a call names is one in which it saw the job, and a job that
\* it calls missing it has not seen, or missed.
LEMMA SeenIsFound ==
    ASSUME NEW j \in Job
    PROVE  /\ StatusOf(j) # "missing" => StatusOf(j) \in Visible /\ j \in sightings[StatusOf(j)]
           /\ StatusOf(j) = "missing" /\ Seen(j) => \E s \in Visible : j \in missed[s]
<1> DEFINE Meets(i) == j \in sightings[Order[i]] \cup missed[Order[i]]
           P(i) == Meets(i) /\ \A k \in 1..(i - 1) : ~Meets(k)
           First == CHOOSE i \in 1..4 : P(i)
<1>1. StatusOf(j) = IF (\E i \in 1..4 : Meets(i)) /\ j \in sightings[Order[First]]
                    THEN Order[First] ELSE "missing"
    BY DEF StatusOf
<1>2. ASSUME \E i \in 1..4 : Meets(i)
      PROVE  First \in 1..4 /\ Meets(First)
    <2> HIDE DEF Meets
    <2>1. \E i \in 1..4 : P(i)
        <3>1. CASE Meets(1)
            <4>1. P(1) BY <3>1
            <4> QED BY <4>1
        <3>2. CASE ~Meets(1) /\ Meets(2)
            <4>1. P(2) BY <3>2
            <4> QED BY <4>1
        <3>3. CASE ~Meets(1) /\ ~Meets(2) /\ Meets(3)
            <4>1. P(3) BY <3>3
            <4> QED BY <4>1
        <3>4. CASE ~Meets(1) /\ ~Meets(2) /\ ~Meets(3) /\ Meets(4)
            <4>1. P(4) BY <3>4
            <4> QED BY <4>1
        <3> QED BY <1>2, <3>1, <3>2, <3>3, <3>4
    <2> QED BY <2>1
<1>3. Order[First] \in Visible \/ ~\E i \in 1..4 : Meets(i)
    BY <1>2, Places
<1>4. Seen(j) => \E i \in 1..4 : Meets(i)
    BY Places DEF Seen
<1>5. ASSUME StatusOf(j) # "missing"
      PROVE  StatusOf(j) \in Visible /\ j \in sightings[StatusOf(j)]
    <2>1. /\ StatusOf(j) = Order[First] /\ j \in sightings[Order[First]]
          /\ \E i \in 1..4 : Meets(i)
        <3> HIDE DEF First, Meets
        <3> QED BY <1>1, <1>5
    <2>2. Order[First] \in Visible
        <3> HIDE DEF First, Meets
        <3> QED BY <1>3, <2>1
    <2> QED BY <2>1, <2>2
<1>6. ASSUME StatusOf(j) = "missing", Seen(j)
      PROVE  \E s \in Visible : j \in missed[s]
    <2>1. First \in 1..4 /\ Meets(First) /\ Order[First] \in Visible
        <3> HIDE DEF First, Meets
        <3> QED BY <1>2, <1>3, <1>4, <1>6
    <2>2. j \notin sightings[Order[First]]
        <3>1. Order[First] # "missing"
            BY <2>1 DEF Visible
        <3>2. \E i \in 1..4 : Meets(i)
            <4> HIDE DEF First, Meets
            <4> QED BY <2>1
        <3> HIDE DEF First, Meets
        <3> QED BY <1>1, <1>6, <3>1, <3>2
    <2>3. j \in missed[Order[First]]
        <3> HIDE DEF First
        <3> QED BY <2>1, <2>2
    <2> QED BY <2>1, <2>3
<1> QED BY <1>5, <1>6

(***************************************************************************)
(* What a call keeps has the types it should have (the variables of Flow). *)
(***************************************************************************)
THEOREM Types == FlowSpec => []FlowTypeOK
<1> DEFINE T == FlowTypeOK /\ (phase = "reading" => at < 4)
<1>1. FlowInit => T
    BY Initially DEF IInv, Progress
<1>2. T /\ [FlowNext]_flowVars => T'
    <2> SUFFICES ASSUME T, [FlowNext]_flowVars
                 PROVE  T'
        OBVIOUS
    <2> USE DEF FlowTypeOK, TypeOK
    <2>1. CASE Call
        <3>1. CASE FirstCall
            BY <3>1 DEF FirstCall, Begin, InState, jobVars, vars
        <3>2. CASE EnterLoop
            BY <3>2 DEF EnterLoop, Begin, InState, Visible, jobVars, vars
        <3>3. CASE CallAgain
            BY <3>3 DEF CallAgain, Begin, InState, jobVars, vars, waitVars
        <3>4. CASE TakeOver
            <4>1. waiting' \in BOOLEAN /\ watching' \in BOOLEAN
                BY <3>4 DEF TakeOver
            <4>2. Begin /\ UNCHANGED before /\ older' = InState("failed") /\ overlooked' = {}
                BY <3>4 DEF TakeOver
            <4> QED BY <4>1, <4>2 DEF Begin, InState, jobVars, vars
        <3>5. CASE NextDirectory
            BY <3>5 DEF NextDirectory, jobVars, vars, waitVars
        <3>6. ASSUME NEW j \in Job, Look(j)
              PROVE  T'
            <4>1. sightings' \in [Visible -> SUBSET Job]
                BY <3>6 DEF Look
            <4> QED BY <3>6, <4>1 DEF Look, jobVars, vars, waitVars
        <3> QED BY <2>1, <3>1, <3>2, <3>3, <3>4, <3>5, <3>6 DEF Call
    <2>4. CASE GiveUp
        BY <2>4 DEF GiveUp, jobVars, vars, waitVars
    <2>5. ASSUME NEW hidden \in SUBSET left, LooksFail(hidden)
          PROVE  T'
        <3>1. missed' \in [Visible -> SUBSET Job]
            BY <2>5 DEF LooksFail
        <3>2. faults' \in 0..MaxFaults
            BY <2>5, FlowAssumption DEF LooksFail, FlowAssumption
        <3> QED BY <2>5, <3>1, <3>2 DEF LooksFail, jobVars, vars, waitVars
    <2>2. ASSUME NEW j \in Job, Move(j) \/ Strand(j) \/ Recover(j)
          PROVE  T'
        BY <2>2 DEF Move, Publish, Claim, End, Complete, Fail, Strand, vars, Recover, Requeue, MoveTo, Status,
            callVars, waitVars
    <2>3. CASE UNCHANGED flowVars
        BY <2>3 DEF flowVars, jobVars, vars, callVars, waitVars
    <2> QED BY <2>1, <2>2, <2>3, <2>4, <2>5 DEF FlowNext
<1> QED BY <1>1, <1>2, PTL DEF FlowSpec

(***************************************************************************)
(* An end that a call reports is true, even when daemons start and recover *)
(* during the call: what cannot be relied on then is that a job is found   *)
(* at all (flow_missing).                                                  *)
(***************************************************************************)
THEOREM EndsAreTrue == FlowSpec => []ReportedEndIsTrue
<1>1. FlowInit => Sound
    BY DEF FlowInit, Sound, Visible
<1>2. FlowTypeOK /\ Sound /\ [FlowNext]_flowVars => Sound'
    <2> SUFFICES ASSUME FlowTypeOK, Sound, [FlowNext]_flowVars
                 PROVE  Sound'
        OBVIOUS
    <2> USE DEF FlowTypeOK, TypeOK, Sound, InState
    <2>1. CASE Begin
        BY <2>1 DEF Begin, Visible
    <2>2. CASE NextDirectory \/ GiveUp \/ UNCHANGED flowVars
        BY <2>2 DEF NextDirectory, GiveUp, flowVars, jobVars, vars, callVars
    <2>6. ASSUME NEW hidden \in SUBSET left, LooksFail(hidden)
          PROVE  Sound'
        BY <2>6 DEF LooksFail, jobVars, vars
    <2>3. ASSUME NEW j \in Job, Look(j)
          PROVE  Sound'
        <3>1. state' = state
            BY <2>3 DEF Look, jobVars, vars
        <3>2. \A s \in Visible : sightings'[s] \subseteq sightings[s] \cup InState(s)
            BY <2>3 DEF Look
        <3> QED BY <3>1, <3>2 DEF Visible
    <2>4. ASSUME NEW j \in Job, Move(j) \/ Strand(j) \/ Recover(j)
          PROVE  Sound'
        <3>1. \A k \in Job : state[k] \in Ended => state'[k] = state[k]
            BY <2>4 DEF Move, Publish, Claim, End, Complete, Fail, Strand, vars, Recover, Requeue,
                MoveTo, Ended
        <3>2. sightings' = sightings
            BY <2>4 DEF Move, Strand, Recover, callVars
        <3>3. sightings["done"] \subseteq Job /\ sightings["failed"] \subseteq Job
            BY DEF Visible
        <3> QED BY <3>1, <3>2, <3>3 DEF Ended
    <2>5. CASE FirstCall \/ EnterLoop \/ CallAgain \/ TakeOver
        BY <2>1, <2>5 DEF FirstCall, EnterLoop, CallAgain, TakeOver
    <2> QED BY <2>2, <2>3, <2>4, <2>5, <2>6 DEF FlowNext, Call
<1>3. FlowTypeOK /\ Sound => ReportedEndIsTrue
    <2> SUFFICES ASSUME FlowTypeOK, Sound, NEW j \in Job, StatusOf(j) \in Ended
                 PROVE  state[j] = StatusOf(j)
        BY DEF ReportedEndIsTrue
    <2>1. j \in sightings[StatusOf(j)]
        BY SeenIsFound DEF Ended
    <2> QED BY <2>1 DEF Sound, InState, Ended
<1> QED BY <1>1, <1>2, <1>3, Types, PTL DEF FlowSpec

(***************************************************************************)
(* A job that was published before a call began is found by the call       *)
(* (flow.cpp:157), if no daemon starts during the call and no look for the *)
(* job fails.                                                              *)
(***************************************************************************)
THEOREM Found ==
    ASSUME ~Restarts
    PROVE  FlowSpec => []NeverMissing
<1>1. IInv => NeverMissing
    <2> SUFFICES ASSUME IInv, phase = "read", NEW j \in known, StatusOf(j) = "missing"
                 PROVE  \E s \in Visible : j \in missed[s]
        BY DEF NeverMissing
    <2> QED BY AllSeen, SeenIsFound DEF Slipped, IInv, FlowTypeOK
<1> QED BY <1>1, Always, PTL

(***************************************************************************)
(* A call that saw nothing queued and nothing running is right: whatever   *)
(* was published before it has ended (nrvnad.cpp:497), unless a look among *)
(* the queued or the running jobs failed to show it.                       *)
(***************************************************************************)
THEOREM QuietIsOver ==
    ASSUME ~Restarts
    PROVE  FlowSpec => []QuietMeansEnded
<1>1. IInv => QuietMeansEnded
    <2> SUFFICES ASSUME IInv, phase = "read", Quiet,
                        NEW j \in known \ (missed["queued"] \cup missed["running"])
                 PROVE  state[j] \in Ended
        BY DEF QuietMeansEnded
    <2>1. CASE Seen(j)
        BY <2>1 DEF Seen, Visible, Quiet, IInv, Sound, InState, Ended
    <2>2. CASE Slipped(j)
        BY <2>2 DEF Slipped, Visible, Ended
    <2> QED BY <2>1, <2>2, AllSeen
<1> QED BY <1>1, Always, PTL

(***************************************************************************)
(* When no member of a set was last seen pending, every member has ended,  *)
(* and those that failed are reported as failed (flw.cpp:299), of the      *)
(* members that no look has failed for.                                    *)
(***************************************************************************)
THEOREM SetVerdict ==
    ASSUME ~Restarts
    PROVE  FlowSpec => []VerdictIsFinal
<1>1. IInv => VerdictIsFinal
    <2> SUFFICES ASSUME IInv, phase = "read", NonePending,
                        NEW j \in known \ UNION {missed[s] : s \in Visible}
                 PROVE  /\ state[j] \in Ended
                        /\ state[j] = "failed" => j \in LastSeen("failed")
        BY DEF VerdictIsFinal
    <2>0. Seen(j)
        BY AllSeen DEF Slipped
    <2>1. j \in sightings["queued"] => \E s \in {"running", "done", "failed"} : j \in sightings[s]
        BY DEF NonePending, LastSeen, Order
    <2>2. j \in sightings["running"] => \E s \in {"done", "failed"} : j \in sightings[s]
        BY DEF NonePending, LastSeen, Order
    <2>3. j \in sightings["done"] \/ j \in sightings["failed"]
        BY <2>0, <2>1, <2>2 DEF Seen, Visible
    <2>4. state[j] \in Ended /\ (state[j] = "failed" => j \in sightings["failed"])
        BY <2>3 DEF IInv, Sound, InState, Ended
    <2>5. j \in sightings["failed"] => j \in LastSeen("failed")
        BY DEF LastSeen, Order
    <2> QED BY <2>4, <2>5
<1> QED BY <1>1, Always, PTL

(***************************************************************************)
(* The exit code of a drain counts a failure of its own time if there is   *)
(* one, and none from before (nrvnad.cpp:612), as far as the looks of its  *)
(* first and its last call at the failed jobs did not fail.                *)
(***************************************************************************)
THEOREM DrainIsFair ==
    ASSUME ~Restarts, IsFiniteSet(Job)
    PROVE  FlowSpec => []DrainVerdict
<1>1. IInv => DrainVerdict
    <2> SUFFICES ASSUME IInv, phase = "read", waiting, Quiet
                 PROVE  /\ MoreFailed => (InState("failed") \ older) \cup overlooked # {}
                        /\ ~MoreFailed /\ (\A s \in Visible \ {"done"} : missed[s] = {}) =>
                               InState("failed") \cap known \subseteq before
        BY DEF DrainVerdict
    <2> DEFINE now == sightings["failed"]
    <2>1. IsFiniteSet(before) /\ IsFiniteSet(now)
        BY FS_Subset DEF IInv, FlowTypeOK, Visible
    <2>2. Cardinality(before) \in Nat /\ Cardinality(now) \in Nat
        BY <2>1, FS_CardinalityType
    <2>3. MoreFailed => (InState("failed") \ older) \cup overlooked # {}
        <3> SUFFICES ASSUME MoreFailed, InState("failed") \subseteq older, overlooked = {}
                     PROVE  FALSE
            OBVIOUS
        <3>1. now \subseteq before
            BY DEF IInv, Sound, Counted
        <3> QED BY <2>1, <2>2, <3>1, FS_Subset DEF MoreFailed
    <2>4. ASSUME ~MoreFailed, \A s \in Visible \ {"done"} : missed[s] = {}
          PROVE  InState("failed") \cap known \subseteq before
        <3>1. before \subseteq now
            BY <2>4, AllSeen DEF Baseline, Visible
        <3>2. \A j \in InState("failed") : ~Slipped(j)
            BY <2>4 DEF Slipped, InState, Ended
        <3>3. InState("failed") \cap known \subseteq now
            BY <3>2, AllSeen DEF Seen, Visible, Quiet, IInv, Sound, InState
        <3>4. before = now
            BY <2>1, <2>2, <2>4, <3>1, FS_Subset DEF MoreFailed
        <3> QED BY <3>3, <3>4
    <2> QED BY <2>3, <2>4
<1> QED BY <1>1, Always, PTL
=============================================================================
