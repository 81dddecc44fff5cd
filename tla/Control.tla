------------------------------ MODULE Control ------------------------------
(***************************************************************************)
(* The control thread: ControlLoop::tick (src/control/control_loop.cpp)    *)
(* with the SourceTracker, the ZoneMap and the ConversationStateMachine it *)
(* drives, as src/main.cpp builds them.                                    *)
(*                                                                         *)
(* Time is relative: instead of the time at which something happened the   *)
(* model keeps how long ago that was, up to an age at which every timeout  *)
(* has elapsed.  A direction is a member of a small set with a zone policy *)
(* and with the directions the stability threshold accepts; the smoothing  *)
(* of several observations of one source in a poll may leave its track in  *)
(* any direction.  A confidence is whether it passes for speech.           *)
(***************************************************************************)
EXTENDS Integers

CONSTANTS Sources,     \* source_id
          Directions,  \* azimuths
          Policy,      \* the policy of the first zone that holds a direction
          Near,        \* the directions within zone_direction_stability_deg of one
          Straight,    \* azimuth 0, the target of a failsafe snapshot
          NoTrack,     \* a source that is not in tracks_
          ActivationHold, ConfirmationHold, ReleaseHold, HoldDirection,
          FailsafeTimeout,
          MaxAge,      \* bound: the age from which on ages are not told apart
          MaxGap       \* bound: the longest time between two ticks

Policies == {"focus", "assist", "ambient", "unzoned"}
Ages == 0 .. MaxAge
Track == [age : Ages, az : Directions, speech : BOOLEAN]

ASSUME ControlAssumption ==
    /\ Policy \in [Directions -> Policies]
    /\ Near \in [Directions -> SUBSET Directions]
    /\ \A d \in Directions : d \in Near[d]
    /\ Straight \in Directions
    /\ NoTrack \notin Track
    /\ MaxAge \in Nat
    /\ FailsafeTimeout \in 0 .. MaxAge - 1
    /\ {ActivationHold, ConfirmationHold, ReleaseHold, HoldDirection} \subseteq 0 .. MaxAge
    /\ MaxGap \in Nat \ {0}

VARIABLES tracks,      \* tracks_
          sinceObs,    \* the age of last_observation_ns_
          healthy,     \* provider_->isHealthy() in the last tick
          input,       \* the ConversationInput of the last tick
          state,       \* state_
          sinceEntry,  \* the age of state_entry_ns_
          focus,       \* focus_target_
          snapshot,    \* the SteeringSnapshot published last
          talking      \* history: how long every tick's input has been Eligible

sensing == <<tracks, sinceObs, healthy, input>>
conversation == <<state, sinceEntry, focus>>
vars == <<sensing, conversation, snapshot, talking>>

\* Mutant of Later: an age grows for ever.
LaterUncapped(age, dt) == age + dt

Later(age, dt) == IF age + dt < MaxAge THEN age + dt ELSE MaxAge

Observation == [az : Directions, speech : BOOLEAN]
Input == [track : BOOLEAN, az : Directions, speech : BOOLEAN]
NoInput == [track |-> FALSE, az |-> Straight, speech |-> FALSE]   \* ConversationInput{}
Failsafe == [failsafe |-> TRUE, target |-> Straight]

Init == /\ tracks = [s \in Sources |-> NoTrack]
        /\ sinceObs = 0           \* last_observation_ns_ is 0, and so is the clock
        /\ healthy \in BOOLEAN
        /\ input = NoInput
        /\ state = "Ambient" /\ sinceEntry = 0 /\ focus = Straight
        /\ snapshot = Failsafe
        /\ talking = 0
-----------------------------------------------------------------------------
\* SourceTracker.  A track is erased when it is stale and something is ingested.
IsStale(age) == age > FailsafeTimeout

Known(trk) == {s \in Sources : trk[s] # NoTrack}

Aged(dt) == [s \in Sources |-> IF tracks[s] = NoTrack THEN NoTrack
                               ELSE [tracks[s] EXCEPT !.age = Later(@, dt)]]

Ingest(aged, fresh) ==
    [s \in Sources |->
        IF s \in DOMAIN fresh THEN [age |-> 0, az |-> fresh[s].az, speech |-> fresh[s].speech]
        ELSE IF s \in Known(aged) /\ IsStale(aged[s].age) THEN NoTrack
        ELSE aged[s]]

Live(trk) == {s \in Known(trk) : ~IsStale(trk[s].age)}

\* best() prefers the highest confidence, so one that passes for speech if there is any.
Best(trk) == {s \in Live(trk) : trk[s].speech \/ \A r \in Live(trk) : ~trk[r].speech}

\* The head of tick(): poll, ingest, and the track the conversation gets to see.
StaleObservations(age) == age >= FailsafeTimeout

Chosen(trk, ok) ==
    IF ok /\ Best(trk) # {} THEN {[track |-> TRUE, az |-> trk[s].az, speech |-> trk[s].speech] : s \in Best(trk)}
    ELSE {NoInput}

Sense(dt) == \E heard \in SUBSET Sources : \E fresh \in [heard -> Observation] :
    /\ tracks' = IF heard = {} THEN Aged(dt) ELSE Ingest(Aged(dt), fresh)
    /\ sinceObs' = IF heard = {} THEN Later(sinceObs, dt) ELSE 0
    /\ healthy' \in IF heard = {} THEN BOOLEAN ELSE {TRUE}
    /\ input' \in Chosen(tracks', healthy' /\ ~StaleObservations(sinceObs'))
-----------------------------------------------------------------------------
\* ConversationStateMachine::update, given its input i, dt after the last call.
IsFocusEligible(i) == i.track /\ Policy[i.az] \in {"focus", "assist"}
IsAmbientZone(i) == i.track /\ Policy[i.az] = "ambient"
DirectionStable(i) == i.az \in Near[focus]
Eligible(i) == i.speech /\ IsFocusEligible(i)

Goto(next) == state' = next /\ sinceEntry' = 0
Stay(dt) == state' = state /\ sinceEntry' = Later(sinceEntry, dt)
Elapsed(dt, hold) == Later(sinceEntry, dt) >= hold
Aim(i) == focus' = i.az

FromAmbient(i, dt) ==
    /\ state = "Ambient"
    /\ IF Eligible(i) THEN Goto("Candidate") /\ Aim(i) ELSE Stay(dt) /\ UNCHANGED focus

\* Mutants of FromCandidate: a pause is overlooked; every tick starts the hold afresh.
CandidatePauses(i, dt) ==
    /\ state = "Candidate"
    /\ \/ ~Eligible(i) /\ Stay(dt) /\ UNCHANGED focus
       \/ Eligible(i) /\ Elapsed(dt, ActivationHold) /\ Goto("Focused") /\ Aim(i)
       \/ Eligible(i) /\ ~Elapsed(dt, ActivationHold) /\ Stay(dt) /\ UNCHANGED focus

CandidateRestarts(i, dt) ==
    /\ state = "Candidate"
    /\ IF Eligible(i) THEN Goto("Candidate") /\ Aim(i) ELSE Goto("Ambient") /\ UNCHANGED focus

FromCandidate(i, dt) ==
    /\ state = "Candidate"
    /\ \/ ~Eligible(i) /\ Goto("Ambient") /\ UNCHANGED focus
       \/ Eligible(i) /\ Elapsed(dt, ActivationHold) /\ Goto("Focused") /\ Aim(i)
       \/ Eligible(i) /\ ~Elapsed(dt, ActivationHold) /\ Stay(dt) /\ UNCHANGED focus

\* Mutant of FromFocused: a stable direction is followed before its zone is looked at.
FocusFollows(i, dt) ==
    /\ state = "Focused"
    /\ \/ i.track /\ i.speech /\ DirectionStable(i) /\ Stay(dt) /\ Aim(i)
       \/ ~i.track /\ Goto("Held") /\ UNCHANGED focus
       \/ i.track /\ ~(i.speech /\ DirectionStable(i)) /\ Goto("Releasing") /\ UNCHANGED focus

FromFocused(i, dt) ==
    /\ state = "Focused"
    /\ \/ IsAmbientZone(i) /\ Goto("Releasing") /\ UNCHANGED focus
       \/ i.track /\ ~IsAmbientZone(i) /\ i.speech /\ DirectionStable(i) /\ Stay(dt) /\ Aim(i)
       \/ ~i.track /\ Goto("Held") /\ UNCHANGED focus
       \/ i.track /\ ~(i.speech /\ DirectionStable(i)) /\ Goto("Releasing") /\ UNCHANGED focus

\* Mutant of FromHeld: a held direction never times out.
HeldForever(i, dt) ==
    /\ state = "Held"
    /\ IF Eligible(i) THEN Goto("Focused") /\ Aim(i) ELSE Stay(dt) /\ UNCHANGED focus

FromHeld(i, dt) ==
    /\ state = "Held"
    /\ \/ Eligible(i) /\ Goto("Focused") /\ Aim(i)
       \/ ~Eligible(i) /\ Elapsed(dt, HoldDirection) /\ Goto("Releasing") /\ UNCHANGED focus
       \/ ~Eligible(i) /\ ~Elapsed(dt, HoldDirection) /\ Stay(dt) /\ UNCHANGED focus

FromReleasing(i, dt) ==
    /\ state = "Releasing"
    /\ IF Eligible(i) /\ Elapsed(dt, ConfirmationHold) THEN Goto("Focused") /\ Aim(i)
       ELSE /\ IF Elapsed(dt, ReleaseHold) THEN Goto("Ambient") ELSE Stay(dt)
            /\ UNCHANGED focus

Update(i, dt) == \/ FromAmbient(i, dt) \/ FromCandidate(i, dt) \/ FromFocused(i, dt)
                 \/ FromHeld(i, dt) \/ FromReleasing(i, dt)

\* The tail of update(), and of tick(), which overrides it when sensing has failed.
Output(st, aim) == IF st = "Ambient" THEN Failsafe ELSE [failsafe |-> FALSE, target |-> aim]

\* Mutant of Publish: the output of the conversation is published as it is.
PublishOutput == snapshot' = Output(state', focus')

Publish == snapshot' = IF StaleObservations(sinceObs') \/ ~healthy' THEN Failsafe
                       ELSE Output(state', focus')

Tick == \E dt \in 1 .. MaxGap :
    /\ Sense(dt)
    /\ Update(input', dt)
    /\ Publish
    /\ talking' = IF Eligible(input) /\ Eligible(input') THEN Later(talking, dt) ELSE 0

Next == Tick

Spec == Init /\ [][Next]_vars

\* The control thread ticks, sleeps 10 ms, and ticks again.  (Tick is always
\* enabled: this is WF_vars(Tick), in a form that is cheaper to check.)
FairSpec == Spec /\ []<><<TRUE>>_vars
-----------------------------------------------------------------------------
States == {"Ambient", "Candidate", "Focused", "Held", "Releasing"}

TypeOK == /\ tracks \in [Sources -> Track \cup {NoTrack}]
          /\ sinceObs \in Ages
          /\ healthy \in BOOLEAN
          /\ input \in Input
          /\ state \in States
          /\ sinceEntry \in Ages
          /\ focus \in Directions
          /\ snapshot \in [failsafe : BOOLEAN, target : Directions]
          /\ talking \in Ages

\* The audio thread steers away from straight ahead only while the provider is
\* healthy and some source has been observed within the failsafe timeout: a
\* direction is never held on evidence that has run out, although the states
\* Focused, Held and Releasing outlive the tracks they came from.
SteersOnEvidence ==
    ~snapshot.failsafe => /\ healthy
                          /\ \E s \in Known(tracks) : tracks[s].age < FailsafeTimeout

\* The beam is never aimed into an ambient zone, however the focus drifts with
\* a talker who moves by less than the stability threshold at a time.
NeverAimsAtAmbient == ~snapshot.failsafe => Policy[snapshot.target] # "ambient"

\* A candidate becomes the focus only after ActivationHold of speech from a
\* focus zone that no tick has seen interrupted; a pause starts it afresh.
FocusIsEarned ==
    [][state = "Candidate" /\ state' = "Focused" => talking' >= ActivationHold]_vars

\* When there is no more speech outside the ambient zones, the machine comes
\* back to Ambient, whatever it was doing, and stays there.  (Speech from a gap
\* between the zones cannot start a focus but can keep one.)
Addressed(i) == i.track /\ i.speech /\ ~IsAmbientZone(i)
SilenceReleases == <>[](~Addressed(input)) => <>[](state = "Ambient")

\* Somebody who keeps talking in the focus zones is focused on, again and again
\* if the direction is not stable: no state of the machine ignores speech for ever.
TalkerIsHeard == <>[]Eligible(input) => []<>(state = "Focused")
-----------------------------------------------------------------------------
\* The strengthenings of the proofs.

\* There is a track as young as the last observation, once there was one, and
\* until then the machine has not moved.
Evidence == /\ Known(tracks) # {} => \E s \in Known(tracks) : tracks[s].age = sinceObs
            /\ Known(tracks) = {} => state = "Ambient"

\* The machine is focused in a focus zone and can only drift out of it into a gap.
AimOK == state # "Ambient" => Policy[focus] # "ambient"

\* A candidate has been talking since it became one.
Timed == state = "Candidate" => Eligible(input) /\ talking >= sinceEntry

\* The inductive invariant.
Inv == TypeOK /\ Evidence /\ AimOK /\ Timed /\ SteersOnEvidence /\ NeverAimsAtAmbient
=============================================================================
