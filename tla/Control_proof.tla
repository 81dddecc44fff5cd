--------------------------- MODULE Control_proof ---------------------------
(***************************************************************************)
(* For every set of sources, every zone map and stability threshold and    *)
(* all hold times: the audio thread only steers on live evidence and never *)
(* at an ambient zone, and a focus is earned.                              *)
(***************************************************************************)
EXTENDS Control, TLAPS

LEMMA LaterFacts ==
  ASSUME NEW a \in Ages, NEW dt \in 1 .. MaxGap
  PROVE  /\ Later(a, dt) \in Ages
         /\ \A b \in Ages : b <= a => Later(b, dt) <= Later(a, dt)
BY ControlAssumption DEF Later, Ages

LEMMA InitInv == Init => Inv
<1> SUFFICES ASSUME Init PROVE Inv
  OBVIOUS
<1>1. 0 \in Ages /\ Straight \in Directions
  BY ControlAssumption DEF Ages
<1>2. TypeOK
  <2>1. healthy \in BOOLEAN
    BY DEF Init
  <2>2. input \in Input /\ snapshot \in [failsafe : BOOLEAN, target : Directions]
    BY <1>1 DEF Init, Input, NoInput, Failsafe
  <2>. QED BY <1>1, <2>1, <2>2 DEF Init, TypeOK, States
<1>3. Evidence /\ AimOK /\ Timed
  BY DEF Init, Evidence, AimOK, Timed, Known
<1>4. SteersOnEvidence /\ NeverAimsAtAmbient
  BY DEF Init, SteersOnEvidence, NeverAimsAtAmbient, Failsafe
<1>. QED BY <1>2, <1>3, <1>4 DEF Inv

-----------------------------------------------------------------------------
\* What a tick may find out.

LEMMA AgedFacts ==
  ASSUME TypeOK, NEW dt \in 1 .. MaxGap
  PROVE  /\ Aged(dt) \in [Sources -> Track \cup {NoTrack}]
         /\ Known(Aged(dt)) = Known(tracks)
         /\ \A s \in Known(tracks) : Aged(dt)[s].age = Later(tracks[s].age, dt)
<1>1. ASSUME NEW s \in Sources, tracks[s] # NoTrack
      PROVE  /\ Aged(dt)[s] \in Track
             /\ Aged(dt)[s].age = Later(tracks[s].age, dt)
  <2>1. tracks[s] \in Track
    BY <1>1 DEF TypeOK
  <2>2. Aged(dt)[s] = [tracks[s] EXCEPT !.age = Later(tracks[s].age, dt)]
    BY <1>1 DEF Aged
  <2>3. Later(tracks[s].age, dt) \in Ages
    BY <2>1, LaterFacts DEF Track
  <2>. QED BY <2>1, <2>2, <2>3 DEF Track
<1>2. ASSUME NEW s \in Sources, tracks[s] = NoTrack
      PROVE  Aged(dt)[s] = NoTrack
  BY <1>2 DEF Aged
<1>3. Aged(dt) \in [Sources -> Track \cup {NoTrack}]
  BY <1>1, <1>2 DEF Aged
<1>. QED BY <1>1, <1>2, <1>3, ControlAssumption DEF Known

LEMMA IngestFacts ==
  ASSUME NEW aged \in [Sources -> Track \cup {NoTrack}],
         NEW heard \in SUBSET Sources, NEW fresh \in [heard -> Observation]
  PROVE  /\ Ingest(aged, fresh) \in [Sources -> Track \cup {NoTrack}]
         /\ \A s \in heard : s \in Known(Ingest(aged, fresh)) /\ Ingest(aged, fresh)[s].age = 0
<1>1. ASSUME NEW s \in heard
      PROVE  /\ Ingest(aged, fresh)[s] \in Track
             /\ Ingest(aged, fresh)[s].age = 0
  <2>1. fresh[s] \in Observation /\ s \in DOMAIN fresh /\ s \in Sources
    OBVIOUS
  <2>2. Ingest(aged, fresh)[s] = [age |-> 0, az |-> fresh[s].az, speech |-> fresh[s].speech]
    BY <2>1 DEF Ingest
  <2>3. 0 \in Ages
    BY ControlAssumption DEF Ages
  <2>. QED BY <2>1, <2>2, <2>3 DEF Track, Observation
<1>2. ASSUME NEW s \in Sources, s \notin heard
      PROVE  Ingest(aged, fresh)[s] \in Track \cup {NoTrack}
  BY <1>2 DEF Ingest
<1>3. Ingest(aged, fresh) \in [Sources -> Track \cup {NoTrack}]
  <2>1. \A s \in Sources : Ingest(aged, fresh)[s] \in Track \cup {NoTrack}
    BY <1>1, <1>2
  <2>. QED BY <2>1 DEF Ingest
<1>. QED BY <1>1, <1>3, ControlAssumption DEF Known

LEMMA ChosenFacts ==
  ASSUME NEW trk \in [Sources -> Track \cup {NoTrack}], NEW ok \in BOOLEAN
  PROVE  /\ Chosen(trk, ok) \subseteq Input
         /\ \A i \in Chosen(trk, ok) : i.track => ok /\ Known(trk) # {}
<1>1. NoInput \in Input /\ ~NoInput.track
  BY ControlAssumption DEF NoInput, Input
<1>2. ASSUME NEW s \in Best(trk)
      PROVE  /\ [track |-> TRUE, az |-> trk[s].az, speech |-> trk[s].speech] \in Input
             /\ s \in Known(trk)
  <2>1. s \in Known(trk)
    BY DEF Best, Live
  <2>2. trk[s] \in Track
    BY <2>1 DEF Known
  <2>. QED BY <2>1, <2>2 DEF Track, Input
<1>. QED BY <1>1, <1>2 DEF Chosen

\* The sensing half of a tick keeps the types, and the young track.
LEMMA SenseFacts ==
  ASSUME Inv, NEW dt \in 1 .. MaxGap, Sense(dt)
  PROVE  /\ tracks' \in [Sources -> Track \cup {NoTrack}]
         /\ sinceObs' \in Ages
         /\ healthy' \in BOOLEAN
         /\ input' \in Input
         /\ input'.track => Known(tracks') # {}
         /\ Known(tracks') # {} => \E s \in Known(tracks') : tracks'[s].age = sinceObs'
         /\ Known(tracks') = {} => Known(tracks) = {}
<1>1. PICK heard \in SUBSET Sources : \E fresh \in [heard -> Observation] :
         /\ tracks' = IF heard = {} THEN Aged(dt) ELSE Ingest(Aged(dt), fresh)
         /\ sinceObs' = IF heard = {} THEN Later(sinceObs, dt) ELSE 0
         /\ healthy' \in IF heard = {} THEN BOOLEAN ELSE {TRUE}
         /\ input' \in Chosen(tracks', healthy' /\ ~StaleObservations(sinceObs'))
  BY DEF Sense
<1>2. PICK fresh \in [heard -> Observation] :
         /\ tracks' = IF heard = {} THEN Aged(dt) ELSE Ingest(Aged(dt), fresh)
         /\ sinceObs' = IF heard = {} THEN Later(sinceObs, dt) ELSE 0
         /\ healthy' \in IF heard = {} THEN BOOLEAN ELSE {TRUE}
         /\ input' \in Chosen(tracks', healthy' /\ ~StaleObservations(sinceObs'))
  BY <1>1
<1>3. healthy' \in BOOLEAN
  BY <1>2
<1>4. TypeOK
  BY DEF Inv
<1>5. CASE heard = {}
  <2>1. tracks' = Aged(dt) /\ sinceObs' = Later(sinceObs, dt)
    BY <1>2, <1>5
  <2>2. sinceObs' \in Ages
    BY <2>1, <1>4, LaterFacts DEF TypeOK
  <2>3. tracks' \in [Sources -> Track \cup {NoTrack}] /\ Known(tracks') = Known(tracks)
    BY <2>1, <1>4, AgedFacts
  <2>4. ASSUME NEW s \in Known(tracks), tracks[s].age = sinceObs
        PROVE  tracks'[s].age = sinceObs'
    BY <2>1, <2>4, <1>4, AgedFacts
  <2>5. Known(tracks) # {} => \E s \in Known(tracks) : tracks'[s].age = sinceObs'
    BY <2>4 DEF Inv, Evidence
  <2>6. /\ Chosen(tracks', healthy' /\ ~StaleObservations(sinceObs')) \subseteq Input
        /\ input'.track => Known(tracks') # {}
    BY <1>2, <2>3, ChosenFacts
  <2>. QED BY <1>2, <1>3, <2>2, <2>3, <2>5, <2>6
<1>6. CASE heard # {}
  <2>1. tracks' = Ingest(Aged(dt), fresh) /\ sinceObs' = 0
    BY <1>2, <1>6
  <2>2. sinceObs' \in Ages
    BY <2>1, ControlAssumption DEF Ages
  <2>3. Aged(dt) \in [Sources -> Track \cup {NoTrack}]
    BY <1>4, AgedFacts
  <2>4. /\ tracks' \in [Sources -> Track \cup {NoTrack}]
        /\ \A s \in heard : s \in Known(tracks') /\ tracks'[s].age = sinceObs'
    BY <2>1, <2>3, IngestFacts
  <2>5. /\ Chosen(tracks', healthy' /\ ~StaleObservations(sinceObs')) \subseteq Input
        /\ input'.track => Known(tracks') # {}
    BY <1>2, <2>4, ChosenFacts
  <2>. QED BY <1>2, <1>3, <1>6, <2>2, <2>4, <2>5
<1>. QED BY <1>5, <1>6
-----------------------------------------------------------------------------
\* What the state machine may do with it.

LEMMA ElapsedFacts ==
  ASSUME TypeOK, NEW dt \in 1 .. MaxGap
  PROVE  /\ Later(sinceEntry, dt) \in Ages /\ 0 \in Ages
         /\ Later(talking, dt) \in Ages
         /\ talking >= sinceEntry => Later(talking, dt) >= Later(sinceEntry, dt)
<1>1. sinceEntry \in Ages /\ talking \in Ages
  BY DEF TypeOK
<1>2. 0 \in Ages
  BY ControlAssumption DEF Ages
<1>. QED BY <1>1, <1>2, LaterFacts DEF Ages

LEMMA UpdateFacts ==
  ASSUME Inv, NEW dt \in 1 .. MaxGap, input' \in Input, Update(input', dt)
  PROVE  /\ state' \in States
         /\ sinceEntry' \in Ages
         /\ focus' \in Directions
         /\ AimOK'
         /\ state = "Ambient" /\ state' # "Ambient" => input'.track
         /\ state' = "Candidate" =>
               /\ Eligible(input')
               /\ \/ sinceEntry' = 0
                  \/ state = "Candidate" /\ sinceEntry' = Later(sinceEntry, dt)
         /\ state = "Candidate" /\ state' = "Focused" =>
               Eligible(input') /\ Later(sinceEntry, dt) >= ActivationHold
<1>. USE DEF Goto, Stay, Elapsed, Aim, AimOK, States
<1>1. /\ Later(sinceEntry, dt) \in Ages /\ 0 \in Ages
      /\ input'.az \in Directions
      /\ focus \in Directions /\ state \in States
      /\ state # "Ambient" => Policy[focus] # "ambient"
  BY ElapsedFacts DEF Inv, TypeOK, Input
<1>2. Eligible(input') => input'.track /\ Policy[input'.az] # "ambient"
  BY DEF Eligible, IsFocusEligible
<1>3. CASE FromAmbient(input', dt)
  BY <1>1, <1>2, <1>3 DEF FromAmbient
<1>4. CASE FromCandidate(input', dt)
  BY <1>1, <1>2, <1>4 DEF FromCandidate
<1>5. CASE FromFocused(input', dt)
  BY <1>1, <1>5 DEF FromFocused, IsAmbientZone
<1>6. CASE FromHeld(input', dt)
  BY <1>1, <1>2, <1>6 DEF FromHeld
<1>7. CASE FromReleasing(input', dt)
  BY <1>1, <1>2, <1>7 DEF FromReleasing
<1>. QED BY <1>3, <1>4, <1>5, <1>6, <1>7 DEF Update

LEMMA TickInv ==
  ASSUME Inv, Tick
  PROVE  /\ Inv'
         /\ state = "Candidate" /\ state' = "Focused" => talking' >= ActivationHold
<1>1. PICK dt \in 1 .. MaxGap :
         /\ Sense(dt) /\ Update(input', dt) /\ Publish
         /\ talking' = IF Eligible(input) /\ Eligible(input') THEN Later(talking, dt) ELSE 0
  BY DEF Tick
<1>2. /\ tracks' \in [Sources -> Track \cup {NoTrack}]
      /\ sinceObs' \in Ages
      /\ healthy' \in BOOLEAN
      /\ input' \in Input
      /\ input'.track => Known(tracks') # {}
      /\ Known(tracks') # {} => \E s \in Known(tracks') : tracks'[s].age = sinceObs'
      /\ Known(tracks') = {} => Known(tracks) = {}
  BY <1>1, SenseFacts
<1>3. /\ state' \in States
      /\ sinceEntry' \in Ages
      /\ focus' \in Directions
      /\ AimOK'
      /\ state = "Ambient" /\ state' # "Ambient" => input'.track
      /\ state' = "Candidate" =>
            /\ Eligible(input')
            /\ \/ sinceEntry' = 0
               \/ state = "Candidate" /\ sinceEntry' = Later(sinceEntry, dt)
      /\ state = "Candidate" /\ state' = "Focused" =>
            Eligible(input') /\ Later(sinceEntry, dt) >= ActivationHold
  BY <1>1, <1>2, UpdateFacts
<1>4. /\ Later(talking, dt) \in Ages /\ 0 \in Ages
      /\ talking >= sinceEntry => Later(talking, dt) >= Later(sinceEntry, dt)
      /\ state = "Candidate" => Eligible(input) /\ talking >= sinceEntry
  BY ElapsedFacts DEF Inv, Timed
<1>5. talking' \in Ages
  BY <1>1, <1>4
<1>6. snapshot' \in [failsafe : BOOLEAN, target : Directions]
  BY <1>1, <1>3, ControlAssumption DEF Publish, Output, Failsafe
<1>7. TypeOK'
  BY <1>2, <1>3, <1>5, <1>6 DEF TypeOK
<1>8. Evidence'
  BY <1>2, <1>3 DEF Evidence, Inv
<1>9. Timed'
  BY <1>1, <1>3, <1>4, <1>5 DEF Timed, Ages
<1>10. ~snapshot'.failsafe => /\ ~StaleObservations(sinceObs') /\ healthy'
                              /\ state' # "Ambient" /\ snapshot'.target = focus'
  BY <1>1 DEF Publish, Output, Failsafe
<1>11. SteersOnEvidence'
  <2>. SUFFICES ASSUME ~snapshot'.failsafe
                PROVE  healthy' /\ \E s \in Known(tracks') : tracks'[s].age < FailsafeTimeout
    BY DEF SteersOnEvidence
  <2>1. healthy' /\ Known(tracks') # {} /\ sinceObs' < FailsafeTimeout
    BY <1>2, <1>8, <1>10, ControlAssumption DEF Evidence, StaleObservations, Ages
  <2>. QED BY <1>2, <2>1
<1>12. NeverAimsAtAmbient'
  BY <1>3, <1>10 DEF NeverAimsAtAmbient, AimOK
<1>13. state = "Candidate" /\ state' = "Focused" => talking' >= ActivationHold
  <2>. SUFFICES ASSUME state = "Candidate", state' = "Focused"
                PROVE  talking' >= ActivationHold
    OBVIOUS
  <2>1. talking' = Later(talking, dt) /\ Later(talking, dt) >= Later(sinceEntry, dt)
    BY <1>1, <1>3, <1>4
  <2>2. Later(sinceEntry, dt) >= ActivationHold /\ Later(sinceEntry, dt) \in Ages
    BY <1>3, ElapsedFacts DEF Inv
  <2>. QED BY <2>1, <2>2, <1>4, ControlAssumption DEF Ages
<1>. QED BY <1>3, <1>7, <1>8, <1>9, <1>11, <1>12, <1>13 DEF Inv

LEMMA StutterInv == Inv /\ UNCHANGED vars => Inv'
BY DEF Inv, TypeOK, Evidence, AimOK, Timed, SteersOnEvidence, NeverAimsAtAmbient,
       vars, sensing, conversation, Known, Eligible, IsFocusEligible

LEMMA Invariance == Spec => []Inv
<1>1. Inv /\ [Next]_vars => Inv'
  BY TickInv, StutterInv DEF Next
<1>. QED BY <1>1, InitInv, PTL DEF Spec
-----------------------------------------------------------------------------
\* Type correctness of the control thread's state.
THEOREM TypeCorrect == Spec => []TypeOK
<1>1. Inv => TypeOK
  BY DEF Inv
<1>. QED BY <1>1, Invariance, PTL

\* Whatever the sources do and however the provider fails, a snapshot that
\* steers is backed by a healthy provider and an observation younger than the
\* failsafe timeout.
THEOREM SteersOnLiveEvidence == Spec => []SteersOnEvidence
<1>1. Inv => SteersOnEvidence
  BY DEF Inv
<1>. QED BY <1>1, Invariance, PTL

\* Whatever the zones and the stability threshold, the beam is never aimed into
\* an ambient zone.
THEOREM AmbientIsLeftAlone == Spec => []NeverAimsAtAmbient
<1>1. Inv => NeverAimsAtAmbient
  BY DEF Inv
<1>. QED BY <1>1, Invariance, PTL

\* A candidate is focused on only after ActivationHold of uninterrupted speech.
THEOREM EveryFocusIsEarned == Spec => FocusIsEarned
<1>1. Inv /\ [Next]_vars => [state = "Candidate" /\ state' = "Focused" => talking' >= ActivationHold]_vars
  BY TickInv DEF Next
<1>. QED BY <1>1, Invariance, PTL DEF Spec, FocusIsEarned
=============================================================================
