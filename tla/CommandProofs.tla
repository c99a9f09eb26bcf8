----------------------------- MODULE CommandProofs -----------------------------
(***************************************************************************)
(* Proofs about a whole execution of the program: what holds of one run of *)
(* the engine holds of every run a command makes, whichever came before.   *)
(***************************************************************************)
EXTENDS CommandProps, LogProofs

-----------------------------------------------------------------------------
(* A command either lets the engine take a step or starts a new one *)

\* What the parser accepted: some workload of valid requests, in which no id
\* occurs twice.
KnownWorkload ==
  /\ requests \in Workloads /\ DistinctIds
  /\ \A p \in Passengers : ValidRequest(requests[p])

LEMMA FreshIsInitial ==
  ASSUME FreshEngine, NEW name \in Registry, GetStrategy(name), KnownWorkload
  PROVE  Init'
<1>1. requests' = requests /\ Passengers' = Passengers
  BY DEF FreshEngine, Passengers
<1>2. strategy' \in Injected
  BY CommandAssumption DEF GetStrategy, Registry
<1>3. \A e \in Elevators : StartFloor(e)' = StartFloor(e)
  BY DEF StartFloor
<1>. QED
  BY <1>1, <1>2, <1>3 DEF FreshEngine, GetStrategy, Init, KnownWorkload

LEMMA CommandStep ==
  ASSUME KnownWorkload, [CommandNext]_allVars
  PROVE  KnownWorkload' /\ ([Next]_vars \/ Init')
<1>. USE DEF KnownWorkload, DistinctIds, SameId, Passengers
<1>1. CASE NextStrategy
  <2>1. CASE Head(remaining) \in Registry
    <3>1. FreshEngine /\ GetStrategy(Head(remaining))
      BY <1>1, <2>1 DEF NextStrategy
    <3>. QED
      BY <2>1, <3>1, FreshIsInitial DEF FreshEngine
  <2>2. CASE Head(remaining) \notin Registry
    BY <1>1, <2>2 DEF NextStrategy, logVars, vars
  <2>. QED
    BY <2>1, <2>2
<1>2. CASE Simulate
  BY <1>2, LogStepIsStep, ConstantRequests DEF Simulate, vars
<1>3. CASE BuildSettings \/ LoadInput \/ Collect \/ Show \/ WriteFile \/ WriteFails \/ Exited
  BY <1>3 DEF BuildSettings, LoadInput, Collect, Show, WriteFile, WriteFails, Exited,
              allVars, logVars, vars
<1>4. CASE UNCHANGED allVars
  BY <1>4 DEF allVars, logVars, vars
<1>. QED
  BY <1>1, <1>2, <1>3, <1>4 DEF CommandNext

-----------------------------------------------------------------------------
(* The invariants of a run, as one that every step preserves *)

EngineInv ==
  /\ TypeOK /\ Bookkeeping /\ DispatchQueue /\ CapacityRespected /\ PolicyRespected
  /\ Validated /\ StopCleared /\ NothingLeftToDoHere /\ IdleIsDone /\ RideProgress
  /\ DeliveredInTime /\ TimesOrdered /\ FirstAssignedFirstServed
  /\ PassedInVain /\ PositionLogContinuous
  /\ OnePassengerPerId /\ IdsRegistered /\ NotFinished /\ CompletedHasDelivered
  /\ TimesRecorded /\ DeliveredBefore /\ AssignedEligible /\ PromptlyAssigned
  /\ WaitProgress /\ BoardedInTime /\ OverTheBound /\ FirstRideEarly /\ RotationEven

LEMMA InitEngineInv == Init => EngineInv
<1> SUFFICES ASSUME Init PROVE EngineInv
  OBVIOUS
<1>1. TypeOK /\ Bookkeeping /\ DispatchQueue /\ CapacityRespected /\ PositionLogContinuous
  BY InitTypeOK, InitBookkeeping, InitCapacity, InitLogContinuous
<1>2. PolicyRespected /\ IdleIsDone
  BY DEF Init, PolicyRespected, IdleIsDone, IdleCar
<1>3. Validated /\ StopCleared /\ NothingLeftToDoHere /\ RideProgress
  BY DEF Init, Validated, StopCleared, NothingLeftToDoHere, RideProgress
<1>4. DeliveredInTime /\ TimesOrdered /\ FirstAssignedFirstServed /\ PassedInVain
  BY DEF Init, DeliveredInTime, TimesOrdered, FirstAssignedFirstServed, PassedInVain
<1>5. OnePassengerPerId /\ IdsRegistered /\ NotFinished /\ CompletedHasDelivered
  BY DEF Init, OnePassengerPerId, IdsRegistered, NotFinished, CompletedHasDelivered
<1>6. TimesRecorded /\ DeliveredBefore /\ AssignedEligible /\ PromptlyAssigned
  BY DEF Init, TimesRecorded, DeliveredBefore, AssignedEligible, PromptlyAssigned, None
<1>7. WaitProgress /\ BoardedInTime /\ OverTheBound
  BY DEF Init, WaitProgress, BoardedInTime, OverTheBound
<1>8. FirstRideEarly /\ RotationEven
  BY InitRotationEven DEF Init, FirstRideEarly, NobodyBoarded
<1>. QED
  BY <1>1, <1>2, <1>3, <1>4, <1>5, <1>6, <1>7, <1>8 DEF EngineInv

LEMMA EngineBounds == EngineInv => RidingInTime /\ WaitingInTime /\ RideBound /\ WaitBound
<1> SUFFICES ASSUME EngineInv PROVE RidingInTime /\ WaitingInTime /\ RideBound /\ WaitBound
  OBVIOUS
<1>1. RidingInTime /\ WaitingInTime
  BY RidingBounded, WaitingBounded DEF EngineInv
<1>2. RideBound
  BY <1>1 DEF EngineInv, RidingInTime, DeliveredInTime, RideBound
<1>3. BoardedInTime
  BY DEF EngineInv
<1>4. WaitBound
  BY <1>1, <1>3, WaitWithinBound
<1>. QED
  BY <1>1, <1>2, <1>4

LEMMA StepEngineInv == EngineInv /\ [Next]_vars => EngineInv'
<1> SUFFICES ASSUME EngineInv, [Next]_vars PROVE EngineInv'
  OBVIOUS
<1>. USE DEF EngineInv
<1>1. TypeOK' /\ Bookkeeping' /\ DispatchQueue' /\ CapacityRespected'
  BY StepTypeOK, StepBookkeeping, StepCapacity
<1>2. PolicyRespected' /\ Validated' /\ StopCleared' /\ NothingLeftToDoHere' /\ IdleIsDone'
  BY StepPolicy, StepValidated, StepStopCleared, StepNothingLeft, StepIdleIsDone
<1>3. RideProgress' /\ DeliveredInTime' /\ TimesOrdered' /\ FirstAssignedFirstServed'
  BY EngineBounds, StepRideProgress, StepDeliveredInTime, StepTimesOrdered, StepFirstServed
<1>4. PassedInVain' /\ PositionLogContinuous'
  BY StepPassedInVain, StepLogContinuous
<1>5. OnePassengerPerId' /\ IdsRegistered' /\ NotFinished' /\ CompletedHasDelivered'
  BY StepOnePerId, StepIdsRegistered, StepNotFinished, StepCompleted
<1>6. TimesRecorded' /\ DeliveredBefore' /\ AssignedEligible' /\ PromptlyAssigned'
  BY StepTimesRecorded, StepDeliveredBefore, StepAssignedEligible, StepPromptlyAssigned
<1>7. WaitProgress' /\ BoardedInTime' /\ OverTheBound'
  BY EngineBounds, StepWaitProgress, StepBoardedInTime, StepOverTheBound
<1>8. FirstRideEarly' /\ RotationEven'
  BY EngineBounds, StepFirstRideEarly, StepRotationEven
<1>. QED
  BY <1>1, <1>2, <1>3, <1>4, <1>5, <1>6, <1>7, <1>8

LEMMA InitCommand == CommandInit => KnownWorkload /\ Init
<1> SUFFICES ASSUME CommandInit PROVE KnownWorkload /\ Init
  OBVIOUS
<1>1. requests = command.parsed /\ command \in Commands /\ Init
  BY DEF CommandInit, LogInit
<1>2. requests \in Workloads
  BY <1>1, CommandAssumption
<1>3. Passengers \subseteq Int /\ DOMAIN requests = Passengers
  BY <1>2, EngineAssumption DEF Passengers
<1>4. \A p, q \in Passengers : p < q => ~SameId(p, q)
  BY <1>1, <1>3, CommandAssumption DEF SameId
<1>5. \A p, q \in Passengers : p = q \/ p < q \/ q < p
  BY <1>3
<1>6. \A p \in Passengers : ValidRequest(requests[p])
  BY <1>1, CommandAssumption DEF Passengers
<1>. QED
  BY <1>1, <1>2, <1>4, <1>5, <1>6 DEF KnownWorkload, DistinctIds, SameId

LEMMA KnownWorkloadHolds == CommandSpec => []KnownWorkload
  BY InitCommand, CommandStep, PTL DEF CommandSpec

\* They hold throughout a command, whose engines all start afresh.
THEOREM EngineInvHolds == CommandSpec => []EngineInv
  BY InitCommand, KnownWorkloadHolds, CommandStep, InitEngineInv, StepEngineInv, PTL
     DEF CommandSpec

-----------------------------------------------------------------------------
(* What a user of the program may rely on *)

LEMMA EngineInvImplies ==
  EngineInv => IInv /\ NobodyOverlooked /\ PositionLogContinuous
<1> SUFFICES ASSUME EngineInv PROVE IInv /\ NobodyOverlooked /\ PositionLogContinuous
  OBVIOUS
<1>1. RideBound /\ WaitBound
  BY EngineBounds
<1>2. NobodyOverlooked
  BY DEF EngineInv, PassedInVain, DispatchQueue, NobodyOverlooked
<1>. QED
  BY <1>1, <1>2 DEF EngineInv, IInv

\* The inductive invariant of a single run (IInv), with bookkeeping, capacity,
\* policies, the bounds on waits and rides and the order of boarding, holds at
\* every point of every command: a run starts with nothing left over from the
\* runs before it.
THEOREM EveryRunIsSound == CommandSpec => []IInv
  BY EngineInvHolds, EngineInvImplies, PTL

\* Under each of the shipped strategies, in every run of every command, whoever
\* still waits after dispatch has no eligible car (NobodyOverlooked).
THEOREM NobodyOverlookedByCommand == CommandSpec => []NobodyOverlooked
  BY EngineInvHolds, EngineInvImplies, PTL

\* No run of a command goes on over a building whose requests are all served
\* (StopsWhenDone), whatever the run before it left behind.
THEOREM StopsWhenDoneByCommand == CommandSpec => []StopsWhenDone
<1>1. EngineInv /\ KnownWorkload => StopsWhenDone
  BY AllIngested DEF EngineInv, KnownWorkload
<1>. QED
  BY <1>1, EngineInvHolds, KnownWorkloadHolds, PTL

\* Each run of a command with the rotating strategy starts its rotation over:
\* where every car serves every floor it shares its passengers evenly
\* (EvenDistribution), whatever strategy ran before.
THEOREM EvenDistributionByCommand == CommandSpec => [](FullService => EvenDistribution)
<1>1. EngineInv => (FullService => EvenDistribution)
  BY RotationImpliesEven DEF EngineInv
<1>. QED
  BY <1>1, EngineInvHolds, PTL

LEMMA LoggedStep ==
  ASSUME KnownWorkload, [CommandNext]_allVars
  PROVE  [LogStep]_logVars \/ LogInit'
<1>1. CASE NextStrategy
  <2>1. CASE Head(remaining) \in Registry
    <3>1. FreshEngine /\ GetStrategy(Head(remaining))
      BY <1>1, <2>1 DEF NextStrategy
    <3>. QED
      BY <2>1, <3>1, FreshIsInitial DEF FreshEngine, LogInit
  <2>2. CASE Head(remaining) \notin Registry
    BY <1>1, <2>2 DEF NextStrategy
  <2>. QED
    BY <2>1, <2>2
<1>2. CASE Simulate
  BY <1>2 DEF Simulate
<1>3. CASE BuildSettings \/ LoadInput \/ Collect \/ Show \/ WriteFile \/ WriteFails \/ Exited
  BY <1>3 DEF BuildSettings, LoadInput, Collect, Show, WriteFile, WriteFails, Exited,
              allVars, logVars
<1>4. CASE UNCHANGED allVars
  BY <1>4 DEF allVars, logVars
<1>. QED
  BY <1>1, <1>2, <1>3, <1>4 DEF CommandNext

\* In every run of every command the position log, which is written to a file,
\* agrees with the moves among the events, which are not (LogsAgree): neither
\* holds anything of the run before.
THEOREM LogsAgreeByCommand == CommandSpec => []LogsAgree
<1>1. EngineInv /\ LogInv /\ [LogStep]_logVars => LogInv'
  BY StepLogInv DEF EngineInv
<1>2. CommandInit => LogInit
  BY DEF CommandInit
<1>3. KnownWorkload /\ [CommandNext]_allVars => [LogStep]_logVars \/ LogInit'
  BY LoggedStep
<1>4. CommandSpec => []LogInv
  BY <1>1, <1>2, <1>3, InitLogInv, KnownWorkloadHolds, EngineInvHolds, PTL DEF CommandSpec
<1>5. LogInv => LogsAgree
  BY DEF LogInv
<1>. QED
  BY <1>4, <1>5, PTL

\* In every run of every command the events tell the whole story of the engine
\* that ran (ReplayAgrees), and nothing of the one before it: a comparison that
\* kept one list for all its strategies would not be replayable.
THEOREM ReplayAgreesByCommand == CommandSpec => []ReplayAgrees
<1>1. EngineInv /\ EngineInv' /\ Replayed /\ [LogStep]_logVars => Replayed'
  BY StepKeepsReplayed DEF EngineInv
<1>2. CommandInit => LogInit
  BY DEF CommandInit
<1>3. KnownWorkload /\ [CommandNext]_allVars => [LogStep]_logVars \/ LogInit'
  BY LoggedStep
<1>4. CommandSpec => []Replayed
  BY <1>1, <1>2, <1>3, InitReplayed, KnownWorkloadHolds, EngineInvHolds, PTL DEF CommandSpec
<1>. QED
  BY <1>4, ReplayedAgrees, PTL

\* Every run of every command goes on long enough (EnoughTicks) if its strategy
\* spreads the load, and round robin does where every car serves every floor
\* (RoundRobinInTime).
THEOREM EnoughTicksByCommand == CommandSpec => [](EnoughTicks /\ RoundRobinInTime)
<1>1. ASSUME EngineInv PROVE EnoughTicks /\ RoundRobinInTime
  <2>1. EnoughTicks
    BY <1>1, EngineBounds, ServedByTheEnd DEF EngineInv
  <2>. QED
    BY <1>1, <2>1, EvenSpreadInTime DEF EngineInv
<1>. QED
  BY <1>1, EngineInvHolds, PTL

LEMMA RequestsStay == [CommandNext]_allVars => requests' = requests /\ Passengers' = Passengers
<1> SUFFICES ASSUME [CommandNext]_allVars PROVE requests' = requests
  BY DEF Passengers
<1>1. CASE Simulate
  BY <1>1, LogStepIsStep, ConstantRequests DEF Simulate
<1>2. CASE NextStrategy
  BY <1>2 DEF NextStrategy, FreshEngine, logVars, vars
<1>3. CASE BuildSettings \/ LoadInput \/ Collect \/ Show \/ WriteFile \/ WriteFails \/ Exited
  BY <1>3 DEF BuildSettings, LoadInput, Collect, Show, WriteFile, WriteFails, Exited,
              allVars, logVars, vars
<1>4. CASE UNCHANGED allVars
  BY <1>4 DEF allVars, logVars, vars
<1>. QED
  BY <1>1, <1>2, <1>3, <1>4 DEF CommandNext

LEMMA ResultsStay ==
  [CommandNext]_allVars => Collect \/ results' = results
  BY DEF CommandNext, BuildSettings, LoadInput, NextStrategy, Simulate, Show, WriteFile,
         WriteFails, Exited, allVars, commandVars

-----------------------------------------------------------------------------
(* What a run hands on *)

\* The engine of a command runs a shipped strategy on requests that pass the
\* validation, and keeps every row that it counts.
RunInv ==
  /\ strategy \in Registry
  /\ phase # "INVALID_REQUEST"
  /\ RowsKept

LEMMA StepRun ==
  ASSUME KnownWorkload, EngineInv, RunInv, [CommandNext]_allVars
  PROVE  RunInv'
<1>1. CASE Simulate
  <2>1. LogStep
    BY <1>1 DEF Simulate
  <2>2. RowsKept'
    BY <2>1, StepRowsKept DEF EngineInv, RunInv
  <2>3. CASE Validate /\ EmitNothing
    <3>1. phase' = "INGEST"
      BY <2>3 DEF Validate, KnownWorkload
    <3>. QED
      BY <2>2, <2>3, <3>1 DEF Validate, RunInv
  <2>4. CASE Ingest \/ Dispatch \/ EndDispatch \/ Dropoff \/ Pickup \/ Move \/ Record
    <3>1. UNCHANGED strategy
      BY <2>4 DEF Ingest, Dispatch, EndDispatch, Dropoff, Pickup, Move, Record
    <3>2. phase' # "INVALID_REQUEST"
      BY <2>4 DEF Ingest, Dispatch, EndDispatch, Dropoff, Pickup, Move, Record, RunInv
    <3>. QED
      BY <2>2, <3>1, <3>2 DEF RunInv
  <2>. QED
    BY <2>1, <2>3, <2>4 DEF LogStep
<1>2. CASE NextStrategy
  <2>1. CASE Head(remaining) \in Registry
    <3>1. /\ strategy' \in Registry /\ phase' = "START"
          /\ position_rows' = <<>> /\ position_log'.rows = 0
      BY <1>2, <2>1 DEF NextStrategy, GetStrategy, FreshEngine
    <3>2. position_rows' \in Seq([Elevators -> Floors]) /\ Len(position_rows') = 0
      BY <3>1
    <3>. QED
      BY <3>1, <3>2 DEF RunInv, RowsKept
  <2>2. CASE Head(remaining) \notin Registry
    BY <1>2, <2>2 DEF NextStrategy, logVars, vars, RunInv, RowsKept
  <2>. QED
    BY <2>1, <2>2
<1>3. CASE BuildSettings \/ LoadInput \/ Collect \/ Show \/ WriteFile \/ WriteFails \/ Exited
  BY <1>3 DEF BuildSettings, LoadInput, Collect, Show, WriteFile, WriteFails, Exited,
              allVars, logVars, vars, RunInv, RowsKept
<1>4. CASE UNCHANGED allVars
  BY <1>4 DEF allVars, logVars, vars, RunInv, RowsKept
<1>. QED
  BY <1>1, <1>2, <1>3, <1>4 DEF CommandNext

\* What is known of a collected result: its times are sound; somebody is
\* delivered exactly if somebody can be, whatever the strategy; and the
\* position log is long enough for all of it.
CompleteResult(r) ==
  /\ r.status \in [Passengers -> PassengerStatus]
  /\ SoundResult(r)
  /\ Delivered(r) # {} <=> \E p \in Passengers : Eligible(p) # {}
  /\ r.total_ticks \in Nat
  /\ r.position_rows \in Seq([Elevators -> Floors])
  /\ \A p \in Delivered(r) : r.delivery_time[p] < Len(r.position_rows)
  /\ \/ r.total_ticks = Len(r.position_rows)
     \/ r.total_ticks + 1 = Len(r.position_rows) /\ AllDelivered(r)

LEMMA ResultIsComplete ==
  ASSUME KnownWorkload, EngineInv, RunInv, phase \in Ended
  PROVE  CompleteResult(Result)
<1>. USE DEF EngineInv
<1>1. /\ Result.status = status /\ Result.total_ticks = tick
      /\ Result.request_time = [p \in Passengers |-> requests[p].request_time]
      /\ Result.pickup_time = pickup_time /\ Result.delivery_time = delivery_time
      /\ Result.position_rows = position_rows
  BY DEF Result
<1>2. IsFiniteSet(Passengers) /\ DOMAIN status = Passengers
  BY CardinalityOfPassengers DEF TypeOK
<1>3. SoundResult(Result)
  <2> SUFFICES ASSUME NEW p \in Passengers
               PROVE  /\ requests[p].request_time \in Nat
                      /\ pickup_time[p] \in Nat \cup {NoTime}
                      /\ delivery_time[p] \in Nat \cup {NoTime}
                      /\ pickup_time[p] # NoTime <=> status[p] \in {"RIDING", "DELIVERED"}
                      /\ delivery_time[p] # NoTime <=> status[p] = "DELIVERED"
                      /\ pickup_time[p] # NoTime => requests[p].request_time <= pickup_time[p]
                      /\ delivery_time[p] # NoTime => pickup_time[p] < delivery_time[p]
    BY <1>1, <1>2 DEF SoundResult
  <2>1. requests[p].request_time \in Nat
    BY RequestTimes DEF KnownWorkload, ValidRequest
  <2>2. /\ pickup_time[p] \in Nat \cup {None} /\ delivery_time[p] \in Nat \cup {None}
        /\ assigned_time[p] \in Nat \cup {None}
    BY DEF TypeOK
  <2>3. /\ pickup_time[p] # None <=> status[p] \in {"RIDING", "DELIVERED"}
        /\ delivery_time[p] # None <=> status[p] = "DELIVERED"
        /\ assigned_time[p] # None <=> status[p] \in {"ASSIGNED", "RIDING", "DELIVERED"}
    BY DEF TimesRecorded
  <2>4. /\ status[p] \in {"RIDING", "DELIVERED"} =>
             requests[p].request_time <= assigned_time[p] /\ assigned_time[p] <= pickup_time[p]
        /\ status[p] = "DELIVERED" => pickup_time[p] < delivery_time[p]
    BY DEF TimesOrdered
  <2>. QED
    BY <2>1, <2>2, <2>3, <2>4 DEF NoTime, None
<1>4. \A p : p \in Delivered(Result) <=> p \in Passengers /\ status[p] = "DELIVERED"
  BY <1>1, <1>2 DEF Delivered, Known
<1>5. phase \in {"COMPLETED", "MAX_TICKS"} /\ strategy # "any_or_error"
  BY DEF RunInv, Ended, Registry
<1>6. Delivered(Result) # {} <=> \E p \in Passengers : Eligible(p) # {}
  <2>1. RidingInTime /\ WaitBound
    BY EngineBounds
  <2>2. SomebodyDelivered
    BY <2>1, DeliveredByTheEnd DEF KnownWorkload
  <2>. QED
    BY <1>4, <1>5, <2>2 DEF SomebodyDelivered
<1>7. /\ \A p \in Passengers : status[p] = "DELIVERED" => delivery_time[p] < Len(position_rows)
      /\ \/ tick = Len(position_rows)
         \/ tick + 1 = Len(position_rows) /\ \A p \in Passengers : status[p] = "DELIVERED"
  <2>1. tick \in Nat /\ \A p \in Passengers : delivery_time[p] \in Int
    BY DEF TypeOK, None
  <2>2. CASE phase = "COMPLETED"
    <3>1. Len(position_rows) = tick + 1
      BY <2>2 DEF RunInv, PositionLogContinuous, RowsKept
    <3>2. \A p \in Passengers : status[p] = "DELIVERED" /\ delivery_time[p] <= tick
      BY <2>2 DEF CompletedHasDelivered, TimesOrdered
    <3>. QED
      BY <2>1, <3>1, <3>2
  <2>3. CASE phase = "MAX_TICKS"
    <3>1. Len(position_rows) = tick
      BY <2>3 DEF RunInv, PositionLogContinuous, RowsKept
    <3>. QED
      BY <2>1, <2>3, <3>1 DEF DeliveredBefore
  <2>. QED
    BY <1>5, <2>2, <2>3
<1>8. status \in [Passengers -> PassengerStatus] /\ tick \in Nat
      /\ position_rows \in Seq([Elevators -> Floors])
  BY DEF TypeOK, RunInv, RowsKept
<1>. QED
  BY <1>1, <1>2, <1>3, <1>4, <1>6, <1>7, <1>8 DEF CompleteResult, AllDelivered

-----------------------------------------------------------------------------
(* What is collected *)

\* The comparison loop: a strategy is run only while there is one left, and the
\* dict of results has the names as its keys, complete results as its values.
ResultsInv ==
  /\ remaining \in Seq(STRING)
  /\ names \in Seq(STRING)
  /\ step = "SIMULATE" => remaining # <<>>
  /\ {names[i] : i \in DOMAIN names} = DOMAIN results
  /\ \A n \in DOMAIN results : CompleteResult(results[n])

LEMMA InitResults == CommandInit => RunInv /\ ResultsInv
<1> SUFFICES ASSUME CommandInit PROVE RunInv /\ ResultsInv
  OBVIOUS
<1>1. /\ strategy = DefaultStrategy /\ phase = "START" /\ position_rows = <<>>
      /\ position_log.rows = 0
  BY DEF CommandInit, LogInit, Init
<1>2. RunInv
  <2>1. position_rows \in Seq([Elevators -> Floors]) /\ Len(position_rows) = 0
    BY <1>1
  <2>. QED
    BY <1>1, <2>1 DEF RunInv, DefaultStrategy, Registry, RowsKept
<1>3. remaining \in Seq(STRING)
  BY CommandAssumption DEF CommandInit
<1>4. /\ step = "SETTINGS" /\ names = <<>> /\ results = NoFunction
  BY DEF CommandInit
<1>5. names \in Seq(STRING) /\ DOMAIN names = {} /\ DOMAIN results = {}
  BY <1>4 DEF NoFunction
<1>. QED
  BY <1>2, <1>3, <1>4, <1>5 DEF ResultsInv

LEMMA EligibleStays == [CommandNext]_allVars => \A p : Eligible(p)' = Eligible(p)
  BY RequestsStay DEF Eligible, ServedFloors

\* What is complete stays complete: the workload does not change.
LEMMA CompleteStays ==
  ASSUME [CommandNext]_allVars, NEW n, CompleteResult(results[n]), results'[n] = results[n]
  PROVE  CompleteResult(results[n])'
<1>1. Passengers' = Passengers /\ \A p : Eligible(p)' = Eligible(p)
  BY RequestsStay, EligibleStays
<1>2. (\E p \in Passengers : Eligible(p) # {})' <=> \E p \in Passengers : Eligible(p) # {}
  BY <1>1
<1>. QED
  BY <1>1, <1>2 DEF CompleteResult

ElementsOf(s) == {s[i] : i \in DOMAIN s}

LEMMA AppendedElements ==
  ASSUME NEW S, NEW s \in Seq(S), NEW x \in S
  PROVE  Append(s, x) \in Seq(S) /\ ElementsOf(Append(s, x)) = ElementsOf(s) \cup {x}
<1> DEFINE t == Append(s, x)
<1>1. /\ t \in Seq(S) /\ Len(s) \in Nat /\ DOMAIN s = 1..Len(s)
      /\ Len(t) = Len(s) + 1
      /\ \A i \in 1..Len(s) : t[i] = s[i]
      /\ t[Len(s) + 1] = x
  OBVIOUS
<1> HIDE DEF t
<1>2. DOMAIN t = DOMAIN s \cup {Len(s) + 1}
  BY <1>1
<1>. QED
  BY <1>1, <1>2 DEF t, ElementsOf

LEMMA CollectResults ==
  ASSUME KnownWorkload, EngineInv, RunInv, ResultsInv, Collect
  PROVE  ResultsInv'
<1> DEFINE name == Head(remaining)
<1>1. /\ phase \in Ended /\ step' # "SIMULATE" /\ step = "SIMULATE"
      /\ results' = With(results, name, Result)
      /\ names' = IF name \in Range(names) THEN names ELSE Append(names, name)
      /\ remaining' = Tail(remaining)
  BY DEF Collect
<1>2. remaining' \in Seq(STRING) /\ name \in STRING
  BY <1>1 DEF ResultsInv
<1>3. /\ DOMAIN results' = DOMAIN results \cup {name}
      /\ results'[name] = Result
      /\ \A n \in DOMAIN results : n # name => results'[n] = results[n]
  BY <1>1 DEF With
<1>4. names' \in Seq(STRING) /\ {names'[i] : i \in DOMAIN names'} = DOMAIN results \cup {name}
  <2>1. CASE name \in Range(names)
    BY <1>1, <2>1 DEF ResultsInv, Range
  <2>2. CASE name \notin Range(names)
    <3>1. names \in Seq(STRING) /\ names' = Append(names, name)
      BY <1>1, <2>2 DEF ResultsInv
    <3>2. /\ Append(names, name) \in Seq(STRING)
          /\ ElementsOf(Append(names, name)) = ElementsOf(names) \cup {name}
      <4> HIDE DEF name
      <4>1. names \in Seq(STRING) /\ name \in STRING
        BY <1>2, <3>1
      <4>2. \A s \in Seq(STRING), x \in STRING :
              Append(s, x) \in Seq(STRING) /\ ElementsOf(Append(s, x)) = ElementsOf(s) \cup {x}
        BY AppendedElements
      <4>. QED
        BY <4>1, <4>2
    <3>3. {names'[i] : i \in DOMAIN names'} = {names[i] : i \in DOMAIN names} \cup {name}
      BY <3>1, <3>2 DEF ElementsOf
    <3>. QED
      BY <3>1, <3>2, <3>3 DEF ResultsInv
  <2>. QED
    BY <2>1, <2>2
<1>5. ASSUME NEW n \in DOMAIN results'
      PROVE  CompleteResult(results[n])'
  <2>1. CASE n = name
    <3>1. CompleteResult(Result) /\ results'[n] = Result
      BY <1>1, <1>3, <2>1, ResultIsComplete
    <3>2. [CommandNext]_allVars
      BY DEF CommandNext
    <3>3. Passengers' = Passengers /\ \A p : Eligible(p)' = Eligible(p)
      BY <3>2, RequestsStay, EligibleStays
    <3>4. (\E p \in Passengers : Eligible(p) # {})' <=> \E p \in Passengers : Eligible(p) # {}
      BY <3>3
    <3>. HIDE DEF name
    <3>. QED
      BY <3>1, <3>3, <3>4 DEF CompleteResult
  <2>2. CASE n # name
    <3>1. CompleteResult(results[n]) /\ results'[n] = results[n]
      BY <1>3, <2>2 DEF ResultsInv
    <3>. QED
      BY <3>1, CompleteStays DEF CommandNext
  <2>. QED
    BY <2>1, <2>2
<1>. QED
  BY <1>1, <1>2, <1>3, <1>4, <1>5 DEF ResultsInv

LEMMA LoopStays ==
  [CommandNext]_allVars =>
    \/ Collect
    \/ /\ remaining' = remaining /\ names' = names /\ results' = results
       /\ step' = "SIMULATE" => step = "SIMULATE" \/ remaining # <<>>
<1> SUFFICES ASSUME [CommandNext]_allVars, ~Collect
             PROVE  /\ remaining' = remaining /\ names' = names /\ results' = results
                    /\ step' = "SIMULATE" => step = "SIMULATE" \/ remaining # <<>>
  OBVIOUS
<1>1. CASE Show
  BY <1>1 DEF Show, AfterShow
<1>2. CASE BuildSettings \/ LoadInput \/ NextStrategy \/ WriteFile \/ WriteFails
  BY <1>2 DEF BuildSettings, LoadInput, NextStrategy, WriteFile, WriteFails
<1>3. CASE Simulate \/ Exited \/ UNCHANGED allVars
  BY <1>3 DEF Simulate, Exited, allVars, commandVars
<1>. QED
  BY <1>1, <1>2, <1>3 DEF CommandNext

LEMMA StepResults ==
  ASSUME KnownWorkload, EngineInv, RunInv, ResultsInv, [CommandNext]_allVars
  PROVE  ResultsInv'
<1>1. CASE Collect
  BY <1>1, CollectResults
<1>2. CASE ~Collect
  <2>1. /\ remaining' = remaining /\ names' = names /\ results' = results
        /\ step' = "SIMULATE" => step = "SIMULATE" \/ remaining # <<>>
    BY <1>2, LoopStays
  <2>2. \A n \in DOMAIN results : CompleteResult(results[n])'
    BY <2>1, CompleteStays DEF ResultsInv
  <2>. QED
    BY <2>1, <2>2 DEF ResultsInv
<1>. QED
  BY <1>1, <1>2

\* Whichever strategies a command runs, every result it collects is complete.
THEOREM ResultsComplete == CommandSpec => []ResultsInv
<1>1. CommandInit => RunInv /\ ResultsInv
  BY InitResults
<1>2. KnownWorkload /\ EngineInv /\ RunInv /\ [CommandNext]_allVars => RunInv'
  BY StepRun
<1>3. KnownWorkload /\ EngineInv /\ RunInv /\ ResultsInv /\ [CommandNext]_allVars
        => ResultsInv'
  BY StepResults
<1>. QED
  BY <1>1, <1>2, <1>3, KnownWorkloadHolds, EngineInvHolds, PTL DEF CommandSpec

-----------------------------------------------------------------------------
(* The numbers of complete results *)

LEMMA NamedComplete ==
  ASSUME ResultsInv
  PROVE  \A n \in Range(names) :
           n \in DOMAIN results /\ CompleteResult(results[n]) /\ SoundResult(results[n])
  BY DEF ResultsInv, Range, CompleteResult

LEMMA ComparableResults ==
  ASSUME ResultsInv, names # <<>>
  PROVE  Comparable(names, results)
<1>1. Len(names) \in Nat /\ Len(names) >= 1 /\ DOMAIN names = 1..Len(names)
  BY DEF ResultsInv
<1>2. \A i \in DOMAIN names : names[i] \in Range(names)
  BY DEF Range
<1>. QED
  BY <1>1, <1>2, NamedComplete DEF Comparable

\* If one strategy delivers somebody, so does every other, so that the best
\* average is positive if the worst is (NoDivisionByZero).
THEOREM NoDivisionByZeroHolds == CommandSpec => []NoDivisionByZero
<1>1. CommandInit => NoDivisionByZero
  BY DEF CommandInit, NoDivisionByZero
<1>2. ResultsInv => ~DividesByZero(names, results)
  <2> SUFFICES ASSUME ResultsInv, DividesByZero(names, results) PROVE FALSE
    OBVIOUS
  <2> DEFINE ranking == ByEfficiency(names, results)
  <2>1. /\ Len(names) >= 2
        /\ AvgTotal(results[Worst(ranking)])[1] > 0
        /\ AvgTotal(results[Best(ranking)])[1] = 0
    BY DEF DividesByZero
  <2>2. Comparable(names, results)
    <3>1. names # <<>>
      BY <2>1
    <3>. QED
      BY <3>1, ComparableResults
  <2>3. /\ \E i \in DOMAIN names : Best(ranking) = names[i]
        /\ \E i \in DOMAIN names : Worst(ranking) = names[i]
    BY <2>2, EfficiencyRanked
  <2>4. Best(ranking) \in Range(names) /\ Worst(ranking) \in Range(names)
    BY <2>3 DEF Range
  <2>. HIDE DEF ranking
  <2>5. Delivered(results[Worst(ranking)]) # {} /\ Delivered(results[Best(ranking)]) = {}
    <3>1. SoundResult(results[Worst(ranking)]) /\ SoundResult(results[Best(ranking)])
      BY <2>4, NamedComplete
    <3>. QED
      BY <2>1, <3>1, AverageAndWait
  <2>6. CompleteResult(results[Worst(ranking)]) /\ CompleteResult(results[Best(ranking)])
    BY <2>4, NamedComplete
  <2>. QED
    BY <2>5, <2>6 DEF CompleteResult
<1>3. ResultsInv /\ NoDivisionByZero /\ [CommandNext]_allVars => NoDivisionByZero'
  <2> SUFFICES ASSUME ResultsInv, NoDivisionByZero, [CommandNext]_allVars
               PROVE  NoDivisionByZero'
    OBVIOUS
  <2>1. CASE Show
    BY <1>2, <2>1 DEF Show, AfterShow, NoDivisionByZero
  <2>2. CASE BuildSettings \/ LoadInput \/ NextStrategy \/ Collect \/ WriteFile \/ WriteFails
    BY <2>2 DEF BuildSettings, LoadInput, NextStrategy, Collect, WriteFile, WriteFails,
                NoDivisionByZero
  <2>3. CASE Simulate \/ Exited \/ UNCHANGED allVars
    BY <2>3 DEF Simulate, Exited, allVars, commandVars, NoDivisionByZero
  <2>. QED
    BY <2>1, <2>2, <2>3 DEF CommandNext
<1>. QED
  BY <1>1, <1>3, ResultsComplete, PTL DEF CommandSpec

DescribesDifference(stats, S, from, to) == Describes(stats, S, LAMBDA p : to[p] - from[p])

LEMMA DescribesTimes ==
  ASSUME NEW D, NEW b, NEW a, NEW values, Measured(values),
         DOMAIN values = D, \A p \in D : values[p] = a[p] - b[p]
  PROVE  DescribesDifference(TimeStats(values), D, b, a)
<1> DEFINE stats == TimeStats(values)
           time(p) == a[p] - b[p]
<1>1. \A p \in D : values[p] = time(p)
  OBVIOUS
<1>2. StatsDescribe(values)
  BY TimeStatsDescribe
<1>. HIDE DEF stats, time
<1>3. /\ stats.count = Cardinality(D)
      /\ \A p \in D : stats.min_value <= time(p) /\ time(p) <= stats.max_value
      /\ {stats.min_value, stats.max_value, stats.p95} \subseteq {time(p) : p \in D}
  BY <1>1, <1>2 DEF StatsDescribe, stats
<1>4. /\ {p \in D : 2 * values[p] <= stats.twice_median} = {p \in D : 2 * time(p) <= stats.twice_median}
      /\ {p \in D : 2 * values[p] >= stats.twice_median} = {p \in D : 2 * time(p) >= stats.twice_median}
      /\ {p \in D : values[p] <= stats.p95} = {p \in D : time(p) <= stats.p95}
      /\ {p \in D : values[p] < stats.p95} = {p \in D : time(p) < stats.p95}
  BY <1>1
<1>5. /\ 2 * Cardinality({p \in D : 2 * time(p) <= stats.twice_median}) >= Cardinality(D)
      /\ 2 * Cardinality({p \in D : 2 * time(p) >= stats.twice_median}) >= Cardinality(D)
      /\ 100 * Cardinality({p \in D : time(p) <= stats.p95}) >= 95 * Cardinality(D)
      /\ 100 * Cardinality({p \in D : time(p) < stats.p95}) <= 95 * Cardinality(D)
  BY <1>2, <1>4 DEF StatsDescribe, stats
<1>. QED
  BY <1>3, <1>5 DEF DescribesDifference, Describes, stats, time

\* Each record of statistics describes the time it is about.
DescribesResult(r) ==
  LET stats == PassengerStatistics(r)
      S     == DeliveredPassengers(r)
  IN  /\ DescribesDifference(stats.wait_times, S, r.request_time, r.pickup_time)
      /\ DescribesDifference(stats.travel_times, S, r.pickup_time, r.delivery_time)
      /\ DescribesDifference(stats.total_times, S, r.request_time, r.delivery_time)

LEMMA ResultDescribed ==
  ASSUME NEW r, SoundResult(r), Delivered(r) # {}
  PROVE  DescribesResult(r)
<1> DEFINE stats == PassengerStatistics(r)
           D == Delivered(r)
<1>1. DeliveredPassengers(r) = D
  BY DEF DeliveredPassengers, Delivered, Known
<1>2. /\ stats.wait_times = TimeStats(Waits(r))
      /\ stats.travel_times = TimeStats(Travels(r))
      /\ stats.total_times = TimeStats(Totals(r))
  BY ValuesOfDelivered DEF PassengerStatistics
<1>3. Measured(Waits(r)) /\ Measured(Travels(r)) /\ Measured(Totals(r))
  BY TimesAsLists DEF Measured
<1>4. DescribesDifference(TimeStats(Waits(r)), D, r.request_time, r.pickup_time)
  <2>1. DOMAIN Waits(r) = D /\ \A p \in D : Waits(r)[p] = r.pickup_time[p] - r.request_time[p]
    BY DEF Waits
  <2>. HIDE DEF D
  <2>. QED
    BY <1>3, <2>1, DescribesTimes
<1>5. DescribesDifference(TimeStats(Travels(r)), D, r.pickup_time, r.delivery_time)
  <2>1. DOMAIN Travels(r) = D /\ \A p \in D : Travels(r)[p] = r.delivery_time[p] - r.pickup_time[p]
    BY DEF Travels
  <2>. HIDE DEF D
  <2>. QED
    BY <1>3, <2>1, DescribesTimes
<1>6. DescribesDifference(TimeStats(Totals(r)), D, r.request_time, r.delivery_time)
  <2>1. DOMAIN Totals(r) = D /\ \A p \in D : Totals(r)[p] = r.delivery_time[p] - r.request_time[p]
    BY DEF Totals
  <2>. HIDE DEF D
  <2>. QED
    BY <1>3, <2>1, DescribesTimes
<1>. QED
  BY <1>1, <1>2, <1>4, <1>5, <1>6 DEF DescribesResult

\* The minimum, the maximum, the median and the P95 of every collected result
\* are what their names say of the times of the delivered passengers
\* (StatisticsMeanWhatTheySay), for any number of passengers.
THEOREM StatisticsMeanWhatTheySayHolds == CommandSpec => []StatisticsMeanWhatTheySay
<1>1. \A n \in Range(names) :
        ResultsInv /\ DeliveredPassengers(results[n]) # {} =>
          SoundResult(results[n]) /\ Delivered(results[n]) # {}
  BY NamedComplete DEF DeliveredPassengers, Delivered, Known
<1>2. ResultsInv => StatisticsMeanWhatTheySay
  <2> SUFFICES ASSUME ResultsInv, NEW n \in Range(names),
                      DeliveredPassengers(results[n]) # {}
               PROVE  LET result == results[n]
                          stats  == PassengerStatistics(result)
                          S      == DeliveredPassengers(result)
                      IN  /\ Describes(stats.wait_times, S,
                               LAMBDA p : result.pickup_time[p] - result.request_time[p])
                          /\ Describes(stats.travel_times, S,
                               LAMBDA p : result.delivery_time[p] - result.pickup_time[p])
                          /\ Describes(stats.total_times, S,
                               LAMBDA p : result.delivery_time[p] - result.request_time[p])
    BY DEF StatisticsMeanWhatTheySay
  <2>1. DescribesResult(results[n])
    BY <1>1, ResultDescribed
  <2>. QED
    BY <2>1 DEF DescribesResult, DescribesDifference
<1>. QED
  BY <1>2, ResultsComplete, PTL

-----------------------------------------------------------------------------
(* What is written *)

\* The directory holds the first k files of the command, for some k, and each
\* shows what the collected results say; the others are still to be written.
WrittenSoFar(k) ==
  /\ Len(to_write) = Len(Outputs) - k
  /\ \A i \in 1..Len(to_write) : to_write[i] = Outputs[k + i]
  /\ DOMAIN files = {Outputs[i] : i \in 1..k}

Outputting == {"WRITE", "DONE", "WRITE_ERROR"}

FilesInv ==
  /\ step \in Outputting => remaining = <<>>
  /\ DOMAIN files # {} \/ torn # {} => step \in Outputting
  /\ \A key \in DOMAIN files : files[key] = Content(key)
  /\ step = "WRITE" \/ DOMAIN files # {} \/ torn # {} =>
       /\ to_write \in Seq({Outputs[i] : i \in 1..Len(Outputs)})
       /\ \E k \in 0..Len(Outputs) : WrittenSoFar(k)
  /\ step = "WRITE" \/ DOMAIN files # {} => HasDirectory
  /\ torn # {} => step = "WRITE_ERROR" /\ to_write # <<>> /\ torn = {Head(to_write)}
  /\ step = "DONE" /\ HasDirectory => to_write = <<>> /\ DOMAIN files # {}

PerStrategy ==
  [i \in 1..2 * Len(names) |->
     <<IF i % 2 = 1 THEN "positions" ELSE "statistics", names[(i + 1) \div 2]>>]

Charts == <<<<"time_distributions">>, <<"efficiency_vs_fairness">>,
            <<"strategy_summary">>, <<"analysis">>>>

LEMMA OutputsAre ==
  /\ command.name = "run" => Outputs = PerStrategy
  /\ command.name = "compare" => Outputs = Append(PerStrategy, <<"comparison_summary">>)
  /\ command.name \notin {"run", "compare"} => Outputs = Charts
  BY DEF Outputs, PerStrategy, Charts

LEMMA SequenceOfElements ==
  ASSUME NEW S, NEW s \in Seq(S)
  PROVE  /\ Len(s) \in Nat /\ DOMAIN s = 1..Len(s)
         /\ s \in Seq({s[i] : i \in 1..Len(s)})
  OBVIOUS

LEMMA OutputsSequence ==
  ASSUME ResultsInv
  PROVE  /\ Len(Outputs) \in Nat /\ DOMAIN Outputs = 1..Len(Outputs)
         /\ Outputs \in Seq({Outputs[i] : i \in 1..Len(Outputs)})
<1>1. Len(names) \in Nat
  BY DEF ResultsInv
<1> DEFINE K == {PerStrategy[i] : i \in 1..2 * Len(names)} \cup {<<"comparison_summary">>}
<1>2. PerStrategy \in Seq(K)
  <2>1. DOMAIN PerStrategy = 1..2 * Len(names) /\ 2 * Len(names) \in Nat
    BY <1>1 DEF PerStrategy
  <2>2. PerStrategy = [i \in 1..2 * Len(names) |-> PerStrategy[i]]
    BY DEF PerStrategy
  <2>3. \A i \in 1..2 * Len(names) : PerStrategy[i] \in K
    OBVIOUS
  <2>. HIDE DEF K
  <2>. QED
    BY <2>1, <2>2, <2>3
<1>3. Append(PerStrategy, <<"comparison_summary">>) \in Seq(K)
  <2>1. <<"comparison_summary">> \in K
    OBVIOUS
  <2>. HIDE DEF K
  <2>. QED
    BY <1>2, <2>1
<1>4. Charts \in Seq({Charts[1], Charts[2], Charts[3], Charts[4]})
  BY DEF Charts
<1>5. \E S : Outputs \in Seq(S)
  BY <1>2, <1>3, <1>4, OutputsAre
<1>. QED
  BY <1>5, SequenceOfElements

LEMMA ContentStays ==
  ASSUME command' = command, names' = names, results' = results
  PROVE  /\ Outputs' = Outputs /\ \A key : Content(key)' = Content(key)
         /\ HasDirectory' = HasDirectory
<1>1. Outputs' = Outputs /\ HasDirectory' = HasDirectory
  BY DEF Outputs, HasDirectory
<1>2. Table' = Table
  BY DEF Table
<1>. QED
  BY <1>1, <1>2 DEF Content

LEMMA WriteFileStep ==
  ASSUME ResultsInv, FilesInv, WriteFile
  PROVE  FilesInv'
<1> DEFINE K == {Outputs[i] : i \in 1..Len(Outputs)}
           key == Head(to_write)
<1>1. /\ step = "WRITE" /\ to_write # <<>> /\ to_write' = Tail(to_write)
      /\ files' = With(files, key, Content(key))
      /\ step' \in {"DONE", "WRITE"} /\ (step' = "DONE" => to_write' = <<>>)
      /\ command' = command /\ names' = names /\ results' = results
      /\ remaining' = remaining /\ torn' = torn
  BY DEF WriteFile
<1>2. /\ Outputs' = Outputs /\ \A x : Content(x)' = Content(x)
      /\ HasDirectory' = HasDirectory
  BY <1>1, ContentStays
<1>3. Len(Outputs) \in Nat /\ to_write \in Seq(K)
  BY <1>1, OutputsSequence DEF FilesInv
<1>4. PICK k \in 0..Len(Outputs) : WrittenSoFar(k)
  BY <1>1 DEF FilesInv
<1>5. /\ Len(to_write) = Len(Outputs) - k
      /\ \A i \in 1..Len(to_write) : to_write[i] = Outputs[k + i]
      /\ DOMAIN files = {Outputs[i] : i \in 1..k}
  BY <1>4 DEF WrittenSoFar
<1>6. /\ Len(to_write) >= 1 /\ key = to_write[1]
      /\ to_write' \in Seq(K) /\ Len(to_write') = Len(to_write) - 1
      /\ \A i \in 1..Len(to_write') : to_write'[i] = to_write[i + 1]
  <2> HIDE DEF K
  <2>. QED
    BY <1>1, <1>3
<1>7. k + 1 \in 0..Len(Outputs) /\ k \in Nat
  BY <1>3, <1>5, <1>6
<1>8. key = Outputs[k + 1]
  BY <1>5, <1>6
<1>9. DOMAIN files' = {Outputs[i] : i \in 1..(k + 1)}
  <2>1. DOMAIN files' = DOMAIN files \cup {key}
    BY <1>1 DEF With
  <2>2. 1..(k + 1) = (1..k) \cup {k + 1}
    BY <1>7
  <2>. HIDE DEF key
  <2>. QED
    BY <1>5, <1>8, <2>1, <2>2
<1>10. WrittenSoFar(k + 1)'
  <2>1. Len(to_write') = Len(Outputs) - (k + 1)
    BY <1>3, <1>5, <1>6
  <2>2. ASSUME NEW i \in 1..Len(to_write') PROVE to_write'[i] = Outputs[(k + 1) + i]
    <3>1. i \in Nat /\ i + 1 \in 1..Len(to_write)
      BY <1>3, <1>5, <1>6, <1>7, <2>1
    <3>2. to_write'[i] = to_write[i + 1] /\ to_write[i + 1] = Outputs[k + (i + 1)]
      BY <1>5, <1>6, <3>1
    <3>3. k + (i + 1) = (k + 1) + i
      BY <1>7, <3>1
    <3>. QED
      BY <3>2, <3>3
  <2>. QED
    BY <1>2, <1>9, <2>1, <2>2 DEF WrittenSoFar
<1>11. \A x \in DOMAIN files' : files'[x] = Content(x)'
  <2>1. \A x \in DOMAIN files' :
          \/ x = key /\ files'[x] = Content(key)
          \/ x \in DOMAIN files /\ files'[x] = files[x]
    BY <1>1 DEF With
  <2>. QED
    BY <1>2, <2>1 DEF FilesInv
<1>12. to_write' \in Seq({Outputs[i] : i \in 1..Len(Outputs)}')
  BY <1>2, <1>6
<1>13. /\ remaining' = <<>> /\ torn' = {} /\ HasDirectory'
       /\ step' \in Outputting /\ DOMAIN files' # {}
  <2>1. remaining = <<>> /\ torn = {} /\ HasDirectory
    BY <1>1 DEF FilesInv, Outputting
  <2>2. DOMAIN files' # {}
    BY <1>1 DEF With
  <2>. QED
    BY <1>1, <1>2, <2>1, <2>2 DEF Outputting
<1>. QED
  BY <1>1, <1>2, <1>7, <1>10, <1>11, <1>12, <1>13 DEF FilesInv

LEMMA ShowStep ==
  ASSUME ResultsInv, FilesInv, Show
  PROVE  FilesInv'
<1>1. /\ step = "NEXT_STRATEGY" /\ files' = files /\ torn' = torn
      /\ command' = command /\ names' = names /\ results' = results
      /\ remaining' = <<>>
      /\ step' = "WRITE" => to_write' = Outputs
  BY DEF Show
<1>2. Outputs' = Outputs /\ HasDirectory' = HasDirectory
  BY <1>1, ContentStays
<1>3. DOMAIN files' = {} /\ torn' = {}
  BY <1>1 DEF FilesInv, Outputting
<1>4. step' = "WRITE" =>
        /\ to_write' \in Seq({Outputs[i] : i \in 1..Len(Outputs)})
        /\ 0 \in 0..Len(Outputs) /\ WrittenSoFar(0)'
  BY <1>1, <1>2, <1>3, OutputsSequence DEF WrittenSoFar
<1>5. (step' = "WRITE" => HasDirectory) /\ (step' = "DONE" => ~HasDirectory)
  BY DEF Show, AfterShow, HasDirectory
<1>. QED
  BY <1>1, <1>2, <1>3, <1>4, <1>5 DEF FilesInv

\* Only what is next may be torn.
LEMMA WriteFailsStep ==
  ASSUME FilesInv, WriteFails
  PROVE  FilesInv'
<1>1. /\ step = "WRITE" /\ to_write # <<>> /\ step' = "WRITE_ERROR"
      /\ torn' \in {torn, torn \cup {Head(to_write)}}
      /\ command' = command /\ names' = names /\ results' = results
      /\ remaining' = remaining /\ to_write' = to_write /\ files' = files
  BY DEF WriteFails
<1>2. /\ Outputs' = Outputs /\ \A x : Content(x)' = Content(x)
      /\ HasDirectory' = HasDirectory
      /\ {Outputs[i] : i \in 1..Len(Outputs)}' = {Outputs[i] : i \in 1..Len(Outputs)}
  BY <1>1, ContentStays
<1>3. torn' = {} \/ torn' = {Head(to_write)}
  BY <1>1 DEF FilesInv
<1>4. \A k : WrittenSoFar(k)' <=> WrittenSoFar(k)
  BY <1>1, <1>2 DEF WrittenSoFar
<1>. QED
  BY <1>1, <1>2, <1>3, <1>4 DEF FilesInv, Outputting

LEMMA OtherSteps ==
  ASSUME ResultsInv, FilesInv, [CommandNext]_allVars, ~Show, ~WriteFile, ~WriteFails
  PROVE  FilesInv'
<1>1. CASE Collect
  <2>1. /\ step = "SIMULATE" /\ step' = "NEXT_STRATEGY"
        /\ files' = files /\ torn' = torn
    BY <1>1 DEF Collect
  <2>2. DOMAIN files = {} /\ torn = {}
    BY <2>1 DEF FilesInv, Outputting
  <2>. QED
    BY <2>1, <2>2 DEF FilesInv, Outputting
<1>2. CASE ~Collect
  <2>1. /\ command' = command /\ names' = names /\ results' = results
        /\ remaining' = remaining
    <3>1. command' = command
      BY DEF CommandNext, BuildSettings, LoadInput, NextStrategy, Simulate, Collect,
             Exited, allVars, commandVars
    <3>. QED
      BY <1>2, <3>1, LoopStays
  <2>2. /\ Outputs' = Outputs /\ \A key : Content(key)' = Content(key)
        /\ HasDirectory' = HasDirectory
        /\ {Outputs[i] : i \in 1..Len(Outputs)}' = {Outputs[i] : i \in 1..Len(Outputs)}
    BY <2>1, ContentStays
  <2>3. /\ files' = files /\ to_write' = to_write /\ torn' = torn
        /\ step \in Outputting \/ step' \in Outputting => step' = step
    BY <1>2 DEF CommandNext, BuildSettings, LoadInput, NextStrategy, Simulate,
                Exited, allVars, commandVars, Outputting
  <2>4. \A k : WrittenSoFar(k)' <=> WrittenSoFar(k)
    BY <2>2, <2>3 DEF WrittenSoFar
  <2>. QED
    BY <2>1, <2>2, <2>3, <2>4 DEF FilesInv, Outputting
<1>. QED
  BY <1>1, <1>2

LEMMA FilesInvHolds == CommandSpec => []FilesInv
<1>1. CommandInit => FilesInv
  BY DEF CommandInit, FilesInv, NoFunction, Outputting
<1>2. ResultsInv /\ FilesInv /\ [CommandNext]_allVars => FilesInv'
  BY ShowStep, WriteFileStep, WriteFailsStep, OtherSteps
<1>. QED
  BY <1>1, <1>2, ResultsComplete, PTL DEF CommandSpec

\* However a command ends, its directory holds the first so many of its files,
\* whole and from one set of results; the next one may be torn if its write
\* failed; and success means that all of them are there (OutputsInOrder).
THEOREM FilesInOrder == CommandSpec => []OutputsInOrder
<1>1. ASSUME ResultsInv, FilesInv PROVE OutputsInOrder
  <2>1. Len(Outputs) \in Nat
    BY <1>1, OutputsSequence
  <2>2. CASE DOMAIN files = {} /\ torn = {}
    <3>1. 0 \in 0..Len(Outputs) /\ DOMAIN files = {Outputs[i] : i \in 1..0}
      BY <2>1, <2>2
    <3>2. step = "DONE" => ~HasDirectory
      BY <1>1, <2>2 DEF FilesInv
    <3>. QED
      BY <1>1, <2>2, <3>1, <3>2 DEF OutputsInOrder, FilesInv
  <2>3. CASE DOMAIN files # {} \/ torn # {}
    <3>1. PICK k \in 0..Len(Outputs) : WrittenSoFar(k)
      BY <1>1, <2>3 DEF FilesInv
    <3>2. /\ remaining = <<>> /\ step \in {"WRITE", "DONE", "WRITE_ERROR"}
          /\ \A key \in DOMAIN files : files[key] = Content(key)
      BY <1>1, <2>3 DEF FilesInv, Outputting
    <3>3. Len(to_write) \in Nat /\ (to_write = <<>> <=> Len(to_write) = 0)
      BY <1>1, <2>3 DEF FilesInv
    <3>4. /\ DOMAIN files = {Outputs[i] : i \in 1..k} /\ Len(to_write) = Len(Outputs) - k
          /\ \A i \in 1..Len(to_write) : to_write[i] = Outputs[k + i]
      BY <3>1 DEF WrittenSoFar
    <3>5. torn # {} => step = "WRITE_ERROR" /\ k < Len(Outputs) /\ torn = {Outputs[k + 1]}
      <4> SUFFICES ASSUME torn # {}
                   PROVE  step = "WRITE_ERROR" /\ k < Len(Outputs) /\ torn = {Outputs[k + 1]}
        OBVIOUS
      <4>1. step = "WRITE_ERROR" /\ to_write # <<>> /\ torn = {to_write[1]}
        BY <1>1 DEF FilesInv
      <4>2. Len(to_write) >= 1
        BY <3>3, <4>1
      <4>3. k < Len(Outputs) /\ to_write[1] = Outputs[k + 1]
        BY <2>1, <3>3, <3>4, <4>2
      <4>. QED
        BY <4>1, <4>3
    <3>6. step = "DONE" => k = IF HasDirectory THEN Len(Outputs) ELSE 0
      <4>1. step = "DONE" => HasDirectory /\ to_write = <<>>
        BY <1>1, <2>3 DEF FilesInv
      <4>. QED
        BY <2>1, <3>3, <3>4, <4>1
    <3>. QED
      BY <3>2, <3>4, <3>5, <3>6 DEF OutputsInOrder
  <2>. QED
    BY <2>2, <2>3
<1>. QED
  BY <1>1, ResultsComplete, FilesInvHolds, PTL

-----------------------------------------------------------------------------
(* The outputs of one command agree *)

LEMMA NamesInRange ==
  ASSUME ResultsInv, NEW n \in Range(names)
  PROVE  \E j \in 1..Len(names) :
           /\ 2 * j - 1 \in 1..2 * Len(names) /\ PerStrategy[2 * j - 1] = <<"positions", n>>
           /\ 2 * j \in 1..2 * Len(names) /\ PerStrategy[2 * j] = <<"statistics", n>>
<1>1. Len(names) \in Nat /\ DOMAIN names = 1..Len(names)
  BY DEF ResultsInv
<1>2. PICK j \in 1..Len(names) : n = names[j]
  BY <1>1 DEF Range
<1>3. /\ 2 * j - 1 \in 1..2 * Len(names) /\ 2 * j \in 1..2 * Len(names)
      /\ (2 * j - 1) % 2 = 1 /\ (2 * j) % 2 = 0
      /\ ((2 * j - 1) + 1) \div 2 = j /\ (2 * j + 1) \div 2 = j
  BY <1>1
<1>4. \A i \in 1..2 * Len(names) :
        PerStrategy[i] = <<IF i % 2 = 1 THEN "positions" ELSE "statistics", names[(i + 1) \div 2]>>
  BY DEF PerStrategy
<1>5. PerStrategy[2 * j - 1] = <<"positions", n>>
  BY <1>2, <1>3, <1>4
<1>6. PerStrategy[2 * j] = <<"statistics", n>>
  BY <1>2, <1>3, <1>4
<1>. QED
  BY <1>3, <1>5, <1>6

\* The summary comes after all reports and position logs, the analysis after
\* all charts.
LEMMA WrittenTogether ==
  ASSUME ResultsInv, FilesInv
  PROVE  /\ <<"comparison_summary">> \in DOMAIN files =>
              \A n \in Range(names) : {<<"positions", n>>, <<"statistics", n>>} \subseteq DOMAIN files
         /\ <<"analysis">> \in DOMAIN files =>
              {<<"time_distributions">>, <<"efficiency_vs_fairness">>} \subseteq DOMAIN files
<1>1. CASE DOMAIN files = {}
  BY <1>1
<1>2. CASE DOMAIN files # {}
  <2>1. PICK k \in 0..Len(Outputs) : DOMAIN files = {Outputs[i] : i \in 1..k}
    BY <1>2 DEF FilesInv, WrittenSoFar
  <2>2. Len(Outputs) \in Nat /\ Len(names) \in Nat
    BY OutputsSequence DEF ResultsInv
  <2>3. \A i \in 1..2 * Len(names) :
          \E a \in {"positions", "statistics"} : \E n : PerStrategy[i] = <<a, n>>
    BY <2>2 DEF PerStrategy
  <2>4. \A i \in 1..2 * Len(names) : PerStrategy[i] # <<"comparison_summary">> /\ PerStrategy[i] # <<"analysis">>
    <3>1. \A a, n : <<a, n>> # <<"comparison_summary">> /\ <<a, n>> # <<"analysis">>
      <4>1. \A a, n : Len(<<a, n>>) = 2
        OBVIOUS
      <4>2. Len(<<"comparison_summary">>) = 1 /\ Len(<<"analysis">>) = 1
        OBVIOUS
      <4>. QED
        BY <4>1, <4>2
    <3>. QED
      BY <2>3, <3>1
  <2>5. /\ DOMAIN PerStrategy = 1..2 * Len(names)
        /\ Len(PerStrategy) = 2 * Len(names) /\ 2 * Len(names) \in Nat
        /\ PerStrategy \in Seq({PerStrategy[i] : i \in 1..2 * Len(names)})
    <3>1. PerStrategy = [i \in 1..2 * Len(names) |-> PerStrategy[i]] /\ 2 * Len(names) \in Nat
      BY <2>2 DEF PerStrategy
    <3>2. \A i \in 1..2 * Len(names) : PerStrategy[i] \in {PerStrategy[x] : x \in 1..2 * Len(names)}
      OBVIOUS
    <3>. QED
      BY <3>1, <3>2
  <2>6. CASE command.name = "run"
    <3> DEFINE m == 2 * Len(names)
    <3>1. Outputs = PerStrategy /\ Len(Outputs) = m /\ m \in Nat
      BY <2>5, <2>6, OutputsAre
    <3> HIDE DEF m
    <3>2. \A i \in 1..k : i \in 1..m
      BY <3>1
    <3>3. \A i \in 1..k :
            Outputs[i] # <<"comparison_summary">> /\ Outputs[i] # <<"analysis">>
      BY <2>4, <3>1, <3>2 DEF m
    <3>. QED
      BY <2>1, <3>3
  <2>7. CASE command.name = "compare"
    <3> DEFINE m == 2 * Len(names)
    <3>1. /\ Len(Outputs) = m + 1 /\ Outputs[m + 1] = <<"comparison_summary">> /\ m \in Nat
          /\ \A i \in 1..m : Outputs[i] = PerStrategy[i]
      <4>1. Outputs = Append(PerStrategy, <<"comparison_summary">>)
        BY <2>7, OutputsAre
      <4> DEFINE s == PerStrategy
                 K == {PerStrategy[i] : i \in 1..2 * Len(names)}
      <4>2. s \in Seq(K) /\ Len(s) = m /\ m \in Nat
        BY <2>5
      <4> HIDE DEF s, K, m
      <4>3. \A x : /\ Len(Append(s, x)) = m + 1 /\ Append(s, x)[m + 1] = x
                   /\ \A i \in 1..m : Append(s, x)[i] = s[i]
        BY <4>2
      <4>. QED
        BY <4>1, <4>2, <4>3 DEF s
    <3>2. <<"comparison_summary">> # <<"analysis">>
      OBVIOUS
    <3>. HIDE DEF m
    <3>3. <<"analysis">> \notin DOMAIN files
      <4>1. \A i \in 1..k : i \in 1..m \/ i = m + 1
        BY <3>1
      <4>. QED
        BY <2>1, <2>4, <3>1, <3>2, <4>1 DEF m
    <3>4. <<"comparison_summary">> \in DOMAIN files => k = m + 1
      <4>1. k # m + 1 => \A i \in 1..k : i \in 1..m
        BY <3>1
      <4>. QED
        BY <2>1, <2>4, <3>1, <4>1 DEF m
    <3>5. k = m + 1 => \A i \in 1..m : PerStrategy[i] \in DOMAIN files
      BY <2>1, <3>1
    <3>6. ASSUME NEW n \in Range(names), k = m + 1
          PROVE  {<<"positions", n>>, <<"statistics", n>>} \subseteq DOMAIN files
      <4>1. PICK j \in 1..Len(names) :
              /\ 2 * j - 1 \in 1..2 * Len(names) /\ PerStrategy[2 * j - 1] = <<"positions", n>>
              /\ 2 * j \in 1..2 * Len(names) /\ PerStrategy[2 * j] = <<"statistics", n>>
        BY NamesInRange
      <4>. QED
        BY <3>5, <3>6, <4>1 DEF m
    <3>. QED
      BY <3>3, <3>4, <3>6
  <2>8. CASE command.name \notin {"run", "compare"}
    <3>1. /\ Outputs = Charts /\ Len(Outputs) = 4
      BY <2>8, OutputsAre DEF Charts
    <3>2. /\ Outputs[1] = <<"time_distributions">> /\ Outputs[2] = <<"efficiency_vs_fairness">>
          /\ Outputs[3] = <<"strategy_summary">> /\ Outputs[4] = <<"analysis">>
      BY <3>1 DEF Charts
    <3>3. /\ <<"comparison_summary">> \notin
               {<<"time_distributions">>, <<"efficiency_vs_fairness">>, <<"strategy_summary">>,
                <<"analysis">>}
          /\ <<"analysis">> \notin
               {<<"time_distributions">>, <<"efficiency_vs_fairness">>, <<"strategy_summary">>}
      OBVIOUS
    <3>4. <<"comparison_summary">> \notin DOMAIN files
      <4>1. \A i \in 1..k : i \in {1, 2, 3, 4}
        BY <3>1
      <4>. QED
        BY <2>1, <3>2, <3>3, <4>1
    <3>5. <<"analysis">> \in DOMAIN files => k = 4
      <4>1. k # 4 => \A i \in 1..k : i \in {1, 2, 3}
        BY <3>1
      <4>. QED
        BY <2>1, <3>2, <3>3, <4>1
    <3>. QED
      BY <2>1, <3>2, <3>4, <3>5
  <2>. QED
    BY <2>6, <2>7, <2>8
<1>. QED
  BY <1>1, <1>2

\* The line of the table, the report and the position log of one result.
OutputsConsistent(r, row, report, log) ==
  \/ row = NotAvailable /\ report = NoReport
  \/ /\ row.ticks = report.ticks
     /\ row.avg_wait = report.wait.avg /\ row.max_wait = report.wait.max
     /\ row.avg_total = report.total.avg /\ row.max_total = report.total.max
     /\ row.p95_total = report.total.p95
     /\ report.wait.avg[1] + report.travel.avg[1] = report.total.avg[1]
     /\ row.max_total < Len(log)
     /\ row.ticks = IF AllDelivered(r) /\ log[Len(log)][1] = row.ticks
                    THEN Len(log) - 1 ELSE Len(log)

OutputsOfResultAgree(r) ==
  OutputsConsistent(r, TableRow(r), FormatStatistics(r), PositionLog(r))

LEMMA LogOfResult ==
  ASSUME NEW r, NEW S, r.position_rows \in Seq(S)
  PROVE  LET log == PositionLog(r)
         IN  /\ Len(log) = Len(r.position_rows) /\ Len(log) \in Nat
             /\ Len(log) >= 1 => log[Len(log)][1] = Len(log) - 1
<1> DEFINE n == Len(r.position_rows)
           log == PositionLog(r)
<1>1. n \in Nat /\ DOMAIN r.position_rows = 1..n
  OBVIOUS
<1>2. log = [row \in 1..n |-> <<row - 1, r.position_rows[row]>>]
  BY <1>1 DEF PositionLog
<1>. HIDE DEF n, log
<1>3. Len(log) = n
  BY <1>1, <1>2
<1>. QED
  BY <1>1, <1>2, <1>3 DEF n, log

LEMMA OutputsAgree ==
  ASSUME NEW r, CompleteResult(r)
  PROVE  OutputsOfResultAgree(r)
<1> DEFINE row == TableRow(r)
           report == FormatStatistics(r)
           log == PositionLog(r)
<1>1. SoundResult(r)
  BY DEF CompleteResult
<1>2. CASE Delivered(r) = {}
  BY <1>1, <1>2, ValuesOfDelivered
     DEF TableRow, FormatStatistics, OutputsOfResultAgree, OutputsConsistent
<1>3. CASE Delivered(r) # {}
  <2>1. /\ row.ticks = r.total_ticks /\ report.ticks = r.total_ticks
        /\ row.avg_wait = <<Total(Waits(r)), Count(Waits(r))>>
        /\ row.avg_total = <<Total(Totals(r)), Count(Totals(r))>>
        /\ row.max_wait = Max(Range(Waits(r))) /\ row.max_total = Max(Range(Totals(r)))
        /\ row.p95_total = AtSorted(Totals(r), P95Index(Count(Totals(r))))
    BY <1>1, <1>3, ValuesOfDelivered DEF TableRow, FormatStatistics
  <2>2. /\ report.wait = FormatStats(Waits(r)) /\ report.travel = FormatStats(Travels(r))
        /\ report.total = FormatStats(Totals(r))
    BY <1>1, <1>3, ValuesOfDelivered DEF FormatStatistics
  <2>3. /\ report.wait.avg = <<Total(Waits(r)), Count(Waits(r))>>
        /\ report.travel.avg = <<Total(Travels(r)), Count(Travels(r))>>
        /\ report.total.avg = <<Total(Totals(r)), Count(Totals(r))>>
        /\ report.wait.max = AtSorted(Waits(r), Count(Waits(r)) - 1)
        /\ report.total.max = AtSorted(Totals(r), Count(Totals(r)) - 1)
        /\ report.total.p95 = AtSorted(Totals(r), P95Index(Count(Totals(r))))
    BY <2>2 DEF FormatStats
  <2>4. Measured(Waits(r)) /\ Measured(Totals(r))
    BY <1>1, <1>3, TimesAsLists DEF Measured
  <2>5. row.max_wait = report.wait.max /\ row.max_total = report.total.max
    BY <2>1, <2>3, <2>4, FirstAndLast
  <2>6. report.wait.avg[1] + report.travel.avg[1] = report.total.avg[1]
    BY <1>1, <2>3, SumsOfTimes
  <2>7. /\ Len(log) = Len(r.position_rows) /\ Len(log) \in Nat
        /\ Len(log) >= 1 => log[Len(log)][1] = Len(log) - 1
    BY LogOfResult DEF CompleteResult
  <2>8. row.max_total \in Nat /\ row.max_total < Len(log)
    <3>1. PICK p \in Delivered(r) : row.max_total = Totals(r)[p]
      <4>1. Max(Range(Totals(r))) \in Range(Totals(r))
        BY <2>4, RangeOfValues, MaxIsGreatest
      <4>2. DOMAIN Totals(r) = Delivered(r)
        BY <1>1, TimesAsLists
      <4>. QED
        BY <2>1, <4>1, <4>2 DEF Range
    <3>2. Totals(r)[p] = r.delivery_time[p] - r.request_time[p] /\ Totals(r)[p] \in Nat
      BY <1>1, TimesAsLists DEF Totals
    <3>3. r.delivery_time[p] < Len(r.position_rows)
      BY DEF CompleteResult
    <3>4. r.request_time[p] \in Nat /\ r.delivery_time[p] \in Nat
      BY <1>1, DeliveredTimes DEF SoundResult, Known
    <3>. HIDE DEF row, log
    <3>. QED
      BY <2>7, <3>1, <3>2, <3>3, <3>4
  <2>9. row.ticks = IF AllDelivered(r) /\ log[Len(log)][1] = row.ticks
                    THEN Len(log) - 1 ELSE Len(log)
    <3>1. /\ row.ticks \in Nat
          /\ row.ticks = Len(log) \/ (row.ticks + 1 = Len(log) /\ AllDelivered(r))
      BY <2>1, <2>7 DEF CompleteResult
    <3>2. log[Len(log)][1] = Len(log) - 1
      <4>. HIDE DEF row, log
      <4>. QED
        BY <2>7, <2>8
    <3>. HIDE DEF row, log
    <3>. QED
      BY <2>7, <3>1, <3>2
  <2>. HIDE DEF row, report, log
  <2>10. /\ row.ticks = report.ticks
         /\ row.avg_wait = report.wait.avg /\ row.avg_total = report.total.avg
         /\ row.p95_total = report.total.p95
    BY <2>1, <2>3
  <2>. QED
    BY <2>5, <2>6, <2>8, <2>9, <2>10 DEF OutputsOfResultAgree, OutputsConsistent, row, report, log
<1>. QED
  BY <1>2, <1>3

\* The three files that compare writes of a run agree with each other, line by
\* line (ReportsAgree), for every workload and every list of strategies.
THEOREM ReportsAgreeHolds == CommandSpec => []ReportsAgree
<1>1. ResultsInv /\ FilesInv => ReportsAgree
  <2> SUFFICES ASSUME ResultsInv, FilesInv, <<"comparison_summary">> \in DOMAIN files,
                      NEW n \in Range(names)
               PROVE  OutputsConsistent(results[n], files[<<"comparison_summary">>][n],
                                        files[<<"statistics", n>>], files[<<"positions", n>>])
    BY DEF ReportsAgree, OutputsConsistent
  <2>1. OutputsOfResultAgree(results[n])
    BY NamedComplete, OutputsAgree
  <2>2. {<<"positions", n>>, <<"statistics", n>>} \subseteq DOMAIN files
    BY WrittenTogether
  <2>3. /\ files[<<"positions", n>>] = Content(<<"positions", n>>)
        /\ files[<<"statistics", n>>] = Content(<<"statistics", n>>)
        /\ files[<<"comparison_summary">>] = Content(<<"comparison_summary">>)
    BY <2>2 DEF FilesInv
  <2>4. Content(<<"positions", n>>) = PositionLog(results[n])
    BY DEF Content
  <2>5. Content(<<"statistics", n>>) = FormatStatistics(results[n])
    BY DEF Content
  <2>6. Content(<<"comparison_summary">>)[n] = TableRow(results[n])
    BY DEF Content, Table
  <2>. QED
    BY <2>1, <2>3, <2>4, <2>5, <2>6 DEF OutputsOfResultAgree
<1>. QED
  BY <1>1, ResultsComplete, FilesInvHolds, PTL

-----------------------------------------------------------------------------
(* The charts agree *)

LEMMA EmptyFunction ==
  ASSUME NEW f, NEW S, f \in [{} -> S]
  PROVE  f = <<>>
<1>1. 1..0 = {}
  OBVIOUS
<1>2. f = [i \in 1..0 |-> f[i]] /\ \A i \in 1..0 : f[i] \in S
  BY <1>1
<1>3. f \in Seq(S) /\ Len(f) = 0
  BY <1>2
<1>. QED
  BY <1>3

LEMMA BoxesShowMaxWait ==
  ASSUME NEW r, CompleteResult(r), AllDelivered(r), r.status # <<>>
  PROVE  Max(Range(Values(r, Known(r), WaitTime))) = MaxWait(r)
<1>1. SoundResult(r)
  BY DEF CompleteResult
<1>2. Known(r) = Delivered(r) /\ Known(r) = DOMAIN r.status
  BY DEF Known, Delivered, AllDelivered
<1>3. DOMAIN r.status # {}
  <2>1. r.status \in [Passengers -> PassengerStatus]
    BY DEF CompleteResult
  <2>2. DOMAIN r.status = {} => Passengers = {}
    BY <2>1
  <2>. QED
    BY <2>1, <2>2, EmptyFunction
<1>. QED
  BY <1>1, <1>2, <1>3, ValuesOfDelivered, AverageAndWait

LEMMA LeadersAreAhead ==
  ASSUME ResultsInv, names # <<>>
  PROVE  LET best == Best(ByEfficiency(names, results))
             fair == Best(ByFairness(names, results))
         IN  /\ best \in Range(names) /\ fair \in Range(names)
             /\ \A n \in Range(names) : ~Less(AvgTotal(results[n]), AvgTotal(results[best]))
             /\ \A n \in Range(names) : ~(MaxWait(results[n]) < MaxWait(results[fair]))
<1>1. Comparable(names, results)
  BY ComparableResults
<1>. QED
  BY <1>1, EfficiencyRanked, FairnessRanked DEF Range

LEMMA TradeOffMeans ==
  ASSUME NEW note \in Observations(names, results), note[1] = "TRADE_OFF"
  PROVE  /\ Len(names) >= 2
         /\ Best(ByEfficiency(names, results)) # Best(ByFairness(names, results))
<1> DEFINE best == Best(ByEfficiency(names, results))
           fair == Best(ByFairness(names, results))
<1>1. ~(Len(names) < 2)
  BY DEF Observations
<1>2. best # fair
  <2>1. \/ note[1] \in {"EFFICIENCY_GAP", "FAIRNESS_GAP", "HEAVY_TAIL"}
        \/ note \in IF best # fair THEN {<<"TRADE_OFF", best, fair>>}
                    ELSE {<<"LEADS_ON_BOTH", best>>}
    BY <1>1 DEF Observations
  <2>. HIDE DEF best, fair
  <2>. QED
    BY <2>1
<1>. QED
  BY <1>1, <1>2

\* The box plots, the scatter plot and the analysis that visualize writes say
\* the same (ChartsAgree): the leaders that the analysis names are the leaders
\* of the plot, and a trade-off is only announced where there is one.
THEOREM ChartsAgreeHolds == CommandSpec => []ChartsAgree
<1>1. ResultsInv /\ FilesInv => ChartsAgree
  <2> SUFFICES ASSUME ResultsInv, FilesInv, <<"analysis">> \in DOMAIN files
               PROVE  ChartsAgree
    BY DEF ChartsAgree
  <2> DEFINE boxes    == files[<<"time_distributions">>]
             points   == files[<<"efficiency_vs_fairness">>]
             analysis == files[<<"analysis">>]
             faster(m, n) == Less(points[m][1], points[n][1])
             fairer(m, n) == points[m][2] < points[n][2]
             leads(m) == \A n \in Range(names) \ {m} : faster(m, n) /\ fairer(m, n)
             best == Best(ByEfficiency(names, results))
             fair == Best(ByFairness(names, results))
  <2>1. {<<"time_distributions">>, <<"efficiency_vs_fairness">>} \subseteq DOMAIN files
    BY WrittenTogether
  <2>2. /\ boxes = Content(<<"time_distributions">>)
        /\ points = Content(<<"efficiency_vs_fairness">>)
        /\ analysis = Content(<<"analysis">>)
    BY <2>1 DEF FilesInv
  <2>3. /\ boxes = TimeDistributions(names, results)
        /\ points = EfficiencyAndFairness(names, results)
        /\ analysis = Analysis(names, results)
    BY <2>2 DEF Content
  <2>4. \A n \in Range(names) :
          /\ boxes[n].wait = Values(results[n], Known(results[n]), WaitTime)
          /\ points[n][1] = AvgTotal(results[n]) /\ points[n][2] = MaxWait(results[n])
    BY <2>3 DEF TimeDistributions, EfficiencyAndFairness
  <2>5. /\ analysis.observations = Observations(names, results)
        /\ names # <<>> => analysis.most_efficient = best /\ analysis.most_fair = fair
    <3> DEFINE seen == Observations(names, results)
               first == IF names = <<>> THEN "" ELSE best
               second == IF names = <<>> THEN "" ELSE fair
    <3>1. analysis = [most_efficient |-> first, most_fair |-> second, observations |-> seen]
      BY <2>3 DEF Analysis
    <3>2. names # <<>> => first = best /\ second = fair
      OBVIOUS
    <3>. HIDE DEF best, fair, seen, analysis, first, second
    <3>3. analysis.observations = seen /\ analysis.most_efficient = first /\ analysis.most_fair = second
      BY <3>1
    <3>. QED
      BY <3>2, <3>3 DEF seen
  <2>6. names # <<>> =>
          /\ best \in Range(names) /\ fair \in Range(names)
          /\ \A n \in Range(names) : ~faster(n, best) /\ ~fairer(n, fair)
    <3> SUFFICES ASSUME names # <<>>
                 PROVE  /\ best \in Range(names) /\ fair \in Range(names)
                        /\ \A n \in Range(names) : ~faster(n, best) /\ ~fairer(n, fair)
      OBVIOUS
    <3>1. /\ best \in Range(names) /\ fair \in Range(names)
          /\ \A n \in Range(names) : ~Less(AvgTotal(results[n]), AvgTotal(results[best]))
          /\ \A n \in Range(names) : ~(MaxWait(results[n]) < MaxWait(results[fair]))
      BY LeadersAreAhead
    <3>. HIDE DEF best, fair, points
    <3>. QED
      BY <2>4, <3>1
  <2>7. \A n \in Range(names) :
          /\ names # <<>>
          /\ results[n].status # <<>> /\ AllDelivered(results[n]) =>
               Max(Range(boxes[n].wait)) = points[n][2]
    <3>1. \A n \in Range(names) : names # <<>>
      BY DEF Range
    <3>2. \A n \in Range(names) : CompleteResult(results[n])
      BY NamedComplete
    <3>. HIDE DEF boxes, points
    <3>. QED
      BY <2>4, <3>1, <3>2, BoxesShowMaxWait
  <2>8. ASSUME NEW note \in analysis.observations, note[1] = "TRADE_OFF",
               NEW m \in Range(names), leads(m)
        PROVE  FALSE
    <3>1. best # fair /\ names # <<>>
      BY <2>5, <2>7, <2>8, TradeOffMeans
    <3>2. best \in Range(names) /\ fair \in Range(names)
          /\ ~faster(m, best) /\ ~fairer(m, fair)
      BY <2>6, <3>1
    <3>. HIDE DEF best, fair, faster, fairer
    <3>. QED
      BY <2>8, <3>1, <3>2
  <2>9. \A n \in Range(names) :
          ~faster(n, analysis.most_efficient) /\ ~fairer(n, analysis.most_fair)
    BY <2>5, <2>6, <2>7
  <2>. QED
    BY <2>7, <2>8, <2>9 DEF ChartsAgree
<1>. QED
  BY <1>1, ResultsComplete, FilesInvHolds, PTL
=============================================================================
