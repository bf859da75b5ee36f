---------------------------- MODULE AutopayProofs ----------------------------
(* Proofs about automatic collection, for any runs of the two tasks and    *)
(* any bounds on days, schedules, attempts and incidents.                  *)
EXTENDS Autopay, TLAPS

----------------------------------------------------------------------------
(* Keys *)

LEMMA KeyNames ==
  /\ \A d \in 1 .. MaxDays : RecurringKey(d) \in Keys
  /\ \A i \in Schedules, n \in 1 .. MaxAttempts : RetryKey(i, n) \in Keys
  /\ \A i, j, n, m : RetryKey(i, n) = RetryKey(j, m) => i = j /\ n = m
  /\ \A i, n, d : RetryKey(i, n) # RecurringKey(d)
  BY DEF Keys, RecurringKey, RetryKey

----------------------------------------------------------------------------
(* Type correctness, and what a run holds at each of its steps *)

Charging == {"charge", "call", "record", "store", "result"}
Answered == {"record", "store", "result"}

Shape(r) ==
    /\ run[r].pc \in {"check", "schedule"} => r \in Collectors
    /\ run[r].pc \in {"balance", "mark", "cancel"} => r \in Retriers
    /\ r \in Retriers /\ run[r].pc # "idle" =>
          run[r].row \in Schedules /\ run[r].attempt \in 1 .. MaxAttempts
    /\ r \in Retriers /\ run[r].pc \in Charging =>
          run[r].key = RetryKey(run[r].row, run[r].attempt)
    /\ r \in Collectors /\ run[r].pc \in Charging =>
          \E d \in 1 .. MaxDays : run[r].key = RecurringKey(d)
    /\ run[r].pc \in Answered => run[r].answer # "none"
    /\ run[r].pc = "store" => run[r].answer # "failed"

(* A schedule that will be selected again has an attempt left. *)
AttemptLeft ==
    \A i \in Schedules : retry[i].status = "pending" => retry[i].attempts < MaxAttempts

Shapes == \A r \in Runs : Shape(r)

LEMMA HeldKey ==
  ASSUME Shapes, NEW r \in Runs, run[r].pc \in Charging
  PROVE  run[r].key \in Keys
  BY KeyNames DEF Shapes, Shape, Runs, Charging

RunStates == [pc : Steps, key : Keys \cup {NoKey}, row : 0 .. MaxSchedules,
              attempt : 0 .. MaxAttempts, answer : Answers]

(* How a run moves: others stay where they are.                            *)
LEMMA RunMoves ==
  ASSUME TypeOK, NEW r \in Runs, NEW new, run' = [run EXCEPT ![r] = new]
  PROVE  /\ run'[r] = new
         /\ \A s \in Runs \ {r} : run'[s] = run[s]
         /\ new \in RunStates => run' \in [Runs -> RunStates]
  BY DEF TypeOK, RunStates

LEMMA ShapeMoves ==
  ASSUME Shapes, NEW r \in Runs, Shape(r)',
         \A s \in Runs \ {r} : run'[s] = run[s]
  PROVE  Shapes'
  BY DEF Shapes, Shape

TxStates == [status : {"absent", "pending", "succeeded", "failed"},
             ref : BOOLEAN, posted : BOOLEAN]

RetryStates == [status : RetryStatuses, attempts : 0 .. MaxAttempts]

RowTypes ==
    /\ invoice \in {"owed", "paid"}
    /\ tx \in [Keys -> TxStates]
    /\ stored \in [Keys -> Answers]
    /\ charge \in [Keys -> {"none", "processing", "captured", "declined"}]
    /\ calls \in [Keys -> Nat]
    /\ retry \in [Schedules -> RetryStates]
    /\ follow \in BOOLEAN
    /\ day \in 1 .. MaxDays

LogTypes ==
    /\ overlapped \in BOOLEAN
    /\ faults \in Nat /\ manual \in Nat /\ faults + manual <= MaxIncidents

LEMMA TypeParts ==
  /\ TypeOK <=> RowTypes /\ LogTypes /\ run \in [Runs -> RunStates]
  /\ TypeOK' <=> RowTypes' /\ LogTypes' /\ run' \in [Runs -> RunStates]
  BY DEF TypeOK, RowTypes, LogTypes, RunStates, TxStates, RetryStates

LEMMA IdleState == IdleRun \in RunStates
  BY AutopayAssumption DEF IdleRun, RunStates, Steps, Answers

LEMMA InitTyped == Init => TypeOK /\ Shapes /\ AttemptLeft
  <1> SUFFICES ASSUME Init
               PROVE  /\ RowTypes /\ LogTypes /\ run \in [Runs -> RunStates]
                      /\ Shapes /\ AttemptLeft
    BY TypeParts
  <1>1. RowTypes
    <2>1. retry \in [Schedules -> RetryStates] /\ day \in 1 .. MaxDays
      BY AutopayAssumption DEF Init, RetryStates, RetryStatuses
    <2>2. tx \in [Keys -> TxStates]
      BY DEF Init, TxStates
    <2>3. /\ stored \in [Keys -> Answers] /\ calls \in [Keys -> Nat]
          /\ charge \in [Keys -> {"none", "processing", "captured", "declined"}]
      BY DEF Init, Answers
    <2> QED
      BY <2>1, <2>2, <2>3 DEF Init, RowTypes
  <1>2. LogTypes
    <2>1. overlapped \in BOOLEAN
      BY DEF Init
    <2>2. faults = 0 /\ manual = 0 /\ MaxIncidents \in Nat
      BY AutopayAssumption DEF Init
    <2> QED
      BY <2>1, <2>2 DEF LogTypes
  <1>3. run \in [Runs -> RunStates] /\ Shapes
    BY IdleState DEF Init, Shapes, Shape, IdleRun, Charging, Answered
  <1> QED
    BY <1>1, <1>2, <1>3 DEF Init, AttemptLeft

LEMMA LogStep ==
  ASSUME LogTypes
  PROVE  /\ UNCHANGED log => LogTypes'
         /\ Fault /\ UNCHANGED <<overlapped, manual>> => LogTypes'
         /\ \A r, tasks : Begin(r, tasks) /\ UNCHANGED faults => LogTypes'
  <1>1. UNCHANGED log => LogTypes'
    BY DEF LogTypes, log
  <1>2. Fault /\ UNCHANGED <<overlapped, manual>> => LogTypes'
    BY AutopayAssumption DEF LogTypes, Fault
  <1>3. ASSUME NEW r, NEW tasks, Begin(r, tasks), UNCHANGED faults PROVE LogTypes'
    <2>1. overlapped' \in BOOLEAN
      BY <1>3 DEF Begin
    <2>2. \/ UNCHANGED manual
          \/ faults + manual < MaxIncidents /\ manual' = manual + 1
      BY <1>3 DEF Begin
    <2>3. manual' \in Nat /\ faults' \in Nat /\ faults' + manual' <= MaxIncidents
      BY <1>3, <2>2, AutopayAssumption DEF LogTypes
    <2> QED
      BY <2>1, <2>3 DEF LogTypes
  <1> QED
    BY <1>1, <1>2, <1>3

(* A step of one run: where it goes, and that it touches nothing else of   *)
(* the runs.                                                               *)
RunGoes(r) ==
    /\ \A s \in Runs \ {r} : run'[s] = run[s]
    /\ run'[r] \in RunStates /\ run' \in [Runs -> RunStates]

Shaped(r) == RunGoes(r) /\ Shape(r)'

LEMMA Ending ==
  ASSUME TypeOK, NEW r \in Runs, Ends(r)
  PROVE  Shaped(r) /\ run'[r] = IdleRun
  <1>1. /\ run'[r] = IdleRun /\ RunGoes(r)
    BY IdleState, RunMoves DEF Ends, RunGoes
  <1> QED
    BY <1>1 DEF Shaped, Shape, IdleRun, Charging, Answered

LEMMA Starting ==
  ASSUME TypeOK, Shapes, AttemptLeft
  PROVE  /\ \A r \in Collectors : StartCollecting(r) => Shaped(r)
         /\ \A r \in Retriers, i \in Schedules : SelectRetry(r, i) => Shaped(r)
  <1>a. /\ run \in [Runs -> RunStates] /\ retry \in [Schedules -> RetryStates]
        /\ Collectors \subseteq Runs /\ Retriers \subseteq Runs
    BY TypeParts DEF RowTypes, Runs
  <1>1. ASSUME NEW r \in Collectors, StartCollecting(r) PROVE Shaped(r)
    <2>1. /\ run' = [run EXCEPT ![r] = [run[r] EXCEPT !.pc = "check"]]
          /\ run[r].pc = "idle"
      BY <1>1 DEF StartCollecting, Goto
    <2>2. run'[r].pc = "check" /\ RunGoes(r)
      BY <1>a, <2>1 DEF RunGoes, RunStates, Steps
    <2>3. r \notin Retriers
      BY AutopayAssumption
    <2> QED
      BY <2>2, <2>3 DEF Shaped, Shape, Charging, Answered
  <1>2. ASSUME NEW r \in Retriers, NEW i \in Schedules, SelectRetry(r, i)
        PROVE  Shaped(r)
    <2> DEFINE new == [pc |-> "balance", key |-> NoKey, row |-> i,
                       attempt |-> retry[i].attempts + 1, answer |-> "none"]
    <2>1. run' = [run EXCEPT ![r] = new] /\ retry[i].status = "pending"
      BY <1>2 DEF SelectRetry
    <2>2. retry[i].attempts + 1 \in 1 .. MaxAttempts
      BY <1>a, <2>1, AutopayAssumption DEF AttemptLeft, RetryStates
    <2>3. new \in RunStates
      BY <2>2, AutopayAssumption DEF RunStates, Steps, Answers, Schedules
    <2>4. run'[r] = new /\ RunGoes(r)
      BY <1>a, <2>1, <2>3, RunMoves DEF RunGoes
    <2> QED
      BY <2>2, <2>4 DEF Shaped, Shape, Charging, Answered
  <1> QED
    BY <1>1, <1>2

LEMMA Going ==
  ASSUME TypeOK, Shapes, NEW r \in Runs, RunStep(r)
  PROVE  Shaped(r)
  <1>a. /\ run \in [Runs -> RunStates] /\ Shape(r) /\ Collectors \cap Retriers = {}
        /\ stored \in [Keys -> Answers] /\ day \in 1 .. MaxDays
    BY TypeParts, AutopayAssumption DEF RowTypes, Shapes
  <1>b. /\ run[r].pc \in {"balance", "mark", "cancel"} => r \notin Collectors
        /\ r \in Collectors => r \notin Retriers
    BY <1>a DEF Shape
  <1>1. CASE CheckInFlight(r)
    <2>1. CASE ~Ends(r)
      <3>1. /\ run' = [run EXCEPT ![r] = [run[r] EXCEPT !.pc = "charge",
                                                        !.key = RecurringKey(day)]]
            /\ r \in Collectors
        BY <1>1, <2>1 DEF CheckInFlight
      <3>2. /\ run'[r].pc = "charge" /\ run'[r].key = RecurringKey(day)
            /\ RunGoes(r)
        <4>1. RecurringKey(day) \in Keys
          BY <1>a, KeyNames
        <4> QED
          BY <1>a, <3>1, <4>1 DEF RunGoes, RunStates, Steps
      <3> QED
        BY <1>a, <1>b, <3>1, <3>2 DEF Shaped, Shape, Charging, Answered
    <2> QED
      BY <2>1, Ending
  <1>2. CASE CheckBalance(r)
    <2>1. /\ run'[r].pc \in {"mark", "cancel"} /\ RunGoes(r)
          /\ run'[r].row = run[r].row /\ run'[r].attempt = run[r].attempt
      BY <1>2, <1>a DEF CheckBalance, Goto, RunGoes, RunStates, Steps
    <2> QED
      BY <1>2, <1>a, <2>1 DEF CheckBalance, Shaped, Shape, Charging, Answered
  <1>3. CASE MarkProcessing(r)
    <2>1. /\ r \in Retriers /\ run[r].row \in Schedules
          /\ run[r].attempt \in 1 .. MaxAttempts
      BY <1>3, <1>a DEF MarkProcessing, Shape
    <2>2. /\ run'[r].pc = "charge"
          /\ run'[r].key = RetryKey(run[r].row, run[r].attempt)
          /\ run'[r].row = run[r].row /\ run'[r].attempt = run[r].attempt
          /\ RunGoes(r)
      <3>1. RetryKey(run[r].row, run[r].attempt) \in Keys
        BY <2>1, KeyNames
      <3>2. run[r] \in RunStates
        BY <1>a
      <3>3. PICK new : new = [run[r] EXCEPT !.pc = "charge",
                                !.key = RetryKey(run[r].row, run[r].attempt),
                                !.answer = run[r].answer]
        OBVIOUS
      <3>4. run' = [run EXCEPT ![r] = new]
        BY <1>3, <1>a, <3>2, <3>3 DEF MarkProcessing, RunStates
      <3>5. /\ new \in RunStates
            /\ new.pc = "charge" /\ new.key = RetryKey(run[r].row, run[r].attempt)
            /\ new.row = run[r].row /\ new.attempt = run[r].attempt
        BY <3>1, <3>2, <3>3 DEF RunStates, Steps
      <3> QED
        BY <3>4, <3>5, RunMoves DEF RunGoes
    <2> QED
      BY <1>b, <2>1, <2>2 DEF Shaped, Shape, Charging, Answered
  <1>4. CASE \/ Replay(r) \/ InsertCharge(r) \/ RecordAnswer(r) \/ StoreKey(r)
             \/ InsertTokenless(r)
             \/ (ChargeThrows(r) \/ FailureThrows(r)) /\ ~Ends(r)
             \/ \E made \in {"none", "processing", "captured", "declined"} :
                   CallProvider(r, made)
    <2>1. run[r].pc \in Charging /\ run[r].key \in Keys
      BY <1>4, HeldKey
         DEF Replay, InsertCharge, RecordAnswer, StoreKey, ChargeThrows, Throws,
             InsertTokenless, FailureThrows, CallProvider, Charging
    <2>2. /\ run'[r].pc \in Charging
          /\ run'[r].key = run[r].key /\ run'[r].row = run[r].row
          /\ run'[r].attempt = run[r].attempt
          /\ run'[r].pc \in Answered => run'[r].answer # "none"
          /\ run'[r].pc = "store" => run'[r].answer # "failed"
          /\ RunGoes(r)
      <3>1. CASE Replay(r)
        <4>1. run[r] \in RunStates /\ stored[run[r].key] \in Answers
          BY <1>a, <2>1
        <4>2. PICK new : new = [run[r] EXCEPT !.pc = "result", !.key = run[r].key,
                                              !.answer = stored[run[r].key]]
          OBVIOUS
        <4>3. run' = [run EXCEPT ![r] = new]
          BY <3>1, <1>a, <4>1, <4>2 DEF Replay, RunStates
        <4>4. stored[run[r].key] # "none"
          BY <3>1 DEF Replay
        <4>5. /\ new \in RunStates
              /\ new.pc \in Charging \ {"store"} /\ new.answer # "none"
              /\ new.key = run[r].key /\ new.row = run[r].row
              /\ new.attempt = run[r].attempt
          BY <4>1, <4>2, <4>4 DEF RunStates, Steps, Charging
        <4> QED
          BY <4>3, <4>5, RunMoves DEF RunGoes
      <3>2. CASE InsertCharge(r)
        BY <3>2, <1>a DEF InsertCharge, Goto, RunGoes, RunStates, Steps, Charging,
                          Answered
      <3>3. CASE RecordAnswer(r) \/ StoreKey(r)
        BY <3>3, <1>a DEF RecordAnswer, StoreKey, Goto, RunGoes, RunStates, Steps,
                          Charging, Answered, Shape
      <3>4. CASE \/ InsertTokenless(r)
                 \/ (ChargeThrows(r) \/ FailureThrows(r)) /\ ~Ends(r)
        BY <3>4, <1>a DEF ChargeThrows, Throws, InsertTokenless, FailureThrows,
                          RunGoes, RunStates, Steps, Charging, Answers
      <3>5. CASE \E made \in {"none", "processing", "captured", "declined"} :
                    CallProvider(r, made)
        <4>1. PICK answer \in {"succeeded", "pending", "failed"} :
                 run' = [run EXCEPT ![r] = [run[r] EXCEPT !.pc = "record",
                                                          !.answer = answer]]
          BY <3>5 DEF CallProvider, Answering
        <4>2. run[r] \in RunStates /\ "record" \in Steps /\ answer \in Answers
          BY <1>a DEF Steps, Answers
        <4>3. PICK new : new = [run[r] EXCEPT !.pc = "record", !.key = run[r].key,
                                              !.answer = answer]
          OBVIOUS
        <4>4. run' = [run EXCEPT ![r] = new]
          BY <4>1, <4>2, <4>3 DEF RunStates
        <4>5. /\ new \in RunStates
              /\ new.pc \in Charging \ {"store"} /\ new.answer # "none"
              /\ new.key = run[r].key /\ new.row = run[r].row
              /\ new.attempt = run[r].attempt
          BY <4>2, <4>3 DEF RunStates, Charging
        <4> QED
          BY <4>4, <4>5, RunMoves DEF RunGoes
      <3> QED
        BY <1>4, <3>1, <3>2, <3>3, <3>4, <3>5
    <2>3. run'[r].pc \notin {"idle", "check", "schedule", "balance", "mark", "cancel"}
          /\ run[r].pc # "idle"
      BY <2>1, <2>2 DEF Charging
    <2> QED
      BY <1>a, <2>1, <2>2, <2>3 DEF Shaped, Shape
  <1>5. CASE CollectorResult(r) /\ ~Ends(r)
    <2>1. run'[r].pc = "schedule" /\ RunGoes(r) /\ r \in Collectors
      BY <1>5, <1>a DEF CollectorResult, Goto, RunGoes, RunStates, Steps
    <2> QED
      BY <1>b, <2>1 DEF Shaped, Shape, Charging, Answered
  <1> QED
    BY <1>1, <1>2, <1>3, <1>4, <1>5, Ending
       DEF RunStep, CancelRetry, ChargeThrows, Throws, InsertTokenless,
           FailureThrows, CollectorResult, scheduleRetry, RetryResult, Crash

(* Who steps: one run, or nobody. *)
LEMMA WhoSteps ==
  ASSUME TypeOK, Shapes, AttemptLeft, [Next]_vars
  PROVE  \/ UNCHANGED run
         \/ \E r \in Runs : Shaped(r) /\ (RunStep(r) \/ run[r].pc = "idle")
  BY Starting, Going
     DEF Next, Webhook, Post, ProviderDecides, PayOtherwise, cancelRetries, NextDay,
         vars, Runs, StartCollecting, SelectRetry

LEMMA ShapesStep ==
  TypeOK /\ Shapes /\ AttemptLeft /\ [Next]_vars
      => run' \in [Runs -> RunStates] /\ Shapes'
  <1> SUFFICES ASSUME TypeOK, Shapes, AttemptLeft, [Next]_vars
               PROVE  run' \in [Runs -> RunStates] /\ Shapes'
    OBVIOUS
  <1>1. CASE UNCHANGED run
    BY <1>1, TypeParts DEF Shapes, Shape
  <1>2. ASSUME NEW r \in Runs, Shaped(r)
        PROVE  run' \in [Runs -> RunStates] /\ Shapes'
    BY <1>2, ShapeMoves DEF Shaped, RunGoes
  <1> QED
    BY <1>1, <1>2, WhoSteps

LEMMA RowsStep ==
  TypeOK /\ Shapes /\ AttemptLeft /\ [Next]_vars => RowTypes' /\ AttemptLeft'
  <1> SUFFICES ASSUME TypeOK, RowTypes, Shapes, AttemptLeft, [Next]_vars
               PROVE  RowTypes' /\ AttemptLeft'
    BY TypeParts
  <1>a. \A r \in Runs : Shape(r) /\ run[r].answer \in Answers
    BY DEF Shapes, TypeOK
  <1>0. CASE UNCHANGED <<money, tx, stored, retry>>
    BY <1>0 DEF money, RowTypes, AttemptLeft
  <1>1. ASSUME NEW r \in Runs, CancelRetry(r) PROVE RowTypes' /\ AttemptLeft'
    <2>1. run[r].row \in Schedules
      BY <1>1, <1>a DEF CancelRetry, Shape
    <2> QED
      BY <1>1, <2>1
         DEF CancelRetry, money, RowTypes, AttemptLeft, RetryStates, RetryStatuses
  <1>2. ASSUME NEW r \in Runs, MarkProcessing(r) PROVE RowTypes' /\ AttemptLeft'
    <2>1. run[r].row \in Schedules
      BY <1>2, <1>a DEF MarkProcessing, Shape
    <2> QED
      BY <1>2, <2>1
         DEF MarkProcessing, money, RowTypes, AttemptLeft, RetryStates,
             RetryStatuses, Live
  <1>3. ASSUME NEW r \in Runs, InsertCharge(r) \/ InsertTokenless(r)
        PROVE  RowTypes' /\ AttemptLeft'
    BY <1>3 DEF InsertCharge, InsertTokenless, money, RowTypes, AttemptLeft,
                TxStates
  <1>4. ASSUME NEW r \in Runs, RecordAnswer(r) PROVE RowTypes' /\ AttemptLeft'
    <2>1. run[r].answer \in {"succeeded", "pending", "failed"}
      BY <1>4, <1>a DEF RecordAnswer, Shape, Answered, Answers
    <2>2. PICK k : k = run[r].key
      OBVIOUS
    <2>3. PICK new : new = [tx[k] EXCEPT !.status = run[r].answer,
                                        !.ref = TRUE]
      OBVIOUS
    <2>4. tx' \in [Keys -> TxStates]
      <3>1. CASE k \in Keys
        <4>1. tx[k] \in TxStates
          BY <3>1 DEF RowTypes
        <4>2. new \in TxStates
          BY <2>1, <2>3, <4>1 DEF TxStates
        <4>3. tx' = [tx EXCEPT ![k] = new]
          BY <1>4, <2>2, <2>3, <3>1 DEF RecordAnswer, RowTypes
        <4> QED
          BY <4>2, <4>3 DEF RowTypes
      <3>2. CASE k \notin Keys
        BY <1>4, <2>2, <3>2 DEF RecordAnswer, RowTypes
      <3> QED
        BY <3>1, <3>2
    <2> QED
      BY <1>4, <2>4 DEF RecordAnswer, money, RowTypes, AttemptLeft
  <1>5. ASSUME NEW r \in Runs, StoreKey(r) PROVE RowTypes' /\ AttemptLeft'
    BY <1>5, <1>a DEF StoreKey, money, RowTypes, AttemptLeft
  <1>6. ASSUME NEW r \in Runs,
               NEW made \in {"none", "processing", "captured", "declined"},
               CallProvider(r, made)
        PROVE  RowTypes' /\ AttemptLeft'
    <2>1. calls' \in [Keys -> Nat]
      BY <1>6 DEF CallProvider, RowTypes
    <2>2. charge' \in [Keys -> {"none", "processing", "captured", "declined"}]
      BY <1>6 DEF CallProvider, RowTypes
    <2> QED
      BY <1>6, <2>1, <2>2 DEF CallProvider, RowTypes, AttemptLeft
  <1>7. ASSUME NEW r \in Runs, scheduleRetry(r) PROVE RowTypes' /\ AttemptLeft'
    BY <1>7, AutopayAssumption
       DEF scheduleRetry, money, RowTypes, AttemptLeft, RetryStates,
           RetryStatuses, Live
  <1>8. ASSUME NEW r \in Runs, RetryResult(r) PROVE RowTypes' /\ AttemptLeft'
    <2> DEFINE i == run[r].row
               n == run[r].attempt
               status == AfterAttempt(run[r].answer, n)
    <2>1. i \in Schedules /\ n \in 1 .. MaxAttempts
      BY <1>8, <1>a DEF RetryResult, Shape
    <2>2. /\ status \in {"succeeded", "exhausted", "pending"}
          /\ status = "pending" => n < MaxAttempts
      BY <2>1, AutopayAssumption DEF AfterAttempt
    <2>3. /\ retry'[i].status = status /\ retry'[i].attempts = n
          /\ \A j \in Schedules \ {i} : retry'[j] = retry[j]
      BY <1>8, <2>1 DEF RetryResult, RowTypes, RetryStates
    <2>4. status \in RetryStatuses /\ n \in 0 .. MaxAttempts
      BY <2>1, <2>2, AutopayAssumption DEF RetryStatuses, Live
    <2>5. retry' \in [Schedules -> RetryStates]
      BY <1>8, <2>1, <2>4 DEF RetryResult, RowTypes, RetryStates
    <2>6. AttemptLeft'
      <3>1. ASSUME NEW j \in Schedules, retry'[j].status = "pending"
            PROVE  retry'[j].attempts < MaxAttempts
        BY <2>2, <2>3, <3>1 DEF AttemptLeft
      <3> QED
        BY <3>1 DEF AttemptLeft
    <2>7. UNCHANGED <<money, tx, stored>>
      BY <1>8 DEF RetryResult
    <2> QED
      BY <2>5, <2>6, <2>7 DEF money, RowTypes
  <1>9. ASSUME NEW k \in Keys, Webhook(k) \/ Post(k) PROVE RowTypes' /\ AttemptLeft'
    <2>1. tx[k] \in TxStates
      BY DEF RowTypes
    <2>2. PICK t \in TxStates : tx' = [tx EXCEPT ![k] = t]
      <3>1. CASE Webhook(k)
        <4>1. PICK status \in {"succeeded", "failed"} :
                 tx' = [tx EXCEPT ![k].status = status]
          BY <3>1 DEF Webhook
        <4> QED
          BY <2>1, <4>1 DEF TxStates
      <3>2. CASE Post(k)
        BY <2>1, <3>2 DEF Post, TxStates
      <3> QED
        BY <1>9, <3>1, <3>2
    <2>3. tx' \in [Keys -> TxStates]
      BY <2>2 DEF RowTypes
    <2>4. /\ UNCHANGED <<stored, charge, calls, retry, day>>
          /\ invoice' \in {invoice, "paid"} /\ follow' \in {follow, TRUE}
      BY <1>9 DEF Webhook, Post, money
    <2> QED
      BY <2>3, <2>4 DEF RowTypes, AttemptLeft
  <1>10. ASSUME NEW k \in Keys, NEW made \in {"captured", "declined"},
                ProviderDecides(k, made)
         PROVE  RowTypes' /\ AttemptLeft'
    BY <1>10 DEF ProviderDecides, RowTypes, AttemptLeft
  <1>11. CASE PayOtherwise \/ NextDay
    BY <1>11, AutopayAssumption DEF PayOtherwise, NextDay, RowTypes, AttemptLeft
  <1>12. CASE cancelRetries
    <2>1. CASE UNCHANGED retry
      BY <1>12, <2>1 DEF cancelRetries, RowTypes, AttemptLeft
    <2>2. CASE ~UNCHANGED retry
      <3>1. retry' = [i \in Schedules |-> [retry[i] EXCEPT !.status =
                         IF retry[i].status \in Live THEN "cancelled"
                                                     ELSE retry[i].status]]
        BY <1>12, <2>2 DEF cancelRetries
      <3>2. retry' \in [Schedules -> RetryStates]
        BY <3>1 DEF RowTypes, RetryStates, RetryStatuses
      <3>3. AttemptLeft'
        BY <3>1 DEF AttemptLeft, Live, RowTypes, RetryStates
      <3> QED
        BY <1>12, <3>2, <3>3 DEF cancelRetries, RowTypes
    <2> QED
      BY <2>1, <2>2
  <1> QED
    BY <1>0, <1>1, <1>2, <1>3, <1>4, <1>5, <1>6, <1>7, <1>8, <1>9, <1>10, <1>11, <1>12
       DEF Next, RunStep, StartCollecting, SelectRetry, CheckInFlight,
           CheckBalance, Replay, ChargeThrows, Throws, InsertTokenless,
           FailureThrows, CollectorResult, Crash, money, vars

LEMMA LogsStep == TypeOK /\ [Next]_vars => LogTypes'
  <1> SUFFICES ASSUME LogTypes, [Next]_vars PROVE LogTypes'
    BY TypeParts
  <1>1. \/ UNCHANGED log
        \/ Fault /\ UNCHANGED <<overlapped, manual>>
        \/ \E r, tasks : Begin(r, tasks) /\ UNCHANGED faults
    <2>1. ASSUME NEW r \in Runs, RunStep(r), ~Crash(r),
                 ~\E made \in {"none", "processing", "captured", "declined"} :
                     CallProvider(r, made)
          PROVE  UNCHANGED log
      BY <2>1
         DEF RunStep, CheckInFlight, CheckBalance, CancelRetry, MarkProcessing,
             Replay, InsertCharge, ChargeThrows, Throws, InsertTokenless,
             FailureThrows, RecordAnswer, StoreKey, CollectorResult,
             scheduleRetry, RetryResult
    <2>2. ASSUME NEW r \in Runs,
                 \/ Crash(r)
                 \/ \E made \in {"none", "processing", "captured", "declined"} :
                       CallProvider(r, made)
          PROVE  UNCHANGED log \/ (Fault /\ UNCHANGED <<overlapped, manual>>)
      BY <2>2 DEF Crash, CallProvider, log
    <2>3. CASE UNCHANGED vars \/ \E k \in Keys : Webhook(k) \/ Post(k)
      BY <2>3 DEF vars, Webhook, Post
    <2>4. CASE \/ \E k \in Keys, made \in {"captured", "declined"} : ProviderDecides(k, made)
               \/ PayOtherwise \/ NextDay
      BY <2>4 DEF ProviderDecides, PayOtherwise, NextDay
    <2>5. CASE cancelRetries
      BY <2>5 DEF cancelRetries, log
    <2>6. ASSUME NEW r, StartCollecting(r) \/ \E i \in Schedules : SelectRetry(r, i)
          PROVE  \E tasks : Begin(r, tasks) /\ UNCHANGED faults
      BY <2>6 DEF StartCollecting, SelectRetry
    <2> QED
      BY <2>1, <2>2, <2>3, <2>4, <2>5, <2>6 DEF Next
  <1> QED
    BY <1>1, LogStep

LEMMA Typed == Spec => [](TypeOK /\ Shapes /\ AttemptLeft)
  <1>1. TypeOK /\ Shapes /\ AttemptLeft /\ [Next]_vars
           => (TypeOK /\ Shapes /\ AttemptLeft)'
    BY ShapesStep, RowsStep, LogsStep, TypeParts
  <1> QED
    BY <1>1, InitTyped, PTL DEF Spec

(* Every variable keeps its type: in particular no retry is ever numbered  *)
(* past max_attempts (handleRetryFailure), however runs overlap or stop.   *)
THEOREM AutopayTyped == Spec => []TypeOK
  BY Typed, PTL

----------------------------------------------------------------------------
(* One request per idempotency key *)

Calling == {"call", "record", "store"}

(* A key is inserted once, and the run that inserted it is alone with it.  *)
InsertedOnce ==
    \A k \in Keys :
       /\ tx[k].status = "absent" =>
             /\ calls[k] = 0 /\ charge[k] = "none" /\ stored[k] = "none"
             /\ ~tx[k].ref /\ ~tx[k].posted
             /\ \A r \in Runs : run[r].pc \in Calling => run[r].key # k
       /\ \A r \in Runs :
             run[r].pc = "call" /\ run[r].key = k =>
                /\ calls[k] = 0 /\ charge[k] = "none"
                /\ \A s \in Runs \ {r} : run[s].pc \in Calling => run[s].key # k
       /\ calls[k] <= 1

(* How a transaction moves. *)
TxMoves(k) ==
    \/ tx'[k] = tx[k]
    \/ \E r \in Runs : /\ InsertCharge(r) /\ run[r].key = k
                       /\ tx[k].status = "absent"
                       /\ tx'[k] = [tx[k] EXCEPT !.status = "pending"]
    \/ \E r \in Runs : /\ RecordAnswer(r) /\ run[r].key = k
                       /\ run[r].answer # "failed"
                       /\ tx'[k] = [tx[k] EXCEPT !.status = run[r].answer,
                                                 !.ref = TRUE]
    \/ \E r \in Runs : /\ InsertTokenless(r) /\ run[r].key = k
                       /\ tx[k].status = "absent"
                       /\ tx'[k] = [tx[k] EXCEPT !.status = "failed"]
    \/ /\ Webhook(k) /\ tx[k].status = "pending"
       /\ tx[k].ref /\ tx'[k].status \in {"succeeded", "failed"}
       /\ tx'[k].status = "failed" => charge[k] = "declined"
       /\ tx'[k].ref = tx[k].ref /\ tx'[k].posted = tx[k].posted
    \/ /\ Post(k) /\ tx[k].status = "succeeded"
       /\ tx'[k] = [tx[k] EXCEPT !.posted = TRUE]

LEMMA TxStep ==
  ASSUME TypeOK, Shapes, [Next]_vars, NEW k \in Keys
  PROVE  TxMoves(k)
  <1>a. tx \in [Keys -> TxStates]
    BY TypeParts DEF RowTypes
  <1>0. UNCHANGED tx => TxMoves(k)
    BY DEF TxMoves
  <1>1. ASSUME NEW r \in Runs, InsertCharge(r) PROVE TxMoves(k)
    <2>1. CASE run[r].key = k
      <3>1. /\ tx[k].status = "absent"
            /\ tx'[k] = [tx[k] EXCEPT !.status = "pending"]
        BY <1>1, <1>a, <2>1 DEF InsertCharge
      <3> QED
        BY <1>1, <2>1, <3>1 DEF TxMoves
    <2>2. CASE run[r].key # k
      BY <1>1, <1>a, <2>2 DEF InsertCharge, TxMoves
    <2> QED
      BY <2>1, <2>2
  <1>2. ASSUME NEW r \in Runs, RecordAnswer(r) PROVE TxMoves(k)
    <2>1. CASE run[r].key = k
      <3>1. /\ tx'[k] = [tx[k] EXCEPT !.status = run[r].answer, !.ref = TRUE]
            /\ run[r].answer # "failed"
        BY <1>2, <1>a, <2>1 DEF RecordAnswer
      <3> QED
        BY <1>2, <2>1, <3>1 DEF TxMoves
    <2>2. CASE run[r].key # k
      BY <1>2, <1>a, <2>2 DEF RecordAnswer, TxMoves
    <2> QED
      BY <2>1, <2>2
  <1>3. ASSUME NEW j \in Keys, Webhook(j) PROVE TxMoves(k)
    <2>1. CASE j = k
      <3>1. /\ tx[k].status = "pending" /\ tx[k].ref
            /\ tx'[k].status \in {"succeeded", "failed"}
            /\ tx'[k].status = "failed" => charge[k] = "declined"
            /\ tx'[k].ref = tx[k].ref /\ tx'[k].posted = tx[k].posted
        BY <1>3, <1>a, <2>1 DEF Webhook, TxStates
      <3> QED
        BY <1>3, <2>1, <3>1 DEF TxMoves
    <2>2. CASE j # k
      BY <1>3, <1>a, <2>2 DEF Webhook, TxMoves
    <2> QED
      BY <2>1, <2>2
  <1>4. ASSUME NEW j \in Keys, Post(j) PROVE TxMoves(k)
    <2>1. CASE j = k
      <3>1. tx[k].status = "succeeded" /\ tx'[k] = [tx[k] EXCEPT !.posted = TRUE]
        BY <1>4, <1>a, <2>1 DEF Post
      <3> QED
        BY <1>4, <2>1, <3>1 DEF TxMoves
    <2>2. CASE j # k
      BY <1>4, <1>a, <2>2 DEF Post, TxMoves
    <2> QED
      BY <2>1, <2>2
  <1>5. ASSUME NEW r \in Runs, InsertTokenless(r) PROVE TxMoves(k)
    <2>1. CASE run[r].key = k
      <3>1. /\ tx[k].status = "absent"
            /\ tx'[k] = [tx[k] EXCEPT !.status = "failed"]
        BY <1>5, <1>a, <2>1 DEF InsertTokenless
      <3> QED
        BY <1>5, <2>1, <3>1 DEF TxMoves
    <2>2. CASE run[r].key # k
      BY <1>5, <1>a, <2>2 DEF InsertTokenless, TxMoves
    <2> QED
      BY <2>1, <2>2
  <1> QED
    BY <1>0, <1>1, <1>2, <1>3, <1>4, <1>5
       DEF Next, RunStep, StartCollecting, SelectRetry, CheckInFlight,
           CheckBalance, CancelRetry, MarkProcessing, Replay, ChargeThrows,
           FailureThrows, CallProvider, StoreKey, CollectorResult, scheduleRetry,
           RetryResult, Crash, ProviderDecides, PayOtherwise, cancelRetries,
           NextDay, vars

(* What a step may do to a key at the provider, and to its stored answer.  *)
CallMoves(k) ==
    \/ /\ calls'[k] = calls[k]
       /\ charge'[k] = charge[k] \/ charge[k] = "processing"
    \/ \E r \in Runs :
          /\ run[r].pc = "call" /\ run[r].key = k /\ calls'[k] = calls[k] + 1
          /\ run'[r].pc = "record" /\ RunStep(r)

LEMMA CallStep ==
  ASSUME TypeOK, Shapes, [Next]_vars, NEW k \in Keys
  PROVE  /\ CallMoves(k)
         /\ charge[k] # "none" => charge'[k] # "none"
  <1>a. /\ charge \in [Keys -> {"none", "processing", "captured", "declined"}]
        /\ calls \in [Keys -> Nat] /\ run \in [Runs -> RunStates]
    BY TypeParts DEF RowTypes
  <1>1. ASSUME NEW r \in Runs,
               NEW made \in {"none", "processing", "captured", "declined"},
               CallProvider(r, made)
        PROVE  CallMoves(k) /\ (charge[k] # "none" => charge'[k] # "none")
    <2>1. CASE made = "none" \/ run[r].key # k
      BY <1>1, <1>a, <2>1 DEF CallProvider, CallMoves
    <2>2. CASE made # "none" /\ run[r].key = k
      <3>1. calls'[k] = calls[k] + 1 /\ run[r].pc = "call" /\ run'[r].pc = "record"
        BY <1>1, <1>a, <2>2 DEF CallProvider, RunStates
      <3>2. charge'[k] # "none"
        BY <1>1, <1>a, <2>2 DEF CallProvider
      <3>3. RunStep(r)
        BY <1>1 DEF RunStep
      <3> QED
        BY <2>2, <3>1, <3>2, <3>3 DEF CallMoves
    <2> QED
      BY <2>1, <2>2
  <1>2. ASSUME NEW j \in Keys, NEW made \in {"captured", "declined"},
               ProviderDecides(j, made)
        PROVE  CallMoves(k) /\ (charge[k] # "none" => charge'[k] # "none")
    BY <1>2, <1>a DEF ProviderDecides, CallMoves
  <1>3. CASE UNCHANGED <<charge, calls>>
    BY <1>3 DEF CallMoves
  <1> QED
    BY <1>1, <1>2, <1>3
       DEF Next, RunStep, StartCollecting, SelectRetry, CheckInFlight,
           CheckBalance, CancelRetry, MarkProcessing, Replay, InsertCharge,
           ChargeThrows, Throws, InsertTokenless, FailureThrows, RecordAnswer,
           StoreKey, CollectorResult, scheduleRetry, RetryResult, Crash, Webhook,
           Post, PayOtherwise, cancelRetries, NextDay, money, vars

(* A run moves by a step of its own. *)
LEMMA OwnStep ==
  ASSUME TypeOK, [Next]_vars, NEW r \in Runs
  PROVE  \/ run'[r] = run[r]
         \/ RunStep(r)
         \/ r \in Collectors /\ StartCollecting(r)
         \/ r \in Retriers /\ \E i \in Schedules : SelectRetry(r, i)
  <1>a. run \in [Runs -> RunStates]
    BY TypeParts
  <1>1. ASSUME NEW s \in Runs, s # r,
               \/ RunStep(s) \/ StartCollecting(s)
               \/ \E i \in Schedules : SelectRetry(s, i)
        PROVE  run'[r] = run[r]
    BY <1>1, <1>a
       DEF RunStep, StartCollecting, SelectRetry, CheckInFlight, CheckBalance,
           CancelRetry, MarkProcessing, Replay, InsertCharge, ChargeThrows,
           Throws, InsertTokenless, FailureThrows, CallProvider, RecordAnswer,
           StoreKey, CollectorResult, scheduleRetry, RetryResult, Crash, Goto,
           Ends
  <1> QED
    BY <1>1 DEF Next, Runs, Webhook, Post, ProviderDecides, PayOtherwise,
                cancelRetries, NextDay, vars

(* A run comes to its call by inserting its key, and keeps the key through *)
(* record and store.                                                       *)
CallingMoves(r) ==
    run'[r].pc \in Calling =>
       \/ /\ InsertCharge(r) /\ run'[r].pc = "call" /\ run'[r].key = run[r].key
          /\ tx[run[r].key].status = "absent" /\ run[r].key \in Keys
       \/ /\ run[r].pc \in Calling /\ run'[r].key = run[r].key
          /\ run'[r].pc = "call" => run'[r] = run[r]

LEMMA CallingStep ==
  ASSUME TypeOK, Shapes, AttemptLeft, [Next]_vars, NEW r \in Runs
  PROVE  CallingMoves(r)
  <1>a. run \in [Runs -> RunStates]
    BY TypeParts
  <1>1. CASE run'[r] = run[r]
    BY <1>1 DEF CallingMoves
  <1>2. CASE RunStep(r)
    <2>1. InsertCharge(r) => CallingMoves(r)
      <3>1. SUFFICES ASSUME InsertCharge(r) PROVE CallingMoves(r)
        OBVIOUS
      <3>2. run'[r].pc = "call" /\ run'[r].key = run[r].key
        BY <1>a, <3>1 DEF InsertCharge, Goto, RunStates
      <3>3. run[r].key \in Keys /\ tx[run[r].key].status = "absent"
        BY <3>1, HeldKey DEF InsertCharge, Charging
      <3> QED
        BY <3>1, <3>2, <3>3 DEF CallingMoves
    <2>2. RecordAnswer(r) \/ (\E made \in {"none", "processing", "captured", "declined"} :
                                CallProvider(r, made)) => CallingMoves(r)
      BY <1>a DEF RecordAnswer, CallProvider, Goto, RunStates, CallingMoves, Calling
    <2>3. \/ CheckInFlight(r) \/ CheckBalance(r) \/ CancelRetry(r)
          \/ MarkProcessing(r) \/ Replay(r) \/ ChargeThrows(r) \/ StoreKey(r)
          \/ InsertTokenless(r) \/ FailureThrows(r)
          \/ CollectorResult(r) \/ scheduleRetry(r) \/ RetryResult(r) \/ Crash(r)
          => run'[r].pc \notin Calling
      BY <1>a DEF CheckInFlight, CheckBalance, CancelRetry, MarkProcessing,
                  Replay, ChargeThrows, Throws, InsertTokenless, FailureThrows,
                  StoreKey, CollectorResult, scheduleRetry, RetryResult, Crash,
                  Goto, Ends, IdleRun, RunStates, Calling
    <2> QED
      BY <1>2, <2>1, <2>2, <2>3 DEF RunStep, CallingMoves
  <1>3. ASSUME \/ r \in Collectors /\ StartCollecting(r)
               \/ r \in Retriers /\ \E i \in Schedules : SelectRetry(r, i)
        PROVE  run'[r].pc \notin Calling
    BY <1>3, <1>a DEF StartCollecting, SelectRetry, Goto, RunStates, Calling
  <1> QED
    BY <1>1, <1>2, <1>3, OwnStep DEF CallingMoves

LEMMA StoredStep ==
  ASSUME TypeOK, Shapes, [Next]_vars, NEW k \in Keys
  PROVE  \/ stored'[k] = stored[k]
         \/ \E r \in Runs : /\ StoreKey(r) /\ run[r].key = k
                            /\ stored'[k] = run[r].answer
  <1>a. stored \in [Keys -> Answers]
    BY TypeParts DEF RowTypes
  <1>1. ASSUME NEW r \in Runs, StoreKey(r)
        PROVE  stored'[k] = stored[k]
               \/ (run[r].key = k /\ stored'[k] = run[r].answer)
    BY <1>1, <1>a DEF StoreKey
  <1>2. UNCHANGED stored \/ \E r \in Runs : StoreKey(r)
    BY DEF Next, RunStep, StartCollecting, SelectRetry, CheckInFlight,
           CheckBalance, CancelRetry, MarkProcessing, Replay, InsertCharge,
           ChargeThrows, Throws, InsertTokenless, FailureThrows, CallProvider,
           RecordAnswer, CollectorResult, scheduleRetry, RetryResult, Crash,
           Webhook, Post, ProviderDecides, PayOtherwise, cancelRetries, NextDay,
           vars
  <1> QED
    BY <1>1, <1>2

LEMMA InsertedOnceStep ==
  TypeOK /\ Shapes /\ AttemptLeft /\ InsertedOnce /\ [Next]_vars => InsertedOnce'
  <1> SUFFICES ASSUME TypeOK, Shapes, AttemptLeft, InsertedOnce, [Next]_vars,
                      NEW k \in Keys
               PROVE  /\ tx'[k].status = "absent" =>
                            /\ calls'[k] = 0 /\ charge'[k] = "none"
                            /\ stored'[k] = "none"
                            /\ ~tx'[k].ref /\ ~tx'[k].posted
                            /\ \A r \in Runs :
                                  run'[r].pc \in Calling => run'[r].key # k
                      /\ \A r \in Runs :
                            run'[r].pc = "call" /\ run'[r].key = k =>
                               /\ calls'[k] = 0 /\ charge'[k] = "none"
                               /\ \A s \in Runs \ {r} :
                                     run'[s].pc \in Calling => run'[s].key # k
                      /\ calls'[k] <= 1
    BY DEF InsertedOnce
  <1>a. /\ run \in [Runs -> RunStates] /\ calls[k] \in Nat
        /\ tx[k] \in TxStates
    BY TypeParts DEF RowTypes
  <1>b. CallMoves(k) /\ TxMoves(k)
    BY CallStep, TxStep
  <1>c. /\ tx[k].status = "absent" =>
              /\ calls[k] = 0 /\ charge[k] = "none" /\ stored[k] = "none"
              /\ ~tx[k].ref /\ ~tx[k].posted
              /\ \A r \in Runs : run[r].pc \in Calling => run[r].key # k
        /\ \A r \in Runs :
              run[r].pc = "call" /\ run[r].key = k =>
                 /\ calls[k] = 0 /\ charge[k] = "none"
                 /\ \A s \in Runs \ {r} : run[s].pc \in Calling => run[s].key # k
        /\ calls[k] <= 1
    BY DEF InsertedOnce
  <1>d. \A r \in Runs : Shape(r) /\ CallingMoves(r)
    BY CallingStep DEF Shapes
  <1>1. ASSUME tx'[k].status = "absent"
        PROVE  /\ calls'[k] = 0 /\ charge'[k] = "none" /\ stored'[k] = "none"
               /\ ~tx'[k].ref /\ ~tx'[k].posted
               /\ \A r \in Runs : run'[r].pc \in Calling => run'[r].key # k
    <2>1. ASSUME NEW r \in Runs, RecordAnswer(r),
                 tx'[k] = [tx[k] EXCEPT !.status = run[r].answer, !.ref = TRUE]
          PROVE  FALSE
      <3>1. run[r].answer \in {"succeeded", "pending", "failed"}
        BY <1>a, <1>d, <2>1 DEF RecordAnswer, Shape, Answered, RunStates, Answers
      <3>2. tx'[k].status = run[r].answer
        BY <1>a, <2>1 DEF TxStates
      <3> QED
        BY <1>1, <3>1, <3>2
    <2>2. tx'[k] = tx[k]
      BY <1>a, <1>b, <1>1, <2>1 DEF TxMoves, TxStates
    <2>3. /\ calls[k] = 0 /\ charge[k] = "none" /\ stored[k] = "none"
          /\ ~tx[k].ref /\ ~tx[k].posted
          /\ \A r \in Runs : run[r].pc \in Calling => run[r].key # k
      BY <1>1, <1>c, <2>2
    <2>4. calls'[k] = 0 /\ charge'[k] = "none"
      BY <1>b, <2>3 DEF CallMoves, Calling
    <2>5. stored'[k] = "none"
      BY <2>3, StoredStep DEF StoreKey, Calling
    <2>6. \A r \in Runs : ~(InsertCharge(r) /\ run[r].key = k)
      <3>1. ASSUME NEW r \in Runs, InsertCharge(r), run[r].key = k PROVE FALSE
        <4>1. tx'[k].status = "pending"
          BY <3>1, TypeParts DEF InsertCharge, RowTypes, TxStates
        <4> QED
          BY <1>1, <4>1
      <3> QED
        BY <3>1
    <2> QED
      BY <1>d, <2>2, <2>3, <2>4, <2>5, <2>6 DEF CallingMoves
  <1>2. ASSUME NEW r \in Runs, run'[r].pc = "call", run'[r].key = k
        PROVE  /\ calls'[k] = 0 /\ charge'[k] = "none"
               /\ \A s \in Runs \ {r} : run'[s].pc \in Calling => run'[s].key # k
    <2>1. CASE InsertCharge(r) /\ run[r].key = k /\ tx[k].status = "absent"
      <3>1. /\ calls[k] = 0 /\ charge[k] = "none"
            /\ \A s \in Runs : run[s].pc \in Calling => run[s].key # k
        BY <1>c, <2>1
      <3>2. calls'[k] = 0 /\ charge'[k] = "none"
        BY <1>b, <3>1 DEF CallMoves, Calling
      <3>3. \A s \in Runs \ {r} : run'[s] = run[s]
        BY <1>a, <2>1 DEF InsertCharge, Goto
      <3> QED
        BY <3>1, <3>2, <3>3
    <2>2. CASE run'[r] = run[r]
      <3>1. /\ calls[k] = 0 /\ charge[k] = "none" /\ tx[k].status # "absent"
            /\ \A s \in Runs \ {r} : run[s].pc \in Calling => run[s].key # k
        BY <1>2, <1>c, <2>2 DEF Calling
      <3>2. calls'[k] = 0 /\ charge'[k] = "none"
        <4>1. ASSUME NEW s \in Runs, run[s].pc = "call", run[s].key = k,
                     run'[s].pc = "record"
              PROVE  FALSE
          BY <1>2, <2>2, <3>1, <4>1 DEF Calling
        <4> QED
          BY <1>b, <3>1, <4>1 DEF CallMoves
      <3>3. ASSUME NEW s \in Runs \ {r}, run'[s].pc \in Calling PROVE run'[s].key # k
        BY <1>d, <3>1, <3>3 DEF CallingMoves
      <3> QED
        BY <3>2, <3>3
    <2> QED
      BY <1>2, <1>d, <2>1, <2>2 DEF CallingMoves, Calling
  <1>3. calls'[k] <= 1
    BY <1>a, <1>b, <1>c DEF CallMoves
  <1> QED
    BY <1>1, <1>2, <1>3

LEMMA Inserted == Spec => [](TypeOK /\ Shapes /\ AttemptLeft /\ InsertedOnce)
  <1>1. Init => InsertedOnce
    BY DEF Init, IdleRun, InsertedOnce, Calling
  <1> QED
    BY <1>1, InsertedOnceStep, Typed, PTL DEF Spec

(* The provider acts on an idempotency key at most once, however many runs *)
(* come to charge at once, again after a stop, or with an old copy of a    *)
(* schedule (charge's unique key).                                         *)
THEOREM OneCallTheorem == Spec => []OneCallPerKey
  <1>1. InsertedOnce => OneCallPerKey
    BY DEF InsertedOnce, OneCallPerKey
  <1> QED
    BY <1>1, Inserted, PTL

----------------------------------------------------------------------------
(* A schedule that succeeded was charged *)

(* 'succeeded' and 'pending' are only answered for what the provider took  *)
(* up.                                                                     *)
Meant(answer, k) == answer \in {"succeeded", "pending"} => charge[k] # "none"

AnswerMeant ==
    /\ \A k \in Keys : Meant(stored[k], k)
    /\ \A r \in Runs : run[r].pc \in Answered => Meant(run[r].answer, run[r].key)

(* Where a run's answer comes from. *)
AnswerMoves(r) ==
    run'[r].pc \in Answered =>
       \/ /\ run[r].pc \in Answered
          /\ run'[r].answer = run[r].answer /\ run'[r].key = run[r].key
       \/ /\ run[r].pc = "charge" /\ run'[r].key = run[r].key /\ run[r].key \in Keys
          /\ run'[r].answer \in {stored[run[r].key], "failed"}
       \/ /\ run[r].pc = "call" /\ run'[r].key = run[r].key /\ run[r].key \in Keys
          /\ run'[r].answer \in {"succeeded", "pending"} => charge'[run[r].key] # "none"

LEMMA AnswerStep ==
  ASSUME TypeOK, Shapes, AttemptLeft, [Next]_vars, NEW r \in Runs
  PROVE  AnswerMoves(r)
  <1>a. run \in [Runs -> RunStates]
    BY TypeParts
  <1>1. CASE run'[r] = run[r]
    BY <1>1 DEF AnswerMoves
  <1>2. CASE RunStep(r)
    <2>1. ASSUME NEW made \in {"none", "processing", "captured", "declined"},
                 CallProvider(r, made)
          PROVE  AnswerMoves(r)
      <3>1. run[r].pc = "call" /\ run[r].key \in Keys
        BY <2>1, HeldKey DEF CallProvider, Charging
      <3>2. \/ run'[r] = [run[r] EXCEPT !.pc = "record",
                            !.answer = Answering(charge'[run[r].key])]
            \/ run'[r] = [run[r] EXCEPT !.pc = "record", !.answer = "failed"]
        BY <2>1, <1>a DEF CallProvider
      <3>3. run'[r].key = run[r].key
        BY <1>a, <3>2 DEF RunStates
      <3>4. \/ run'[r].answer = Answering(charge'[run[r].key])
            \/ run'[r].answer = "failed"
        BY <1>a, <3>2 DEF RunStates
      <3>5. run'[r].answer \in {"succeeded", "pending"} => charge'[run[r].key] # "none"
        BY <3>4 DEF Answering
      <3> QED
        BY <3>1, <3>3, <3>5 DEF AnswerMoves
    <2>2. CASE Replay(r) \/ ChargeThrows(r) \/ InsertTokenless(r)
      <3>1. run[r].pc = "charge" /\ run[r].key \in Keys
        BY <2>2, HeldKey DEF Replay, ChargeThrows, InsertTokenless, Charging
      <3>2. \/ run'[r].pc = "idle"
            \/ /\ run'[r].key = run[r].key
               /\ run'[r].answer \in {stored[run[r].key], "failed"}
        BY <2>2, <1>a DEF Replay, ChargeThrows, Throws, InsertTokenless,
                          FailureThrows, Ends, IdleRun, RunStates
      <3> QED
        BY <3>1, <3>2 DEF AnswerMoves, Answered
    <2>3. CASE RecordAnswer(r) \/ StoreKey(r)
      BY <2>3, <1>a DEF RecordAnswer, StoreKey, Goto, RunStates, AnswerMoves,
                        Answered
    <2>5. CASE FailureThrows(r)
      BY <2>5, <1>a DEF FailureThrows, Throws, Ends, IdleRun, RunStates,
                        AnswerMoves, Answered
    <2>4. \/ CheckInFlight(r) \/ CheckBalance(r) \/ CancelRetry(r)
          \/ MarkProcessing(r) \/ InsertCharge(r) \/ CollectorResult(r)
          \/ scheduleRetry(r) \/ RetryResult(r) \/ Crash(r)
          => run'[r].pc \notin Answered
      BY <1>a DEF CheckInFlight, CheckBalance, CancelRetry, MarkProcessing,
                  InsertCharge, CollectorResult, scheduleRetry, RetryResult,
                  Crash, Goto, Ends, IdleRun, RunStates, Answered
    <2> QED
      BY <1>2, <2>1, <2>2, <2>3, <2>4, <2>5 DEF RunStep, AnswerMoves
  <1>3. ASSUME \/ r \in Collectors /\ StartCollecting(r)
               \/ r \in Retriers /\ \E i \in Schedules : SelectRetry(r, i)
        PROVE  run'[r].pc \notin Answered
    BY <1>3, <1>a DEF StartCollecting, SelectRetry, Goto, RunStates, Answered
  <1> QED
    BY <1>1, <1>2, <1>3, OwnStep DEF AnswerMoves

LEMMA AnswerMeantStep ==
  TypeOK /\ Shapes /\ AttemptLeft /\ AnswerMeant /\ [Next]_vars => AnswerMeant'
  <1> SUFFICES ASSUME TypeOK, Shapes, AttemptLeft, AnswerMeant, [Next]_vars
               PROVE  AnswerMeant'
    OBVIOUS
  <1>1. ASSUME NEW k \in Keys, NEW answer, Meant(answer, k)
        PROVE  answer \in {"succeeded", "pending"} => charge'[k] # "none"
    BY <1>1, CallStep DEF Meant
  <1>2. ASSUME NEW k \in Keys
        PROVE  stored'[k] \in {"succeeded", "pending"} => charge'[k] # "none"
    <2>1. CASE stored'[k] = stored[k]
      BY <1>1, <2>1 DEF AnswerMeant
    <2>2. ASSUME NEW r \in Runs, StoreKey(r), run[r].key = k, stored'[k] = run[r].answer
          PROVE  stored'[k] \in {"succeeded", "pending"} => charge'[k] # "none"
      <3>1. Meant(run[r].answer, k)
        BY <2>2 DEF AnswerMeant, StoreKey, Answered
      <3> QED
        BY <1>1, <2>2, <3>1
    <2> QED
      BY <2>1, <2>2, StoredStep
  <1>3. ASSUME NEW r \in Runs, run'[r].pc \in Answered
        PROVE  run'[r].answer \in {"succeeded", "pending"} => charge'[run'[r].key] # "none"
    <2>1. AnswerMoves(r)
      BY AnswerStep
    <2>2. CASE /\ run[r].pc \in Answered
               /\ run'[r].answer = run[r].answer /\ run'[r].key = run[r].key
      <3>1. run[r].key \in Keys /\ Meant(run[r].answer, run[r].key)
        BY <2>2, HeldKey DEF AnswerMeant, Answered, Charging
      <3> QED
        BY <1>1, <2>2, <3>1
    <2>3. CASE /\ run'[r].key = run[r].key /\ run[r].key \in Keys
               /\ run'[r].answer \in {stored[run[r].key], "failed"}
      <3>1. Meant(stored[run[r].key], run[r].key)
        BY <2>3 DEF AnswerMeant
      <3> QED
        BY <1>1, <2>3, <3>1
    <2>4. CASE /\ run'[r].key = run[r].key
               /\ run'[r].answer \in {"succeeded", "pending"}
                    => charge'[run[r].key] # "none"
      BY <2>4
    <2> QED
      BY <1>3, <2>1, <2>2, <2>3, <2>4 DEF AnswerMoves
  <1> QED
    BY <1>2, <1>3 DEF AnswerMeant, Meant

(* How a schedule moves. *)
Cancels(i) ==
    retry[i].status \in Live /\ retry'[i] = [retry[i] EXCEPT !.status = "cancelled"]

RetryMoves(i) ==
    \/ retry'[i] = retry[i]
    \/ (cancelRetries \/ \E r \in Retriers : CancelRetry(r)) /\ Cancels(i)
    \/ \E r \in Retriers : /\ MarkProcessing(r) /\ run[r].row = i
                           /\ retry'[i] = [retry[i] EXCEPT !.status = "processing"]
    \/ \E r \in Collectors : /\ scheduleRetry(r) /\ retry[i].status = "absent"
                             /\ retry'[i] = [status |-> "pending", attempts |-> 0]
    \/ \E r \in Retriers :
          /\ RetryResult(r) /\ run[r].row = i
          /\ retry'[i] = [status |-> AfterAttempt(run[r].answer, run[r].attempt),
                          attempts |-> run[r].attempt]

LEMMA RetryStep ==
  ASSUME TypeOK, Shapes, [Next]_vars, NEW i \in Schedules
  PROVE  RetryMoves(i)
  <1>a. /\ retry \in [Schedules -> RetryStates]
        /\ \A r \in Runs : Shape(r)
    BY TypeParts DEF RowTypes, Shapes
  <1>0. UNCHANGED retry => RetryMoves(i)
    BY DEF RetryMoves
  <1>1. ASSUME NEW r \in Runs, CancelRetry(r) PROVE RetryMoves(i)
    <2>1. r \in Retriers
      BY <1>a, <1>1 DEF CancelRetry, Shape
    <2>2. retry'[i] = retry[i] \/ Cancels(i)
      BY <1>1, <1>a DEF CancelRetry, Cancels, RetryStates
    <2> QED
      BY <1>1, <2>1, <2>2 DEF RetryMoves
  <1>2. ASSUME cancelRetries PROVE RetryMoves(i)
    <2>1. retry'[i] = retry[i] \/ Cancels(i)
      BY <1>2, <1>a DEF cancelRetries, Cancels, RetryStates
    <2> QED
      BY <1>2, <2>1 DEF RetryMoves
  <1>3. ASSUME NEW r \in Runs, MarkProcessing(r) PROVE RetryMoves(i)
    <2>1. r \in Retriers
      BY <1>a, <1>3 DEF MarkProcessing, Shape
    <2>2. \/ retry'[i] = retry[i]
          \/ /\ run[r].row = i
             /\ retry'[i] = [retry[i] EXCEPT !.status = "processing"]
      BY <1>3, <1>a DEF MarkProcessing
    <2> QED
      BY <1>3, <2>1, <2>2 DEF RetryMoves
  <1>4. ASSUME NEW r \in Runs, scheduleRetry(r) PROVE RetryMoves(i)
    <2>1. r \in Collectors
      BY <1>a, <1>4 DEF scheduleRetry, Shape
    <2>2. \/ retry'[i] = retry[i]
          \/ /\ retry[i].status = "absent"
             /\ retry'[i] = [status |-> "pending", attempts |-> 0]
      BY <1>4, <1>a DEF scheduleRetry
    <2> QED
      BY <1>4, <2>1, <2>2 DEF RetryMoves
  <1>5. ASSUME NEW r \in Runs, RetryResult(r) PROVE RetryMoves(i)
    <2>1. r \in Retriers
      BY <1>5 DEF RetryResult
    <2>2. \/ retry'[i] = retry[i]
          \/ /\ run[r].row = i
             /\ retry'[i] = [status |-> AfterAttempt(run[r].answer, run[r].attempt),
                             attempts |-> run[r].attempt]
      BY <1>5, <1>a DEF RetryResult, RetryStates
    <2> QED
      BY <1>5, <2>1, <2>2 DEF RetryMoves
  <1> QED
    BY <1>0, <1>1, <1>2, <1>3, <1>4, <1>5
       DEF Next, RunStep, StartCollecting, SelectRetry, CheckInFlight,
           CheckBalance, Replay, InsertCharge, ChargeThrows, Throws,
           InsertTokenless, FailureThrows, CallProvider, RecordAnswer, StoreKey,
           CollectorResult, Crash, Webhook, Post, ProviderDecides, PayOtherwise,
           NextDay, vars

AttemptMade ==
    \A i \in Schedules : retry[i].status = "succeeded" => retry[i].attempts # 0

LEMMA SucceededStep ==
  /\ TypeOK /\ Shapes /\ AttemptLeft /\ AnswerMeant
  /\ AttemptMade /\ SucceededWasCharged /\ [Next]_vars
  => AttemptMade' /\ SucceededWasCharged'
  <1> SUFFICES ASSUME TypeOK, Shapes, AttemptLeft, AnswerMeant, AttemptMade,
                      SucceededWasCharged, [Next]_vars,
                      NEW i \in Schedules, retry'[i].status = "succeeded"
               PROVE  /\ retry'[i].attempts # 0
                      /\ charge'[RetryKey(i, retry'[i].attempts)] # "none"
    BY DEF AttemptMade, SucceededWasCharged
  <1>a. retry[i] \in RetryStates
    BY TypeParts DEF RowTypes
  <1>1. CASE retry'[i] = retry[i]
    <2>1. retry[i].attempts # 0 /\ charge[RetryKey(i, retry[i].attempts)] # "none"
      BY <1>1 DEF AttemptMade, SucceededWasCharged
    <2>2. RetryKey(i, retry[i].attempts) \in Keys
      BY <2>1, <1>a, KeyNames, AutopayAssumption DEF RetryStates
    <2> QED
      BY <1>1, <2>1, <2>2, CallStep
  <1>2. ASSUME NEW r \in Retriers, RetryResult(r), run[r].row = i,
               retry'[i] = [status |-> AfterAttempt(run[r].answer, run[r].attempt),
                            attempts |-> run[r].attempt]
        PROVE  /\ retry'[i].attempts # 0
               /\ charge'[RetryKey(i, retry'[i].attempts)] # "none"
    <2>1. run[r].answer \in {"succeeded", "pending"}
      BY <1>2 DEF AfterAttempt
    <2>2. r \in Runs /\ run[r].pc \in Answered /\ run[r].pc \in Charging
      BY <1>2 DEF Runs, RetryResult, Answered, Charging
    <2>3. /\ run[r].key = RetryKey(i, run[r].attempt) /\ run[r].key \in Keys
          /\ run[r].attempt \in 1 .. MaxAttempts
      BY <1>2, <2>2, HeldKey DEF Shapes, Shape, RetryResult
    <2>4. charge[run[r].key] # "none"
      BY <2>1, <2>2 DEF AnswerMeant, Meant
    <2> QED
      BY <1>2, <2>3, <2>4, CallStep
  <1>3. ~Cancels(i)
    <2>1. Cancels(i) => retry'[i].status = "cancelled"
      BY <1>a DEF Cancels, RetryStates
    <2> QED
      BY <2>1
  <1>4. retry'[i] # [retry[i] EXCEPT !.status = "processing"]
    BY <1>a DEF RetryStates
  <1>5. retry'[i] # [status |-> "pending", attempts |-> 0]
    OBVIOUS
  <1> QED
    BY <1>1, <1>2, <1>3, <1>4, <1>5, RetryStep DEF RetryMoves

(* A schedule of a failed charge ends as succeeded only if the provider    *)
(* took up the charge its last attempt made (executeRetry records what     *)
(* charge answered, even from a stored answer or an old copy of the row).  *)
THEOREM SucceededTheorem == Spec => []SucceededWasCharged
  <1>1. Init => AnswerMeant /\ AttemptMade /\ SucceededWasCharged
    BY DEF Init, IdleRun, AnswerMeant, Meant, Answered, AttemptMade,
           SucceededWasCharged
  <1>2. /\ TypeOK /\ Shapes /\ AttemptLeft
        /\ (AnswerMeant /\ AttemptMade /\ SucceededWasCharged) /\ [Next]_vars
        => (AnswerMeant /\ AttemptMade /\ SucceededWasCharged)'
    BY AnswerMeantStep, SucceededStep
  <1> QED
    BY <1>1, <1>2, Typed, PTL DEF Spec

----------------------------------------------------------------------------
(* The row of a charge under way, and of a failed one *)

Pursued == {"call", "record"}

(* A run at its call or with its answer finds its row as it inserted it,   *)
(* and a row says failed only of a charge that took nothing.               *)
Opened ==
    /\ \A r, s \in Runs :
          r # s /\ run[r].pc \in Calling /\ run[s].pc \in Calling
            => run[r].key # run[s].key
    /\ \A r \in Runs :
          run[r].pc \in Pursued =>
             tx[run[r].key].status = "pending" /\ ~tx[run[r].key].ref
    /\ \A k \in Keys : tx[k].status = "failed" => ~Taken(k)

LEMMA OpenedStep ==
  TypeOK /\ Shapes /\ AttemptLeft /\ InsertedOnce /\ Opened /\ [Next]_vars => Opened'
  <1> SUFFICES ASSUME TypeOK, Shapes, AttemptLeft, InsertedOnce, Opened, [Next]_vars
               PROVE  Opened'
    OBVIOUS
  <1>a. /\ run \in [Runs -> RunStates] /\ tx \in [Keys -> TxStates]
        /\ charge \in [Keys -> {"none", "processing", "captured", "declined"}]
    BY TypeParts DEF RowTypes
  <1>b. \A r \in Runs : CallingMoves(r)
    BY CallingStep
  <1>1. ASSUME NEW r \in Runs, NEW s \in Runs, r # s,
               run'[r].pc \in Calling, run'[s].pc \in Calling,
               run'[r].key = run'[s].key
        PROVE  FALSE
    <2>1. ASSUME NEW q \in Runs, NEW t \in Runs, q # t, InsertCharge(q),
                 run'[t].pc \in Calling, run'[q].key = run'[t].key
          PROVE  FALSE
      <3>1. run'[t] = run[t] /\ run'[q].key = run[q].key
        BY <1>a, <2>1 DEF InsertCharge, Goto, RunStates
      <3>2. run[q].key \in Keys /\ tx[run[q].key].status = "absent"
        BY <2>1, HeldKey DEF InsertCharge, Charging
      <3> QED
        BY <2>1, <3>1, <3>2 DEF InsertedOnce
    <2>2. /\ run[r].pc \in Calling /\ run[s].pc \in Calling
          /\ run'[r].key = run[r].key /\ run'[s].key = run[s].key
      BY <1>1, <1>b, <2>1 DEF CallingMoves
    <2> QED
      BY <1>1, <2>2 DEF Opened
  <1>2. ASSUME NEW r \in Runs, run'[r].pc \in Pursued
        PROVE  tx'[run'[r].key].status = "pending" /\ ~tx'[run'[r].key].ref
    <2>1. CASE InsertCharge(r) /\ tx[run[r].key].status = "absent" /\ run[r].key \in Keys
      <3>1. run'[r].key = run[r].key /\ ~tx[run[r].key].ref
        BY <1>a, <2>1 DEF InsertCharge, Goto, RunStates, InsertedOnce
      <3>2. tx'[run[r].key] = [tx[run[r].key] EXCEPT !.status = "pending"]
        BY <1>a, <2>1 DEF InsertCharge
      <3> QED
        BY <1>a, <2>1, <3>1, <3>2 DEF TxStates
    <2>2. CASE run[r].pc \in Calling /\ run'[r].key = run[r].key
      <3>1. PICK k : k = run[r].key
        OBVIOUS
      <3>2. run[r].pc \in Pursued
        <4>1. run[r].pc # "store"
          <5>1. ASSUME run[r].pc = "store" PROVE FALSE
            <6>1. run'[r] = run[r] \/ StoreKey(r) \/ Crash(r)
              BY <5>1, OwnStep
                 DEF RunStep, StartCollecting, SelectRetry, CheckInFlight,
                     CheckBalance, CancelRetry, MarkProcessing, Replay,
                     InsertCharge, ChargeThrows, InsertTokenless, CallProvider,
                     RecordAnswer, FailureThrows, CollectorResult, scheduleRetry,
                     RetryResult
            <6>2. StoreKey(r) \/ Crash(r) => run'[r].pc \in {"result", "idle"}
              BY <1>a DEF StoreKey, Crash, Goto, Ends, IdleRun, RunStates
            <6> QED
              BY <1>2, <5>1, <6>1, <6>2 DEF Pursued
          <5> QED
            BY <5>1
        <4> QED
          BY <2>2, <4>1 DEF Calling, Pursued
      <3>3. k \in Keys /\ tx[k].status = "pending" /\ ~tx[k].ref
        BY <2>2, <3>1, <3>2, HeldKey DEF Opened, Calling, Charging
      <3>4. ASSUME NEW s \in Runs, RecordAnswer(s), run[s].key = k PROVE FALSE
        <4>1. s = r
          BY <2>2, <3>1, <3>4 DEF Opened, RecordAnswer, Calling
        <4>2. run'[s].pc = "store"
          BY <1>a, <3>4 DEF RecordAnswer, Goto, RunStates
        <4> QED
          BY <1>2, <4>1, <4>2 DEF Pursued
      <3>5. tx'[k] = tx[k]
        BY <3>3, <3>4, TxStep DEF TxMoves
      <3> QED
        BY <2>2, <3>1, <3>3, <3>5
    <2> QED
      BY <1>2, <1>b, <2>1, <2>2 DEF CallingMoves, Calling, Pursued
  <1>3. ASSUME NEW k \in Keys, tx'[k].status = "failed" PROVE ~Taken(k)'
    <2>1. CASE tx'[k] = tx[k]
      <3>1. ~Taken(k) /\ tx[k].status = "failed"
        BY <1>3, <2>1 DEF Opened
      <3>2. \A r \in Runs : ~(run[r].pc = "call" /\ run[r].key = k)
        BY <3>1 DEF Opened, Pursued
      <3>3. charge'[k] = charge[k]
        BY <3>1, <3>2, CallStep DEF CallMoves, Taken
      <3> QED
        BY <3>1, <3>3 DEF Taken
    <2>2. ASSUME NEW r \in Runs, InsertTokenless(r), tx[k].status = "absent"
          PROVE  ~Taken(k)'
      BY <2>2 DEF InsertTokenless, money, InsertedOnce, Taken
    <2>3. ASSUME Webhook(k), tx'[k].status = "failed" => charge[k] = "declined"
          PROVE  ~Taken(k)'
      BY <1>3, <2>3 DEF Webhook, money, Taken
    <2>4. ASSUME NEW r \in Runs, RecordAnswer(r), run[r].answer # "failed",
                 tx'[k] = [tx[k] EXCEPT !.status = run[r].answer, !.ref = TRUE]
          PROVE  FALSE
      BY <1>a, <1>3, <2>4 DEF TxStates
    <2>5. tx'[k] # [tx[k] EXCEPT !.status = "pending"]
      BY <1>a, <1>3 DEF TxStates
    <2>6. tx[k].status # "succeeded" \/ tx'[k] # [tx[k] EXCEPT !.posted = TRUE]
      BY <1>a, <1>3 DEF TxStates
    <2> QED
      BY <2>1, <2>2, <2>3, <2>4, <2>5, <2>6, TxStep DEF TxMoves
  <1> QED
    BY <1>1, <1>2, <1>3 DEF Opened

Settled == TypeOK /\ Shapes /\ AttemptLeft /\ InsertedOnce /\ Opened

LEMMA Settles == Spec => []Settled
  <1>1. Init => Opened
    BY DEF Init, IdleRun, Opened, Calling, Pursued
  <1> QED
    BY <1>1, OpenedStep, Inserted, PTL DEF Spec, Settled

----------------------------------------------------------------------------
(* What is passed over waits for something *)

(* Without a fault, money that was taken or is undecided has its reference *)
(* or a run about to record it, and a schedule marked as processing is     *)
(* still being worked on.                                                  *)
Awaited ==
    faults = 0 =>
       /\ \A k \in Keys :
             tx[k].status = "pending" /\ ~tx[k].ref /\ Taken(k) =>
                \E r \in Runs : /\ run[r].pc = "record" /\ run[r].key = k
                                /\ run[r].answer # "failed"
       /\ \A i \in Schedules :
             retry[i].status = "processing" =>
                \E r \in Retriers : run[r].pc \in Charging /\ run[r].row = i

LEMMA FaultsGrow ==
  ASSUME TypeOK, [Next]_vars, faults' = 0
  PROVE  faults = 0 /\ \A r \in Runs : ~Crash(r)
  <1>a. faults \in Nat
    BY DEF TypeOK
  <1>1. UNCHANGED faults \/ Fault
    BY DEF Next, RunStep, StartCollecting, SelectRetry, CheckInFlight,
           CheckBalance, CancelRetry, MarkProcessing, Replay, InsertCharge,
           ChargeThrows, Throws, InsertTokenless, FailureThrows, CallProvider,
           RecordAnswer, StoreKey, CollectorResult, scheduleRetry, RetryResult,
           Crash, Webhook, Post, ProviderDecides, PayOtherwise, cancelRetries,
           NextDay, log, vars
  <1>2. ~Fault
    BY <1>a DEF Fault
  <1> QED
    BY <1>1, <1>2 DEF Crash

(* A run under way keeps its key and its schedule until it ends.           *)
LEMMA RecordAhead ==
  ASSUME TypeOK, [Next]_vars, NEW r \in Runs,
         run[r].pc = "record", run[r].answer # "failed"
  PROVE  RecordAnswer(r) \/ Crash(r) \/ run'[r] = run[r]
  BY OwnStep
     DEF RunStep, StartCollecting, SelectRetry, CheckInFlight, CheckBalance,
         CancelRetry, MarkProcessing, Replay, InsertCharge, ChargeThrows,
         InsertTokenless, CallProvider, FailureThrows, StoreKey, CollectorResult,
         scheduleRetry, RetryResult

LEMMA ChargingGoesOn ==
  ASSUME TypeOK, [Next]_vars, NEW r \in Retriers, run[r].pc \in Charging, Shape(r),
         Collectors \cap Retriers = {}
  PROVE  \/ RetryResult(r) \/ Crash(r)
         \/ run'[r].pc \in Charging /\ run'[r].row = run[r].row
  <1>a. run \in [Runs -> RunStates] /\ r \in Runs /\ r \notin Collectors
    BY TypeParts DEF Runs
  <1>1. ASSUME RunStep(r)
        PROVE  \/ RetryResult(r) \/ Crash(r)
               \/ run'[r].pc \in Charging /\ run'[r].row = run[r].row
    <2>1. \/ RetryResult(r) \/ Crash(r) \/ Replay(r) \/ InsertCharge(r)
          \/ ChargeThrows(r) \/ RecordAnswer(r) \/ FailureThrows(r) \/ StoreKey(r)
          \/ \E made \in {"none", "processing", "captured", "declined"} :
                CallProvider(r, made)
      BY <1>1, <1>a DEF RunStep, CheckInFlight, CheckBalance, CancelRetry,
                        MarkProcessing, InsertTokenless, CollectorResult,
                        scheduleRetry, Charging, Shape
    <2>2. (\E made \in {"none", "processing", "captured", "declined"} :
                CallProvider(r, made))
             => run'[r].pc \in Charging /\ run'[r].row = run[r].row
      BY <1>a DEF CallProvider, RunStates, Charging
    <2>3. \/ Replay(r) \/ InsertCharge(r) \/ ChargeThrows(r) \/ RecordAnswer(r)
          \/ FailureThrows(r) \/ StoreKey(r)
          => run'[r].pc \in Charging /\ run'[r].row = run[r].row
      BY <1>a DEF Replay, InsertCharge, ChargeThrows, Throws, InsertTokenless,
                  FailureThrows, RecordAnswer, StoreKey, Goto, RunStates, Charging
    <2> QED
      BY <2>1, <2>2, <2>3
  <1> QED
    BY <1>1, <1>a, OwnStep DEF SelectRetry, Charging

LEMMA ChargeMoves ==
  ASSUME TypeOK, [Next]_vars, NEW k \in Keys, charge'[k] # charge[k]
  PROVE  \/ charge[k] = "processing"
         \/ \E r \in Runs, made \in {"none", "processing", "captured", "declined"} :
               CallProvider(r, made) /\ run[r].key = k
  <1>a. charge \in [Keys -> {"none", "processing", "captured", "declined"}]
    BY TypeParts DEF RowTypes
  <1>1. ASSUME NEW r \in Runs,
               NEW made \in {"none", "processing", "captured", "declined"},
               CallProvider(r, made)
        PROVE  run[r].key = k
    BY <1>1, <1>a DEF CallProvider
  <1>2. ASSUME NEW j \in Keys, NEW made \in {"captured", "declined"},
               ProviderDecides(j, made)
        PROVE  charge[k] = "processing"
    BY <1>2, <1>a DEF ProviderDecides
  <1> QED
    BY <1>1, <1>2
       DEF Next, RunStep, StartCollecting, SelectRetry, CheckInFlight, CheckBalance,
           CancelRetry, MarkProcessing, Replay, InsertCharge, ChargeThrows,
           InsertTokenless, RecordAnswer, FailureThrows, StoreKey, CollectorResult,
           scheduleRetry, RetryResult, Crash, Webhook, Post, PayOtherwise,
           cancelRetries, NextDay, money, vars

LEMMA AwaitedStep ==
  Settled /\ Awaited /\ [Next]_vars => Awaited'
  <1> SUFFICES ASSUME TypeOK, Shapes, AttemptLeft, InsertedOnce, Awaited,
                      [Next]_vars, faults' = 0
               PROVE  /\ \A k \in Keys :
                            (/\ tx'[k].status = "pending" /\ ~tx'[k].ref
                             /\ charge'[k] \in {"captured", "processing"}) =>
                               \E r \in Runs : /\ run'[r].pc = "record"
                                               /\ run'[r].key = k
                                               /\ run'[r].answer # "failed"
                      /\ \A i \in Schedules :
                            retry'[i].status = "processing" =>
                               \E r \in Retriers : /\ run'[r].pc \in Charging
                                                   /\ run'[r].row = i
    BY DEF Settled, Awaited, Taken
  <1>a. /\ run \in [Runs -> RunStates] /\ tx \in [Keys -> TxStates]
        /\ retry \in [Schedules -> RetryStates]
    BY TypeParts DEF RowTypes
  <1>b. faults = 0 /\ \A r \in Runs : ~Crash(r)
    BY FaultsGrow
  <1>1. ASSUME NEW k \in Keys, tx'[k].status = "pending", ~tx'[k].ref,
               charge'[k] \in {"captured", "processing"}
        PROVE  \E r \in Runs : /\ run'[r].pc = "record" /\ run'[r].key = k
                               /\ run'[r].answer # "failed"
    <2>2. ASSUME NEW r \in Runs, RecordAnswer(r), run[r].key = k PROVE FALSE
      <3>1. tx'[k].ref
        BY <2>2, <1>a DEF RecordAnswer, TxStates
      <3> QED
        BY <1>1, <3>1
    <2>3. ASSUME NEW r \in Runs, InsertCharge(r) \/ InsertTokenless(r),
                 tx[k].status = "absent"
          PROVE  FALSE
      <3>1. charge'[k] = "none"
        BY <2>3 DEF InsertedOnce, InsertCharge, InsertTokenless, money
      <3> QED
        BY <1>1, <3>1
    <2>4. tx'[k] # [tx[k] EXCEPT !.posted = TRUE] \/ tx[k].status # "succeeded"
      BY <1>1, <1>a DEF TxStates
    <2>5. tx'[k].status \notin {"succeeded", "failed"}
      BY <1>1
    <2>6. tx'[k] = tx[k]
      BY <2>2, <2>3, <2>4, <2>5, TxStep DEF TxMoves
    <2>7. CASE Taken(k)
      <3>1. PICK r \in Runs : /\ run[r].pc = "record" /\ run[r].key = k
                              /\ run[r].answer # "failed"
        BY <1>1, <1>b, <2>6, <2>7 DEF Awaited
      <3> QED
        BY <1>b, <2>2, <3>1, RecordAhead
    <2>8. CASE ~Taken(k)
      <3>1. PICK r \in Runs, made \in {"none", "processing", "captured", "declined"} :
               CallProvider(r, made) /\ run[r].key = k
        BY <1>1, <1>a, <2>8, ChargeMoves DEF Taken
      <3>2. charge'[run[r].key] \in {"captured", "processing"}
        BY <1>1, <3>1
      <3>3. ~Fault
        BY <1>b DEF Fault
      <3>4. run' = [run EXCEPT ![r].pc = "record",
                               ![r].answer = Answering(charge'[run[r].key])]
        BY <3>1, <3>3 DEF CallProvider
      <3>5. Answering(charge'[run[r].key]) # "failed"
        BY <3>2 DEF Answering
      <3> QED
        BY <1>a, <3>1, <3>4, <3>5 DEF RunStates
    <2> QED
      BY <2>7, <2>8
  <1>2. ASSUME NEW i \in Schedules, retry'[i].status = "processing"
        PROVE  \E r \in Retriers : run'[r].pc \in Charging /\ run'[r].row = i
    <2>1. ASSUME NEW r \in Retriers, MarkProcessing(r), run[r].row = i
          PROVE  run'[r].pc \in Charging /\ run'[r].row = i
      BY <2>1, <1>a DEF MarkProcessing, RunStates, Runs, Charging
    <2>2. ASSUME NEW r \in Retriers, RetryResult(r), run[r].row = i PROVE FALSE
      <3>1. retry'[i].status = AfterAttempt(run[r].answer, run[r].attempt)
        BY <2>2, <1>a DEF RetryResult, RetryStates
      <3> QED
        BY <1>2, <3>1 DEF AfterAttempt
    <2>3. CASE retry'[i] = retry[i]
      <3>1. PICK r \in Retriers : run[r].pc \in Charging /\ run[r].row = i
        BY <1>2, <1>b, <2>3 DEF Awaited
      <3>2. Shape(r) /\ ~Crash(r)
        BY <1>b DEF Shapes, Runs
      <3> QED
        BY <2>2, <3>1, <3>2, ChargingGoesOn, AutopayAssumption
    <2>4. ~Cancels(i)
      <3>1. Cancels(i) => retry'[i].status = "cancelled"
        BY <1>a DEF Cancels, RetryStates
      <3> QED
        BY <1>2, <3>1
    <2>5. retry'[i] # [status |-> "pending", attempts |-> 0]
      BY <1>2
    <2> QED
      BY <2>1, <2>2, <2>3, <2>4, <2>5, RetryStep DEF RetryMoves
  <1> QED
    BY <1>1, <1>2

(* Without a stopped run or a lost answer the daily task never passes over *)
(* an invoice for money that nobody can settle any more: once no run is    *)
(* under way, a pending transaction without its reference (charge's catch  *)
(* leaves it so after a failure) took nothing, and no schedule is left     *)
(* processing.                                                             *)
THEOREM PassedOverTheorem == Spec => []PassedOverOnlyByFailure
  <1>1. Init => Awaited
    BY DEF Init, Awaited
  <1>2. Awaited => PassedOverOnlyByFailure
    BY DEF Awaited, PassedOverOnlyByFailure, Charging, Runs
  <1> QED
    BY <1>1, <1>2, AwaitedStep, Settles, PTL DEF Spec

----------------------------------------------------------------------------
(* Nothing is charged beside an undecided charge *)

NotTaken(k) == tx[k].status \in {"absent", "failed"}

(* Two runs of one task are not under way at once. *)
Alone ==
    \A r, s \in Runs :
       /\ \/ r \in Collectors /\ s \in Collectors
          \/ r \in Retriers /\ s \in Retriers
       /\ run[r].pc # "idle" /\ run[s].pc # "idle"
       => r = s

(* Attempts of schedule i before its n-th failed: no answer was recorded   *)
(* for them; those after it are to be made.                                *)
Unanswered(k) == ~tx[k].ref
Earlier(i, n) == \A m \in 1 .. n - 1 : Unanswered(RetryKey(i, m))
Later(i, n) == \A m \in n + 1 .. MaxAttempts : tx[RetryKey(i, m)].status = "absent"

Preparing == {"balance", "mark", "cancel"}

(* What a retry run knows of attempt n of schedule i when no other run is  *)
(* under way: the row is as it copied it, and only its own charge is taken.*)
Work(i, n, pc, answer) ==
    /\ n = retry[i].attempts + 1
    /\ retry[i].status = IF pc \in Preparing THEN "pending" ELSE "processing"
    /\ Earlier(i, n) /\ Later(i, n)
    /\ pc \in Preparing \cup {"charge"} => tx[RetryKey(i, n)].status = "absent"
    /\ pc \in Pursued \/ (pc = "result" /\ answer = "failed")
         => Unanswered(RetryKey(i, n))

RetrierInv(r) ==
    run[r].pc # "idle" =>
       Work(run[r].row, run[r].attempt, run[r].pc, run[r].answer)

(* What the daily task's check keeps true until its charge is made.        *)
CollectorInv(r) ==
    run[r].pc \in {"charge", "call"} =>
       /\ \A i \in Schedules : retry[i].status \notin Live
       /\ \A k \in Keys : k # run[r].key => NotTaken(k)
       /\ run[r].pc = "charge" => NotTaken(run[r].key)

PendingInv ==
    \A i \in Schedules :
       retry[i].status = "pending" =>
          /\ Earlier(i, retry[i].attempts + 1)
          /\ \A m \in retry[i].attempts + 1 .. MaxAttempts :
                tx[RetryKey(i, m)].status = "absent"

Orderly ==
    /\ Alone /\ PendingInv
    /\ \A r \in Retriers : RetrierInv(r)
    /\ \A r \in Collectors : CollectorInv(r)

Undisturbed == invoice = "owed" /\ ~overlapped => Orderly

(* A schedule that was never made has no charge; a posted charge paid.     *)
Unscheduled ==
    /\ \A i \in Schedules :
          retry[i].status = "absent" =>
             \A n \in 1 .. MaxAttempts : tx[RetryKey(i, n)].status = "absent"
    /\ \A r \in Retriers :
          run[r].pc # "idle" => retry[run[r].row].status # "absent"

PostedPaid ==
    /\ \A k \in Keys : tx[k].posted => invoice = "paid"
    /\ follow => invoice = "paid"

LEMMA OwedBefore ==
  ASSUME TypeOK, [Next]_vars
  PROVE  /\ invoice' = "owed" => invoice = "owed" /\ (follow' => follow)
         /\ ~overlapped' => ~overlapped
         /\ invoice' \in {"owed", "paid"}
  <1>a. invoice \in {"owed", "paid"} /\ overlapped \in BOOLEAN
    BY DEF TypeOK
  <1>1. /\ invoice' = invoice \/ invoice' = "paid"
        /\ follow' = follow \/ follow' = FALSE \/ invoice' = "paid"
    BY DEF Next, RunStep, StartCollecting, SelectRetry, CheckInFlight,
           CheckBalance, CancelRetry, MarkProcessing, Replay, InsertCharge,
           ChargeThrows, Throws, InsertTokenless, FailureThrows, CallProvider,
           RecordAnswer, StoreKey, CollectorResult, scheduleRetry, RetryResult,
           Crash, Webhook, Post, ProviderDecides, PayOtherwise, cancelRetries,
           NextDay, money, vars
  <1>2. \/ UNCHANGED overlapped
        \/ \E r, tasks : Begin(r, tasks)
    BY DEF Next, RunStep, StartCollecting, SelectRetry, CheckInFlight,
           CheckBalance, CancelRetry, MarkProcessing, Replay, InsertCharge,
           ChargeThrows, Throws, InsertTokenless, FailureThrows, CallProvider,
           RecordAnswer, StoreKey, CollectorResult, scheduleRetry, RetryResult,
           Crash, Webhook, Post, ProviderDecides, PayOtherwise, cancelRetries,
           NextDay, log, vars
  <1>3. ~overlapped' => ~overlapped
    BY <1>2 DEF Begin
  <1> QED
    BY <1>a, <1>1, <1>3

LEMMA PostedPaidStep ==
  TypeOK /\ Shapes /\ PostedPaid /\ [Next]_vars => PostedPaid'
  <1> SUFFICES ASSUME TypeOK, Shapes, PostedPaid, [Next]_vars PROVE PostedPaid'
    OBVIOUS
  <1>a. invoice \in {"owed", "paid"} /\ invoice' \in {"owed", "paid"}
    BY OwedBefore DEF TypeOK
  <1>1. ASSUME NEW k \in Keys, tx'[k].posted, invoice' # "paid" PROVE FALSE
    <2>1. invoice = "owed" /\ ~tx[k].posted
      BY <1>1, <1>a, OwedBefore DEF PostedPaid
    <2>2. ~Post(k)
      BY <1>1 DEF Post
    <2>3. tx[k] \in TxStates
      BY TypeParts DEF RowTypes
    <2> QED
      BY <1>1, <2>1, <2>2, <2>3, TxStep DEF TxMoves, TxStates
  <1>2. follow' => invoice' = "paid"
    BY <1>a, OwedBefore DEF PostedPaid
  <1> QED
    BY <1>1, <1>2 DEF PostedPaid

(* A transaction nobody inserts or records now stays as it is, but for a   *)
(* webhook's verdict on a pending one.                                     *)
LEMMA UntakenStays ==
  ASSUME Settled, [Next]_vars, NEW k \in Keys,
         \A r \in Runs : run[r].key = k => ~InsertCharge(r) /\ ~RecordAnswer(r)
  PROVE  /\ NotTaken(k) => NotTaken(k)'
         /\ Unanswered(k) => Unanswered(k)'
         /\ (/\ tx[k].status = "absent"
             /\ \A r \in Runs : run[r].key = k => ~InsertTokenless(r))
              => tx'[k].status = "absent"
  <1>a. tx[k] \in TxStates
    BY TypeParts DEF Settled, RowTypes
  <1>1. TxMoves(k)
    BY TxStep DEF Settled
  <1> QED
    BY <1>a, <1>1 DEF TxMoves, TxStates, NotTaken, Unanswered

(* Who inserts or records a retry's charge is a retry run on its row.      *)
LEMMA RetryKeyOwner ==
  ASSUME Shapes, NEW r \in Runs, run[r].pc \in Charging, NEW i, NEW n,
         run[r].key = RetryKey(i, n)
  PROVE  r \in Retriers /\ run[r].row = i /\ run[r].attempt = n
  BY KeyNames DEF Shapes, Shape, Runs

LEMMA RetryUntakenStays ==
  ASSUME Settled, [Next]_vars, NEW i \in Schedules, NEW n \in 1 .. MaxAttempts,
         \A r \in Runs :
            run[r].key = RetryKey(i, n) => ~InsertCharge(r) /\ ~RecordAnswer(r)
  PROVE  /\ Unanswered(RetryKey(i, n)) => Unanswered(RetryKey(i, n))'
         /\ tx[RetryKey(i, n)].status = "absent"
              => tx'[RetryKey(i, n)].status = "absent"
  <1>1. ASSUME NEW r \in Runs, run[r].key = RetryKey(i, n), InsertTokenless(r)
        PROVE  FALSE
    <2>1. run[r].pc \in Charging /\ r \in Collectors
      BY <1>1 DEF InsertTokenless, Charging
    <2> QED
      BY <1>1, <2>1, RetryKeyOwner, AutopayAssumption DEF Settled
  <1>2. RetryKey(i, n) \in Keys
    BY KeyNames
  <1> QED
    BY <1>1, <1>2, UntakenStays

LEMMA RowStays ==
  ASSUME TypeOK, Shapes, [Next]_vars, NEW r \in Retriers, run'[r].pc # "idle"
  PROVE  \/ \E i \in Schedules : SelectRetry(r, i) /\ run'[r].row = i
         \/ /\ run[r].pc # "idle" /\ run'[r].row = run[r].row
            /\ run'[r].attempt = run[r].attempt
  <1>a. run \in [Runs -> RunStates] /\ r \in Runs /\ r \notin Collectors
    BY TypeParts, AutopayAssumption DEF Runs
  <1>1. ASSUME RunStep(r)
        PROVE  run[r].pc # "idle" /\ run'[r].row = run[r].row
               /\ run'[r].attempt = run[r].attempt
    <2>1. (\E made \in {"none", "processing", "captured", "declined"} :
              CallProvider(r, made))
             => run[r].pc # "idle" /\ run'[r].row = run[r].row
                /\ run'[r].attempt = run[r].attempt
      BY <1>a DEF CallProvider, RunStates
    <2>2. ~(CancelRetry(r) \/ RetryResult(r) \/ Crash(r) \/ scheduleRetry(r))
      <3>1. ~Ends(r)
        BY <1>a DEF Ends, IdleRun
      <3> QED
        BY <3>1 DEF CancelRetry, RetryResult, Crash, scheduleRetry
    <2>3. ASSUME \/ CheckInFlight(r) \/ CheckBalance(r) \/ MarkProcessing(r)
                 \/ Replay(r) \/ InsertCharge(r) \/ InsertTokenless(r)
                 \/ ChargeThrows(r) \/ FailureThrows(r) \/ RecordAnswer(r)
                 \/ StoreKey(r) \/ CollectorResult(r)
          PROVE  run[r].pc # "idle" /\ run'[r].row = run[r].row
                 /\ run'[r].attempt = run[r].attempt
      BY <1>a, <2>3 DEF CheckInFlight, CheckBalance, MarkProcessing, Replay,
                        InsertCharge, ChargeThrows, Throws, InsertTokenless,
                        FailureThrows, RecordAnswer, StoreKey, CollectorResult,
                        Goto, RunStates
    <2> QED
      BY <1>1, <2>1, <2>2, <2>3 DEF RunStep
  <1>2. ASSUME NEW i \in Schedules, SelectRetry(r, i) PROVE run'[r].row = i
    BY <1>2, <1>a DEF SelectRetry
  <1> QED
    BY <1>1, <1>2, <1>a, OwnStep

LEMMA UnscheduledStep ==
  Settled /\ Unscheduled /\ [Next]_vars => Unscheduled'
  <1> SUFFICES ASSUME Settled, Unscheduled, [Next]_vars PROVE Unscheduled'
    OBVIOUS
  <1>a. /\ run \in [Runs -> RunStates] /\ tx \in [Keys -> TxStates]
        /\ retry \in [Schedules -> RetryStates]
        /\ TypeOK /\ Shapes /\ AttemptLeft
    BY TypeParts DEF Settled, RowTypes
  <1>1. ASSUME NEW i \in Schedules, retry'[i].status = "absent"
        PROVE  retry[i].status = "absent"
    <2>1. ~Cancels(i)
      <3>1. Cancels(i) => retry'[i].status = "cancelled"
        BY <1>a DEF Cancels, RetryStates
      <3> QED
        BY <1>1, <3>1
    <2>2. retry'[i] # [retry[i] EXCEPT !.status = "processing"]
      BY <1>1, <1>a DEF RetryStates
    <2>3. ASSUME NEW r \in Retriers,
                 retry'[i] = [status |-> AfterAttempt(run[r].answer, run[r].attempt),
                              attempts |-> run[r].attempt]
          PROVE  FALSE
      BY <1>1, <2>3 DEF AfterAttempt
    <2>4. RetryMoves(i)
      BY <1>a, RetryStep
    <2> QED
      BY <1>1, <2>1, <2>2, <2>3, <2>4 DEF RetryMoves
  <1>2. ASSUME NEW i \in Schedules, retry'[i].status = "absent",
               NEW n \in 1 .. MaxAttempts
        PROVE  tx'[RetryKey(i, n)].status = "absent"
    <2>1. retry[i].status = "absent" /\ tx[RetryKey(i, n)].status = "absent"
      BY <1>1, <1>2 DEF Unscheduled
    <2>2. ASSUME NEW r \in Runs, run[r].key = RetryKey(i, n),
                 InsertCharge(r) \/ RecordAnswer(r)
          PROVE  FALSE
      <3>1. run[r].pc \in Charging
        BY <2>2 DEF InsertCharge, RecordAnswer, Charging
      <3> QED
        BY <1>a, <2>1, <2>2, <3>1, RetryKeyOwner DEF Unscheduled, Charging
    <2> QED
      BY <2>1, <2>2, RetryUntakenStays
  <1>3. ASSUME NEW r \in Retriers, run'[r].pc # "idle",
               retry'[run'[r].row].status = "absent"
        PROVE  FALSE
    <2>1. run'[r].row \in Schedules /\ retry[run'[r].row].status # "absent"
      <3>1. ASSUME NEW i \in Schedules, SelectRetry(r, i), run'[r].row = i
            PROVE  run'[r].row \in Schedules /\ retry[run'[r].row].status # "absent"
        BY <3>1 DEF SelectRetry
      <3>2. ASSUME run[r].pc # "idle", run'[r].row = run[r].row
            PROVE  run'[r].row \in Schedules /\ retry[run'[r].row].status # "absent"
        BY <3>2, <1>a DEF Unscheduled, Shapes, Shape, Runs
      <3> QED
        BY <1>3, <1>a, <3>1, <3>2, RowStays
    <2> QED
      BY <1>1, <1>3, <2>1
  <1> QED
    BY <1>2, <1>3 DEF Unscheduled

----------------------------------------------------------------------------
(* The runs' steps while no two of a task are under way *)

Calm == Settled /\ Unscheduled /\ PostedPaid /\ Orderly /\ invoice = "owed"

LEMMA StepsAwake == \A r \in Runs : RunStep(r) => run[r].pc # "idle"
  BY DEF RunStep, CheckInFlight, CheckBalance, CancelRetry, MarkProcessing,
         Replay, InsertCharge, ChargeThrows, Throws, InsertTokenless,
         FailureThrows, CallProvider, RecordAnswer, StoreKey, CollectorResult,
         scheduleRetry, RetryResult, Crash

LEMMA StartsAlone ==
  ASSUME TypeOK, [Next]_vars, ~overlapped', NEW r \in Runs,
         run[r].pc = "idle", run'[r].pc # "idle"
  PROVE  /\ \A s \in Collectors \ {r} : r \in Collectors => run'[s].pc = "idle"
         /\ \A s \in Retriers \ {r} : r \in Retriers => run'[s].pc = "idle"
  <1>a. run \in [Runs -> RunStates]
    BY TypeParts
  <1>1. ~RunStep(r)
    BY StepsAwake
  <1>2. ASSUME NEW tasks, tasks \subseteq Runs, Begin(r, tasks),
               \A s \in Runs \ {r} : run'[s] = run[s]
        PROVE  \A s \in tasks \ {r} : run'[s].pc = "idle"
    BY <1>2 DEF Begin
  <1>3. CASE r \in Collectors /\ StartCollecting(r)
    <2>1. Begin(r, Collectors) /\ \A s \in Runs \ {r} : run'[s] = run[s]
      BY <1>3, <1>a DEF StartCollecting, Goto
    <2>2. r \notin Retriers /\ Collectors \subseteq Runs
      BY <1>3, AutopayAssumption DEF Runs
    <2> QED
      BY <1>2, <2>1, <2>2
  <1>4. CASE r \in Retriers /\ \E i \in Schedules : SelectRetry(r, i)
    <2>1. Begin(r, Retriers) /\ \A s \in Runs \ {r} : run'[s] = run[s]
      BY <1>4, <1>a DEF SelectRetry
    <2>2. r \notin Collectors /\ Retriers \subseteq Runs
      BY <1>4, AutopayAssumption DEF Runs
    <2> QED
      BY <1>2, <2>1, <2>2
  <1> QED
    BY <1>1, <1>3, <1>4, OwnStep

LEMMA AloneStep ==
  ASSUME TypeOK, Alone, [Next]_vars, ~overlapped'
  PROVE  Alone'
  <1> SUFFICES ASSUME NEW r \in Runs, NEW s \in Runs,
                      \/ r \in Collectors /\ s \in Collectors
                      \/ r \in Retriers /\ s \in Retriers,
                      run'[r].pc # "idle", run'[s].pc # "idle", r # s
               PROVE  FALSE
    BY DEF Alone
  <1>1. run[r].pc # "idle" /\ run[s].pc # "idle"
    BY StartsAlone
  <1> QED
    BY <1>1 DEF Alone

(* With the invoice still owed, nothing was posted and nothing cancels the *)
(* schedules from outside.                                                 *)
LEMMA CalmFacts ==
  ASSUME Calm
  PROVE  /\ TypeOK /\ Shapes /\ AttemptLeft /\ InsertedOnce /\ Opened
         /\ run \in [Runs -> RunStates] /\ tx \in [Keys -> TxStates]
         /\ retry \in [Schedules -> RetryStates]
         /\ ~cancelRetries
         /\ \A k \in Keys : ~tx[k].posted
         /\ Collectors \cap Retriers = {}
         /\ Collectors \subseteq Runs /\ Retriers \subseteq Runs
  <1>1. ~cancelRetries /\ \A k \in Keys : ~tx[k].posted
    BY DEF Calm, PostedPaid, cancelRetries
  <1> QED
    BY <1>1, TypeParts, AutopayAssumption DEF Calm, Settled, RowTypes, Runs

(* A retry run at work, and its row. *)
LEMMA AtWork ==
  ASSUME Calm, NEW r \in Retriers, run[r].pc # "idle"
  PROVE  /\ run[r].row \in Schedules /\ run[r].attempt \in 1 .. MaxAttempts
         /\ Work(run[r].row, run[r].attempt, run[r].pc, run[r].answer)
         /\ run[r].pc \in Preparing \cup Charging
         /\ \A s \in Retriers : run[s].pc # "idle" => s = r
  <1>1. Shape(r) /\ r \notin Collectors /\ run[r] \in RunStates
    BY CalmFacts DEF Shapes
  <1>2. RetrierInv(r) /\ Alone
    BY DEF Calm, Orderly
  <1>3. \A s \in Retriers : run[s].pc # "idle" => s = r
    BY <1>2, CalmFacts DEF Alone
  <1>4. run[r].pc \in Preparing \cup Charging
    BY <1>1 DEF Shape, RunStates, Steps, Preparing, Charging
  <1> QED
    BY <1>1, <1>2, <1>3, <1>4 DEF Shape, RetrierInv

(* Attempts of a schedule change only by the run that makes them.          *)
LEMMA AttemptsStay ==
  ASSUME Calm, [Next]_vars, NEW i \in Schedules, NEW n \in 1 .. MaxAttempts,
         \A s \in Retriers :
            run[s].pc \in Charging /\ run[s].row = i => run[s].attempt = n
  PROVE  /\ Earlier(i, n) => Earlier(i, n)'
         /\ Later(i, n) => Later(i, n)'
  <1>1. ASSUME NEW m \in 1 .. MaxAttempts, m # n
        PROVE  /\ Unanswered(RetryKey(i, m)) => Unanswered(RetryKey(i, m))'
               /\ tx[RetryKey(i, m)].status = "absent"
                    => tx'[RetryKey(i, m)].status = "absent"
    <2>1. ASSUME NEW s \in Runs, run[s].key = RetryKey(i, m),
                 InsertCharge(s) \/ RecordAnswer(s)
          PROVE  FALSE
      <3>1. run[s].pc \in Charging
        BY <2>1 DEF InsertCharge, RecordAnswer, Charging
      <3> QED
        BY <1>1, <2>1, <3>1, RetryKeyOwner, CalmFacts
    <2> QED
      BY <2>1, RetryUntakenStays DEF Calm
  <1> QED
    <2>1. \A m \in 1 .. n - 1 : m \in 1 .. MaxAttempts /\ m # n
      BY AutopayAssumption
    <2>2. \A m \in n + 1 .. MaxAttempts : m \in 1 .. MaxAttempts /\ m # n
      BY AutopayAssumption
    <2> QED
      BY <1>1, <2>1, <2>2 DEF Earlier, Later

(* A row is left alone while a retry run works on it, but by that run.     *)
LEMMA RowLeftAlone ==
  ASSUME Calm, [Next]_vars, NEW r \in Retriers, run[r].pc # "idle",
         ~CancelRetry(r), ~MarkProcessing(r), ~RetryResult(r)
  PROVE  retry'[run[r].row] = retry[run[r].row]
  <1>1. /\ run[r].row \in Schedules
        /\ retry[run[r].row].status # "absent"
    BY AtWork DEF Calm, Unscheduled
  <1>2. ASSUME NEW s \in Retriers, CancelRetry(s) \/ MarkProcessing(s) \/ RetryResult(s)
        PROVE  FALSE
    BY <1>2, AtWork DEF CancelRetry, MarkProcessing, RetryResult
  <1>3. RetryMoves(run[r].row)
    BY <1>1, RetryStep, CalmFacts
  <1> QED
    BY <1>1, <1>2, <1>3, CalmFacts DEF RetryMoves

LEMMA WorkHeld ==
  ASSUME NEW r \in Retriers, NEW i, NEW n, NEW pc, NEW answer,
         run'[r].row = i, run'[r].attempt = n, run'[r].pc = pc, run'[r].answer = answer,
         n = retry'[i].attempts + 1,
         retry'[i].status = IF pc \in Preparing THEN "pending" ELSE "processing",
         Earlier(i, n)', Later(i, n)',
         pc \in Preparing \cup {"charge"} => tx'[RetryKey(i, n)].status = "absent",
         pc \in Pursued \/ (pc = "result" /\ answer = "failed")
           => Unanswered(RetryKey(i, n))'
  PROVE  RetrierInv(r)'
  BY DEF RetrierInv, Work, Earlier, Later, Unanswered

LEMMA RetrierStep ==
  ASSUME Calm, [Next]_vars, NEW r \in Retriers
  PROVE  RetrierInv(r)'
  <1>a. /\ TypeOK /\ Shapes /\ AttemptLeft /\ InsertedOnce
        /\ run \in [Runs -> RunStates] /\ tx \in [Keys -> TxStates]
        /\ retry \in [Schedules -> RetryStates]
        /\ r \in Runs /\ r \notin Collectors
    BY CalmFacts
  <1>b. CASE run'[r].pc = "idle"
    BY <1>b DEF RetrierInv
  <1>c. ASSUME NEW i \in Schedules, SelectRetry(r, i) PROVE RetrierInv(r)'
    <2>1. PICK n \in 1 .. MaxAttempts : n = retry[i].attempts + 1
      BY <1>a, <1>c, AutopayAssumption DEF SelectRetry, AttemptLeft, RetryStates
    <2>2. /\ Earlier(i, n)
          /\ \A m \in n .. MaxAttempts : tx[RetryKey(i, m)].status = "absent"
      BY <1>c, <2>1 DEF Calm, Orderly, PendingInv, SelectRetry
    <2>3. tx[RetryKey(i, n)].status = "absent" /\ Later(i, n)
      BY <2>2, AutopayAssumption DEF Later
    <2>4. /\ run'[r].row = i /\ run'[r].attempt = n /\ run'[r].pc = "balance"
          /\ run'[r].answer = "none"
      BY <1>a, <1>c, <2>1 DEF SelectRetry
    <2>5. /\ tx' = tx /\ retry' = retry /\ retry[i].status = "pending"
          /\ "balance" \in Preparing
      BY <1>c DEF SelectRetry, Preparing
    <2>6. Earlier(i, n)' /\ Later(i, n)'
      BY <2>2, <2>3, <2>5 DEF Earlier, Later, Unanswered
    <2>7. "balance" \notin Pursued
      BY DEF Pursued
    <2> QED
      BY <2>1, <2>3, <2>4, <2>5, <2>6, <2>7, WorkHeld
  <1>1. ASSUME NEW i \in Schedules, NEW n \in 1 .. MaxAttempts, NEW pc, NEW answer,
               run[r].row = i, run[r].attempt = n, run[r].pc = pc, pc # "idle",
               run[r].answer = answer
        PROVE  RetrierInv(r)'
    <2>a. /\ n = retry[i].attempts + 1
          /\ retry[i].status = IF pc \in Preparing THEN "pending" ELSE "processing"
          /\ Earlier(i, n) /\ Later(i, n)
          /\ pc \in Preparing \cup {"charge"} => tx[RetryKey(i, n)].status = "absent"
          /\ pc \in Pursued \/ (pc = "result" /\ answer = "failed")
               => Unanswered(RetryKey(i, n))
          /\ \A s \in Retriers : run[s].pc # "idle" => s = r
      BY <1>1, AtWork DEF Work
    <2>b. Earlier(i, n)' /\ Later(i, n)'
      BY <1>1, <2>a, AttemptsStay DEF Charging
    <2>c. RetryKey(i, n) \in Keys
          /\ (pc \in Charging => run[r].key = RetryKey(i, n))
      BY <1>1, <1>a, KeyNames DEF Shapes, Shape
    <2>d. tx[RetryKey(i, n)].status = "absent" => Unanswered(RetryKey(i, n))
      BY <1>a, <2>c DEF InsertedOnce, Unanswered
    <2>e. /\ Pursued = {"call", "record"} /\ "store" \notin Pursued \cup Preparing
          /\ "result" \notin Pursued \cup Preparing \cup {"charge"}
          /\ "charge" \notin Pursued \cup Preparing
          /\ \A q \in Preparing : q \notin Pursued /\ q # "result"
          /\ \A q \in Pursued : q \notin Preparing /\ q # "charge"
      BY DEF Pursued, Preparing
    <2>1. CASE run'[r] = run[r]
      <3>1. ~CancelRetry(r) /\ ~MarkProcessing(r) /\ ~RetryResult(r)
            /\ ~InsertCharge(r) /\ ~RecordAnswer(r)
        BY <1>a, <2>1 DEF CancelRetry, MarkProcessing, RetryResult, InsertCharge,
              RecordAnswer, Ends, Goto, IdleRun, RunStates
      <3>2. retry'[i] = retry[i]
        BY <1>1, <3>1, RowLeftAlone
      <3>3. /\ Unanswered(RetryKey(i, n)) => Unanswered(RetryKey(i, n))'
            /\ tx[RetryKey(i, n)].status = "absent"
                 => tx'[RetryKey(i, n)].status = "absent"
        <4>1. ASSUME NEW s \in Runs, run[s].key = RetryKey(i, n),
                     InsertCharge(s) \/ RecordAnswer(s)
              PROVE  FALSE
          <5>1. run[s].pc \in Charging
            BY <4>1 DEF InsertCharge, RecordAnswer, Charging
          <5>2. s \in Retriers
            BY <1>a, <4>1, <5>1, RetryKeyOwner
          <5> QED
            BY <2>a, <3>1, <4>1, <5>1, <5>2 DEF Charging
        <4> QED
          BY <4>1, RetryUntakenStays DEF Calm
      <3> QED
        BY <1>1, <2>1, <2>a, <2>b, <3>2, <3>3, WorkHeld
    <2>2. CASE CheckBalance(r) /\ run'[r].pc # "idle"
      <3>1. /\ run'[r].row = i /\ run'[r].attempt = n /\ run'[r].answer = answer
            /\ run'[r].pc \in {"mark", "cancel"} /\ pc = "balance"
            /\ retry' = retry /\ tx' = tx
        BY <1>1, <1>a, <2>2 DEF CheckBalance, Goto, RunStates
      <3>2. run'[r].pc \in Preparing /\ pc \in Preparing
        BY <3>1 DEF Preparing
      <3> QED
        BY <2>a, <2>b, <2>e, <3>1, <3>2, WorkHeld
    <2>3. CASE MarkProcessing(r)
      <3>1. /\ run'[r].row = i /\ run'[r].attempt = n /\ run'[r].answer = answer
            /\ run'[r].pc = "charge" /\ pc = "mark" /\ tx' = tx
        BY <1>1, <1>a, <2>3 DEF MarkProcessing, RunStates
      <3>2. retry'[i].status = "processing" /\ retry'[i].attempts = retry[i].attempts
        BY <1>1, <1>a, <2>3 DEF MarkProcessing, RetryStates
      <3>3. tx[RetryKey(i, n)].status = "absent"
        BY <2>a, <3>1 DEF Preparing
      <3> QED
        BY <2>a, <2>b, <2>e, <3>1, <3>2, <3>3, WorkHeld
    <2>4. CASE Replay(r)
      <3>1. pc = "charge" /\ stored[RetryKey(i, n)] # "none"
        BY <1>1, <2>4, <2>c DEF Replay, Charging
      <3> QED
        BY <1>a, <2>a, <2>c, <3>1 DEF InsertedOnce
    <2>5. CASE InsertCharge(r)
      <3>1. /\ run'[r].row = i /\ run'[r].attempt = n /\ run'[r].answer = answer
            /\ run'[r].pc = "call" /\ pc = "charge" /\ retry' = retry
        BY <1>1, <1>a, <2>5 DEF InsertCharge, Goto, RunStates
      <3>2. Unanswered(RetryKey(i, n))'
        <4>1. Unanswered(RetryKey(i, n))
          BY <2>a, <2>d, <3>1
        <4>2. tx'[RetryKey(i, n)].ref = tx[RetryKey(i, n)].ref
          BY <1>a, <2>5, <2>c DEF InsertCharge, TxStates
        <4> QED
          BY <4>1, <4>2 DEF Unanswered
      <3> QED
        BY <2>a, <2>b, <2>e, <3>1, <3>2, WorkHeld
    <2>6. CASE ChargeThrows(r) \/ FailureThrows(r)
      <3>1. /\ run'[r].row = i /\ run'[r].attempt = n /\ run'[r].answer = "failed"
            /\ run'[r].pc = "result" /\ pc \in {"charge", "record"}
            /\ retry' = retry /\ tx' = tx
        BY <1>1, <1>a, <2>6 DEF ChargeThrows, FailureThrows, Throws, RunStates
      <3>2. Unanswered(RetryKey(i, n))'
        <4>1. Unanswered(RetryKey(i, n))
          BY <2>a, <2>d, <2>e, <3>1
        <4> QED
          BY <3>1, <4>1 DEF Unanswered
      <3> QED
        BY <2>a, <2>b, <2>e, <3>1, <3>2, WorkHeld
    <2>7. ASSUME NEW made \in {"none", "processing", "captured", "declined"},
                 CallProvider(r, made)
          PROVE  RetrierInv(r)'
      <3>1. /\ run'[r].row = i /\ run'[r].attempt = n
            /\ run'[r].pc = "record" /\ pc = "call" /\ retry' = retry
        BY <1>1, <1>a, <2>7 DEF CallProvider, RunStates
      <3>2. Unanswered(RetryKey(i, n))'
        <4>1. Unanswered(RetryKey(i, n)) /\ tx' = tx
          BY <2>a, <2>e, <2>7, <3>1 DEF CallProvider
        <4> QED
          BY <4>1 DEF Unanswered
      <3> QED
        BY <2>a, <2>b, <2>e, <3>1, <3>2, WorkHeld
    <2>8. CASE RecordAnswer(r)
      <3>1. /\ run'[r].row = i /\ run'[r].attempt = n /\ run'[r].answer = answer
            /\ run'[r].pc = "store" /\ pc = "record" /\ retry' = retry
        BY <1>1, <1>a, <2>8 DEF RecordAnswer, Goto, RunStates
      <3> QED
        BY <2>a, <2>b, <2>e, <3>1, WorkHeld
    <2>9. CASE StoreKey(r)
      <3>1. /\ run'[r].row = i /\ run'[r].attempt = n /\ run'[r].answer = answer
            /\ run'[r].pc = "result" /\ pc = "store" /\ retry' = retry /\ tx' = tx
        BY <1>1, <1>a, <2>9 DEF StoreKey, Goto, RunStates
      <3>2. answer # "failed"
        BY <1>1, <1>a, <3>1 DEF Shapes, Shape
      <3> QED
        BY <2>a, <2>b, <2>e, <3>1, <3>2, WorkHeld
    <2>10. CASE CancelRetry(r) \/ RetryResult(r) \/ Crash(r)
      <3>1. run'[r].pc = "idle"
        BY <1>a, <2>10 DEF CancelRetry, RetryResult, Crash, Ends, IdleRun
      <3> QED
        BY <3>1 DEF RetrierInv
    <2>11. /\ ~CheckInFlight(r) /\ ~CollectorResult(r) /\ ~scheduleRetry(r)
           /\ ~InsertTokenless(r)
      BY <1>a DEF CheckInFlight, InsertTokenless, CollectorResult, scheduleRetry,
                  Shapes, Shape
    <2>12. \A j \in Schedules : ~SelectRetry(r, j)
      BY <1>1 DEF SelectRetry
    <2>13. CASE RunStep(r)
      BY <1>b, <2>2, <2>3, <2>4, <2>5, <2>6, <2>7, <2>8, <2>9, <2>10, <2>11, <2>13
         DEF RunStep
    <2> QED
      BY <1>a, <2>1, <2>12, <2>13, OwnStep
  <1>2. CASE run[r].pc # "idle"
    BY <1>1, <1>2, AtWork
  <1> QED
    BY <1>a, <1>b, <1>c, <1>2, OwnStep, StepsAwake

(* With a live schedule or another run's charge about, the daily task is   *)
(* not past its check.                                                     *)
LEMMA CollectorStep ==
  ASSUME Calm, [Next]_vars, NEW r \in Collectors
  PROVE  CollectorInv(r)'
  <1>a. /\ TypeOK /\ Shapes /\ AttemptLeft /\ InsertedOnce
        /\ run \in [Runs -> RunStates] /\ tx \in [Keys -> TxStates]
        /\ retry \in [Schedules -> RetryStates]
        /\ r \in Runs /\ r \notin Retriers /\ ~cancelRetries
        /\ Shape(r)
    BY CalmFacts DEF Shapes
  <1> SUFFICES ASSUME run'[r].pc \in {"charge", "call"}
               PROVE  /\ \A i \in Schedules : retry'[i].status \notin Live
                      /\ \A k \in Keys : k # run'[r].key => NotTaken(k)'
                      /\ run'[r].pc = "charge" =>
                            tx'[run'[r].key].status \in {"absent", "failed"}
    BY DEF CollectorInv, NotTaken
  <1>2. CASE run'[r] = run[r]
    <2>1. /\ \A i \in Schedules : retry[i].status \notin Live
          /\ \A k \in Keys : k # run[r].key => NotTaken(k)
          /\ run[r].pc = "charge" => NotTaken(run[r].key)
      BY <1>2 DEF Calm, Orderly, CollectorInv
    <2>2. ASSUME NEW s \in Retriers, run[s].pc # "idle", run[s].pc # "result"
          PROVE  FALSE
      BY <2>1, <2>2, AtWork DEF Work, Live
    <2>3. ASSUME NEW s \in Retriers, run[s].pc = "result" PROVE FALSE
      BY <2>1, <2>3, AtWork DEF Work, Live, Preparing
    <2>4. ASSUME NEW s \in Collectors, run[s].pc # "idle" PROVE s = r
      BY <1>2, <1>a, <2>4, CalmFacts DEF Calm, Orderly, Alone
    <2>5. ASSUME NEW i \in Schedules PROVE retry'[i].status \notin Live
      <3>1. \A s \in Retriers : ~CancelRetry(s) /\ ~MarkProcessing(s) /\ ~RetryResult(s)
        BY <2>2, <2>3 DEF CancelRetry, MarkProcessing, RetryResult
      <3>2. \A s \in Collectors : ~scheduleRetry(s)
        BY <1>2, <2>4 DEF scheduleRetry
      <3>3. retry'[i] = retry[i]
        BY <1>a, <3>1, <3>2, RetryStep DEF RetryMoves
      <3> QED
        BY <2>1, <3>3
    <2>6. ASSUME NEW s \in Runs, InsertCharge(s) \/ RecordAnswer(s) PROVE FALSE
      <3>1. s \notin Retriers
        BY <2>2, <2>6 DEF InsertCharge, RecordAnswer
      <3>2. s = r
        BY <2>4, <2>6, <3>1 DEF Runs, InsertCharge, RecordAnswer
      <3> QED
        BY <1>2, <1>a, <2>6, <3>2 DEF InsertCharge, RecordAnswer, Goto, RunStates
    <2>7. ASSUME NEW k \in Keys, NotTaken(k) PROVE NotTaken(k)'
      BY <2>6, <2>7, UntakenStays DEF Calm
    <2>8. run[r].key \in Keys
      BY <1>2, <1>a, HeldKey DEF Charging
    <2>9. PICK k \in Keys : k = run[r].key
      BY <2>8
    <2> QED
      BY <1>2, <2>1, <2>5, <2>7, <2>9 DEF NotTaken
  <1>3. CASE CheckInFlight(r)
    <2>1. /\ ~hasChargeInFlight /\ UNCHANGED <<tx, retry>>
          /\ run'[r].key \in Keys
      BY <1>3, <1>a, KeyNames DEF CheckInFlight, Ends, IdleRun, TypeOK
    <2>2. \A k \in Keys : NotTaken(k)
      BY <2>1, <1>a, CalmFacts DEF hasChargeInFlight, NotTaken, TxStates
    <2> QED
      BY <2>1, <2>2 DEF hasChargeInFlight, NotTaken
  <1>4. CASE InsertCharge(r)
    <2>1. /\ run[r].pc = "charge" /\ run'[r].pc = "call" /\ run'[r].key = run[r].key
          /\ UNCHANGED retry
          /\ \A k \in Keys : k # run[r].key => tx'[k] = tx[k]
      BY <1>4, <1>a DEF InsertCharge, Goto, RunStates
    <2>2. /\ \A i \in Schedules : retry[i].status \notin Live
          /\ \A k \in Keys : k # run[r].key => NotTaken(k)
      BY <2>1 DEF Calm, Orderly, CollectorInv
    <2> QED
      BY <2>1, <2>2 DEF NotTaken
  <1>5. ~RunStep(r) \/ CheckInFlight(r) \/ InsertCharge(r)
    <2>1. ~(CheckBalance(r) \/ CancelRetry(r) \/ MarkProcessing(r) \/ RetryResult(r))
      BY <1>a DEF CheckBalance, CancelRetry, MarkProcessing, RetryResult, Shape
    <2>2. ~Replay(r) /\ ~ChargeThrows(r) /\ ~RecordAnswer(r) /\ ~StoreKey(r)
          /\ ~InsertTokenless(r) /\ ~FailureThrows(r)
          /\ ~CollectorResult(r) /\ ~scheduleRetry(r) /\ ~Crash(r)
      BY <1>a DEF Replay, ChargeThrows, Throws, InsertTokenless, FailureThrows,
                  RecordAnswer, StoreKey, CollectorResult, scheduleRetry, Crash,
                  Goto, Ends, IdleRun, RunStates
    <2>3. \A made \in {"none", "processing", "captured", "declined"} :
             ~CallProvider(r, made)
      BY <1>a DEF CallProvider, RunStates
    <2> QED
      BY <2>1, <2>2, <2>3 DEF RunStep
  <1>6. ~StartCollecting(r)
    BY <1>a DEF StartCollecting, Goto, RunStates
  <1> QED
    BY <1>2, <1>3, <1>4, <1>5, <1>6, <1>a, OwnStep

(* A schedule that waits has only failed attempts behind it.               *)
LEMMA PendingStep ==
  ASSUME Calm, [Next]_vars
  PROVE  PendingInv'
  <1>a. /\ TypeOK /\ Shapes /\ AttemptLeft /\ InsertedOnce
        /\ run \in [Runs -> RunStates] /\ tx \in [Keys -> TxStates]
        /\ retry \in [Schedules -> RetryStates] /\ ~cancelRetries
        /\ Retriers \subseteq Runs
    BY CalmFacts
  <1> SUFFICES ASSUME NEW i \in Schedules, retry'[i].status = "pending"
               PROVE  /\ \A m \in 1 .. retry'[i].attempts :
                            ~tx'[RetryKey(i, m)].ref
                      /\ \A m \in retry'[i].attempts + 1 .. MaxAttempts :
                            tx'[RetryKey(i, m)].status = "absent"
    <2>1. \A n \in Nat : (n + 1) - 1 = n
      OBVIOUS
    <2>2. retry' \in [Schedules -> RetryStates]
      BY <1>a, RowsStep, TypeParts DEF RowTypes
    <2> QED
      BY <2>1, <2>2 DEF PendingInv, Earlier, Unanswered, RetryStates
  <1>1. CASE retry'[i] = retry[i]
    <2>1. PICK n \in 1 .. MaxAttempts : n = retry[i].attempts + 1
      BY <1>1, <1>a, AutopayAssumption DEF AttemptLeft, RetryStates
    <2>2. /\ Earlier(i, n) /\ Later(i, n) /\ tx[RetryKey(i, n)].status = "absent"
          /\ retry'[i].attempts + 1 = n
      BY <1>1, <2>1, AutopayAssumption DEF Calm, Orderly, PendingInv, Later
    <2>3. ASSUME NEW s \in Retriers, run[s].pc \in Charging, run[s].row = i
          PROVE  FALSE
      BY <1>1, <2>3, AtWork DEF Work, Charging, Preparing
    <2>4. Earlier(i, n)' /\ Later(i, n)'
      BY <2>2, <2>3, AttemptsStay
    <2>5. tx'[RetryKey(i, n)].status = "absent"
      <3>1. ASSUME NEW s \in Runs, run[s].key = RetryKey(i, n),
                   InsertCharge(s) \/ RecordAnswer(s)
            PROVE  FALSE
        <4>1. run[s].pc \in Charging
          BY <3>1 DEF InsertCharge, RecordAnswer, Charging
        <4> QED
          BY <1>a, <2>3, <3>1, <4>1, RetryKeyOwner
      <3> QED
        BY <2>2, <3>1, RetryUntakenStays DEF Calm
    <2>6. \A m \in n .. MaxAttempts : m = n \/ m \in n + 1 .. MaxAttempts
      BY AutopayAssumption
    <2>7. retry'[i].attempts = n - 1
      BY <1>1, <1>a, <2>1 DEF RetryStates
    <2> QED
      BY <2>2, <2>4, <2>5, <2>6, <2>7 DEF Earlier, Later, Unanswered
  <1>2. ASSUME NEW s \in Collectors, scheduleRetry(s), retry[i].status = "absent",
               retry'[i] = [status |-> "pending", attempts |-> 0]
        PROVE  /\ \A m \in 1 .. retry'[i].attempts :
                     ~tx'[RetryKey(i, m)].ref
               /\ \A m \in retry'[i].attempts + 1 .. MaxAttempts :
                     tx'[RetryKey(i, m)].status = "absent"
    <2>1. tx' = tx /\ retry'[i].attempts = 0
      BY <1>2 DEF scheduleRetry
    <2> QED
      BY <1>2, <2>1 DEF Calm, Unscheduled, Earlier, Unanswered
  <1>3. ASSUME NEW s \in Retriers, RetryResult(s), run[s].row = i,
               retry'[i] = [status |-> AfterAttempt(run[s].answer, run[s].attempt),
                            attempts |-> run[s].attempt]
        PROVE  /\ \A m \in 1 .. retry'[i].attempts :
                     ~tx'[RetryKey(i, m)].ref
               /\ \A m \in retry'[i].attempts + 1 .. MaxAttempts :
                     tx'[RetryKey(i, m)].status = "absent"
    <2>1. PICK n \in 1 .. MaxAttempts : n = run[s].attempt
      BY <1>3, AtWork DEF RetryResult
    <2>2. run[s].answer = "failed"
      BY <1>3, <1>a DEF AfterAttempt, Shapes, Shape, RetryResult, Answered,
                        RunStates, Answers
    <2>3. /\ Earlier(i, n) /\ Later(i, n) /\ Unanswered(RetryKey(i, n))
          /\ tx' = tx /\ retry'[i].attempts = n
      BY <1>3, <2>1, <2>2, AtWork DEF RetryResult, Work
    <2>4. \A m \in 1 .. n : m \in 1 .. n - 1 \/ m = n
      OBVIOUS
    <2> QED
      BY <2>3, <2>4 DEF Earlier, Later, Unanswered
  <1>4. ~Cancels(i)
    <2>1. Cancels(i) => retry'[i].status = "cancelled"
      BY <1>a DEF Cancels, RetryStates
    <2> QED
      BY <2>1
  <1>5. retry'[i] # [retry[i] EXCEPT !.status = "processing"]
    BY <1>a DEF RetryStates
  <1>6. RetryMoves(i)
    BY <1>a, RetryStep
  <1> QED
    BY <1>1, <1>2, <1>3, <1>4, <1>5, <1>6 DEF RetryMoves

LEMMA UndisturbedStep ==
  /\ Settled /\ Unscheduled /\ PostedPaid /\ Undisturbed /\ [Next]_vars
  => Undisturbed'
  <1> SUFFICES ASSUME Settled, Unscheduled, PostedPaid, Undisturbed, [Next]_vars,
                      invoice' = "owed", ~overlapped'
               PROVE  Orderly'
    BY DEF Undisturbed
  <1>1. invoice = "owed" /\ ~overlapped
    BY OwedBefore DEF Settled
  <1>2. Calm
    BY <1>1 DEF Calm, Undisturbed
  <1>3. Alone'
    BY <1>2, AloneStep DEF Calm, Settled, Orderly
  <1> QED
    BY <1>2, <1>3, PendingStep, RetrierStep, CollectorStep DEF Orderly

LEMMA Calmed ==
  Spec => [](Settled /\ Unscheduled /\ PostedPaid /\ Undisturbed)
  <1>1. Init => Unscheduled /\ PostedPaid /\ Undisturbed
    <2> SUFFICES ASSUME Init PROVE Unscheduled /\ PostedPaid /\ Undisturbed
      OBVIOUS
    <2>1. \A r \in Runs : run[r].pc = "idle"
      BY DEF Init, IdleRun
    <2>2. Unscheduled /\ PostedPaid
      BY <2>1, KeyNames DEF Init, Unscheduled, PostedPaid, Runs
    <2>3. Orderly
      BY <2>1 DEF Init, Orderly, Alone, PendingInv, RetrierInv, CollectorInv, Runs
    <2> QED
      BY <2>2, <2>3 DEF Undisturbed
  <1>2. /\ Settled /\ (Unscheduled /\ PostedPaid /\ Undisturbed) /\ [Next]_vars
        => (Unscheduled /\ PostedPaid /\ Undisturbed)'
    BY UnscheduledStep, PostedPaidStep, UndisturbedStep DEF Settled
  <1> QED
    BY <1>1, <1>2, Settles, PTL DEF Spec

(* Where a charge comes from: the call of the run that inserted its key.   *)
LEMMA ChargedByCall ==
  ASSUME TypeOK, Shapes, [Next]_vars, NEW k \in Keys,
         charge[k] = "none", charge'[k] # "none"
  PROVE  \E r \in Runs : run[r].pc = "call" /\ run[r].key = k
  BY CallStep DEF CallMoves

(* While the invoice is owed and no two runs of one task overlapped, the   *)
(* daily task charges nothing beside a charge that was taken or is         *)
(* undecided (hasChargeInFlight), and a retry charges beside an earlier    *)
(* attempt of its schedule only if charge took that attempt for a failure  *)
(* and left its row pending without a reference.                           *)
THEOREM UndecidedTheorem == Spec => UndecidedNotRecharged
  <1>1. Settled /\ Unscheduled /\ PostedPaid /\ Undisturbed /\ [Next]_vars
        => [invoice = "owed" /\ ~overlapped =>
              \A k \in Keys : charge[k] = "none" /\ charge'[k] # "none" =>
                 \A j \in Rivals(k) : Taken(j) => k[1] = "retry" /\ ~tx[j].ref]_vars
    <2> SUFFICES ASSUME Settled, Unscheduled, PostedPaid, Undisturbed, [Next]_vars,
                        invoice = "owed", ~overlapped,
                        NEW k \in Keys, charge[k] = "none", charge'[k] # "none",
                        NEW j \in Rivals(k), Taken(j)
                 PROVE  k[1] = "retry" /\ ~tx[j].ref
      OBVIOUS
    <2>1. Calm
      BY DEF Calm, Undisturbed
    <2>2. PICK r \in Runs : run[r].pc = "call" /\ run[r].key = k
      BY ChargedByCall DEF Settled
    <2>3. CASE r \in Retriers
      <3>1. PICK i \in Schedules, n \in 1 .. MaxAttempts :
               run[r].row = i /\ run[r].attempt = n /\ Earlier(i, n)
        BY <2>1, <2>2, <2>3, AtWork DEF Work
      <3>2. k = RetryKey(i, n)
        BY <2>2, <2>3, <3>1, <2>1, CalmFacts DEF Shapes, Shape, Charging
      <3>3. PICK m \in 1 .. n - 1 : j = RetryKey(i, m)
        BY <3>2 DEF Rivals, RetryKey
      <3> QED
        BY <3>1, <3>2, <3>3 DEF Earlier, Unanswered, RetryKey
    <2>4. CASE r \in Collectors
      <3>1. \A q \in Keys : q # run[r].key => NotTaken(q)
        BY <2>1, <2>2, <2>4 DEF Calm, Orderly, CollectorInv
      <3>2. PICK d \in 1 .. MaxDays : k = RecurringKey(d)
        BY <2>2, <2>4, <2>1, CalmFacts DEF Shapes, Shape, Charging
      <3>3. j \in Keys /\ NotTaken(j)
        BY <2>2, <3>1, <3>2 DEF Rivals, RecurringKey
      <3>4. tx[j].status # "absent" /\ tx[j].status # "failed"
        BY <3>3 DEF Settled, InsertedOnce, Opened, Taken
      <3> QED
        BY <3>3, <3>4 DEF NotTaken
    <2> QED
      BY <2>3, <2>4 DEF Runs
  <1> QED
    BY <1>1, Calmed, PTL DEF Spec, UndecidedNotRecharged

=============================================================================
