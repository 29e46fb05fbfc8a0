---------------------------- MODULE MonitorProofs ----------------------------
(***************************************************************************)
(* Proofs about Monitor for any instances and domains, any applications    *)
(* and ranges, with and without a cosimulation, and any number of commands.*)
(***************************************************************************)
EXTENDS Monitor, TLAPS

-----------------------------------------------------------------------------
(***************************************************************************)
(* The inductive invariant.                                                *)
(***************************************************************************)

Codes  == {"0x20", "0x42", "0x52", "0x54", "0x58", "0x62", "0x72", "0x78"}
Tokens == {"show", "benchmark", "watch", "unwatch"} \cup Apps \cup Nat
Writes == {Byte(v) : v \in Codes} \cup {Data(v) : v \in Tokens}

\* The writes that need a string to add to, that leave one, that run a command.
NeedsString(b)  == b.register = "data" \/ IsByte(b, "0x72")
GivesString(b)  == b.register = "data" \/ IsByte(b, "0x62")
ChangesStats(b) == \E code \in {"0x52", "0x54", "0x78"} : IsByte(b, code)

\* What is left of a program: strings are opened before they are added to, and
\* the byte that runs a command comes last.
Ordered(p, open) ==
  /\ \A k \in 1 .. Len(p) : NeedsString(p[k]) => IF k = 1 THEN open ELSE GivesString(p[k - 1])
  /\ \A k \in 1 .. Len(p) : ChangesStats(p[k]) => k = Len(p)
ProgramInv == program \in Seq(Writes) /\ Ordered(program, strBuf # <<>>)

\* The commands that have run.
Executed == IF program = <<>> THEN commands ELSE commands - 1

MonitorTyped ==
  /\ mState = "RUN"
  /\ commands \in Nat /\ commands <= MaxCommands /\ Executed \in Nat
  /\ nbCommandCounter \in Nat /\ nbCommandCounter <= Executed
  /\ MainMemPtr \in BOOLEAN /\ mInBenchmark \in BOOLEAN
  /\ delayedCaptureRunning \in BOOLEAN /\ restarted \in BOOLEAN
  /\ total \in [Ips -> Nat] /\ begun \in [Ips -> Nat]
  /\ \A ip \in OtherDomain : blocking[ip] = {}

SegmentsTyped ==
  /\ mSegmentedStats \in [Ips -> Seq(Int)]
  /\ \A ip \in OtherDomain : mSegmentedStats[ip] = <<>>
  /\ \A ip \in Ips : Len(mSegmentedStats[ip]) + (IF ip \in Delayed THEN Len(captures) ELSE 0)
                       <= Executed + 1

Captures == Seq([start : BOOLEAN, counter : Nat])

\* Which notifications are on their way to the cosimulation's thread.
CaptureInv ==
  /\ captures \in Captures /\ Len(captures) <= Executed
  /\ ~MainMemPtr => captures = <<>> /\ ~delayedCaptureRunning
  /\ MainMemPtr => ~restarted
  /\ MainMemPtr /\ ~delayedCaptureRunning => captures = <<>> /\ ~mInBenchmark
  /\ delayedCaptureRunning /\ mInBenchmark =>
       captures = <<>> \/ (Len(captures) = 1 /\ captures[1].start)
  /\ delayedCaptureRunning /\ ~mInBenchmark =>
       /\ Len(captures) \in 1 .. 2 /\ (Len(captures) = 2 => captures[1].start)
       /\ ~captures[Len(captures)].start /\ captures[Len(captures)].counter = nbCommandCounter

\* Whether the segment of the benchmark has begun at an instance.
Begun(ip) == IF ip \in Delayed
             THEN delayedCaptureRunning /\ (captures = <<>> \/ ~captures[1].start)
             ELSE mInBenchmark

SegmentInv ==
  \A ip \in Domain \ Silent :
    IF Begun(ip)
    THEN ~restarted => mSegmentedStats[ip] # <<>> /\ Last(mSegmentedStats[ip]) = begun[ip]
    ELSE mSegmentedStats[ip] = <<>>

\* The file whose late part is still to come.
LateFile == <<appName, nbCommandCounter - 1>>
Awaited  == delayedCaptureRunning /\ ~mInBenchmark
IpsOf(log) == {s.ip : s \in log}

LogInv ==
  /\ Awaited => LateFile \in DOMAIN logs
  /\ \A file \in DOMAIN logs :
       /\ ~restarted => \A s \in logs[file] : s.value = s.expected
       /\ \A s, t \in logs[file] : s.ip = t.ip => s = t
       /\ IpsOf(logs[file]) = IF ~MainMemPtr \/ (Awaited /\ file = LateFile)
                              THEN Domain \ (Delayed \cup Silent) ELSE Domain \ Silent

StatInv == SegmentsTyped /\ CaptureInv /\ SegmentInv /\ LogInv
MonitorInv == ProgramInv /\ MonitorTyped /\ StatInv

-----------------------------------------------------------------------------
(***************************************************************************)
(* Segments.                                                               *)
(***************************************************************************)

\* Pushing adds the difference to the last segment, or to 0 if there is none.
LEMMA PushFacts ==
  ASSUME NEW seg \in Seq(Int), NEW count \in Int
  PROVE  /\ pushStats(seg, count) \in Seq(Int) /\ pushStats(seg, count) # <<>>
         /\ Len(pushStats(seg, count)) = IF seg = <<>> THEN 2 ELSE Len(seg) + 1
         /\ Last(pushStats(seg, count)) = count - (IF seg = <<>> THEN 0 ELSE Last(seg))
<1>1. CASE seg = <<>>
  <2>1. Last(<<0>>) = 0
    BY DEF Last
  <2>2. pushStats(seg, count) = Append(<<0>>, count - Last(<<0>>))
    BY <1>1 DEF pushStats
  <2>3. pushStats(seg, count) = Append(<<0>>, count)
    BY <2>1, <2>2
  <2>4. <<0>> \in Seq(Int) /\ Len(<<0>>) = 1
    OBVIOUS
  <2>5. /\ pushStats(seg, count) \in Seq(Int) /\ Len(pushStats(seg, count)) = 2
        /\ pushStats(seg, count)[2] = count
    BY <2>3, <2>4
  <2>. QED  BY <1>1, <2>5 DEF Last
<1>2. CASE seg # <<>>
  <2>1. pushStats(seg, count) = Append(seg, count - Last(seg)) /\ Last(seg) \in Int
    BY <1>2 DEF pushStats, Last
  <2>. QED  BY <1>2, <2>1 DEF Last
<1>. QED  BY <1>1, <1>2

\* What a push to the instances of S changes.
LEMMA PushAllFacts ==
  ASSUME MonitorTyped, SegmentsTyped, NEW S, NEW ip \in Ips
  PROVE  /\ ip \notin S => PushAll(S)[ip] = mSegmentedStats[ip]
         /\ PushAll(S)[ip] \in Seq(Int)
         /\ ip \in S =>
              /\ PushAll(S)[ip] # <<>>
              /\ Len(PushAll(S)[ip]) = IF mSegmentedStats[ip] = <<>> THEN 2
                                       ELSE Len(mSegmentedStats[ip]) + 1
              /\ Last(PushAll(S)[ip]) =
                   total[ip] - (IF mSegmentedStats[ip] = <<>> THEN 0 ELSE Last(mSegmentedStats[ip]))
<1>1. mSegmentedStats[ip] \in Seq(Int) /\ total[ip] \in Int
  BY DEF MonitorTyped, SegmentsTyped
<1>2. PushAll(S)[ip] = IF ip \in S THEN pushStats(mSegmentedStats[ip], total[ip]) ELSE mSegmentedStats[ip]
  BY DEF PushAll
<1>. QED  BY <1>1, <1>2, PushFacts

\* A report clears the segments of the instances that have statistics.
LEMMA ClearFacts ==
  ASSUME MonitorTyped, SegmentsTyped, NEW S, NEW ip \in Ips
  PROVE  /\ ip \notin S => PushAndClear(S)[ip] = mSegmentedStats[ip]
         /\ PushAndClear(S)[ip] \in Seq(Int)
         /\ ip \in S \ Silent => PushAndClear(S)[ip] = <<>>
         /\ ip \in S => Len(PushAndClear(S)[ip]) <= IF mSegmentedStats[ip] = <<>> THEN 2
                                                    ELSE Len(mSegmentedStats[ip]) + 1
<1>1. PushAndClear(S)[ip] = IF ip \in S \ Silent THEN <<>> ELSE PushAll(S)[ip]
  BY DEF PushAndClear
<1>2. mSegmentedStats[ip] \in Seq(Int)
  BY DEF SegmentsTyped
<1>. QED  BY <1>1, <1>2, PushAllFacts

\* A report has one entry for each instance with statistics, and it is the
\* count of the segment if that began with the last one.
LEMMA ReportFacts ==
  ASSUME MonitorTyped, SegmentsTyped, NEW S \in SUBSET Ips
  PROVE  /\ IpsOf(Reported(S)) = S \ Silent
         /\ \A s, t \in Reported(S) : s.ip = t.ip => s = t
         /\ (\A ip \in S \ Silent : mSegmentedStats[ip] # <<>> /\ Last(mSegmentedStats[ip]) = begun[ip])
              => \A s \in Reported(S) : s.value = s.expected
<1>1. IpsOf(Reported(S)) = S \ Silent
  <2>1. ASSUME NEW s \in Reported(S)  PROVE s.ip \in S \ Silent
    BY <2>1 DEF Reported
  <2>2. ASSUME NEW ip \in S \ Silent  PROVE \E s \in Reported(S) : s.ip = ip
    <3>1. [ip |-> ip, value |-> Last(PushAll(S)[ip]), expected |-> total[ip] - begun[ip]] \in Reported(S)
      BY <2>2 DEF Reported
    <3>. QED  BY <3>1
  <2>. QED  BY <2>1, <2>2 DEF IpsOf
<1>2. ASSUME NEW s \in Reported(S), NEW t \in Reported(S), s.ip = t.ip  PROVE s = t
  BY <1>2 DEF Reported
<1>3. ASSUME \A ip \in S \ Silent : mSegmentedStats[ip] # <<>> /\ Last(mSegmentedStats[ip]) = begun[ip],
             NEW s \in Reported(S)
      PROVE  s.value = s.expected
  <2>1. PICK ip \in S \ Silent : s = [ip |-> ip, value |-> Last(PushAll(S)[ip]), expected |-> total[ip] - begun[ip]]
    BY <1>3 DEF Reported
  <2>2. Last(PushAll(S)[ip]) = total[ip] - begun[ip]
    BY <1>3, PushAllFacts
  <2>. QED  BY <2>1, <2>2
<1>. QED  BY <1>1, <1>2, <1>3

-----------------------------------------------------------------------------
(***************************************************************************)
(* Statistics, captures and reports.                                       *)
(***************************************************************************)

\* Steps that touch no statistics.
LEMMA StatKept ==
  ASSUME StatInv, UNCHANGED <<MainMemPtr, statVars>>, Executed \in Nat, Executed' \in Nat,
         Executed' >= Executed
  PROVE  StatInv'
<1>1. SegmentsTyped'
  <2>. SUFFICES ASSUME NEW ip \in Ips
       PROVE Len(mSegmentedStats[ip]) + (IF ip \in Delayed THEN Len(captures) ELSE 0) <= Executed' + 1
    BY DEF StatInv, SegmentsTyped, statVars
  <2>1. Len(mSegmentedStats[ip]) \in Nat /\ Len(captures) \in Nat
    BY DEF StatInv, SegmentsTyped, CaptureInv, Captures
  <2>. QED  BY <2>1 DEF StatInv, SegmentsTyped
<1>2. CaptureInv'
  <2>1. Len(captures) \in Nat
    BY DEF StatInv, CaptureInv, Captures
  <2>. QED  BY <2>1 DEF StatInv, CaptureInv, statVars
<1>3. SegmentInv'
  BY DEF StatInv, SegmentInv, Begun, statVars
<1>4. LogInv'
  BY DEF StatInv, LogInv, Awaited, LateFile, statVars
<1>. QED  BY <1>1, <1>2, <1>3, <1>4 DEF StatInv

\* The command benchmark, when it is not refused.
LEMMA BenchmarkStarts ==
  ASSUME StatInv, MonitorTyped, NEW args, benchmark(args), Len(args) = 2, ~delayedCaptureRunning,
         UNCHANGED <<MainMemPtr, total>>, Executed' = Executed + 1
  PROVE  /\ StatInv'
         /\ begun' \in [Ips -> Nat] /\ nbCommandCounter' = nbCommandCounter
         /\ {mInBenchmark', delayedCaptureRunning', restarted'} \subseteq BOOLEAN
<1>. DEFINE now == Domain \ Delayed
            note == [start |-> TRUE, counter |-> nbCommandCounter + 1]
<1>1. /\ captures' = IF MainMemPtr THEN Append(captures, note) ELSE captures
      /\ delayedCaptureRunning' = MainMemPtr
      /\ mSegmentedStats' = PushAll(now)
      /\ begun' = [ip \in Ips |-> IF ip \in now THEN total[ip] ELSE begun[ip]]
      /\ restarted' = (restarted \/ mInBenchmark)
      /\ mInBenchmark' = TRUE /\ UNCHANGED <<nbCommandCounter, logs>>
  BY DEF benchmark
<1>2. SegmentsTyped /\ CaptureInv /\ SegmentInv /\ LogInv /\ Executed \in Nat
  BY DEF StatInv, MonitorTyped
<1>3. captures = <<>>
  BY <1>2 DEF CaptureInv, MonitorTyped
<1>4. MainMemPtr => ~mInBenchmark /\ ~restarted
  BY <1>2 DEF CaptureInv
<1>5. note \in [start : BOOLEAN, counter : Nat] /\ note.start = TRUE
  BY DEF MonitorTyped
<1>6. /\ captures' \in Captures /\ Len(captures') <= 1
      /\ MainMemPtr => Len(captures') = 1 /\ captures'[1].start /\ captures' # <<>>
      /\ ~MainMemPtr => captures' = <<>>
  <2>1. CASE MainMemPtr
    <3>1. captures' = Append(<<>>, note)
      BY <1>1, <1>3, <2>1
    <3>2. Len(captures') = 1 /\ captures'[1] = note /\ captures' \in Captures
      BY <1>5, <3>1 DEF Captures
    <3>3. captures'[1].start
      BY <1>5, <3>2
    <3>4. captures' # <<>>
      BY <3>2
    <3>. QED  BY <2>1, <3>2, <3>3, <3>4
  <2>2. CASE ~MainMemPtr
    BY <1>1, <1>3, <2>2 DEF Captures
  <2>. QED  BY <2>1, <2>2
<1>7. CaptureInv'
  BY <1>1, <1>2, <1>4, <1>6 DEF CaptureInv, MonitorTyped
<1>8. SegmentsTyped'
  <2>1. mSegmentedStats' \in [Ips -> Seq(Int)]
    <3>1. \A ip \in Ips : PushAll(now)[ip] \in Seq(Int)
      BY <1>2, PushAllFacts
    <3>2. PushAll(now) = [ip \in Ips |-> PushAll(now)[ip]]
      BY DEF PushAll
    <3>. QED  BY <1>1, <3>1, <3>2
  <2>2. ASSUME NEW ip \in OtherDomain  PROVE mSegmentedStats'[ip] = <<>>
    BY <1>1, <1>2, <2>2, PushAllFacts, MonitorAssumption DEF SegmentsTyped, Domain
  <2>3. ASSUME NEW ip \in Ips
        PROVE  Len(mSegmentedStats'[ip]) + (IF ip \in Delayed THEN Len(captures') ELSE 0)
                 <= Executed' + 1
    <3>1. Len(mSegmentedStats[ip]) \in Nat /\ Len(mSegmentedStats[ip]) <= Executed + 1
      BY <1>2, <1>3 DEF SegmentsTyped
    <3>2. CASE ip \in Delayed
      <4>1. mSegmentedStats'[ip] = mSegmentedStats[ip]
        BY <1>1, <1>2, <3>2, PushAllFacts
      <4>2. Len(captures') \in Nat
        BY <1>6 DEF Captures
      <4>. QED  BY <1>2, <1>6, <3>1, <3>2, <4>1, <4>2
    <3>3. CASE ip \notin Delayed
      <4>1. Len(mSegmentedStats'[ip]) \in {Len(mSegmentedStats[ip]), 2, Len(mSegmentedStats[ip]) + 1}
        BY <1>1, <1>2, PushAllFacts
      <4>2. Len(mSegmentedStats'[ip]) \in Nat /\ Len(mSegmentedStats'[ip]) <= Executed + 2
        <5>1. Executed \in Nat
          BY <1>2
        <5>2. CASE Len(mSegmentedStats'[ip]) = 2
          BY <5>1, <5>2
        <5>3. CASE Len(mSegmentedStats'[ip]) = Len(mSegmentedStats[ip])
          BY <5>1, <5>3, <3>1
        <5>4. CASE Len(mSegmentedStats'[ip]) = Len(mSegmentedStats[ip]) + 1
          BY <5>1, <5>4, <3>1
        <5>. QED  BY <4>1, <5>2, <5>3, <5>4
      <4>. QED  BY <1>2, <3>3, <4>2
    <3>. QED  BY <3>2, <3>3
  <2>. QED  BY <2>1, <2>2, <2>3 DEF SegmentsTyped
<1>9. SegmentInv'
  <2>. SUFFICES ASSUME NEW ip \in Domain \ Silent
       PROVE IF Begun(ip)'
             THEN ~restarted' => mSegmentedStats'[ip] # <<>> /\ Last(mSegmentedStats'[ip]) = begun'[ip]
             ELSE mSegmentedStats'[ip] = <<>>
    BY DEF SegmentInv
  <2>0. ip \in Ips
    BY DEF Domain
  <2>1. CASE ip \in Delayed
    <3>1. ~Begun(ip) /\ ~Begun(ip)'
      BY <1>1, <1>6, <2>1 DEF Begun
    <3>2. mSegmentedStats'[ip] = mSegmentedStats[ip]
      BY <1>1, <1>2, <2>0, <2>1, PushAllFacts
    <3>. QED  BY <1>2, <3>1, <3>2 DEF SegmentInv
  <2>2. CASE ip \notin Delayed
    <3>1. Begun(ip)' /\ (Begun(ip) <=> mInBenchmark)
      BY <1>1, <2>2 DEF Begun
    <3>2. begun'[ip] = total[ip] /\ total[ip] \in Nat
      BY <1>1, <2>0, <2>2 DEF MonitorTyped
    <3>3. ASSUME ~restarted'  PROVE mSegmentedStats[ip] = <<>>
      BY <1>1, <1>2, <3>1, <3>3 DEF SegmentInv
    <3>4. ASSUME ~restarted'
          PROVE  mSegmentedStats'[ip] # <<>> /\ Last(mSegmentedStats'[ip]) = total[ip] - 0
      BY <1>1, <1>2, <2>0, <2>2, <3>3, <3>4, PushAllFacts
    <3>. QED  BY <3>1, <3>2, <3>4
  <2>. QED  BY <2>1, <2>2
<1>10. LogInv'
  BY <1>1, <1>2, <1>4 DEF LogInv, Awaited
<1>11. begun' \in [Ips -> Nat]
  BY <1>1 DEF MonitorTyped
<1>. QED  BY <1>1, <1>7, <1>8, <1>9, <1>10, <1>11 DEF StatInv, MonitorTyped

\* The end of a benchmark reports what is not captured later.
LEMMA EndBenchmarkKeeps ==
  ASSUME StatInv, MonitorTyped, EndBenchmark, mInBenchmark,
         UNCHANGED <<MainMemPtr, total>>, Executed' = Executed + 1
  PROVE  /\ StatInv'
         /\ begun' = begun /\ nbCommandCounter' = nbCommandCounter + 1
         /\ mInBenchmark' = FALSE /\ UNCHANGED <<delayedCaptureRunning, restarted>>
<1>. DEFINE now == Domain \ Delayed
            file == <<appName, nbCommandCounter>>
            note == [start |-> FALSE, counter |-> nbCommandCounter + 1]
<1>1. /\ mInBenchmark' = FALSE
      /\ captures' = IF MainMemPtr THEN Append(captures, note) ELSE captures
      /\ mSegmentedStats' = PushAndClear(now)
      /\ logs' = LogTo(file, Reported(now))
      /\ nbCommandCounter' = nbCommandCounter + 1
      /\ UNCHANGED <<delayedCaptureRunning, appName, begun, restarted>>
  BY DEF EndBenchmark
<1>2. SegmentsTyped /\ CaptureInv /\ SegmentInv /\ LogInv /\ Executed \in Nat
  BY DEF StatInv, MonitorTyped
<1>3. /\ captures \in Captures /\ Len(captures) \in Nat /\ Len(captures) <= 1
      /\ Len(captures) = 1 => captures[1].start
      /\ ~MainMemPtr => captures = <<>> /\ ~delayedCaptureRunning
      /\ MainMemPtr => delayedCaptureRunning /\ ~restarted
  <2>1. captures \in Captures /\ Len(captures) \in Nat
    BY <1>2 DEF CaptureInv, Captures
  <2>2. /\ ~MainMemPtr => captures = <<>> /\ ~delayedCaptureRunning
        /\ MainMemPtr => delayedCaptureRunning /\ ~restarted
    BY <1>2 DEF CaptureInv, MonitorTyped
  <2>3. captures = <<>> \/ (Len(captures) = 1 /\ captures[1].start)
    BY <1>2, <2>2 DEF CaptureInv
  <2>4. captures = <<>> => Len(captures) = 0
    OBVIOUS
  <2>5. Len(captures) = 0 \/ (Len(captures) = 1 /\ captures[1].start)
    BY <2>3, <2>4
  <2>6. Len(captures) <= 1
    <3>1. Len(captures) = 0 \/ Len(captures) = 1
      BY <2>5
    <3>2. CASE Len(captures) = 0
      BY <3>2
    <3>3. CASE Len(captures) = 1
      BY <3>3
    <3>. QED  BY <3>1, <3>2, <3>3
  <2>7. Len(captures) = 1 => captures[1].start
    <3>1. Len(captures) = 0 => Len(captures) # 1
      OBVIOUS
    <3>. QED  BY <2>5, <3>1
  <2>. QED  BY <2>1, <2>2, <2>6, <2>7
<1>4. Len(captures) \in Nat /\ (Len(captures) = 0 \/ Len(captures) = 1)
  <2>1. Len(captures) \in Nat /\ Len(captures) <= 1
    BY <1>3
  <2>. QED  BY <2>1
<1>5. note \in [start : BOOLEAN, counter : Nat] /\ note.start = FALSE
      /\ note.counter = nbCommandCounter + 1
  BY DEF MonitorTyped
<1>6. /\ captures' \in Captures
      /\ MainMemPtr => /\ Len(captures') = Len(captures) + 1
                       /\ captures'[Len(captures')] = note
                       /\ Len(captures) = 1 => captures'[1] = captures[1]
      /\ ~MainMemPtr => captures' = <<>>
  <2>1. CASE MainMemPtr
    <3>. HIDE DEF note
    <3>1. captures' = Append(captures, note)
      BY <1>1, <2>1
    <3>. QED  BY <1>3, <1>5, <2>1, <3>1 DEF Captures
  <2>2. CASE ~MainMemPtr
    BY <1>1, <1>3, <2>2 DEF Captures
  <2>. QED  BY <2>1, <2>2
<1>7. Len(captures') \in Nat /\ Len(captures') <= Len(captures) + 1
  BY <1>3, <1>6 DEF Captures
<1>8. CaptureInv'
  <2>1. Len(captures') <= Executed'
    BY <1>2, <1>3, <1>7 DEF CaptureInv
  <2>2. CASE MainMemPtr
    <3>1. /\ Len(captures') \in 1 .. 2 /\ (Len(captures') = 2 => captures'[1].start)
          /\ ~captures'[Len(captures')].start /\ captures'[Len(captures')].counter = nbCommandCounter'
      <4>1. captures'[Len(captures')] = note /\ Len(captures') = Len(captures) + 1
        BY <1>6, <2>2
      <4>2. ~captures'[Len(captures')].start /\ captures'[Len(captures')].counter = nbCommandCounter'
        BY <1>1, <1>5, <4>1
      <4>3. CASE Len(captures) = 0
        BY <4>1, <4>2, <4>3
      <4>4. CASE Len(captures) = 1
        BY <1>3, <1>6, <2>2, <4>1, <4>2, <4>4
      <4>. QED  BY <1>4, <4>3, <4>4
    <3>. QED  BY <1>1, <1>3, <1>6, <2>1, <2>2, <3>1 DEF CaptureInv
  <2>3. CASE ~MainMemPtr
    BY <1>1, <1>3, <1>6, <2>1, <2>3 DEF CaptureInv
  <2>. QED  BY <2>2, <2>3
<1>9. SegmentsTyped'
  <2>1. mSegmentedStats' \in [Ips -> Seq(Int)]
    <3>1. \A ip \in Ips : PushAndClear(now)[ip] \in Seq(Int)
      BY <1>2, ClearFacts
    <3>2. PushAndClear(now) = [ip \in Ips |-> PushAndClear(now)[ip]]
      BY DEF PushAndClear
    <3>. QED  BY <1>1, <3>1, <3>2
  <2>2. ASSUME NEW ip \in OtherDomain  PROVE mSegmentedStats'[ip] = <<>>
    BY <1>1, <1>2, <2>2, ClearFacts, MonitorAssumption DEF SegmentsTyped, Domain
  <2>3. ASSUME NEW ip \in Ips
        PROVE  Len(mSegmentedStats'[ip]) + (IF ip \in Delayed THEN Len(captures') ELSE 0)
                 <= Executed' + 1
    <3>0. /\ Len(mSegmentedStats[ip]) \in Nat /\ Len(mSegmentedStats'[ip]) \in Nat
          /\ mSegmentedStats[ip] = <<>> <=> Len(mSegmentedStats[ip]) = 0
      BY <1>2, <2>1 DEF SegmentsTyped
    <3>1. Len(mSegmentedStats[ip]) + (IF ip \in Delayed THEN Len(captures) ELSE 0) <= Executed + 1
      BY <1>2 DEF SegmentsTyped
    <3>2. CASE ip \in Delayed
      <4>1. mSegmentedStats'[ip] = mSegmentedStats[ip]
        BY <1>1, <1>2, <3>2, ClearFacts
      <4>. QED  BY <1>2, <1>3, <1>7, <3>0, <3>1, <3>2, <4>1
    <3>3. CASE ip \notin Delayed
      <4>1. Len(mSegmentedStats'[ip]) <= IF Len(mSegmentedStats[ip]) = 0 THEN 2 ELSE Len(mSegmentedStats[ip]) + 1
        BY <1>1, <1>2, <3>0, ClearFacts
      <4>. QED  BY <1>2, <3>0, <3>1, <3>3, <4>1
    <3>. QED  BY <3>2, <3>3
  <2>. QED  BY <2>1, <2>2, <2>3 DEF SegmentsTyped
<1>10. SegmentInv'
  <2>. SUFFICES ASSUME NEW ip \in Domain \ Silent
       PROVE IF Begun(ip)'
             THEN ~restarted' => mSegmentedStats'[ip] # <<>> /\ Last(mSegmentedStats'[ip]) = begun'[ip]
             ELSE mSegmentedStats'[ip] = <<>>
    BY DEF SegmentInv
  <2>0. ip \in Ips
    BY DEF Domain
  <2>1. CASE ip \in Delayed
    <3>1. Begun(ip)' <=> Begun(ip)
      <4>1. CASE MainMemPtr
        <5>1. CASE captures = <<>>
          <6>2. Len(captures) = 0
            BY <5>1
          <6>3. captures'[Len(captures')] = note /\ Len(captures') = Len(captures) + 1
            BY <1>6, <4>1
          <6>4. Len(captures') = 1
            BY <6>2, <6>3
          <6>5. captures' # <<>>
            BY <6>4
          <6>6. captures'[1] = note
            BY <6>3, <6>4
          <6>1. captures' # <<>> /\ ~captures'[1].start
            BY <1>5, <6>5, <6>6
          <6>. QED  BY <1>1, <2>1, <5>1, <6>1 DEF Begun
        <5>2. CASE captures # <<>>
          <6>1. Len(captures) # 0
            BY <1>3, <5>2 DEF Captures
          <6>3. Len(captures) = 1
            BY <1>4, <6>1
          <6>2. captures' # <<>> /\ captures'[1] = captures[1]
            BY <1>6, <4>1, <6>3
          <6>. QED  BY <1>1, <2>1, <5>2, <6>2 DEF Begun
        <5>. QED  BY <5>1, <5>2
      <4>2. CASE ~MainMemPtr
        BY <1>1, <1>3, <2>1, <4>2 DEF Begun
      <4>. QED  BY <4>1, <4>2
    <3>2. mSegmentedStats'[ip] = mSegmentedStats[ip]
      BY <1>1, <1>2, <2>0, <2>1, ClearFacts
    <3>. QED  BY <1>1, <1>2, <3>1, <3>2 DEF SegmentInv
  <2>2. CASE ip \notin Delayed
    <3>1. ~Begun(ip)'
      BY <1>1, <2>2 DEF Begun
    <3>2. mSegmentedStats'[ip] = <<>>
      BY <1>1, <1>2, <2>0, <2>2, ClearFacts
    <3>. QED  BY <3>1, <3>2
  <2>. QED  BY <2>1, <2>2
<1>11. LogInv'
  <2>1. /\ IpsOf(Reported(now)) = now \ Silent
        /\ \A s, t \in Reported(now) : s.ip = t.ip => s = t
        /\ ~restarted => \A s \in Reported(now) : s.value = s.expected
    <3>1. ASSUME ~restarted, NEW ip \in now \ Silent
          PROVE  mSegmentedStats[ip] # <<>> /\ Last(mSegmentedStats[ip]) = begun[ip]
      BY <1>2, <3>1 DEF SegmentInv, Begun
    <3>2. now \in SUBSET Ips
      BY DEF Domain
    <3>. HIDE DEF now
    <3>. QED  BY <1>2, <3>1, <3>2, ReportFacts
  <2>2. LateFile' = file
    BY <1>1 DEF LateFile, MonitorTyped
  <2>3. now \ Silent = Domain \ (Delayed \cup Silent)
    OBVIOUS
  <2>. HIDE DEF now, file
  <2>4. DOMAIN logs' = {file} \cup DOMAIN logs /\ logs'[file] = Reported(now)
        /\ \A g \in DOMAIN logs : g # file => logs'[g] = logs[g]
    BY <1>1 DEF LogTo
  <2>5. ~Awaited
    BY DEF Awaited
  <2>6. Awaited' <=> MainMemPtr
    BY <1>1, <1>3 DEF Awaited
  <2>7. ASSUME NEW g \in DOMAIN logs'
        PROVE  /\ ~restarted' => \A s \in logs'[g] : s.value = s.expected
               /\ \A s, t \in logs'[g] : s.ip = t.ip => s = t
               /\ IpsOf(logs'[g]) = IF ~MainMemPtr' \/ (Awaited' /\ g = LateFile')
                                    THEN Domain \ (Delayed \cup Silent) ELSE Domain \ Silent
    <3>1. CASE g = file
      BY <1>1, <2>1, <2>2, <2>3, <2>4, <2>6, <3>1
    <3>2. CASE g # file
      <4>1. g \in DOMAIN logs /\ logs'[g] = logs[g]
        BY <2>4, <2>7, <3>2
      <4>. QED  BY <1>1, <1>2, <2>2, <2>5, <3>2, <4>1 DEF LogInv
    <3>. QED  BY <3>1, <3>2
  <2>. QED  BY <2>2, <2>4, <2>7 DEF LogInv, IpsOf
<1>. QED  BY <1>1, <1>8, <1>9, <1>10, <1>11 DEF StatInv

\* The rest of two notifications.
LEMMA TailOfTwo ==
  ASSUME NEW S, NEW s \in Seq(S), Len(s) = 2
  PROVE  Len(Tail(s)) = 1 /\ Tail(s)[1] = s[2]
<1>1. s # <<>>
  OBVIOUS
<1>2. Len(Tail(s)) = 1
  <2>1. Len(Tail(s)) = Len(s) - 1
    BY <1>1
  <2>2. 2 - 1 = 1
    OBVIOUS
  <2>. QED  BY <2>1, <2>2
<1>3. 1 \in 1 .. Len(Tail(s))
  <2>1. 1 \in 1 .. 1
    OBVIOUS
  <2>. QED  BY <1>2, <2>1
<1>4. Tail(s)[1] = s[1 + 1]
  BY <1>1, <1>3
<1>. QED  BY <1>2, <1>4

\* The cosimulation's thread comes to the beginning of a benchmark.
LEMMA StartCaptureKeeps ==
  ASSUME StatInv, MonitorTyped, StartCapture, Executed' = Executed
  PROVE  StatInv' /\ begun' \in [Ips -> Nat]
<1>. DEFINE late == Domain \cap Delayed
<1>1. /\ captures # <<>> /\ Head(captures).start /\ captures' = Tail(captures)
      /\ mSegmentedStats' = PushAll(late)
      /\ begun' = [ip \in Ips |-> IF ip \in late THEN total[ip] ELSE begun[ip]]
      /\ UNCHANGED <<MainMemPtr, total, mInBenchmark, delayedCaptureRunning, nbCommandCounter, appName,
                     logs, restarted>>
  BY DEF StartCapture
<1>2. SegmentsTyped /\ CaptureInv /\ SegmentInv /\ LogInv /\ Executed \in Nat
  BY DEF StatInv, MonitorTyped
<1>3. captures \in Captures /\ captures' \in Captures /\ captures[1].start /\ Len(captures) \in Nat
      /\ Len(captures) # 0 /\ Len(captures') \in Nat /\ Len(captures') + 1 = Len(captures)
  BY <1>1, <1>2 DEF CaptureInv, Captures
<1>4. MainMemPtr /\ delayedCaptureRunning /\ ~restarted
  BY <1>1, <1>2 DEF CaptureInv, MonitorTyped
<1>5. Len(captures) <= Executed
  BY <1>2 DEF CaptureInv
<1>6. /\ mInBenchmark => captures' = <<>>
      /\ ~mInBenchmark => /\ captures' # <<>> /\ Len(captures') = 1 /\ ~captures'[1].start
                          /\ captures'[1].counter = nbCommandCounter
  <2>1. CASE mInBenchmark
    <3>1. Len(captures) = 1
      BY <1>1, <1>2, <1>4, <2>1 DEF CaptureInv
    <3>2. captures' = <<>>
      BY <1>1, <1>3, <3>1 DEF Captures
    <3>. QED  BY <2>1, <3>2
  <2>2. CASE ~mInBenchmark
    <3>1. Len(captures) \in 1 .. 2 /\ ~captures[Len(captures)].start
          /\ captures[Len(captures)].counter = nbCommandCounter
      BY <1>2, <1>4, <2>2 DEF CaptureInv
    <3>2. Len(captures) # 1
      <4>1. SUFFICES ASSUME Len(captures) = 1  PROVE FALSE
        OBVIOUS
      <4>2. ~captures[1].start
        BY <3>1, <4>1
      <4>. QED  BY <1>3, <4>2
    <3>3. Len(captures) = 2
      <4>1. Len(captures) \in 1 .. 2
        BY <3>1
      <4>. QED  BY <3>2, <4>1
    <3>4. captures'[1] = captures[2] /\ Len(captures') = 1 /\ captures' # <<>>
      <4>1. captures \in Seq([start : BOOLEAN, counter : Nat]) /\ captures' = Tail(captures)
            /\ Len(captures) = 2
        BY <1>1, <1>3, <3>3 DEF Captures
      <4>3. Len(captures') = 1 /\ captures'[1] = captures[2]
        BY <4>1, TailOfTwo
      <4>. QED  BY <4>3
    <3>5. ~captures'[1].start /\ captures'[1].counter = nbCommandCounter
      BY <3>1, <3>3, <3>4
    <3>. QED  BY <2>2, <3>4, <3>5
  <2>. QED  BY <2>1, <2>2
<1>7. CaptureInv'
  <2>1. Len(captures') <= Executed'
    BY <1>2, <1>3, <1>5
  <2>2. CASE mInBenchmark
    BY <1>1, <1>3, <1>4, <1>6, <2>1, <2>2 DEF CaptureInv
  <2>3. CASE ~mInBenchmark
    <3>1. Len(captures') = 1 /\ ~captures'[1].start /\ captures'[1].counter = nbCommandCounter
      BY <1>6, <2>3
    <3>2. Len(captures') \in 1 .. 2 /\ Len(captures') # 2
      BY <3>1
    <3>. QED  BY <1>1, <1>3, <1>4, <2>1, <2>3, <3>1, <3>2 DEF CaptureInv
  <2>. QED  BY <2>2, <2>3
<1>8. SegmentsTyped'
  <2>1. mSegmentedStats' \in [Ips -> Seq(Int)]
    <3>1. \A ip \in Ips : PushAll(late)[ip] \in Seq(Int)
      BY <1>2, PushAllFacts
    <3>2. PushAll(late) = [ip \in Ips |-> PushAll(late)[ip]]
      BY DEF PushAll
    <3>. QED  BY <1>1, <3>1, <3>2
  <2>2. ASSUME NEW ip \in OtherDomain  PROVE mSegmentedStats'[ip] = <<>>
    BY <1>1, <1>2, <2>2, PushAllFacts, MonitorAssumption DEF SegmentsTyped, Domain
  <2>3. ASSUME NEW ip \in Ips
        PROVE  Len(mSegmentedStats'[ip]) + (IF ip \in Delayed THEN Len(captures') ELSE 0)
                 <= Executed' + 1
    <3>0. /\ Len(mSegmentedStats[ip]) \in Nat /\ Len(mSegmentedStats'[ip]) \in Nat
          /\ mSegmentedStats[ip] = <<>> <=> Len(mSegmentedStats[ip]) = 0
      BY <1>2, <2>1 DEF SegmentsTyped
    <3>1. Len(mSegmentedStats[ip]) + (IF ip \in Delayed THEN Len(captures) ELSE 0) <= Executed + 1
      BY <1>2 DEF SegmentsTyped
    <3>2. CASE ip \in Delayed
      <4>1. Len(mSegmentedStats'[ip]) <= IF Len(mSegmentedStats[ip]) = 0 THEN 2 ELSE Len(mSegmentedStats[ip]) + 1
        <5>1. CASE ip \in late
          BY <1>1, <1>2, <3>0, <5>1, PushAllFacts
        <5>2. CASE ip \notin late
          BY <1>1, <1>2, <3>0, <5>2, PushAllFacts
        <5>. QED  BY <5>1, <5>2
      <4>2. Len(mSegmentedStats[ip]) + Len(captures) <= Executed + 1
        BY <3>1, <3>2
      <4>3. Len(mSegmentedStats'[ip]) + Len(captures') <= Executed + 1
        BY <1>2, <1>3, <1>5, <3>0, <4>1, <4>2
      <4>. QED  BY <3>2, <4>3
    <3>3. CASE ip \notin Delayed
      <4>1. mSegmentedStats'[ip] = mSegmentedStats[ip]
        BY <1>1, <1>2, <3>3, PushAllFacts
      <4>. QED  BY <3>1, <3>3, <4>1
    <3>. QED  BY <3>2, <3>3
  <2>. QED  BY <2>1, <2>2, <2>3 DEF SegmentsTyped
<1>9. SegmentInv'
  <2>. SUFFICES ASSUME NEW ip \in Domain \ Silent
       PROVE IF Begun(ip)'
             THEN ~restarted' => mSegmentedStats'[ip] # <<>> /\ Last(mSegmentedStats'[ip]) = begun'[ip]
             ELSE mSegmentedStats'[ip] = <<>>
    BY DEF SegmentInv
  <2>0. ip \in Ips
    BY DEF Domain
  <2>1. CASE ip \in Delayed
    <3>1. ~Begun(ip) /\ Begun(ip)'
      BY <1>1, <1>3, <1>4, <1>6, <2>1 DEF Begun
    <3>2. mSegmentedStats[ip] = <<>>
      BY <1>2, <3>1 DEF SegmentInv
    <3>3. begun'[ip] = total[ip] /\ total[ip] \in Nat
      BY <1>1, <2>0, <2>1 DEF MonitorTyped
    <3>4. mSegmentedStats'[ip] # <<>> /\ Last(mSegmentedStats'[ip]) = total[ip] - 0
      BY <1>1, <1>2, <2>0, <2>1, <3>2, PushAllFacts
    <3>. QED  BY <3>1, <3>3, <3>4
  <2>2. CASE ip \notin Delayed
    <3>1. Begun(ip)' <=> Begun(ip)
      BY <1>1, <2>2 DEF Begun
    <3>2. mSegmentedStats'[ip] = mSegmentedStats[ip] /\ begun'[ip] = begun[ip]
      BY <1>1, <1>2, <2>0, <2>2, PushAllFacts
    <3>. QED  BY <1>1, <1>2, <3>1, <3>2 DEF SegmentInv
  <2>. QED  BY <2>1, <2>2
<1>10. LogInv'
  BY <1>1, <1>2 DEF LogInv, Awaited, LateFile
<1>11. begun' \in [Ips -> Nat]
  BY <1>1 DEF MonitorTyped
<1>. QED  BY <1>7, <1>8, <1>9, <1>10, <1>11 DEF StatInv

\* The cosimulation's thread comes to the end of a benchmark: the late part
\* goes to the file of that benchmark.
LEMMA EndCaptureKeeps ==
  ASSUME StatInv, MonitorTyped, EndCapture, Executed' = Executed
  PROVE  StatInv'
<1>. DEFINE late   == Domain \cap Delayed
            before == IF LateFile \in DOMAIN logs THEN logs[LateFile] ELSE {}
<1>1. /\ captures # <<>> /\ ~Head(captures).start /\ captures' = Tail(captures)
      /\ mSegmentedStats' = PushAndClear(late)
      /\ delayedCaptureRunning' = FALSE
      /\ UNCHANGED <<MainMemPtr, total, mInBenchmark, nbCommandCounter, appName, begun, restarted>>
  BY DEF EndCapture
<1>2. SegmentsTyped /\ CaptureInv /\ SegmentInv /\ LogInv /\ Executed \in Nat
  BY DEF StatInv, MonitorTyped
<1>3. captures \in Captures /\ ~captures[1].start /\ Len(captures) \in Nat
      /\ Len(captures) # 0
  BY <1>1, <1>2 DEF CaptureInv, Captures
<1>4. MainMemPtr /\ delayedCaptureRunning /\ ~restarted /\ ~mInBenchmark
  BY <1>1, <1>2, <1>3 DEF CaptureInv, MonitorTyped
<1>5. Len(captures) = 1 /\ captures[1].counter = nbCommandCounter
  <2>1. Len(captures) \in 1 .. 2 /\ captures[Len(captures)].counter = nbCommandCounter
    BY <1>2, <1>4 DEF CaptureInv
  <2>2. Len(captures) # 2
    BY <1>2, <1>3, <1>4 DEF CaptureInv
  <2>3. Len(captures) = 1
    <3>1. Len(captures) \in 1 .. 2
      BY <2>1
    <3>. QED  BY <2>2, <3>1
  <2>. QED  BY <2>1, <2>3
<1>6. captures' = <<>> /\ Len(captures') = 0 /\ captures' \in Captures
  BY <1>1, <1>3, <1>5 DEF Captures
<1>7. CaptureInv'
  BY <1>1, <1>2, <1>4, <1>6 DEF CaptureInv
<1>8. SegmentsTyped'
  <2>1. mSegmentedStats' \in [Ips -> Seq(Int)]
    <3>1. \A ip \in Ips : PushAndClear(late)[ip] \in Seq(Int)
      BY <1>2, ClearFacts
    <3>2. PushAndClear(late) = [ip \in Ips |-> PushAndClear(late)[ip]]
      BY DEF PushAndClear
    <3>. QED  BY <1>1, <3>1, <3>2
  <2>2. ASSUME NEW ip \in OtherDomain  PROVE mSegmentedStats'[ip] = <<>>
    BY <1>1, <1>2, <2>2, ClearFacts, MonitorAssumption DEF SegmentsTyped, Domain
  <2>3. ASSUME NEW ip \in Ips
        PROVE  Len(mSegmentedStats'[ip]) + (IF ip \in Delayed THEN Len(captures') ELSE 0)
                 <= Executed' + 1
    <3>0. /\ Len(mSegmentedStats[ip]) \in Nat /\ Len(mSegmentedStats'[ip]) \in Nat
          /\ mSegmentedStats[ip] = <<>> <=> Len(mSegmentedStats[ip]) = 0
      BY <1>2, <2>1 DEF SegmentsTyped
    <3>1. Len(mSegmentedStats[ip]) + (IF ip \in Delayed THEN Len(captures) ELSE 0) <= Executed + 1
      BY <1>2 DEF SegmentsTyped
    <3>2. CASE ip \in Delayed
      <4>1. Len(mSegmentedStats'[ip]) <= IF Len(mSegmentedStats[ip]) = 0 THEN 2 ELSE Len(mSegmentedStats[ip]) + 1
        <5>1. CASE ip \in late
          BY <1>1, <1>2, <3>0, <5>1, ClearFacts
        <5>2. CASE ip \notin late
          BY <1>1, <1>2, <3>0, <5>2, ClearFacts
        <5>. QED  BY <5>1, <5>2
      <4>2. Len(mSegmentedStats[ip]) + 1 <= Executed + 1 /\ 1 <= Executed
        BY <1>2, <1>5, <3>1, <3>2 DEF CaptureInv
      <4>3. Len(mSegmentedStats'[ip]) + 0 <= Executed + 1
        BY <1>2, <3>0, <4>1, <4>2
      <4>. QED  BY <1>6, <3>2, <4>3
    <3>3. CASE ip \notin Delayed
      <4>1. mSegmentedStats'[ip] = mSegmentedStats[ip]
        BY <1>1, <1>2, <3>3, ClearFacts
      <4>. QED  BY <3>1, <3>3, <4>1
    <3>. QED  BY <3>2, <3>3
  <2>. QED  BY <2>1, <2>2, <2>3 DEF SegmentsTyped
<1>9. SegmentInv'
  <2>. SUFFICES ASSUME NEW ip \in Domain \ Silent
       PROVE ~Begun(ip)' /\ mSegmentedStats'[ip] = <<>>
    BY DEF SegmentInv
  <2>0. ip \in Ips
    BY DEF Domain
  <2>1. CASE ip \in Delayed
    BY <1>1, <1>2, <2>0, <2>1, ClearFacts DEF Begun
  <2>2. CASE ip \notin Delayed
    BY <1>1, <1>2, <1>4, <2>0, <2>2, ClearFacts DEF Begun, SegmentInv
  <2>. QED  BY <2>1, <2>2
<1>10. LogInv'
  <2>1. /\ IpsOf(Reported(late)) = late \ Silent
        /\ \A s, t \in Reported(late) : s.ip = t.ip => s = t
        /\ \A s \in Reported(late) : s.value = s.expected
    <3>1. ASSUME NEW ip \in late \ Silent
          PROVE  mSegmentedStats[ip] # <<>> /\ Last(mSegmentedStats[ip]) = begun[ip]
      BY <1>2, <1>3, <1>4, <3>1 DEF SegmentInv, Begun
    <3>2. late \in SUBSET Ips
      BY DEF Domain
    <3>. HIDE DEF late
    <3>. QED  BY <1>2, <3>1, <3>2, ReportFacts
  <2>2. LateFile \in DOMAIN logs /\ LateFile' = LateFile /\ Awaited /\ ~Awaited'
    BY <1>1, <1>2, <1>4 DEF LogInv, Awaited, LateFile
  <2>3. /\ IpsOf(logs[LateFile]) = Domain \ (Delayed \cup Silent)
        /\ \A s, t \in logs[LateFile] : s.ip = t.ip => s = t
        /\ \A s \in logs[LateFile] : s.value = s.expected
    BY <1>2, <1>4, <2>2 DEF LogInv
  <2>4. logs' = LogTo(LateFile, logs[LateFile] \cup Reported(late))
    <3>1. Head(captures).counter = nbCommandCounter
      BY <1>1, <1>3, <1>5 DEF Captures
    <3>. QED  BY <2>2, <3>1 DEF EndCapture, LateFile
  <2>5. DOMAIN logs' = DOMAIN logs /\ logs'[LateFile] = logs[LateFile] \cup Reported(late)
        /\ \A g \in DOMAIN logs : g # LateFile => logs'[g] = logs[g]
    BY <2>2, <2>4 DEF LogTo
  <2>6. IpsOf(logs[LateFile] \cup Reported(late)) = Domain \ Silent
    <3>1. IpsOf(logs[LateFile] \cup Reported(late)) = IpsOf(logs[LateFile]) \cup IpsOf(Reported(late))
      BY DEF IpsOf
    <3>. QED  BY <2>1, <2>3, <3>1
  <2>7. \A s, t \in logs[LateFile] \cup Reported(late) : s.ip = t.ip => s = t
    <3>1. \A s \in logs[LateFile], t \in Reported(late) : s.ip # t.ip
      <4>1. ASSUME NEW s \in logs[LateFile], NEW t \in Reported(late)  PROVE s.ip # t.ip
        <5>1. s.ip \in IpsOf(logs[LateFile]) /\ t.ip \in IpsOf(Reported(late))
          BY <4>1 DEF IpsOf
        <5>. QED  BY <2>1, <2>3, <5>1
      <4>. QED  BY <4>1
    <3>. QED  BY <2>1, <2>3, <3>1
  <2>8. ASSUME NEW g \in DOMAIN logs'
        PROVE  /\ ~restarted' => \A s \in logs'[g] : s.value = s.expected
               /\ \A s, t \in logs'[g] : s.ip = t.ip => s = t
               /\ IpsOf(logs'[g]) = Domain \ Silent
    <3>1. CASE g = LateFile
      BY <2>1, <2>3, <2>5, <2>6, <2>7, <3>1
    <3>2. CASE g # LateFile
      BY <1>1, <1>2, <1>4, <2>5, <2>8, <3>2 DEF LogInv
    <3>. QED  BY <3>1, <3>2
  <2>. QED  BY <1>1, <1>4, <2>2, <2>8 DEF LogInv, IpsOf
<1>. QED  BY <1>7, <1>8, <1>9, <1>10 DEF StatInv

-----------------------------------------------------------------------------
(***************************************************************************)
(* Programs.                                                               *)
(***************************************************************************)

\* A part of a program that runs no command.
Quiet(p) == /\ p \in Seq(Writes) /\ Ordered(p, FALSE)
            /\ \A k \in 1 .. Len(p) : ~ChangesStats(p[k])

\* A part that runs no command may precede any other.
LEMMA Joined ==
  ASSUME NEW p, Quiet(p), NEW q \in Seq(Writes), Ordered(q, FALSE)
  PROVE  p \o q \in Seq(Writes) /\ Ordered(p \o q, FALSE) /\ (Quiet(q) => Quiet(p \o q))
<1>1. p \in Seq(Writes) /\ Len(p) \in Nat /\ Len(q) \in Nat
  BY DEF Quiet
<1>2. /\ p \o q \in Seq(Writes) /\ Len(p \o q) = Len(p) + Len(q)
      /\ \A k \in 1 .. Len(p) : (p \o q)[k] = p[k]
      /\ \A k \in 1 .. Len(p) + Len(q) : k > Len(p) => (p \o q)[k] = q[k - Len(p)]
  BY <1>1
<1>3. ASSUME NEW k \in 1 .. Len(p \o q)
      PROVE  /\ NeedsString((p \o q)[k]) => IF k = 1 THEN FALSE ELSE GivesString((p \o q)[k - 1])
             /\ ChangesStats((p \o q)[k]) => k = Len(p \o q)
             /\ Quiet(q) => ~ChangesStats((p \o q)[k])
  <2>. HIDE DEF NeedsString, GivesString, ChangesStats
  <2>1. CASE k <= Len(p)
    <3>1. k \in 1 .. Len(p) /\ (p \o q)[k] = p[k] /\ (k # 1 => k - 1 \in 1 .. Len(p))
      BY <1>1, <1>2, <1>3, <2>1
    <3>2. k # 1 => (p \o q)[k - 1] = p[k - 1]
      BY <1>2, <3>1
    <3>3. ~ChangesStats(p[k]) /\ (NeedsString(p[k]) => IF k = 1 THEN FALSE ELSE GivesString(p[k - 1]))
      BY <3>1 DEF Quiet, Ordered
    <3>. QED  BY <3>1, <3>2, <3>3
  <2>2. CASE k > Len(p)
    <3>. DEFINE j == k - Len(p)
    <3>1. j \in 1 .. Len(q) /\ (p \o q)[k] = q[j]
      BY <1>1, <1>2, <1>3, <2>2
    <3>2. NeedsString(q[j]) => j # 1 /\ GivesString(q[j - 1])
      BY <3>1 DEF Ordered
    <3>3. j # 1 => k # 1 /\ (p \o q)[k - 1] = q[j - 1]
      <4>1. SUFFICES ASSUME j # 1  PROVE k # 1 /\ (p \o q)[k - 1] = q[j - 1]
        OBVIOUS
      <4>2. k - 1 \in 1 .. Len(p) + Len(q) /\ k - 1 > Len(p) /\ k # 1 /\ (k - 1) - Len(p) = j - 1
        BY <1>1, <1>2, <1>3, <2>2, <4>1
      <4>. QED  BY <1>2, <4>2
    <3>4. ChangesStats(q[j]) => j = Len(q)
      BY <3>1 DEF Ordered
    <3>5. j = Len(q) => k = Len(p \o q)
      BY <1>1, <1>2, <1>3
    <3>6. Quiet(q) => ~ChangesStats(q[j])
      BY <3>1 DEF Quiet
    <3>. HIDE DEF j
    <3>. QED  BY <3>1, <3>2, <3>3, <3>4, <3>5, <3>6
  <2>. QED  BY <1>1, <1>3, <2>1, <2>2
<1>4. Ordered(p \o q, FALSE)
  BY <1>3 DEF Ordered
<1>. QED  BY <1>2, <1>3, <1>4 DEF Quiet

\* The bytes and the token of a parameter.
LEMMA ParamQuiet ==
  ASSUME NEW t \in Tokens
  PROVE  Quiet(Param(t))
<1>1. Byte("0x62") \in Writes /\ Byte("0x72") \in Writes /\ Data(t) \in Writes
  BY DEF Writes, Codes
<1>2. /\ Param(t) \in Seq(Writes) /\ Len(Param(t)) = 3 /\ Param(t)[1] = Byte("0x62")
      /\ Param(t)[2] = Data(t) /\ Param(t)[3] = Byte("0x72")
  BY <1>1 DEF Param
<1>3. ~NeedsString(Byte("0x62")) /\ GivesString(Byte("0x62")) /\ GivesString(Data(t))
  BY DEF NeedsString, GivesString, IsByte, Byte, Data
<1>4. ~ChangesStats(Byte("0x62")) /\ ~ChangesStats(Byte("0x72")) /\ ~ChangesStats(Data(t))
  BY DEF ChangesStats, IsByte, Byte, Data
<1>5. ASSUME NEW k \in 1 .. 3
      PROVE  /\ ~ChangesStats(Param(t)[k])
             /\ NeedsString(Param(t)[k]) => k # 1 /\ GivesString(Param(t)[k - 1])
  <2>1. CASE k = 1
    BY <1>2, <1>3, <1>4, <2>1
  <2>2. CASE k = 2
    BY <1>2, <1>3, <1>4, <2>2
  <2>3. CASE k = 3
    BY <1>2, <1>3, <1>4, <2>3
  <2>. QED  BY <1>5, <2>1, <2>2, <2>3
<1>. QED  BY <1>2, <1>5 DEF Quiet, Ordered

\* A single byte opens no string that is not there.
LEMMA OneByte ==
  ASSUME NEW v \in Codes, v # "0x72"
  PROVE  /\ <<Byte(v)>> \in Seq(Writes) /\ Ordered(<<Byte(v)>>, FALSE)
         /\ v \notin {"0x52", "0x54", "0x78"} => Quiet(<<Byte(v)>>)
<1>1. Byte(v) \in Writes
  BY DEF Writes
<1>2. ~NeedsString(Byte(v)) /\ (v \notin {"0x52", "0x54", "0x78"} => ~ChangesStats(Byte(v)))
  BY DEF NeedsString, ChangesStats, IsByte, Byte
<1>3. <<Byte(v)>> \in Seq(Writes) /\ Len(<<Byte(v)>>) = 1 /\ <<Byte(v)>>[1] = Byte(v)
  BY <1>1
<1>4. \A k \in 1 .. Len(<<Byte(v)>>) : k = 1
  BY <1>3
<1>. QED  BY <1>2, <1>3, <1>4 DEF Quiet, Ordered

WellFormed(p) == p \in Seq(Writes) /\ Ordered(p, FALSE) /\ p # <<>>

\* What the simulated program writes for a command is in order.
LEMMA ProgramsOrdered ==
  ASSUME NEW p \in Programs
  PROVE  WellFormed(p)
<1>. DEFINE first == <<Byte("0x58")>>
<1>1. /\ WellFormed(<<Byte("0x20")>>) /\ WellFormed(<<Byte("0x42")>>) /\ WellFormed(<<Byte("0x54")>>)
      /\ WellFormed(<<Byte("0x52")>>) /\ WellFormed(<<Byte("0x78")>>) /\ Quiet(first)
  BY OneByte DEF Codes, WellFormed
<1>2. /\ {"show", "benchmark", "watch", "unwatch"} \subseteq Tokens /\ Apps \subseteq Tokens
      /\ \A r \in Ranges : r[1] \in Tokens /\ r[2] \in Tokens
  BY MonitorAssumption DEF Tokens
<1>3. \A s, t : Quiet(s) /\ Quiet(t) => Quiet(s \o t)
  BY Joined DEF Quiet
<1>4. \A s, t : Quiet(s) /\ WellFormed(t) => WellFormed(s \o t)
  <2>1. ASSUME NEW s, NEW t, Quiet(s), WellFormed(t)  PROVE s \o t # <<>>
    <3>1. s \in Seq(Writes) /\ t \in Seq(Writes) /\ t # <<>>
      BY <2>1 DEF Quiet, WellFormed
    <3>. QED  BY <3>1
  <2>. QED  BY <2>1, Joined DEF WellFormed
<1>5. \A t \in Tokens : Quiet(Param(t))
  BY ParamQuiet
<1>6. \A t \in Tokens, u \in Tokens, v \in Tokens :
        /\ Quiet(first \o Param(t)) /\ Quiet(first \o Param(t) \o Param(u))
        /\ Quiet(first \o Param(t) \o Param(u) \o Param(v))
  <2>. HIDE DEF first
  <2>. QED  BY <1>1, <1>3, <1>5
<1>7. CASE p \in {<<Byte("0x20")>>, <<Byte("0x42")>>, <<Byte("0x54")>>}
  BY <1>1, <1>7
<1>8. CASE p = first \o Param("show") \o <<Byte("0x78")>>
  BY <1>1, <1>2, <1>4, <1>6, <1>8
<1>9. CASE \E app \in Apps : p = first \o Param(app) \o <<Byte("0x52")>>
  BY <1>1, <1>2, <1>4, <1>6, <1>9
<1>10. CASE \E app \in Apps : p = first \o Param("benchmark") \o Param(app) \o <<Byte("0x78")>>
  BY <1>1, <1>2, <1>4, <1>6, <1>10
<1>11. ASSUME NEW name \in {"watch", "unwatch"}, p \in RangePrograms(name)  PROVE WellFormed(p)
  <2>1. PICK r \in Ranges : p = first \o Param(name) \o Param(r[1]) \o Param(r[2]) \o <<Byte("0x78")>>
    BY <1>11 DEF RangePrograms
  <2>2. name \in Tokens /\ r[1] \in Tokens /\ r[2] \in Tokens
    BY <1>2
  <2>. QED  BY <1>1, <1>4, <1>6, <2>1, <2>2
<1>12. \/ p \in {<<Byte("0x20")>>, <<Byte("0x42")>>, <<Byte("0x54")>>}
       \/ p = first \o Param("show") \o <<Byte("0x78")>>
       \/ \E app \in Apps : p = first \o Param(app) \o <<Byte("0x52")>>
       \/ \E app \in Apps : p = first \o Param("benchmark") \o Param(app) \o <<Byte("0x78")>>
       \/ p \in RangePrograms("watch") \/ p \in RangePrograms("unwatch")
  BY Zenon DEF Programs
<1>. QED  BY <1>7, <1>8, <1>9, <1>10, <1>11, <1>12

\* What is left of a program after a byte is still in order, and the byte is
\* the last one of a command or leaves the number of executed ones.
LEMMA ProgramStep ==
  ASSUME ProgramInv, MonitorTyped, program # <<>>, program' = Tail(program), commands' = commands,
         GivesString(Head(program)) => strBuf' # <<>>
  PROVE  /\ ProgramInv' /\ Executed \in Nat /\ Executed' \in Nat
         /\ Executed' = IF Len(program) = 1 THEN Executed + 1 ELSE Executed
<1>1. /\ program \in Seq(Writes) /\ Len(program) \in Nat /\ Len(program) # 0
      /\ program' \in Seq(Writes) /\ Len(program') = Len(program) - 1
      /\ Head(program) = program[1]
      /\ \A k \in 1 .. Len(program) - 1 : program'[k] = program[k + 1]
  BY DEF ProgramInv
<1>2. Ordered(program, strBuf # <<>>)
  BY DEF ProgramInv
<1>3. ASSUME NEW k \in 1 .. Len(program')
      PROVE  /\ NeedsString(program'[k]) => IF k = 1 THEN strBuf' # <<>> ELSE GivesString(program'[k - 1])
             /\ ChangesStats(program'[k]) => k = Len(program')
  <2>1. k + 1 \in 1 .. Len(program) /\ k + 1 # 1 /\ k \in 1 .. Len(program) - 1 /\ k + 1 - 1 = k
    BY <1>1, <1>3
  <2>2. program'[k] = program[k + 1]
    BY <1>1, <2>1
  <2>3. NeedsString(program[k + 1]) => GivesString(program[k])
    BY <1>2, <2>1 DEF Ordered
  <2>4. ChangesStats(program[k + 1]) => k + 1 = Len(program)
    BY <1>2, <2>1 DEF Ordered
  <2>5. k + 1 = Len(program) => k = Len(program')
    <3>1. Len(program') = Len(program) - 1 /\ k \in Nat /\ Len(program) \in Nat
      BY <1>1, <2>1
    <3>2. \A m, n : n \in Nat /\ m = n - 1 /\ k + 1 = n => k = m
      BY <3>1
    <3>. QED  BY <3>1, <3>2, Zenon
  <2>6. k # 1 => program'[k - 1] = program[k]
    <3>1. SUFFICES ASSUME k # 1  PROVE program'[k - 1] = program[k]
      OBVIOUS
    <3>2. k - 1 \in 1 .. Len(program) - 1 /\ k - 1 + 1 = k
      BY <1>1, <2>1, <3>1
    <3>. QED  BY <1>1, <3>2
  <2>7. k = 1 => program[k] = Head(program)
    BY <1>1
  <2>. QED  BY <2>2, <2>3, <2>4, <2>5, <2>6, <2>7
<1>4. ProgramInv'
  <2>1. Ordered(program', strBuf' # <<>>)
    BY <1>3 DEF Ordered
  <2>. QED  BY <1>1, <2>1 DEF ProgramInv
<1>5. program' = <<>> <=> Len(program) = 1
  <2>1. program' = <<>> <=> Len(program') = 0
    <3>1. \A s \in Seq(Writes) : s = <<>> <=> Len(s) = 0
      OBVIOUS
    <3>. QED  BY <1>1, <3>1, Zenon
  <2>2. \A m, n : n \in Nat /\ m = n - 1 => (m = 0 <=> n = 1)
    OBVIOUS
  <2>3. Len(program') = 0 <=> Len(program) = 1
    BY <1>1, <2>2, Zenon
  <2>. QED  BY <2>1, <2>3
<1>6. commands \in Nat /\ commands - 1 \in Nat
  BY DEF MonitorTyped, Executed
<1>7. Executed = commands - 1
  BY DEF Executed
<1>8. Executed' = IF Len(program) = 1 THEN commands ELSE commands - 1
  BY <1>5 DEF Executed
<1>. QED  BY <1>4, <1>6, <1>7, <1>8

\* watch and unwatch leave the instances of other domains alone.
LEMMA OthersNotWatched ==
  ASSUME NEW r, watch(r) \/ unwatch(r), NEW ip \in OtherDomain, blocking[ip] = {}
  PROVE  blocking'[ip] = {}
BY MonitorAssumption DEF watch, unwatch, Domain

\* What a command changes.
LEMMA CommandChanges ==
  ASSUME NEW args, TakeCommand(args), MonitorTyped
  PROVE  /\ \A ip \in OtherDomain : blocking'[ip] = {}
         /\ UNCHANGED statVars \/ benchmark(args)
<1>1. \A ip \in OtherDomain : blocking[ip] = {}
  BY DEF MonitorTyped
<1>2. CASE UNCHANGED <<statVars, watchVars>>
  BY <1>1, <1>2 DEF watchVars
<1>3. CASE UNCHANGED statVars /\ \E r : watch(r) \/ unwatch(r)
  BY <1>1, <1>3, OthersNotWatched
<1>4. CASE benchmark(args) /\ UNCHANGED watchVars
  BY <1>1, <1>4 DEF watchVars
<1>. QED  BY <1>2, <1>3, <1>4, Zenon DEF TakeCommand

\* What a byte changes, by its kind.
LEMMA WriteCases ==
  ASSUME ProgramInv, MonitorTyped, program # <<>>, write(Head(program))
  PROVE  /\ mState' = "RUN" /\ \A ip \in OtherDomain : blocking'[ip] = {}
         /\ GivesString(Head(program)) => strBuf' # <<>>
         /\ \/ UNCHANGED statVars
            \/ Len(program) = 1 /\ EndBenchmark
            \/ Len(program) = 1 /\ \E args : benchmark(args)
<1>. DEFINE b == Head(program)
<1>1. b = program[1] /\ Len(program) \in Nat /\ Len(program) # 0
  BY DEF ProgramInv
<1>2. ChangesStats(b) => Len(program) = 1
  <2>1. 1 \in 1 .. Len(program)
    BY <1>1
  <2>. QED  BY <1>1, <2>1 DEF ProgramInv, Ordered
<1>3. mState = "RUN" /\ \A ip \in OtherDomain : blocking[ip] = {}
  BY DEF MonitorTyped
<1>. HIDE DEF b
<1>4. CASE b.register = "data" /\ strBuf' = <<Append(strBuf[1], b.value)>> /\ UNCHANGED <<mState, statVars, watchVars>>
  BY <1>3, <1>4 DEF watchVars
<1>5. CASE IsByte(b, "0x62") /\ strBuf' = << <<>> >> /\ UNCHANGED <<mState, statVars, watchVars>>
  BY <1>3, <1>5 DEF watchVars
<1>6. CASE ~GivesString(b) /\ UNCHANGED <<mState, statVars, watchVars>>
  BY <1>3, <1>6 DEF watchVars, b
<1>7. CASE IsByte(b, "0x54") /\ EndBenchmark /\ UNCHANGED <<mState, watchVars>>
  <2>1. ChangesStats(b) /\ ~GivesString(b)
    BY <1>7 DEF ChangesStats, GivesString, IsByte
  <2>. QED  BY <1>2, <1>3, <1>7, <2>1 DEF watchVars, b
<1>8. ASSUME NEW args, Command(args), ChangesStats(b)
      PROVE  /\ mState' = "RUN" /\ \A ip \in OtherDomain : blocking'[ip] = {}
             /\ ~GivesString(b)
             /\ UNCHANGED statVars \/ (Len(program) = 1 /\ benchmark(args))
  <2>1. TakeCommand(args) /\ mState' = "RUN"
    BY <1>8 DEF Command
  <2>2. ~GivesString(b)
    BY <1>8 DEF ChangesStats, GivesString, IsByte
  <2>. QED  BY <1>2, <1>8, <2>1, <2>2, CommandChanges
<1>9. ASSUME NEW name \in {"list", "quit"}, Command(<< <<name>> >>), ~GivesString(b)
      PROVE  /\ mState' = "RUN" /\ \A ip \in OtherDomain : blocking'[ip] = {}
             /\ UNCHANGED statVars
  <2>1. TakeCommand(<< <<name>> >>) /\ mState' = "RUN"
    BY <1>9 DEF Command
  <2>2. Len(<< <<name>> >>) # 2
    OBVIOUS
  <2>. QED  BY <2>1, <2>2, CommandChanges DEF benchmark
<1>10. CASE IsByte(b, "0x20") /\ Command(<< <<"list">> >>)
  <2>1. ~GivesString(b)
    BY <1>10 DEF GivesString, IsByte
  <2>. QED  BY <1>9, <1>10, <2>1 DEF b
<1>11. CASE IsByte(b, "0x42") /\ Command(<< <<"quit">> >>)
  <2>1. ~GivesString(b)
    BY <1>11 DEF GivesString, IsByte
  <2>. QED  BY <1>9, <1>11, <2>1 DEF b
<1>12. CASE \E args : ChangesStats(b) /\ Command(args)
  BY <1>8, <1>12 DEF b
<1>13. ASSUME NEW v \in {"0x58", "0x72"}, IsByte(b, v)  PROVE ~GivesString(b)
  BY <1>13 DEF GivesString, IsByte
<1>14. ASSUME NEW v \in {"0x52", "0x78"}, IsByte(b, v)  PROVE ChangesStats(b)
  BY <1>14 DEF ChangesStats
<1>. QED
  BY <1>4, <1>5, <1>6, <1>7, <1>10, <1>11, <1>12, <1>13, <1>14, Zenon DEF write, b

\* A step of the program.
LEMMA WriteStep ==
  ASSUME MonitorInv, WriteNext
  PROVE  MonitorInv'
<1>1. ProgramInv /\ MonitorTyped /\ StatInv
  BY DEF MonitorInv
<1>2. program # <<>> /\ write(Head(program)) /\ program' = Tail(program)
      /\ UNCHANGED <<MainMemPtr, total, commands>>
  BY DEF WriteNext
<1>3. /\ mState' = "RUN" /\ \A ip \in OtherDomain : blocking'[ip] = {}
      /\ GivesString(Head(program)) => strBuf' # <<>>
      /\ \/ UNCHANGED statVars
         \/ Len(program) = 1 /\ EndBenchmark
         \/ Len(program) = 1 /\ \E args : benchmark(args)
  BY <1>1, <1>2, WriteCases
<1>4. /\ ProgramInv' /\ Executed \in Nat /\ Executed' \in Nat
      /\ Executed' = IF Len(program) = 1 THEN Executed + 1 ELSE Executed
  BY <1>1, <1>2, <1>3, ProgramStep
<1>5. Executed' >= Executed
  BY <1>4
<1>6. commands' \in Nat /\ commands' <= MaxCommands /\ total' \in [Ips -> Nat] /\ MainMemPtr' \in BOOLEAN
  BY <1>1, <1>2 DEF MonitorTyped
<1>7. CASE UNCHANGED statVars
  <2>1. StatInv'
    BY <1>1, <1>2, <1>4, <1>5, <1>7, StatKept
  <2>2. nbCommandCounter' \in Nat /\ nbCommandCounter' <= Executed'
    BY <1>1, <1>4, <1>5, <1>7 DEF MonitorTyped, statVars
  <2>3. MonitorTyped'
    BY <1>1, <1>3, <1>4, <1>6, <1>7, <2>2 DEF MonitorTyped, statVars
  <2>. QED  BY <1>4, <2>1, <2>3 DEF MonitorInv
<1>8. CASE Len(program) = 1 /\ EndBenchmark /\ ~mInBenchmark
  BY <1>7, <1>8 DEF EndBenchmark
<1>9. CASE Len(program) = 1 /\ EndBenchmark /\ mInBenchmark
  <2>1. Executed' = Executed + 1
    BY <1>4, <1>9
  <2>2. /\ StatInv' /\ begun' = begun /\ nbCommandCounter' = nbCommandCounter + 1
        /\ mInBenchmark' = FALSE /\ UNCHANGED <<delayedCaptureRunning, restarted>>
    BY <1>1, <1>2, <1>9, <2>1, EndBenchmarkKeeps
  <2>3. nbCommandCounter' \in Nat /\ nbCommandCounter' <= Executed'
    BY <1>1, <1>4, <2>1, <2>2 DEF MonitorTyped
  <2>4. MonitorTyped'
    BY <1>1, <1>3, <1>4, <1>6, <2>2, <2>3 DEF MonitorTyped
  <2>. QED  BY <1>4, <2>2, <2>4 DEF MonitorInv
<1>10. ASSUME NEW args, Len(program) = 1, benchmark(args)  PROVE MonitorInv'
  <2>1. CASE Len(args) # 2 \/ delayedCaptureRunning
    BY <1>7, <1>10, <2>1 DEF benchmark
  <2>2. CASE Len(args) = 2 /\ ~delayedCaptureRunning
    <3>1. Executed' = Executed + 1
      BY <1>4, <1>10
    <3>2. /\ StatInv' /\ begun' \in [Ips -> Nat] /\ nbCommandCounter' = nbCommandCounter
          /\ {mInBenchmark', delayedCaptureRunning', restarted'} \subseteq BOOLEAN
      BY <1>1, <1>2, <1>10, <2>2, <3>1, BenchmarkStarts
    <3>3. nbCommandCounter' \in Nat /\ nbCommandCounter' <= Executed'
      BY <1>1, <1>4, <3>1, <3>2 DEF MonitorTyped
    <3>4. MonitorTyped'
      BY <1>1, <1>3, <1>4, <1>6, <3>2, <3>3 DEF MonitorTyped
    <3>. QED  BY <1>4, <3>2, <3>4 DEF MonitorInv
  <2>. QED  BY <2>1, <2>2
<1>. QED  BY <1>3, <1>7, <1>8, <1>9, <1>10

\* Steps that leave the program and its commands.
LEMMA ProgramKept ==
  ASSUME ProgramInv, UNCHANGED <<program, commands, strBuf>>
  PROVE  ProgramInv' /\ Executed' = Executed
BY DEF ProgramInv, Executed

\* Every step of the monitor, the program and the cosimulation's thread keeps
\* the invariant.
LEMMA MonitorStep ==
  ASSUME MonitorInv, [MonitorNext]_monitorVars
  PROVE  MonitorInv'
<1>1. ProgramInv /\ MonitorTyped /\ StatInv
  BY DEF MonitorInv
<1>2. ASSUME NEW bytes \in Programs, Send(bytes)  PROVE MonitorInv'
  <2>1. WellFormed(bytes)
    BY ProgramsOrdered
  <2>2. /\ program = <<>> /\ program' = bytes /\ commands < MaxCommands /\ commands' = commands + 1
        /\ UNCHANGED <<mState, strBuf, MainMemPtr, total, statVars, watchVars>>
    BY <1>2 DEF Send
  <2>3. ProgramInv'
    BY <2>1, <2>2 DEF ProgramInv, WellFormed, Ordered
  <2>4. commands \in Nat /\ commands' \in Nat /\ commands' <= MaxCommands
    BY <1>1, <2>2, MonitorAssumption DEF MonitorTyped
  <2>5. Executed = commands /\ Executed' = commands
    BY <2>1, <2>2, <2>4 DEF Executed, WellFormed
  <2>6. StatInv'
    BY <1>1, <2>2, <2>4, <2>5, StatKept
  <2>7. MonitorTyped'
    BY <1>1, <2>2, <2>4, <2>5 DEF MonitorTyped, statVars, watchVars
  <2>. QED  BY <2>3, <2>6, <2>7 DEF MonitorInv
<1>3. ASSUME UNCHANGED <<mState, bufferVars, MainMemPtr, statVars, watchVars>>, total' \in [Ips -> Nat]
      PROVE  MonitorInv'
  <2>1. ProgramInv' /\ Executed' = Executed
    BY <1>1, <1>3, ProgramKept DEF bufferVars
  <2>2. Executed \in Nat /\ Executed' >= Executed
    BY <1>1, <2>1 DEF MonitorTyped
  <2>3. StatInv'
    BY <1>1, <1>3, <2>1, <2>2, StatKept
  <2>4. MonitorTyped'
    BY <1>1, <1>3, <2>1 DEF MonitorTyped, bufferVars, statVars, watchVars
  <2>. QED  BY <2>1, <2>3, <2>4 DEF MonitorInv
<1>4. CASE read
  BY <1>1, <1>3, <1>4 DEF read, MonitorTyped
<1>5. ASSUME NEW ip \in Ips \ Silent, Count(ip)  PROVE MonitorInv'
  <2>1. total' \in [Ips -> Nat]
    BY <1>1, <1>5 DEF Count, MonitorTyped
  <2>. QED  BY <1>3, <1>5, <2>1 DEF Count
<1>6. CASE StartCapture
  <2>1. UNCHANGED <<mState, program, commands, strBuf, MainMemPtr, total, watchVars,
                    mInBenchmark, delayedCaptureRunning, nbCommandCounter, restarted>>
    BY <1>6 DEF StartCapture, bufferVars
  <2>2. ProgramInv' /\ Executed' = Executed
    BY <1>1, <2>1, ProgramKept
  <2>3. StatInv' /\ begun' \in [Ips -> Nat]
    BY <1>1, <1>6, <2>2, StartCaptureKeeps
  <2>4. MonitorTyped'
    BY <1>1, <2>1, <2>2, <2>3 DEF MonitorTyped, watchVars
  <2>. QED  BY <2>2, <2>3, <2>4 DEF MonitorInv
<1>7. CASE EndCapture
  <2>1. /\ UNCHANGED <<mState, program, commands, strBuf, MainMemPtr, total, watchVars, begun,
                       mInBenchmark, nbCommandCounter, restarted>>
        /\ delayedCaptureRunning' = FALSE
    BY <1>7 DEF EndCapture, bufferVars
  <2>2. ProgramInv' /\ Executed' = Executed
    BY <1>1, <2>1, ProgramKept
  <2>3. StatInv'
    BY <1>1, <1>7, <2>2, EndCaptureKeeps
  <2>4. MonitorTyped'
    BY <1>1, <2>1, <2>2 DEF MonitorTyped, watchVars
  <2>. QED  BY <2>2, <2>3, <2>4 DEF MonitorInv
<1>8. CASE UNCHANGED monitorVars
  BY <1>1, <1>3, <1>8 DEF monitorVars, MonitorTyped
<1>. QED
  BY <1>2, <1>4, <1>5, <1>6, <1>7, <1>8, WriteStep DEF MonitorNext

\* The monitor starts with nothing counted and nothing to come.
LEMMA MonitorInitInv == MonitorInit => MonitorInv
<1>. SUFFICES ASSUME MonitorInit  PROVE MonitorInv
  OBVIOUS
<1>1. program = <<>> /\ commands = 0 /\ captures = <<>> /\ logs = <<>>
  BY DEF MonitorInit
<1>2. Executed = 0
  BY <1>1 DEF Executed
<1>3. ProgramInv
  BY <1>1 DEF ProgramInv, Ordered
<1>4. MonitorTyped
  <2>1. \A ip \in OtherDomain : blocking[ip] = {}
    BY MonitorAssumption DEF MonitorInit
  <2>2. commands \in Nat /\ commands <= MaxCommands /\ Executed \in Nat
        /\ nbCommandCounter \in Nat /\ nbCommandCounter <= Executed
    BY <1>1, <1>2, MonitorAssumption DEF MonitorInit
  <2>3. total \in [Ips -> Nat] /\ begun \in [Ips -> Nat]
    BY DEF MonitorInit
  <2>4. /\ MainMemPtr \in BOOLEAN /\ mInBenchmark \in BOOLEAN
        /\ delayedCaptureRunning \in BOOLEAN /\ restarted \in BOOLEAN /\ mState = "RUN"
    BY DEF MonitorInit
  <2>. QED  BY <2>1, <2>2, <2>3, <2>4 DEF MonitorTyped
<1>5. SegmentsTyped
  BY <1>1, <1>2, MonitorAssumption DEF MonitorInit, SegmentsTyped
<1>6. CaptureInv
  BY <1>1, <1>2 DEF MonitorInit, CaptureInv, Captures
<1>7. SegmentInv
  BY DEF MonitorInit, SegmentInv, Begun, Domain
<1>8. LogInv
  BY <1>1 DEF MonitorInit, LogInv, Awaited
<1>. QED  BY <1>3, <1>4, <1>5, <1>6, <1>7, <1>8 DEF MonitorInv, StatInv

\* What the invariant says of the files.
LEMMA ReportsTrue == MonitorInv => ReportsOfBenchmark
<1>. SUFFICES ASSUME MonitorInv  PROVE ReportsOfBenchmark
  OBVIOUS
<1>1. ProgramInv /\ MonitorTyped /\ SegmentsTyped /\ CaptureInv /\ LogInv
  BY DEF MonitorInv, StatInv
<1>2. commands \in Nat /\ Executed \in Nat /\ Executed <= MaxCommands /\ MaxCommands \in Nat
  BY <1>1, MonitorAssumption DEF MonitorTyped, Executed
<1>3. nbCommandCounter \in 0 .. MaxCommands
  BY <1>1, <1>2 DEF MonitorTyped
<1>4. program # <<>> /\ Head(program).register = "data" => strBuf # <<>>
  <2>. SUFFICES ASSUME program # <<>>, Head(program).register = "data"  PROVE strBuf # <<>>
    OBVIOUS
  <2>1. 1 \in 1 .. Len(program) /\ Head(program) = program[1]
    BY <1>1 DEF ProgramInv
  <2>. QED  BY <1>1, <2>1 DEF ProgramInv, Ordered, NeedsString
<1>5. ASSUME NEW ip \in Ips  PROVE Len(mSegmentedStats[ip]) <= 2 * MaxCommands + 1
  <2>1. Len(mSegmentedStats[ip]) \in Nat /\ Len(captures) \in Nat
    BY <1>1 DEF SegmentsTyped, CaptureInv, Captures
  <2>2. Len(mSegmentedStats[ip]) + (IF ip \in Delayed THEN Len(captures) ELSE 0) <= Executed + 1
    BY <1>1 DEF SegmentsTyped
  <2>3. Len(mSegmentedStats[ip]) <= Executed + 1
    <3>1. CASE ip \in Delayed
      <4>1. Len(mSegmentedStats[ip]) + Len(captures) <= Executed + 1
        BY <2>2, <3>1
      <4>. QED  BY <1>2, <2>1, <4>1
    <3>2. CASE ip \notin Delayed
      <4>1. Len(mSegmentedStats[ip]) + 0 <= Executed + 1
        BY <2>2, <3>2
      <4>. QED  BY <1>2, <2>1, <4>1
    <3>. QED  BY <3>1, <3>2
  <2>. QED  BY <1>2, <2>1, <2>3
<1>6. Len(captures) <= 2
  <2>1. captures = <<>> => Len(captures) = 0
    OBVIOUS
  <2>2. Len(captures) = 0 \/ Len(captures) = 1 \/ Len(captures) \in 1 .. 2
    BY <1>1, <2>1 DEF CaptureInv, MonitorTyped
  <2>3. CASE Len(captures) = 0
    BY <2>3
  <2>4. CASE Len(captures) = 1
    BY <2>4
  <2>5. CASE Len(captures) \in 1 .. 2
    BY <2>5
  <2>. QED  BY <2>2, <2>3, <2>4, <2>5
<1>7. MonitorTypeOK
  BY <1>1, <1>3, <1>4, <1>5, <1>6 DEF MonitorTypeOK, MonitorTyped, SegmentsTyped
<1>8. ReportsCountSegment
  BY <1>1 DEF LogInv, ReportsCountSegment, CaptureInv
<1>9. LogOfOneBenchmark
  <2>. SUFFICES ASSUME NEW file \in DOMAIN logs
       PROVE /\ \A s, t \in logs[file] : s.ip = t.ip => s = t
             /\ Domain \ (Delayed \cup Silent) \subseteq IpsOf(logs[file])
             /\ MainMemPtr /\ captures = <<>> => IpsOf(logs[file]) = Domain \ Silent
    BY DEF LogOfOneBenchmark, IpsOf
  <2>1. captures = <<>> => ~Awaited
    <3>1. SUFFICES ASSUME captures = <<>>, Awaited  PROVE FALSE
      OBVIOUS
    <3>2. Len(captures) \in 1 .. 2
      BY <1>1, <3>1 DEF CaptureInv, Awaited
    <3>. QED  BY <3>1, <3>2
  <2>. QED  BY <1>1, <2>1 DEF LogInv
<1>. QED  BY <1>7, <1>8, <1>9 DEF ReportsOfBenchmark

\* The commands a program writes, the notifications to the cosimulation's
\* thread and the segments of the instances stay together, for any instances,
\* domains and number of commands.
THEOREM MonitorInvariance == MonitorSpec => []MonitorInv
<1>1. MonitorInv /\ [MonitorNext]_monitorVars => MonitorInv'
  BY MonitorStep
<1>. QED  BY <1>1, MonitorInitInv, PTL DEF MonitorSpec

\* What a benchmark reports is its own, although the instances behind the
\* cosimulation are captured by another thread after the benchmark has ended.
THEOREM ReportsAreOfBenchmark == MonitorSpec => []ReportsOfBenchmark
BY MonitorInvariance, ReportsTrue, PTL
=============================================================================
