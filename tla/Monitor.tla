------------------------------ MODULE Monitor ------------------------------
(***************************************************************************)
(* The monitor a simulated program drives through two registers            *)
(* (src/components/peripherals/SesamController.cpp,                        *)
(* DynamicSesamController in DynamicComponents.hpp): a program on the      *)
(* simulated processor writes the bytes of a command, the monitor runs it. *)
(* Benchmarks segment the statistics of the instances; with a memory       *)
(* cosimulation, the instances simulated behind the processors (caches,    *)
(* memories, the coherent mesh) are captured later, in the order of the    *)
(* notifications, by the cosimulation's thread.  That thread cannot run    *)
(* the epoch a command was written in, so a command is one step.           *)
(*                                                                         *)
(* A string is the sequence of the tokens sent for it, a number is a       *)
(* token.  The thread monitorSimulation is not started by the code: the    *)
(* commands of the console are left out.                                   *)
(*                                                                         *)
(* History variables: begun, the counts when a segment began; restarted,   *)
(* whether a benchmark was started in another.                             *)
(***************************************************************************)
EXTENDS Integers, Sequences, SequencesExt, FiniteSets

CONSTANTS Ips, OtherDomain, Delayed, Silent, Direct, Processors,   \* subsets of Ips
          Apps, Ranges,                     \* ranges are <<start, size>>
          MaxCount, MaxCommands             \* bounds

ASSUME MonitorAssumption ==
    /\ \A S \in {OtherDomain, Delayed, Silent, Direct, Processors} : S \subseteq Ips
    /\ \A r \in Ranges : r \in Nat \X (Nat \ {0})
    /\ MaxCommands \in Nat

VARIABLES mState, strParam, strBuf, mCommandOutputBuffer,
          mInBenchmark, delayedCaptureRunning, nbCommandCounter, appName,
          MainMemPtr, captures,             \* the cosimulation; notifications to come
          total, mSegmentedStats,           \* of each instance
          logs,                             \* by application and number
          mMonitoredRanges, blocking,       \* of processors; addresses of each instance
          program,                          \* what the program has left to write
          commands, running, begun, restarted

statVars == <<mInBenchmark, delayedCaptureRunning, nbCommandCounter, appName, captures,
              mSegmentedStats, logs, begun, restarted>>
watchVars == <<mMonitoredRanges, blocking>>
bufferVars == <<strParam, strBuf, program, commands>>
monitorVars == <<mState, bufferVars, mCommandOutputBuffer, MainMemPtr, total, statVars, watchVars, running>>

Domain == Ips \ OtherDomain         \* the instances of the monitor's domain

-----------------------------------------------------------------------------
(* Segments hold differences: the next one is the count less the last      *)
(* segment's difference.  Instances without statistics push empty ones.    *)
pushStats(seg, count) ==
    LET old == IF seg = <<>> THEN <<0>> ELSE seg IN Append(old, count - Last(old))

PushAll(S) == [ip \in Ips |-> IF ip \in S THEN pushStats(mSegmentedStats[ip], total[ip])
                              ELSE mSegmentedStats[ip]]
(* A report takes the last segment of those that have one and clears them. *)
Reported(S) ==
    {[ip |-> ip, value |-> Last(PushAll(S)[ip]), expected |-> total[ip] - begun[ip]] : ip \in S \ Silent}
PushAndClear(S) == [ip \in Ips |-> IF ip \in S \ Silent THEN <<>> ELSE PushAll(S)[ip]]
(* The file of a benchmark, written anew. *)
LogTo(file, report) == [f \in {file} \cup DOMAIN logs |-> IF f = file THEN report ELSE logs[f]]

MonitorInit ==
    /\ mState = "RUN" /\ strParam = <<>> /\ strBuf = <<>> /\ mCommandOutputBuffer = <<>>
    /\ mInBenchmark = FALSE /\ delayedCaptureRunning = FALSE /\ nbCommandCounter = 0 /\ appName = "none"
    /\ MainMemPtr \in BOOLEAN /\ captures = <<>>
    /\ total = [ip \in Ips |-> 0] /\ mSegmentedStats = [ip \in Ips |-> <<>>] /\ logs = <<>>
    /\ mMonitoredRanges = [p \in Processors |-> <<>>] /\ blocking = [ip \in Ips |-> {}]
    /\ program = <<>> /\ commands = 0 /\ running = TRUE
    /\ begun = [ip \in Ips |-> 0] /\ restarted = FALSE

-----------------------------------------------------------------------------
(* sesamCommand() from the registers, mState = RUN: the end of a           *)
(* benchmark.  The file of its number is written anew.                     *)
EndBenchmark ==
    LET now == Domain \ Delayed
        file == <<appName, nbCommandCounter>>
    IN IF ~mInBenchmark THEN UNCHANGED <<statVars, mCommandOutputBuffer>>
       ELSE /\ mInBenchmark' = FALSE
            /\ captures' = IF MainMemPtr
                           THEN Append(captures, [start |-> FALSE, counter |-> nbCommandCounter + 1])
                           ELSE captures
            /\ mSegmentedStats' = PushAndClear(now)
            /\ mCommandOutputBuffer' = <<"report">>
            /\ logs' = LogTo(file, Reported(now))
            /\ nbCommandCounter' = nbCommandCounter + 1
            /\ UNCHANGED <<delayedCaptureRunning, appName, begun, restarted>>

(* The command benchmark. Mutant: a capture under way is not waited for. *)
benchmarkAnyTime(args) ==
    IF Len(args) # 2 THEN UNCHANGED statVars
    ELSE /\ captures' = IF MainMemPtr THEN Append(captures, [start |-> TRUE, counter |-> nbCommandCounter + 1])
                        ELSE captures
         /\ delayedCaptureRunning' = (delayedCaptureRunning \/ MainMemPtr)
         /\ mSegmentedStats' = PushAll(Domain \ Delayed)
         /\ begun' = [ip \in Ips |-> IF ip \in Domain \ Delayed THEN total[ip] ELSE begun[ip]]
         /\ restarted' = (restarted \/ mInBenchmark)
         /\ appName' = args[2] /\ mInBenchmark' = TRUE
         /\ UNCHANGED <<nbCommandCounter, logs>>
benchmark(args) ==
    IF Len(args) # 2 \/ delayedCaptureRunning THEN UNCHANGED statVars
    ELSE /\ captures' = IF MainMemPtr THEN Append(captures, [start |-> TRUE, counter |-> nbCommandCounter + 1])
                        ELSE captures
         /\ delayedCaptureRunning' = MainMemPtr
         /\ mSegmentedStats' = PushAll(Domain \ Delayed)
         /\ begun' = [ip \in Ips |-> IF ip \in Domain \ Delayed THEN total[ip] ELSE begun[ip]]
         /\ restarted' = (restarted \/ mInBenchmark)
         /\ appName' = args[2] /\ mInBenchmark' = TRUE
         /\ UNCHANGED <<nbCommandCounter, logs>>

(* StartCapture and EndCapture, from the thread of the cosimulation.       *)
StartCapture ==
    /\ captures # <<>> /\ Head(captures).start /\ captures' = Tail(captures)
    /\ mSegmentedStats' = PushAll(Domain \cap Delayed)
    /\ begun' = [ip \in Ips |-> IF ip \in Domain \cap Delayed THEN total[ip] ELSE begun[ip]]
    /\ UNCHANGED <<mState, bufferVars, mCommandOutputBuffer, MainMemPtr, total, watchVars, running,
                   mInBenchmark, delayedCaptureRunning, nbCommandCounter, appName, logs, restarted>>

(* Mutant: the benchmark that follows stays refused. *)
EndCaptureStillRunning ==
    /\ captures # <<>> /\ ~Head(captures).start /\ captures' = Tail(captures)
    /\ UNCHANGED <<mState, bufferVars, mCommandOutputBuffer, MainMemPtr, total, watchVars, running,
                   mInBenchmark, delayedCaptureRunning, nbCommandCounter, appName, logs, begun, restarted,
                   mSegmentedStats>>
EndCapture ==
    LET file == <<appName, Head(captures).counter - 1>>
        before == IF file \in DOMAIN logs THEN logs[file] ELSE {}
    IN /\ captures # <<>> /\ ~Head(captures).start /\ captures' = Tail(captures)
       /\ mSegmentedStats' = PushAndClear(Domain \cap Delayed)
       /\ logs' = LogTo(file, before \cup Reported(Domain \cap Delayed))
       /\ delayedCaptureRunning' = FALSE
       /\ UNCHANGED <<mState, bufferVars, mCommandOutputBuffer, MainMemPtr, total, watchVars, running,
                      mInBenchmark, nbCommandCounter, appName, begun, restarted>>

-----------------------------------------------------------------------------
(* watch and unwatch: every instance of the domain gets its accesses       *)
(* blocking over the range, or no more if it can be accessed directly;     *)
(* processors keep the ranges they log.                                    *)
Addresses(r) == r[1]..(r[1] + r[2] - 1)
Within(r, s) == r[1] >= s[1] /\ r[1] + r[2] - 1 <= s[1] + s[2] - 1
watch(r) ==
    /\ blocking' = [ip \in Ips |-> IF ip \in Domain THEN blocking[ip] \cup Addresses(r) ELSE blocking[ip]]
    /\ mMonitoredRanges' = [p \in Processors |-> IF p \in Domain THEN Append(mMonitoredRanges[p], r)
                                                 ELSE mMonitoredRanges[p]]
(* The ranges that stay are replaced by the one given, although the help   *)
(* of unwatch says that logging it stops.                                  *)
removeMonitor(ranges, r) ==
    LET kept == SelectSeq(ranges, LAMBDA s : ~Within(s, r)) IN [k \in DOMAIN kept |-> r]
unwatch(r) ==
    /\ blocking' = [ip \in Ips |-> IF ip \in Domain \cap Direct THEN blocking[ip] \ Addresses(r)
                                   ELSE blocking[ip]]
    /\ mMonitoredRanges' = [p \in Processors |-> IF p \in Domain THEN removeMonitor(mMonitoredRanges[p], r)
                                                 ELSE mMonitoredRanges[p]]

(* sesamCommand(), mState = TAKE_CMD.  show, showmem, configure, debug and *)
(* what is no command leave the monitor as it is.                          *)
IsCommand(args, name) == args[1] = <<name>>
TakeCommand(args) ==
    \/ /\ IsCommand(args, "quit") /\ running' = FALSE
       /\ UNCHANGED <<statVars, watchVars, mCommandOutputBuffer>>
    \/ /\ IsCommand(args, "list") /\ Len(args) = 1
       /\ mCommandOutputBuffer' = SetToSeq(Domain)
       /\ UNCHANGED <<statVars, watchVars, running>>
    \/ /\ IsCommand(args, "watch") /\ Len(args) >= 3 /\ watch(<<args[2][1], args[3][1]>>)
       /\ UNCHANGED <<statVars, mCommandOutputBuffer, running>>
    \/ /\ IsCommand(args, "unwatch") /\ Len(args) >= 3 /\ unwatch(<<args[2][1], args[3][1]>>)
       /\ UNCHANGED <<statVars, mCommandOutputBuffer, running>>
    \/ /\ IsCommand(args, "benchmark") /\ benchmark(args)
       /\ UNCHANGED <<watchVars, mCommandOutputBuffer, running>>
    \/ /\ \A name \in {"quit", "benchmark"} : ~IsCommand(args, name)
       /\ IsCommand(args, "list") => Len(args) # 1
       /\ \A name \in {"watch", "unwatch"} : IsCommand(args, name) => Len(args) < 3
       /\ UNCHANGED <<statVars, watchVars, mCommandOutputBuffer, running>>

Command(args) == TakeCommand(args) /\ strParam' = args /\ mState' = "RUN"

Byte(value) == [register |-> "command", value |-> value]
Data(value) == [register |-> "data", value |-> value]
(* write(): a byte of the command register, or a token of the data one.    *)
(* strBuf is <<>> while it points to no string.                            *)
IsByte(b, code) == b.register = "command" /\ b.value = code
write(b) ==
    \/ /\ b.register = "data" /\ strBuf' = <<Append(strBuf[1], b.value)>>
       /\ UNCHANGED <<mState, strParam, statVars, watchVars, mCommandOutputBuffer, running>>
    \/ IsByte(b, "0x20") /\ Command(<< <<"list">> >>) /\ UNCHANGED strBuf
    \/ IsByte(b, "0x42") /\ Command(<< <<"quit">> >>) /\ UNCHANGED strBuf
    \/ IsByte(b, "0x52") /\ Command(<< <<"benchmark">>, Last(strParam) >>) /\ UNCHANGED strBuf
    \/ IsByte(b, "0x54") /\ EndBenchmark /\ UNCHANGED <<mState, strParam, strBuf, watchVars, running>>
    \/ /\ IsByte(b, "0x58") /\ strParam' = <<>>
       /\ UNCHANGED <<mState, strBuf, statVars, watchVars, mCommandOutputBuffer, running>>
    \/ /\ IsByte(b, "0x62") /\ strBuf' = << <<>> >>
       /\ UNCHANGED <<mState, strParam, statVars, watchVars, mCommandOutputBuffer, running>>
    \/ /\ IsByte(b, "0x72") /\ strParam' = Append(strParam, strBuf[1]) /\ strBuf' = <<>>
       /\ UNCHANGED <<mState, statVars, watchVars, mCommandOutputBuffer, running>>
    \/ IsByte(b, "0x78") /\ Command(strParam) /\ UNCHANGED strBuf

(* What the program writes for a command: its parameters, then the byte.   *)
Param(token) == <<Byte("0x62"), Data(token), Byte("0x72")>>
RangePrograms(name) ==
    {<<Byte("0x58")>> \o Param(name) \o Param(r[1]) \o Param(r[2]) \o <<Byte("0x78")>> : r \in Ranges}
Programs ==
    {<<Byte("0x20")>>, <<Byte("0x42")>>, <<Byte("0x54")>>, <<Byte("0x58")>> \o Param("show") \o <<Byte("0x78")>>}
    \cup {<<Byte("0x58")>> \o Param(app) \o <<Byte("0x52")>> : app \in Apps}
    \cup {<<Byte("0x58")>> \o Param("benchmark") \o Param(app) \o <<Byte("0x78")>> : app \in Apps}
    \cup RangePrograms("watch") \cup RangePrograms("unwatch")

Send(bytes) ==
    /\ running /\ program = <<>> /\ commands < MaxCommands
    /\ program' = bytes /\ commands' = commands + 1
    /\ UNCHANGED <<mState, strParam, strBuf, mCommandOutputBuffer, MainMemPtr, total, statVars, watchVars,
                   running>>
WriteNext ==
    /\ running /\ program # <<>> /\ write(Head(program)) /\ program' = Tail(program)
    /\ UNCHANGED <<MainMemPtr, total, commands>>

(* read() of the data register takes one name of the output. *)
read ==
    /\ running /\ mCommandOutputBuffer # <<>> /\ mCommandOutputBuffer' = Tail(mCommandOutputBuffer)
    /\ UNCHANGED <<mState, bufferVars, MainMemPtr, total, statVars, watchVars, running>>

(* The simulation goes on: an instance counts. *)
Count(ip) ==
    /\ running /\ total[ip] < MaxCount /\ total' = [total EXCEPT ![ip] = @ + 1]
    /\ UNCHANGED <<mState, bufferVars, mCommandOutputBuffer, MainMemPtr, statVars, watchVars, running>>

MonitorNext ==
    \/ \E bytes \in Programs : Send(bytes)
    \/ WriteNext
    \/ read
    \/ \E ip \in Ips \ Silent : Count(ip)
    \/ StartCapture
    \/ EndCapture

(* The cosimulation's thread goes on as long as the program runs.          *)
MonitorFairness == WF_monitorVars(StartCapture) /\ WF_monitorVars(EndCapture)
MonitorSpec == MonitorInit /\ [][MonitorNext]_monitorVars /\ MonitorFairness

-----------------------------------------------------------------------------
(* write() and sesamCommand() leave the buffers in order: a string is only *)
(* added to between its two bytes, the state returns to RUN, and segments  *)
(* are kept only for instances of the domain.                              *)
MonitorTypeOK ==
    /\ mState = "RUN" /\ nbCommandCounter \in 0..MaxCommands
    /\ program # <<>> /\ Head(program).register = "data" => strBuf # <<>>
    /\ \A ip \in Ips : Len(mSegmentedStats[ip]) <= 2 * MaxCommands + 1
    /\ \A ip \in OtherDomain : mSegmentedStats[ip] = <<>> /\ blocking[ip] = {}
    /\ Len(captures) <= 2

(* pushStats(), clearSegStats(): a statistic a benchmark reports is what   *)
(* the instance counted in it, although segments hold differences of       *)
(* differences; without a cosimulation only as long as no benchmark is     *)
(* started in another, which nothing refuses there.                        *)
ReportsCountSegment ==
    MainMemPtr \/ ~restarted =>
        \A file \in DOMAIN logs : \A s \in logs[file] : s.value = s.expected

(* The file of a benchmark holds each instance at most once, and with the  *)
(* captures done each instance of the domain: what is captured late goes   *)
(* to the file of its own benchmark, not the next one's.                   *)
LogOfOneBenchmark ==
    \A file \in DOMAIN logs :
        /\ \A s, t \in logs[file] : s.ip = t.ip => s = t
        /\ Domain \ (Delayed \cup Silent) \subseteq {s.ip : s \in logs[file]}
        /\ MainMemPtr /\ captures = <<>> => {s.ip : s \in logs[file]} = Domain \ Silent

(* What a benchmark reports is its own, although parts of it are captured by *)
(* another thread when the next one may have begun (sesamCommand).         *)
ReportsOfBenchmark == MonitorTypeOK /\ ReportsCountSegment /\ LogOfOneBenchmark

(* delayedCaptureRunning: after a benchmark has ended, the next one is not *)
(* refused for ever.                                                       *)
NextBenchmarkAccepted == (delayedCaptureRunning /\ ~mInBenchmark) ~> ~delayedCaptureRunning
=============================================================================
