----------------------------- MODULE MlperfEval -----------------------------
(* The evaluation script driving the device: it leaves whatever menu is      *)
(* open, enters the harness, asks for the name, and then loads and evaluates *)
(* one sample after the other, one command at a time.  The script may be     *)
(* stopped and started again at any moment, with a command half sent and     *)
(* answers of the run before still on the line.                              *)
EXTENDS MlperfDevice

CONSTANTS Samples,       \* the test inputs, a sequence of sequences of bytes
          SendBytes,     \* bytes in one db line
          Exits,         \* x keys sent before the harness is entered
          MaxRestarts    \* bound: how often the script is restarted

Bytes == 0..255

(* The command buffer is larger than any line of the script; the script      *)
(* leaves more menus than are ever open (x eight times), and the key 3 is a  *)
(* smaller number than that of the bytes of an input.                        *)
ASSUME EvalAssumption ==
    /\ Samples \in Seq([1..kIcInputSize -> Bytes])
    /\ SendBytes \in Nat \ {0} /\ Exits \in Nat \ {0, 1} /\ MaxRestarts \in Nat
    /\ kIcInputSize > 3
    /\ CmdSize >= 5 /\ CmdSize >= SendBytes + 2

VARIABLES pc, testcase, sent, results, restarts,
          longSleep      \* the device is always quiet when the sleep of the script ends

hostVars == <<pc, testcase, sent, results, restarts, longSleep>>
vars == <<deviceVars, hostVars>>
deviceState == <<menus, mlperf, g_cmd_buf, buffer, tensors>>

-----------------------------------------------------------------------------
EnterLine == [i \in 1..Exits |-> Token("x")] \o <<Num(3), Num(0), End>>
NameLine  == <<Token("name"), End>>
LoadLine  == <<Token("db"), Space, Token("load"), Space, Num(kIcInputSize), End>>
DataLine(bytes) == <<Token("db"), Space>> \o [i \in 1..Len(bytes) |-> Hex(bytes[i])] \o <<End>>
InferLine == <<Token("infer"), Space, Num(1), Space, Num(0), End>>

(* com.write, and what com.read_until and com.read_all take from the line:   *)
(* the bytes still on their way stay there for a later read.                 *)
Write(line) == rx' = rx \o line
ReadUntil   == SelectInSeq(tx, LAMBDA msg : msg = Ready)
Answered    == ReadUntil > 0 /\ tx' = SubSeq(tx, ReadUntil + 1, Len(tx))
CountOf(m)  == Cardinality({i \in 1..ReadUntil : tx[i].m = m})
ResultsRead == tx[SelectInSeq(tx, LAMBDA msg : msg.m = "m-results")].v
ReadAll     == \E k \in 0..Len(tx) : tx' = SubSeq(tx, k + 1, Len(tx))

(* The rest of the current sample, and the part of it the next line carries. *)
Chunk == LET last == IF sent + SendBytes < kIcInputSize THEN sent + SendBytes ELSE kIcInputSize
         IN SubSeq(Samples[testcase], sent + 1, last)

-----------------------------------------------------------------------------
Goto(from, to) == pc = from /\ pc' = to

Enter ==
    /\ Goto("open", "entering") /\ Write(EnterLine)
    /\ UNCHANGED <<tx, deviceState, testcase, sent, results, restarts>>

ReadEntered ==
    /\ Goto("entering", "asleep") /\ Answered
    /\ UNCHANGED <<rx, deviceState, testcase, sent, results, restarts>>

Wake_Hasty ==
    /\ Goto("asleep", "naming") /\ ReadAll /\ Write(NameLine)
    /\ UNCHANGED <<deviceState, testcase, sent, results, restarts>>

(* time.sleep, com.read_all and the question for the name.                   *)
Wake ==
    /\ Goto("asleep", "naming")
    /\ IF longSleep THEN rx = <<>> /\ tx' = <<>> ELSE ReadAll
    /\ Write(NameLine)
    /\ UNCHANGED <<deviceState, testcase, sent, results, restarts>>

ReadName ==
    /\ pc = "naming" /\ Answered
    /\ pc' = IF CountOf("m-name") > 0 THEN "next" ELSE "failed"
    /\ UNCHANGED <<rx, deviceState, testcase, sent, results, restarts>>

SendLoad ==
    /\ Goto("next", "loading") /\ testcase <= Len(Samples)
    /\ ReadAll /\ Write(LoadLine)
    /\ sent' = 0
    /\ UNCHANGED <<deviceState, testcase, results, restarts>>

ReadLoaded ==
    /\ \/ Goto("loading", "sending")
       \/ Goto("sent", "sending")
    /\ Answered
    /\ UNCHANGED <<rx, deviceState, testcase, sent, results, restarts>>

SendData_Unanswered ==
    /\ Goto("sending", "sending") /\ sent < kIcInputSize
    /\ Write(DataLine(Chunk))
    /\ sent' = sent + Len(Chunk)
    /\ UNCHANGED <<tx, deviceState, testcase, results, restarts>>

SendData ==
    /\ Goto("sending", "sent") /\ sent < kIcInputSize
    /\ Write(DataLine(Chunk))
    /\ sent' = sent + Len(Chunk)
    /\ UNCHANGED <<tx, deviceState, testcase, results, restarts>>

SendInfer ==
    /\ Goto("sending", "inferring") /\ sent = kIcInputSize
    /\ Write(InferLine)
    /\ UNCHANGED <<tx, deviceState, testcase, sent, results, restarts>>

(* The script needs two time stamps and a result vector, or it raises.       *)
ReadResults ==
    /\ pc = "inferring" /\ Answered
    /\ IF CountOf("m-lap-us") >= 2 /\ CountOf("m-results") > 0
       THEN /\ results' = Append(results, ResultsRead)
            /\ testcase' = testcase + 1
            /\ pc' = "next"
       ELSE pc' = "failed" /\ UNCHANGED <<results, testcase>>
    /\ UNCHANGED <<rx, deviceState, sent, restarts>>

Finish ==
    /\ Goto("next", "done") /\ testcase > Len(Samples)
    /\ UNCHANGED <<deviceVars, testcase, sent, results, restarts>>

Host ==
    /\ UNCHANGED longSleep
    /\ \/ Enter \/ ReadEntered \/ Wake \/ ReadName \/ SendLoad \/ ReadLoaded
       \/ SendData \/ SendInfer \/ ReadResults \/ Finish

(* What is left of the line when the port is closed: any prefix of it, which *)
(* may end in the middle of a byte, or of the size in db load, and then      *)
(* leaves a smaller number.                                                  *)
Parts(token) ==
    IF token.w = "byte" THEN {Token("nibble")}
    ELSE IF token = Num(kIcInputSize) THEN {Num(n) : n \in 1..(kIcInputSize - 1)}
    ELSE {}

Cut(line) ==
    LET whole == {SubSeq(line, 1, k) : k \in 0..Len(line)}
        half  == UNION {{Append(SubSeq(line, 1, k - 1), part) : part \in Parts(line[k])} :
                            k \in 1..Len(line)}
    IN whole \cup half

Restart ==
    /\ restarts < MaxRestarts
    /\ restarts' = restarts + 1
    /\ pc' = "open" /\ testcase' = 1 /\ sent' = 0 /\ results' = <<>>
    /\ rx' \in Cut(rx) /\ ReadAll
    /\ UNCHANGED <<deviceState, longSleep>>

Init ==
    /\ DeviceInit
    /\ mlperf = FALSE
    /\ menus \in {<<>>, <<"project">>, <<"imgc", "models">>}
    /\ pc = "open" /\ testcase = 1 /\ sent = 0 /\ results = <<>> /\ restarts = 0
    /\ longSleep \in BOOLEAN

DeviceStep == Device /\ UNCHANGED hostVars

Next == DeviceStep \/ Host \/ Restart

(* The firmware keeps running and the script keeps reading and writing.      *)
Spec == Init /\ [][Next]_vars /\ WF_vars(DeviceStep) /\ WF_vars(Host)

-----------------------------------------------------------------------------
(* Types of the device and of the script; in particular no byte of a load is *)
(* stored outside gp_buff.                                                   *)
TypeOK ==
    /\ g_buff_size \in 0..kIcInputSize /\ g_buff_pos \in 0..MaxDbInputSize
    /\ gp_buff \in [0..(MaxDbInputSize - 1) -> Bytes]
    /\ Len(g_cmd_buf) <= CmdSize /\ mlperf \in BOOLEAN /\ Len(menus) <= Exits
    /\ pc \in {"open", "entering", "asleep", "naming", "next", "loading", "sending",
               "sent", "inferring", "done", "failed"}
    /\ testcase \in 1..(Len(Samples) + 1) /\ sent \in 0..kIcInputSize
    /\ Len(results) = testcase - 1

(* Every result the script counts is that of the network on the very sample  *)
(* it was looking at, whatever an earlier run left in the buffer, on the     *)
(* command line or among the answers: always if the sleep is long enough,    *)
(* and after two restarts however short it is.  Each restart can leave one   *)
(* more answer unread, and when there are as many as a sample has commands,  *)
(* the script can take the answer to an earlier infer for its own.           *)
ResultsMatch ==
    longSleep \/ restarts <= 2 =>
        \A i \in 1..Len(results) : results[i] = Network(Quantized(Samples[i]))

(* If the sleep is long enough: once the script has the name, it and the     *)
(* device are in step.  A command or its answer is under way exactly while   *)
(* the script waits for one, and no part of a line is left over in front of  *)
(* the next.                                                                 *)
UnderWay == Cardinality({i \in DOMAIN rx : rx[i] = End}) + Cardinality({i \in DOMAIN tx : tx[i] = Ready})
InStep ==
    longSleep /\ pc \in {"next", "loading", "sending", "sent", "inferring", "done"} =>
        /\ UnderWay = IF pc \in {"loading", "sent", "inferring"} THEN 1 ELSE 0
        /\ UnderWay = 0 => g_cmd_buf = <<>> /\ rx = <<>>

(* If the sleep is long enough, the script evaluates every sample: no read   *)
(* waits for an answer that does not come, and no answer is taken for that   *)
(* of another command.                                                       *)
AllEvaluated == longSleep => <>(pc = "done")

(* However short the sleep, the script comes to an end.                      *)
ScriptEnds == <>(pc \in {"done", "failed"})

=============================================================================
