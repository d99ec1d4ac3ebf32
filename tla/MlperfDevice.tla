---------------------------- MODULE MlperfDevice ----------------------------
(* The device side of the MLPerf Tiny interface: the menus of the firmware,  *)
(* the command line of the harness, its byte buffer, and the input and       *)
(* output tensors of the interpreter.                                        *)
(*                                                                           *)
(* The serial line is a queue each way.  Characters arrive grouped into      *)
(* tokens: a keyword, a separator, a number, one byte written as two hex     *)
(* digits, half of one, a menu key, or the command terminator.  Answers are  *)
(* messages, of which only those that a reader tells apart are kept.         *)
EXTENDS Integers, Sequences, SequencesExt

CONSTANTS kIcInputSize,      \* bytes of the model's input
          MaxDbInputSize,    \* bytes of gp_buff
          CmdSize            \* tokens kept of a command line

ASSUME SizesAssumption ==
    /\ kIcInputSize \in Nat \ {0}
    /\ MaxDbInputSize \in Nat /\ MaxDbInputSize >= kIcInputSize
    /\ CmdSize \in Nat \ {0}

VARIABLES rx, tx,            \* serial line to and from the device
          menus,             \* menus open above the main one, innermost first
          mlperf,            \* the harness has been entered
          g_cmd_buf, g_buff_size, g_buff_pos, gp_buff,
          input, output      \* tensors of the interpreter

deviceVars == <<rx, tx, menus, mlperf, g_cmd_buf, g_buff_size, g_buff_pos, gp_buff, input, output>>
buffer == <<g_buff_size, g_buff_pos, gp_buff>>
tensors == <<input, output>>

Token(w) == [w |-> w, v |-> 0]
Num(n)   == [w |-> "num", v |-> n]
Hex(b)   == [w |-> "byte", v |-> b]
Space    == Token("space")
End      == Token("end")

Message(m) == [m |-> m, v |-> <<>>]
Ready      == Message("m-ready")

-----------------------------------------------------------------------------
(* strtok: the words in the first k tokens of the line; a word starts at a   *)
(* token that follows a separator, or nothing.                               *)
WithToken(words, line, k) ==
    IF line[k] = Space THEN words
    ELSE IF k = 1 \/ line[k - 1] = Space THEN Append(words, <<line[k]>>)
    ELSE [words EXCEPT ![Len(words)] = Append(@, line[k])]
Split[k \in 0..Len(g_cmd_buf)] == IF k = 0 THEN <<>> ELSE WithToken(Split[k - 1], g_cmd_buf, k)
Words == Split[Len(g_cmd_buf)]

IsWord(i, w) == i <= Len(Words) /\ Words[i] = <<Token(w)>>
HasWord(i)   == i <= Len(Words)
atoi(i)      == IF Words[i][1].w = "num" THEN Words[i][1].v ELSE 0

(* An int8 tensor from the bytes of the buffer; the tensor the interpreter   *)
(* has overwritten while it computed is no longer known.  The output of the  *)
(* network is named by the input it was computed from.                       *)
Quantized(bytes) == [i \in 1..Len(bytes) |-> bytes[i] - 128]
Spoiled          == <<>>
Network(tensor)  == tensor

-----------------------------------------------------------------------------
(* Answers of one command, which always ends with m-ready.                   *)
Answer(msgs) == tx' = tx \o Append(msgs, Ready)

Name ==
    /\ IsWord(1, "name")
    /\ Answer(<<Message("m-name")>>)
    /\ UNCHANGED <<buffer, tensors>>

DbLoad_KeepsPosition ==
    /\ IsWord(1, "db") /\ IsWord(2, "load") /\ HasWord(3)
    /\ g_buff_size' = atoi(3)
    /\ Answer(<<Message(IF atoi(3) \in 1..MaxDbInputSize THEN "m-expecting" ELSE "e")>>)
    /\ UNCHANGED <<g_buff_pos, gp_buff, tensors>>

DbLoad ==
    /\ IsWord(1, "db") /\ IsWord(2, "load") /\ HasWord(3)
    /\ g_buff_size' = atoi(3)
    /\ g_buff_pos' = IF atoi(3) = 0 THEN g_buff_pos ELSE 0
    /\ Answer(<<Message(IF atoi(3) \in 1..MaxDbInputSize THEN "m-expecting" ELSE "e")>>)
    /\ UNCHANGED <<gp_buff, tensors>>

(* The characters of a token count only as even or odd.                      *)
Digits(n) == CHOOSE d \in 1..(n + 1) : n < 10^d /\ (d > 1 => 10^(d - 1) <= n)
OddlyLong(t) == \/ t.w \in {"x", "nibble", "infer", "print", "results"}
                \/ t.w = "num" /\ Digits(t.v) % 2 = 1

(* The digits of a db line are stored, unless their number is odd, up to the *)
(* first that is no digit, and up to the end of the announced size if the    *)
(* position meets it exactly.                                                *)
DbData ==
    LET word   == Words[2]
        valid  == SelectInSeq(word, LAMBDA t : t.w # "byte")
        bytes  == IF valid = 0 THEN Len(word) ELSE valid - 1
        odd    == Cardinality({i \in DOMAIN word : OddlyLong(word[i])}) % 2 = 1
        done   == g_buff_size - g_buff_pos \in 1..bytes
        stored == IF odd THEN 0 ELSE IF done THEN g_buff_size - g_buff_pos ELSE bytes
    IN /\ IsWord(1, "db") /\ HasWord(2)
       /\ ~IsWord(2, "load") /\ ~IsWord(2, "print")
       /\ g_buff_pos' = g_buff_pos + stored
       /\ gp_buff' = [a \in DOMAIN gp_buff |->
                         IF a - g_buff_pos \in 0..(stored - 1)
                         THEN word[a - g_buff_pos + 1].v ELSE gp_buff[a]]
       /\ Answer(IF odd THEN <<Message("e")>>
                 ELSE IF done THEN <<Message("m-load-done")>>
                 ELSE IF valid # 0 THEN <<Message("e")>> ELSE <<>>)
       /\ UNCHANGED <<g_buff_size, tensors>>

(* th_load_tensor: the tensor is set only if the buffer holds a whole input. *)
Loaded == g_buff_pos >= kIcInputSize
LoadedTensor == IF Loaded THEN Quantized([i \in 1..kIcInputSize |-> gp_buff[i - 1]]) ELSE input

Warmups_Ignored == 10

(* Iterations of an infer command; 0 inferences stands for a refused one.    *)
Inferences == IF HasWord(2) THEN atoi(2) ELSE 1
Warmups    == IF HasWord(3) THEN atoi(3) ELSE 10

(* All invocations of one command: an invocation may leave the input tensor  *)
(* overwritten, so that those after the first compute from something else.   *)
Infer ==
    /\ IsWord(1, "infer") /\ Inferences > 0
    /\ \E overwrites \in BOOLEAN :
          /\ input' = IF overwrites THEN Spoiled ELSE LoadedTensor
          /\ output' = Network(IF overwrites /\ Warmups + Inferences > 1
                               THEN Spoiled ELSE LoadedTensor)
    /\ Answer((IF Loaded THEN <<>> ELSE <<Message("refused")>>)
              \o << [m |-> "m-warmup-start", v |-> <<Warmups>>],
                    Message("m-lap-us"), Message("m-lap-us"),
                    [m |-> "m-results", v |-> output'] >>)
    /\ UNCHANGED buffer

(* results, and every command that changes nothing: print, help, profile,    *)
(* timestamp, an unknown word, a db or infer that lacks an argument.  The    *)
(* empty command hands strncmp a null pointer; it compares unequal here.     *)
Results ==
    /\ IsWord(1, "results")
    /\ Answer(<<[m |-> "m-results", v |-> output]>>)
    /\ UNCHANGED <<buffer, tensors>>

Other_Silent ==
    /\ ~\E w \in {"name", "results", "db", "infer"} : IsWord(1, w)
    /\ UNCHANGED <<tx, buffer, tensors>>

Other ==
    /\ ~IsWord(1, "name") /\ ~IsWord(1, "results")
    /\ IsWord(1, "db") => \/ ~HasWord(2) \/ IsWord(2, "print")
                          \/ IsWord(2, "load") /\ ~HasWord(3)
    /\ IsWord(1, "infer") => Inferences = 0
    /\ Answer(<<Message("e")>>)
    /\ UNCHANGED <<buffer, tensors>>

-----------------------------------------------------------------------------
(* ee_serial_callback, for the terminator and for any other character.       *)
Command ==
    /\ mlperf /\ rx # <<>> /\ Head(rx) = End
    /\ \/ Name \/ DbLoad \/ DbData \/ Infer \/ Results \/ Other
    /\ g_cmd_buf' = <<>>
    /\ rx' = Tail(rx)
    /\ UNCHANGED <<menus, mlperf>>

Character ==
    /\ mlperf /\ rx # <<>> /\ Head(rx) # End
    /\ g_cmd_buf' = IF Len(g_cmd_buf) < CmdSize THEN Append(g_cmd_buf, Head(rx)) ELSE g_cmd_buf
    /\ rx' = Tail(rx)
    /\ UNCHANGED <<tx, menus, mlperf, buffer, tensors>>

(* menu_run: 3 opens the project menu from the main one, 0 there enters the  *)
(* harness for good, x closes a menu; everything else is unknown to them.    *)
AtMenu(key) == ~mlperf /\ rx # <<>> /\ Head(rx) = key /\ rx' = Tail(rx)

MenuExit ==
    /\ AtMenu(Token("x"))
    /\ menus' = IF menus = <<>> THEN menus ELSE Tail(menus)
    /\ UNCHANGED <<tx, mlperf, g_cmd_buf, buffer, tensors>>

MenuProject ==
    /\ AtMenu(Num(3)) /\ menus = <<>>
    /\ menus' = <<"project">>
    /\ UNCHANGED <<tx, mlperf, g_cmd_buf, buffer, tensors>>

EnterMlperf ==
    /\ AtMenu(Num(0)) /\ menus # <<>> /\ Head(menus) = "project"
    /\ mlperf' = TRUE
    /\ Answer(<<Message("m-lap-us")>>)
    /\ UNCHANGED <<menus, g_cmd_buf, buffer, tensors>>

Device == Command \/ Character \/ MenuExit \/ MenuProject \/ EnterMlperf

(* The firmware is in some menu and the harness has not been entered.        *)
DeviceInit ==
    /\ rx = <<>> /\ tx = <<>> /\ g_cmd_buf = <<>>
    /\ g_buff_size = 0 /\ g_buff_pos = 0
    /\ gp_buff = [a \in 0..(MaxDbInputSize - 1) |-> 0]
    /\ input = Spoiled /\ output = Spoiled

=============================================================================
