--------------------------- MODULE MlperfConsole ----------------------------
(* A person at the harness's prompt, who types any of a set of lines in any  *)
(* order, each after the one before has been answered.                       *)
EXTENDS MlperfDevice

CONSTANT Lines           \* the command lines that may be typed

VARIABLES line,          \* the last line typed
          load           \* what was announced and typed since the last db load

vars == <<deviceVars, line, load>>

-----------------------------------------------------------------------------
LoadLine(n)     == <<Token("db"), Space, Token("load"), Space, Num(n), End>>
DataLine(bytes) == <<Token("db"), Space>> \o [i \in 1..Len(bytes) |-> Hex(bytes[i])] \o <<End>>
InferLine       == <<Token("infer"), Space, Num(1), Space, Num(0), End>>
InferOneLine    == <<Token("infer"), Space, Num(1), End>>
InferTwoLine    == <<Token("infer"), Space, Num(2), Space, Num(0), End>>

BytesOf(l) == LET tokens == SelectSeq(l, LAMBDA t : t.w = "byte")
              IN [i \in 1..Len(tokens) |-> tokens[i].v]
NoLoad == [n |-> 0, bytes |-> <<>>]

(* What the person takes to be in the buffer: nothing known after a line     *)
(* with an error in it, else the bytes typed since the announcement, of      *)
(* which the first kIcInputSize are kept.                                    *)
Noted(l) ==
    LET typed == load.bytes \o BytesOf(l)
    IN IF \E n \in 1..MaxDbInputSize : l = LoadLine(n)
       THEN [n |-> l[5].v, bytes |-> <<>>]
       ELSE IF BytesOf(l) = <<>> /\ l[1] # Token("db") THEN load
       ELSE IF l = DataLine(BytesOf(l)) /\ load.n > 0
       THEN [load EXCEPT !.bytes = SubSeq(typed, 1,
                 IF Len(typed) < kIcInputSize THEN Len(typed) ELSE kIcInputSize)]
       ELSE NoLoad

(* Bound: no line is typed that could run past gp_buff.                      *)
Type ==
    /\ rx = <<>>
    /\ \E l \in Lines :
          /\ g_buff_pos + Len(BytesOf(l)) <= MaxDbInputSize
          /\ rx' = l /\ line' = l /\ load' = Noted(l)
    /\ tx' = <<>>
    /\ UNCHANGED <<menus, mlperf, g_cmd_buf, buffer, tensors>>

Init == /\ DeviceInit /\ mlperf = TRUE /\ menus = <<"project">>
        /\ line = <<End>> /\ load = NoLoad

Next == Type \/ (Device /\ UNCHANGED <<line, load>>)

Spec == Init /\ [][Next]_vars

-----------------------------------------------------------------------------
Said(m)  == {i \in 1..Len(tx) : tx[i].m = m}

(* On a buffer announced and filled with a whole input, in whatever lines it *)
(* came and whatever was typed, refused or inferred before, a single         *)
(* inference prints the result for just the bytes typed (infer, ee_infer,    *)
(* th_load_tensor).  Warm-ups and further inferences may find the tensor     *)
(* overwritten, but never another input that had been in it.                 *)
InferIsOfTyped ==
    line[1] = Token("infer") /\ load.n = kIcInputSize /\ Len(load.bytes) = kIcInputSize =>
        LET ofTyped == Network(Quantized(load.bytes))
        IN \A i \in Said("m-results") :
              tx[i].v \in {ofTyped} \cup (IF line = InferLine THEN {} ELSE {Network(Spoiled)})

=============================================================================
