-------------------------- MODULE MCMlperfConsole ---------------------------
EXTENDS MlperfConsole

(* Announcements of nothing, of less than an input and of an input; data     *)
(* lines that fit, that overlap the end, and that are malformed after a good *)
(* byte, with an odd or an even number of characters; one, two and no        *)
(* inferences, with and without warm-ups; and lines that change nothing.     *)
MCLines ==
    {LoadLine(n) : n \in {0, 2, 3}}
    \cup {DataLine(b) : b \in { <<200>>, <<0, 200>> }}
    \cup { <<Token("db"), Space, Hex(200), Token("nibble"), End>>,
           <<Token("db"), Space, Hex(200), Token("x"), Token("x"), End>>,
           <<Token("db"), Space, Token("load"), End>>,
           InferLine, InferOneLine, InferTwoLine,
           <<Token("infer"), Space, Num(0), End>>,
           <<Token("results"), End>>, <<End>> }

=============================================================================
