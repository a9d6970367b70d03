----------------------------- MODULE MCComposed -----------------------------
(* Schemas with each control structure, alone and in one another.          *)
EXTENDS Composed, TLC

(* A for loop around a bloc with a join, then d.                           *)
ForLinks == {<<"F.a", "F.for">>, <<"F.for", "F.d">>, <<"F.x", "F.z">>, <<"F.y", "F.z">>}

(* A switch between a task and a while loop, beside a task; two branches   *)
(* of a ForEachLoop, then d; a ForEachLoop in a for loop, then d; a for    *)
(* loop in a branch of a ForEachLoop.                                      *)
OtherLinks == {<<"S.sw", "S.d">>, <<"E.1a", "E.1b">>, <<"E.2a", "E.2b">>, <<"E.each", "E.d">>,
               <<"N.for", "N.d">>}

MCNodes == {"F", "F.a", "F.for", "F.b", "F.x", "F.y", "F.z", "F.d",
            "S", "S.sw", "S.one", "S.while", "S.w", "S.beside", "S.d",
            "E", "E.each", "E.1", "E.1a", "E.1b", "E.2", "E.2a", "E.2b", "E.d",
            "N", "N.for", "N.each", "N.1", "N.2", "N.d",
            "K", "K.each", "K.1", "K.for", "K.x"}
MCSchemas == {"F", "S", "E", "N", "K"}
MCFather ==
  [n \in MCNodes |->
     CASE n \in MCSchemas -> ""
       [] n \in {"F.a", "F.for", "F.d"} -> "F"
       [] n = "F.b" -> "F.for"
       [] n \in {"F.x", "F.y", "F.z"} -> "F.b"
       [] n \in {"S.sw", "S.beside", "S.d"} -> "S"
       [] n \in {"S.one", "S.while"} -> "S.sw"
       [] n = "S.w" -> "S.while"
       [] n \in {"E.each", "E.d"} -> "E"
       [] n \in {"E.1", "E.2"} -> "E.each"
       [] n \in {"E.1a", "E.1b"} -> "E.1"
       [] n \in {"E.2a", "E.2b"} -> "E.2"
       [] n \in {"N.for", "N.d"} -> "N"
       [] n = "N.each" -> "N.for"
       [] n = "K.each" -> "K"
       [] n = "K.1" -> "K.each"
       [] n = "K.for" -> "K.1"
       [] n = "K.x" -> "K.for"
       [] OTHER -> "N.each"]
MCKind ==
  [n \in MCNodes |->
     CASE n \in {"F", "F.b", "S", "E", "E.1", "E.2", "N", "K", "K.1"} -> "bloc"
       [] n \in {"F.for", "N.for", "K.for"} -> "for"
       [] n = "S.while" -> "while"
       [] n = "S.sw" -> "switch"
       [] n \in {"E.each", "N.each", "K.each"} -> "foreach"
       [] OTHER -> "task"]
MCLinks == ForLinks \union OtherLinks
MCFakeOf == ("F.for" :> "F.for!") @@ ("S.sw" :> "S.sw!") @@ ("S.while" :> "S.while!")
              @@ ("E.each" :> "E.each!") @@ ("N.for" :> "N.for!") @@ ("N.each" :> "N.each!")
              @@ ("K.each" :> "K.each!") @@ ("K.for" :> "K.for!")
MCBranches == ("S.sw" :> <<"S.one", "S.while">>) @@ ("E.each" :> <<"E.1", "E.2">>)
                @@ ("N.each" :> <<"N.1", "N.2">>) @@ ("K.each" :> <<"K.1">>)
MCOptions == ("F.for" :> {-1, 0, 2}) @@ ("S.sw" :> 1..3) @@ ("S.while" :> {0, 1})
               @@ ("E.each" :> {0, 1, 3}) @@ ("N.for" :> {0, 2}) @@ ("N.each" :> {1, 3})
               @@ ("K.each" :> {2}) @@ ("K.for" :> {0, 1})
MCMayFail == {"F.x", "F.z", "S.one", "S.w", "S.beside", "E.1a", "E.1b", "E.2a", "N.1", "K.x"}
MCUnloadable == MCMayFail \ {"K.x"}
MCKeepGoings == ("F" :> {FALSE}) @@ ("S" :> {FALSE}) @@ ("E" :> {TRUE}) @@ ("N" :> {TRUE})
                  @@ ("K" :> {TRUE})
ForSchema == {"F"}
ForKeepGoings == ("F" :> {FALSE})

(* A while loop around a switch that may have no case to run.              *)
WhileNodes == {"W", "W.while", "W.sw", "W.one", "W.d"}
WhileSchema == {"W"}
WhileFather == ("W" :> "") @@ ("W.while" :> "W") @@ ("W.sw" :> "W.while")
                 @@ ("W.one" :> "W.sw") @@ ("W.d" :> "W")
WhileKind == ("W" :> "bloc") @@ ("W.while" :> "while") @@ ("W.sw" :> "switch")
               @@ ("W.one" :> "task") @@ ("W.d" :> "task")
WhileLinks == {<<"W.while", "W.d">>}
WhileFakeOf == ("W.while" :> "W.while!") @@ ("W.sw" :> "W.sw!")
WhileBranches == ("W.sw" :> <<"W.one">>)
WhileOptions == ("W.while" :> {0, 1}) @@ ("W.sw" :> {1, 2})
WhileKeepGoings == ("W" :> {FALSE})
=============================================================================
