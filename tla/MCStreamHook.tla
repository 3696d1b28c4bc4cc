---------------------------- MODULE MCStreamHook ----------------------------
(***************************************************************************)
(* Small instance of StreamHook: two choices, one of which may have the    *)
(* arguments of a tool call as well.                                       *)
(***************************************************************************)
EXTENDS StreamHook, MCPlaceholders

MCIndex == {0, 1}

\* With placeholders, with the beginning of one, with one beyond the index
\* width, with a "[" that begins none.
Contents == {
    << >>,
    <<"n", "[", "A", "1", "]">>,
    <<"[", "A", "1", "]", "[", "A">>,
    <<"[", "[", "A", "1", "1", "]">>,
    <<"[", "A", "1", "1", "1", "]">> }

Arguments == {<< >>, <<"[", "A", "1", "]">>}

MCResponses ==
    {[cp \in MCIndex \X Part |->
        IF cp[2] = "content" THEN (IF cp[1] = 0 THEN first ELSE second)
        ELSE IF cp[1] = 0 THEN << >> ELSE arguments] :
     first \in Contents, second \in Contents, arguments \in Arguments}

=============================================================================
