--------------------------- MODULE MCPolicyLoader ---------------------------
(***************************************************************************)
(* Small instance of PolicyLoader: all files in which at most two settings *)
(* or sections differ from a base file, each by any word, plain or quoted. *)
(***************************************************************************)
EXTENDS PolicyLoader

MCWord == {"block", "BLOCK", "mask", "log_only", "off", "OFF", "true", "allow", "degrade",
           "null", "-1", "0", "2", "nope"}

MCLower == [w \in MCWord |-> CASE w = "BLOCK" -> "block" [] w = "OFF" -> "off" [] OTHER -> w]

MCBooleanOf == [w \in {"off", "OFF", "true"} |-> w = "true"]

MCNumberOf == [w \in {"-1", "0", "2"} |-> CASE w = "-1" -> -1 [] w = "0" -> 0 [] w = "2" -> 2]

Plain(w) == [word |-> w, quoted |-> FALSE]

\* The file has an entity; the rest is left to the defaults.
Base == [scalars |-> [[k \in Key |-> Absent] EXCEPT !.entity_action = Plain("block")],
         sections |-> [s \in {"top", "entities", "ner", "injection"} |-> "mapping"]]

Changes == {<<"scalars", k, s>> : k \in Key, s \in Scalar \cup {Absent}}
           \cup {<<"sections", s, shape>> : s \in {"top", "entities", "ner", "injection"},
                                            shape \in {"empty", "other"}}

Changed(f, c) == [f EXCEPT ![c[1]][c[2]] = c[3]]

\* One word for each way of reading it: the second change needs no more.
FewChanges == {c \in Changes : c[1] = "scalars" => c[3] \in {Plain("off"), Plain("2"), Absent}}

MCFiles == {Changed(Changed(Base, c), d) : c \in Changes, d \in FewChanges}

=============================================================================
