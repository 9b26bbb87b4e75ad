---------------------------- MODULE MCRecordings ----------------------------
(* Two segments of one channel, so that the earlier one can be stored before, *)
(* between and behind the pages that list them, beside one of a path that     *)
(* carries a key; or one of the channel beside one of the path "." or "..".   *)
EXTENDS Recordings

CONSTANTS a, keyed, dot, dotdot, l1

MCPaths == {a, keyed, dot, dotdot}
MCNested == {keyed}
MCListers == {l1}

\* The keys in their order: <start 2>, recordings/<start 1> and those of a.
MCSegments == {<<a, 1>>, <<a, 2>>, <<keyed, 1>>, <<dot, 1>>, <<dotdot, 1>>}
MCWorkloads == {{<<a, 1>>, <<a, 2>>, <<keyed, 1>>}, {<<a, 1>>, <<dot, 1>>}, {<<a, 2>>, <<dotdot, 1>>}}
MCPlace == [s \in MCSegments |->
               CASE s = <<dotdot, 1>> -> 1 [] s = <<dot, 1>> -> 2
                 [] s = <<a, 1>> -> 3 [] s = <<a, 2>> -> 4 [] OTHER -> 5]
=============================================================================
