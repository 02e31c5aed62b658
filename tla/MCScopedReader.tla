--------------------------- MODULE MCScopedReader ---------------------------
(* Instances of ScopedReader for TLC. *)
EXTENDS ScopedReader

MCKindOf == [i \in 1..5 |->
    CASE i \in {1, 2} -> "regular" [] i = 3 -> "directory" [] i = 4 -> "special" [] OTHER -> "link"]

(* Two callers whose descriptors meet and a caller beside other code that  *)
(* opens one, each with two Closes; a file of any length; any directory;   *)
(* and every method on what it is not for.                                 *)
Scenario(i, n, names, what) ==
    [at |-> i, size |-> [j \in {1, 2} |-> IF j = i THEN n ELSE 1], children |-> names \cup {"."}, calls |-> what]

One == "k1" :> "Close"
Both == One @@ ("k2" :> "Close")

MCScenarios ==
    {Scenario(1, 1, {}, ("one" :> "ReadFile") @@ ("two" :> "Stat") @@ Both),
     Scenario(1, 1, {}, ("one" :> "ReadFile") @@ ("other" :> "open") @@ Both),
     Scenario(1, 1, {}, ("one" :> "StatFS") @@ ("two" :> "Readlink") @@ ("other" :> "open") @@ Both)}
    \cup {Scenario(1, n, {}, ("one" :> "ReadFile") @@ One) : n \in {0, 2, 3}}
    \cup {Scenario(3, 1, names, ("one" :> "ReadDir") @@ One) : names \in SUBSET {"a", "b", "c"}}
    \cup {Scenario(i, 1, {}, ("one" :> m) @@ One) : i \in {1, 3, 4, 5, None},
            m \in {"ReadFile", "FileCapabilities", "ReadDir", "Readlink", "ExecutableAccess",
                   "DirectoryAccess"}}

MCNameBytes == [n \in {".", "a", "b", "c"} |-> IF n = "c" THEN 2 ELSE 1]

(* The memory reader's trees: below /r a directory or a file, links to a   *)
(* sibling, up, out, in a circle, through a missing name, and absolute     *)
(* ones in and out of the root; /o is outside.                             *)
Dir == [kind |-> "dir", abs |-> FALSE, target |-> <<>>]
File == [kind |-> "file", abs |-> FALSE, target |-> <<>>]
Forced == [kind |-> "forced", abs |-> FALSE, target |-> <<>>]
Link(target) == [kind |-> "link", abs |-> FALSE, target |-> target]
AbsLink(target) == [kind |-> "link", abs |-> TRUE, target |-> target]

NodesA == {Dir, File, Link(<<"b">>), Link(<<"..", "o">>), Link(<<"b", "..">>), Link(<<"a">>), Link(<<>>),
           AbsLink(<<"r", "b">>), AbsLink(<<"r", "..", "o">>), AbsLink(<<"o">>), AbsLink(<<"r">>)}
NodesB == {Dir, File, Forced, Link(<<"a">>), Link(<<".", "">>), Link(<<"x">>), Link(<<"a", "c">>)}
NodesC == {Dir, File, Link(<<"..", "b">>), Link(<<"..", "..">>), AbsLink(<<"r", "b">>)}

R == <<"r">>
MCTrees == { (R :> Dir) @@ (<<"o">> :> File) @@ (<<"r", "a">> :> a) @@ (<<"r", "b">> :> b)
                @@ (IF a = Dir THEN <<"r", "a", "c">> :> c ELSE <<>>)
                @@ (IF b = Dir THEN <<"r", "b", "c">> :> c ELSE <<>>)
             : a \in NodesA, b \in NodesB, c \in NodesC }

MCSubpaths == UNION {[1..n -> {"a", "b", "c", ".."}] : n \in 0..3}
              \cup {<<"a", "">>, <<"", "a">>, <<".", "a">>, <<".">>, <<"b", ".", "..">>}
=============================================================================
