----------------------------- MODULE MCNodeKeys -----------------------------
(***************************************************************************)
(* NodeKeys with two threads and one key, and a library of every kind that *)
(* native() tells apart.                                                   *)
(***************************************************************************)
EXTENDS NodeKeys
CONSTANTS main, worker, first, connect, publishGroup

Functions == {connect, publishGroup}

Library(file, opens, exports, abi, release, wire) ==
  [file |-> file, opens |-> opens, exports |-> exports, abi |-> abi,
   release |-> release, wire |-> wire]

Ours  == Library(TRUE, TRUE, Functions, 1, "ours", <<1, 0>>)
Newer == Library(TRUE, TRUE, Functions, 1, "newer", <<1, 1>>)
Others == { Library(FALSE, FALSE, {}, 1, NoText, NoText),
            Library(TRUE, FALSE, {}, 1, NoText, NoText),
            Library(TRUE, TRUE, {connect}, 1, "ours", <<1, 0>>),
            Library(TRUE, TRUE, Functions, 2, "ours", <<1, 0>>),
            Library(TRUE, TRUE, Functions, 1, NoText, <<1, 0>>),
            Library(TRUE, TRUE, Functions, 1, "ours", NoText),
            Library(TRUE, TRUE, Functions, 1, "ours", <<2, 0>>) }

SomeFiles == {Newer} \cup Others
OurWire == <<1, 0>>
=============================================================================
