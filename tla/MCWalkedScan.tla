---------------------------- MODULE MCWalkedScan ----------------------------
(***************************************************************************)
(* A source file x.ts in "lib", and two links, one before and one after    *)
(* "lib" in name order, one to the file and one to its directory; every    *)
(* exclusion of the paths that go through a link.                          *)
(***************************************************************************)
EXTENDS WalkedScan, TLC

CONSTANTS root, lib, x

MCNames == {"a", "lib", "x.ts", "z"}

AliasPaths  == {<<"a">>, <<"z">>, <<"a", "x.ts">>, <<"z", "x.ts">>}
MCWalkPaths == AliasPaths \cup {<<"lib", "x.ts">>}

Child(name, entryKind, target) == [name |-> name, kind |-> entryKind, target |-> target]

Tree(a, z) ==
  [entries |-> root :> <<Child("a", "link", a), Child("lib", "directory", lib),
                         Child("z", "link", z)>>
               @@ lib :> <<Child("x.ts", "file", x)>>,
   realPath |-> root :> <<>> @@ lib :> <<"lib">> @@ x :> <<"lib", "x.ts">>,
   unreadable |-> {}]

DirectoryLinks == {Tree(lib, x), Tree(x, lib)}

MCAliasRules ==
  [excluded : SUBSET AliasPaths, generated : {{}}]
=============================================================================
