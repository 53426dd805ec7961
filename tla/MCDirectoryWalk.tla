-------------------------- MODULE MCDirectoryWalk ---------------------------
(***************************************************************************)
(* One tree with a link before and a link after the directory "lib" in     *)
(* name order and one inside it.  The links lead anywhere: to their own    *)
(* ancestors, into a skipped directory, out of the root, to files, nowhere.*)
(***************************************************************************)
EXTENDS DirectoryWalk, TLC

CONSTANTS root, lib, vendor, pkg, ext,      \* directories
          x, y, notes, secret               \* files

MCNames   == {"a", "lib", "notes.md", "sock", "vendor", "z", "up", "x.ts", "pkg",
              "y.ts", "..", "ext", "secret.ts"}
Child(name, entryKind, target) == [name |-> name, kind |-> entryKind, target |-> target]

EntriesOf(a, z, up) ==
  root :> <<Child("a", "link", a), Child("lib", "directory", lib),
            Child("notes.md", "file", notes), Child("sock", "special", NoNode),
            Child("vendor", "directory", vendor), Child("z", "link", z)>>
  @@ lib :> <<Child("up", "link", up), Child("x.ts", "file", x)>>
  @@ vendor :> <<Child("pkg", "directory", pkg)>>
  @@ pkg :> <<Child("y.ts", "file", y)>>
  @@ ext :> <<Child("secret.ts", "file", secret)>>

RealPaths ==
  root :> <<>> @@ lib :> <<"lib">> @@ vendor :> <<"vendor">> @@ pkg :> <<"vendor", "pkg">>
  @@ ext :> <<"..", "ext">> @@ x :> <<"lib", "x.ts">> @@ y :> <<"vendor", "pkg", "y.ts">>
  @@ notes :> <<"notes.md">> @@ secret :> <<"..", "ext", "secret.ts">>

MCFileSystems ==
  {[entries |-> EntriesOf(a, z, up), realPath |-> RealPaths, unreadable |-> unreadable] :
     a \in Nodes \cup {NoNode}, z \in {lib, x, pkg, vendor, NoNode},
     up \in {root, pkg, ext, secret, notes}, unreadable \in {{}, {lib}}}
=============================================================================
