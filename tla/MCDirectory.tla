---------------------------- MODULE MCDirectory ----------------------------
(* Small directories: a directory of two blocks with a subdirectory, files,
   entries that are not in use; directories without blocks, with extents and
   without; one that needs the indirect and the double indirect block; names
   that the code page has under another code, or not at all. *)
EXTENDS Directory

MCEntry(name, inode, type) == [name |-> name, inode |-> inode, type |-> type]
MCDots(self, parent) == <<MCEntry(".", self, "dir"), MCEntry("..", parent, "dir")>>

MCTrees == {
  (* \a\b, \a\g, a file in \a with a Cyrillic name, \f and a deleted \x; with
     extents, \a\b without blocks *)
  [ino \in {2, 3, 4} |->
     CASE ino = 2 -> <<MCDots(2, 2) \o <<MCEntry("a", 3, "dir")>>,
                       <<MCEntry("x", 0, "file"), MCEntry("f", 10, "file")>>>>
       [] ino = 3 -> <<MCDots(3, 2) \o <<MCEntry("g:utf8", 11, "file"), MCEntry("b", 4, "dir"),
                                       MCEntry("zhe", 13, "file")>>>>
       [] ino = 4 -> <<>>],
  (* \a is empty to the last block; \x was deleted, and there is a new \x; the
     root has blocks of all regions, and no directory has extents *)
  [ino \in {2, 3, 4} |->
     CASE ino = 2 -> <<<<MCEntry("x", 0, "dir"), MCEntry("a", 3, "dir")>>,
                       <<MCEntry("x", 4, "dir")>>, <<MCEntry("b", 0, "file")>>,
                       <<MCEntry("f", 10, "file")>>>>
       [] ino = 3 -> <<>>
       [] ino = 4 -> <<MCDots(4, 2) \o <<MCEntry("g:utf8", 12, "file")>>>>]}

MCExtents == [t \in MCTrees |-> IF t[4] = <<>> THEN {2, 3, 4} ELSE {}]

MCPaths == {<<>>, <<"a">>, <<"f">>, <<"a", "b">>, <<"a", "g:acp">>, <<"x", "g:acp">>,
            <<"a", "?">>, <<"a", "x", "g:acp">>}

MCToAcp == [name \in {".", "..", "a", "b", "f", "x", "?", "g:utf8", "zhe"} |->
              CASE name = "g:utf8" -> "g:acp" [] name = "zhe" -> "?" [] OTHER -> name]
MCToUtf8 == [name \in {".", "..", "a", "b", "f", "x", "?", "g:acp"} |->
               IF name = "g:acp" THEN "g:utf8" ELSE name]

=============================================================================
