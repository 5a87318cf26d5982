----------------------------- MODULE MCMisterFs -----------------------------
(* A folder with two files and a directory; the calls of a program that     *)
(* reads and writes, of one that works on names, and of one that searches.  *)
EXTENDS MisterFs, TLC

MCFiles == (<<"a">> :> [data |-> <<1, 2, 3>>, attr |-> 0]) @@ (<<"s", "b">> :> [data |-> <<4>>, attr |-> 0])
MCDirs == {<<"s">>}
MCNames == {"a", "b", "s", "s1"}
MCBegins == {<<"s", "s1">>}

K(fn) == [fn |-> fn, h |-> 1, d |-> 1, path |-> Path("M", <<>>), to |-> Path("M", <<>>),
          word |-> 0, mode |-> 0, n |-> 0, bl |-> 0, data |-> <<>>]
M(names) == Path("M", names)

FileCalls ==
  {[K("OPEN") EXCEPT !.path = M(<<"a">>), !.word = 2],
   [K("OPEN") EXCEPT !.path = M(<<"a">>), !.word = 1, !.h = 2],
   [K("SPOPNFIL") EXCEPT !.path = M(<<"s", "b">>), !.mode = 0, !.h = 2],
   [K("READFIL") EXCEPT !.n = 5, !.data = <<0, 0, 0, 0, 0>>],
   [K("READFIL") EXCEPT !.n = 2, !.data = <<0, 0>>, !.h = 2],
   [K("WRITEFIL") EXCEPT !.n = 3, !.data = <<7, 8, 9>>],
   [K("WRITEFIL") EXCEPT !.n = 1, !.data = <<6>>, !.h = 2],
   [K("SKFMEND") EXCEPT !.n = -1], K("CLSFIL"), K("CMMTFIL"), K("UNLOCKFIL"), K("PRINTSET"), K("2D"),
   [K("LOCKFIL") EXCEPT !.n = 1], [K("LOCKFIL") EXCEPT !.n = 3], [K("LOCKFIL") EXCEPT !.bl = 1], [K("LOCKFIL") EXCEPT !.bl = 2]}
NameCalls ==
  {[K("MKDIR") EXCEPT !.path = M(<<"s1">>)], [K("MKDIR") EXCEPT !.path = M(<<"">>)],
   [K("RMDIR") EXCEPT !.path = M(<<"s">>)], [K("RMDIR") EXCEPT !.path = M(<<"s1">>)],
   [K("CHDIR") EXCEPT !.path = M(<<"s1">>)],
   [K("SETATTR") EXCEPT !.path = M(<<"a">>), !.word = 1], [K("GETATTR") EXCEPT !.path = M(<<"a">>)],
   [K("RENAME") EXCEPT !.path = M(<<"a">>), !.to = M(<<"s", "a">>)],
   [K("RENAME") EXCEPT !.path = M(<<"a">>), !.to = M(<<"s", "?">>)],
   [K("RENAME") EXCEPT !.path = M(<<"a">>), !.to = Path("C", <<"a">>)],
   [K("DELETE") EXCEPT !.path = M(<<"s", "b">>)], [K("DELETE") EXCEPT !.path = Path("C", <<"a">>)],
   [K("CREATE") EXCEPT !.path = M(<<"s1", "b">>), !.word = 1], [K("CREATE") EXCEPT !.path = M(<<"?">>)],
   [K("DISKSPACE") EXCEPT !.path = M(<<>>)]}
SearchCalls ==
  {[K("FINDFIRST") EXCEPT !.path = M(<<"?">>)], K("FINDNEXT"),
   [K("FINDFIRST") EXCEPT !.path = M(<<"s", "?">>), !.d = 2], [K("FINDNEXT") EXCEPT !.d = 2],
   [K("MKDIR") EXCEPT !.path = M(<<"s1">>)]}
MCPrograms ==
  {[calls |-> FileCalls, most |-> 4, loads |-> 1], [calls |-> NameCalls, most |-> 4, loads |-> 1],
   [calls |-> SearchCalls, most |-> 6, loads |-> 1],
   [calls |-> {[K("OPEN") EXCEPT !.path = M(<<"a">>)], K("CLSFIL")}, most |-> 1, loads |-> 5]}

=============================================================================
