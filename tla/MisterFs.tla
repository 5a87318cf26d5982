------------------------------ MODULE MisterFs ------------------------------
(***************************************************************************)
(* MiSTerFS, the resident program behind the drive of the shared folder:   *)
(* it serves DOS's network redirector calls (INT 2Fh/11xxh) by putting     *)
(* each into a frame of shared memory, where the host finds it, does it    *)
(* and answers.  Reads and writes go in chunks.  The program installs      *)
(* itself in the chain of INT 2Fh and takes itself out of it.              *)
(* DOS and the host's file server are external: they are here as far as    *)
(* the program uses them.                                                  *)
(***************************************************************************)
EXTENDS Integers, Sequences, FiniteSets, SequencesExt

CONSTANTS Programs,   \* what may run: the calls it makes, how many, and how many loads and unloads there are
          Files,      \* the files of the shared folder at the start ...
          Dirs,       \* ... and its directories, both by path
          Names,      \* the names there are
          Begins,     \* pairs of names of which one begins the other
          Chunk,      \* CHUNKLEN, in units
          Locks,      \* the locks a frame has room for
          Lows,       \* values of the low byte of a request's number (256)
          Tokens,     \* values of a search's token (65536)
          Ids,        \* multiplex numbers (40h)
          MaxRefusals   \* bound on what the host refuses

ASSUME FsAssumption ==
  /\ Chunk \in Nat \ {0} /\ Lows \in 2..256 /\ Tokens \in Nat \ {0}
  /\ Ids \in Nat /\ Locks \in Nat /\ MaxRefusals \in Nat
  /\ Names \subseteq STRING /\ IsFiniteSet(Names)

\* A file by its path, and what the folder may hold.
Paths == Seq(STRING)
File == [data : Seq(Int), attr : Nat]
IsFolder(files) == files \in [DOMAIN files -> File] /\ DOMAIN files \subseteq Paths
ASSUME FolderAssumption == IsFolder(Files) /\ Dirs \subseteq Paths

VARIABLES dos,    \* the INT 2Fh chain, the drives, open files, searches, the transfer buffer
          tsr,    \* the resident data
          box,    \* the shared memory
          host,   \* the file server
          cpu,    \* where the call is
          call, ret,
          hist    \* history: the state before the call, what the host did, what searches found
vars == <<dos, tsr, box, host, cpu, call, ret, hist>>

Less(a, b) == IF a < b THEN a ELSE b
More(a, b) == IF a > b THEN a ELSE b
Handles == {1, 2}
Searches == {1, 2}
Drives == {"C", "M"}            \* up to the last drive; C is a disk
NoDta == [drv |-> "C", par |-> 0, entry |-> 0]
NoSft == [dev |-> "C", id |-> 0, mode |-> 0, pos |-> 0, size |-> 0, count |-> 0]
NoHistory == [files |-> Files, dirs |-> Dirs, sft |-> [h \in Handles |-> NoSft]]

----------------------------------------------------------------------------
(* Calls.  A path is a drive letter and names; one with the name "" is the *)
(* letter alone, and "?" is a name with a wildcard.                        *)

Path(d, names) == [drv |-> d, names |-> names]
Short(p) == p.names = <<"">>
Wild(p) == p.names # <<>> /\ Last(p.names) = "?"
\* One path begins the other, compared letter by letter.
BeginsWith(p, q) ==
  \/ p = q
  \/ /\ p.drv = q.drv /\ p.names # <<>> /\ Len(p.names) <= Len(q.names)
     /\ Front(p.names) = SubSeq(q.names, 1, Len(p.names) - 1)
     /\ LET a == Last(p.names) b == q.names[Len(p.names)] IN a = b \/ <<a, b>> \in Begins
  \/ p.drv = q.drv /\ p.names = <<>>

OnHandle == {"CLSFIL", "CMMTFIL", "READFIL", "WRITEFIL", "LOCKFIL", "UNLOCKFIL", "SKFMEND", "2D"}
OnPath == {"SETATTR", "GETATTR", "DELETE", "OPEN", "CREATE", "SPOPNFIL", "MKDIR", "RMDIR", "CHDIR", "RENAME"}
Opens == {"OPEN", "CREATE", "SPOPNFIL"}
supportedfunctions == OnHandle \cup OnPath \cup {"DISKSPACE", "FINDFIRST", "FINDNEXT"}

Functions == supportedfunctions \cup {"PRINTSET", "none"}
Place == [drv : Drives, names : Paths]
Call == [fn : Functions, h : Handles, d : Searches, path : Place, to : Place,
         word : Nat, mode : Nat, n : Int, bl : Nat, data : Seq(Int)]
NoCall == [fn |-> "none", h |-> 1, d |-> 1, path |-> Path("C", <<>>), to |-> Path("C", <<>>),
           word |-> 0, mode |-> 0, n |-> 0, bl |-> 0, data |-> <<>>]
Moves == {"READFIL", "WRITEFIL"}
\* A caller's buffer holds what it asks to be moved.
ASSUME ProgramsAssumption ==
  /\ Programs \subseteq [calls : SUBSET Call, most : Nat, loads : Nat]
  /\ \A p \in Programs : \A k \in p.calls :
       k.fn \in Moves => k.n \in 0..Len(k.data)

\* The drive of a call: of its handle, of its search, of its path, or the one
\* whose current directory DOS points at.
DriveOf(k) ==
  CASE k.fn \in OnHandle -> dos.sft[k.h].dev
    [] k.fn = "FINDNEXT" -> dos.dta[k.d].drv
    [] k.fn \in OnPath \/ k.fn \in {"DISKSPACE", "FINDFIRST"} -> k.path.drv

----------------------------------------------------------------------------
(* Shared memory: the number of the last request, the number the host has  *)
(* answered, and the frame, which holds the request and then the answer.   *)

Enable == 41797                 \* A345h, which also opens the window
Mark == 42330                   \* A55Ah, never the number of a request
NextNumber(p) == LET low == (p + 1) % Lows IN ((low + 77) % 256) * 256 + low

Sent(q) ==
  /\ box' = [number |-> NextNumber(box.number), ack |-> Mark, frame |-> q]
  /\ cpu' = [cpu EXCEPT !.pc = "wait"]

NoQuery == [fn |-> "none", path |-> <<>>, to |-> <<>>, word |-> 0, mode |-> 0, id |-> 0, off |-> 0,
            n |-> 0, data |-> <<>>, token |-> 0, entry |-> 0]
Ask(k) == [NoQuery EXCEPT !.fn = k.fn]
Sft(k) == dos.sft[k.h]

\* Variant: every chunk of a read is asked for from the file's position on.
ReadQuerySame(k) ==
  [Ask(k) EXCEPT !.id = Sft(k).id, !.off = Sft(k).pos, !.n = Less(k.n - cpu.total, Chunk)]
ReadQuery(k) ==
  [Ask(k) EXCEPT !.id = Sft(k).id, !.off = Sft(k).pos + cpu.total, !.n = Less(k.n - cpu.total, Chunk)]
WriteQuery(k) ==
  LET n == Less(k.n - cpu.total, Chunk) IN
  [Ask(k) EXCEPT !.id = Sft(k).id, !.off = Sft(k).pos, !.n = n,
                 !.data = SubSeq(dos.buf, cpu.total + 1, cpu.total + n)]
\* BL says lock or unlock.  A bad one is not stopped: the function that follows is
\* asked for.
QueryFn(k) == CASE k.fn = "LOCKFIL" /\ k.bl = 1 -> "UNLOCKFIL"
              [] k.fn = "LOCKFIL" /\ k.bl > 1 -> "DISKSPACE"
              [] OTHER -> k.fn
Query(k) ==
  CASE k.fn = "READFIL" -> ReadQuery(k)
    [] k.fn = "WRITEFIL" -> WriteQuery(k)
    [] k.fn = "CLSFIL" -> [Ask(k) EXCEPT !.id = Sft(k).id]
    [] k.fn = "SKFMEND" -> [Ask(k) EXCEPT !.id = Sft(k).id, !.off = k.n]
    [] k.fn = "LOCKFIL" -> [Ask(k) EXCEPT !.fn = QueryFn(k), !.id = Sft(k).id, !.n = k.n]
    [] k.fn = "RENAME" -> [Ask(k) EXCEPT !.path = k.path.names, !.to = k.to.names]
    [] k.fn = "FINDFIRST" -> [Ask(k) EXCEPT !.path = k.path.names, !.token = tsr.token]
    [] k.fn = "FINDNEXT" -> [Ask(k) EXCEPT !.token = dos.dta[k.d].par, !.entry = dos.dta[k.d].entry]
    [] k.fn \in Opens -> [Ask(k) EXCEPT !.path = k.path.names, !.word = tsr.word, !.mode = k.mode]
    [] k.fn = "SETATTR" -> [Ask(k) EXCEPT !.path = k.path.names, !.word = tsr.word]
    [] k.fn = "DISKSPACE" -> Ask(k)
    [] OTHER -> [Ask(k) EXCEPT !.path = k.path.names]

----------------------------------------------------------------------------
(* The file server.  It may refuse anything, and it may write less than it *)
(* was given.                                                              *)

Reply(len, ax, out) == [len |-> len, ax |-> ax, out |-> out]
Outcome(r, h) == [r |-> r, h |-> h]
Overlay(f, at, d) ==
  IF d = <<>> THEN f
  ELSE [i \in 1..More(Len(f), at + Len(d)) |->
          IF i > at /\ i <= at + Len(d) THEN d[i - at] ELSE IF i <= Len(f) THEN f[i] ELSE 0]
Without(f, x) == [p \in DOMAIN f \ {x} |-> f[p]]
With(f, x, v) == [p \in DOMAIN f \cup {x} |-> IF p = x THEN v ELSE f[p]]
Entries(dir) == {n \in Names : Append(dir, n) \in DOMAIN host.files \cup host.dirs}
\* The host lists a directory in an order of its own.
Listing(S) == CHOOSE s \in [1..Cardinality(S) -> S] : \A n \in S : \E i \in 1..Cardinality(S) : s[i] = n
Inside(dir) == Listing(Entries(dir))
NotThere == {Outcome(Reply(0, 2, <<>>), host)}
Opened(p, size, mode, h) == {Outcome(Reply(25, 0, <<Len(host.ids) + 1, size, mode, 1>>), [h EXCEPT !.ids = Append(@, p)])}
Done(h) == {Outcome(Reply(0, 0, <<>>), h)}

OnOpenFile(q) ==
  LET p == host.ids[q.id]
      f == host.files[p].data
  IN  IF p \notin DOMAIN host.files THEN NotThere
      ELSE CASE q.fn = "READFIL" ->
                  LET d == SubSeq(f, q.off + 1, Less(q.off + q.n, Len(f))) IN {Outcome(Reply(Len(d), 0, d), host)}
             [] q.fn = "WRITEFIL" ->
                  {Outcome(Reply(2, 0, <<n>>),
                     [host EXCEPT !.files[p].data = Overlay(@, q.off, SubSeq(q.data, 1, n)), !.wrote = @ + n])
                     : n \in {q.n, q.n - 1}}
             [] q.fn = "SKFMEND" -> {Outcome(Reply(4, 0, <<More(Len(f) + q.off, 0)>>), host)}
             [] OTHER -> Done(host)

OnName(q) ==
  LET p == q.path
      file == p \in DOMAIN host.files
      dir == p \in host.dirs
      parent == p # <<>> /\ (Front(p) = <<>> \/ Front(p) \in host.dirs)
      new == With(host.files, p, [data |-> <<>>, attr |-> q.word])
  IN  CASE q.fn = "MKDIR" /\ parent /\ ~dir /\ ~file -> Done([host EXCEPT !.dirs = @ \cup {p}])
        [] q.fn = "RMDIR" /\ dir /\ Entries(p) = {} -> Done([host EXCEPT !.dirs = @ \ {p}])
        [] q.fn = "CHDIR" /\ (dir \/ p = <<>>) -> Done(host)
        [] q.fn = "DELETE" /\ file -> Done([host EXCEPT !.files = Without(@, p)])
        [] q.fn = "SETATTR" /\ file -> Done([host EXCEPT !.files[p].attr = q.word])
        [] q.fn = "GETATTR" /\ file -> {Outcome(Reply(10, 0, <<host.files[p].attr, Len(host.files[p].data)>>), host)}
        [] q.fn = "RENAME" /\ file /\ q.to \notin DOMAIN host.files \cup host.dirs ->
             Done([host EXCEPT !.files = With(Without(@, p), q.to, @[p])])
        [] q.fn \in {"OPEN", "SPOPNFIL"} /\ file ->
             Opened(p, Len(host.files[p].data), IF q.fn = "OPEN" THEN q.word ELSE q.mode, host)
        [] q.fn = "CREATE" /\ parent /\ ~dir -> Opened(p, 0, 2, [host EXCEPT !.files = new])
        [] OTHER -> NotThere

\* A search is a list the host keeps under the token of FindFirst.
OnSearch(q) ==
  LET list == IF q.fn = "FINDFIRST" THEN Inside(Front(q.path)) ELSE host.found[q.token]
      h == IF q.fn = "FINDFIRST" THEN [host EXCEPT !.found[q.token] = list] ELSE host
  IN  IF q.entry >= Len(list) THEN {Outcome(Reply(0, 18, <<>>), h)}
      ELSE {Outcome(Reply(24, 0, <<list[q.entry + 1], q.token, q.entry + 1>>), h)}

Does(q) ==
  CASE q.fn \in OnHandle -> OnOpenFile(q)
    [] q.fn \in OnPath -> OnName(q)
    [] q.fn \in {"FINDFIRST", "FINDNEXT"} -> OnSearch(q)
    [] q.fn = "DISKSPACE" -> {Outcome(Reply(6, 4, <<1000, 512, 500>>), host)}
Refusals == IF hist.refusals < MaxRefusals
              THEN {Outcome(Reply(0, 5, <<>>), host), Outcome(Reply(65535, 0, <<>>), host)} ELSE {}
Refusing(o) == IF o \in Refusals THEN hist.refusals + 1 ELSE hist.refusals
DoneBy(o) == hist.done /\ o.r.len # 65535 /\ (o.r.ax \in {0, 18} \/ box.frame.fn = "DISKSPACE")

HostServes ==
  /\ box.ack = Mark /\ box.frame.fn # "answer"
  /\ \E o \in Does(box.frame) \cup Refusals :
       /\ host' = o.h
       /\ box' = [box EXCEPT !.frame = [fn |-> "answer", r |-> o.r]]
       /\ hist' = [hist EXCEPT !.refusals = Refusing(o), !.done = DoneBy(o)]
  /\ UNCHANGED <<dos, tsr, cpu, call, ret>>
HostAnswers ==
  /\ box.frame.fn = "answer" /\ box.ack = Mark
  /\ box' = [box EXCEPT !.ack = box.number]
  /\ UNCHANGED <<dos, tsr, host, cpu, call, ret, hist>>

----------------------------------------------------------------------------
(* INT 2Fh.                                                                *)

At(pc) == cpu.pc = pc
Success == [ours |-> TRUE, cf |-> FALSE, ax |-> 0, cx |-> call.n, out |-> <<>>]
Fail(code) == [Success EXCEPT !.cf = TRUE, !.ax = code]
Return(r) == cpu' = [cpu EXCEPT !.pc = "out"] /\ ret' = r

\* inthandler: the word on the caller's stack is kept and the drive worked
\* out; what is not for the drive goes to the handler before.
Asked(k) == tsr.in /\ k.fn \in supportedfunctions
Ours(k) == Asked(k) /\ DriveOf(k) = tsr.drv
Enter ==
  /\ At("enter")
  /\ tsr' = IF tsr.in THEN [tsr EXCEPT !.word = call.word, !.req = IF Asked(call) THEN DriveOf(call) ELSE @] ELSE tsr
  /\ IF Ours(call) THEN cpu' = [cpu EXCEPT !.pc = "work", !.total = 0] /\ UNCHANGED ret
     ELSE Return([Success EXCEPT !.ours = FALSE])
  /\ UNCHANGED <<dos, box, host, call, hist>>

\* What is answered without asking the host.
Refused(k) ==
  CASE k.fn = "RMDIR" /\ BeginsWith(k.path, dos.cwd) -> 16
    [] k.fn \in {"RMDIR", "MKDIR", "CHDIR"} /\ Short(k.path) -> 3
    [] k.fn = "READFIL" /\ Sft(k).mode % 2 = 1 -> 5
    [] k.fn = "WRITEFIL" /\ Sft(k).mode % 4 = 0 -> 5
    [] k.fn = "UNLOCKFIL" -> 2
    [] k.fn \in {"SETATTR", "GETATTR", "DELETE"} /\ Short(k.path) -> 2
    [] k.fn = "RENAME" /\ (k.path.drv # k.to.drv \/ Short(k.path)) -> 2
    [] k.fn = "RENAME" /\ (Wild(k.to) \/ Short(k.to)) -> 3
    [] k.fn \in Opens /\ (Wild(k.path) \/ Short(k.path)) -> 3
    [] OTHER -> 0
Nothing(k) == k.fn = "CMMTFIL" \/ (k.fn \in Moves /\ k.n = 0)
\* sendquery drops a query too long for the frame, with the length of an empty answer.
TooLong(k) == k.fn = "LOCKFIL" /\ k.n > Locks

\* Variant: FindFirst keeps the token.
TokenKept(k) == tsr.token
TokenAfter(k) == IF k.fn = "FINDFIRST" THEN (tsr.token + 1) % Tokens ELSE tsr.token
Work ==
  /\ At("work")
  /\ tsr' = [tsr EXCEPT !.token = TokenAfter(call)]
  /\ dos' = IF call.fn = "CLSFIL" THEN [dos EXCEPT !.sft[call.h].count = More(@ - 1, 0)] ELSE dos
  /\ IF Refused(call) # 0 THEN Return(Fail(Refused(call))) /\ UNCHANGED box
     ELSE IF call.fn = "2D" THEN Return([Success EXCEPT !.ax = 2]) /\ UNCHANGED box
     ELSE IF Nothing(call) THEN Return(Success) /\ UNCHANGED box
     ELSE IF TooLong(call) THEN Return(IF call.bl > 1 THEN Fail(2) ELSE Success) /\ UNCHANGED box
     ELSE Sent(Query(call)) /\ UNCHANGED ret
  /\ UNCHANGED <<host, call, hist>>

----------------------------------------------------------------------------
(* The answer.                                                             *)

Answered == At("wait") /\ box.ack = box.number
R == box.frame.r
GoodLength == [f \in OnHandle \cup OnPath \cup {"FINDFIRST", "FINDNEXT"} |->
  CASE f = "GETATTR" -> 10 [] f \in Opens -> 25 [] f \in {"FINDFIRST", "FINDNEXT"} -> 24
    [] f = "SKFMEND" -> 4 [] f = "WRITEFIL" -> 2 [] OTHER -> 0]
\* Variant: what the host says of a new name is not looked at.
VerdictByLength ==
  IF R.len = 65535 THEN Fail(2) ELSE IF R.len # GoodLength[call.fn] THEN Fail(R.ax) ELSE Success
\* Most calls: the host's error, or a failure if the answer has not its length.
Verdict ==
  IF R.len = 65535 THEN Fail(IF call.fn = "FINDNEXT" THEN 18 ELSE 2)
  ELSE IF R.ax # 0 \/ R.len # GoodLength[call.fn] THEN Fail(R.ax) ELSE Success

\* The answer to a call on names is empty, with the host's verdict beside it.
Named(fns, code) ==
  /\ Answered /\ call.fn \in fns
  /\ Return(IF R.len # 0 THEN Fail(code) ELSE Verdict)
  /\ UNCHANGED <<dos, tsr, box, host, call, hist>>
MadeOrRemoved == Named({"MKDIR", "RMDIR"}, 2)
AttrSet == Named({"SETATTR"}, 2)
Renamed == Named({"RENAME"}, 2)
Deleted ==
  /\ Answered /\ call.fn = "DELETE"
  /\ Return(Verdict)
  /\ UNCHANGED <<dos, tsr, box, host, call, hist>>
\* The directory is only looked for: DOS is who changes it.
Changed ==
  /\ Answered /\ call.fn = "CHDIR"
  /\ Return(IF R.len # 0 THEN Fail(3) ELSE Verdict)
  /\ dos' = IF Verdict.cf THEN dos ELSE [dos EXCEPT !.cwd = call.path]
  /\ UNCHANGED <<tsr, box, host, call, hist>>
Closed ==
  /\ Answered /\ call.fn = "CLSFIL"
  /\ Return(IF R.len = 0 /\ R.ax # 0 THEN Fail(R.ax) ELSE Success)
  /\ UNCHANGED <<dos, tsr, box, host, call, hist>>
\* Whether the host granted the lock is not looked at.
Locked ==
  /\ Answered /\ call.fn = "LOCKFIL"
  /\ Return(IF call.bl > 1 \/ R.len # 0 THEN Fail(2) ELSE Success)
  /\ UNCHANGED <<dos, tsr, box, host, call, hist>>
Space ==
  /\ Answered /\ call.fn = "DISKSPACE"
  /\ Return(IF R.len = 6 THEN [Success EXCEPT !.ax = R.ax, !.out = R.out] ELSE Fail(2))
  /\ UNCHANGED <<dos, tsr, box, host, call, hist>>
AttrGot ==
  /\ Answered /\ call.fn = "GETATTR"
  /\ Return(IF Verdict.cf THEN Verdict ELSE [Success EXCEPT !.out = R.out])
  /\ UNCHANGED <<dos, tsr, box, host, call, hist>>
\* It is DOS, too, that puts the new position into the entry.
EndSought ==
  /\ Answered /\ call.fn = "SKFMEND"
  /\ Return(IF Verdict.cf THEN Verdict ELSE [Success EXCEPT !.out = R.out])
  /\ dos' = IF Verdict.cf THEN dos ELSE [dos EXCEPT !.sft[call.h].pos = R.out[1]]
  /\ UNCHANGED <<tsr, box, host, call, hist>>

OpenedFile ==
  /\ Answered /\ call.fn \in Opens
  /\ Return(IF call.fn = "SPOPNFIL" /\ ~Verdict.cf THEN [Verdict EXCEPT !.cx = R.out[4]] ELSE Verdict)
  /\ dos' = IF Verdict.cf THEN dos
            ELSE [dos EXCEPT !.sft[call.h] = [dev |-> tsr.req, id |-> R.out[1], mode |-> R.out[3], pos |-> 0,
                                              size |-> R.out[2], count |-> 1]]
  /\ UNCHANGED <<tsr, box, host, call, hist>>

Found ==
  /\ Answered /\ call.fn \in {"FINDFIRST", "FINDNEXT"}
  /\ Return(Verdict)
  /\ dos' = IF Verdict.cf THEN dos
            ELSE [dos EXCEPT !.dta[call.d] = [drv |-> IF call.fn = "FINDFIRST" THEN tsr.req ELSE @.drv,
                                              par |-> R.out[2], entry |-> R.out[3]]]
  /\ hist' = IF Verdict.cf THEN hist ELSE [hist EXCEPT !.listed[call.d] = Append(@, R.out[1])]
  /\ UNCHANGED <<tsr, box, host, call>>

\* Variant: a short answer does not end a read.
ReadEndsFull(total, asked) == total = call.n
ReadEnds(total, asked) == R.len < asked \/ total = call.n
\* A chunk of a read: the position and the count change only at the end.
Copied == [dos EXCEPT !.buf = [i \in DOMAIN @ |-> IF i > cpu.total /\ i <= cpu.total + R.len
                                                    THEN R.out[i - cpu.total] ELSE @[i]]]
ReadOn ==
  /\ Answered /\ call.fn = "READFIL"
  /\ IF R.len = 65535 \/ R.ax # 0
     THEN Return(Fail(IF R.ax = 0 THEN 2 ELSE R.ax)) /\ UNCHANGED dos
     ELSE LET total == cpu.total + R.len
              asked == Less(call.n - cpu.total, Chunk)
          IN  IF ReadEnds(total, asked)
              THEN /\ dos' = [Copied EXCEPT !.sft[call.h].pos = @ + total]
                   /\ Return([Success EXCEPT !.cx = total])
              ELSE dos' = Copied /\ cpu' = [cpu EXCEPT !.pc = "work", !.total = total] /\ UNCHANGED ret
  /\ UNCHANGED <<tsr, box, host, call, hist>>

\* A chunk of a write: the file's entry and the count change with each.
WriteOn ==
  /\ Answered /\ call.fn = "WRITEFIL"
  /\ IF R.len # 2 \/ R.ax # 0
     THEN /\ Return([Fail(IF R.len = 65535 THEN 2 ELSE R.ax) EXCEPT !.cx = IF cpu.total = 0 THEN @ ELSE cpu.total])
          /\ UNCHANGED dos
     ELSE LET n == R.out[1]
              total == cpu.total + n
              pos == Sft(call).pos + n
          IN  /\ dos' = [dos EXCEPT !.sft[call.h].pos = pos, !.sft[call.h].size = More(@, pos)]
              /\ IF n # Less(call.n - cpu.total, Chunk) \/ total = call.n
                 THEN Return([Success EXCEPT !.cx = total])
                 ELSE cpu' = [cpu EXCEPT !.pc = "work", !.total = total] /\ UNCHANGED ret
  /\ UNCHANGED <<tsr, box, host, call, hist>>

----------------------------------------------------------------------------
(* main: loading and unloading.  Other resident programs hook INT 2Fh too; *)
(* a "net" one says that no redirector may be installed.                   *)

Present == \E i \in DOMAIN dos.chain : dos.chain[i] = "mfs"
findfreemultiplex == Cardinality({i \in DOMAIN dos.chain : dos.chain[i] # "dos"}) < Ids
Installable == ~\E i \in DOMAIN dos.chain : dos.chain[i] = "net"
Started == /\ At("out") /\ hist.loads < hist.prog.loads
           /\ box' = [box EXCEPT !.number = Enable]
           /\ UNCHANGED <<host, cpu, call, ret>>

Install(d) ==
  /\ dos' = [dos EXCEPT !.chain = Append(@, "mfs"), !.cds[d] = "net", !.cwd = Path(d, <<>>)]
  /\ tsr' = [in |-> TRUE, drv |-> d, prev |-> dos.chain, req |-> d, word |-> 0, token |-> 0]
Load(d) ==
  /\ Started
  /\ Installable /\ ~Present /\ findfreemultiplex
  /\ d \in Drives /\ dos.cds[d] = "free"
  /\ Install(d)
  /\ hist' = [hist EXCEPT !.loads = @ + 1]
\* One of these is not so, or there is no memory for its segment.
LoadFails == Started /\ hist' = [hist EXCEPT !.loads = @ + 1] /\ UNCHANGED <<dos, tsr>>

\* Variant: wherever it is in the chain.
IsTopAnywhere == Present
\* The signature is looked for in the handler that the vector points at.
IsTop == Last(dos.chain) = "mfs"
Unload ==
  /\ Started
  /\ hist' = [hist EXCEPT !.loads = @ + 1]
  /\ IF Installable /\ Present /\ IsTop
     THEN /\ dos' = [dos EXCEPT !.chain = tsr.prev, !.cds[tsr.drv] = "free",   \* no search outlives the program
                                !.dta = [s \in Searches |-> NoDta]]
          /\ tsr' = [tsr EXCEPT !.in = FALSE]
     ELSE UNCHANGED <<dos, tsr>>

----------------------------------------------------------------------------
(* What runs under DOS makes calls, between which programs are loaded and   *)
(* unloaded; INT 2Fh is theirs to hook.                                    *)

Init ==
  /\ dos = [chain |-> <<"dos">>, cds |-> [d \in Drives |-> IF d = "C" THEN "disk" ELSE "free"],
            sft |-> [h \in Handles |-> NoSft], dta |-> [s \in Searches |-> NoDta],
            buf |-> <<>>, cwd |-> Path("C", <<>>)]
  /\ tsr = [in |-> FALSE, drv |-> "none", prev |-> <<>>, req |-> "none", word |-> 0, token |-> 0]
  /\ box = [number |-> 0, ack |-> 0, frame |-> NoQuery]
  /\ host = [files |-> Files, dirs |-> Dirs, ids |-> <<>>, found |-> [t \in 0..Tokens - 1 |-> <<>>], wrote |-> 0]
  /\ cpu = [pc |-> "out", total |-> 0]
  /\ call = NoCall
  /\ ret = [ours |-> FALSE, cf |-> FALSE, ax |-> 0, cx |-> 0, out |-> <<>>]
  /\ hist \in [before : {NoHistory}, done : {TRUE}, refusals : {0}, loads : {0}, calls : {0}, others : {0},
               listed : {[s \in Searches |-> <<>>]}, names : {[s \in Searches |-> <<>>]}, prog : Programs]

\* DOS calls a handle's functions only while it is open, and FindNext after FindFirst.
Ready(k) ==
  /\ k.fn \in OnHandle => Sft(k).count > 0
  /\ k.fn \in Opens => Sft(k).count = 0
  /\ k.fn = "FINDNEXT" => dos.dta[k.d].drv # "C"
Begin(k) ==
  /\ At("out") /\ hist.calls < hist.prog.most /\ Ready(k)
  /\ call' = k
  /\ dos' = [dos EXCEPT !.buf = k.data, !.dta = IF k.fn = "FINDFIRST" THEN [@ EXCEPT ![k.d] = NoDta] ELSE @]
  /\ host' = [host EXCEPT !.wrote = 0]
  /\ cpu' = [cpu EXCEPT !.pc = "enter"]
  /\ hist' = [hist EXCEPT !.calls = @ + 1, !.done = TRUE,
                          !.before = [files |-> host.files, dirs |-> host.dirs, sft |-> dos.sft],
                          !.listed = IF k.fn = "FINDFIRST" THEN [@ EXCEPT ![k.d] = <<>>] ELSE @,
                          !.names = IF k.fn = "FINDFIRST" THEN [@ EXCEPT ![k.d] = Inside(Front(k.path.names))] ELSE @]
  /\ UNCHANGED <<tsr, box, ret>>
Calls == \E k \in hist.prog.calls : Begin(k)

OtherHooks ==
  /\ At("out") /\ hist.loads < hist.prog.loads
  /\ \E other \in {"other", "net"} : dos' = [dos EXCEPT !.chain = Append(@, other)]
  /\ hist' = [hist EXCEPT !.loads = @ + 1, !.others = @ + 1]
  /\ UNCHANGED <<tsr, box, host, cpu, call, ret>>
OtherLeaves ==
  /\ At("out") /\ Last(dos.chain) \in {"other", "net"}
  /\ dos' = [dos EXCEPT !.chain = Front(@)]
  /\ hist' = [hist EXCEPT !.others = @ - 1]
  /\ UNCHANGED <<tsr, box, host, cpu, call, ret>>

OnNames == MadeOrRemoved \/ AttrSet \/ Renamed \/ Deleted \/ Changed \/ AttrGot \/ Space
OnFiles == OpenedFile \/ Closed \/ Locked \/ EndSought \/ ReadOn \/ WriteOn
Serves == Enter \/ Work \/ OnNames \/ OnFiles \/ Found
Host == HostServes \/ HostAnswers
Loads == (\E d \in Drives \cup {"Z"} : Load(d)) \/ LoadFails \/ Unload
Next == Calls \/ Serves \/ Host \/ Loads \/ OtherHooks \/ OtherLeaves

\* Between a request and its answer the processor does nothing but wait, and the
\* host looks into the shared memory again and again.
Fairness == WF_<<cpu, ret>>(Serves) /\ WF_box(Host)
Spec == Init /\ [][Next]_vars /\ Fairness

----------------------------------------------------------------------------
(* Properties.                                                             *)

Returned == At("out") /\ hist.calls > 0 /\ ret.ours
Was(k) == hist.before.sft[k.h]
DataWas(k) == hist.before.files[host.ids[Was(k).id]].data
OnFile == Returned /\ call.fn \in Moves /\ host.ids[Was(call).id] \in DOMAIN hist.before.files

ReadRight ==
  LET from == Was(call).pos
      n == More(0, Less(call.n, Len(DataWas(call)) - from))
  IN  /\ dos.sft[call.h].pos = IF ret.cf THEN from ELSE from + n
      /\ ~ret.cf => ret.cx = n /\ SubSeq(dos.buf, 1, n) = SubSeq(DataWas(call), from + 1, from + n)
WriteRight ==
  LET from == Was(call).pos
      n == host.wrote
  IN  /\ host.files[host.ids[Was(call).id]].data = Overlay(DataWas(call), from, SubSeq(call.data, 1, n))
      /\ dos.sft[call.h].pos = from + n
      /\ \/ dos.sft[call.h].size = More(Was(call).size, from + n)
         \/ n = 0 /\ dos.sft[call.h].size = Was(call).size
      /\ ret.cf \/ ret.cx = n
\* A read that succeeds gives the caller what the file holds from its position
\* on, in whatever chunks it was fetched, as many units as there are, and moves
\* the position by as much; one that fails in any of its chunks leaves it.  After
\* a write, whether all of it was done or the host stopped or failed in the
\* middle, the file holds what it held with the units that were written in their
\* place, and the position, the size and the count tell how many.
MovesFaithful ==
  OnFile => /\ call.fn = "READFIL" => ReadRight
            /\ call.fn = "WRITEFIL" => WriteRight

\* What the folder is after a call on names that succeeded.
Meant(k) ==
  LET p == k.path.names
      files == hist.before.files
      dirs == hist.before.dirs
      same == <<files, dirs>>
  IN  CASE k.fn = "MKDIR" -> <<files, dirs \cup {p}>>
        [] k.fn = "RMDIR" -> <<files, dirs \ {p}>>
        [] k.fn = "DELETE" -> <<Without(files, p), dirs>>
        [] k.fn = "SETATTR" -> <<[files EXCEPT ![p].attr = k.word], dirs>>
        [] k.fn = "RENAME" -> <<With(Without(files, p), k.to.names, files[p]), dirs>>
        [] k.fn = "CREATE" -> <<With(files, p, [data |-> <<>>, attr |-> k.word]), dirs>>
        [] OTHER -> same
\* A call on names says that it succeeded only when the host did what the caller
\* asked, to the name it asked it for, and one that says it failed changed nothing.
AnswersTrue ==
  Returned /\ call.fn \in OnPath \cup {"DISKSPACE"} =>
    IF ret.cf THEN <<host.files, host.dirs>> = <<hist.before.files, hist.before.dirs>>
    ELSE hist.done /\ <<host.files, host.dirs>> = Meant(call)

\* Searches that take turns each list what was in their directory, in its order
\* and without a name lost or twice, and say that there is no more only at its end.
SearchComplete ==
  /\ At("out") => \A s \in Searches : IsPrefix(hist.listed[s], hist.names[s])
  /\ Returned /\ call.fn \in {"FINDFIRST", "FINDNEXT"} /\ ret.cf /\ hist.done =>
       hist.listed[call.d] = hist.names[call.d]

\* The program is in the chain of INT 2Fh at most once, exactly while it is
\* loaded and its drive is mapped, with the handlers that were there before it
\* below it; loading and unloading take nobody else out of the chain.
Resident ==
  LET At2F(x) == {i \in DOMAIN dos.chain : dos.chain[i] = x}
  IN  /\ At2F("mfs") # {} <=> tsr.in
      /\ \A i \in At2F("mfs") : SubSeq(dos.chain, 1, i - 1) = tsr.prev
      /\ {d \in Drives : dos.cds[d] = "net"} = IF tsr.in THEN {tsr.drv} ELSE {}
      /\ Cardinality(At2F("other") \cup At2F("net")) = hist.others

\* Every call returns: no read or write goes round for ever, whatever the host answers.
CallsEnd == ~At("out") ~> At("out")

=============================================================================
