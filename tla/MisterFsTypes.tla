--------------------------- MODULE MisterFsTypes ---------------------------
(***************************************************************************)
(* What the proofs about MisterFs rest on: the parts of its invariant, the *)
(* types of its state, what the host's server does with each request, and  *)
(* the first parts kept by every step: the types, where a call is          *)
(* (Protocol), handles (Handled) and what an answer holds (Fits).          *)
(***************************************************************************)
EXTENDS MisterFs, SequenceTheorems, FiniteSetTheorems, TLAPS

SftEntry == [dev : Drives \cup {"none"}, id : Nat, mode : Nat, pos : Nat, size : Nat, count : Nat]
DtaEntry == [drv : Drives \cup {"none"}, par : 0..Tokens - 1, entry : Nat]
Request == [fn : Functions, path : Paths, to : Paths, word : Nat, mode : Nat, id : Nat, off : Int,
            n : Int, data : Seq(Int), token : 0..Tokens - 1, entry : Nat]

\* Types.  What a folder is is said by IsFolder.
Handlers == {"dos", "mfs", "other", "net"}
Dos == [chain : Seq(Handlers), cds : [Drives -> {"disk", "free", "net"}], sft : [Handles -> SftEntry],
        dta : [Searches -> DtaEntry], buf : Seq(Int), cwd : Place]
Tsr == [in : BOOLEAN, drv : Drives \cup {"none"}, prev : Seq(Handlers),
        req : Drives \cup {"none"}, word : Nat, token : 0..Tokens - 1]
DosTyped == dos \in Dos
TsrTyped == tsr \in Tsr
BoxTyped ==
  /\ box \in [number : Nat, ack : Nat, frame : {box.frame}]
  /\ IF box.frame.fn = "answer" THEN R.len \in Nat /\ R.ax \in Nat ELSE box.frame \in Request
HostTyped(h) ==
  /\ h \in [files : {h.files}, dirs : SUBSET Paths, ids : Seq(Paths),
            found : [0..Tokens - 1 -> Seq(STRING)], wrote : Nat]
  /\ IsFolder(h.files)
Cpu == [pc : {"out", "enter", "work", "wait"}, total : Nat]
CpuTyped == cpu \in Cpu
CallTyped == call \in Call /\ (call.fn \in Moves => call.n \in 0..Len(call.data))
Hist(b) == [before : {b}, done : BOOLEAN, refusals : Nat, loads : Nat, calls : Nat, others : Int,
            listed : [Searches -> Seq(STRING)], names : [Searches -> Seq(STRING)], prog : Programs]
HistTyped ==
  /\ hist \in Hist(hist.before)
  /\ hist.before \in [files : {hist.before.files}, dirs : SUBSET Paths, sft : [Handles -> SftEntry]]
  /\ IsFolder(hist.before.files)
TypeInv == DosTyped /\ TsrTyped /\ BoxTyped /\ HostTyped(host) /\ CpuTyped /\ CallTyped /\ HistTyped

Asking == At("wait") /\ box.frame.fn # "answer"
Served == At("wait") /\ box.frame.fn = "answer"
Good == R.len # 65535 /\ R.ax = 0

\* The number and the acknowledge of a request say where it is.
Protocol ==
  /\ box.number # Mark
  /\ IF At("wait") THEN box.ack = Mark \/ (box.ack = box.number /\ box.frame.fn = "answer") ELSE box.ack # Mark
  /\ At("work") => call.fn \in supportedfunctions
  /\ At("wait") => call.fn \in supportedfunctions \ {"2D", "CMMTFIL", "UNLOCKFIL"}

\* A handle that is open is one of the host's, and so is the one a request names.
Handled ==
  /\ \A h \in Handles : dos.sft[h].count > 0 => dos.sft[h].id \in 1..Len(host.ids)
  /\ ~At("out") /\ call.fn \in OnHandle /\ ~(At("wait") /\ call.fn = "CLSFIL") => dos.sft[call.h].count > 0
  /\ Asking => /\ box.frame.fn = QueryFn(call)
               /\ box.frame.fn \in OnHandle => box.frame.id \in 1..Len(host.ids)

\* What an answer that is good holds.
Fits ==
  Served /\ Good =>
    /\ call.fn \in Opens /\ R.len = 25 =>
         R.out \in Seq(Nat) /\ Len(R.out) = 4 /\ R.out[1] \in 1..Len(host.ids)
    /\ call.fn = "SKFMEND" /\ R.len = 4 => R.out \in Seq(Nat) /\ Len(R.out) = 1
    /\ call.fn = "WRITEFIL" /\ R.len = 2 => R.out \in Seq(Nat) /\ Len(R.out) = 1
    /\ call.fn = "READFIL" => R.out \in Seq(Int) /\ R.len = Len(R.out)
    /\ call.fn \in {"FINDFIRST", "FINDNEXT"} /\ R.len = 24 => R.out \in STRING \X (0..Tokens - 1) \X Nat

\* Where the program stands in the chain.
Chained ==
  /\ Resident
  /\ dos.chain # <<>> /\ dos.chain[1] = "dos"
  /\ \A i, j \in DOMAIN dos.chain : dos.chain[i] = "mfs" /\ dos.chain[j] = "mfs" => i = j
  /\ tsr.in => tsr.drv \in Drives

\* A transfer under way.
Total == IF At("enter") THEN 0 ELSE cpu.total
Now == Less(call.n - cpu.total, Chunk)
There == host.ids[Was(call).id] \in DOMAIN hist.before.files
Part(f, a, w) == SubSeq(f, a + 1, Less(a + w, Len(f)))
Alike(buf, f, a, t) == SubSeq(buf, 1, t) = SubSeq(f, a + 1, a + t)
ReadPart ==
  LET from == Was(call).pos IN
  /\ dos.sft = hist.before.sft /\ host.files = hist.before.files
  /\ Len(dos.buf) = Len(call.data)
  /\ Asking => box.frame = ReadQuery(call)
  /\ There => /\ Total = 0 \/ from + Total <= Len(DataWas(call))
              /\ Alike(dos.buf, DataWas(call), from, Total)
  /\ Served /\ Good => There /\ R.out = Part(DataWas(call), from + Total, Now)
WritePart ==
  LET from == Was(call).pos IN
  /\ dos.buf = call.data
  /\ dos.sft[call.h].pos = from + Total /\ dos.sft[call.h].id = Was(call).id
  /\ \/ dos.sft[call.h].size = More(Was(call).size, from + Total)
     \/ Total = 0 /\ dos.sft[call.h].size = Was(call).size
  /\ Asking => box.frame = WriteQuery(call)
  /\ host.wrote = Total + (IF Served /\ Good /\ R.len = 2 THEN R.out[1] ELSE 0)
  /\ Served /\ Good /\ R.len = 2 => R.out[1] \in {Now, Now - 1}
  /\ There => /\ host.ids[Was(call).id] \in DOMAIN host.files
              /\ host.files[host.ids[Was(call).id]].data =
                   Overlay(DataWas(call), from, SubSeq(call.data, 1, host.wrote))
Moving ==
  ~At("out") /\ call.fn \in Moves =>
    /\ Was(call).id \in 1..Len(host.ids)
    /\ Total < call.n \/ (Total = 0 /\ call.n = 0 /\ ~At("wait"))
    /\ call.fn = "READFIL" => ReadPart
    /\ call.fn = "WRITEFIL" => WritePart

\* A call on names under way.
Folder == <<host.files, host.dirs>>
FolderWas == <<hist.before.files, hist.before.dirs>>
Right == IF call.fn = "DISKSPACE" THEN R.len = 6 ELSE Good /\ R.len = GoodLength[call.fn]
Naming ==
  ~At("out") /\ call.fn \in OnPath \cup {"DISKSPACE"} =>
    /\ ~Served => Folder = FolderWas /\ hist.done
    /\ ~At("enter") => tsr.word = call.word
    /\ Asking /\ call.fn # "DISKSPACE" =>
         /\ box.frame.path = call.path.names
         /\ call.fn = "RENAME" => box.frame.to = call.to.names
         /\ call.fn \in {"SETATTR", "CREATE"} => box.frame.word = call.word
    /\ Served => IF Right THEN hist.done /\ Folder = Meant(call) ELSE Folder = FolderWas

\* Searches, and the tokens they have.
Active == {s \in Searches : dos.dta[s].drv # "C"}
\* No more tokens are taken than calls are made.
Counted ==
  /\ tsr.token <= hist.calls /\ hist.calls <= hist.prog.most
  /\ (At("enter") \/ At("work")) /\ call.fn = "FINDFIRST" => tsr.token < hist.calls
Loaded ==
  /\ tsr.in \/ Active = {}
  /\ ~At("out") /\ ~At("enter") => tsr.in
OwnList ==
  \A s \in Active : /\ dos.dta[s].par < tsr.token
                    /\ host.found[dos.dta[s].par] = hist.names[s]
                    /\ dos.dta[s].entry = Len(hist.listed[s])
Apart == \A s, t \in Active : dos.dta[s].par = dos.dta[t].par => s = t
InOrder == \A s \in Searches : IsPrefix(hist.listed[s], hist.names[s])
Fresh(t) == t < tsr.token /\ \A s \in Active : dos.dta[s].par # t
FirstPart ==
  LET d == call.d IN
  /\ d \notin Active /\ hist.listed[d] = <<>>
  /\ At("enter") \/ At("work") => hist.names[d] = Inside(Front(call.path.names))
  /\ Asking => /\ hist.names[d] = Inside(Front(box.frame.path))
               /\ box.frame.entry = 0 /\ Fresh(box.frame.token)
  /\ Served /\ Good => /\ R.len = 24 /\ Len(hist.names[d]) > 0
                       /\ R.out[1] = hist.names[d][1] /\ R.out[3] = 1
                       /\ Fresh(R.out[2]) /\ host.found[R.out[2]] = hist.names[d]
NextPart ==
  LET d == call.d IN
  /\ d \in Active
  /\ Asking => box.frame.token = dos.dta[d].par /\ box.frame.entry = dos.dta[d].entry
  /\ Served /\ Good => /\ R.len = 24 /\ dos.dta[d].entry < Len(hist.names[d])
                       /\ R.out = <<hist.names[d][dos.dta[d].entry + 1], dos.dta[d].par, dos.dta[d].entry + 1>>
Finds == {"FINDFIRST", "FINDNEXT"}
AtEnd ==
  Served /\ call.fn \in Finds /\ hist.done =>
    R.len # 65535 /\ R.ax \in {0, 18} /\ (R.ax = 18 => hist.listed[call.d] = hist.names[call.d])
Parts ==
  /\ ~At("out") /\ call.fn = "FINDFIRST" => FirstPart
  /\ ~At("out") /\ call.fn = "FINDNEXT" => NextPart
Searching == Counted /\ Loaded /\ OwnList /\ Apart /\ InOrder /\ Parts /\ AtEnd

IInv == /\ TypeInv /\ Protocol /\ Handled /\ Fits
        /\ Chained
        /\ Moving /\ MovesFaithful
        /\ Naming /\ AnswersTrue

----------------------------------------------------------------------------
(* Operators.                                                              *)

LEMMA IsSeq ==
  ASSUME NEW S, NEW n \in Nat, NEW f \in [1..n -> S]
  PROVE  f \in Seq(S) /\ Len(f) = n
OBVIOUS

LEMMA Piece ==
  ASSUME NEW S, NEW s \in Seq(S), NEW a \in Nat, NEW n \in Nat, a + n <= Len(s)
  PROVE  /\ SubSeq(s, a + 1, a + n) \in Seq(S) /\ Len(SubSeq(s, a + 1, a + n)) = n
         /\ \A i \in 1..n : SubSeq(s, a + 1, a + n)[i] = s[a + i]
OBVIOUS

LEMMA OverlayTyped ==
  ASSUME NEW f \in Seq(Int), NEW at \in Nat, NEW d \in Seq(Int)
  PROVE  Overlay(f, at, d) \in Seq(Int)
<1>1. CASE d = <<>>
  BY <1>1 DEF Overlay
<1>2. CASE d # <<>>
  <2>1. More(Len(f), at + Len(d)) \in Nat
    BY DEF More
  <2>2. \A i \in 1..More(Len(f), at + Len(d)) :
          (IF i > at /\ i <= at + Len(d) THEN d[i - at] ELSE IF i <= Len(f) THEN f[i] ELSE 0) \in Int
    BY DEF More
  <2>3. Overlay(f, at, d) \in [1..More(Len(f), at + Len(d)) -> Int]
    BY <1>2, <2>2 DEF Overlay
  <2> QED
    BY <2>1, <2>3, IsSeq
<1> QED
  BY <1>1, <1>2

LEMMA PartTyped ==
  ASSUME NEW f \in Seq(Int), NEW off \in Nat, NEW n \in Nat
  PROVE  SubSeq(f, off + 1, Less(off + n, Len(f))) \in Seq(Int)
<1>1. Less(off + n, Len(f)) \in Nat /\ Less(off + n, Len(f)) <= Len(f)
  BY DEF Less
<1> DEFINE to == Less(off + n, Len(f))
<1> HIDE DEF to
<1>2. to \in Nat /\ to <= Len(f)
  BY <1>1 DEF to
<1>3. SubSeq(f, off + 1, to) \in Seq(Int)
  BY <1>2
<1> QED
  BY <1>3 DEF to

LEMMA OverlayPart ==
  ASSUME NEW f \in Seq(Int), NEW at \in Nat, NEW d \in Seq(Int), NEW n \in 0..Len(d)
  PROVE  Overlay(f, at, SubSeq(d, 1, n)) \in Seq(Int)
<1>1. SubSeq(d, 1, n) \in Seq(Int)
  OBVIOUS
<1> QED
  BY <1>1, OverlayTyped

LEMMA FolderWithout ==
  ASSUME NEW f, IsFolder(f), NEW x
  PROVE  IsFolder(Without(f, x))
BY DEF IsFolder, Without

LEMMA FolderWith ==
  ASSUME NEW f, IsFolder(f), NEW x \in Paths, NEW v \in File
  PROVE  IsFolder(With(f, x, v))
BY DEF IsFolder, With

LEMMA FolderData ==
  ASSUME NEW f, IsFolder(f), NEW x \in DOMAIN f, NEW d \in Seq(Int)
  PROVE  /\ IsFolder([f EXCEPT ![x].data = d]) /\ DOMAIN [f EXCEPT ![x].data = d] = DOMAIN f
         /\ [f EXCEPT ![x].data = d][x].data = d
BY DEF IsFolder, File

LEMMA FolderAttr ==
  ASSUME NEW f, IsFolder(f), NEW x \in DOMAIN f, NEW a \in Nat
  PROVE  IsFolder([f EXCEPT ![x].attr = a])
BY DEF IsFolder, File

LEMMA ListingTyped ==
  ASSUME NEW S, S \subseteq Names
  PROVE  Listing(S) \in Seq(STRING)
<1>1. IsFiniteSet(S)
  BY FsAssumption, FS_Subset
<1> DEFINE n == Cardinality(S)
<1>2. n \in Nat
  BY <1>1, FS_CardinalityType
<1>3. \E s \in [1..n -> S] : \A x \in S : \E i \in 1..n : s[i] = x
  <2>1. ExistsBijection(1..n, S)
    BY <1>1, FS_NatBijection, FS_CountingElements
  <2> QED
    BY <2>1 DEF ExistsBijection, Bijection, Surjection, Injection
<1>4. Listing(S) \in [1..n -> S]
  BY <1>3 DEF Listing
<1>5. Listing(S) \in [1..n -> STRING]
  BY <1>4, FsAssumption
<1> HIDE DEF n
<1> QED
  BY <1>2, <1>5, IsSeq

----------------------------------------------------------------------------
(* The file server.                                                        *)

LEMMA DoesCases ==
  ASSUME NEW q
  PROVE  /\ q.fn \in OnHandle => Does(q) = OnOpenFile(q)
         /\ q.fn \in OnPath => Does(q) = OnName(q)
         /\ q.fn \in {"FINDFIRST", "FINDNEXT"} => Does(q) = OnSearch(q)
         /\ q.fn = "DISKSPACE" => Does(q) = {Outcome(Reply(6, 4, <<1000, 512, 500>>), host)}
BY DEF Does, OnHandle, OnPath

\* What the server does with a request on a file, function by function.
Missing == Outcome(Reply(0, 2, <<>>), host)
Overwritten(p, q, n) ==
  [host EXCEPT !.files[p].data = Overlay(@, q.off, SubSeq(q.data, 1, n)), !.wrote = @ + n]
Read(p, q) == LET f == host.files[p].data IN SubSeq(f, q.off + 1, Less(q.off + q.n, Len(f)))
LEMMA OnOpenFileCases ==
  ASSUME NEW q, NEW o \in OnOpenFile(q), NEW p, p = host.ids[q.id]
  PROVE  \/ p \notin DOMAIN host.files /\ o = Missing
         \/ /\ p \in DOMAIN host.files
            /\ \/ /\ q.fn = "READFIL"
                  /\ o = Outcome(Reply(Len(Read(p, q)), 0, Read(p, q)), host)
               \/ /\ q.fn = "WRITEFIL"
                  /\ \E n \in {q.n, q.n - 1} : o = Outcome(Reply(2, 0, <<n>>), Overwritten(p, q, n))
               \/ /\ q.fn = "SKFMEND"
                  /\ o = Outcome(Reply(4, 0, <<More(Len(host.files[p].data) + q.off, 0)>>), host)
               \/ /\ q.fn \notin {"READFIL", "WRITEFIL", "SKFMEND"}
                  /\ o = Outcome(Reply(0, 0, <<>>), host)
BY DEF OnOpenFile, NotThere, Missing, Done, Overwritten, Read

\* And on a name.
Made(p) == [host EXCEPT !.dirs = @ \cup {p}]
Removed(p) == [host EXCEPT !.dirs = @ \ {p}]
Gone(p) == [host EXCEPT !.files = Without(@, p)]
Marked(p, a) == [host EXCEPT !.files[p].attr = a]
Moved(p, to) == [host EXCEPT !.files = With(Without(@, p), to, @[p])]
New(p, a) == [host EXCEPT !.files = With(host.files, p, [data |-> <<>>, attr |-> a])]
Handed(h, p) == [h EXCEPT !.ids = Append(@, p)]
Ticket(size, mode) == Reply(25, 0, <<Len(host.ids) + 1, size, mode, 1>>)
LEMMA OnNameCases ==
  ASSUME NEW q, NEW o \in OnName(q), NEW p, p = q.path
  PROVE  \/ o = Missing
         \/ q.fn = "MKDIR" /\ o = Outcome(Reply(0, 0, <<>>), Made(p))
         \/ q.fn = "RMDIR" /\ o = Outcome(Reply(0, 0, <<>>), Removed(p))
         \/ q.fn = "CHDIR" /\ o = Outcome(Reply(0, 0, <<>>), host)
         \/ /\ q.fn = "DELETE" /\ p \in DOMAIN host.files
            /\ o = Outcome(Reply(0, 0, <<>>), Gone(p))
         \/ /\ q.fn = "SETATTR" /\ p \in DOMAIN host.files
            /\ o = Outcome(Reply(0, 0, <<>>), Marked(p, q.word))
         \/ /\ q.fn = "GETATTR" /\ p \in DOMAIN host.files
            /\ o = Outcome(Reply(10, 0, <<host.files[p].attr, Len(host.files[p].data)>>), host)
         \/ /\ q.fn = "RENAME" /\ p \in DOMAIN host.files
            /\ o = Outcome(Reply(0, 0, <<>>), Moved(p, q.to))
         \/ /\ q.fn \in {"OPEN", "SPOPNFIL"} /\ p \in DOMAIN host.files
            /\ o = Outcome(Ticket(Len(host.files[p].data), IF q.fn = "OPEN" THEN q.word ELSE q.mode),
                           Handed(host, p))
         \/ q.fn = "CREATE" /\ o = Outcome(Ticket(0, 2), Handed(New(p, q.word), p))
BY DEF OnName, NotThere, Missing, Done, Opened, Made, Removed, Gone, Marked, Moved, New, Handed, Ticket

\* And with a search.
Listed(q) == IF q.fn = "FINDFIRST" THEN Inside(Front(q.path)) ELSE host.found[q.token]
Kept(q) == IF q.fn = "FINDFIRST" THEN [host EXCEPT !.found[q.token] = Listed(q)] ELSE host
LEMMA OnSearchCases ==
  ASSUME NEW q, NEW o \in OnSearch(q)
  PROVE  \/ q.entry >= Len(Listed(q)) /\ o = Outcome(Reply(0, 18, <<>>), Kept(q))
         \/ /\ ~(q.entry >= Len(Listed(q)))
            /\ o = Outcome(Reply(24, 0, <<Listed(q)[q.entry + 1], q.token, q.entry + 1>>), Kept(q))
BY DEF OnSearch, Listed, Kept

LEMMA HostFields ==
  ASSUME NEW h, HostTyped(h)
  PROVE  /\ \A x \in SUBSET Paths : HostTyped([h EXCEPT !.dirs = x])
         /\ \A x : IsFolder(x) => HostTyped([h EXCEPT !.files = x])
         /\ \A x \in Paths : HostTyped(Handed(h, x))
         /\ \A x : IsFolder(x) => \A n \in Nat : HostTyped([h EXCEPT !.files = x, !.wrote = n])
<1>1. \A x \in Paths : Append(h.ids, x) \in Seq(Paths)
  BY DEF HostTyped
<1> QED
  BY <1>1 DEF HostTyped, Handed

\* A request with what the caller's call makes sure of.
Sound(q) ==
  /\ q \in Request
  /\ q.fn \in OnHandle => q.id \in 1..Len(host.ids)
  /\ q.fn = "READFIL" => q.off \in Nat /\ q.n \in Nat
  /\ q.fn = "WRITEFIL" => q.off \in Nat /\ q.n \in Nat \ {0} /\ Len(q.data) = q.n

\* The host stays one, and no open file loses its number.
ServerKeeps(o) ==
  /\ o.r.len \in Nat /\ o.r.ax \in Nat
  /\ HostTyped(o.h)
  /\ Len(host.ids) <= Len(o.h.ids) /\ \A i \in 1..Len(host.ids) : o.h.ids[i] = host.ids[i]

LEMMA FileData ==
  ASSUME HostTyped(host), NEW p \in DOMAIN host.files
  PROVE  host.files[p].data \in Seq(Int) /\ host.files[p].attr \in Nat /\ p \in Paths
BY DEF HostTyped, IsFolder, File

LEMMA Unchanged ==
  ASSUME HostTyped(host), NEW len \in Nat, NEW ax \in Nat, NEW out
  PROVE  ServerKeeps(Outcome(Reply(len, ax, out), host))
BY DEF ServerKeeps, Outcome, Reply, HostTyped

LEMMA FilesServed ==
  ASSUME HostTyped(host), NEW q, Sound(q), q.fn \in OnHandle, NEW o \in OnOpenFile(q)
  PROVE  ServerKeeps(o)
<1> DEFINE p == host.ids[q.id]
<1>1. p \in Paths
  BY DEF Sound, HostTyped
<1>2. CASE o = Missing \/ o = Outcome(Reply(0, 0, <<>>), host)
  BY <1>2, Unchanged DEF Missing
<1>3. CASE p \in DOMAIN host.files /\ o = Outcome(Reply(Len(Read(p, q)), 0, Read(p, q)), host) /\ q.fn = "READFIL"
  <2>1. host.files[p].data \in Seq(Int)
    BY <1>3, FileData
  <2>2. q.off \in Nat /\ q.n \in Nat
    BY <1>3 DEF Sound
  <2>4. Read(p, q) \in Seq(Int)
    BY <2>1, <2>2, PartTyped DEF Read
  <2> QED
    BY <1>3, <2>4, Unchanged
<1>4. CASE p \in DOMAIN host.files /\ o = Outcome(Reply(4, 0, <<More(Len(host.files[p].data) + q.off, 0)>>), host)
  BY <1>4, Unchanged
<1>5. ASSUME p \in DOMAIN host.files, q.fn = "WRITEFIL", NEW n \in {q.n, q.n - 1},
             o = Outcome(Reply(2, 0, <<n>>), Overwritten(p, q, n))
      PROVE  ServerKeeps(o)
  <2>1. host.files[p].data \in Seq(Int)
    BY <1>5, FileData
  <2>2. q.off \in Nat /\ n \in 0..Len(q.data) /\ q.data \in Seq(Int)
    BY <1>5 DEF Sound, Request
  <2> DEFINE d == Overlay(host.files[p].data, q.off, SubSeq(q.data, 1, n))
             f == [host.files EXCEPT ![p].data = d]
  <2>3. d \in Seq(Int)
    BY <2>1, <2>2, OverlayPart
  <2>4. IsFolder(f)
    BY <1>5, <2>3, FolderData DEF HostTyped
  <2>5. Overwritten(p, q, n) = [host EXCEPT !.files = f, !.wrote = host.wrote + n]
    BY DEF Overwritten
  <2>6. host.wrote + n \in Nat
    BY <2>2 DEF HostTyped
  <2> HIDE DEF f, d
  <2>7. HostTyped(Overwritten(p, q, n))
    <3>1. HostTyped([host EXCEPT !.files = f, !.wrote = host.wrote + n])
      BY <2>4, <2>6, HostFields, Zenon
    <3> QED
      BY <2>5, <3>1
  <2>9. Overwritten(p, q, n).ids = host.ids
    BY <2>5 DEF HostTyped
  <2>8. Len(host.ids) \in Nat
    BY DEF HostTyped
  <2> QED
    BY <1>5, <2>7, <2>8, <2>9 DEF ServerKeeps, Outcome, Reply
<1> HIDE DEF p
<1> QED
  BY <1>2, <1>3, <1>4, <1>5, OnOpenFileCases DEF p

LEMMA NamesServed ==
  ASSUME HostTyped(host), NEW q, Sound(q), NEW o \in OnName(q)
  PROVE  ServerKeeps(o)
<1> DEFINE p == q.path
<1>1. p \in Paths /\ q.to \in Paths /\ q.word \in Nat /\ Len(host.ids) \in Nat
  BY DEF Sound, Request, HostTyped
<1>2. \A h : HostTyped(h) /\ h.ids = host.ids => ServerKeeps(Outcome(Reply(0, 0, <<>>), h))
  BY <1>1 DEF ServerKeeps, Outcome, Reply
<1>3. \A h, size, mode : HostTyped(h) /\ h.ids = host.ids
        => ServerKeeps(Outcome(Ticket(size, mode), Handed(h, p)))
  <2> SUFFICES ASSUME NEW h, NEW size, NEW mode, HostTyped(h), h.ids = host.ids
               PROVE  ServerKeeps(Outcome(Ticket(size, mode), Handed(h, p)))
    OBVIOUS
  <2>1. HostTyped(Handed(h, p))
    BY <1>1, HostFields
  <2>2. Handed(h, p).ids = Append(host.ids, p)
    BY DEF Handed, HostTyped
  <2>3. Len(host.ids) <= Len(Append(host.ids, p)) /\ \A i \in 1..Len(host.ids) : Append(host.ids, p)[i] = host.ids[i]
    BY <1>1 DEF HostTyped
  <2> QED
    BY <2>1, <2>2, <2>3 DEF ServerKeeps, Outcome, Ticket, Reply
<1>4. \A x : [host EXCEPT !.dirs = x].ids = host.ids /\ [host EXCEPT !.files = x].ids = host.ids
  BY DEF HostTyped
<1>40. \A x : IsFolder(x) => HostTyped([host EXCEPT !.files = x]) /\ [host EXCEPT !.files = x].ids = host.ids
  BY <1>4, HostFields, Zenon
<1>5. IsFolder(host.files) /\ host.dirs \in SUBSET Paths
  BY DEF HostTyped
<1>6. CASE o = Outcome(Reply(0, 0, <<>>), Made(p)) \/ o = Outcome(Reply(0, 0, <<>>), Removed(p))
  <2>1. HostTyped(Made(p)) /\ HostTyped(Removed(p))
    <3>1. host.dirs \cup {p} \in SUBSET Paths /\ host.dirs \ {p} \in SUBSET Paths
      BY <1>1, <1>5
    <3> QED
      BY <3>1, HostFields DEF Made, Removed
  <2>2. Made(p).ids = host.ids /\ Removed(p).ids = host.ids
    BY <1>4 DEF Made, Removed
  <2> QED
    BY <1>2, <1>6, <2>1, <2>2
<1>7. ASSUME o = Outcome(Reply(0, 0, <<>>), Gone(p)), p \in DOMAIN host.files
      PROVE  ServerKeeps(o)
  <2>1. HostTyped(Gone(p))
    BY <1>5, FolderWithout, HostFields DEF Gone
  <2>2. Gone(p).ids = host.ids
    BY <1>4 DEF Gone
  <2> QED
    BY <1>2, <1>7, <2>1, <2>2
<1>8. ASSUME o = Outcome(Reply(0, 0, <<>>), Marked(p, q.word)), p \in DOMAIN host.files
      PROVE  ServerKeeps(o)
  <2> DEFINE f == [host.files EXCEPT ![p].attr = q.word]
  <2>1. IsFolder(f)
    BY <1>1, <1>5, <1>8, FolderAttr
  <2>2. Marked(p, q.word) = [host EXCEPT !.files = f]
    BY DEF Marked
  <2> HIDE DEF f
  <2>3. HostTyped(Marked(p, q.word)) /\ Marked(p, q.word).ids = host.ids
    <3>1. HostTyped([host EXCEPT !.files = f]) /\ [host EXCEPT !.files = f].ids = host.ids
      BY <1>40, <2>1, Zenon
    <3> QED
      BY <2>2, <3>1
  <2> QED
    BY <1>2, <1>8, <2>3
<1>9. ASSUME o = Outcome(Reply(0, 0, <<>>), Moved(p, q.to)), p \in DOMAIN host.files
      PROVE  ServerKeeps(o)
  <2> DEFINE f == With(Without(host.files, p), q.to, host.files[p])
  <2>1. IsFolder(f)
    <3>1. host.files[p] \in File
      BY <1>5, <1>9 DEF IsFolder
    <3> QED
      BY <1>1, <1>5, <3>1, FolderWithout, FolderWith
  <2>2. Moved(p, q.to) = [host EXCEPT !.files = f]
    BY DEF Moved
  <2> HIDE DEF f
  <2>3. HostTyped(Moved(p, q.to)) /\ Moved(p, q.to).ids = host.ids
    <3>1. HostTyped([host EXCEPT !.files = f]) /\ [host EXCEPT !.files = f].ids = host.ids
      BY <1>40, <2>1, Zenon
    <3> QED
      BY <2>2, <3>1
  <2> QED
    BY <1>2, <1>9, <2>3
<1>10. ASSUME NEW size, NEW mode, o = Outcome(Ticket(size, mode), Handed(host, p))
       PROVE  ServerKeeps(o)
  BY <1>3, <1>10
<1>11. ASSUME o = Outcome(Ticket(0, 2), Handed(New(p, q.word), p))
       PROVE  ServerKeeps(o)
  <2> DEFINE f == With(host.files, p, [data |-> <<>>, attr |-> q.word])
  <2>1. IsFolder(f)
    <3>1. [data |-> <<>>, attr |-> q.word] \in File
      BY <1>1 DEF File
    <3> QED
      BY <1>1, <1>5, <3>1, FolderWith
  <2>2. New(p, q.word) = [host EXCEPT !.files = f]
    BY DEF New
  <2> HIDE DEF f
  <2>3. HostTyped(New(p, q.word)) /\ New(p, q.word).ids = host.ids
    <3>1. HostTyped([host EXCEPT !.files = f]) /\ [host EXCEPT !.files = f].ids = host.ids
      BY <1>40, <2>1, Zenon
    <3> QED
      BY <2>2, <3>1
  <2> QED
    BY <1>3, <1>11, <2>3
<1>12. ASSUME p \in DOMAIN host.files,
              o = Outcome(Reply(10, 0, <<host.files[p].attr, Len(host.files[p].data)>>), host)
       PROVE  ServerKeeps(o)
  BY <1>12, Unchanged
<1>13. CASE o = Missing
  <2>1. ServerKeeps(Outcome(Reply(0, 2, <<>>), host))
    BY Unchanged
  <2> QED
    BY <1>13, <2>1 DEF Missing
<1>14. CASE o = Outcome(Reply(0, 0, <<>>), host)
  BY <1>14, Unchanged
<1> HIDE DEF p
<1> QED
  BY <1>6, <1>7, <1>8, <1>9, <1>10, <1>11, <1>12, <1>13, <1>14, OnNameCases DEF p

LEMMA SearchesServed ==
  ASSUME HostTyped(host), NEW q, Sound(q), NEW o \in OnSearch(q)
  PROVE  /\ ServerKeeps(o) /\ o.h.ids = host.ids
         /\ o.r.ax = 0 => o.r.len = 24 /\ o.r.out \in STRING \X (0..Tokens - 1) \X Nat
<1>1. Listed(q) \in Seq(STRING)
  <2>1. Inside(Front(q.path)) \in Seq(STRING)
    BY ListingTyped DEF Inside, Entries
  <2> QED
    BY <2>1 DEF Listed, Sound, Request, HostTyped
<1>2. HostTyped(Kept(q)) /\ Kept(q).ids = host.ids
  BY <1>1 DEF Kept, HostTyped, Sound, Request
<1>3. q.entry \in Nat /\ q.token \in 0..Tokens - 1 /\ Len(host.ids) \in Nat
  BY DEF Sound, Request, HostTyped
<1>4. CASE o = Outcome(Reply(0, 18, <<>>), Kept(q))
  BY <1>2, <1>3, <1>4 DEF ServerKeeps, Outcome, Reply
<1>5. ASSUME ~(q.entry >= Len(Listed(q))),
             o = Outcome(Reply(24, 0, <<Listed(q)[q.entry + 1], q.token, q.entry + 1>>), Kept(q))
      PROVE  /\ ServerKeeps(o) /\ o.h.ids = host.ids
             /\ o.r.len = 24 /\ o.r.out \in STRING \X (0..Tokens - 1) \X Nat
  <2>1. q.entry + 1 \in 1..Len(Listed(q))
    BY <1>1, <1>3, <1>5
  <2>2. <<Listed(q)[q.entry + 1], q.token, q.entry + 1>> \in STRING \X (0..Tokens - 1) \X Nat
    BY <1>1, <1>3, <2>1
  <2> QED
    <3> DEFINE out == <<Listed(q)[q.entry + 1], q.token, q.entry + 1>>
    <3>1. o = Outcome(Reply(24, 0, out), Kept(q)) /\ out \in STRING \X (0..Tokens - 1) \X Nat
      BY <1>5, <2>2
    <3> HIDE DEF out
    <3>2. o.h = Kept(q) /\ o.r.len = 24 /\ o.r.ax = 0 /\ o.r.out = out
      BY <3>1 DEF Outcome, Reply
    <3>3. ServerKeeps(o) /\ o.h.ids = host.ids
      BY <1>2, <1>3, <3>2 DEF ServerKeeps
    <3> QED
      BY <3>1, <3>2, <3>3
<1> QED
  <2>1. CASE o = Outcome(Reply(0, 18, <<>>), Kept(q))
    <3>1. o.r.ax = 18 /\ o.h = Kept(q)
      BY <2>1 DEF Outcome, Reply
    <3> QED
      BY <1>2, <1>4, <2>1, <3>1
  <2> QED
    BY <1>5, <2>1, OnSearchCases

LEMMA PathsServed ==
  ASSUME HostTyped(host), NEW q, Sound(q), q.fn \in supportedfunctions, NEW o \in Does(q)
  PROVE  ServerKeeps(o)
<1>1. CASE q.fn \in OnHandle
  BY <1>1, DoesCases, FilesServed
<1>2. CASE q.fn \in OnPath
  BY <1>2, DoesCases, NamesServed
<1>3. CASE q.fn \in {"FINDFIRST", "FINDNEXT"}
  BY <1>3, DoesCases, SearchesServed
<1>4. CASE q.fn = "DISKSPACE"
  <2>1. o = Outcome(Reply(6, 4, <<1000, 512, 500>>), host)
    BY <1>4, DoesCases
  <2>2. ServerKeeps(Outcome(Reply(6, 4, <<1000, 512, 500>>), host))
    BY Unchanged
  <2> QED
    BY <2>1, <2>2
<1> QED
  BY <1>1, <1>2, <1>3, <1>4 DEF supportedfunctions

LEMMA RefusalServed ==
  ASSUME HostTyped(host), NEW o \in Refusals
  PROVE  /\ ServerKeeps(o) /\ o.h = host
         /\ o.r.len = 65535 \/ o.r.ax = 5
         /\ o.r.len \in {0, 65535}
<1>1. o = Outcome(Reply(0, 5, <<>>), host) \/ o = Outcome(Reply(65535, 0, <<>>), host)
  BY DEF Refusals
<1>2. ServerKeeps(Outcome(Reply(0, 5, <<>>), host)) /\ ServerKeeps(Outcome(Reply(65535, 0, <<>>), host))
  BY Unchanged
<1> QED
  BY <1>1, <1>2 DEF Outcome, Reply

----------------------------------------------------------------------------
(* Requests.                                                               *)

LEMMA SftTyped ==
  ASSUME DosTyped, NEW h \in Handles
  PROVE  dos.sft[h] \in SftEntry
BY DEF DosTyped, Dos

\* How much of a move a chunk takes.
LEMMA ChunkFits ==
  ASSUME NEW n \in Nat, NEW t \in Nat, t < n
  PROVE  Less(n - t, Chunk) \in Nat \ {0} /\ t + Less(n - t, Chunk) <= n
BY FsAssumption DEF Less

LEMMA Zeros == "none" \in Functions /\ <<>> \in Paths /\ <<>> \in Seq(Int) /\ 0 \in 0..Tokens - 1
BY FsAssumption DEF Paths, Functions

LEMMA RequestFields ==
  ASSUME NEW q \in Request
  PROVE  /\ \A x \in Functions : [q EXCEPT !.fn = x] \in Request
         /\ \A id \in Nat, off \in Int, n \in Int : [q EXCEPT !.id = id, !.off = off, !.n = n] \in Request
         /\ \A id \in Nat, off \in Int, n \in Int, data \in Seq(Int) :
              [q EXCEPT !.id = id, !.off = off, !.n = n, !.data = data] \in Request
BY DEF Request

LEMMA AskTyped ==
  ASSUME NEW k, k.fn \in Functions
  PROVE  Ask(k) \in Request /\ Ask(k).fn = k.fn
<1>1. NoQuery \in Request
  BY Zeros DEF NoQuery, Request
<1> QED
  BY <1>1, RequestFields DEF Ask, Request

LEMMA ReadQueryIs ==
  ASSUME DosTyped, CpuTyped, CallTyped, call.fn = "READFIL", cpu.total < call.n
  PROVE  /\ ReadQuery(call) \in Request /\ ReadQuery(call).fn = "READFIL"
         /\ ReadQuery(call).id = dos.sft[call.h].id
         /\ ReadQuery(call).off = dos.sft[call.h].pos + cpu.total /\ ReadQuery(call).off \in Nat
         /\ ReadQuery(call).n = Now /\ Now \in Nat \ {0}
<1>1. cpu.total \in Nat /\ call.n \in Nat /\ call.h \in Handles /\ call.fn \in Functions
  BY DEF CpuTyped, Cpu, CallTyped, Call, Moves
<1>2. Now \in Nat \ {0}
  BY <1>1, ChunkFits DEF Now
<1>3. dos.sft[call.h].id \in Nat /\ dos.sft[call.h].pos \in Nat
  BY <1>1, SftTyped DEF SftEntry
<1> DEFINE i == dos.sft[call.h].id
           a == dos.sft[call.h].pos + cpu.total
           q == Ask(call)
<1>4. i \in Nat /\ a \in Nat /\ q \in Request /\ q.fn = "READFIL"
  BY <1>1, <1>3, AskTyped
<1>5. ReadQuery(call) = [q EXCEPT !.id = i, !.off = a, !.n = Now]
  BY DEF ReadQuery, Sft, Now
<1> HIDE DEF i, a, q, Now
<1>6. ReadQuery(call) \in Request
  <2>1. a \in Int /\ Now \in Int
    BY <1>2, <1>4
  <2>2. [q EXCEPT !.id = i, !.off = a, !.n = Now] \in Request
    BY <1>4, <2>1, RequestFields, Zenon
  <2> QED
    BY <1>5, <2>2
<1>7. ReadQuery(call).fn = "READFIL" /\ ReadQuery(call).id = i /\ ReadQuery(call).off = a /\ ReadQuery(call).n = Now
  BY <1>4, <1>5 DEF Request
<1> QED
  BY <1>2, <1>4, <1>6, <1>7 DEF i, a

LEMMA WriteQueryIs ==
  ASSUME DosTyped, CpuTyped, CallTyped, call.fn = "WRITEFIL", cpu.total < call.n, dos.buf = call.data
  PROVE  /\ WriteQuery(call) \in Request /\ WriteQuery(call).fn = "WRITEFIL"
         /\ WriteQuery(call).id = dos.sft[call.h].id
         /\ WriteQuery(call).off = dos.sft[call.h].pos /\ WriteQuery(call).off \in Nat
         /\ WriteQuery(call).n = Now /\ Now \in Nat \ {0} /\ cpu.total + Now <= call.n
         /\ WriteQuery(call).data = SubSeq(call.data, cpu.total + 1, cpu.total + Now)
         /\ Len(WriteQuery(call).data) = Now
<1>1. cpu.total \in Nat /\ call.n \in Nat /\ call.h \in Handles /\ call.fn \in Functions
      /\ call.data \in Seq(Int) /\ call.n <= Len(call.data)
  BY DEF CpuTyped, Cpu, CallTyped, Call, Moves
<1>2. Now \in Nat \ {0} /\ cpu.total + Now <= call.n
  BY <1>1, ChunkFits DEF Now
<1>3. dos.sft[call.h].id \in Nat /\ dos.sft[call.h].pos \in Nat
  BY <1>1, SftTyped DEF SftEntry
<1> DEFINE i == dos.sft[call.h].id
           a == dos.sft[call.h].pos
           q == Ask(call)
           d == SubSeq(call.data, cpu.total + 1, cpu.total + Now)
<1>4. i \in Nat /\ a \in Nat /\ q \in Request /\ q.fn = "WRITEFIL"
  BY <1>1, <1>3, AskTyped
<1>5. WriteQuery(call) = [q EXCEPT !.id = i, !.off = a, !.n = Now, !.data = d]
  BY DEF WriteQuery, Sft, Now
<1>6. d \in Seq(Int) /\ Len(d) = Now
  <2> DEFINE s == call.data
             t == cpu.total
             n == Now
  <2>1. t + n <= Len(s) /\ n \in Nat /\ t \in Nat /\ s \in Seq(Int)
    BY <1>1, <1>2
  <2> HIDE DEF s, t, n
  <2>2. SubSeq(s, t + 1, t + n) \in Seq(Int) /\ Len(SubSeq(s, t + 1, t + n)) = n
    BY <2>1, Piece
  <2> QED
    BY <2>2 DEF s, t, n
<1> HIDE DEF i, a, q, d
<1>7. WriteQuery(call) \in Request
  <2>1. a \in Int /\ Now \in Int
    BY <1>2, <1>4
  <2>2. [q EXCEPT !.id = i, !.off = a, !.n = Now, !.data = d] \in Request
    BY <1>4, <1>6, <2>1, RequestFields, Zenon
  <2> QED
    BY <1>5, <2>2
<1>8. /\ WriteQuery(call).fn = "WRITEFIL" /\ WriteQuery(call).id = i /\ WriteQuery(call).off = a
      /\ WriteQuery(call).n = Now /\ WriteQuery(call).data = d
  <2> DEFINE w == WriteQuery(call)
  <2>1. w = [q EXCEPT !.id = i, !.off = a, !.n = Now, !.data = d]
    BY <1>5
  <2> HIDE DEF w
  <2>2. w.fn = q.fn /\ w.id = i /\ w.off = a /\ w.n = Now /\ w.data = d
    BY <1>4, <2>1 DEF Request
  <2> QED
    BY <1>4, <2>2 DEF w
<1> QED
  BY <1>2, <1>4, <1>6, <1>7, <1>8 DEF i, a, d

LEMMA QueryCases ==
  ASSUME NEW k
  PROVE  /\ k.fn = "READFIL" => Query(k) = ReadQuery(k)
         /\ k.fn = "WRITEFIL" => Query(k) = WriteQuery(k)
         /\ k.fn = "CLSFIL" => Query(k) = [Ask(k) EXCEPT !.id = Sft(k).id]
         /\ k.fn = "SKFMEND" => Query(k) = [Ask(k) EXCEPT !.id = Sft(k).id, !.off = k.n]
         /\ k.fn = "LOCKFIL" =>
              Query(k) = [Ask(k) EXCEPT !.fn = QueryFn(k), !.id = Sft(k).id, !.n = k.n]
         /\ k.fn = "RENAME" => Query(k) = [Ask(k) EXCEPT !.path = k.path.names, !.to = k.to.names]
         /\ k.fn = "FINDFIRST" => Query(k) = [Ask(k) EXCEPT !.path = k.path.names, !.token = tsr.token]
         /\ k.fn = "FINDNEXT" =>
              Query(k) = [Ask(k) EXCEPT !.token = dos.dta[k.d].par, !.entry = dos.dta[k.d].entry]
         /\ k.fn \in Opens => Query(k) = [Ask(k) EXCEPT !.path = k.path.names, !.word = tsr.word, !.mode = k.mode]
         /\ k.fn = "SETATTR" => Query(k) = [Ask(k) EXCEPT !.path = k.path.names, !.word = tsr.word]
         /\ k.fn = "DISKSPACE" => Query(k) = Ask(k)
         /\ k.fn \notin Opens \cup Moves \cup {"CLSFIL", "SKFMEND", "LOCKFIL", "RENAME", "FINDFIRST", "FINDNEXT",
                                               "SETATTR", "DISKSPACE"} =>
              Query(k) = [Ask(k) EXCEPT !.path = k.path.names]
BY DEF Query, Opens, Moves

\* The request for a call: well formed, for the call's function and its handle.
Put == QueryFn(call)
LEMMA QueryTyped ==
  ASSUME DosTyped, TsrTyped, CpuTyped, CallTyped, call.fn \in supportedfunctions,
         call.fn \in Moves => cpu.total < call.n,
         call.fn = "WRITEFIL" => dos.buf = call.data
  PROVE  /\ Query(call) \in Request /\ Query(call).fn = Put
         /\ Query(call).fn \in OnHandle /\ call.fn \notin {"CMMTFIL", "UNLOCKFIL", "2D"} => Query(call).id = dos.sft[call.h].id
<1>1. /\ call.fn \in Functions /\ call.h \in Handles /\ call.d \in Searches /\ call.path.names \in Paths
      /\ call.to.names \in Paths /\ call.mode \in Nat /\ call.n \in Int
  BY DEF CallTyped, Call, Place
<1>2. dos.sft[call.h].id \in Nat /\ dos.dta[call.d].par \in 0..Tokens - 1 /\ dos.dta[call.d].entry \in Nat
  BY <1>1, SftTyped DEF DosTyped, Dos, SftEntry, DtaEntry
<1>3. tsr.word \in Nat /\ tsr.token \in 0..Tokens - 1
  BY DEF TsrTyped, Tsr
<1> DEFINE q == Ask(call)
           i == dos.sft[call.h].id
           n == call.n
           par == dos.dta[call.d].par
           entry == dos.dta[call.d].entry
           p == call.path.names
           to == call.to.names
           m == call.mode
           word == tsr.word
           token == tsr.token
           w == Query(call)
<1>4. /\ q \in Request /\ q.fn = call.fn /\ i \in Nat /\ n \in Int /\ par \in 0..Tokens - 1 /\ entry \in Nat
      /\ p \in Paths /\ to \in Paths /\ m \in Nat /\ word \in Nat /\ token \in 0..Tokens - 1
  BY <1>1, <1>2, <1>3, AskTyped
<1>5. Put \in Functions
  BY <1>1 DEF Put, QueryFn, Functions, supportedfunctions, OnHandle
<1> HIDE DEF q, i, n, par, entry, p, to, m, word, token, w
<1>6. CASE call.fn = "READFIL"
  <2>1. Query(call) = ReadQuery(call)
    BY <1>6, QueryCases
  <2> QED
    BY <1>6, <2>1, ReadQueryIs DEF Put, QueryFn, Moves
<1>7. CASE call.fn = "WRITEFIL"
  <2>1. Query(call) = WriteQuery(call)
    BY <1>7, QueryCases
  <2> QED
    BY <1>7, <2>1, WriteQueryIs DEF Put, QueryFn, Moves
<1>8. CASE call.fn = "CLSFIL"
  <2>1. w = [q EXCEPT !.id = i]
    BY <1>8, QueryCases DEF w, q, i, Sft
  <2>2. w \in Request /\ w.fn = q.fn /\ w.id = i
    BY <1>4, <1>5, <2>1 DEF Request
  <2> QED
    BY <1>8, <1>4, <2>2 DEF w, i, Put, QueryFn, OnHandle, Opens, Moves
<1>9. CASE call.fn = "SKFMEND"
  <2>1. w = [q EXCEPT !.id = i, !.off = n]
    BY <1>9, QueryCases DEF w, q, i, n, Sft
  <2>2. w \in Request /\ w.fn = q.fn /\ w.id = i
    BY <1>4, <1>5, <2>1 DEF Request
  <2> QED
    BY <1>9, <1>4, <2>2 DEF w, i, Put, QueryFn, OnHandle, Opens, Moves
<1>10. CASE call.fn = "LOCKFIL"
  <2>1. w = [q EXCEPT !.fn = Put, !.id = i, !.n = n]
    BY <1>10, <1>4, QueryCases DEF w, q, i, n, Sft, Put, QueryFn
  <2>2. w \in Request /\ w.fn = Put /\ w.id = i
    BY <1>4, <1>5, <2>1 DEF Request
  <2> QED
    BY <2>2 DEF w, i
<1>11. CASE call.fn = "RENAME"
  <2>1. w = [q EXCEPT !.path = p, !.to = to]
    BY <1>11, QueryCases DEF w, q, p, to
  <2>2. w \in Request /\ w.fn = q.fn
    BY <1>4, <1>5, <2>1 DEF Request
  <2> QED
    BY <1>11, <1>4, <2>2 DEF w, Put, QueryFn, OnHandle, Opens, Moves
<1>12. CASE call.fn = "FINDFIRST"
  <2>1. w = [q EXCEPT !.path = p, !.token = token]
    BY <1>12, QueryCases DEF w, q, p, token
  <2>2. w \in Request /\ w.fn = q.fn
    BY <1>4, <1>5, <2>1 DEF Request
  <2> QED
    BY <1>12, <1>4, <2>2 DEF w, Put, QueryFn, OnHandle, Opens, Moves
<1>13. CASE call.fn = "FINDNEXT"
  <2>1. w = [q EXCEPT !.token = par, !.entry = entry]
    BY <1>13, QueryCases DEF w, q, par, entry
  <2>2. w \in Request /\ w.fn = q.fn
    BY <1>4, <1>5, <2>1 DEF Request
  <2> QED
    BY <1>13, <1>4, <2>2 DEF w, Put, QueryFn, OnHandle, Opens, Moves
<1>14. CASE call.fn \in Opens
  <2>1. w = [q EXCEPT !.path = p, !.word = word, !.mode = m]
    BY <1>14, QueryCases DEF w, q, p, word, m
  <2>2. w \in Request /\ w.fn = q.fn
    BY <1>4, <1>5, <2>1 DEF Request
  <2> QED
    BY <1>14, <1>4, <2>2 DEF w, Put, QueryFn, OnHandle, Opens, Moves
<1>15. CASE call.fn = "SETATTR"
  <2>1. w = [q EXCEPT !.path = p, !.word = word]
    BY <1>15, QueryCases DEF w, q, p, word
  <2>2. w \in Request /\ w.fn = q.fn
    BY <1>4, <1>5, <2>1 DEF Request
  <2> QED
    BY <1>15, <1>4, <2>2 DEF w, Put, QueryFn, OnHandle, Opens, Moves
<1>16. CASE call.fn = "DISKSPACE"
  <2>1. w = q
    BY <1>16, QueryCases DEF w, q
  <2> QED
    BY <1>4, <1>16, <2>1 DEF w, Put, QueryFn, OnHandle
<1>17. CASE call.fn \notin Opens \cup Moves \cup {"CLSFIL", "SKFMEND", "LOCKFIL", "RENAME", "FINDFIRST", "FINDNEXT",
                                                  "SETATTR", "DISKSPACE"}
  <2>1. w = [q EXCEPT !.path = p]
    BY <1>17, QueryCases DEF w, q, p
  <2>2. w \in Request /\ w.fn = q.fn
    BY <1>4, <1>5, <2>1 DEF Request
  <2> QED
    BY <1>17, <1>4, <2>2 DEF w, Put, QueryFn, OnHandle, Opens, Moves
<1> QED
  BY <1>6, <1>7, <1>8, <1>9, <1>10, <1>11, <1>12, <1>13, <1>14, <1>15, <1>16, <1>17 DEF Moves

\* What the host finds in the frame.
LEMMA AskedSound ==
  ASSUME TypeInv, Protocol, Handled, Moving, box.ack = Mark, box.frame.fn # "answer"
  PROVE  /\ Asking /\ Sound(box.frame) /\ box.frame.fn = Put /\ box.frame.fn \in supportedfunctions
<1>1. Asking /\ call.fn \in supportedfunctions
  BY DEF Asking, Protocol, At
<1>2. box.frame \in Request /\ box.frame.fn = Put
  BY <1>1 DEF TypeInv, BoxTyped, Handled, Put, QueryFn
<1>3. box.frame.fn \in supportedfunctions /\ (box.frame.fn \in OnHandle => box.frame.id \in 1..Len(host.ids))
  BY <1>1, <1>2 DEF Handled, supportedfunctions, Put, QueryFn, OnHandle
<1>4. ASSUME box.frame.fn = "READFIL"
      PROVE  box.frame.off \in Nat /\ box.frame.n \in Nat
  <2>1. call.fn = "READFIL"
    BY <1>2, <1>4 DEF Put, QueryFn
  <2>2. box.frame = ReadQuery(call) /\ cpu.total < call.n
    BY <1>1, <2>1 DEF Moving, ReadPart, Moves, Asking, At, Total
  <2> QED
    BY <2>1, <2>2, ReadQueryIs DEF TypeInv
<1>5. ASSUME box.frame.fn = "WRITEFIL"
      PROVE  box.frame.off \in Nat /\ box.frame.n \in Nat \ {0} /\ Len(box.frame.data) = box.frame.n
  <2>1. call.fn = "WRITEFIL"
    BY <1>2, <1>5 DEF Put, QueryFn
  <2>2. box.frame = WriteQuery(call) /\ cpu.total < call.n /\ dos.buf = call.data
    BY <1>1, <2>1 DEF Moving, WritePart, Moves, Asking, At, Total
  <2> QED
    BY <2>1, <2>2, WriteQueryIs DEF TypeInv
<1> QED
  BY <1>1, <1>2, <1>3, <1>4, <1>5 DEF Sound

----------------------------------------------------------------------------
(* Types.                                                                  *)

LEMMA TypesSame ==
  ASSUME TypeInv
  PROVE  /\ UNCHANGED dos => DosTyped'
         /\ UNCHANGED tsr => TsrTyped'
         /\ UNCHANGED box => BoxTyped'
         /\ UNCHANGED host => HostTyped(host')
         /\ UNCHANGED cpu => CpuTyped'
         /\ UNCHANGED call => CallTyped'
         /\ UNCHANGED hist => HistTyped'
BY DEF TypeInv, DosTyped, TsrTyped, BoxTyped, R, CpuTyped, CallTyped, HistTyped

LEMMA TypeInit == Init => TypeInv
<1> SUFFICES ASSUME Init PROVE TypeInv
  OBVIOUS
<1>1. 0 \in 0..Tokens - 1 /\ <<>> \in Paths /\ <<>> \in Seq(Int) /\ <<>> \in Seq(STRING) /\ <<>> \in Seq(Handlers)
  BY FsAssumption DEF Paths
<1>2. NoSft \in SftEntry /\ NoDta \in DtaEntry /\ NoCall \in Call
  BY <1>1 DEF NoSft, NoDta, NoCall, SftEntry, DtaEntry, Call, Functions, Place, Path, Drives, Handles, Searches
<1>3. DosTyped
  <2>1. <<"dos">> \in Seq(Handlers) /\ Path("C", <<>>) \in Place
    BY <1>1 DEF Handlers, Path, Place, Drives
  <2> QED
    BY <1>1, <1>2, <2>1 DEF Init, DosTyped, Dos
<1>4. TsrTyped
  BY <1>1 DEF Init, TsrTyped, Tsr
<1>5. BoxTyped
  <2>1. NoQuery \in Request /\ NoQuery.fn # "answer"
    BY <1>1, Zeros DEF NoQuery, Request
  <2> QED
    BY <2>1 DEF Init, BoxTyped
<1>6. HostTyped(host)
  BY <1>1, FolderAssumption DEF Init, HostTyped
<1>7. CpuTyped /\ CallTyped
  BY <1>1, <1>2 DEF Init, CpuTyped, Cpu, CallTyped, Moves, NoCall
<1>8. HistTyped
  <2>1. /\ hist.before = NoHistory /\ hist.done = TRUE /\ hist.refusals = 0 /\ hist.loads = 0 /\ hist.calls = 0
        /\ hist.others = 0 /\ hist.listed = [s \in Searches |-> <<>>] /\ hist.names = [s \in Searches |-> <<>>]
        /\ hist.prog \in Programs
    BY DEF Init
  <2>2. hist \in Hist(hist.before)
    <3> DEFINE none == [s \in Searches |-> <<>>]
    <3>1. none \in [Searches -> Seq(STRING)]
      BY <1>1
    <3>2. hist \in [before : {NoHistory}, done : {TRUE}, refusals : {0}, loads : {0}, calls : {0}, others : {0},
                    listed : {none}, names : {none}, prog : Programs]
      BY DEF Init
    <3> HIDE DEF none
    <3>3. PICK g \in Programs :
            hist = [before |-> NoHistory, done |-> TRUE, refusals |-> 0, loads |-> 0, calls |-> 0, others |-> 0,
                    listed |-> none, names |-> none, prog |-> g]
      BY <3>2
    <3> QED
      BY <3>1, <3>3 DEF Hist
  <2>3. NoHistory \in [files : {Files}, dirs : SUBSET Paths, sft : [Handles -> SftEntry]] /\ NoHistory.files = Files
    BY <1>2, FolderAssumption DEF NoHistory
  <2> QED
    BY <2>1, <2>2, <2>3, FolderAssumption DEF HistTyped
<1> QED
  BY <1>3, <1>4, <1>5, <1>6, <1>7, <1>8 DEF TypeInv

LEMMA CpuFields ==
  ASSUME NEW c \in Cpu
  PROVE  /\ \A p \in {"out", "enter", "work", "wait"} : [c EXCEPT !.pc = p] \in Cpu
         /\ \A n \in Nat : [c EXCEPT !.pc = "work", !.total = n] \in Cpu
BY DEF Cpu

LEMMA SftFields ==
  ASSUME NEW d \in Dos, NEW h \in Handles
  PROVE  /\ d.sft[h].pos \in Nat /\ d.sft[h].size \in Nat
         /\ \A e \in SftEntry : [d EXCEPT !.sft[h] = e] \in Dos
         /\ \A x \in Nat : [d EXCEPT !.sft[h].pos = x] \in Dos
         /\ \A x \in Nat : [d EXCEPT !.sft[h].count = x] \in Dos
         /\ \A x, y \in Nat : [d EXCEPT !.sft[h].pos = x, !.sft[h].size = y] \in Dos
<1>1. d.sft[h] \in SftEntry
  BY DEF Dos
<1>2. \A e \in SftEntry : [d EXCEPT !.sft[h] = e] \in Dos
  BY DEF Dos
<1>3. \A x \in Nat : [d.sft[h] EXCEPT !.pos = x] \in SftEntry /\ [d.sft[h] EXCEPT !.count = x] \in SftEntry
  BY <1>1 DEF SftEntry
<1>4. \A x, y \in Nat : [d.sft[h] EXCEPT !.pos = x, !.size = y] \in SftEntry
  BY <1>1 DEF SftEntry
<1>5. \A x \in Nat : [d EXCEPT !.sft[h].pos = x] \in Dos
  <2> TAKE x \in Nat
  <2>1. [d EXCEPT !.sft[h].pos = x] = [d EXCEPT !.sft[h] = [d.sft[h] EXCEPT !.pos = x]]
    OBVIOUS
  <2> QED
    BY <1>2, <1>3, <2>1
<1>6. \A x \in Nat : [d EXCEPT !.sft[h].count = x] \in Dos
  <2> TAKE x \in Nat
  <2>1. [d EXCEPT !.sft[h].count = x] = [d EXCEPT !.sft[h] = [d.sft[h] EXCEPT !.count = x]]
    OBVIOUS
  <2> QED
    BY <1>2, <1>3, <2>1
<1>7. \A x, y \in Nat : [d EXCEPT !.sft[h].pos = x, !.sft[h].size = y] \in Dos
  <2> TAKE x, y \in Nat
  <2>1. [d EXCEPT !.sft[h].pos = x, !.sft[h].size = y] = [d EXCEPT !.sft[h] = [d.sft[h] EXCEPT !.pos = x, !.size = y]]
    BY <1>1, Zenon DEF Dos
  <2> QED
    BY <1>2, <1>4, <2>1
<1>8. d.sft[h].pos \in Nat /\ d.sft[h].size \in Nat
  BY <1>1 DEF SftEntry
<1> QED
  BY <1>2, <1>5, <1>6, <1>7, <1>8

\* An answer is looked at when it is there.
LEMMA AnswerThere ==
  ASSUME TypeInv, Protocol, Answered
  PROVE  /\ Served /\ box.frame.fn = "answer" /\ R.len \in Nat /\ R.ax \in Nat
         /\ ~Verdict.cf => Good /\ R.len = GoodLength[call.fn]
<1>1. Served /\ box.frame.fn = "answer"
  BY DEF Answered, Served, Protocol
<1>2. R.len \in Nat /\ R.ax \in Nat
  BY <1>1 DEF TypeInv, BoxTyped
<1>3. ~Verdict.cf => Good /\ R.len = GoodLength[call.fn]
  BY DEF Verdict, Fail, Success, Good
<1> QED
  BY <1>1, <1>2, <1>3

LEMMA Lengths ==
  /\ \A f \in Opens : GoodLength[f] = 25
  /\ \A f \in {"FINDFIRST", "FINDNEXT"} : GoodLength[f] = 24
  /\ GoodLength["SKFMEND"] = 4 /\ GoodLength["WRITEFIL"] = 2 /\ GoodLength["GETATTR"] = 10
  /\ \A f \in {"MKDIR", "RMDIR", "SETATTR", "RENAME", "DELETE", "CHDIR"} : GoodLength[f] = 0
BY DEF GoodLength, Opens, OnHandle, OnPath

\* What an answer leaves alone, and where it goes on.
Out == cpu' = [cpu EXCEPT !.pc = "out"]
Answers == OnNames \/ OnFiles \/ Found
LEMMA AnswersKeep ==
  ASSUME Answers
  PROVE  /\ Answered /\ UNCHANGED <<tsr, box, host, call>>
         /\ ~Found => UNCHANGED hist
<1>1. CASE OnNames
  BY <1>1 DEF OnNames, MadeOrRemoved, AttrSet, Renamed, Deleted, Changed, AttrGot, Space, Named
<1>2. CASE OnFiles
  BY <1>2 DEF OnFiles, OpenedFile, Closed, Locked, EndSought, ReadOn, WriteOn
<1>3. CASE Found
  BY <1>3 DEF Found
<1> QED
  BY <1>1, <1>2, <1>3 DEF Answers

\* What a chunk of a read leaves in the caller's buffer.
Filled == [i \in DOMAIN dos.buf |-> IF i > cpu.total /\ i <= cpu.total + R.len
                                      THEN R.out[i - cpu.total] ELSE dos.buf[i]]
LEMMA CopiedIs ==
  ASSUME TypeInv, Fits, Served, Good, call.fn = "READFIL"
  PROVE  /\ Copied = [dos EXCEPT !.buf = Filled] /\ Copied \in Dos /\ Copied.sft = dos.sft
         /\ R.out \in Seq(Int) /\ R.len = Len(R.out) /\ Filled \in Seq(Int) /\ Len(Filled) = Len(dos.buf)
<1>1. R.out \in Seq(Int) /\ R.len = Len(R.out) /\ cpu.total \in Nat /\ dos \in Dos
  BY DEF Fits, TypeInv, CpuTyped, Cpu, DosTyped
<1>2. Copied = [dos EXCEPT !.buf = Filled]
  BY DEF Copied, Filled
<1>3. dos.buf \in Seq(Int) /\ DOMAIN dos.buf = 1..Len(dos.buf) /\ Len(dos.buf) \in Nat
  BY <1>1 DEF Dos
<1>4. Filled \in [1..Len(dos.buf) -> Int]
  BY <1>1, <1>3 DEF Filled
<1>5. Filled \in Seq(Int) /\ Len(Filled) = Len(dos.buf)
  BY <1>3, <1>4, IsSeq
<1> QED
  BY <1>1, <1>2, <1>5 DEF Dos

LEMMA AnswerTypes ==
  ASSUME TypeInv, Protocol, Fits, Answers
  PROVE  TypeInv'
<1>1. UNCHANGED <<tsr, box, host, call>> /\ (~Found => UNCHANGED hist) /\ Answered
  BY AnswersKeep
<1>2. Served /\ R.len \in Nat /\ R.ax \in Nat /\ (~Verdict.cf => Good /\ R.len = GoodLength[call.fn])
  BY <1>1, AnswerThere
<1>3. TsrTyped' /\ BoxTyped' /\ HostTyped(host') /\ CallTyped' /\ (UNCHANGED hist => HistTyped')
  BY <1>1, TypesSame
<1>4. dos \in Dos /\ cpu \in Cpu /\ call.h \in Handles /\ call.d \in Searches /\ call.path \in Place
  BY DEF TypeInv, DosTyped, CpuTyped, CallTyped, Call
<1>5. (\A r : Return(r) => CpuTyped') /\ (Out => CpuTyped')
  BY <1>4, CpuFields DEF Return, CpuTyped, Out
<1>6. UNCHANGED dos => DosTyped'
  BY TypesSame
<1>7. CASE MadeOrRemoved \/ AttrSet \/ Renamed \/ Deleted \/ AttrGot \/ Space \/ Closed \/ Locked
  BY <1>1, <1>3, <1>5, <1>6, <1>7
     DEF TypeInv, MadeOrRemoved, AttrSet, Renamed, Deleted, AttrGot, Space, Named, Closed, Locked
<1>8. CASE Changed
  <2>1. [dos EXCEPT !.cwd = call.path] \in Dos
    BY <1>4 DEF Dos
  <2> QED
    BY <1>1, <1>3, <1>4, <1>5, <1>8, <2>1 DEF TypeInv, DosTyped, Changed
<1>9. CASE EndSought
  <2>1. ~Verdict.cf => R.out[1] \in Nat
    BY <1>2, <1>9, Lengths DEF Fits, EndSought
  <2>2. DosTyped'
    BY <1>4, <1>9, <2>1, SftFields DEF EndSought, DosTyped
  <2> QED
    BY <1>1, <1>3, <1>5, <1>9, <2>2 DEF TypeInv, EndSought
<1>10. CASE OpenedFile
  <2> DEFINE e == [dev |-> tsr.req, id |-> R.out[1], mode |-> R.out[3], pos |-> 0, size |-> R.out[2], count |-> 1]
  <2>1. ASSUME ~Verdict.cf
        PROVE  e \in SftEntry
    <3>1. R.out \in Seq(Nat) /\ Len(R.out) = 4
      BY <1>2, <1>10, <2>1, Lengths DEF Fits, OpenedFile
    <3>2. R.out[1] \in Nat /\ R.out[2] \in Nat /\ R.out[3] \in Nat
      BY <3>1
    <3> QED
      BY <3>2 DEF TypeInv, TsrTyped, Tsr, SftEntry
  <2>2. dos' = IF Verdict.cf THEN dos ELSE [dos EXCEPT !.sft[call.h] = e]
    BY <1>10 DEF OpenedFile
  <2> HIDE DEF e
  <2>3. DosTyped'
    BY <1>4, <2>1, <2>2, SftFields DEF DosTyped
  <2>4. CpuTyped'
    BY <1>5, <1>10 DEF OpenedFile
  <2> QED
    BY <1>1, <1>3, <1>10, <2>3, <2>4 DEF TypeInv, OpenedFile
<1>11. CASE Found
  <2>1. ASSUME ~Verdict.cf
        PROVE  R.out[1] \in STRING /\ R.out[2] \in 0..Tokens - 1 /\ R.out[3] \in Nat
    BY <1>2, <1>11, <2>1, Lengths DEF Fits, Found
  <2> DEFINE e == [drv |-> IF call.fn = "FINDFIRST" THEN tsr.req ELSE dos.dta[call.d].drv,
                   par |-> R.out[2], entry |-> R.out[3]]
             l == Append(hist.listed[call.d], R.out[1])
  <2>2. ~Verdict.cf => e \in DtaEntry
    BY <1>4, <2>1 DEF TypeInv, TsrTyped, Tsr, Dos, DtaEntry
  <2>3. dos' = IF Verdict.cf THEN dos ELSE [dos EXCEPT !.dta[call.d] = e]
    BY <1>11 DEF Found
  <2>4. hist' = IF Verdict.cf THEN hist ELSE [hist EXCEPT !.listed[call.d] = l]
    BY <1>11 DEF Found
  <2>5. ~Verdict.cf => l \in Seq(STRING)
    BY <1>4, <2>1 DEF TypeInv, HistTyped, Hist
  <2> HIDE DEF e, l
  <2>6. DosTyped'
    BY <1>4, <2>2, <2>3 DEF DosTyped, Dos
  <2>7. HistTyped'
    BY <1>4, <2>4, <2>5 DEF TypeInv, HistTyped, Hist
  <2>8. CpuTyped'
    BY <1>5, <1>11 DEF Found
  <2> QED
    BY <1>3, <2>6, <2>7, <2>8 DEF TypeInv
<1>12. CASE ReadOn
  <2>1. R.len # 65535 /\ R.ax = 0 => Copied \in Dos
    BY <1>2, <1>12, CopiedIs DEF ReadOn, Good
  <2> DEFINE total == cpu.total + R.len
             pos == Copied.sft[call.h].pos + total
  <2>2. total \in Nat
    BY <1>2, <1>4 DEF Cpu
  <2>3. Copied \in Dos => pos \in Nat
    <3>1. Copied \in Dos => Copied.sft[call.h].pos \in Nat
      BY <1>4, SftFields
    <3> HIDE DEF total
    <3> QED
      BY <2>2, <3>1
  <2>4. \/ UNCHANGED dos /\ Out
        \/ R.len # 65535 /\ R.ax = 0 /\ dos' = [Copied EXCEPT !.sft[call.h].pos = pos] /\ Out
        \/ R.len # 65535 /\ R.ax = 0 /\ dos' = Copied /\ cpu' = [cpu EXCEPT !.pc = "work", !.total = total]
    BY <1>12 DEF ReadOn, Return, Out
  <2> HIDE DEF total, pos
  <2> DEFINE on == [Copied EXCEPT !.sft[call.h].pos = pos]
             goes == [cpu EXCEPT !.pc = "work", !.total = total]
  <2>5. goes \in Cpu
    BY <1>4, <2>2, CpuFields
  <2>6. ASSUME R.len # 65535, R.ax = 0
        PROVE  Copied \in Dos /\ on \in Dos
    <3>1. Copied \in Dos /\ pos \in Nat
      BY <2>1, <2>3, <2>6
    <3> QED
      BY <1>4, <3>1, SftFields, Zenon
  <2> HIDE DEF on, goes
  <2>7. DosTyped'
    BY <1>6, <2>4, <2>6 DEF DosTyped, on
  <2>8. CpuTyped'
    BY <1>5, <2>4, <2>5 DEF CpuTyped, goes
  <2> QED
    BY <1>1, <1>3, <1>12, <2>7, <2>8 DEF TypeInv, ReadOn
<1>13. CASE WriteOn
  <2>1. ASSUME R.len = 2, R.ax = 0
        PROVE  R.out[1] \in Nat
    BY <1>2, <1>13, <2>1 DEF Fits, WriteOn, Good
  <2> DEFINE n == R.out[1]
             total == cpu.total + n
             pos == dos.sft[call.h].pos + n
             size == More(dos.sft[call.h].size, pos)
  <2>2. n \in Nat => total \in Nat /\ pos \in Nat /\ size \in Nat
    <3>1. cpu.total \in Nat /\ dos.sft[call.h].pos \in Nat /\ dos.sft[call.h].size \in Nat
      BY <1>4, SftFields DEF Cpu
    <3> HIDE DEF n
    <3> QED
      BY <3>1 DEF More
  <2>3. \/ UNCHANGED dos /\ Out
        \/ /\ R.len = 2 /\ R.ax = 0 /\ dos' = [dos EXCEPT !.sft[call.h].pos = pos, !.sft[call.h].size = size]
           /\ Out \/ cpu' = [cpu EXCEPT !.pc = "work", !.total = total]
    BY <1>13 DEF WriteOn, Sft, Return, Out
  <2> HIDE DEF total, pos, size
  <2>4. R.len = 2 /\ R.ax = 0 => /\ [dos EXCEPT !.sft[call.h].pos = pos, !.sft[call.h].size = size] \in Dos
                                /\ [cpu EXCEPT !.pc = "work", !.total = total] \in Cpu
    BY <1>4, <2>1, <2>2, SftFields, CpuFields
  <2>5. DosTyped'
    BY <1>6, <2>3, <2>4 DEF DosTyped
  <2>6. CpuTyped'
    BY <1>5, <2>3, <2>4 DEF CpuTyped
  <2> QED
    BY <1>1, <1>3, <1>13, <2>5, <2>6 DEF TypeInv, WriteOn
<1> QED
  BY <1>7, <1>8, <1>9, <1>10, <1>11, <1>12, <1>13 DEF Answers, OnNames, OnFiles

----------------------------------------------------------------------------
(* Types, step by step.                                                    *)

\* What the fields of the history may become.
LEMMA HistFields ==
  ASSUME NEW b, NEW h \in Hist(b)
  PROVE  /\ \A n \in Nat, d \in BOOLEAN : [h EXCEPT !.refusals = n, !.done = d] \in Hist(b)
         /\ \A n \in Nat : [h EXCEPT !.loads = n] \in Hist(b)
         /\ \A n \in Nat, o \in Int : [h EXCEPT !.loads = n, !.others = o] \in Hist(b)
         /\ \A o \in Int : [h EXCEPT !.others = o] \in Hist(b)
<1>1. \A n \in Nat, d \in BOOLEAN : [h EXCEPT !.refusals = n, !.done = d] \in Hist(b)
  BY Zenon DEF Hist
<1>2. \A n \in Nat : [h EXCEPT !.loads = n] \in Hist(b)
  BY Zenon DEF Hist
<1>3. \A n \in Nat, o \in Int : [h EXCEPT !.loads = n, !.others = o] \in Hist(b)
  BY Zenon DEF Hist
<1>4. \A o \in Int : [h EXCEPT !.others = o] \in Hist(b)
  BY Zenon DEF Hist
<1> QED
  BY <1>1, <1>2, <1>3, <1>4

\* What the host does is noted.
Noted(o) == [hist EXCEPT !.refusals = Refusing(o), !.done = DoneBy(o)]
LEMMA ServesIs ==
  ASSUME HostServes
  PROVE  \E o \in Does(box.frame) \cup Refusals :
           /\ host' = o.h /\ box' = [box EXCEPT !.frame = [fn |-> "answer", r |-> o.r]] /\ hist' = Noted(o)
BY DEF HostServes, Noted

\* What the host may do next.
LEMMA ServesTypes ==
  ASSUME TypeInv, Protocol, Handled, Moving, HostServes
  PROVE  /\ TypeInv' /\ Asking /\ Sound(box.frame) /\ box.frame.fn = Put
         /\ \E o \in Does(box.frame) \cup Refusals :
              /\ ServerKeeps(o) /\ host' = o.h /\ R' = o.r /\ box'.frame.fn = "answer"
              /\ box'.number = box.number /\ box'.ack = box.ack /\ hist' = Noted(o)
<1>1. box.ack = Mark /\ box.frame.fn # "answer"
  BY DEF HostServes
<1>2. /\ Asking /\ Sound(box.frame) /\ box.frame.fn = Put /\ box.frame.fn \in supportedfunctions
  BY <1>1, AskedSound
<1>3. PICK o \in Does(box.frame) \cup Refusals :
        host' = o.h /\ box' = [box EXCEPT !.frame = [fn |-> "answer", r |-> o.r]] /\ hist' = Noted(o)
  BY ServesIs
<1>4. ServerKeeps(o)
  BY <1>2, PathsServed, RefusalServed DEF TypeInv
<1>5. box'.frame = [fn |-> "answer", r |-> o.r] /\ box'.number = box.number /\ box'.ack = box.ack
      /\ box' \in [number : Nat, ack : Nat, frame : {box'.frame}]
  BY <1>3 DEF TypeInv, BoxTyped
<1>6. R' = o.r /\ box'.frame.fn = "answer"
  BY <1>5 DEF R
<1>7. BoxTyped'
  BY <1>4, <1>5, <1>6 DEF ServerKeeps, BoxTyped
<1>8. HistTyped'
  <2>1. Refusing(o) \in Nat /\ hist \in Hist(hist.before)
    BY DEF TypeInv, HistTyped, Hist, Refusing
  <2>2. DoneBy(o) \in BOOLEAN
    BY DEF DoneBy, TypeInv, HistTyped, Hist
  <2>3. Noted(o) \in Hist(hist.before)
    BY <2>1, <2>2, HistFields DEF Noted
  <2>4. hist'.before = hist.before
    BY <1>3, <2>3 DEF Hist
  <2> QED
    BY <1>3, <2>3, <2>4 DEF TypeInv, HistTyped
<1>9. HostTyped(host') /\ UNCHANGED <<dos, tsr, cpu, call>>
  BY <1>3, <1>4 DEF ServerKeeps, HostServes
<1>10. TypeInv'
  BY <1>7, <1>8, <1>9, TypesSame DEF TypeInv
<1> QED
  BY <1>2, <1>3, <1>4, <1>5, <1>6, <1>10

\* The types when a call enters.
LEMMA EnterTypes ==
  ASSUME TypeInv, Enter
  PROVE  TypeInv' /\ UNCHANGED <<dos, box, host, call, hist>>
<1>1. tsr \in Tsr /\ cpu \in Cpu /\ call \in Call
  BY DEF TypeInv, TsrTyped, CpuTyped, CallTyped
<1>2. Asked(call) => DriveOf(call) \in Drives \cup {"none"}
  <2>1. ASSUME Asked(call)
        PROVE  call.fn \in OnHandle \cup OnPath \cup {"DISKSPACE", "FINDFIRST", "FINDNEXT"}
    BY <2>1 DEF Asked, supportedfunctions
  <2>2. dos.sft[call.h].dev \in Drives \cup {"none"} /\ dos.dta[call.d].drv \in Drives \cup {"none"}
        /\ call.path.drv \in Drives
    BY <1>1 DEF TypeInv, DosTyped, Dos, SftEntry, DtaEntry, Call, Place
  <2> QED
    BY <2>1, <2>2 DEF DriveOf, OnHandle, OnPath
<1> DEFINE req == IF Asked(call) THEN DriveOf(call) ELSE tsr.req
<1>3. req \in Drives \cup {"none"} /\ call.word \in Nat
  BY <1>1, <1>2 DEF Tsr, Call
<1>4. tsr' = tsr \/ tsr' = [tsr EXCEPT !.word = call.word, !.req = req]
  BY DEF Enter
<1> HIDE DEF req
<1>5. TsrTyped'
  BY <1>1, <1>3, <1>4 DEF TsrTyped, Tsr
<1>6. CpuTyped'
  BY <1>1, CpuFields DEF Enter, Return, CpuTyped
<1> QED
  BY <1>5, <1>6, TypesSame DEF TypeInv, Enter

\* ... when it is put to the host or answered at once.
LEMMA WorkTypes ==
  ASSUME TypeInv, Protocol, Moving, Work
  PROVE  /\ TypeInv' /\ UNCHANGED <<host, call, hist>>
         /\ call.fn \in supportedfunctions /\ (call.fn \in Moves /\ call.n # 0 => cpu.total < call.n)
<1>1. tsr \in Tsr /\ cpu \in Cpu /\ call \in Call /\ dos \in Dos
  BY DEF TypeInv, TsrTyped, CpuTyped, CallTyped, DosTyped
<1>2. At("work") /\ call.fn \in supportedfunctions
  BY DEF Work, Protocol
<1>3. call.fn \in Moves /\ call.n # 0 => cpu.total < call.n
  BY <1>2 DEF Moving, At, Total
<1>4. call.fn = "WRITEFIL" => dos.buf = call.data
  BY <1>2 DEF Moving, WritePart, At, Moves
<1>5. TokenAfter(call) \in 0..Tokens - 1
  BY <1>1, FsAssumption DEF TokenAfter, Tsr
<1>6. TsrTyped'
  BY <1>1, <1>5 DEF Work, TsrTyped, Tsr
<1>7. DosTyped'
  <2> DEFINE count == More(dos.sft[call.h].count - 1, 0)
  <2>1. count \in Nat /\ call.h \in Handles
    BY <1>1 DEF More, Dos, SftEntry, Call
  <2>2. dos' = dos \/ dos' = [dos EXCEPT !.sft[call.h].count = count]
    BY DEF Work
  <2> HIDE DEF count
  <2>3. [dos EXCEPT !.sft[call.h].count = count] \in Dos
    BY <1>1, <2>1, SftFields, Zenon
  <2> QED
    BY <1>1, <2>2, <2>3 DEF DosTyped
<1>8. CpuTyped' /\ BoxTyped'
  <2>1. CASE (\E r : Return(r)) /\ UNCHANGED box
    BY <1>1, <2>1, CpuFields, TypesSame DEF Return, CpuTyped
  <2>2. CASE Sent(Query(call)) /\ (call.fn \in Moves => cpu.total < call.n)
    <3>1. Query(call) \in Request /\ Query(call).fn = Put
      BY <1>2, <1>4, <2>2, QueryTyped DEF TypeInv
    <3>2. Put # "answer"
      BY <1>2 DEF Put, QueryFn, supportedfunctions, OnHandle, OnPath
    <3>3. NextNumber(box.number) \in Nat /\ Mark \in Nat
      BY FsAssumption DEF TypeInv, BoxTyped, NextNumber, Mark
    <3>4. BoxTyped'
      BY <2>2, <3>1, <3>2, <3>3 DEF Sent, BoxTyped
    <3> QED
      BY <1>1, <2>2, <3>4, CpuFields DEF Sent, CpuTyped
  <2> QED
    BY <1>3, <2>1, <2>2 DEF Work, Nothing
<1> QED
  BY <1>2, <1>3, <1>6, <1>7, <1>8, TypesSame DEF TypeInv, Work

\* ... when DOS makes one.
LEMMA BeginTypes ==
  ASSUME TypeInv, NEW k \in hist.prog.calls, Begin(k)
  PROVE  /\ TypeInv' /\ call' = k /\ k \in Call /\ k.fn \in Functions
         /\ UNCHANGED <<tsr, box>>
<1>1. dos \in Dos /\ cpu \in Cpu /\ hist \in Hist(hist.before) /\ hist.prog \in Programs
  BY DEF TypeInv, CpuTyped, DosTyped, HistTyped, Hist
<1>2. k \in Call /\ (k.fn \in Moves => k.n \in 0..Len(k.data))
  BY <1>1, ProgramsAssumption
<1>3. k.data \in Seq(Int) /\ k.d \in Searches /\ k.fn \in Functions
  BY <1>2 DEF Call
<1>4. DosTyped'
  <2> DEFINE dta == IF k.fn = "FINDFIRST" THEN [dos.dta EXCEPT ![k.d] = NoDta] ELSE dos.dta
  <2>1. NoDta \in DtaEntry
    BY FsAssumption DEF NoDta, DtaEntry, Drives
  <2>2. dta \in [Searches -> DtaEntry]
    BY <1>1, <1>3, <2>1 DEF Dos
  <2>3. dos' = [dos EXCEPT !.buf = k.data, !.dta = dta]
    BY DEF Begin
  <2> HIDE DEF dta
  <2> QED
    BY <1>1, <1>3, <2>2, <2>3 DEF DosTyped, Dos
<1>5. HostTyped(host')
  BY DEF TypeInv, HostTyped, Begin
<1>6. CpuTyped'
  BY <1>1, CpuFields DEF Begin, CpuTyped
<1>7. HistTyped'
  <2> DEFINE before == [files |-> host.files, dirs |-> host.dirs, sft |-> dos.sft]
             names == IF k.fn = "FINDFIRST" THEN [hist.names EXCEPT ![k.d] = Inside(Front(k.path.names))] ELSE hist.names
             listed == IF k.fn = "FINDFIRST" THEN [hist.listed EXCEPT ![k.d] = <<>>] ELSE hist.listed
             n == hist.calls + 1
  <2>1. before \in [files : {before.files}, dirs : SUBSET Paths, sft : [Handles -> SftEntry]] /\ IsFolder(before.files)
    BY <1>1 DEF TypeInv, HostTyped, Dos
  <2>2. names \in [Searches -> Seq(STRING)]
    <3>1. Inside(Front(k.path.names)) \in Seq(STRING)
      BY ListingTyped DEF Inside, Entries
    <3> QED
      BY <1>1, <1>3, <3>1 DEF Hist
  <2>3. listed \in [Searches -> Seq(STRING)]
    <3>1. <<>> \in Seq(STRING)
      OBVIOUS
    <3> QED
      BY <1>1, <1>3, <3>1 DEF Hist
  <2>4. n \in Nat
    BY <1>1 DEF Hist
  <2>5. hist' = [hist EXCEPT !.calls = n, !.done = TRUE, !.before = before, !.listed = listed, !.names = names]
    BY DEF Begin
  <2> HIDE DEF before, names, listed, n
  <2>6. hist' \in Hist(before)
    BY <1>1, <2>2, <2>3, <2>4, <2>5, Zenon DEF Hist
  <2>7. hist'.before = before
    BY <2>6 DEF Hist
  <2> QED
    BY <2>1, <2>6, <2>7 DEF HistTyped
<1>8. CallTyped'
  BY <1>2 DEF Begin, CallTyped
<1> QED
  BY <1>2, <1>3, <1>4, <1>5, <1>6, <1>7, <1>8, TypesSame DEF TypeInv, Begin

\* ... when the program is loaded.
LEMMA LoadTypes ==
  ASSUME TypeInv, NEW d, Load(d)
  PROVE  TypeInv' /\ UNCHANGED <<host, cpu, call, ret>>
<1>1. dos \in Dos /\ hist \in Hist(hist.before) /\ d \in Drives
  BY DEF TypeInv, DosTyped, HistTyped, Hist, Load
<1>2. BoxTyped'
  BY DEF TypeInv, BoxTyped, Load, Started, Enable, R
<1>3. DosTyped'
  <2>1. Append(dos.chain, "mfs") \in Seq(Handlers)
    BY <1>1 DEF Dos, Handlers
  <2>2. Path(d, <<>>) \in Place
    BY <1>1 DEF Path, Place, Paths
  <2> QED
    BY <1>1, <2>1, <2>2 DEF Load, Install, DosTyped, Dos
<1>4. TsrTyped'
  BY <1>1, FsAssumption DEF Load, Install, TsrTyped, Tsr, Dos
<1>5. HistTyped'
  <2>1. hist.loads + 1 \in Nat
    BY <1>1 DEF Hist
  <2>2. hist' \in Hist(hist.before)
    BY <1>1, <2>1, HistFields DEF Load
  <2>3. hist'.before = hist.before
    BY <2>2 DEF Hist
  <2> QED
    BY <2>2, <2>3 DEF TypeInv, HistTyped
<1> QED
  BY <1>2, <1>3, <1>4, <1>5, TypesSame DEF TypeInv, Load, Started

\* ... when it is unloaded.
LEMMA UnloadTypes ==
  ASSUME TypeInv, Chained, LoadFails \/ Unload
  PROVE  TypeInv' /\ UNCHANGED <<host, cpu, call, ret>>
<1>1. dos \in Dos /\ tsr \in Tsr /\ hist \in Hist(hist.before)
  BY DEF TypeInv, DosTyped, TsrTyped, HistTyped
<1>2. BoxTyped'
  BY DEF TypeInv, BoxTyped, LoadFails, Unload, Started, Enable, R
<1>3. HistTyped'
  <2>1. hist.loads + 1 \in Nat
    BY <1>1 DEF Hist
  <2>2. hist' \in Hist(hist.before)
    <3>1. hist' = [hist EXCEPT !.loads = @ + 1]
      BY DEF LoadFails, Unload
    <3> QED
      BY <1>1, <2>1, <3>1, HistFields
  <2>3. hist'.before = hist.before
    BY <2>2 DEF Hist
  <2> QED
    BY <2>2, <2>3 DEF TypeInv, HistTyped
<1>4. CASE UNCHANGED <<dos, tsr>>
  BY <1>2, <1>3, <1>4, TypesSame DEF TypeInv, LoadFails, Unload, Started
<1>5. CASE /\ dos' = [dos EXCEPT !.chain = tsr.prev, !.cds[tsr.drv] = "free", !.dta = [s \in Searches |-> NoDta]]
           /\ tsr' = [tsr EXCEPT !.in = FALSE]
  <2>1. NoDta \in DtaEntry
    BY FsAssumption DEF NoDta, DtaEntry, Drives
  <2>2. DosTyped'
    BY <1>1, <1>5, <2>1 DEF DosTyped, Dos, Tsr
  <2>3. TsrTyped'
    BY <1>1, <1>5 DEF TsrTyped, Tsr
  <2> QED
    BY <1>2, <1>3, <2>2, <2>3, TypesSame DEF TypeInv, LoadFails, Unload, Started
<1> QED
  BY <1>4, <1>5 DEF LoadFails, Unload

\* ... when other programs come and go.
LEMMA OthersTypes ==
  ASSUME TypeInv, Chained, OtherHooks \/ OtherLeaves
  PROVE  TypeInv' /\ UNCHANGED <<tsr, box, host, cpu, call, ret>>
<1>1. dos \in Dos /\ hist \in Hist(hist.before) /\ dos.chain # <<>>
  BY DEF TypeInv, DosTyped, HistTyped, Chained
<1>2. DosTyped'
  <2>1. Append(dos.chain, "other") \in Seq(Handlers) /\ Append(dos.chain, "net") \in Seq(Handlers)
    BY <1>1 DEF Dos, Handlers
  <2>2. Front(dos.chain) \in Seq(Handlers)
    BY <1>1 DEF Dos, Front
  <2> QED
    BY <1>1, <2>1, <2>2 DEF OtherHooks, OtherLeaves, DosTyped, Dos
<1>3. HistTyped'
  <2>1. hist.loads + 1 \in Nat /\ hist.others + 1 \in Int /\ hist.others - 1 \in Int
    BY <1>1 DEF Hist
  <2>2. hist' \in Hist(hist.before)
    <3> DEFINE n == hist.loads + 1
               o == hist.others + 1
               u == hist.others - 1
    <3>1. hist' = [hist EXCEPT !.loads = n, !.others = o] \/ hist' = [hist EXCEPT !.others = u]
      BY DEF OtherHooks, OtherLeaves
    <3> HIDE DEF n, o, u
    <3>2. n \in Nat /\ o \in Int /\ u \in Int
      BY <2>1 DEF n, o, u
    <3>3. [hist EXCEPT !.loads = n, !.others = o] \in Hist(hist.before)
          /\ [hist EXCEPT !.others = u] \in Hist(hist.before)
      BY <1>1, <3>2, HistFields, Zenon
    <3> QED
      BY <3>1, <3>3
  <2>3. hist'.before = hist.before
    BY <2>2 DEF Hist
  <2> QED
    BY <2>2, <2>3 DEF TypeInv, HistTyped
<1> QED
  BY <1>2, <1>3, TypesSame DEF TypeInv, OtherHooks, OtherLeaves

----------------------------------------------------------------------------
(* Where a call is.                                                        *)

LEMMA NumberNotMark ==
  ASSUME NEW p \in Nat
  PROVE  NextNumber(p) # Mark /\ NextNumber(p) \in Nat /\ Enable # Mark
<1> DEFINE low == (p + 1) % Lows
<1>1. low \in 0..255
  BY FsAssumption
<1> HIDE DEF low
<1>2. (low + 77) % 256 = IF low < 179 THEN low + 77 ELSE low - 179
  BY <1>1
<1>3. ((low + 77) % 256) * 256 + low \in Nat /\ ((low + 77) % 256) * 256 + low # 42330
  BY <1>1, <1>2
<1> QED
  BY <1>3 DEF NextNumber, Mark, Enable, low

\* Every action, by where the call is before and after it.
Leaves == Loads \/ OtherHooks \/ OtherLeaves
LEMMA WhereEnter ==
  ASSUME Enter, cpu \in Cpu
  PROVE  /\ At("enter") /\ UNCHANGED <<dos, box, host, call, hist>>
         /\ \/ At("out")' /\ cpu'.total = cpu.total /\ ~Ours(call) /\ ~ret'.ours
            \/ At("work")' /\ cpu'.total = 0 /\ Ours(call) /\ UNCHANGED ret
BY DEF Enter, At, Return, Success, Cpu

LEMMA GoesOut ==
  ASSUME cpu \in Cpu
  PROVE  /\ \A r : Return(r) => At("out")' /\ cpu'.total = cpu.total /\ ret' = r
         /\ Out => At("out")' /\ cpu'.total = cpu.total
         /\ \A q : Sent(q) => /\ At("wait")' /\ cpu'.total = cpu.total
                              /\ box' = [number |-> NextNumber(box.number), ack |-> Mark, frame |-> q]
         /\ \A n : cpu' = [cpu EXCEPT !.pc = "work", !.total = n] => At("work")' /\ cpu'.total = n
BY DEF Return, Out, Sent, At, Cpu

LEMMA WhereWork ==
  ASSUME Work, cpu \in Cpu
  PROVE  /\ At("work") /\ UNCHANGED <<host, call, hist>> /\ cpu'.total = cpu.total
         /\ dos' = IF call.fn = "CLSFIL" THEN [dos EXCEPT !.sft[call.h].count = More(@ - 1, 0)] ELSE dos
         /\ tsr' = [tsr EXCEPT !.token = TokenAfter(call)]
         /\ \/ /\ At("out")' /\ UNCHANGED box
               /\ \/ Refused(call) # 0 /\ ret' = Fail(Refused(call))
                  \/ Refused(call) = 0 /\ call.fn = "2D"
                  \/ Refused(call) = 0 /\ Nothing(call) /\ ret' = Success
                  \/ Refused(call) = 0 /\ ~Nothing(call) /\ TooLong(call)
            \/ /\ At("wait")' /\ UNCHANGED ret
               /\ box' = [number |-> NextNumber(box.number), ack |-> Mark, frame |-> Query(call)]
               /\ Refused(call) = 0 /\ call.fn # "2D" /\ ~Nothing(call) /\ ~TooLong(call)
<1>1. /\ At("work") /\ UNCHANGED <<host, call, hist>> /\ tsr' = [tsr EXCEPT !.token = TokenAfter(call)]
      /\ dos' = IF call.fn = "CLSFIL" THEN [dos EXCEPT !.sft[call.h].count = More(@ - 1, 0)] ELSE dos
  BY DEF Work
<1>2. \/ UNCHANGED box /\ Refused(call) # 0 /\ Return(Fail(Refused(call)))
      \/ UNCHANGED box /\ Refused(call) = 0 /\ call.fn = "2D" /\ \E r : Return(r)
      \/ UNCHANGED box /\ Refused(call) = 0 /\ Nothing(call) /\ Return(Success)
      \/ UNCHANGED box /\ Refused(call) = 0 /\ ~Nothing(call) /\ TooLong(call) /\ \E r : Return(r)
      \/ /\ Sent(Query(call)) /\ UNCHANGED ret
         /\ Refused(call) = 0 /\ call.fn # "2D" /\ ~Nothing(call) /\ ~TooLong(call)
  BY DEF Work
<1> QED
  BY <1>1, <1>2, GoesOut, Zenon

LEMMA WhereAnswers ==
  ASSUME Answers, cpu \in Cpu
  PROVE  /\ At("wait") /\ Answered
         /\ \/ At("out")' /\ cpu'.total = cpu.total
            \/ At("work")' /\ (ReadOn \/ WriteOn)
<1>1. Answered /\ At("wait")
  BY AnswersKeep DEF Answered
<1>2. CASE OnNames
  BY <1>1, <1>2, GoesOut, ZenonT(30)
     DEF OnNames, MadeOrRemoved, AttrSet, Renamed, Deleted, Changed, AttrGot, Space, Named
<1>3. CASE OpenedFile \/ Closed \/ Locked \/ EndSought \/ Found
  BY <1>1, <1>3, GoesOut DEF OpenedFile, Closed, Locked, EndSought, Found
<1>4. CASE ReadOn
  <2>1. Out \/ cpu' = [cpu EXCEPT !.pc = "work", !.total = cpu.total + R.len]
    BY <1>4 DEF ReadOn, Return, Out
  <2> QED
    BY <1>1, <1>4, <2>1, GoesOut
<1>5. CASE WriteOn
  <2>1. Out \/ cpu' = [cpu EXCEPT !.pc = "work", !.total = cpu.total + R.out[1]]
    BY <1>5 DEF WriteOn, Return, Out
  <2> QED
    BY <1>1, <1>5, <2>1, GoesOut
<1> QED
  BY <1>2, <1>3, <1>4, <1>5 DEF Answers, OnFiles

LEMMA WhereLeaves ==
  ASSUME BoxTyped, Leaves
  PROVE  /\ At("out") /\ UNCHANGED <<host, cpu, call, ret>> /\ box'.ack = box.ack /\ box'.frame = box.frame
         /\ box'.number \in {box.number, Enable}
BY DEF Leaves, Loads, Load, LoadFails, Unload, Started, OtherHooks, OtherLeaves, BoxTyped

\* What a step is.
LEMMA StepCases ==
  ASSUME [Next]_vars
  PROVE  \/ \E k \in hist.prog.calls : Begin(k)
         \/ Enter \/ Work \/ Answers \/ HostServes \/ HostAnswers \/ Leaves
         \/ UNCHANGED <<dos, tsr, box, host, cpu, call, ret, hist>>
BY DEF Next, vars, Calls, Serves, Answers, Host, Leaves

\* Every step keeps the types.
LEMMA TypeStep ==
  ASSUME TypeInv, Protocol, Handled, Fits, Chained, Moving, [Next]_vars
  PROVE  TypeInv'
<1>1. CASE HostAnswers
  <2>1. BoxTyped'
    BY <1>1 DEF TypeInv, BoxTyped, HostAnswers, R
  <2> QED
    BY <1>1, <2>1, TypesSame DEF TypeInv, HostAnswers
<1>2. CASE Leaves
  BY <1>2, LoadTypes, UnloadTypes, OthersTypes DEF Leaves, Loads
<1>3. CASE UNCHANGED <<dos, tsr, box, host, cpu, call, ret, hist>>
  BY <1>3, TypesSame DEF TypeInv
<1> QED
  BY <1>1, <1>2, <1>3, StepCases, BeginTypes, EnterTypes, WorkTypes, AnswerTypes, ServesTypes

\* ... the agreement of number, acknowledge and place.
LEMMA ProtocolStep ==
  ASSUME TypeInv, Protocol, Handled, Fits, Chained, Moving, [Next]_vars
  PROVE  Protocol'
<1> USE DEF TypeInv
<1>1. box.number \in Nat /\ cpu \in Cpu
  BY DEF BoxTyped, CpuTyped
<1>2. ASSUME NEW k \in hist.prog.calls, Begin(k)
      PROVE  Protocol'
  BY <1>1, <1>2 DEF Protocol, Begin, At, Cpu
<1>3. CASE Enter
  <2>1. Ours(call) => call.fn \in supportedfunctions
    BY DEF Ours, Asked
  <2> QED
    BY <1>1, <1>3, <2>1, WhereEnter DEF Protocol, At
<1>4. CASE Work
  <2>1. /\ Refused(call) = 0 => call.fn # "UNLOCKFIL"
        /\ ~Nothing(call) => call.fn # "CMMTFIL"
    BY DEF Refused, Nothing, Opens
  <2>2. CASE At("out")' /\ UNCHANGED <<box, call>>
    BY <1>4, <2>2, WhereWork, <1>1 DEF Protocol, At
  <2>3. CASE /\ At("wait")' /\ UNCHANGED call /\ Refused(call) = 0 /\ call.fn # "2D" /\ ~Nothing(call)
             /\ box' = [number |-> NextNumber(box.number), ack |-> Mark, frame |-> Query(call)]
    <3>1. NextNumber(box.number) # Mark
      BY <1>1, NumberNotMark
    <3>2. call.fn \in supportedfunctions
      BY <1>4 DEF Protocol, Work
    <3> QED
      BY <2>1, <2>3, <3>1, <3>2 DEF Protocol, At
  <2> QED
    BY <1>1, <1>4, <2>2, <2>3, WhereWork
<1>5. CASE Answers
  <2>1. At("wait") /\ box.ack = box.number /\ UNCHANGED <<box, call>> /\ (At("out")' \/ At("work")')
    BY <1>1, <1>5, WhereAnswers, AnswersKeep DEF Answered
  <2> QED
    BY <2>1 DEF Protocol, At
<1>6. CASE HostServes
  <2>1. box'.frame.fn = "answer" /\ box'.number = box.number /\ box'.ack = box.ack
    BY <1>6, ServesTypes
  <2> QED
    BY <1>6, <2>1 DEF HostServes, Protocol, At
<1>7. CASE HostAnswers
  <2>1. box'.frame = box.frame /\ box'.number = box.number /\ box'.ack = box.number
    BY <1>7 DEF HostAnswers, BoxTyped
  <2> QED
    BY <1>7, <2>1 DEF HostAnswers, Protocol, At
<1>8. CASE Leaves
  BY <1>8, WhereLeaves, <1>1, NumberNotMark DEF Protocol, At
<1>9. CASE UNCHANGED <<dos, tsr, box, host, cpu, call, ret, hist>>
  BY <1>9 DEF Protocol, At
<1> QED
  BY <1>2, <1>3, <1>4, <1>5, <1>6, <1>7, <1>8, <1>9, StepCases

----------------------------------------------------------------------------
(* Handles.                                                                *)

LEMMA SftSame ==
  ASSUME NEW d \in Dos, NEW h \in Handles, NEW j \in Handles
  PROVE  /\ \A x : LET e == [d EXCEPT !.sft[h].pos = x] IN
              e.sft[j].id = d.sft[j].id /\ e.sft[j].count = d.sft[j].count
         /\ \A x : LET e == [d EXCEPT !.sft[h].count = x] IN
              e.sft[j].id = d.sft[j].id /\ (h # j => e.sft[j].count = d.sft[j].count) /\ e.sft[h].count = x
BY DEF Dos, SftEntry

\* What an answer does to the open files.
LEMMA AnswersSft ==
  ASSUME TypeInv, Protocol, Fits, Answers
  PROVE  \/ OpenedFile /\ ~Verdict.cf
            /\ dos'.sft = [dos.sft EXCEPT ![call.h] = [dev |-> tsr.req, id |-> R.out[1], mode |-> R.out[3],
                                                       pos |-> 0, size |-> R.out[2], count |-> 1]]
         \/ \A j \in Handles : dos'.sft[j].id = dos.sft[j].id /\ dos'.sft[j].count = dos.sft[j].count
<1>1. dos \in Dos /\ call.h \in Handles
  BY DEF TypeInv, DosTyped, CallTyped, Call
<1>2. CASE OnNames \/ Closed \/ Locked \/ Found
  BY <1>1, <1>2 DEF OnNames, MadeOrRemoved, AttrSet, Renamed, Deleted, Changed, AttrGot, Space, Named, Closed, Locked,
                    Found, Dos
<1>3. CASE OpenedFile
  BY <1>1, <1>3 DEF OpenedFile, Dos
<1>4. CASE EndSought
  BY <1>1, <1>4, SftSame DEF EndSought
<1>5. CASE ReadOn
  <2>1. R.len # 65535 /\ R.ax = 0 => Copied \in Dos /\ Copied.sft = dos.sft
    BY <1>5, AnswerThere, CopiedIs DEF ReadOn, Good
  <2> DEFINE x == Copied.sft[call.h].pos + (cpu.total + R.len)
  <2>2. \/ UNCHANGED dos
        \/ R.len # 65535 /\ R.ax = 0 /\ dos' = Copied
        \/ R.len # 65535 /\ R.ax = 0 /\ dos' = [Copied EXCEPT !.sft[call.h].pos = x]
    BY <1>5 DEF ReadOn
  <2> HIDE DEF x
  <2>3. CASE UNCHANGED dos \/ (R.len # 65535 /\ R.ax = 0 /\ dos' = Copied)
    BY <2>1, <2>3
  <2>4. CASE R.len # 65535 /\ R.ax = 0 /\ dos' = [Copied EXCEPT !.sft[call.h].pos = x]
    BY <1>1, <2>1, <2>4, SftSame
  <2> QED
    BY <2>2, <2>3, <2>4
<1>6. CASE WriteOn
  <2> DEFINE x == dos.sft[call.h].pos + R.out[1]
             y == More(dos.sft[call.h].size, x)
  <2>1. UNCHANGED dos \/ dos' = [dos EXCEPT !.sft[call.h].pos = x, !.sft[call.h].size = y]
    BY <1>6 DEF WriteOn, Sft
  <2> HIDE DEF x, y
  <2>2. CASE dos' = [dos EXCEPT !.sft[call.h].pos = x, !.sft[call.h].size = y]
    <3>1. dos'.sft = [dos.sft EXCEPT ![call.h] = [dos.sft[call.h] EXCEPT !.pos = x, !.size = y]]
      BY <1>1, <2>2, Zenon DEF Dos
    <3> QED
      BY <1>1, <3>1 DEF Dos, SftEntry
  <2> QED
    BY <2>1, <2>2
<1> QED
  BY <1>2, <1>3, <1>4, <1>5, <1>6 DEF Answers, OnFiles

\* ... the handles.
LEMMA HandledStep ==
  ASSUME TypeInv, Protocol, Handled, Fits, Chained, Moving, [Next]_vars
  PROVE  Handled'
<1> DEFINE Open(d, ids) == \A j \in Handles : d.sft[j].count > 0 => d.sft[j].id \in 1..Len(ids)
           Used == ~At("out") /\ call.fn \in OnHandle /\ ~(At("wait") /\ call.fn = "CLSFIL") => dos.sft[call.h].count > 0
           Puts == Asking => /\ box.frame.fn = Put
                             /\ box.frame.fn \in OnHandle => box.frame.id \in 1..Len(host.ids)
<1>1. Handled = (Open(dos, host.ids) /\ Used /\ Puts) /\ Handled' = (Open(dos', host'.ids) /\ Used' /\ Puts')
  BY DEF Handled, Put, QueryFn
<1>2. cpu \in Cpu /\ dos \in Dos /\ call.h \in Handles /\ host.ids \in Seq(Paths)
  BY DEF TypeInv, CpuTyped, DosTyped, CallTyped, Call, HostTyped
<1>3. ASSUME NEW k \in hist.prog.calls, Begin(k)
      PROVE  Handled'
  <2>1. dos'.sft = dos.sft /\ host'.ids = host.ids /\ call' = k /\ At("enter")' /\ Ready(k)
    BY <1>2, <1>3 DEF Begin, Dos, TypeInv, HostTyped, At, Cpu
  <2>2. Used'
    BY <2>1 DEF Ready, Sft, At
  <2>3. Puts'
    BY <2>1 DEF Asking, At
  <2> QED
    BY <1>1, <2>1, <2>2, <2>3
<1>4. CASE Enter
  BY <1>1, <1>2, <1>4, WhereEnter DEF At, Asking
<1>5. CASE Work
  <2>1. At("work") /\ UNCHANGED <<host, call>> /\ (Refused(call) # 0 \/ call.fn # "UNLOCKFIL") /\ ~At("out") /\ ~At("wait")
    <3>1. At("work") /\ UNCHANGED <<host, call>>
      BY <1>2, <1>5, WhereWork
    <3>2. Refused(call) # 0 \/ call.fn # "UNLOCKFIL"
      BY DEF Refused, Opens
    <3>3. ~At("out") /\ ~At("wait")
      BY <3>1 DEF At
    <3> QED
      BY <3>1, <3>2, <3>3
  <2>2. \A j \in Handles : /\ dos'.sft[j].id = dos.sft[j].id
                           /\ dos'.sft[j].count > 0 => dos.sft[j].count > 0
                           /\ call.fn # "CLSFIL" => dos'.sft[j].count = dos.sft[j].count
    <3> DEFINE x == More(dos.sft[call.h].count - 1, 0)
    <3>1. dos' = IF call.fn = "CLSFIL" THEN [dos EXCEPT !.sft[call.h].count = x] ELSE dos
      BY <1>2, <1>5, WhereWork
    <3>2. x > 0 => dos.sft[call.h].count > 0
      BY <1>2 DEF Dos, SftEntry, More
    <3> HIDE DEF x
    <3> QED
      BY <1>2, <3>1, <3>2, SftSame
  <2>3. Open(dos', host'.ids)
    BY <1>1, <2>1, <2>2
  <2>4. Used'
    BY <1>1, <1>2, <1>5, <2>1, <2>2, WhereWork DEF At
  <2>5. ASSUME Asking'
        PROVE  Puts'
    <3>1. /\ box'.frame = Query(call) /\ Refused(call) = 0 /\ call.fn # "2D" /\ ~Nothing(call) /\ call.fn \in supportedfunctions
          /\ (call.fn \in Moves => cpu.total < call.n)
      BY <1>2, <1>5, <2>5, WhereWork, WorkTypes DEF Asking, At, Nothing
    <3>2. call.fn # "CMMTFIL" /\ call.fn # "UNLOCKFIL"
      BY <2>1, <3>1 DEF Nothing
    <3>3. call.fn = "WRITEFIL" => dos.buf = call.data
      BY <2>1 DEF Moving, WritePart, At, Moves
    <3>4. Query(call).fn = Put /\ (Put \in OnHandle => Query(call).id = dos.sft[call.h].id)
      BY <3>1, <3>2, <3>3, QueryTyped DEF TypeInv, Put, QueryFn
    <3>5. Put \in OnHandle => dos.sft[call.h].id \in 1..Len(host.ids)
      BY <1>1, <1>2, <2>1 DEF Put, QueryFn, OnHandle
    <3> QED
      BY <2>1, <3>1, <3>4, <3>5 DEF Put, QueryFn
  <2> QED
    BY <1>1, <2>3, <2>4, <2>5
<1>6. CASE Answers
  <2>1. At("wait") /\ ~Asking' /\ UNCHANGED <<host, call>>
    BY <1>2, <1>6, WhereAnswers, AnswersKeep DEF At, Asking
  <2>2. Used'
    <3>1. ASSUME At("work")'
          PROVE  call.fn \in Moves
      BY <1>2, <1>6, <3>1, WhereAnswers DEF At, ReadOn, WriteOn, Moves
    <3>2. At("work")' => ~OpenedFile
      BY <3>1 DEF OpenedFile, Opens, Moves
    <3>3. At("out")' \/ At("work")'
      BY <1>2, <1>6, WhereAnswers
    <3> QED
      BY <1>1, <1>2, <1>6, <2>1, <3>1, <3>2, <3>3, AnswersSft DEF At, Moves, OnHandle
  <2>3. Open(dos', host'.ids)
    <3>1. CASE OpenedFile /\ ~Verdict.cf
      <4>1. R.out[1] \in 1..Len(host.ids)
        BY <2>1, <3>1, AnswerThere, Lengths DEF Fits, OpenedFile
      <4> DEFINE e == [dev |-> tsr.req, id |-> R.out[1], mode |-> R.out[3], pos |-> 0, size |-> R.out[2], count |-> 1]
      <4>2. e.id = R.out[1] /\ e.count = 1
        OBVIOUS
      <4>3. \/ dos'.sft = [dos.sft EXCEPT ![call.h] = e]
            \/ \A j \in Handles : dos'.sft[j].id = dos.sft[j].id /\ dos'.sft[j].count = dos.sft[j].count
        BY <1>6, AnswersSft
      <4> HIDE DEF e
      <4>4. \A j \in Handles : dos'.sft[j].count > 0 => dos'.sft[j].id \in 1..Len(host.ids)
        BY <1>1, <1>2, <4>1, <4>2, <4>3 DEF Dos
      <4> QED
        BY <2>1, <4>4
    <3>2. CASE ~(OpenedFile /\ ~Verdict.cf)
      BY <1>1, <1>6, <2>1, <3>2, AnswersSft
    <3> QED
      BY <3>1, <3>2
  <2> QED
    BY <1>1, <2>1, <2>2, <2>3
<1>7. CASE HostServes
  <2>1. /\ UNCHANGED <<dos, cpu, call>> /\ ~Asking' /\ host'.ids \in Seq(Paths)
        /\ Len(host.ids) <= Len(host'.ids)
    BY <1>7, ServesTypes DEF HostServes, Asking, ServerKeeps, HostTyped
  <2>2. Open(dos', host'.ids)
    <3>1. Len(host.ids) \in Nat /\ Len(host'.ids) \in Nat
      BY <1>2, <2>1
    <3>2. \A i : i \in 1..Len(host.ids) => i \in 1..Len(host'.ids)
      BY <2>1, <3>1
    <3> QED
      BY <1>1, <2>1, <3>2
  <2>3. Used'
    BY <1>1, <2>1 DEF At
  <2> QED
    BY <1>1, <2>1, <2>2, <2>3
<1>8. CASE HostAnswers
  BY <1>1, <1>8 DEF HostAnswers, Asking, At
<1>9. CASE Leaves
  <2>1. At("out") /\ UNCHANGED <<host, cpu, call>> /\ dos'.sft = dos.sft
    BY <1>2, <1>9, WhereLeaves DEF TypeInv, Leaves, Loads, Load, Install, LoadFails, Unload, OtherHooks, OtherLeaves, Dos
  <2> QED
    BY <1>1, <2>1 DEF At, Asking
<1>10. CASE UNCHANGED <<dos, tsr, box, host, cpu, call, ret, hist>>
  BY <1>1, <1>10 DEF At, Asking, Put, QueryFn
<1> QED
  BY <1>3, <1>4, <1>5, <1>6, <1>7, <1>8, <1>9, <1>10, StepCases

----------------------------------------------------------------------------
(* What an answer holds.                                                   *)

LEMMA OpensFit ==
  ASSUME HostTyped(host), NEW q, Sound(q), q.fn \in Opens, NEW o \in OnName(q), o.r.len = 25
  PROVE  o.r.out \in Seq(Nat) /\ Len(o.r.out) = 4 /\ o.r.out[1] \in 1..Len(o.h.ids)
<1> DEFINE p == q.path
           n == Len(host.ids) + 1
<1>1. p \in Paths /\ q.word \in Nat /\ q.mode \in Nat /\ host.ids \in Seq(Paths) /\ n \in Nat \ {0}
  <2>1. p \in Paths /\ q.word \in Nat /\ q.mode \in Nat
    BY DEF Sound, Request
  <2>2. host.ids \in Seq(Paths)
    BY DEF HostTyped
  <2> QED
    BY <2>1, <2>2
<1>2. ASSUME NEW size \in Nat, NEW mode \in Nat, NEW h, h.ids = host.ids, o = Outcome(Ticket(size, mode), Handed(h, p)),
             HostTyped(h)
      PROVE  o.r.out \in Seq(Nat) /\ Len(o.r.out) = 4 /\ o.r.out[1] \in 1..Len(o.h.ids)
  <2>1. o.r.out = <<n, size, mode, 1>>
    BY <1>2 DEF Outcome, Ticket, Reply
  <2>2. o.h.ids = Append(host.ids, p)
    BY <1>2 DEF Outcome, Handed, HostTyped
  <2>3. Len(Append(host.ids, p)) = n
    BY <1>1
  <2> HIDE DEF n
  <2>4. <<n, size, mode, 1>> \in Seq(Nat) /\ Len(<<n, size, mode, 1>>) = 4 /\ <<n, size, mode, 1>>[1] = n
    BY <1>1, <1>2
  <2> QED
    BY <1>1, <2>1, <2>2, <2>3, <2>4
<1>3. ASSUME p \in DOMAIN host.files,
             o = Outcome(Ticket(Len(host.files[p].data), IF q.fn = "OPEN" THEN q.word ELSE q.mode), Handed(host, p))
      PROVE  o.r.out \in Seq(Nat) /\ Len(o.r.out) = 4 /\ o.r.out[1] \in 1..Len(o.h.ids)
  <2>1. Len(host.files[p].data) \in Nat /\ (IF q.fn = "OPEN" THEN q.word ELSE q.mode) \in Nat
    BY <1>1, <1>3, FileData
  <2> QED
    BY <1>2, <1>3, <2>1
<1>4. ASSUME o = Outcome(Ticket(0, 2), Handed(New(p, q.word), p))
      PROVE  o.r.out \in Seq(Nat) /\ Len(o.r.out) = 4 /\ o.r.out[1] \in 1..Len(o.h.ids)
  <2>1. New(p, q.word).ids = host.ids
    BY DEF New, HostTyped
  <2>2. HostTyped(New(p, q.word))
    <3> DEFINE f == With(host.files, p, [data |-> <<>>, attr |-> q.word])
    <3>1. IsFolder(f)
      <4>1. [data |-> <<>>, attr |-> q.word] \in File
        BY <1>1 DEF File
      <4> QED
        BY <1>1, <4>1, FolderWith DEF HostTyped
    <3> HIDE DEF f
    <3>2. HostTyped([host EXCEPT !.files = f])
      BY <3>1, HostFields
    <3> QED
      BY <3>2 DEF New, f
  <2> QED
    BY <1>2, <1>4, <2>1, <2>2
<1>5. o # Missing
  BY DEF Missing, Outcome, Reply
<1> DEFINE Fit == o.r.out \in Seq(Nat) /\ Len(o.r.out) = 4 /\ o.r.out[1] \in 1..Len(o.h.ids)
<1>6. p = q.path
  OBVIOUS
<1>7. /\ (p \in DOMAIN host.files
          /\ o = Outcome(Ticket(Len(host.files[p].data), IF q.fn = "OPEN" THEN q.word ELSE q.mode), Handed(host, p))) => Fit
      /\ o = Outcome(Ticket(0, 2), Handed(New(p, q.word), p)) => Fit
  BY <1>3, <1>4
<1> HIDE DEF Fit
<1> QED
  <2>1. \/ (p \in DOMAIN host.files
            /\ o = Outcome(Ticket(Len(host.files[p].data), IF q.fn = "OPEN" THEN q.word ELSE q.mode), Handed(host, p)))
        \/ o = Outcome(Ticket(0, 2), Handed(New(p, q.word), p))
    <3>1. q.fn = "OPEN" \/ q.fn = "CREATE" \/ q.fn = "SPOPNFIL"
      BY DEF Opens
    <3> HIDE DEF p
    <3>2. \/ o = Missing
          \/ (p \in DOMAIN host.files
              /\ o = Outcome(Ticket(Len(host.files[p].data), IF q.fn = "OPEN" THEN q.word ELSE q.mode), Handed(host, p)))
          \/ o = Outcome(Ticket(0, 2), Handed(New(p, q.word), p))
      <4> DEFINE Answer(x) == \/ o = Missing
                              \/ p \in DOMAIN host.files /\ o = Outcome(Ticket(Len(host.files[p].data), x), Handed(host, p))
                              \/ o = Outcome(Ticket(0, 2), Handed(New(p, q.word), p))
      <4>1. q.fn = "OPEN" => Answer(q.word)
        BY <1>6, OnNameCases
      <4>2. q.fn = "SPOPNFIL" => Answer(q.mode)
        BY <1>6, OnNameCases
      <4>3. q.fn = "CREATE" => Answer(q.mode)
        BY <1>6, OnNameCases
      <4> QED
        BY <3>1, <4>1, <4>2, <4>3
    <3> QED
      BY <1>5, <3>2
  <2> QED
    BY <1>7, <2>1 DEF Fit

LEMMA FilesFit ==
  ASSUME HostTyped(host), NEW q, Sound(q), q.fn \in OnHandle, NEW o \in OnOpenFile(q), o.r.ax = 0
  PROVE  /\ q.fn = "SKFMEND" => o.r.out \in Seq(Nat) /\ Len(o.r.out) = 1
         /\ q.fn = "WRITEFIL" => o.r.out \in Seq(Nat) /\ Len(o.r.out) = 1 /\ o.r.out[1] \in {q.n, q.n - 1}
         /\ q.fn = "READFIL" => o.r.out \in Seq(Int) /\ o.r.len = Len(o.r.out)
<1> DEFINE p == host.ids[q.id]
<1>1. o # Missing
  BY DEF Missing, Outcome, Reply
<1>2. ASSUME p \in DOMAIN host.files, q.fn = "READFIL", o = Outcome(Reply(Len(Read(p, q)), 0, Read(p, q)), host)
      PROVE  o.r.out \in Seq(Int) /\ o.r.len = Len(o.r.out)
  <2>1. Read(p, q) \in Seq(Int)
    BY <1>2, FileData, PartTyped DEF Read, Sound
  <2> QED
    BY <1>2, <2>1 DEF Outcome, Reply
<1>3. ASSUME q.fn = "WRITEFIL", NEW n \in {q.n, q.n - 1}, o = Outcome(Reply(2, 0, <<n>>), Overwritten(p, q, n))
      PROVE  o.r.out \in Seq(Nat) /\ Len(o.r.out) = 1 /\ o.r.out[1] \in {q.n, q.n - 1}
  <2>1. n \in Nat /\ o.r.out = <<n>>
    BY <1>3 DEF Outcome, Reply, Sound
  <2>2. <<n>> \in Seq(Nat) /\ Len(<<n>>) = 1 /\ <<n>>[1] = n
    BY <2>1
  <2> QED
    BY <1>3, <2>1, <2>2
<1>4. ASSUME p \in DOMAIN host.files, q.fn = "SKFMEND",
             o = Outcome(Reply(4, 0, <<More(Len(host.files[p].data) + q.off, 0)>>), host)
      PROVE  o.r.out \in Seq(Nat) /\ Len(o.r.out) = 1
  <2> DEFINE x == More(Len(host.files[p].data) + q.off, 0)
  <2>1. x \in Nat
    <3> DEFINE d == host.files[p].data
               l == Len(d)
               off == q.off
    <3>1. d \in Seq(Int)
      BY <1>4, FileData
    <3>2. l \in Nat /\ off \in Int
      <4>1. off \in Int
        BY DEF Sound, Request
      <4> HIDE DEF d, off
      <4> QED
        BY <3>1, <4>1
    <3> HIDE DEF l, off
    <3>3. More(l + off, 0) \in Nat
      BY <3>2 DEF More
    <3> QED
      BY <3>3 DEF l, off
  <2>2. o.r.out = <<x>>
    BY <1>4 DEF Outcome, Reply
  <2> HIDE DEF x
  <2> QED
    BY <2>1, <2>2
<1> HIDE DEF p
<1> QED
  BY <1>1, <1>2, <1>3, <1>4, OnOpenFileCases DEF p

\* ... and what answers hold.
LEMMA FitsStep ==
  ASSUME TypeInv, Protocol, Handled, Fits, Chained, Moving, [Next]_vars
  PROVE  Fits'
<1>1. cpu \in Cpu
  BY DEF TypeInv, CpuTyped
<1>2. CASE HostServes
  <2>1. /\ Asking /\ Sound(box.frame) /\ box.frame.fn = Put /\ UNCHANGED <<call, cpu>> /\ HostTyped(host)
    BY <1>2, ServesTypes DEF HostServes, TypeInv
  <2>2. PICK o \in Does(box.frame) \cup Refusals : ServerKeeps(o) /\ host' = o.h /\ R' = o.r
    BY <1>2, ServesTypes
  <2> SUFFICES ASSUME Served', Good'
               PROVE  Fits'
    BY DEF Fits
  <2>3. o.r.ax = 0 /\ o.r.len # 65535
    BY <2>2 DEF Good
  <2>4. o \in Does(box.frame)
    BY <2>1, <2>3, RefusalServed
  <2>5. call.fn \in Opens /\ o.r.len = 25 =>
          o.r.out \in Seq(Nat) /\ Len(o.r.out) = 4 /\ o.r.out[1] \in 1..Len(host'.ids)
    <3>1. call.fn \in Opens => box.frame.fn = call.fn /\ call.fn \in OnPath
      BY <2>1 DEF Put, QueryFn, Opens, OnPath
    <3> QED
      BY <2>1, <2>2, <2>4, <3>1, DoesCases, OpensFit
  <2>6. /\ call.fn = "SKFMEND" => o.r.out \in Seq(Nat) /\ Len(o.r.out) = 1
        /\ call.fn = "WRITEFIL" => o.r.out \in Seq(Nat) /\ Len(o.r.out) = 1
        /\ call.fn = "READFIL" => o.r.out \in Seq(Int) /\ o.r.len = Len(o.r.out)
    <3>1. call.fn \in {"SKFMEND", "WRITEFIL", "READFIL"} => box.frame.fn = call.fn /\ call.fn \in OnHandle
      BY <2>1 DEF Put, QueryFn, OnHandle
    <3> QED
      BY <2>1, <2>3, <2>4, <3>1, DoesCases, FilesFit
  <2>7. call.fn \in {"FINDFIRST", "FINDNEXT"} => o.r.out \in STRING \X (0..Tokens - 1) \X Nat
    <3>1. call.fn \in {"FINDFIRST", "FINDNEXT"} => box.frame.fn = call.fn
      BY <2>1 DEF Put, QueryFn
    <3> QED
      BY <2>1, <2>3, <2>4, <3>1, DoesCases, SearchesServed
  <2> QED
    BY <2>1, <2>2, <2>5, <2>6, <2>7 DEF Fits
<1>3. CASE HostAnswers
  <2>1. box'.frame = box.frame /\ UNCHANGED <<cpu, call, host>>
    BY <1>3 DEF HostAnswers, TypeInv, BoxTyped
  <2> QED
    BY <2>1 DEF Fits, Served, Good, At, R
<1>4. CASE UNCHANGED <<dos, tsr, box, host, cpu, call, ret, hist>>
  BY <1>4 DEF Fits, Served, Good, At, R
<1>5. ASSUME ~At("wait")' \/ box'.frame.fn # "answer"
      PROVE  Fits'
  BY <1>5 DEF Fits, Served
<1>6. ASSUME NEW k \in hist.prog.calls, Begin(k)
      PROVE  ~At("wait")'
  BY <1>1, <1>6 DEF Begin, At, Cpu
<1>7. CASE Enter
  BY <1>1, <1>5, <1>7, WhereEnter DEF At
<1>8. CASE Work
  <2>1. CASE ~At("wait")'
    BY <1>5, <2>1
  <2>2. CASE At("wait")'
    <3>1. Asking'
      <4>1. box'.frame = Query(call) /\ box' = [number |-> NextNumber(box.number), ack |-> Mark, frame |-> Query(call)]
        BY <1>1, <1>8, <2>2, WhereWork DEF At
      <4>2. Query(call).fn = Put /\ call.fn \in supportedfunctions
        <5>1. call.fn \in Moves => call.n # 0
          BY <1>1, <1>8, <2>2, WhereWork DEF At, Nothing
        <5>2. call.fn \in supportedfunctions /\ (call.fn \in Moves => cpu.total < call.n)
          BY <1>8, <5>1, WorkTypes
        <5>3. call.fn = "WRITEFIL" => dos.buf = call.data
          BY <1>8 DEF Moving, WritePart, At, Moves, Work
        <5> QED
          BY <5>2, <5>3, QueryTyped DEF TypeInv
      <4> QED
        BY <2>2, <4>1, <4>2 DEF Asking, Put, QueryFn, supportedfunctions, OnHandle, OnPath, At
    <3> QED
      BY <1>5, <3>1 DEF Asking
  <2> QED
    BY <2>1, <2>2
<1>9. CASE Answers
  BY <1>1, <1>5, <1>9, WhereAnswers DEF At
<1>10. CASE Leaves
  BY <1>5, <1>10, WhereLeaves DEF At, TypeInv
<1> QED
  BY <1>2, <1>3, <1>4, <1>5, <1>6, <1>7, <1>8, <1>9, <1>10, StepCases

=============================================================================
