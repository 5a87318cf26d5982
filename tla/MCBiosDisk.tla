----------------------------- MODULE MCBiosDisk -----------------------------
(* The machines and the calls that make the cases of BiosDisk happen.      *)
EXTENDS BiosDisk

NoDev == [kind |-> "none", pchs |-> [c |-> 0, h |-> 0, s |-> 0], total |-> 0, trans |-> "none",
          bad |-> {}, boot |-> FALSE]
Hd(c, h, s, total, trans, bad, boot) ==
  [kind |-> "ata", pchs |-> [c |-> c, h |-> h, s |-> s], total |-> total, trans |-> trans,
   bad |-> bad, boot |-> boot]
Cd == [NoDev EXCEPT !.kind = "atapi", !.boot = TRUE]
Disc(in, media, nb, v) ==
  [in |-> in, reason |-> "none", total |-> 400, volume |-> TRUE, catalog |-> TRUE, cat |-> 20, media |-> media,
   seg |-> 1984, nb |-> nb, lba |-> 30, v |-> v]
Machine(d0, d1, d2, disc, floppy, check, order, first) ==
  [dev |-> [d \in Devices |-> CASE d = 0 -> d0 [] d = 1 -> d1 [] d = 2 -> d2 [] OTHER -> NoDev],
   cmos |-> [i \in {0, 1} |-> LET d == IF i = 0 THEN d0 ELSE d1 IN
               [type |-> IF d.kind = "ata" THEN 15 ELSE 0, chs |-> d.pchs]],
   disc |-> disc, floppy |-> floppy, check |-> check, order |-> order, first |-> first]
V144 == [c |-> 80, h |-> 2, s |-> 18]
Empty(reason) == [Disc(FALSE, 0, 4, V144) EXCEPT !.reason = reason]
MCMachines ==
  { \* a LARGE disk and a CD-ROM that emulates a diskette
    Machine(Hd(2000, 16, 63, 2016000, "large", {2015997}, TRUE), NoDev, Cd,
            Disc(TRUE, 2, 5, V144), "data", TRUE, <<1, 3, 2>>, 0),
    \* a CD-ROM that emulates a hard disk before a disk past 28 bits
    Machine(Cd, NoDev, Hd(16383, 16, 63, 268435466, "lba", {}, TRUE),
            Disc(TRUE, 4, 1, [c |-> 10, h |-> 2, s |-> 9]), "none", FALSE, <<3, 2, 0>>, 0),
    \* two small disks on a channel, the first not bootable
    Machine(Hd(100, 16, 9, 14400, "rechs", {}, FALSE), Hd(20, 4, 9, 720, "none", {0}, TRUE), NoDev,
            Empty("none"), "data", FALSE, <<2, 4, 1>>, 2),
    \* no disc in the drive that was chosen by hand
    Machine(Hd(20, 4, 9, 720, "none", {}, TRUE), NoDev, Cd, Empty("becoming"), "boot", TRUE, <<3, 2, 1>>, 3),
    \* a disc that boots without emulation
    Machine(Cd, NoDev, NoDev, Disc(TRUE, 0, 4, V144), "none", TRUE, <<3, 1, 0>>, 0) }
  \cup \* an empty drive and nothing else
  {Machine(Cd, NoDev, NoDev, Empty(r), "none", TRUE, <<3, 0, 0>>, 0) : r \in {"absent", "other"}}

K(fn, dl) == [BootCall(dl) EXCEPT !.fn = fn, !.seg = 4096]
Chs(fn, dl, al, c, h, s, off) ==
  [K(fn, dl) EXCEPT !.al = al, !.c = c, !.h = h, !.s = s, !.off = off]
Ext(fn, dl, lba, count, off) == [K(fn, dl) EXCEPT !.lba = lba, !.count = count, !.off = off]
MCCalls ==
  { Chs("02", 128, 2, 3, 1, 2, 65024), Chs("02", 128, 3, 19, 1, 8, 0), Chs("03", 128, 1, 0, 3, 9, 63489),
    Chs("02", 129, 2, 3, 1, 2, 512), Chs("02", 0, 3, 1, 1, 4, 65000), Chs("02", 0, 0, 1, 1, 4, 0),
    Chs("02", 128, 1, 1024, 0, 1, 0), Chs("04", 128, 1, 0, 1, 1, 0), Chs("02", 0, 6, 0, 1, 18, 0),
    Chs("04", 0, 1, 0, 1, 1, 0), Chs("02", 0, 1, 0, 9, 1, 0),
    Ext("42", 128, 718, 2, 0), Ext("42", 129, 2015995, 3, 0), Ext("43", 128, 268435455, 2, 65024),
    Ext("42", 128, 5, 257, 0), Ext("42", 128, 719, 3, 0), Ext("44", 128, 0, 1, 0), Ext("42", 224, 18, 2, 15),
    Ext("42", 224, 399, 2, 0), Ext("47", 224, 0, 1, 0), Ext("43", 224, 0, 1, 0),
    [Ext("42", 128, 0, 1, 0) EXCEPT !.high = 1], [Ext("42", 224, 0, 1, 0) EXCEPT !.high = 1],
    [K("48", 128) EXCEPT !.size = 74], [K("48", 224) EXCEPT !.size = 20], [K("4E", 128) EXCEPT !.al = 3],
    [K("4E", 224) EXCEPT !.al = 2], [K("4B", 0) EXCEPT !.al = 0], [K("45", 224) EXCEPT !.al = 0],
    [K("45", 224) EXCEPT !.al = 1], [K("45", 224) EXCEPT !.al = 2], K("4A", 0), K("02", 5) }
  \cup {K(fn, 128) : fn \in {"00", "01", "05", "08", "10", "15", "41", "45", "46", "50"}}
  \cup {K(fn, 224) : fn \in {"00", "01", "02", "15", "41", "46", "49"}}
  \cup {K(fn, 0) : fn \in {"00", "01", "05", "08", "15", "41"}} \cup {K("08", 129), K("08", 131), K("00", 225)}
=============================================================================
